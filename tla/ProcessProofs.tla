--------------------------- MODULE ProcessProofs ---------------------------
(***************************************************************************)
(* Proofs about Process, for every configuration file, any failures of     *)
(* sockets, any signals and any names to look up.                          *)
(***************************************************************************)
EXTENDS Process, SequenceTheorems, TLAPS

-----------------------------------------------------------------------------
\* The lines of the file.

LEMMA DefaultsTyped ==
  /\ Defaults \in Settings
  /\ DefaultIntervals \in Seq(Unsigned) \ {<<>>}
<1> USE ConfigAssumption DEF Unsigned, DefaultIntervals
<1>1. DefaultIntervals \in Seq(Unsigned) /\ DefaultIntervals # <<>>
  OBVIOUS
<1>2. 600 \in Unsigned /\ Error \in Level
  BY DEF Error, Level, Debug
<1> QED
  BY <1>1, <1>2 DEF Defaults, Settings

\* A list of tokens always gives a list of intervals that is not empty.
LEMMA IntervalsTyped ==
  ASSUME NEW tokens \in Seq(Nat \cup {Invalid})
  PROVE  IntervalsOf(tokens) \in Seq(Unsigned) \ {<<>>}
<1>1. CASE ParseListUnsigned(tokens) = <<>>
  BY <1>1, DefaultsTyped DEF IntervalsOf
<1>2. CASE ParseListUnsigned(tokens) # <<>>
  <2>1. \A i \in DOMAIN tokens : ~Unreadable(tokens[i])
    BY <1>2 DEF ParseListUnsigned
  <2>2. ParseListUnsigned(tokens) = [i \in DOMAIN tokens |-> tokens[i] % Word]
    BY <2>1 DEF ParseListUnsigned
  <2>3. \A i \in 1 .. Len(tokens) : tokens[i] \in Nat
    BY <2>1 DEF Unreadable
  <2>4. \A n \in Nat : n % Word \in Unsigned
    BY ConfigAssumption DEF Unsigned
  <2>5. [i \in DOMAIN tokens |-> tokens[i] % Word] \in Seq(Unsigned)
    BY <2>3, <2>4
  <2> QED
    BY <1>2, <2>2, <2>5 DEF IntervalsOf
<1> QED
  BY <1>1, <1>2

\* The fields a line has, by its keyword.
LEMMA LineFields ==
  ASSUME NEW line \in Line
  PROVE  /\ line.key \in {"ALLOW_PV", "DENY_PV", "ALLOW_CLIENT", "DENY_CLIENT"} =>
              line.pattern \in Pattern
         /\ line.key = "LOG_LEVEL" => line.level \in Level \cup {Invalid}
         /\ line.key = "SEARCH_INTERVALS" => line.tokens \in Seq(Nat \cup {Invalid}) \ {<<>>}
         /\ line.key = "PURGE_DELAY" => line.delay \in Nat
         /\ line.key \in {"CA_LISTEN_ADDRESS", "CA_SEARCH_ADDRESS"} =>
              line.ip \in Ip /\ line.port \in Nat
BY DEF Line

LEMMA AddressTyped ==
  ASSUME NEW ip \in Ip, NEW port \in Nat, UsablePort(port)
  PROVE  [ip |-> ip, port |-> port] \in Address
BY DEF Address

LEMMA EntryTyped ==
  ASSUME NEW line, line.pattern \in Pattern
  PROVE  EntryOf(line) \in Entry
<1>1. Action(line) \in {"ALLOW", "DENY"}
  BY DEF Action
<1> QED
  BY <1>1 DEF EntryOf, Entry

\* What each field of the settings may be set to.
LEMMA SettingsUpdates ==
  ASSUME NEW s \in Settings
  PROVE  /\ \A e \in Entry : [s EXCEPT !.pvs = Append(s.pvs, e)] \in Settings
         /\ \A e \in Entry : [s EXCEPT !.clients = Append(s.clients, e)] \in Settings
         /\ \A l \in Level : [s EXCEPT !.logLevel = l] \in Settings
         /\ \A i \in Seq(Unsigned) : [s EXCEPT !.searchIntervals = i] \in Settings
         /\ \A n \in Unsigned : [s EXCEPT !.purgeDelay = n] \in Settings
         /\ \A a \in Address : [s EXCEPT !.listen = Append(s.listen, a)] \in Settings
         /\ \A a \in Address : [s EXCEPT !.search = Append(s.search, a)] \in Settings
<1>1. /\ s.pvs \in Seq(Entry) /\ s.clients \in Seq(Entry)
      /\ s.listen \in Seq(Address) /\ s.search \in Seq(Address)
  BY DEF Settings
<1>2. /\ \A e \in Entry : Append(s.pvs, e) \in Seq(Entry) /\ Append(s.clients, e) \in Seq(Entry)
      /\ \A a \in Address : Append(s.listen, a) \in Seq(Address)
                            /\ Append(s.search, a) \in Seq(Address)
  BY <1>1
<1>3. /\ \A x \in Seq(Entry) : [s EXCEPT !.pvs = x] \in Settings
      /\ \A x \in Seq(Entry) : [s EXCEPT !.clients = x] \in Settings
  BY DEF Settings
<1>4. /\ \A x \in Level : [s EXCEPT !.logLevel = x] \in Settings
      /\ \A x \in Seq(Unsigned) : [s EXCEPT !.searchIntervals = x] \in Settings
      /\ \A x \in Unsigned : [s EXCEPT !.purgeDelay = x] \in Settings
  BY DEF Settings
<1>5. /\ \A x \in Seq(Address) : [s EXCEPT !.listen = x] \in Settings
      /\ \A x \in Seq(Address) : [s EXCEPT !.search = x] \in Settings
  BY DEF Settings
<1> QED
  BY <1>2, <1>3, <1>4, <1>5

\* Whatever the line, the settings keep their types and have an interval left.
LEMMA AppliedTyped ==
  ASSUME NEW s \in Settings, NEW line \in Line, s.searchIntervals # <<>>
  PROVE  /\ Applied(s, line) \in Settings
         /\ Applied(s, line).searchIntervals # <<>>
<1> DEFINE t == Applied(s, line)
<1> USE LineFields, SettingsUpdates
<1>1. CASE line.key \in {"ALLOW_PV", "DENY_PV"}
  <2>1. t = [s EXCEPT !.pvs = Append(s.pvs, EntryOf(line))]
    BY <1>1 DEF Applied
  <2>2. EntryOf(line) \in Entry
    BY <1>1, EntryTyped
  <2>3. t \in Settings
    BY <2>1, <2>2
  <2> QED
    BY <2>1, <2>3 DEF Settings
<1>2. CASE line.key \in {"ALLOW_CLIENT", "DENY_CLIENT"}
  <2>1. t = [s EXCEPT !.clients = Append(s.clients, EntryOf(line))]
    BY <1>2 DEF Applied
  <2>2. EntryOf(line) \in Entry
    BY <1>2, EntryTyped
  <2>3. t \in Settings
    BY <2>1, <2>2
  <2> QED
    BY <2>1, <2>3 DEF Settings
<1>3. CASE line.key = "LOG_LEVEL" /\ line.level # Invalid
  <2>1. t = [s EXCEPT !.logLevel = line.level]
    BY <1>3 DEF Applied
  <2>2. t \in Settings
    BY <1>3, <2>1
  <2> QED
    BY <2>1, <2>2 DEF Settings
<1>4. CASE line.key = "SEARCH_INTERVALS"
  <2>1. t = [s EXCEPT !.searchIntervals = IntervalsOf(line.tokens)]
    BY <1>4 DEF Applied
  <2>2. IntervalsOf(line.tokens) \in Seq(Unsigned) \ {<<>>}
    BY <1>4, IntervalsTyped
  <2>3. t \in Settings
    BY <2>1, <2>2
  <2> QED
    BY <2>1, <2>2, <2>3 DEF Settings
<1>5. CASE line.key = "PURGE_DELAY" /\ line.delay > 0
  <2>1. t = [s EXCEPT !.purgeDelay = line.delay % Word]
    BY <1>5 DEF Applied
  <2>2. line.delay % Word \in Unsigned
    BY <1>5, ConfigAssumption DEF Unsigned
  <2>3. t \in Settings
    BY <2>1, <2>2
  <2> QED
    BY <2>1, <2>3 DEF Settings
<1>6. CASE line.key = "CA_LISTEN_ADDRESS" /\ UsablePort(line.port)
  <2>1. t = [s EXCEPT !.listen = Append(s.listen, AddressOf(line))]
    BY <1>6 DEF Applied
  <2>2. line.ip \in Ip /\ line.port \in Nat
    BY <1>6
  <2>3. AddressOf(line) \in Address
    BY <1>6, <2>2, AddressTyped DEF AddressOf
  <2>4. t \in Settings
    BY <2>1, <2>3
  <2> QED
    BY <2>1, <2>4 DEF Settings
<1>7. CASE line.key = "CA_SEARCH_ADDRESS" /\ UsablePort(line.port)
  <2>1. t = [s EXCEPT !.search = Append(s.search, AddressOf(line))]
    BY <1>7 DEF Applied
  <2>2. line.ip \in Ip /\ line.port \in Nat
    BY <1>7
  <2>3. AddressOf(line) \in Address
    BY <1>7, <2>2, AddressTyped DEF AddressOf
  <2>4. t \in Settings
    BY <2>1, <2>3
  <2> QED
    BY <2>1, <2>4 DEF Settings
<1>8. CASE /\ line.key \notin {"ALLOW_PV", "DENY_PV", "ALLOW_CLIENT", "DENY_CLIENT"}
           /\ ~(line.key = "LOG_LEVEL" /\ line.level # Invalid)
           /\ line.key # "SEARCH_INTERVALS"
           /\ ~(line.key = "PURGE_DELAY" /\ line.delay > 0)
           /\ ~(line.key = "CA_LISTEN_ADDRESS" /\ UsablePort(line.port))
           /\ ~(line.key = "CA_SEARCH_ADDRESS" /\ UsablePort(line.port))
  BY <1>8 DEF Applied
<1> QED
  BY <1>1, <1>2, <1>3, <1>4, <1>5, <1>6, <1>7, <1>8

LEMMA FinishedTyped ==
  ASSUME NEW s \in Settings
  PROVE  /\ Finished(s) \in Settings
         /\ Finished(s).searchIntervals = s.searchIntervals
<1>1. DefaultAddress \in Address
  BY AddressTyped, ConfigAssumption DEF DefaultAddress, UsablePort
<1>2. <<DefaultAddress>> \in Seq(Address)
  BY <1>1
<1>3. CASE s.listen = <<>>
  <2>1. Finished(s) = [s EXCEPT !.listen = <<DefaultAddress>>]
    BY <1>3 DEF Finished
  <2>2. [s EXCEPT !.listen = <<DefaultAddress>>] \in Settings
    BY <1>2 DEF Settings
  <2> QED
    BY <2>1, <2>2 DEF Settings
<1>4. CASE s.listen # <<>>
  BY <1>4 DEF Finished
<1> QED
  BY <1>3, <1>4

-----------------------------------------------------------------------------
\* The names.

LEMMA OfTwo ==
  ASSUME NEW m \in Int, NEW n \in Int
  PROVE  /\ Min({m, n}) = IF m <= n THEN m ELSE n
         /\ Max({m, n}) = IF m <= n THEN n ELSE m
<1> DEFINE k == IF m <= n THEN m ELSE n
           l == IF m <= n THEN n ELSE m
<1>1. /\ k \in {m, n} /\ \A j \in {m, n} : k <= j
      /\ l \in {m, n} /\ \A j \in {m, n} : l >= j
  OBVIOUS
<1>2. /\ \A x \in {m, n} : (\A j \in {m, n} : x <= j) => x = k
      /\ \A x \in {m, n} : (\A j \in {m, n} : x >= j) => x = l
  OBVIOUS
<1> HIDE DEF k, l
<1>3. Min({m, n}) = k
  BY <1>1, <1>2 DEF Min
<1>4. Max({m, n}) = l
  BY <1>1, <1>2 DEF Max
<1> QED
  BY <1>3, <1>4 DEF k, l

\* While an address is looked up the time since it began is the time the process
\* waits; an entry lasts until MinTtl after its look-up at least, and until
\* MaxTtl after it at most.
NamesInv ==
  /\ DnsTypeOK
  /\ \A ip \in LogIp :
       /\ looking = ip => since[ip] = Min({stalled, MaxTtl + 1})
       /\ looking # ip => since[ip] + left[ip] >= MinTtl
  /\ NamesAreRecent

LEMMA TtlTyped ==
  ASSUME NEW record \in RecordTtl \cup {NoRecord}
  PROVE  TtlOf(record) \in MinTtl .. MaxTtl
<1>1. CASE record = NoRecord
  BY <1>1, DnsCacheAssumption DEF TtlOf
<1>2. CASE record # NoRecord
  <2>1. record \in 0 .. MaxTtl /\ record \in Int /\ MinTtl \in Int
    BY <1>2, DnsCacheAssumption
  <2>2. Max({record, MinTtl}) = IF record <= MinTtl THEN MinTtl ELSE record
    BY <2>1, OfTwo
  <2> QED
    BY <1>2, <2>1, <2>2, DnsCacheAssumption DEF TtlOf
<1> QED
  BY <1>1, <1>2

LEMMA LookedUpKeepsNames ==
  ASSUME NamesInv, LookedUp
  PROVE  NamesInv'
<1> USE DnsCacheAssumption DEF NamesInv, DnsTypeOK, Expired
<1>1. PICK record \in RecordTtl \cup {NoRecord} :
        left' = [left EXCEPT ![looking] = LeftOf(TtlOf(record))]
  BY DEF LookedUp
<1> DEFINE ttl == TtlOf(record)
<1>2. ttl \in MinTtl .. MaxTtl
  BY TtlTyped
<1> HIDE DEF ttl
<1>3. looking \in LogIp /\ looking' = NoIp /\ stalled' = 0 /\ since' = since
  BY DEF LookedUp
<1>4. LeftOf(ttl) = IF ttl - stalled <= -1 THEN -1 ELSE ttl - stalled
  <2> DEFINE n == ttl - stalled
  <2>1. n \in Int /\ -1 \in Int
    BY <1>2
  <2> HIDE DEF n
  <2>2. Max({n, -1}) = IF n <= -1 THEN -1 ELSE n
    BY <2>1, OfTwo
  <2> QED
    BY <2>2 DEF LeftOf, n
<1>5. since[looking] = IF stalled <= MaxTtl + 1 THEN stalled ELSE MaxTtl + 1
  BY <1>3, OfTwo
<1>6. /\ LeftOf(ttl) \in Expired .. MaxTtl
      /\ since[looking] + LeftOf(ttl) >= MinTtl
      /\ LeftOf(ttl) # Expired => since[looking] + LeftOf(ttl) <= MaxTtl
  BY <1>2, <1>4, <1>5
<1>7. left' = [left EXCEPT ![looking] = LeftOf(ttl)]
  BY <1>1 DEF ttl
<1>8. DnsTypeOK'
  BY <1>3, <1>6, <1>7
<1>9. ASSUME NEW ip \in LogIp
      PROVE  /\ looking' # ip
             /\ since'[ip] + left'[ip] >= MinTtl
             /\ left'[ip] # Expired => since'[ip] + left'[ip] <= MaxTtl
  <2>1. CASE ip = looking
    BY <1>3, <1>6, <1>7, <2>1
  <2>2. CASE ip # looking
    BY <1>3, <1>7, <2>2 DEF NamesAreRecent
  <2> QED
    BY <2>1, <2>2
<1> QED
  BY <1>8, <1>9 DEF NamesAreRecent

LEMMA TickKeepsNames ==
  ASSUME NamesInv, DnsTick
  PROVE  NamesInv'
<1> USE DnsCacheAssumption DEF NamesInv, DnsTypeOK, Expired
<1>1. ASSUME NEW ip \in LogIp
      PROVE  /\ left'[ip] = IF left[ip] - 1 <= -1 THEN -1 ELSE left[ip] - 1
             /\ since'[ip] = IF since[ip] + 1 <= MaxTtl + 1 THEN since[ip] + 1 ELSE MaxTtl + 1
  <2> DEFINE l == left[ip] - 1
             n == since[ip] + 1
             m == MaxTtl + 1
  <2>1. l \in Int /\ n \in Int /\ m \in Int /\ -1 \in Int
    OBVIOUS
  <2>2. left'[ip] = Max({l, -1}) /\ since'[ip] = Min({n, m})
    BY DEF DnsTick
  <2> HIDE DEF l, n, m
  <2>3. /\ left'[ip] = IF l <= -1 THEN -1 ELSE l
        /\ since'[ip] = IF n <= m THEN n ELSE m
    BY <2>1, <2>2, OfTwo
  <2> QED
    BY <2>3 DEF l, n, m
<1>2. /\ looking' = looking
      /\ stalled' = IF looking = NoIp THEN 0 ELSE stalled + 1
      /\ looking # NoIp => stalled < MaxStall
      /\ left' = [ip \in LogIp |-> left'[ip]] /\ since' = [ip \in LogIp |-> since'[ip]]
  BY DEF DnsTick
<1>3. /\ \A ip \in LogIp : left'[ip] \in Expired .. MaxTtl /\ since'[ip] \in 0 .. MaxTtl + 1
      /\ stalled' \in 0 .. MaxStall
  BY <1>1, <1>2
<1>4. DnsTypeOK'
  BY <1>2, <1>3
<1>5. ASSUME NEW ip \in LogIp
      PROVE  /\ looking' = ip => since'[ip] = Min({stalled', MaxTtl + 1})
             /\ looking' # ip => since'[ip] + left'[ip] >= MinTtl
             /\ left'[ip] # Expired => since'[ip] + left'[ip] <= MaxTtl
  <2>1. ASSUME looking = ip
        PROVE  since'[ip] = Min({stalled', MaxTtl + 1})
    <3>1. since[ip] = IF stalled <= MaxTtl + 1 THEN stalled ELSE MaxTtl + 1
      BY <2>1, OfTwo
    <3>2. Min({stalled', MaxTtl + 1}) =
            IF stalled' <= MaxTtl + 1 THEN stalled' ELSE MaxTtl + 1
      <4>1. stalled' \in Int /\ MaxTtl + 1 \in Int
        BY <1>3
      <4> QED
        BY <4>1, OfTwo
    <3> QED
      BY <1>1, <1>2, <2>1, <3>1, <3>2
  <2>2. ASSUME looking # ip PROVE since'[ip] + left'[ip] >= MinTtl
    BY <1>1, <2>2
  <2>3. ASSUME left'[ip] # Expired PROVE since'[ip] + left'[ip] <= MaxTtl
    BY <1>1, <2>3 DEF NamesAreRecent
  <2> QED
    BY <1>2, <2>1, <2>2, <2>3
<1> QED
  BY <1>4, <1>5 DEF NamesAreRecent

LEMMA LookUpKeepsNames ==
  ASSUME NamesInv, NEW ip \in LogIp, LookUp(ip)
  PROVE  NamesInv'
<1> USE DnsCacheAssumption DEF NamesInv, DnsTypeOK, Expired
<1>1. /\ left' = left /\ looking' = ip /\ stalled' = 0 /\ left[ip] = -1
      /\ since' = [since EXCEPT ![ip] = 0] /\ looking = NoIp
  BY DEF LookUp
<1>2. Min({0, MaxTtl + 1}) = 0
  BY OfTwo
<1> QED
  BY <1>1, <1>2 DEF NamesAreRecent

LEMMA NamesInductive == NamesInv /\ [Next]_vars => NamesInv'
<1> SUFFICES ASSUME NamesInv, [Next]_vars PROVE NamesInv'
  OBVIOUS
<1>1. ASSUME UNCHANGED dnsVars PROVE NamesInv'
  BY <1>1 DEF NamesInv, DnsTypeOK, NamesAreRecent, dnsVars
<1>2. CASE Resolve
  BY <1>2, LookUpKeepsNames, LookedUpKeepsNames DEF Resolve
<1>3. CASE SecondPasses
  BY <1>3, TickKeepsNames DEF SecondPasses
<1>4. CASE UNCHANGED vars
  BY <1>1, <1>4 DEF vars
<1>5. CASE ParseLine \/ ParseThrows \/ EndOfFile
  BY <1>1, <1>5 DEF ParseLine, ParseThrows, EndOfFile
<1>6. CASE AddListener \/ AddSearcher \/ SocketException \/ EndOfLoop \/ InstallHandler
  BY <1>1, <1>6 DEF AddListener, AddSearcher, SocketException, EndOfLoop, InstallHandler
<1>7. CASE KilledBySignal \/ (\E sig \in Signal : SignalArrives(sig)) \/ HandlerReturns \/ Crash
  BY <1>1, <1>7 DEF KilledBySignal, SignalArrives, HandlerReturns, Crash
<1> QED
  BY <1>2, <1>3, <1>4, <1>5, <1>6, <1>7 DEF Next

LEMMA NamesInit == Init => NamesInv
<1> SUFFICES ASSUME Init PROVE NamesInv
  OBVIOUS
<1>1. DnsTypeOK
  BY DnsCacheAssumption DEF Init, DnsInit, DnsTypeOK, Expired
<1> QED
  BY <1>1, DnsCacheAssumption DEF Init, DnsInit, NamesInv, NamesAreRecent, Expired

\* No name in the log is older than the longest lifetime, whatever the records
\* say and however long their look-ups take.
THEOREM NamesRecent == Spec => []NamesAreRecent
<1>1. NamesInv => NamesAreRecent
  BY DEF NamesInv
<1> QED
  BY NamesInit, NamesInductive, <1>1, PTL DEF Spec

\* An address stalls the process at most once in MinTtl seconds, whatever its
\* record says and however long its look-ups take.
THEOREM StallsSeldom == Spec => StallsOncePerTtl
<1>1. NamesInv /\ [Next]_vars
        => [\A ip \in LogIp : since'[ip] < since[ip] => since[ip] > MinTtl]_dnsVars
  <2> SUFFICES ASSUME NamesInv, Next, NEW ip \in LogIp, since'[ip] < since[ip]
               PROVE  since[ip] > MinTtl
    BY DEF vars, dnsVars
  <2> USE DnsCacheAssumption DEF NamesInv, DnsTypeOK, Expired
  <2>1. ASSUME UNCHANGED since PROVE FALSE
    BY <2>1
  <2>2. ASSUME NEW jp \in LogIp, LookUp(jp) PROVE since[ip] > MinTtl
    BY <2>2 DEF LookUp
  <2>3. CASE LookedUp
    BY <2>1, <2>3 DEF LookedUp
  <2>4. CASE SecondPasses
    <3>1. since'[ip] = Min({since[ip] + 1, MaxTtl + 1})
      BY <2>4 DEF SecondPasses, DnsTick
    <3> QED
      BY <3>1, OfTwo
  <2>5. CASE Resolve
    BY <2>2, <2>3, <2>5 DEF Resolve
  <2>6. CASE ParseLine \/ ParseThrows \/ EndOfFile
    BY <2>1, <2>6 DEF ParseLine, ParseThrows, EndOfFile, dnsVars
  <2>7. CASE AddListener \/ AddSearcher \/ SocketException \/ EndOfLoop \/ InstallHandler
    BY <2>1, <2>7 DEF AddListener, AddSearcher, SocketException, EndOfLoop, InstallHandler, dnsVars
  <2>8. CASE KilledBySignal \/ (\E sig \in Signal : SignalArrives(sig)) \/ HandlerReturns \/ Crash
    BY <2>1, <2>8 DEF KilledBySignal, SignalArrives, HandlerReturns, Crash, dnsVars
  <2> QED
    BY <2>4, <2>5, <2>6, <2>7, <2>8 DEF Next
<1> QED
  BY NamesInit, NamesInductive, <1>1, PTL DEF Spec, StallsOncePerTtl

-----------------------------------------------------------------------------
\* The settings.

SettingsInv ==
  /\ file \in Seq(Line)
  /\ lineno \in Nat \ {0}
  /\ settings \in Settings
  /\ settings.searchIntervals # <<>>

LEMMA SettingsInit == Init => SettingsInv
<1> SUFFICES ASSUME Init PROVE SettingsInv
  OBVIOUS
<1>1. settings.searchIntervals = DefaultIntervals
  BY DEF Init, Defaults
<1> QED
  BY <1>1, DefaultsTyped, ProcessAssumption DEF Init, SettingsInv

LEMMA SettingsInductive == SettingsInv /\ [Next]_vars => SettingsInv'
<1> SUFFICES ASSUME SettingsInv, [Next]_vars PROVE SettingsInv'
  OBVIOUS
<1>1. ASSUME UNCHANGED <<file, lineno, settings>> PROVE SettingsInv'
  BY <1>1 DEF SettingsInv
<1>2. CASE ParseLine
  <2>1. file[lineno] \in Line
    BY <1>2 DEF ParseLine, SettingsInv
  <2>2. settings' = Applied(settings, file[lineno]) /\ lineno' = lineno + 1 /\ file' = file
    BY <1>2 DEF ParseLine
  <2> QED
    BY <2>1, <2>2, AppliedTyped DEF SettingsInv
<1>3. CASE EndOfFile
  <2>1. settings' = Finished(settings) /\ lineno' = lineno /\ file' = file
    BY <1>3 DEF EndOfFile
  <2> QED
    BY <2>1, FinishedTyped DEF SettingsInv
<1>4. CASE UNCHANGED vars
  BY <1>1, <1>4 DEF vars, setup
<1>5. CASE ParseThrows \/ EndOfLoop \/ InstallHandler
  BY <1>1, <1>5 DEF ParseThrows, EndOfLoop, InstallHandler, setup
<1>6. CASE AddListener \/ AddSearcher \/ SocketException
  BY <1>1, <1>6 DEF AddListener, AddSearcher, SocketException
<1>7. CASE KilledBySignal \/ (\E sig \in Signal : SignalArrives(sig)) \/ HandlerReturns
  BY <1>1, <1>7 DEF KilledBySignal, SignalArrives, HandlerReturns, setup
<1>8. CASE Crash \/ Resolve \/ SecondPasses
  BY <1>1, <1>8 DEF Crash, Resolve, SecondPasses, setup
<1> QED
  BY <1>2, <1>3, <1>4, <1>5, <1>6, <1>7, <1>8 DEF Next

\* No configuration file, whatever it says and however often, leaves a searcher
\* without a search interval.
THEOREM AlwaysAnInterval == Spec => []SettingsUsable
<1>1. SettingsInv => SettingsUsable
  BY DEF SettingsInv, SettingsUsable, Settings
<1> QED
  BY SettingsInit, SettingsInductive, <1>1, PTL DEF Spec

-----------------------------------------------------------------------------
\* The log level.

\* Signals are handled only after the level was set, and a handler never read a
\* level above the configured one.
LevelInv ==
  /\ level \in Level /\ settings.logLevel \in Level
  /\ handlers \in Seq(Handler)
  /\ pc = "parse" => installed = {}
  /\ installed = {} => handlers = <<>>
  /\ pc \notin {"parse"} \cup Ended => level <= settings.logLevel
  /\ AtLeastConfigured
  /\ \A i \in 1 .. Len(handlers) : handlers[i].saw <= settings.logLevel

LEMMA LevelInit == Init => LevelInv
<1> SUFFICES ASSUME Init PROVE LevelInv
  OBVIOUS
<1>1. settings.logLevel = Error
  BY DEF Init, Defaults
<1> QED
  BY <1>1 DEF Init, LevelInv, AtLeastConfigured, Error, Level, Debug

LEMMA SignalKeepsLevel ==
  ASSUME LevelInv, NEW sig \in Signal, SignalArrives(sig)
  PROVE  LevelInv'
<1> DEFINE h == [signal |-> sig, saw |-> level]
<1>1. /\ handlers' = Append(handlers, h) /\ sig \in installed
      /\ UNCHANGED <<pc, settings, level, installed>>
  BY DEF SignalArrives, setup
<1>2. h \in Handler /\ h.saw <= settings.logLevel
  BY <1>1 DEF LevelInv, AtLeastConfigured, Handler
<1> HIDE DEF h
<1>3. /\ handlers' \in Seq(Handler)
      /\ \A i \in 1 .. Len(handlers') : handlers'[i].saw <= settings.logLevel
  BY <1>1, <1>2, AppendProperties DEF LevelInv
<1> QED
  BY <1>1, <1>3 DEF LevelInv, AtLeastConfigured

LEMMA HandlerKeepsLevel ==
  ASSUME LevelInv, HandlerReturns
  PROVE  LevelInv'
<1> DEFINE n == Len(handlers)
           h == handlers[n]
<1>1. /\ handlers # <<>> /\ pc \notin Ended
      /\ level' = IF h.signal = "USR2" THEN MoreVerbose(h.saw)
                  ELSE IF h.saw # settings.logLevel THEN settings.logLevel
                  ELSE level
      /\ handlers' = SubSeq(handlers, 1, n - 1)
      /\ UNCHANGED <<pc, settings, installed>>
  BY DEF HandlerReturns, setup
<1>2. handlers \in Seq(Handler) /\ n \in Nat \ {0}
  BY <1>1 DEF LevelInv
<1>3. \A i \in 1 .. n : handlers[i] \in Handler /\ handlers[i].saw <= settings.logLevel
  BY <1>2 DEF LevelInv
<1>4. h.saw \in Level /\ h.saw <= settings.logLevel
  BY <1>2, <1>3 DEF Handler
<1>5. \A i \in 1 .. n - 1 : handlers[i] \in Handler
  BY <1>2, <1>3
<1>6. /\ SubSeq(handlers, 1, n - 1) \in Seq(Handler)
      /\ Len(SubSeq(handlers, 1, n - 1)) = n - 1
      /\ \A i \in 1 .. n - 1 : SubSeq(handlers, 1, n - 1)[i] = handlers[i]
  <2> HIDE DEF n
  <2>1. n - 1 \in Int
    BY <1>2
  <2>2. /\ SubSeq(handlers, 1, n - 1) \in Seq(Handler)
        /\ Len(SubSeq(handlers, 1, n - 1)) = IF 1 <= n - 1 THEN n - 1 - 1 + 1 ELSE 0
        /\ \A i \in 1 .. n - 1 - 1 + 1 : SubSeq(handlers, 1, n - 1)[i] = handlers[1 + i - 1]
    BY <1>5, <2>1, SubSeqProperties
  <2> QED
    BY <1>2, <2>2
<1> HIDE DEF n, h
<1>7. \A i \in 1 .. Len(handlers') : handlers'[i].saw <= settings.logLevel
  BY <1>1, <1>2, <1>3, <1>6
<1>8. MoreVerbose(h.saw) \in Level /\ MoreVerbose(h.saw) <= settings.logLevel
  BY <1>4 DEF LevelInv, MoreVerbose, Level, Debug, Error
<1>9. installed # {} /\ pc # "parse" /\ level <= settings.logLevel
  BY <1>1 DEF LevelInv, AtLeastConfigured
<1>10. level' \in Level /\ level' <= settings.logLevel
  BY <1>1, <1>8, <1>9 DEF LevelInv, Level, Debug, Error
<1> QED
  BY <1>1, <1>6, <1>7, <1>9, <1>10 DEF LevelInv, AtLeastConfigured

LEMMA LevelInductive ==
  SettingsInv /\ SettingsInv' /\ LevelInv /\ [Next]_vars => LevelInv'
<1> SUFFICES ASSUME SettingsInv, SettingsInv', LevelInv, [Next]_vars PROVE LevelInv'
  OBVIOUS
<1>1. ASSUME UNCHANGED <<settings, level, installed, handlers>>,
             \/ pc' = pc
             \/ pc' \in Ended
             \/ pc \notin {"parse"} \cup Ended /\ pc' # "parse"
      PROVE  LevelInv'
  BY <1>1 DEF LevelInv, AtLeastConfigured, Ended
<1>2. settings'.logLevel \in Level
  BY DEF SettingsInv, Settings
<1>3. CASE ParseLine
  BY <1>2, <1>3 DEF ParseLine, signals, LevelInv, AtLeastConfigured
<1>4. CASE EndOfFile
  <2>1. pc = "parse" /\ level' = settings'.logLevel /\ UNCHANGED <<installed, handlers>>
    BY <1>4 DEF EndOfFile
  <2>2. installed' = {} /\ handlers' = <<>> /\ pc' # "parse"
    BY <1>4, <2>1 DEF EndOfFile, LevelInv
  <2>3. level' <= settings'.logLevel
    BY <1>2, <2>1 DEF Level, Debug, Error
  <2> QED
    BY <1>2, <2>1, <2>2, <2>3 DEF LevelInv, AtLeastConfigured
<1>5. CASE ParseThrows
  BY <1>1, <1>5 DEF ParseThrows, setup, signals, Ended
<1>6. CASE AddListener \/ AddSearcher
  BY <1>1, <1>6 DEF AddListener, AddSearcher, signals, MoreListeners, MoreSearchers
<1>7. CASE SocketException
  BY <1>1, <1>7 DEF SocketException, GiveUp, signals, MoreListeners, MoreSearchers, Ended
<1>8. CASE EndOfLoop
  BY <1>1, <1>8 DEF EndOfLoop, setup, signals, Ended
<1>9. CASE InstallHandler
  <2>1. pc = "signals" /\ handlers' = <<>> /\ UNCHANGED <<settings, level>> /\ pc' # "parse"
    BY <1>9 DEF InstallHandler, setup
  <2>2. level <= settings.logLevel
    BY <2>1 DEF LevelInv, Ended
  <2> QED
    BY <2>1, <2>2 DEF LevelInv, AtLeastConfigured
<1>10. CASE KilledBySignal \/ Crash
  BY <1>1, <1>10 DEF KilledBySignal, Crash, setup, signals, Ended
<1>11. CASE Resolve \/ SecondPasses
  BY <1>1, <1>11 DEF Resolve, SecondPasses, setup, signals, Ended
<1>12. CASE UNCHANGED vars
  <2>1. UNCHANGED <<settings, level, installed, handlers>> /\ pc' = pc
    BY <1>12 DEF vars, setup, signals
  <2> QED
    BY <1>1, <2>1
<1> QED
  BY <1>3, <1>4, <1>5, <1>6, <1>7, <1>8, <1>9, <1>10, <1>11, <1>12,
     SignalKeepsLevel, HandlerKeepsLevel DEF Next

\* Signals never make the log less verbose than configured, however many arrive
\* and wherever they interrupt main or the handler of another.
THEOREM NeverLessVerbose == Spec => []AtLeastConfigured
<1>1. LevelInv => AtLeastConfigured
  BY DEF LevelInv
<1> QED
  BY SettingsInit, SettingsInductive, LevelInit, LevelInductive, <1>1, PTL DEF Spec

-----------------------------------------------------------------------------
\* The listeners and searchers.

Begins(s, t) == Len(s) <= Len(t) /\ \A i \in 1 .. Len(s) : s[i] = t[i]

\* They are set up in the order of the settings, the searchers last.
SetupInv ==
  /\ listeners \in Seq(Address) /\ searchers \in Seq(Address)
  /\ pc = "parse" => listeners = <<>>
  /\ pc \in {"parse", "listeners"} => searchers = <<>>
  /\ pc = "searchers" => listeners = settings.listen
  /\ Begins(listeners, settings.listen)
  /\ Begins(searchers, settings.search)
  /\ ServedOrReported

LEMMA SetupInit == Init => SetupInv
BY DEF Init, Defaults, SetupInv, Begins, ServedOrReported

LEMMA BeginsAppend ==
  ASSUME NEW s \in Seq(Address), NEW t \in Seq(Address), Begins(s, t), Len(s) < Len(t)
  PROVE  /\ Append(s, t[Len(s) + 1]) \in Seq(Address)
         /\ Append(s, t[Len(s) + 1]) # <<>>
         /\ Begins(Append(s, t[Len(s) + 1]), t)
<1>1. t[Len(s) + 1] \in Address
  OBVIOUS
<1> QED
  BY <1>1, AppendProperties DEF Begins

LEMMA BeginsAll ==
  ASSUME NEW s \in Seq(Address), NEW t \in Seq(Address), Begins(s, t), ~(Len(s) < Len(t))
  PROVE  s = t
BY SeqEqual DEF Begins

LEMMA SetupInductive ==
  SettingsInv /\ SettingsInv' /\ SetupInv /\ [Next]_vars => SetupInv'
<1> SUFFICES ASSUME SettingsInv, SettingsInv', SetupInv, [Next]_vars PROVE SetupInv'
  OBVIOUS
<1>1. ASSUME UNCHANGED <<settings, reported, listeners, searchers>>,
             pc' = pc \/ pc' \in Ended \/ (pc = "signals" /\ pc' = "loop")
      PROVE  SetupInv'
  BY <1>1 DEF SetupInv, ServedOrReported, Ended
<1>2. settings.listen \in Seq(Address) /\ settings.search \in Seq(Address)
  BY DEF SettingsInv, Settings
<1>3. settings'.listen \in Seq(Address) /\ settings'.search \in Seq(Address)
  BY DEF SettingsInv, Settings
<1>4. CASE ParseLine \/ EndOfFile
  <2>1. /\ pc = "parse" /\ pc' \in {"parse", "listeners"}
        /\ UNCHANGED <<listeners, searchers>>
    BY <1>4 DEF ParseLine, EndOfFile
  <2>2. listeners' = <<>> /\ searchers' = <<>>
    BY <2>1 DEF SetupInv
  <2>3. Begins(listeners, settings.listen)' /\ Begins(searchers, settings.search)'
    BY <1>3, <2>2 DEF Begins
  <2> QED
    BY <2>1, <2>2, <2>3 DEF SetupInv, ServedOrReported
<1>5. CASE ParseThrows
  <2>1. UNCHANGED <<settings, reported, listeners, searchers>> /\ pc' \in Ended
    BY <1>5 DEF ParseThrows, setup, Ended
  <2> QED
    BY <1>1, <2>1
<1>6. CASE AddListener
  <2>1. /\ pc = "listeners" /\ Len(listeners) < Len(settings.listen)
        /\ listeners' = Append(listeners, settings.listen[Len(listeners) + 1])
        /\ UNCHANGED <<pc, settings, searchers, reported>>
    BY <1>6 DEF AddListener, MoreListeners
  <2>2. listeners' \in Seq(Address) /\ Begins(listeners', settings.listen)
    BY <1>2, <2>1, BeginsAppend DEF SetupInv
  <2>3. searchers = <<>>
    BY <2>1 DEF SetupInv
  <2> QED
    BY <2>1, <2>2, <2>3 DEF SetupInv, ServedOrReported
<1>7. CASE AddSearcher
  <2>1. /\ pc = "searchers" /\ Len(searchers) < Len(settings.search)
        /\ searchers' = Append(searchers, settings.search[Len(searchers) + 1])
        /\ UNCHANGED <<pc, settings, listeners, reported>>
    BY <1>7 DEF AddSearcher, MoreSearchers
  <2>2. searchers' \in Seq(Address) /\ Begins(searchers', settings.search)
    BY <1>2, <2>1, BeginsAppend DEF SetupInv
  <2>3. listeners = settings.listen
    BY <2>1 DEF SetupInv
  <2> QED
    BY <2>1, <2>2, <2>3 DEF SetupInv, ServedOrReported
<1>8. CASE SocketException
  <2>1. /\ UNCHANGED <<settings, listeners, searchers>> /\ pc' = "signals"
        /\ reported' \cap {"listener", "searcher"} # {}
    BY <1>8 DEF SocketException, GiveUp
  <2> QED
    BY <2>1 DEF SetupInv, ServedOrReported
<1>9. CASE EndOfLoop
  <2>1. UNCHANGED <<settings, reported, listeners, searchers>>
    BY <1>9 DEF EndOfLoop, setup
  <2>2. CASE pc = "listeners" /\ ~MoreListeners /\ pc' = "searchers"
    <3>1. listeners = settings.listen
      BY <1>2, <2>2, BeginsAll DEF SetupInv, MoreListeners
    <3> QED
      BY <2>1, <2>2, <3>1 DEF SetupInv, ServedOrReported
  <2>3. CASE pc = "searchers" /\ ~MoreSearchers /\ pc' = "signals"
    <3>1. searchers = settings.search
      BY <1>2, <2>3, BeginsAll DEF SetupInv, MoreSearchers
    <3> QED
      BY <2>1, <2>3, <3>1 DEF SetupInv, ServedOrReported
  <2> QED
    BY <1>9, <2>2, <2>3 DEF EndOfLoop
<1>10. CASE InstallHandler
  <2>1. /\ UNCHANGED <<settings, reported, listeners, searchers>>
        /\ pc' = pc \/ (pc = "signals" /\ pc' = "loop")
    BY <1>10 DEF InstallHandler, setup
  <2> QED
    BY <1>1, <2>1
<1>11. CASE KilledBySignal \/ (\E sig \in Signal : SignalArrives(sig)) \/ HandlerReturns \/ Crash
  <2>1. /\ UNCHANGED <<settings, reported, listeners, searchers>>
        /\ pc' = pc \/ pc' \in Ended
    BY <1>11 DEF KilledBySignal, SignalArrives, HandlerReturns, Crash, setup, Ended
  <2> QED
    BY <1>1, <2>1
<1>12. CASE Resolve \/ SecondPasses
  BY <1>1, <1>12 DEF Resolve, SecondPasses, setup
<1>13. CASE UNCHANGED vars
  <2>1. UNCHANGED <<settings, reported, listeners, searchers>> /\ pc' = pc
    BY <1>13 DEF vars, setup
  <2> QED
    BY <1>1, <2>1
<1> QED
  BY <1>4, <1>5, <1>6, <1>7, <1>8, <1>9, <1>10, <1>11, <1>12, <1>13 DEF Next

\* When the loop begins every accepted address is listened on and searched or
\* stderr tells of one that is not, for any file and any sockets that fail.
THEOREM NothingSilentlyMissing == Spec => []ServedOrReported
<1>1. SetupInv => ServedOrReported
  BY DEF SetupInv
<1> QED
  BY SettingsInit, SettingsInductive, SetupInit, SetupInductive, <1>1, PTL DEF Spec
=============================================================================
