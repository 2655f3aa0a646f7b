------------------------------ MODULE Process ------------------------------
(***************************************************************************)
(* The life of the process: main reads the configuration, sets up the log  *)
(* and the Dispatcher with its listeners and searchers, installs two       *)
(* signal handlers and enters the loop.  Files are wrong in places,        *)
(* sockets fail, signals arrive at any moment, in the handler of the other *)
(* signal too, and looking up the names for log messages takes time.  What *)
(* the loop does for clients is in the other modules.                      *)
(***************************************************************************)
EXTENDS Config, DnsCache

CONSTANTS
  File,           \* the configuration files
  TicksPerSecond  \* 10 in the code

ASSUME ProcessAssumption ==
  /\ File \subseteq Seq(Line)
  /\ TicksPerSecond \in Nat \ {0}

VARIABLES
  pc,         \* where main is: "parse", "listeners", "searchers", "signals",
              \* "loop", or how it ended: "aborted", "killed", "crashed"
  file,       \* the configuration file
  lineno,     \* the next line parseFile reads
  settings,   \* config
  reported,   \* observer: what stderr has a message about
  listeners,  \* m_caListeners, by their addresses
  searchers,  \* m_caSearchers
  level,      \* Log::_level
  installed,  \* the signals with a handler
  handlers    \* the handlers under way, the innermost last: their signal, and
              \* the level they read

setup   == <<file, lineno, settings, reported, listeners, searchers>>
signals == <<level, installed, handlers>>
vars    == <<pc, setup, signals, dnsVars>>

Signal == {"USR1", "USR2"}
Ended == {"aborted", "killed", "crashed"}
Handler == [signal: Signal, saw: Level]

Settings ==
  [pvs: Seq(Entry), clients: Seq(Entry), logLevel: Level,
   searchIntervals: Seq(Unsigned), purgeDelay: Unsigned,
   listen: Seq(Address), search: Seq(Address)]

Init ==
  /\ pc = "parse"
  /\ file \in File
  /\ lineno = 1
  /\ settings = Defaults
  /\ reported = {}
  /\ listeners = <<>> /\ searchers = <<>>
  /\ level = Error
  /\ installed = {}
  /\ handlers = <<>>
  /\ DnsInit

-----------------------------------------------------------------------------
\* Config::parseFile, line by line.
ParseLine ==
  /\ pc = "parse" /\ lineno <= Len(file)
  /\ ~Throws(file[lineno])
  /\ settings' = Applied(settings, file[lineno])
  /\ reported' = reported \cup {l.key : l \in {k \in {file[lineno]} : Rejected(k)}}
  /\ lineno' = lineno + 1
  /\ UNCHANGED <<pc, file, listeners, searchers, signals, dnsVars>>

ParseThrows ==
  /\ pc = "parse" /\ lineno <= Len(file)
  /\ Throws(file[lineno])
  /\ pc' = "aborted"
  /\ UNCHANGED <<setup, signals, dnsVars>>

\* The end of the file, and Log::init.
EndOfFile ==
  /\ pc = "parse" /\ lineno > Len(file)
  /\ pc' = "listeners"
  /\ settings' = Finished(settings)
  /\ level' = Finished(settings).logLevel
  /\ UNCHANGED <<file, lineno, reported, listeners, searchers, installed, handlers, dnsVars>>

-----------------------------------------------------------------------------
\* The constructor of Dispatcher.  A listener cannot be bound where one is.
Overlap(a, b) == a.port = b.port /\ (a.ip = b.ip \/ AnyIp \in {a.ip, b.ip})

MoreListeners == pc = "listeners" /\ Len(listeners) < Len(settings.listen)
MoreSearchers == pc = "searchers" /\ Len(searchers) < Len(settings.search)

AddListener ==
  /\ MoreListeners
  /\ LET a == settings.listen[Len(listeners) + 1]
     IN  /\ \A b \in ToSet(listeners) : ~Overlap(a, b)
         /\ listeners' = Append(listeners, a)
  /\ UNCHANGED <<pc, file, lineno, settings, reported, searchers, signals, dnsVars>>

AddSearcher ==
  /\ MoreSearchers
  /\ searchers' = Append(searchers, settings.search[Len(searchers) + 1])
  /\ UNCHANGED <<pc, file, lineno, settings, reported, listeners, signals, dnsVars>>

\* Bug: the addresses after it are tried.
CarryOn(what) ==
  /\ pc' = IF what = "listener" THEN "searchers" ELSE "signals"
  /\ reported' = reported \cup {what}

\* The exception of a Listener or Searcher ends the constructor, and main goes on.
GiveUp(what) == pc' = "signals" /\ reported' = reported \cup {what}

SocketException ==
  /\ \/ MoreListeners /\ GiveUp("listener")
     \/ MoreSearchers /\ GiveUp("searcher")
  /\ UNCHANGED <<file, lineno, settings, listeners, searchers, signals, dnsVars>>

EndOfLoop ==
  /\ \/ pc = "listeners" /\ ~MoreListeners /\ pc' = "searchers"
     \/ pc = "searchers" /\ ~MoreSearchers /\ pc' = "signals"
  /\ UNCHANGED <<setup, signals, dnsVars>>

InstallHandler ==
  /\ pc = "signals" /\ handlers = <<>>
  /\ IF installed = {} THEN installed' = {"USR1"} /\ UNCHANGED pc
                       ELSE installed' = Signal /\ pc' = "loop"
  /\ UNCHANGED <<setup, level, handlers, dnsVars>>

-----------------------------------------------------------------------------
\* A signal without a handler ends the process.
KilledBySignal ==
  /\ pc \notin Ended /\ installed # Signal
  /\ pc' = "killed"
  /\ UNCHANGED <<setup, signals, dnsVars>>

\* A signal interrupts main or the handler of the other signal; its own is
\* blocked while it is handled.  The handler begins by reading the level.
SignalArrives(sig) ==
  /\ pc \notin Ended
  /\ sig \in installed
  /\ \A i \in DOMAIN handlers : handlers[i].signal # sig
  /\ handlers' = Append(handlers, [signal |-> sig, saw |-> level])
  /\ UNCHANGED <<pc, setup, level, installed, dnsVars>>

\* Bug: after the most verbose level comes the least.
WrapsAround(l) == IF l = Debug THEN Error ELSE l - 1

MoreVerbose(l) == IF l = Debug THEN Debug ELSE l - 1

\* The innermost handler sets the level and returns.
HandlerReturns ==
  /\ pc \notin Ended
  /\ handlers # <<>>
  /\ LET h == handlers[Len(handlers)]
     IN  level' = IF h.signal = "USR2" THEN MoreVerbose(h.saw)
                  ELSE IF h.saw # settings.logLevel THEN settings.logLevel
                  ELSE level
  /\ handlers' = SubSeq(handlers, 1, Len(handlers) - 1)
  /\ UNCHANGED <<pc, setup, installed, dnsVars>>

\* A searcher whose last interval is 0, or becomes 0 in tenths of a second, has
\* a ring of no bins, and the first round looks into one.
NoBins == (TicksPerSecond * Last(settings.searchIntervals)) % Word = 0

Crash ==
  /\ pc = "loop" /\ searchers # <<>> /\ NoBins
  /\ handlers = <<>> /\ looking = NoIp
  /\ pc' = "crashed"
  /\ UNCHANGED <<setup, signals, dnsVars>>

\* A message of the loop needs a name, and waits for it.
Resolve ==
  /\ pc = "loop" /\ handlers = <<>>
  /\ \/ \E ip \in LogIp : LookUp(ip)
     \/ LookedUp
  /\ UNCHANGED <<pc, setup, signals>>

SecondPasses ==
  /\ pc = "loop"
  /\ DnsTick
  /\ UNCHANGED <<pc, setup, signals>>

Next ==
  \/ ParseLine \/ ParseThrows \/ EndOfFile
  \/ AddListener \/ AddSearcher \/ SocketException \/ EndOfLoop \/ InstallHandler
  \/ KilledBySignal
  \/ \E sig \in Signal : SignalArrives(sig)
  \/ HandlerReturns
  \/ Crash
  \/ Resolve
  \/ SecondPasses

Spec == Init /\ [][Next]_vars

-----------------------------------------------------------------------------
TypeOK ==
  /\ pc \in {"parse", "listeners", "searchers", "signals", "loop"} \cup Ended
  /\ file \in File
  /\ lineno \in 1 .. Len(file) + 1
  /\ settings \in Settings
  /\ reported \subseteq {"LOG_LEVEL", "SEARCH_INTERVALS", "PURGE_DELAY", "listener", "searcher"}
  /\ listeners \in Seq(Address) /\ searchers \in Seq(Address)
  /\ level \in Level
  /\ installed \in {{}, {"USR1"}, Signal}
  /\ handlers \in Seq(Handler)
  /\ DnsTypeOK

\* No file, however wrong and whatever its last word on an option, leaves a
\* searcher without an interval: its constructor takes the last one.
SettingsUsable == settings.searchIntervals \in Seq(Unsigned) \ {<<>>}

\* When the loop begins every address that was accepted is listened on and
\* searched, or stderr tells of one that is not; and a server that searches
\* hears all of its clients.
ServedOrReported ==
  /\ pc \in {"signals", "loop"} =>
       \/ listeners = settings.listen /\ searchers = settings.search
       \/ reported \cap {"listener", "searcher"} # {}
  /\ searchers # <<>> => listeners = settings.listen

\* Signals never make the log less verbose than it was configured, however their
\* handlers interrupt each other between reading and setting the level.
AtLeastConfigured == installed # {} => level <= settings.logLevel

\* "It listens only on the explicitly configured IP address and port; no other
\* interfaces or ports are used unless specified." (README)
ListensOnlyWhereConfigured ==
  LET configured == {l \in ToSet(file) : l.key = "CA_LISTEN_ADDRESS"}
  IN  configured # {} =>
        \A a \in ToSet(listeners) : \E l \in configured : a.ip = l.ip
=============================================================================
