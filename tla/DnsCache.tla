------------------------------ MODULE DnsCache ------------------------------
(***************************************************************************)
(* The cache of host names behind the log messages.  resolveIP is called   *)
(* for the arguments of a message whether the message is written or not,   *)
(* and a miss holds up the one thread of the program for as long as the    *)
(* two queries take.  Names themselves are abstracted: an entry is the     *)
(* time it has left.  A hit changes nothing and is no action.              *)
(***************************************************************************)
EXTENDS Integers, FiniteSetsExt

CONSTANTS
  LogIp,       \* the IP addresses of clients and IOCs in messages
  NoIp,        \* no address
  MinTtl,      \* 600 s in the code
  DefaultTtl,  \* 86400 s in the code
  RecordTtl,   \* the lifetimes of PTR records
  MaxTtl,      \* the longest of these and the default
  MaxStall     \* bound of the model on the time a look-up takes

NoRecord == -1
Expired == -1

ASSUME DnsCacheAssumption ==
  /\ NoIp \notin LogIp
  /\ MinTtl \in Nat /\ MaxTtl \in Nat
  /\ DefaultTtl \in MinTtl .. MaxTtl /\ RecordTtl \subseteq 0 .. MaxTtl
  /\ MaxStall \in Nat

VARIABLES
  left,      \* the time until the entry of g_cache expires, Expired if it has
             \* or there is none: the next call erases it then
  looking,   \* the address being looked up, or NoIp
  stalled,   \* and since when
  since      \* observer: the time since the last look-up of the address began

dnsVars == <<left, looking, stalled, since>>

DnsTypeOK ==
  /\ left \in [LogIp -> Expired .. MaxTtl]
  /\ looking \in LogIp \cup {NoIp}
  /\ stalled \in 0 .. MaxStall
  /\ since \in [LogIp -> 0 .. MaxTtl + 1]

DnsInit ==
  /\ left = [ip \in LogIp |-> Expired]
  /\ looking = NoIp
  /\ stalled = 0
  /\ since = [ip \in LogIp |-> MaxTtl + 1]

\* resolveIP does not find the address, or finds it expired.
LookUp(ip) ==
  /\ looking = NoIp
  /\ left[ip] = Expired
  /\ looking' = ip
  /\ stalled' = 0
  /\ since' = [since EXCEPT ![ip] = 0]
  /\ UNCHANGED left

\* Bug: the lifetime of the record is used as it is.
TtlAsGiven(record) == IF record = NoRecord THEN DefaultTtl ELSE record

\* _getTtl: without a PTR record the default, and then the name is the
\* address itself.
TtlOf(record) == IF record = NoRecord THEN DefaultTtl ELSE Max({record, MinTtl})

\* Bug: the time is read again after the look-up.
LeftFromNow(ttl) == ttl

\* The time was read before the look-up.
LeftOf(ttl) == Max({ttl - stalled, Expired})

\* The look-up returns: the entry is made, and main goes on.
LookedUp ==
  /\ looking # NoIp
  /\ \E record \in RecordTtl \cup {NoRecord} :
       left' = [left EXCEPT ![looking] = LeftOf(TtlOf(record))]
  /\ looking' = NoIp
  /\ stalled' = 0
  /\ UNCHANGED since

\* A second passes.
DnsTick ==
  /\ looking # NoIp => stalled < MaxStall
  /\ stalled' = IF looking = NoIp THEN 0 ELSE stalled + 1
  /\ left' = [ip \in LogIp |-> Max({left[ip] - 1, Expired})]
  /\ since' = [ip \in LogIp |-> Min({since[ip] + 1, MaxTtl + 1})]
  /\ UNCHANGED looking

-----------------------------------------------------------------------------
\* An address stalls the application at most once in MinTtl seconds, however
\* short-lived its record and however long the look-up took (dnscache.hpp:
\* "caches results to avoid stalling the application on repeated lookups").
StallsOncePerTtl ==
  [][\A ip \in LogIp : since'[ip] < since[ip] => since[ip] > MinTtl]_dnsVars

\* A name in the log is as old as the longest lifetime at most, the time of its
\* look-up included.
NamesAreRecent ==
  \A ip \in LogIp : left[ip] # Expired => since[ip] + left[ip] <= MaxTtl
=============================================================================
