------------------------------- MODULE Config -------------------------------
(***************************************************************************)
(* What a line of the configuration file does to the settings.  A line is  *)
(* what the regular expressions of parseFile make of it: a keyword and the *)
(* text captured, as a value.  A line no expression matches is "OTHER", as *)
(* are those that only choose where the log goes.                          *)
(***************************************************************************)
EXTENDS Integers, SequencesExt

CONSTANTS
  Pattern,     \* regular expressions
  BadPattern,  \* those std::regex throws at
  Ip,          \* IP addresses
  AnyIp,       \* 0.0.0.0
  Word         \* number of values of an unsigned: 2^32 in the code

ASSUME ConfigAssumption ==
  /\ BadPattern \subseteq Pattern
  /\ AnyIp \in Ip
  /\ Word \in Nat /\ Word > 600

\* Log::Level, in the order of the enumeration.
Debug == 0
Verbose == 1
Info == 2
Error == 3
Level == Debug .. Error

Invalid == -1

\* A token of SEARCH_INTERVALS is the number atol reads in it, or Invalid if
\* that is 0 in a text other than "0".  A port that is not there reads as 0.
Line ==
  [key: {"ALLOW_PV", "DENY_PV", "ALLOW_CLIENT", "DENY_CLIENT"}, pattern: Pattern]
    \cup [key: {"LOG_LEVEL"}, level: Level \cup {Invalid}]
    \cup [key: {"SEARCH_INTERVALS"}, tokens: Seq(Nat \cup {Invalid}) \ {<<>>}]
    \cup [key: {"PURGE_DELAY"}, delay: Nat]
    \cup [key: {"CA_LISTEN_ADDRESS", "CA_SEARCH_ADDRESS"}, ip: Ip, port: Nat]
    \cup [key: {"OTHER"}]

UsablePort(port) == port > 0 /\ port < 65535

Unsigned == 0 .. Word - 1
Address == [ip: Ip, port: {port \in Nat : UsablePort(port)}]
Entry == [action: {"ALLOW", "DENY"}, pattern: Pattern]

DefaultIntervals == <<1, 5, 10, 30, 60, 300>>
DefaultAddress == [ip |-> AnyIp, port |-> 5053]

Defaults ==
  [pvs |-> <<>>, clients |-> <<>>, logLevel |-> Error,
   searchIntervals |-> DefaultIntervals, purgeDelay |-> 600,
   listen |-> <<>>, search |-> <<>>]

-----------------------------------------------------------------------------
\* parseListUnsigned: nothing if one token is not a number, or is one that
\* becomes 0 as an unsigned.
Unreadable(n) == n = Invalid \/ (n # 0 /\ n % Word = 0)

ParseListUnsigned(tokens) ==
  IF \E i \in DOMAIN tokens : Unreadable(tokens[i]) THEN <<>>
  ELSE [i \in DOMAIN tokens |-> tokens[i] % Word]

\* Bug: an empty list is only reported.
IntervalsAsParsed(tokens) == ParseListUnsigned(tokens)

\* A list that is wrong puts the default back, whatever a line before it said.
IntervalsOf(tokens) ==
  IF ParseListUnsigned(tokens) = <<>> THEN DefaultIntervals
  ELSE ParseListUnsigned(tokens)

Action(line) == IF line.key \in {"ALLOW_PV", "ALLOW_CLIENT"} THEN "ALLOW" ELSE "DENY"
EntryOf(line) == [action |-> Action(line), pattern |-> line.pattern]
AddressOf(line) == [ip |-> line.ip, port |-> line.port]

\* The settings after the line.
Applied(s, line) ==
  CASE line.key \in {"ALLOW_PV", "DENY_PV"} ->
         [s EXCEPT !.pvs = Append(@, EntryOf(line))]
    [] line.key \in {"ALLOW_CLIENT", "DENY_CLIENT"} ->
         [s EXCEPT !.clients = Append(@, EntryOf(line))]
    [] line.key = "LOG_LEVEL" /\ line.level # Invalid ->
         [s EXCEPT !.logLevel = line.level]
    [] line.key = "SEARCH_INTERVALS" ->
         [s EXCEPT !.searchIntervals = IntervalsOf(line.tokens)]
    [] line.key = "PURGE_DELAY" /\ line.delay > 0 ->
         [s EXCEPT !.purgeDelay = line.delay % Word]
    [] line.key = "CA_LISTEN_ADDRESS" /\ UsablePort(line.port) ->
         [s EXCEPT !.listen = Append(@, AddressOf(line))]
    [] line.key = "CA_SEARCH_ADDRESS" /\ UsablePort(line.port) ->
         [s EXCEPT !.search = Append(@, AddressOf(line))]
    [] OTHER -> s

\* The lines with a message on stderr.
Rejected(line) ==
  \/ line.key = "LOG_LEVEL" /\ line.level = Invalid
  \/ line.key = "SEARCH_INTERVALS" /\ ParseListUnsigned(line.tokens) = <<>>
  \/ line.key = "PURGE_DELAY" /\ line.delay = 0

\* The lines whose exception nobody catches.
Throws(line) ==
  /\ line.key \in {"ALLOW_PV", "DENY_PV", "ALLOW_CLIENT", "DENY_CLIENT"}
  /\ line.pattern \in BadPattern

\* The end of parseFile.
Finished(s) ==
  IF s.listen = <<>> THEN [s EXCEPT !.listen = <<DefaultAddress>>] ELSE s
=============================================================================
