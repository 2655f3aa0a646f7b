----------------------------- MODULE MCProcess -----------------------------
(***************************************************************************)
(* Instances of Process for TLC: files of up to two lines, each of every   *)
(* kind the parser tells apart, and a few of more.                         *)
(***************************************************************************)
EXTENDS Process

Listen(ip, port) == [key |-> "CA_LISTEN_ADDRESS", ip |-> ip, port |-> port]
SearchAt(port) == [key |-> "CA_SEARCH_ADDRESS", ip |-> "subnet", port |-> port]
Intervals(tokens) == [key |-> "SEARCH_INTERVALS", tokens |-> tokens]
Rule(key, pattern) == [key |-> key, pattern |-> pattern]

\* 1024 stands for 2^32.
Lines ==
  {Rule("ALLOW_PV", "good"), Rule("DENY_PV", "bad"), Rule("DENY_CLIENT", "good"),
   [key |-> "LOG_LEVEL", level |-> Info], [key |-> "LOG_LEVEL", level |-> Invalid],
   Intervals(<<1, 2>>), Intervals(<<1, 0>>), Intervals(<<1, Invalid>>), Intervals(<<1024>>),
   [key |-> "PURGE_DELAY", delay |-> 5], [key |-> "PURGE_DELAY", delay |-> 0],
   Listen("local", 5053), Listen("local", 0), Listen("any", 5053),
   SearchAt(5064), SearchAt(65535), [key |-> "OTHER"]}

Patterns == {"good", "bad"}
Bad == {"bad"}
Ips == {"any", "local", "subnet"}
Files == BoundedSeq(Lines, 2) \cup
  {<<Listen("local", 5053), Listen("any", 5053), SearchAt(5064)>>,
   <<SearchAt(5064), Listen("local", 5053), Listen("subnet", 5053), SearchAt(5053)>>,
   <<Listen("local", 5053), SearchAt(5064), Intervals(<<0>>)>>}

CONSTANT peer

LogIps == {peer}
Ttls == {1, 4}
=============================================================================
