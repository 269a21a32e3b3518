----------------------------- MODULE MCProcess -----------------------------
(***************************************************************************)
(* A small instance of Process: a 5-bit i32, 6-bit words, and the command  *)
(* lines and config files that take every branch of the parsers.           *)
(***************************************************************************)
EXTENDS Process

\* Texts and what they spell; "20" does not fit the scaled i32.
Ints == [t \in {"-1", "0", "1", "3", "9", "20"} |->
           CASE t = "-1" -> -1 [] t = "0" -> 0 [] t = "1" -> 1
             [] t = "3" -> 3 [] t = "9" -> 9 [] OTHER -> 20]
Term(half, unit) == [half |-> half, unit |-> unit]
Durs ==
  [t \in {"1", "-1s", "1m1s", "1.5s", "2d"} |->
     CASE t = "1" -> [neg |-> FALSE, terms |-> <<Term(2, "")>>]
       [] t = "-1s" -> [neg |-> TRUE, terms |-> <<Term(2, "s")>>]
       [] t = "1m1s" -> [neg |-> FALSE, terms |-> <<Term(2, "m"), Term(2, "s")>>]
       [] t = "1.5s" -> [neg |-> FALSE, terms |-> <<Term(3, "s")>>]
       [] OTHER -> [neg |-> FALSE, terms |-> <<Term(4, "d")>>]]
Scales == [u \in {"ns", "s", "", "m"} |-> CASE u = "ns" -> 1 [] u = "m" -> 8 [] OTHER -> 2]

DefaultCfg ==
  [host |-> "0.0.0.0", port |-> 0, ports_file_dir |-> None, server_name |-> None,
   max_payload |-> 4, max_pending |-> 8, max_control_line |-> 4,
   max_connections |-> 9, ping_interval |-> 7, write_deadline |-> 5,
   debug |-> FALSE, trace |-> FALSE]

Pair(f, v) == [flag |-> f, value |-> v, form |-> "pair"]
Inline(f, v) == [flag |-> f, value |-> v, form |-> "inline"]
Alone(f) == [flag |-> f, value |-> None, form |-> "alone"]

\* What launch always passes, and what a test appends.
Launch == <<Pair("-a", "127.0.0.1"), Pair("-p", "-1"), Pair("--ports_file_dir", "dir")>>
Config_ == Pair("-c", "nats.conf")
Extra ==
  {Inline("--port", "9"), Pair("-p", "20"), Pair("-p", "word"), Alone("-D"),
   Inline("--debug", "false"), Alone("-t"), Alone("-v"), Alone("-h"), Alone("-x"),
   Alone("word"), Pair("-n", "-t")}
Lines_ ==
  {[key |-> k, text |-> t, quoted |-> FALSE] :
     k \in {"port", "max_conn", "max_payload"}, t \in {"-1", "1", "20"}}
  \cup {[key |-> "max_pending", text |-> "3", quoted |-> FALSE],
        [key |-> "host", text |-> "word", quoted |-> TRUE],
        [key |-> "debug", text |-> "on", quoted |-> FALSE],
        [key |-> "debug", text |-> "word", quoted |-> FALSE],
        [key |-> "", text |-> "word", quoted |-> FALSE]}
  \cup {[key |-> "ping_interval", text |-> t, quoted |-> q] :
          t \in {"1", "-1s", "1m1s", "2d", "-1"}, q \in BOOLEAN}

\* Every pair of extra units without a file; every pair of lines behind the
\* plain `-c`; every line behind `-c` and one more unit.
UpTo2(S) == {<<>>} \cup {<<a>> : a \in S} \cup {<<a, b>> : a \in S, b \in S}
File(l) == [readable |-> TRUE, lines |-> l]
Missing == [readable |-> FALSE, lines |-> <<>>]
Start(extra, f) == [cmd |-> Launch \o extra, conf |-> f]
AllStarts ==
  {Start(e, Missing) : e \in UpTo2(Extra)}
  \cup {Start(<<a, Alone("-c")>>, Missing) : a \in Extra}
  \cup {Start(<<Config_>>, Missing)}
  \cup {Start(<<Config_>>, File(l)) : l \in UpTo2(Lines_)}
  \cup {Start(<<Config_, a>>, File(<<l>>)) : a \in Extra, l \in Lines_}

\* A single launch with a limit of one connection; one with an unknown flag.
OneLaunch ==
  {Start(<<Config_>>, File(<<[key |-> "max_conn", text |-> "1", quoted |-> FALSE]>>))}
UnknownFlag == {Start(<<Alone("-x")>>, Missing)}
=============================================================================
