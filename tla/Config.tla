------------------------------- MODULE Config -------------------------------
(***************************************************************************)
(* The options of the server (crates/server/src/config.rs): the command    *)
(* line, the config file, how the two are layered and what the result must *)
(* satisfy.  Pure code, so operators; Process runs them as start-up steps. *)
(*                                                                         *)
(* A text is a string.  What it spells as a number or a duration is given  *)
(* by IntText and DurText: a text outside their domain does not parse.     *)
(* Widths are scaled down and named: i32 has IntBits bits, i64, u64 and    *)
(* usize have WordBits.                                                    *)
(***************************************************************************)
EXTENDS Integers, Sequences

CONSTANTS
  IntBits,       \* the width of i32
  WordBits,      \* the width of i64, u64 and usize
  IntText,       \* text |-> the i64 it spells
  DurText,       \* text |-> [neg, terms: Seq([half, unit])]: each number, in
                 \* halves, and the unit after it
  UnitScale,     \* unit |-> its length in nanoseconds (scaled)
  PlainWords,    \* arguments that are not flags: "", "-", no leading dash
  Defaults,      \* the Config of `impl Default`
  DefaultPort    \* 4222

\* A loop over s that carries a state, as a recursive function: TLC computes
\* each state of it once.
Loop(step(_, _), start, s) ==
  LET after[i \in 0 .. Len(s)] ==
        IF i = 0 THEN start ELSE step(after[i - 1], s[i])
  IN after[Len(s)]

None == "none"
RANDOM_PORT == -1

-----------------------------------------------------------------------------
(***************************************************************************)
(* The command line.  A word is [name, inline]: `--x=v` is the flag --x    *)
(* with the text v inline, every other word has inline = None.             *)
(***************************************************************************)

\* The option a flag's spelling names; None for an undefined flag.
FlagOf(name) ==
  CASE name \in {"-a", "--addr", "--net"} -> "host"
    [] name \in {"-p", "--port"} -> "port"
    [] name \in {"-n", "--name", "--server_name"} -> "server_name"
    [] name \in {"-c", "--config"} -> "config_file"
    [] name = "--ports_file_dir" -> "ports_file_dir"
    [] name = "-t" -> "test_config"
    [] name \in {"-v", "--version"} -> "version"
    [] name \in {"-h", "--help"} -> "help"
    [] name \in {"-D", "--debug"} -> "debug"
    [] name \in {"-V", "--trace"} -> "trace"
    [] OTHER -> None

Switches == {"test_config", "version", "help", "debug", "trace"}
Valued == {"host", "port", "server_name", "config_file", "ports_file_dir"}

\* Args::default(), and where the loop is: the flag still waiting for its
\* value, whether a plain word ended it, whether it failed.
NoArgs ==
  [args |-> [f \in Switches \cup Valued |->
               IF f \in Switches THEN FALSE ELSE <<>>],
   want |-> None, stopped |-> FALSE, err |-> FALSE]

\* A valued flag takes its text; the port is parsed on the spot, as an i32.
TakeValue(st, f, text) ==
  IF f # "port" THEN [st EXCEPT !.args[f] = <<text>>, !.want = None]
  ELSE IF text \in DOMAIN IntText
          /\ IntText[text] \in -(2^(IntBits - 1)) .. 2^(IntBits - 1) - 1
       THEN [st EXCEPT !.args[f] = <<IntText[text]>>, !.want = None]
       ELSE [st EXCEPT !.err = TRUE]

\* One word of argv, read by the loop of parse_args.
ReadWord(st, w) ==
  LET f == FlagOf(w.name) IN
  IF st.err \/ st.stopped THEN st
  ELSE IF st.want # None THEN TakeValue(st, st.want, w.name)
  ELSE CASE w.name \in PlainWords -> [st EXCEPT !.stopped = TRUE]
         [] f \in Switches -> [st EXCEPT !.args[f] = TRUE]
         [] f \in Valued /\ w.inline # None -> TakeValue(st, f, w.inline)
         [] f \in Valued /\ w.inline = None -> [st EXCEPT !.want = f]
         [] OTHER -> [st EXCEPT !.err = TRUE]

\* parse_args: [ok, args].  A flag left without its value is an error.
parse_args(argv) ==
  LET st == Loop(ReadWord, NoArgs, argv) IN
  [ok |-> ~st.err /\ st.want = None, args |-> st.args]

-----------------------------------------------------------------------------
(***************************************************************************)
(* The config file: lines [key, text, quoted], comments and blank lines    *)
(* already dropped.  A line without a colon has the key "".                *)
(***************************************************************************)

\* `as i32`: the low IntBits bits, two's complement.
AsI32(i) == ((i + 2^(IntBits - 1)) % 2^IntBits) - 2^(IntBits - 1)

\* `as u64` and `as usize`.
AsU64(i) == i % 2^WordBits

\* Adds one number and its unit to the total: `num as u128` drops the
\* fraction before the unit scales it.
AddTerm(total, t) == total + (t.half \div 2) * UnitScale[t.unit]

\* parse_duration_str: <<nanoseconds>>, or <<>> where it returns None.
parse_duration_str(text) ==
  LET d == DurText[text] IN
  IF \/ text \notin DOMAIN DurText
     \/ d.neg
     \/ \E i \in DOMAIN d.terms : d.terms[i].unit \notin DOMAIN UnitScale
  THEN <<>>
  ELSE <<AsU64(Loop(AddTerm, 0, d.terms))>>

\* parse_duration: an unquoted integer is seconds, `secs as u64`.
parse_duration(line) ==
  IF ~line.quoted /\ line.text \in DOMAIN IntText
  THEN <<AsU64(IntText[line.text]) * UnitScale["s"]>>
  ELSE parse_duration_str(line.text)

parse_int(text) == IF text \in DOMAIN IntText THEN <<IntText[text]>> ELSE <<>>

parse_bool(text) ==
  CASE text \in {"true", "on", "yes"} -> <<TRUE>>
    [] text \in {"false", "off", "no"} -> <<FALSE>>
    [] OTHER -> <<>>

\* The option a key sets, and <<the value its line gives it>>: <<>> is an
\* error of the line.
KeyOf(key) ==
  CASE key = "name" -> "server_name" [] key = "max_conn" -> "max_connections"
    [] OTHER -> key

LineValue(line) ==
  LET k == KeyOf(line.key)
      i == parse_int(line.text)
      Cast(op(_)) == IF i = <<>> THEN <<>> ELSE <<op(i[1])>>
  IN CASE k \in {"host", "server_name"} -> <<line.text>>
       [] k = "port" -> Cast(AsI32)
       [] k \in {"max_payload", "max_pending", "max_control_line"} -> Cast(AsU64)
       [] k = "max_connections" -> i
       [] k \in {"ping_interval", "write_deadline"} -> parse_duration(line)
       [] k \in {"debug", "trace"} -> parse_bool(line.text)
       [] OTHER -> <<>>

ReadLine(st, line) ==
  LET v == LineValue(line) IN
  IF ~st.ok \/ v = <<>> THEN [st EXCEPT !.ok = FALSE]
  ELSE [st EXCEPT !.cfg[KeyOf(line.key)] = v[1]]

parse_config(lines) ==
  Loop(ReadLine, [ok |-> TRUE, cfg |-> Defaults], lines)

-----------------------------------------------------------------------------
\* Mutant of apply_flags: the file keeps what it set.
ApplyFlagsFileWins(cfg, args) ==
  [k \in DOMAIN cfg |->
     CASE k \in {"host", "port", "ports_file_dir", "server_name"}
          /\ args[k] # <<>> /\ cfg[k] = Defaults[k] -> args[k][1]
       [] k \in {"debug", "trace"} -> cfg[k] \/ args[k]
       [] OTHER -> cfg[k]]

\* The command line wins over the file; the two switches accumulate.
apply_flags(cfg, args) ==
  [k \in DOMAIN cfg |->
     CASE k \in {"host", "port", "ports_file_dir", "server_name"}
          /\ args[k] # <<>> -> args[k][1]
       [] k \in {"debug", "trace"} -> cfg[k] \/ args[k]
       [] OTHER -> cfg[k]]

validate(cfg) == cfg.max_payload <= cfg.max_pending

\* The port of the listener's address: 0 in the options means unset, and the
\* random-port sentinel is 0 to the kernel.
bind_port(cfg) == IF cfg.port = 0 THEN DefaultPort ELSE cfg.port
Requested(cfg) == IF bind_port(cfg) = RANDOM_PORT THEN 0 ELSE bind_port(cfg)
=============================================================================
