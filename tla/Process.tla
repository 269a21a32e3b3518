------------------------------ MODULE Process ------------------------------
(***************************************************************************)
(* The server process and its surroundings: start-up and shutdown          *)
(* (crates/server/src/main.rs), the listener and the connection limit      *)
(* (net.rs), and the harness that launches the binary, waits until it is   *)
(* ready and kills it (crates/harness/src/lib.rs).  What a connection does *)
(* while it holds its slot is Keepalive; here it is one step that ends.    *)
(***************************************************************************)
EXTENDS Config, FiniteSets
LOCAL INSTANCE SequencesExt

CONSTANTS
  Starts,         \* the launches: [cmd, conf], a command line as a sequence
                  \* of units, and the file -c names as [readable, lines]
  Clients,        \* the test's connections
  Probe,          \* the harness's own readiness connection
  MaxPort,        \* u16::MAX, scaled with IntBits
  MaxAcceptErrs   \* how often accept() fails in a behaviour

ASSUME ProcessAssumption ==
  /\ Probe \notin Clients
  /\ IsFiniteSet(Clients)
  /\ MaxAcceptErrs \in Nat

Peers == Clients \cup {Probe}

VARIABLES
  spc,        \* where run() is
  exit,       \* the process's status: "none" while it lives
  cmd, conf,  \* its command line and the file -c names
  cfg,        \* Server::cfg
  listening,  \* whether the listener is bound
  handled,    \* signals with a handler installed
  got,        \* a handled signal is pending
  file,       \* the ports file
  backlog,    \* connections the kernel holds for accept()
  served,     \* connections whose task is running
  eof,        \* connections whose peer has closed
  active,     \* Server::active
  apc, errs,  \* where accept_loop is; how often accept() has failed
  hpc,        \* where the harness is
  expired,    \* READY_TIMEOUT has passed
  launched    \* launch() returned Ok

netVars == <<backlog, served, eof, active, apc, errs>>
harnessVars == <<hpc, expired, launched>>
inputVars == <<cmd, conf>>
vars == <<spc, exit, inputVars, cfg, listening, handled, got, file, netVars,
          harnessVars>>

Signals == {"TERM", "INT"}

TypeOK ==
  /\ spc \in {"args", "config", "bind", "create", "fill", "term", "int",
              "serve", "remove", "return", "exited"}
  /\ exit \in {"none", "0", "1", "killed"}
  /\ listening \in BOOLEAN /\ got \in BOOLEAN
  /\ handled \subseteq Signals
  /\ file \in {"absent", "partial", "full"}
  /\ backlog \in Seq(Peers) /\ served \subseteq Peers /\ eof \subseteq Peers
  /\ active \in Int /\ apc \in {"accept", "sleep"} /\ errs \in Nat
  /\ hpc \in {"poll", "read", "connect", "sleep", "ready", "kill", "wait",
              "failed", "dropped"}
  /\ expired \in BOOLEAN /\ launched \in BOOLEAN

\* The child has just been spawned, in a fresh directory.
Init ==
  /\ spc = "args" /\ exit = "none"
  /\ \E s \in Starts : cmd = s.cmd /\ conf = s.conf
  /\ cfg = Defaults
  /\ listening = FALSE /\ handled = {} /\ got = FALSE /\ file = "absent"
  /\ backlog = <<>> /\ served = {} /\ eof = {} /\ active = 0
  /\ apc = "accept" /\ errs = 0
  /\ hpc = "poll" /\ expired = FALSE /\ launched = FALSE

-----------------------------------------------------------------------------
(***************************************************************************)
(* Start-up and shutdown.                                                  *)
(***************************************************************************)

\* The process ends: its listener, its tasks and its counters go with it.
Ends(status) ==
  /\ spc' = "exited" /\ exit' = status
  /\ listening' = FALSE /\ got' = FALSE /\ handled' = {}
  /\ backlog' = <<>> /\ served' = {} /\ eof' = {} /\ active' = 0
  /\ apc' = "accept"
  /\ cmd' = <<>> /\ conf' = [readable |-> FALSE, lines |-> <<>>]
  /\ cfg' = Defaults
  /\ UNCHANGED errs

\* The words a unit of the command line is written as: `--flag=value`,
\* `flag value`, or the flag (or plain word) alone.
Word(text, inline) == [name |-> text, inline |-> inline]
Words(u) ==
  CASE u.form = "inline" -> <<Word(u.flag, u.value)>>
    [] u.form = "pair" -> <<Word(u.flag, None), Word(u.value, None)>>
    [] OTHER -> <<Word(u.flag, None)>>
Argv == Loop(LAMBDA ws, u : ws \o Words(u), <<>>, cmd)

ParseArgs ==
  LET p == parse_args(Argv) IN
  /\ spc = "args"
  /\ \/ ~p.ok /\ Ends("1") /\ UNCHANGED <<file, harnessVars>>
     \/ p.ok /\ (p.args.version \/ p.args.help) /\ Ends("0") /\ UNCHANGED <<file, harnessVars>>
     \/ /\ p.ok /\ ~p.args.version /\ ~p.args.help
        /\ spc' = "config"
        /\ UNCHANGED <<exit, inputVars, cfg, listening, handled, got, file,
                       netVars, harnessVars>>

\* The file, then the flags over it, then validation, then -t.
LoadConfig ==
  LET args == parse_args(Argv).args
      named == args.config_file # <<>>
      parsed == IF named THEN parse_config(conf.lines)
                         ELSE [ok |-> TRUE, cfg |-> Defaults]
      final == apply_flags(parsed.cfg, args)
      good == (named => conf.readable /\ parsed.ok) /\ validate(final)
  IN /\ spc = "config"
     /\ \/ ~good /\ Ends("1") /\ UNCHANGED <<file, harnessVars>>
        \/ good /\ args.test_config /\ Ends("0") /\ UNCHANGED <<file, harnessVars>>
        \/ /\ good /\ ~args.test_config
           /\ spc' = "bind" /\ cfg' = final
           /\ cmd' = <<>> /\ conf' = [readable |-> FALSE, lines |-> <<>>]
           /\ UNCHANGED <<exit, listening, handled, got, file, netVars,
                          harnessVars>>

\* Mutant of Bind: the listener is still to come when the file is written.
BindLate ==
  /\ spc = "bind" /\ Requested(cfg) \in 0 .. MaxPort
  /\ spc' = "create"
  /\ UNCHANGED <<exit, inputVars, cfg, listening, handled, got, file, netVars,
                 harnessVars>>

\* serve: the host must parse, the port be one, and the kernel grant the
\* address; the rest is refused.  accept_loop runs from here on.
Bind ==
  /\ spc = "bind"
  /\ \/ Ends("1") /\ UNCHANGED <<file, harnessVars>>
     \/ /\ Requested(cfg) \in 0 .. MaxPort
        /\ listening' = TRUE /\ spc' = "create"
        /\ UNCHANGED <<exit, inputVars, cfg, handled, got, file, netVars,
                       harnessVars>>

\* write_ports_file: fs::write creates the file, then fills it; either part
\* may fail.  Without a directory there is no file.
CreateFile ==
  /\ spc = "create"
  /\ \/ /\ cfg.ports_file_dir = None
        /\ spc' = "term" /\ UNCHANGED <<exit, file>>
        /\ UNCHANGED <<inputVars, cfg, listening, handled, got, netVars, harnessVars>>
     \/ /\ cfg.ports_file_dir # None
        /\ spc' = "fill" /\ file' = "partial"
        /\ UNCHANGED <<exit, inputVars, cfg, listening, handled, got, netVars,
                       harnessVars>>
     \/ cfg.ports_file_dir # None /\ Ends("1") /\ UNCHANGED <<file, harnessVars>>

FillFile ==
  /\ spc = "fill"
  /\ \/ /\ file' = "full" /\ spc' = "term"
        /\ UNCHANGED <<exit, inputVars, cfg, listening, handled, got, netVars,
                       harnessVars>>
     \/ Ends("1") /\ UNCHANGED <<file, harnessVars>>

\* The two signal handlers, in the order run() installs them; either may be
\* refused, which ends run() with the ports file in place.
InstallHandler ==
  \/ /\ \/ spc = "term" /\ handled' = handled \cup {"TERM"} /\ spc' = "int"
        \/ spc = "int" /\ handled' = handled \cup {"INT"} /\ spc' = "serve"
     /\ UNCHANGED <<exit, inputVars, cfg, listening, got, file, netVars, harnessVars>>
  \/ spc \in {"term", "int"} /\ Ends("1") /\ UNCHANGED <<file, harnessVars>>

\* The select: a signal ends the wait.
Awake ==
  /\ spc = "serve" /\ got /\ spc' = "remove"
  /\ UNCHANGED <<exit, inputVars, cfg, listening, handled, got, file, netVars,
                 harnessVars>>

RemoveFile ==
  /\ spc = "remove"
  /\ spc' = "return"
  /\ file' = IF cfg.ports_file_dir = None THEN file ELSE "absent"
  /\ UNCHANGED <<exit, inputVars, cfg, listening, handled, got, netVars, harnessVars>>

Return == spc = "return" /\ Ends("0") /\ UNCHANGED <<file, harnessVars>>

\* A signal from outside: a handled one is noted, the default action of the
\* others ends the process.
Signal(s) ==
  /\ exit = "none"
  /\ \/ /\ s \in handled /\ got' = TRUE
        /\ UNCHANGED <<spc, exit, inputVars, cfg, listening, handled, file,
                       netVars, harnessVars>>
     \/ s \notin handled /\ Ends("killed") /\ UNCHANGED <<file, harnessVars>>

Main ==
  \/ ParseArgs \/ LoadConfig \/ Bind \/ CreateFile \/ FillFile
  \/ InstallHandler \/ Awake \/ RemoveFile \/ Return

-----------------------------------------------------------------------------
(***************************************************************************)
(* The listener and the connection limit.                                  *)
(***************************************************************************)

mainVars == <<spc, exit, inputVars, cfg, listening, handled, got, file>>

\* Mutant of Full: one connection late.
FullLate == cfg.max_connections >= 0 /\ active > cfg.max_connections

Full == cfg.max_connections >= 0 /\ active >= cfg.max_connections

\* The connections that wait for accept().
Queued == {backlog[i] : i \in DOMAIN backlog}

\* accept(): the connection is dropped when its socket cannot be set up or
\* the server is full; otherwise it is counted and its task spawned.
AcceptOne ==
  LET c == Head(backlog) IN
  /\ listening /\ apc = "accept" /\ backlog # <<>>
  /\ backlog' = Tail(backlog)
  /\ \/ eof' = eof \ {c} /\ UNCHANGED <<served, active>>
     \/ ~Full /\ active' = active + 1 /\ served' = served \cup {c}
        /\ UNCHANGED eof
  /\ UNCHANGED <<apc, errs, mainVars, harnessVars>>

\* Mutant of AcceptFails: the failure ends the loop.
AcceptFailsStops ==
  /\ listening /\ apc = "accept" /\ errs < MaxAcceptErrs
  /\ apc' = "ended" /\ errs' = errs + 1
  /\ UNCHANGED <<backlog, served, eof, active, mainVars, harnessVars>>

\* accept() fails (no descriptor left): the loop backs off and tries again.
AcceptFails ==
  /\ listening /\ apc = "accept" /\ errs < MaxAcceptErrs
  /\ apc' = "sleep" /\ errs' = errs + 1
  /\ UNCHANGED <<backlog, served, eof, active, mainVars, harnessVars>>

AcceptResumes ==
  /\ listening /\ apc = "sleep" /\ apc' = "accept"
  /\ UNCHANGED <<backlog, served, eof, active, errs, mainVars, harnessVars>>

\* client::spawn returns, whatever ended the connection: the guard gives the
\* slot back.
TaskEnds(c) ==
  /\ c \in served
  /\ served' = served \ {c} /\ eof' = eof \ {c} /\ active' = active - 1
  /\ UNCHANGED <<backlog, apc, errs, mainVars, harnessVars>>

\* A client of the test connects once the harness says the server is ready,
\* and may close and connect again.
ClientConnects(c) ==
  /\ hpc = "ready" /\ listening /\ c \notin served \cup Queued
  /\ backlog' = Append(backlog, c)
  /\ UNCHANGED <<served, eof, active, apc, errs, mainVars, harnessVars>>

ClientCloses(c) ==
  /\ c \in (served \cup Queued) \ eof
  /\ eof' = eof \cup {c}
  /\ UNCHANGED <<backlog, served, active, apc, errs, mainVars, harnessVars>>

Net == AcceptOne \/ AcceptFails \/ AcceptResumes
Connections == \E c \in Peers : TaskEnds(c)
Test == \E c \in Clients : ClientConnects(c) \/ ClientCloses(c)

-----------------------------------------------------------------------------
(***************************************************************************)
(* The harness: launch, wait_until_ready, and the guard's Drop.            *)
(***************************************************************************)

\* Mutant of HarnessChecks: it returns its error at once.
HarnessChecksReturns ==
  /\ hpc = "poll"
  /\ hpc' = IF expired \/ exit # "none" THEN "failed" ELSE "read"
  /\ UNCHANGED <<expired, launched, mainVars, netVars>>

\* Mutant of HarnessChecks: there is no deadline.
HarnessChecksForever ==
  /\ hpc = "poll"
  /\ hpc' = IF exit # "none" THEN "kill" ELSE "read"
  /\ UNCHANGED <<expired, launched, mainVars, netVars>>

\* One turn of the readiness loop: the deadline, then try_wait.  An error
\* kills the child before launch returns it.
HarnessChecks ==
  /\ hpc = "poll"
  /\ hpc' = IF expired \/ exit # "none" THEN "kill" ELSE "read"
  /\ UNCHANGED <<expired, launched, mainVars, netVars>>

\* read_ports_file: a half-written file does not parse, and means not yet.
HarnessReads ==
  /\ hpc = "read"
  /\ hpc' = IF file = "full" THEN "connect" ELSE "sleep"
  /\ UNCHANGED <<expired, launched, mainVars, netVars>>

\* tcp_reachable: the connection the kernel grants is closed at once, but
\* the server will accept it; without a listener, or in time, it fails.
HarnessConnects ==
  /\ hpc = "connect"
  /\ \/ /\ listening
        /\ hpc' = "ready" /\ launched' = TRUE
        /\ backlog' = Append(backlog, Probe) /\ eof' = eof \cup {Probe}
        /\ UNCHANGED <<served, active, apc, errs>>
     \/ hpc' = "sleep" /\ UNCHANGED <<launched, netVars>>
  /\ UNCHANGED <<expired, mainVars>>

HarnessSleeps ==
  /\ hpc = "sleep" /\ hpc' = "poll"
  /\ UNCHANGED <<expired, launched, mainVars, netVars>>

TimeUp ==
  /\ hpc \in {"poll", "read", "connect", "sleep"} /\ ~expired
  /\ expired' = TRUE
  /\ UNCHANGED <<hpc, launched, mainVars, netVars>>

\* The test lets go of the guard.
GuardDropped ==
  /\ hpc = "ready" /\ hpc' = "kill"
  /\ UNCHANGED <<expired, launched, mainVars, netVars>>

\* SIGKILL, of a child that may have ended already; then wait().
HarnessKills ==
  /\ hpc = "kill" /\ hpc' = "wait"
  /\ \/ exit = "none" /\ Ends("killed") /\ UNCHANGED file
     \/ exit # "none" /\ UNCHANGED <<mainVars, netVars>>
  /\ UNCHANGED <<expired, launched>>

HarnessReaps ==
  /\ hpc = "wait" /\ exit # "none"
  /\ hpc' = IF launched THEN "dropped" ELSE "failed"
  /\ UNCHANGED <<expired, launched, mainVars, netVars>>

Harness ==
  \/ HarnessChecks \/ HarnessReads \/ HarnessConnects \/ HarnessSleeps
  \/ HarnessKills \/ HarnessReaps

Next ==
  \/ Main \/ Net \/ Connections \/ Test \/ Harness \/ TimeUp \/ GuardDropped
  \/ \E s \in Signals : Signal(s)

Spec == Init /\ [][Next]_vars

\* The accept loop and the harness's thread are scheduled and time passes;
\* nothing is assumed of run(), which may hang on any of its steps.
FairSpec == Spec /\ WF_vars(Net) /\ WF_vars(Harness) /\ WF_vars(TimeUp)

-----------------------------------------------------------------------------
(***************************************************************************)
(* Properties.                                                             *)
(***************************************************************************)

\* What the documented rules make of a command line and a file, stated
\* without following the parser: the units before the first plain word
\* count, the last unit of an option wins over the last line of the file,
\* and that over the default; the switches accumulate.
IsPlain(u) == u.form = "alone" /\ u.flag \in PlainWords
Effective == SelectSeq([i \in DOMAIN cmd |-> IF \E j \in 1 .. i : IsPlain(cmd[j])
                                             THEN [cmd[i] EXCEPT !.form = "ignored"]
                                             ELSE cmd[i]],
                       LAMBDA u : u.form # "ignored")
Says(f) == SelectSeq(Effective, LAMBDA u : FlagOf(u.flag) = f)
SmallInt(t) == t \in DOMAIN IntText /\ AsI32(IntText[t]) = IntText[t]
BadUnit(u) ==
  \/ FlagOf(u.flag) = None
  \/ FlagOf(u.flag) \in Valued /\ u.form = "alone"
  \/ FlagOf(u.flag) = "port" /\ ~SmallInt(u.value)
BadCommand == \E i \in DOMAIN Effective : BadUnit(Effective[i])
FileLines == IF Says("config_file") = <<>> THEN <<>> ELSE conf.lines
BadLine == \E i \in DOMAIN FileLines : LineValue(FileLines[i]) = <<>>
FileSays(k) == SelectSeq(FileLines, LAMBDA l : KeyOf(l.key) = k)
FileValue(k) == IF FileSays(k) = <<>> THEN Defaults[k] ELSE LineValue(Last(FileSays(k)))[1]
DocumentedCfg ==
  [k \in DOMAIN Defaults |->
     CASE k \in Switches -> FileValue(k) \/ Says(k) # <<>>
       [] k \in Valued /\ Says(k) # <<>> ->
            IF k = "port" THEN IntText[Last(Says(k)).value] ELSE Last(Says(k)).value
       [] OTHER -> FileValue(k)]
DocumentedStart ==
  IF BadCommand THEN "reject"
  ELSE IF Says("version") # <<>> \/ Says("help") # <<>> THEN "print"
  ELSE IF \/ Says("config_file") # <<>> /\ ~conf.readable
          \/ BadLine
          \/ DocumentedCfg.max_payload > DocumentedCfg.max_pending THEN "reject"
  ELSE IF Says("test_config") # <<>> THEN "print" ELSE "run"

\* The server starts with exactly the options its command line and config
\* file ask for, the command line winning, and a command line or file it
\* does not understand never becomes a running server: run(), parse_args,
\* parse_config, apply_flags and validate against the contract's section 1.
CfgAsDocumented ==
  [][/\ spc \in {"args", "config"} /\ spc' \notin {"args", "config"}
     /\ exit' # "killed"
     => CASE DocumentedStart = "reject" -> exit' = "1"
          [] DocumentedStart = "print" -> exit' = "0"
          [] OTHER -> spc' = "bind" /\ cfg' = DocumentedCfg]_vars

\* "A readable file always implies a connectable server" while the process
\* lives, a launch that returned Ok left a listener behind it, and a process
\* that ended by itself left no file, whichever moment the signal came at:
\* the order bind, create, fill, remove of run() against the order read,
\* connect of the harness.
PortsFileTrue ==
  /\ exit = "none" => (file = "full" \/ launched => listening)
  /\ exit = "0" => file = "absent"

\* No child outlives its launch: when launch has failed or the guard is
\* dropped the process has ended, however start-up and deadline raced.
NoOrphan == hpc \in {"failed", "dropped"} => exit # "none"

\* `active` counts the connection tasks, and never exceeds the limit: the
\* test and the increment of accept_loop against the guards' decrements.
SlotsExact ==
  /\ active = Cardinality(served)
  /\ cfg.max_connections >= 0 => active <= cfg.max_connections

\* Every launch returns: ready, or failed with the child reaped.
LaunchReturns == <>(hpc \in {"ready", "failed", "dropped"})

\* A connection the kernel has queued reaches accept_loop, whatever failures
\* of accept() come in between.
AcceptReaches ==
  \A c \in Clients : c \in Queued ~> c \notin Queued

\* parse_duration_str is "Go's `time.ParseDuration`", which keeps fractions.
\* Refuted: 1.5s is read as 1s.
GoDurations ==
  spc = "config" =>
    \A t \in DOMAIN DurText :
      LET d == parse_duration_str(t)
          Halves(total, x) == total + x.half * UnitScale[x.unit]
      IN d # <<>> => 2 * d[1] = Loop(Halves, 0, DurText[t].terms)

\* The ports file is removed on SIGTERM and SIGINT (contract, section 1).
\* Refuted between write_ports_file and the handlers.
SignalRemoves ==
  [][\A s \in Signals : Signal(s) /\ exit' = "killed" => file' = "absent"]_vars

\* An unknown flag ends the process with status 0 (contract, section 1).
UnknownFlagStatus ==
  [][/\ spc = "args" /\ spc' = "exited" /\ exit' # "killed"
     /\ \E i \in DOMAIN Effective : FlagOf(Effective[i].flag) = None
     => exit' = "0"]_vars
=============================================================================
