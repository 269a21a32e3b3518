---------------------------- MODULE ProcessProofs ----------------------------
(***************************************************************************)
(* Theorems about Process, for every set of launches, every number of      *)
(* clients and every connection limit: what the ports file promises, that  *)
(* no launch leaves a child behind, and that the slot count is exact.      *)
(***************************************************************************)
EXTENDS Process, FiniteSetTheorems, TLAPS

-----------------------------------------------------------------------------
(* The ports file and the child                                            *)

\* The steps of run() that find the listener bound.
Bound == {"create", "fill", "term", "int", "serve", "remove", "return"}

\* Where run() is against the file it writes and removes, and the listener.
Ordered ==
  /\ spc \in {"args", "config", "bind", "exited"} \cup Bound
  /\ exit = "none" <=> spc # "exited"
  /\ spc \in Bound => listening = TRUE
  /\ spc \in {"args", "config", "bind", "create", "return"} => file = "absent"
  /\ spc = "fill" => file # "full" /\ cfg.ports_file_dir # None
  /\ cfg.ports_file_dir = None /\ spc \in {"term", "int", "serve", "remove"}
       => file = "absent"
  /\ exit = "0" => file = "absent"
  /\ launched /\ exit = "none" => listening = TRUE
  /\ hpc \in {"failed", "dropped"} => exit # "none"

\* Every step of the process, of the harness and of a signal keeps that order.
LEMMA OrderedStep == Ordered /\ [Next]_vars => Ordered'
<1> SUFFICES ASSUME Ordered, [Next]_vars PROVE Ordered'
    OBVIOUS
<1> USE DEF Ordered, Bound, inputVars, netVars, harnessVars, mainVars
<1>1. CASE ParseArgs
  BY <1>1 DEF ParseArgs, Ends
<1>2. CASE LoadConfig
  BY <1>2 DEF LoadConfig, Ends
<1>3. CASE Bind
  BY <1>3 DEF Bind, Ends
<1>4. CASE CreateFile
  <2>1. CASE spc' = "exited"
    BY <1>4, <2>1 DEF CreateFile, Ends
  <2>2. CASE spc' # "exited"
    BY <1>4, <2>2 DEF CreateFile, Ends
  <2> QED BY <2>1, <2>2
<1>5. CASE FillFile
  BY <1>5 DEF FillFile, Ends
<1>6. CASE InstallHandler \/ Awake
  BY <1>6 DEF InstallHandler, Awake, Ends
<1>7. CASE RemoveFile \/ Return
  BY <1>7 DEF RemoveFile, Return, Ends
<1>8. CASE \E s \in Signals : Signal(s)
  BY <1>8 DEF Signal, Ends
<1>9. CASE Net \/ Connections \/ Test
  BY <1>9 DEF Net, Connections, Test, AcceptOne, AcceptFails, AcceptResumes, TaskEnds,
              ClientConnects, ClientCloses
<1>10. CASE HarnessChecks \/ HarnessReads \/ HarnessSleeps \/ TimeUp \/ GuardDropped
  BY <1>10 DEF HarnessChecks, HarnessReads, HarnessSleeps, TimeUp, GuardDropped
<1>11. CASE HarnessConnects \/ HarnessReaps
  BY <1>11 DEF HarnessConnects, HarnessReaps
<1>12. CASE HarnessKills
  BY <1>12 DEF HarnessKills, Ends
<1>13. CASE UNCHANGED vars
  BY <1>13 DEF vars
<1> QED
  BY <1>1, <1>2, <1>3, <1>4, <1>5, <1>6, <1>7, <1>8, <1>9, <1>10, <1>11, <1>12,
     <1>13 DEF Next, Main, Harness

\* The order holds at all times.
LEMMA OrderedAlways == Spec => []Ordered
<1>1. Init => Ordered
  BY DEF Init, Ordered, Bound
<1> QED BY <1>1, OrderedStep, PTL DEF Spec

\* A complete ports file, and a launch that returned Ok, mean a bound listener as
\* long as the process lives, and run() returning normally leaves no file, for
\* every command line and config file.
THEOREM ProcessPortsFileTrue == Spec => []PortsFileTrue
<1>1. Ordered => PortsFileTrue
  BY DEF Ordered, Bound, PortsFileTrue
<1> QED BY <1>1, OrderedAlways, PTL

\* When launch has failed or the guard is dropped, the child has ended.
THEOREM ProcessNoOrphan == Spec => []NoOrphan
<1>1. Ordered => NoOrphan
  BY DEF Ordered, NoOrphan
<1> QED BY <1>1, OrderedAlways, PTL

-----------------------------------------------------------------------------
(* The slots                                                               *)

\* Connections wait or are served once each, and before the listener there are
\* none; the probe connects before launch returns and only then.
Distinct ==
  /\ served \subseteq Peers /\ backlog \in Seq(Peers)
  /\ \A i, j \in DOMAIN backlog : backlog[i] = backlog[j] => i = j
  /\ \A i \in DOMAIN backlog : backlog[i] \notin served
  /\ ~launched => Probe \notin served /\ \A i \in DOMAIN backlog : backlog[i] # Probe
  /\ hpc \in {"poll", "read", "connect", "sleep"} => ~launched
  /\ spc \in {"args", "config", "bind"} =>
        listening = FALSE /\ backlog = <<>> /\ served = {}

\* A step keeps the connections apart.
LEMMA DistinctStep == Distinct /\ [Next]_vars => Distinct'
<1> SUFFICES ASSUME Distinct, [Next]_vars PROVE Distinct'
    OBVIOUS
<1>e. <<>> \in Seq(Peers) /\ DOMAIN <<>> = {}
  OBVIOUS
<1> USE DEF inputVars, netVars, harnessVars, mainVars
<1>1. ASSUME UNCHANGED <<backlog, served, launched, hpc>>,
             spc' \in {"args", "config", "bind"} =>
                 spc \in {"args", "config", "bind"} /\ listening' = listening
      PROVE  Distinct'
  BY <1>1 DEF Distinct
<1>2. ASSUME NEW st, Ends(st), launched' = launched, hpc' = hpc \/ hpc' = "wait"
      PROVE  Distinct'
  BY <1>2, <1>e DEF Ends, Distinct
<1>3. CASE Main
  <2>1. CASE ParseArgs
    BY <2>1, <1>1, <1>2 DEF ParseArgs
  <2>2. CASE LoadConfig
    BY <2>2, <1>1, <1>2 DEF LoadConfig
  <2>3. CASE Bind \/ CreateFile \/ FillFile
    BY <2>3, <1>1, <1>2 DEF Bind, CreateFile, FillFile
  <2>4. CASE InstallHandler \/ Awake \/ RemoveFile \/ Return
    BY <2>4, <1>1, <1>2 DEF InstallHandler, Awake, RemoveFile, Return
  <2> QED BY <1>3, <2>1, <2>2, <2>3, <2>4 DEF Main
<1>4. CASE \E s \in Signals : Signal(s)
  BY <1>4, <1>1, <1>2 DEF Signal
<1>5. CASE AcceptOne
  <2>1. /\ backlog \in Seq(Peers) /\ backlog # <<>> /\ backlog' = Tail(backlog)
        /\ (served' = served \/ served' = served \cup {Head(backlog)})
        /\ UNCHANGED <<launched, hpc, spc, listening>> /\ listening
    BY <1>5 DEF AcceptOne, Distinct
  <2>2. /\ backlog' \in Seq(Peers) /\ Head(backlog) = backlog[1] /\ 1 \in DOMAIN backlog
        /\ backlog[1] \in Peers
        /\ \A i \in DOMAIN backlog' : /\ i + 1 \in DOMAIN backlog /\ i + 1 # 1 /\ i \in Int
                                      /\ backlog'[i] = backlog[i + 1]
    BY <2>1
  <2>3. spc' \notin {"args", "config", "bind"}
    BY <2>1 DEF Distinct
  <2>4. \A i, j \in DOMAIN backlog' : backlog'[i] = backlog'[j] => i = j
    BY <2>2 DEF Distinct
  <2>5. \A i \in DOMAIN backlog' : backlog'[i] \notin served'
    BY <2>1, <2>2 DEF Distinct
  <2>6. served' \subseteq Peers
    BY <2>1, <2>2 DEF Distinct
  <2>7. ~launched => Probe \notin served' /\ \A i \in DOMAIN backlog' : backlog'[i] # Probe
    BY <2>1, <2>2 DEF Distinct
  <2> QED BY <2>1, <2>2, <2>3, <2>4, <2>5, <2>6, <2>7 DEF Distinct
<1>6. CASE AcceptFails \/ AcceptResumes
  BY <1>6, <1>1 DEF AcceptFails, AcceptResumes
<1>7. CASE Connections
  BY <1>7 DEF Connections, TaskEnds, Distinct
<1>8. ASSUME NEW c \in Peers, backlog' = Append(backlog, c), c \notin served,
             \A i \in DOMAIN backlog : backlog[i] # c, listening,
             c = Probe => launched', launched => launched',
             hpc' \in {"poll", "read", "connect", "sleep"} => ~launched',
             UNCHANGED <<served, spc, listening>>
      PROVE  Distinct'
  <2>1. backlog \in Seq(Peers)
    BY DEF Distinct
  <2>2. /\ backlog' \in Seq(Peers) /\ DOMAIN backlog' = DOMAIN backlog \cup {Len(backlog) + 1}
        /\ backlog'[Len(backlog) + 1] = c
        /\ \A i \in DOMAIN backlog : backlog'[i] = backlog[i]
    BY <2>1, <1>8
  <2>3. \A i, j \in DOMAIN backlog' : backlog'[i] = backlog'[j] => i = j
    BY <2>2, <1>8 DEF Distinct
  <2>4. \A i \in DOMAIN backlog' : backlog'[i] \notin served
    BY <2>2, <1>8 DEF Distinct
  <2>5. spc' \notin {"args", "config", "bind"}
    BY <1>8 DEF Distinct
  <2>6. ~launched' => Probe \notin served' /\ \A i \in DOMAIN backlog' : backlog'[i] # Probe
    BY <2>2, <1>8 DEF Distinct
  <2> QED BY <2>2, <2>3, <2>4, <2>5, <2>6, <1>8 DEF Distinct
<1>9. CASE Test
  <2>1. PICK c \in Clients : ClientConnects(c) \/ ClientCloses(c)
    BY <1>9 DEF Test
  <2>2. CASE ClientConnects(c)
    <3>1. c \in Peers /\ c # Probe
      BY ProcessAssumption DEF Peers, ProcessAssumption
    <3> QED BY <2>2, <3>1, <1>8 DEF ClientConnects, Queued, Distinct
  <2>3. CASE ClientCloses(c)
    BY <2>3, <1>1 DEF ClientCloses
  <2> QED BY <2>1, <2>2, <2>3
<1>10. CASE HarnessConnects
  <2>1. CASE hpc' = "ready"
    <3>1. Probe \in Peers
      BY DEF Peers
    <3> QED BY <1>10, <2>1, <3>1, <1>8 DEF HarnessConnects, Distinct
  <2>2. CASE hpc' # "ready"
    BY <1>10, <2>2 DEF HarnessConnects, Distinct
  <2> QED BY <2>1, <2>2
<1>11. CASE HarnessKills
  BY <1>11, <1>2 DEF HarnessKills, Distinct
<1>12. CASE HarnessChecks \/ HarnessReads \/ HarnessSleeps \/ HarnessReaps
            \/ TimeUp \/ GuardDropped
  BY <1>12 DEF HarnessChecks, HarnessReads, HarnessSleeps, HarnessReaps, TimeUp,
               GuardDropped, Distinct
<1>13. CASE UNCHANGED vars
  BY <1>13, <1>1 DEF vars
<1> QED
  BY <1>3, <1>4, <1>5, <1>6, <1>7, <1>9, <1>10, <1>11, <1>12, <1>13
     DEF Next, Net, Harness

\* The limit as accept_loop compares it with the count.
IntLimit == cfg.max_connections \in Int

\* A step keeps the count: a task is counted as it is spawned, under the limit,
\* and each guard takes back one slot.
LEMMA SlotsStep ==
  Distinct /\ IntLimit /\ SlotsExact /\ [Next]_vars => SlotsExact'
<1> SUFFICES ASSUME Distinct, IntLimit, SlotsExact, [Next]_vars PROVE SlotsExact'
    OBVIOUS
<1>f. IsFiniteSet(served)
  <2>1. IsFiniteSet(Peers)
    BY ProcessAssumption, FS_AddElement DEF Peers, ProcessAssumption
  <2> QED BY <2>1, FS_Subset DEF Distinct
<1>n. Cardinality(served) \in Nat /\ active = Cardinality(served)
  BY <1>f, FS_CardinalityType DEF SlotsExact
<1>z. Cardinality({}) = 0
  BY FS_EmptySet
<1> USE DEF inputVars, netVars, harnessVars, mainVars
<1>1. ASSUME UNCHANGED <<active, served, cfg>> PROVE SlotsExact'
  BY <1>1 DEF SlotsExact
<1>2. ASSUME served' = {}, active' = 0 PROVE SlotsExact'
  BY <1>2, <1>z DEF SlotsExact
<1>3. CASE Main
  <2>1. CASE ParseArgs
    BY <2>1, <1>1, <1>2 DEF ParseArgs, Ends
  <2>2. CASE LoadConfig
    <3>1. served = {} /\ active = 0
      BY <2>2, <1>n, <1>z DEF LoadConfig, Distinct
    <3> QED BY <2>2, <3>1, <1>2 DEF LoadConfig, Ends
  <2>3. CASE Bind \/ CreateFile \/ FillFile
    BY <2>3, <1>1, <1>2 DEF Bind, CreateFile, FillFile, Ends
  <2>4. CASE InstallHandler \/ Awake \/ RemoveFile \/ Return
    BY <2>4, <1>1, <1>2 DEF InstallHandler, Awake, RemoveFile, Return, Ends
  <2> QED BY <1>3, <2>1, <2>2, <2>3, <2>4 DEF Main
<1>4. CASE \E s \in Signals : Signal(s)
  BY <1>4, <1>1, <1>2 DEF Signal, Ends
<1>5. CASE AcceptOne
  <2>1. CASE UNCHANGED <<served, active>>
    BY <1>5, <2>1, <1>1 DEF AcceptOne
  <2>2. CASE ~Full /\ active' = active + 1 /\ served' = served \cup {Head(backlog)}
    <3>1. Head(backlog) \notin served
      BY <1>5 DEF AcceptOne, Distinct
    <3>2. Cardinality(served') = Cardinality(served) + 1
      BY <2>2, <3>1, <1>f, FS_AddElement
    <3>3. cfg' = cfg
      BY <1>5 DEF AcceptOne
    <3> QED BY <2>2, <3>2, <3>3, <1>n DEF SlotsExact, Full, IntLimit
  <2> QED BY <1>5, <2>1, <2>2 DEF AcceptOne
<1>6. CASE AcceptFails \/ AcceptResumes \/ Test
  BY <1>6, <1>1 DEF AcceptFails, AcceptResumes, Test, ClientConnects, ClientCloses
<1>7. CASE Connections
  <2>1. PICK c \in served : served' = served \ {c} /\ active' = active - 1 /\ cfg' = cfg
    BY <1>7 DEF Connections, TaskEnds
  <2>2. Cardinality(served') = Cardinality(served) - 1
    BY <2>1, <1>f, FS_RemoveElement
  <2> QED BY <2>1, <2>2, <1>n DEF SlotsExact, IntLimit
<1>8. CASE HarnessChecks \/ HarnessReads \/ HarnessSleeps \/ HarnessReaps
           \/ HarnessConnects \/ TimeUp \/ GuardDropped
  BY <1>8, <1>1 DEF HarnessChecks, HarnessReads, HarnessSleeps, HarnessReaps,
                    HarnessConnects, TimeUp, GuardDropped
<1>9. CASE HarnessKills
  BY <1>9, <1>1, <1>2 DEF HarnessKills, Ends
<1>10. CASE UNCHANGED vars
  BY <1>10, <1>1 DEF vars
<1> QED
  BY <1>3, <1>4, <1>5, <1>6, <1>7, <1>8, <1>9, <1>10 DEF Next, Net, Harness

\* Server::active is the number of connection tasks and stays within the limit
\* accept_loop tests, for any number of clients, however accepts and ends of
\* tasks interleave, provided the options were read as numbers.
THEOREM ProcessSlotsExact == Spec /\ []IntLimit => []SlotsExact
<1>1. Init => Distinct /\ SlotsExact
  <2> SUFFICES ASSUME Init PROVE Distinct /\ SlotsExact
      OBVIOUS
  <2>1. Distinct
    <3>1. <<>> \in Seq(Peers) /\ DOMAIN <<>> = {}
      OBVIOUS
    <3> QED BY <3>1 DEF Init, Distinct
  <2>2. SlotsExact
    BY FS_EmptySet DEF Init, SlotsExact
  <2> QED BY <2>1, <2>2
<1> QED BY <1>1, DistinctStep, SlotsStep, PTL DEF Spec
=============================================================================
