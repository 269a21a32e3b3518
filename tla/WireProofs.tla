----------------------------- MODULE WireProofs -----------------------------
(***************************************************************************)
(* Theorems about Keepalive and WireClient, for every ping limit, queue    *)
(* and buffer size: the server never counts a probe that is not under way, *)
(* and the barrier of the test client is one.  The last part is about      *)
(* FloodPubSub, the other program at the far end of the wire.              *)
(***************************************************************************)
EXTENDS WireClient, FloodPubSub, TLAPS

-----------------------------------------------------------------------------
(* Sequences                                                               *)

\* What Append adds is there, and what was there stays.
LEMMA HasAppend ==
    ASSUME NEW S, NEW s \in Seq(S), NEW y \in S, NEW x
    PROVE  Has(Append(s, y), x) <=> Has(s, x) \/ y = x
<1> DEFINE t == Append(s, y)
<1>0. /\ DOMAIN t = 1..(Len(s) + 1) /\ t[Len(s) + 1] = y
      /\ DOMAIN s = 1..Len(s) /\ \A i \in 1..Len(s) : t[i] = s[i]
      /\ Len(s) \in Nat
  OBVIOUS
<1> HIDE DEF t
<1>1. ASSUME Has(t, x) PROVE Has(s, x) \/ y = x
  <2>1. PICK i \in DOMAIN t : t[i] = x
    BY <1>1 DEF Has
  <2>2. CASE i = Len(s) + 1
    BY <2>1, <2>2, <1>0
  <2>3. CASE i \in DOMAIN s
    BY <2>1, <2>3, <1>0 DEF Has
  <2> QED BY <2>1, <2>2, <2>3, <1>0
<1>2. ASSUME Has(s, x) PROVE Has(t, x)
  <2>1. PICK i \in DOMAIN s : s[i] = x
    BY <1>2 DEF Has
  <2>2. i \in DOMAIN t /\ t[i] = x
    BY <2>1, <1>0
  <2> QED BY <2>2 DEF Has
<1>3. ASSUME y = x PROVE Has(t, x)
  <2>1. Len(s) + 1 \in DOMAIN t /\ t[Len(s) + 1] = x
    BY <1>3, <1>0
  <2> QED BY <2>1 DEF Has
<1> QED BY <1>1, <1>2, <1>3 DEF t

\* What a sequence has is its head or in its tail.
LEMMA HasTail ==
    ASSUME NEW S, NEW s \in Seq(S), s # <<>>, NEW x
    PROVE  Has(s, x) <=> Head(s) = x \/ Has(Tail(s), x)
<1>1. ASSUME Has(s, x), Head(s) # x PROVE Has(Tail(s), x)
  <2>1. PICK i \in DOMAIN s : s[i] = x
    BY <1>1 DEF Has
  <2>2. i # 1 /\ i - 1 \in DOMAIN Tail(s) /\ Tail(s)[i - 1] = x
    BY <2>1, <1>1
  <2> QED BY <2>2 DEF Has
<1>2. ASSUME Has(Tail(s), x) PROVE Has(s, x)
  <2>1. PICK i \in DOMAIN Tail(s) : Tail(s)[i] = x
    BY <1>2 DEF Has
  <2>2. i + 1 \in DOMAIN s /\ s[i + 1] = x
    BY <2>1
  <2> QED BY <2>2 DEF Has
<1>3. ASSUME Head(s) = x PROVE Has(s, x)
  <2>1. 1 \in DOMAIN s /\ s[1] = x
    BY <1>3
  <2> QED BY <2>1 DEF Has
<1> QED BY <1>1, <1>2, <1>3

\* A read that takes the first n of what has arrived loses nothing.
LEMMA HasSplit ==
    ASSUME NEW S, NEW s \in Seq(S), NEW n \in 1..Len(s), NEW x
    PROVE  Has(s, x) <=> Has(SubSeq(s, 1, n), x) \/ Has(SubSeq(s, n + 1, Len(s)), x)
<1> DEFINE a == SubSeq(s, 1, n)  b == SubSeq(s, n + 1, Len(s))
<1>0. /\ DOMAIN a = 1..n /\ \A i \in 1..n : a[i] = s[i]
      /\ DOMAIN b = 1..(Len(s) - n) /\ \A i \in 1..(Len(s) - n) : b[i] = s[n + i]
      /\ DOMAIN s = 1..Len(s) /\ Len(s) \in Nat
  OBVIOUS
<1> HIDE DEF a, b
<1>1. ASSUME Has(s, x) PROVE Has(a, x) \/ Has(b, x)
  <2>1. PICK i \in DOMAIN s : s[i] = x
    BY <1>1 DEF Has
  <2>2. CASE i <= n
    BY <2>1, <2>2, <1>0 DEF Has
  <2>3. CASE i > n
    <3>1. i - n \in DOMAIN b /\ b[i - n] = x
      BY <2>1, <2>3, <1>0
    <3> QED BY <3>1 DEF Has
  <2> QED BY <2>1, <2>2, <2>3, <1>0
<1>2. ASSUME Has(a, x) PROVE Has(s, x)
  <2>1. PICK i \in DOMAIN a : a[i] = x
    BY <1>2 DEF Has
  <2>2. i \in DOMAIN s /\ s[i] = x
    BY <2>1, <1>0
  <2> QED BY <2>2 DEF Has
<1>3. ASSUME Has(b, x) PROVE Has(s, x)
  <2>1. PICK i \in DOMAIN b : b[i] = x
    BY <1>3 DEF Has
  <2>2. n + i \in DOMAIN s /\ s[n + i] = x
    BY <2>1, <1>0
  <2> QED BY <2>2 DEF Has
<1> QED BY <1>1, <1>2, <1>3 DEF a, b

\* The empty sequence, a tail and a prefix that are (or are not) empty.
LEMMA Emptiness ==
    ASSUME NEW S, NEW s \in Seq(S)
    PROVE  /\ <<>> \in Seq(S)
           /\ s # <<>> => (Tail(s) = <<>> <=> Len(s) = 1) /\ Tail(s) \in Seq(S)
           /\ \A n \in 1..Len(s) : SubSeq(s, 1, n) # <<>>
<1>1. <<>> \in Seq(S)
  OBVIOUS
<1>2. ASSUME s # <<>> PROVE Tail(s) \in Seq(S) /\ (Tail(s) = <<>> <=> Len(s) = 1)
  <2>1. Tail(s) \in Seq(S) /\ Len(Tail(s)) = Len(s) - 1
    BY <1>2
  <2>2. \A t \in Seq(S) : t = <<>> <=> Len(t) = 0
    OBVIOUS
  <2>3. Tail(s) = <<>> <=> Len(Tail(s)) = 0
    BY <2>1, <2>2, Zenon
  <2>4. Len(s) \in Nat
    OBVIOUS
  <2>5. Len(s) - 1 = 0 <=> Len(s) = 1
    BY <2>4
  <2> QED BY <2>1, <2>3, <2>5, Zenon
<1>3. ASSUME NEW n \in 1..Len(s) PROVE SubSeq(s, 1, n) # <<>>
  <2>1. 1 \in DOMAIN SubSeq(s, 1, n)
    OBVIOUS
  <2>2. 1 \notin DOMAIN <<>>
    OBVIOUS
  <2> QED BY <2>1, <2>2
<1> QED BY <1>1, <1>2, <1>3

-----------------------------------------------------------------------------
(* Probes                                                                  *)

\* The flags are Booleans: a fact of its own because the provers do arithmetic
\* and Boolean values apart.
Flags ==
    /\ due \in BOOLEAN /\ woken \in BOOLEAN /\ lost \in BOOLEAN
    /\ closed \in BOOLEAN /\ hard \in BOOLEAN /\ sender \in BOOLEAN

\* The rest of the type.
Data ==
    /\ rpc \in {"top", "arm", "select", "handle", "parked", "join", "gone"}
    /\ pings \in 0..MaxPingsOut
    /\ inbox \in Seq(Command) /\ batch \in Seq(Command)
    /\ outq \in Seq(Line) /\ wire \in Seq(Line)
    /\ wpc \in {"run", "done"}

\* The reader has events in hand exactly while it handles them, and is parked on
\* a publish; it is woken, and its loop ends, only on a closed connection.
Reading ==
    /\ rpc \in {"handle", "parked"} <=> batch # <<>>
    /\ rpc = "parked" => Head(batch) = "PUB"
    /\ woken => closed
    /\ rpc \in {"join", "gone"} => closed

Sound == Flags /\ Data /\ Reading

\* Every step of server and client keeps the flags Boolean.
LEMMA FlagsStep == Flags /\ [Next]_allVars => Flags'
<1> SUFFICES ASSUME Flags, [Next]_allVars PROVE Flags'
    OBVIOUS
<1> USE DEF Flags, readerVars, connVars, vars, serverSide, Finish, ReadLoopEnds,
            ReaderCloses, Handled
<1>1. CASE LoopTop \/ LoopTopClosed \/ Arm \/ SelectRead \/ SelectWake
  BY <1>1, Zenon DEF LoopTop, LoopTopClosed, Arm, SelectRead, SelectWake
<1>2. CASE SelectProbe
  BY <1>2, Zenon DEF SelectProbe
<1>3. CASE SelectStale \/ SelectEnd \/ HandleBad
  BY <1>3, Zenon DEF SelectStale, SelectEnd, HandleBad
<1>4. CASE HandlePong \/ HandlePing \/ HandlePub \/ Unpark \/ Park \/ SpawnJoined
  BY <1>4, Zenon DEF HandlePong, HandlePing, HandlePub, Unpark, Park, SpawnJoined
<1>5. CASE SpawnBackstop
  BY <1>5, Zenon DEF SpawnBackstop
<1>6. CASE Write \/ Elapse
  BY <1>6, Zenon DEF Write, Elapse
<1>7. CASE WriteEnd
  BY <1>7, Zenon DEF WriteEnd
<1>8. CASE WriteFails
  BY <1>8, Zenon DEF WriteFails
<1>9. CASE WriteDeadline
  BY <1>9, Zenon DEF WriteDeadline
<1>10. CASE SlowConsumer
  BY <1>10, Zenon DEF SlowConsumer
<1>11. CASE Send \/ BarrierStart \/ AbsorbPing \/ NextLine \/ BarrierPong
  BY <1>11, Zenon DEF Send, BarrierStart, AbsorbPing, NextLine, BarrierPong
<1>12. CASE BarrierPanic \/ Leave \/ MuteTakes
  BY <1>12, Zenon DEF BarrierPanic, Leave, MuteTakes, Dropped
<1>13. CASE DrainLine \/ ClosedLine \/ Return \/ \E c \in {"next", "drain", "closed"} : Call(c)
  BY <1>13, Zenon DEF DrainLine, ClosedLine, Return, Call
<1>14. CASE UNCHANGED allVars
  BY <1>14, Zenon DEF allVars
<1> QED
  BY <1>1, <1>2, <1>3, <1>4, <1>5, <1>6, <1>7, <1>8, <1>9, <1>10, <1>11, <1>12,
     <1>13, <1>14
     DEF Next, Server, ServerNext, ReaderStep, WriterStep, ClientNext

\* What the reader, the writer and the client do to the queues keeps their types.
LEMMA DataStep == Flags /\ Data /\ Reading /\ [Next]_allVars => Data'
<1> SUFFICES ASSUME Data, Reading, [Next]_allVars PROVE Data'
    OBVIOUS
<1>t. /\ {"PING", "PONG", "EOF"} \subseteq Command /\ Sends \subseteq Command
      /\ {"PING", "PONG", "ERR"} \subseteq Line
      /\ MaxPingsOut \in Nat
      /\ <<>> \in Seq(Command) /\ <<>> \in Seq(Line)
  BY KeepaliveAssumption, WireAssumption
     DEF Command, Line, KeepaliveAssumption, WireAssumption
<1>e. \A l \in Line : Enqueued(l) \in Seq(Line)
  BY DEF Enqueued, Data
<1>s. \A c \in Command : Sent(c) \in Seq(Command)
  BY DEF Sent, Data
<1> USE DEF Data, readerVars, connVars, vars, serverSide, ReadLoopEnds, ReaderCloses
<1>0. CASE LoopTop \/ Arm \/ SpawnJoined \/ Park \/ Elapse
  BY <1>0 DEF LoopTop, Arm, SpawnJoined, Park, Elapse
<1>1. CASE LoopTopClosed \/ SelectWake \/ SelectEnd \/ HandleBad
  BY <1>1, <1>t DEF LoopTopClosed, SelectWake, SelectEnd, HandleBad
<1>2. CASE SelectRead
  <2>1. PICK n \in 1..Len(inbox) :
            batch' = SubSeq(inbox, 1, n) /\ inbox' = SubSeq(inbox, n + 1, Len(inbox))
    BY <1>2 DEF SelectRead
  <2>2. batch' \in Seq(Command) /\ inbox' \in Seq(Command)
    BY <2>1
  <2> QED BY <1>2, <2>2 DEF SelectRead
<1>3. CASE SelectProbe \/ SelectStale
  <2>1. CASE SelectProbe
    BY <2>1, <1>t, <1>e DEF SelectProbe
  <2>2. CASE SelectStale
    BY <2>2, <1>t, <1>e DEF SelectStale
  <2> QED BY <1>3, <2>1, <2>2
<1>4. CASE HandlePong \/ HandlePing \/ HandlePub \/ Unpark
  <2>1. Handled /\ batch # <<>> /\ UNCHANGED <<inbox, wire, wpc>>
    BY <1>4 DEF HandlePong, HandlePing, HandlePub, Unpark, Event, Reading
  <2>2. batch' \in Seq(Command) /\ rpc' \in {"top", "handle"}
    BY <2>1, Emptiness DEF Handled
  <2>3. pings' \in {0, pings} /\ outq' \in {outq, Enqueued("PONG")}
    BY <1>4 DEF HandlePong, HandlePing, HandlePub, Unpark
  <2> QED
    BY <1>t, <1>e, <2>1, <2>2, <2>3
<1>5. CASE SpawnBackstop \/ WriteEnd \/ WriteFails \/ WriteDeadline \/ SlowConsumer
  BY <1>5 DEF SpawnBackstop, WriteEnd, WriteFails, WriteDeadline, SlowConsumer
<1>6. CASE Write
  BY <1>6 DEF Write
<1>7. CASE ClientNext
  <2>1. wire # <<>> => Tail(wire) \in Seq(Line)
    OBVIOUS
  <2>2. CASE Send \/ BarrierStart
    <3>1. inbox' \in Seq(Command)
      BY <2>2, <1>s, <1>t, Zenon DEF Send, BarrierStart
    <3> QED BY <2>2, <3>1 DEF Send, BarrierStart
  <2>6. CASE AbsorbPing \/ NextLine \/ BarrierPong
    BY <2>6, <2>1, <1>s, <1>t DEF AbsorbPing, NextLine, BarrierPong
  <2>3. CASE DrainLine \/ ClosedLine \/ MuteTakes
    BY <2>3, <2>1, <1>s, <1>t DEF DrainLine, ClosedLine, MuteTakes
  <2>4. CASE BarrierPanic \/ Leave
    <3>1. inbox' \in Seq(Command) /\ wire' \in Seq(Line)
      BY <2>4, <1>s, <1>t, Zenon DEF BarrierPanic, Leave, Dropped
    <3> QED BY <2>4, <3>1 DEF BarrierPanic, Leave
  <2>5. CASE Return \/ \E c \in {"next", "drain", "closed"} : Call(c)
    BY <2>5 DEF Return, Call
  <2> QED BY <1>7, <2>2, <2>3, <2>4, <2>5, <2>6 DEF ClientNext
<1>8. CASE UNCHANGED allVars
  BY <1>8 DEF allVars
<1> QED
  BY <1>0, <1>1, <1>2, <1>3, <1>4, <1>5, <1>6, <1>7, <1>8
     DEF Next, Server, ServerNext, ReaderStep, WriterStep

\* The reader's place stays in step with its events and with the close.
LEMMA ReadingStep == Flags /\ Data /\ Reading /\ [Next]_allVars => Reading'
<1> SUFFICES ASSUME Flags, Data, Reading, [Next]_allVars PROVE Reading'
    OBVIOUS
<1> USE DEF Flags, Reading, readerVars, connVars, vars, serverSide, ReadLoopEnds,
            ReaderCloses
<1>1. CASE LoopTop \/ LoopTopClosed \/ Arm \/ SelectWake \/ SelectEnd \/ SpawnJoined
  BY <1>1 DEF LoopTop, LoopTopClosed, Arm, SelectWake, SelectEnd, SpawnJoined
<1>2. CASE HandleBad \/ Park \/ Elapse
  BY <1>2 DEF HandleBad, Park, Elapse, Event
<1>3. CASE SelectRead
  <2>1. PICK n \in 1..Len(inbox) : batch' = SubSeq(inbox, 1, n)
    BY <1>3 DEF SelectRead
  <2>2. batch' # <<>>
    BY <2>1, Emptiness DEF Data
  <2> QED BY <1>3, <2>2 DEF SelectRead
<1>4. CASE SelectProbe \/ SelectStale
  BY <1>4 DEF SelectProbe, SelectStale
<1>5. CASE HandlePong \/ HandlePing \/ HandlePub \/ Unpark
  <2>1. Handled /\ batch # <<>> /\ UNCHANGED <<woken, closed>>
    BY <1>5 DEF HandlePong, HandlePing, HandlePub, Unpark, Event
  <2>2. Tail(batch) = <<>> <=> Len(batch) = 1
    BY <2>1, Emptiness DEF Data
  <2> QED BY <2>1, <2>2 DEF Handled
<1>6. CASE SpawnBackstop \/ WriteEnd \/ WriteFails \/ WriteDeadline \/ SlowConsumer
  <2>1. closed' = TRUE /\ UNCHANGED batch /\ (rpc' = rpc \/ (rpc = "join" /\ rpc' = "gone"))
    BY <1>6, Zenon DEF SpawnBackstop, WriteEnd, WriteFails, WriteDeadline, SlowConsumer, Finish
  <2> QED BY <2>1
<1>7. CASE Write
  BY <1>7 DEF Write
<1>8. CASE ClientNext
  <2>1. UNCHANGED <<rpc, batch, woken, closed>>
    BY <1>8 DEF ClientNext, Send, BarrierStart, Call, AbsorbPing, NextLine, BarrierPong,
         BarrierPanic, DrainLine, ClosedLine, Return, Leave, MuteTakes
  <2> QED BY <2>1
<1>9. CASE UNCHANGED allVars
  BY <1>9 DEF allVars
<1> QED
  BY <1>1, <1>2, <1>3, <1>4, <1>5, <1>6, <1>7, <1>8, <1>9
     DEF Next, Server, ServerNext, ReaderStep, WriterStep

\* A probe stays accounted for: the reader counts it as it queues it, the writer
\* and the client hand it on, and the PONG that replaces it is on its way until
\* the reader resets the counter.
LEMMA ProbeStep == Sound /\ ProbeAccounted /\ [Next]_allVars => ProbeAccounted'
<1> SUFFICES ASSUME Sound, ProbeAccounted, [Next]_allVars,
                    pings' > 0, ~closed', ~lost'
             PROVE  \/ Has(outq', "PING") \/ Has(wire', "PING")
                    \/ Has(inbox', "PONG") \/ Has(batch', "PONG")
    BY DEF ProbeAccounted
<1>t. /\ outq \in Seq(Line) /\ wire \in Seq(Line)
      /\ inbox \in Seq(Command) /\ batch \in Seq(Command) /\ pings \in Nat
  BY KeepaliveAssumption DEF Sound, Data, KeepaliveAssumption
<1>q. /\ \A y \in Line, x \in Line : Has(Append(outq, y), x) <=> Has(outq, x) \/ y = x
      /\ \A y \in Line, x \in Line : Has(Append(wire, y), x) <=> Has(wire, x) \/ y = x
      /\ \A y \in Command, x \in Command : Has(Append(inbox, y), x) <=> Has(inbox, x) \/ y = x
  BY HasAppend, <1>t
<1>h. /\ outq # <<>> => \A x \in Line : Has(outq, x) <=> Head(outq) = x \/ Has(Tail(outq), x)
      /\ wire # <<>> => \A x \in Line : Has(wire, x) <=> Head(wire) = x \/ Has(Tail(wire), x)
      /\ batch # <<>> => \A x \in Command : Has(batch, x) <=> Head(batch) = x \/ Has(Tail(batch), x)
  BY HasTail, <1>t
<1>e. Has(outq, "PING") => Has(Enqueued("PING"), "PING") /\ Has(Enqueued("PONG"), "PING")
  BY <1>q DEF Enqueued, Line
<1>f. /\ Has(inbox, "PONG") /\ ~closed => \A c \in Command : Has(Sent(c), "PONG")
      /\ ~closed => Has(Sent("PONG"), "PONG")
  BY <1>q DEF Sent, Command, Sound, Reading
<1>p. Has(<<>>, "PING") = FALSE
  BY DEF Has
<1> USE DEF readerVars, connVars, vars, serverSide, ProbeAccounted
<1>1. CASE LoopTop \/ Arm \/ SpawnJoined \/ Park \/ Elapse
  BY <1>1 DEF LoopTop, Arm, SpawnJoined, Park, Elapse
<1>2. CASE LoopTopClosed \/ SelectWake
  BY <1>2 DEF LoopTopClosed, SelectWake, Sound, Reading
<1>3. CASE SelectEnd \/ HandleBad \/ SelectStale
  BY <1>3 DEF SelectEnd, HandleBad, SelectStale, ReaderCloses
<1>4. CASE SelectRead
  <2>1. PICK n \in 1..Len(inbox) :
            batch' = SubSeq(inbox, 1, n) /\ inbox' = SubSeq(inbox, n + 1, Len(inbox))
    BY <1>4 DEF SelectRead
  <2>2. Has(inbox, "PONG") => Has(batch', "PONG") \/ Has(inbox', "PONG")
    BY <2>1, <1>t, HasSplit
  <2>3. ~Has(batch, "PONG")
    BY <1>4 DEF SelectRead, Sound, Reading, Has
  <2> QED BY <1>4, <2>2, <2>3 DEF SelectRead
<1>5. CASE SelectProbe
  <2>1. Room
    BY <1>5 DEF SelectProbe
  <2>2. Has(outq', "PING")
    BY <1>5, <2>1, <1>q DEF SelectProbe, Enqueued, Line
  <2> QED BY <2>2
<1>6. CASE HandlePong
  BY <1>6 DEF HandlePong
<1>7. CASE HandlePing \/ HandlePub \/ Unpark
  <2>1. batch # <<>>
    BY <1>7 DEF HandlePing, HandlePub, Unpark, Event, Sound, Reading
  <2>2. CASE HandlePing \/ HandlePub
    BY <1>t, <2>2, <2>1, <1>h, <1>e
       DEF HandlePing, HandlePub, Event, Handled, Command
  <2>3. CASE Unpark
    <3>1. Head(batch) # "PONG"
      BY <2>3 DEF Unpark, Sound, Reading
    <3> QED
      BY <2>3, <2>1, <1>h, <3>1 DEF Unpark, Handled, Command
  <2> QED BY <1>7, <2>2, <2>3
<1>8. CASE SpawnBackstop \/ WriteEnd \/ WriteFails \/ WriteDeadline \/ SlowConsumer
  BY <1>8 DEF SpawnBackstop, WriteEnd, WriteFails, WriteDeadline, SlowConsumer, Finish
<1>9. CASE Write
  BY <1>9, <1>q, <1>h, <1>t DEF Write, Line
<1>10. CASE Send \/ BarrierStart
  BY <1>10, <1>f, WireAssumption DEF Send, BarrierStart, Command, WireAssumption
<1>11. CASE AbsorbPing
  BY <1>11, <1>f DEF AbsorbPing
<1>12. CASE NextLine \/ BarrierPong \/ MuteTakes
  BY <1>12, <1>h DEF NextLine, BarrierPong, MuteTakes, Line
<1>13. CASE BarrierPanic \/ Leave
  BY <1>13, <1>f, <1>p DEF BarrierPanic, Leave, Dropped, Command
<1>14. CASE DrainLine \/ ClosedLine
  BY <1>14, <1>f, <1>h DEF DrainLine, ClosedLine, Line
<1>15. CASE Return \/ \E c \in {"next", "drain", "closed"} : Call(c)
  BY <1>15 DEF Return, Call
<1>16. CASE UNCHANGED allVars
  BY <1>16 DEF allVars
<1> QED
  BY <1>1, <1>2, <1>3, <1>4, <1>5, <1>6, <1>7, <1>8, <1>9, <1>10, <1>11, <1>12,
     <1>13, <1>14, <1>15, <1>16
     DEF Next, Server, ServerNext, ReaderStep, WriterStep, ClientNext

\* The first state.
LEMMA WireInit == ClientInit => Sound /\ ProbeAccounted
<1> SUFFICES ASSUME ClientInit PROVE Sound /\ ProbeAccounted
    OBVIOUS
<1>1. Flags
  BY Zenon DEF ClientInit, Init, Flags
<1>2. Data
  BY KeepaliveAssumption DEF ClientInit, Init, Data, KeepaliveAssumption, Command, Line
<1>3. Reading /\ ProbeAccounted
  BY DEF ClientInit, Init, Reading, ProbeAccounted
<1> QED BY <1>1, <1>2, <1>3 DEF Sound

\* The types of Keepalive hold at all times, whatever the client does.
THEOREM WireTypeCorrect == Spec => []TypeOK
<1>1. Sound /\ [Next]_allVars => Sound'
  BY FlagsStep, DataStep, ReadingStep DEF Sound
<1>2. Sound => TypeOK
  BY Zenon DEF Sound, Flags, Data, TypeOK
<1> QED BY <1>1, <1>2, WireInit, PTL DEF Spec

\* The server closes a connection as stale only over probes it really sent: while
\* read_loop's counter is up, a probe or its answer is under way, for every
\* max_pings_out and whatever the client does.
THEOREM WireProbeAccounted == Spec => []ProbeAccounted
<1>1. Sound /\ [Next]_allVars => Sound'
  BY FlagsStep, DataStep, ReadingStep DEF Sound
<1> QED BY <1>1, ProbeStep, WireInit, PTL DEF Spec

-----------------------------------------------------------------------------
(* The barrier                                                             *)

\* The commands on their way to handle, in order, and the lines on their way to
\* the client, in order.
Total == Len(batch) + Len(inbox)
Cmd(i) == IF i <= Len(batch) THEN batch[i] ELSE inbox[i - Len(batch)]
Lines == Len(wire) + Len(outq)
Out(i) == IF i <= Len(wire) THEN wire[i] ELSE outq[i - Len(wire)]

NoPing == \A i \in 1..Total : Cmd(i) # "PING"
Quiet == \A i \in 1..Lines : Out(i) # "PONG"
Single == \A i, j \in 1..Lines : Out(i) = "PONG" /\ Out(j) = "PONG" => i = j

\* A barrier waits behind exactly the commands counted when it was sent; its PONG
\* exists only once they are all handled, and no PONG outlives its barrier.
Waiting ==
    /\ proved = TRUE
    /\ ahead \in Nat
    /\ cpc \in {"idle", "next", "drain", "closed"} => NoPing /\ Quiet
    /\ cpc = "barrier" =>
          \/ /\ Quiet /\ ahead + 1 \in 1..Total
             /\ \A i \in 1..Total : Cmd(i) = "PING" <=> i = ahead + 1
          \/ NoPing /\ Single /\ (ahead = 0 \/ Quiet)

\* What a step can do to the two.
CmdsKept == Total' = Total /\ \A i \in 1..Total : Cmd(i)' = Cmd(i)
CmdsGone == Total' = 0
CmdsTaken ==
    /\ Total >= 1 /\ Total' = Total - 1
    /\ \A i \in 1..(Total - 1) : Cmd(i)' = Cmd(i + 1)
CmdsAdded(c) ==
    /\ Total' = Total + 1
    /\ \A i \in 1..(Total + 1) : Cmd(i)' = IF i <= Total THEN Cmd(i) ELSE c
OutKept == Lines' = Lines /\ \A i \in 1..Lines : Out(i)' = Out(i)
OutTaken ==
    /\ Lines >= 1 /\ Lines' = Lines - 1
    /\ \A i \in 1..(Lines - 1) : Out(i)' = Out(i + 1)
OutAdded(l) ==
    /\ Lines' = Lines + 1
    /\ \A i \in 1..(Lines + 1) : Out(i)' = IF i <= Lines THEN Out(i) ELSE l

\* A step that leaves the queues alone keeps what is under way.
LEMMA Kept ==
    /\ Sound /\ UNCHANGED <<batch, inbox>> => CmdsKept
    /\ Sound /\ UNCHANGED <<wire, outq>> => OutKept
BY DEF CmdsKept, OutKept, Total, Lines, Cmd, Out, Sound, Data

\* Queueing a line adds it last, or drops it; taking one off the wire takes the
\* first; the writer only moves one over.
LEMMA OutEffects ==
    ASSUME Sound
    PROVE  /\ \A l \in Line :
                 outq' = Enqueued(l) /\ wire' = wire => OutKept \/ OutAdded(l)
           /\ wire # <<>> /\ wire' = Tail(wire) /\ outq' = outq => OutTaken /\ Out(1) = Head(wire)
           /\ Write => OutKept
<1>t. /\ wire \in Seq(Line) /\ outq \in Seq(Line)
      /\ Len(wire) \in Nat /\ Len(outq) \in Nat
  BY DEF Sound, Data
<1>1. ASSUME NEW l \in Line, outq' = Enqueued(l), wire' = wire
      PROVE  OutKept \/ OutAdded(l)
  <2>1. CASE outq' = outq
    BY <1>1, <2>1, <1>t DEF OutKept, Lines, Out
  <2>2. CASE outq' = Append(outq, l)
    <3>1. /\ Len(outq') = Len(outq) + 1 /\ outq'[Len(outq) + 1] = l
          /\ \A i \in 1..Len(outq) : outq'[i] = outq[i]
      BY <2>2, <1>t
    <3> QED BY <3>1, <1>1, <1>t DEF OutAdded, Lines, Out
  <2> QED BY <1>1, <2>1, <2>2 DEF Enqueued
<1>2. ASSUME wire # <<>>, wire' = Tail(wire), outq' = outq
      PROVE  OutTaken /\ Out(1) = Head(wire)
  <2>1. /\ Len(wire) >= 1 /\ Len(wire') = Len(wire) - 1 /\ Head(wire) = wire[1]
        /\ \A i \in 1..(Len(wire) - 1) : wire'[i] = wire[i + 1]
    BY <1>2, <1>t
  <2> QED BY <2>1, <1>2, <1>t DEF OutTaken, Lines, Out
<1>3. ASSUME Write PROVE OutKept
  <2>1. /\ Len(outq) >= 1 /\ Len(outq') = Len(outq) - 1
        /\ \A i \in 1..(Len(outq) - 1) : outq'[i] = outq[i + 1]
        /\ Len(wire') = Len(wire) + 1 /\ wire'[Len(wire) + 1] = outq[1]
        /\ \A i \in 1..Len(wire) : wire'[i] = wire[i]
    BY <1>3, <1>t DEF Write
  <2> QED BY <2>1, <1>t DEF OutKept, Lines, Out
<1> QED BY <1>1, <1>2, <1>3

\* A command sent goes last, or nowhere once the read half is gone; a read only
\* moves commands over; a command handled was the first.
LEMMA CmdEffects ==
    ASSUME Sound
    PROVE  /\ \A c \in Command :
                 inbox' = Sent(c) /\ batch' = batch => CmdsKept \/ CmdsAdded(c)
           /\ SelectRead => CmdsKept
           /\ batch # <<>> /\ Handled /\ inbox' = inbox =>
                 CmdsTaken /\ Cmd(1) = Head(batch) /\ batch' # batch
           /\ ReadLoopEnds => CmdsGone
<1>t. /\ inbox \in Seq(Command) /\ batch \in Seq(Command)
      /\ Len(inbox) \in Nat /\ Len(batch) \in Nat
  BY DEF Sound, Data
<1>1. ASSUME NEW c \in Command, inbox' = Sent(c), batch' = batch
      PROVE  CmdsKept \/ CmdsAdded(c)
  <2>1. CASE inbox' = inbox
    BY <1>1, <2>1, <1>t DEF CmdsKept, Total, Cmd
  <2>2. CASE inbox' = Append(inbox, c)
    <3>1. /\ Len(inbox') = Len(inbox) + 1 /\ inbox'[Len(inbox) + 1] = c
          /\ \A i \in 1..Len(inbox) : inbox'[i] = inbox[i]
      BY <2>2, <1>t
    <3> QED BY <3>1, <1>1, <1>t DEF CmdsAdded, Total, Cmd
  <2> QED BY <1>1, <2>1, <2>2 DEF Sent
<1>2. ASSUME SelectRead PROVE CmdsKept
  <2>1. PICK n \in 1..Len(inbox) :
            batch' = SubSeq(inbox, 1, n) /\ inbox' = SubSeq(inbox, n + 1, Len(inbox))
    BY <1>2 DEF SelectRead
  <2>2. /\ Len(batch') = n /\ \A i \in 1..n : batch'[i] = inbox[i]
        /\ Len(inbox') = Len(inbox) - n
        /\ \A i \in 1..(Len(inbox) - n) : inbox'[i] = inbox[n + i]
    BY <2>1, <1>t
  <2>3. batch = <<>>
    BY <1>2 DEF SelectRead, Sound, Reading
  <2>4. Len(batch) = 0
    BY <2>3
  <2> QED BY <2>2, <2>4, <1>t DEF CmdsKept, Total, Cmd
<1>3. ASSUME batch # <<>>, Handled, inbox' = inbox
      PROVE  CmdsTaken /\ Cmd(1) = Head(batch) /\ batch' # batch
  <2>1. /\ Len(batch) >= 1 /\ Len(batch') = Len(batch) - 1 /\ Head(batch) = batch[1]
        /\ \A i \in 1..(Len(batch) - 1) : batch'[i] = batch[i + 1]
    BY <1>3, <1>t DEF Handled
  <2> QED BY <2>1, <1>3, <1>t DEF CmdsTaken, Total, Cmd
<1>4. ASSUME ReadLoopEnds PROVE CmdsGone
  <2>1. Len(batch') = 0 /\ Len(inbox') = 0
    BY <1>4 DEF ReadLoopEnds
  <2> QED BY <2>1 DEF CmdsGone, Total
<1> QED BY <1>1, <1>2, <1>3, <1>4

\* The three kinds of server step, as far as a barrier can tell.
Passes == CmdsKept /\ (rpc \in {"handle", "parked"} => batch' = batch)
Speaks == OutKept \/ OutAdded("PING") \/ OutAdded("ERR")
Handles ==
    /\ rpc \in {"handle", "parked"} /\ batch' # batch
    /\ CmdsTaken
    /\ IF Cmd(1) = "PING" THEN OutKept \/ OutAdded("PONG") ELSE OutKept

\* A step of the server either leaves the commands alone, drops them all, or
\* handles the first; only a PING handled queues a PONG.
LEMMA ServerEffects ==
    Sound /\ ServerNext => ((Passes \/ CmdsGone) /\ Speaks) \/ Handles
<1> SUFFICES ASSUME Sound, ServerNext
             PROVE  ((Passes \/ CmdsGone) /\ Speaks) \/ Handles
    OBVIOUS
<1>l. "PING" \in Line /\ "PONG" \in Line /\ "ERR" \in Line
  BY DEF Line
<1> USE DEF readerVars, connVars, vars
<1>1. CASE LoopTop \/ Arm \/ SpawnJoined \/ Park \/ Elapse
  BY <1>1, Kept DEF LoopTop, Arm, SpawnJoined, Park, Elapse, Passes, Speaks
<1>2. CASE SpawnBackstop \/ WriteEnd \/ WriteFails \/ WriteDeadline \/ SlowConsumer
  BY <1>2, Kept DEF SpawnBackstop, WriteEnd, WriteFails, WriteDeadline, SlowConsumer,
                    Passes, Speaks
<1>3. CASE LoopTopClosed \/ SelectWake \/ SelectEnd \/ HandleBad
  BY <1>3, Kept, CmdEffects
     DEF LoopTopClosed, SelectWake, SelectEnd, HandleBad, ReaderCloses, Speaks
<1>4. CASE SelectRead
  BY <1>4, Kept, CmdEffects DEF SelectRead, Passes, Speaks
<1>5. CASE SelectProbe
  BY <1>5, <1>l, Kept, OutEffects DEF SelectProbe, Passes, Speaks
<1>6. CASE SelectStale
  BY <1>6, <1>l, CmdEffects, OutEffects DEF SelectStale, ReaderCloses, Speaks
<1>7. CASE Write
  BY <1>7, Kept, OutEffects DEF Write, Passes, Speaks
<1>8. CASE HandlePong \/ HandlePub \/ Unpark
  <2>1. /\ batch # <<>> /\ Handled /\ UNCHANGED <<inbox, wire, outq>>
        /\ rpc \in {"handle", "parked"} /\ Head(batch) # "PING"
    BY <1>8 DEF HandlePong, HandlePub, Unpark, Event, Sound, Reading
  <2> QED BY <2>1, Kept, CmdEffects DEF Handles
<1>9. CASE HandlePing
  <2>1. /\ batch # <<>> /\ Handled /\ inbox' = inbox /\ rpc = "handle"
        /\ Head(batch) = "PING" /\ outq' = Enqueued("PONG") /\ wire' = wire
    BY <1>9 DEF HandlePing, Event, Sound, Reading
  <2> QED BY <2>1, <1>l, OutEffects, CmdEffects DEF Handles
<1> QED
  BY <1>1, <1>2, <1>3, <1>4, <1>5, <1>6, <1>7, <1>8, <1>9
     DEF ServerNext, ReaderStep, WriterStep

\* What the lines under way say survives a step that adds no PONG.
LEMMA StaysQuiet ==
    ASSUME Lines \in Nat
    PROVE  /\ Speaks => (Quiet => Quiet') /\ (Single => Single')
           /\ OutTaken => (Quiet => Quiet') /\ (Single => Single')
           /\ OutTaken /\ Single /\ Out(1) = "PONG" => Quiet'
           /\ OutAdded("PONG") /\ Quiet => Single'
           /\ Quiet => Single
BY DEF Speaks, OutKept, OutAdded, OutTaken, Quiet, Single

\* A step of the server keeps a barrier behind its commands.
LEMMA WaitingServer == Sound /\ Waiting /\ Server => Waiting'
<1> SUFFICES ASSUME Sound, Waiting, Server PROVE Waiting'
    OBVIOUS
<1>n. Total \in Nat /\ Lines \in Nat
  BY DEF Total, Lines, Sound, Data
<1>u. cpc' = cpc /\ proved' = proved /\ ahead \in Nat
  BY DEF Server, Waiting
<1>1. ((Passes \/ CmdsGone) /\ Speaks) \/ Handles
  BY ServerEffects DEF Server
<1>2. CASE Passes /\ Speaks
  <2>1. ahead' = ahead
    BY <1>2 DEF Passes, Server
  <2>2. NoPing => NoPing'
    BY <1>2 DEF Passes, CmdsKept, NoPing
  <2> QED
    BY <1>2, <1>n, <1>u, <2>1, <2>2, StaysQuiet DEF Waiting, Passes, CmdsKept
<1>3. CASE CmdsGone /\ Speaks
  <2>1. NoPing'
    BY <1>3 DEF CmdsGone, NoPing
  <2>2. ahead' \in Nat /\ (ahead = 0 => ahead' = 0)
    BY <1>u DEF Server
  <2> QED
    BY <1>3, <1>n, <1>u, <2>1, <2>2, StaysQuiet DEF Waiting
<1>4. CASE Handles
  <2>1. ahead' = IF ahead > 0 THEN ahead - 1 ELSE ahead
    BY <1>4 DEF Handles, Server
  <2>2. CmdsTaken /\ (Cmd(1) # "PING" => OutKept)
    BY <1>4 DEF Handles
  <2>3. NoPing => Cmd(1) # "PING" /\ NoPing'
    BY <2>2, <1>n DEF NoPing, CmdsTaken
  <2>4. CASE NoPing
    BY <2>1, <2>2, <2>3, <2>4, <1>n, <1>u, StaysQuiet DEF Waiting, Speaks
  <2>5. CASE /\ cpc = "barrier" /\ Quiet /\ ahead + 1 \in 1..Total
             /\ \A i \in 1..Total : Cmd(i) = "PING" <=> i = ahead + 1
    <3>1. CASE ahead = 0
      <4>1. NoPing'
        BY <2>2, <2>5, <3>1, <1>n DEF CmdsTaken, NoPing
      <4>2. Single'
        BY <1>4, <2>5, <1>n, StaysQuiet DEF Handles, Speaks
      <4> QED BY <4>1, <4>2, <2>1, <3>1, <2>5, <1>u DEF Waiting
    <3>2. CASE ahead > 0
      <4>1. Cmd(1) # "PING"
        BY <2>5, <3>2, <1>n, <1>u
      <4>2. Quiet'
        BY <4>1, <2>2, <2>5, <1>n, StaysQuiet DEF Speaks
      <4>3. /\ ahead' = ahead - 1 /\ ahead' + 1 \in 1..Total'
            /\ \A i \in 1..Total' : Cmd(i)' = "PING" <=> i = ahead' + 1
        BY <2>1, <2>2, <2>5, <3>2, <1>n, <1>u DEF CmdsTaken
      <4> QED BY <4>2, <4>3, <2>5, <3>2, <1>u DEF Waiting
    <3> QED BY <3>1, <3>2, <1>u
  <2>6. CASE cpc \notin {"idle", "next", "drain", "closed", "barrier"}
    BY <2>1, <2>6, <1>u DEF Waiting
  <2> QED BY <2>4, <2>5, <2>6 DEF Waiting
<1> QED BY <1>1, <1>2, <1>3, <1>4

\* So does a step of a test that sends its pings with barrier() only.
LEMMA WaitingClient ==
    ASSUME Sends \subseteq Command \ {"PING"}, Sound, Waiting, ClientNext
    PROVE  Waiting'
<1>n. Total \in Nat /\ Lines \in Nat /\ Len(batch) + Len(inbox) = Total
  BY DEF Total, Lines, Sound, Data
<1>c. "PING" \in Command /\ "PONG" \in Command /\ Sends \subseteq Command
  BY DEF Command
<1>a. ASSUME NEW c \in Command \ {"PING"}, inbox' = Sent(c), batch' = batch
      PROVE  (CmdsKept \/ CmdsAdded(c)) /\ (NoPing => NoPing')
  BY <1>a, CmdEffects, <1>n DEF CmdsKept, CmdsAdded, NoPing
<1> USE DEF readerVars, connVars, vars, serverSide, clientVars
<1>1. CASE Send
  <2>1. PICK c \in Sends : inbox' = Sent(c)
    BY <1>1 DEF Send
  <2>2. NoPing => NoPing'
    BY <1>1, <2>1, <1>a DEF Send
  <2> QED BY <1>1, <2>2, <1>n, Kept, StaysQuiet DEF Send, Waiting, Speaks
<1>2. CASE BarrierStart
  <2>1. CmdsKept \/ CmdsAdded("PING")
    BY <1>2, <1>c, CmdEffects DEF BarrierStart
  <2>2. Quiet' /\ Single'
    BY <1>2, <1>n, Kept, StaysQuiet DEF BarrierStart, Waiting, Speaks
  <2>3. ahead' = Total /\ NoPing /\ cpc' = "barrier" /\ proved' = proved
    BY <1>2, <1>n DEF BarrierStart, Waiting
  <2>4. CASE CmdsKept
    BY <2>2, <2>3, <2>4, <1>n DEF Waiting, CmdsKept, NoPing
  <2>5. CASE CmdsAdded("PING")
    BY <2>2, <2>3, <2>5, <1>n DEF Waiting, CmdsAdded, NoPing
  <2> QED BY <2>1, <2>4, <2>5
<1>3. CASE AbsorbPing
  <2>1. CmdsKept \/ CmdsAdded("PONG")
    BY <1>3, <1>c, CmdEffects DEF AbsorbPing
  <2>2. (Quiet => Quiet') /\ (Single => Single')
    BY <1>3, <1>n, OutEffects, StaysQuiet DEF AbsorbPing
  <2>3. NoPing => NoPing'
    BY <2>1, <1>n DEF CmdsKept, CmdsAdded, NoPing
  <2> QED
    BY <1>3, <2>1, <2>2, <2>3, <1>n DEF AbsorbPing, Waiting, CmdsKept, CmdsAdded
<1>4. CASE NextLine
  BY <1>4, <1>n, Kept, OutEffects, StaysQuiet
     DEF NextLine, Waiting, CmdsKept, NoPing
<1>5. CASE BarrierPong
  <2>1. OutTaken /\ Out(1) = "PONG" /\ CmdsKept
    BY <1>5, Kept, OutEffects DEF BarrierPong
  <2>2. ~Quiet
    BY <2>1, <1>n DEF Quiet, OutTaken
  <2>3. NoPing /\ Single /\ ahead = 0 /\ proved = TRUE
    BY <1>5, <2>2 DEF BarrierPong, Waiting
  <2>4. NoPing' /\ Quiet'
    BY <2>1, <2>3, <1>n, StaysQuiet DEF CmdsKept, NoPing
  <2> QED BY <1>5, <2>3, <2>4 DEF BarrierPong, Waiting
<1>6. CASE DrainLine \/ ClosedLine
  <2>1. (inbox' = inbox \/ inbox' = Sent("PONG")) /\ batch' = batch
    BY <1>6 DEF DrainLine, ClosedLine
  <2>2. NoPing => NoPing'
    BY <2>1, <1>a, <1>c, <1>n, Kept DEF CmdsKept, NoPing
  <2>3. Quiet => Quiet'
    BY <1>6, <1>n, Kept, OutEffects, StaysQuiet DEF DrainLine, ClosedLine, Speaks
  <2> QED BY <1>6, <2>2, <2>3 DEF DrainLine, ClosedLine, Waiting
<1>7. CASE Return \/ \E c \in {"next", "drain", "closed"} : Call(c)
  <2>1. CmdsKept /\ OutKept
    BY <1>7, Kept DEF Return, Call
  <2>2. (NoPing => NoPing') /\ (Quiet => Quiet')
    BY <2>1, <1>n, StaysQuiet DEF Speaks, CmdsKept, NoPing
  <2> QED BY <1>7, <2>2 DEF Return, Call, Waiting
<1>8. CASE BarrierPanic \/ Leave \/ MuteTakes
  <2>1. cpc' \in {"dropped", "mute"} /\ proved' = proved /\ (ahead' = ahead \/ ahead' = 0)
    BY <1>8, Zenon DEF BarrierPanic, Leave, MuteTakes, Dropped
  <2> QED BY <2>1 DEF Waiting
<1> QED
  BY <1>1, <1>2, <1>3, <1>4, <1>5, <1>6, <1>7, <1>8 DEF ClientNext

\* The barrier of the conformance tests "proves every command sent before it has
\* been processed by the server": for every size of queue and buffer, if the test
\* leaves PING to barrier(), a barrier that returns has nothing sent before it
\* still unhandled.
THEOREM WireBarrierProves ==
    ASSUME Sends \subseteq Command \ {"PING"}
    PROVE  Spec => []BarrierProves
<1>1. ClientInit => Waiting
  <2> SUFFICES ASSUME ClientInit PROVE Waiting
      OBVIOUS
  <2>1. Len(batch) = 0 /\ Len(inbox) = 0 /\ Len(wire) = 0 /\ Len(outq) = 1 /\ outq[1] = "INFO"
    BY DEF ClientInit, Init
  <2> QED BY <2>1 DEF ClientInit, Waiting, NoPing, Quiet, Total, Lines, Out
<1>2. Sound /\ [Next]_allVars => Sound'
  BY FlagsStep, DataStep, ReadingStep DEF Sound
<1>3. Sound /\ Waiting /\ [Next]_allVars => Waiting'
  <2> SUFFICES ASSUME Sound, Waiting, [Next]_allVars PROVE Waiting'
      OBVIOUS
  <2>1. CASE UNCHANGED allVars
    <3>1. UNCHANGED <<batch, inbox, wire, outq, cpc, ahead, proved>>
      BY <2>1 DEF allVars, vars, readerVars, connVars, clientVars
    <3> QED
      BY <3>1 DEF Waiting, NoPing, Quiet, Single, Total, Lines, Cmd, Out
  <2> QED
    BY <2>1, WaitingServer, WaitingClient DEF Next
<1>4. Waiting => BarrierProves
  BY DEF Waiting, BarrierProves
<1> QED BY <1>1, <1>2, <1>3, <1>4, WireInit, PTL DEF Spec
-----------------------------------------------------------------------------
(***************************************************************************)
(* The delivery-rate instrument, for any number of messages and any sizes  *)
(* of the socket and the server's queue.                                   *)
(***************************************************************************)

\* The chain that puts the SUB before the first PUB, thread by thread.
Chain ==
  /\ tpc \in {"store", "gate", "read"} => live
  /\ subscribed => live
  /\ ppc \in {"gate", "write", "ok"} => subscribed
  /\ written > 0 => subscribed

\* What the subscriber owes main while it runs, and after it has left.
Debt ==
  /\ tpc \notin {"ok", "err"} => delivered < Msgs
  /\ tpc \in {"ok", "err"} <=> conn = "left"
  /\ tpc \in {"dial", "pong", "store"} => conn = "open"
  /\ mpc \in {"join", "ok"} /\ shut = "eof" /\ conn # "eof" =>
       failed \/ delivered = Msgs
  /\ mpc = "ok" => ~failed /\ tpc \in {"ok", "err"}

Booked == FloodTypeOK /\ Chain /\ Debt

\* The invariant holds of the threads before any of them ran.
LEMMA FloodStarts == FloodInit => Booked
<1> SUFFICES ASSUME FloodInit PROVE Booked
  OBVIOUS
<1>1. /\ subscribed \in BOOLEAN /\ go \in BOOLEAN /\ failed \in BOOLEAN
      /\ done \in BOOLEAN /\ live \in BOOLEAN
  BY Zenon DEF FloodInit
<1> QED
  BY <1>1, FloodAssumption DEF FloodInit, Booked, FloodTypeOK, Chain, Debt

\* It survives every step of main, subscriber, publisher and server.
LEMMA FloodStep ==
    ASSUME Booked, [FloodNext]_floodVars
    PROVE  Booked'
<1> USE FloodAssumption DEF Booked, FloodTypeOK, Chain, Debt, mainVars,
        flags, serverVars, SubFinished, PubFinished, Running
<1>1. CASE AwaitSubscribed BY <1>1 DEF AwaitSubscribed
<1>2. CASE AwaitTimeout BY <1>2 DEF AwaitTimeout
<1>3. CASE StartClock BY <1>3 DEF StartClock
<1>4. CASE JoinPublisher BY <1>4 DEF JoinPublisher
<1>5. CASE CountMoves BY <1>5 DEF CountMoves
<1>6. CASE CountEnds BY <1>6 DEF CountEnds
<1>7. CASE JoinSubscriber BY <1>7 DEF JoinSubscriber
<1>8. CASE SubDial BY <1>8 DEF SubDial
<1>9. CASE SubHandshakeFails BY <1>9 DEF SubHandshakeFails
<1>10. CASE SubPong BY <1>10 DEF SubPong
<1>11. CASE SubStore BY <1>11 DEF SubStore
<1>12. CASE SubGate BY <1>12 DEF SubGate
<1>13. CASE SubMessage BY <1>13 DEF SubMessage
<1>14. CASE SubEof BY <1>14 DEF SubEof
<1>15. CASE SubReadFails BY <1>15 DEF SubReadFails
<1>16. CASE SubReleased BY <1>16 DEF SubReleased
<1>17. CASE PubHandshake BY <1>17 DEF PubHandshake
<1>18. CASE PubSpin BY <1>18 DEF PubSpin
<1>19. CASE PubWrite BY <1>19 DEF PubWrite
<1>20. CASE PubReturns BY <1>20 DEF PubReturns
<1>21. CASE PubWriteFails BY <1>21 DEF PubWriteFails
<1>22. CASE ServerSubscribes BY <1>22 DEF ServerSubscribes
<1>23. CASE ServerRoutes BY <1>23 DEF ServerRoutes
<1>24. CASE ServerCloses BY <1>24 DEF ServerCloses
<1>25. CASE UNCHANGED floodVars BY <1>25 DEF floodVars
<1> QED
  BY <1>1, <1>2, <1>3, <1>4, <1>5, <1>6, <1>7, <1>8, <1>9, <1>10, <1>11, <1>12,
     <1>13, <1>14, <1>15, <1>16, <1>17, <1>18, <1>19, <1>20, <1>21, <1>22, <1>23,
     <1>24, <1>25
     DEF FloodNext, Main, Subscriber, Publisher, FloodServer

\* The invariant is one of every behaviour of the three threads.
LEMMA FloodInvariant == FloodSpec => []Booked
BY FloodStarts, FloodStep, PTL DEF FloodSpec

\* No message is published before the subscription it is for is live on the
\* server: the waits on `subscribed` and `go` in publisher and main.
THEOREM FloodSubscribedFirst == FloodSpec => []SubscribedFirst
<1>1. Booked => SubscribedFirst
  BY DEF Booked, Chain, FloodTypeOK, SubscribedFirst
<1> QED BY <1>1, FloodInvariant, PTL

\* A run whose subscriber the server cut off does not report success with
\* messages missing: `failed` against `done` and the two joins of main.
THEOREM FloodClosedIsReported == FloodSpec => []ClosedIsReported
<1>1. Booked => ClosedIsReported
  BY DEF Booked, Debt, FloodTypeOK, ClosedIsReported
<1> QED BY <1>1, FloodInvariant, PTL
=============================================================================
