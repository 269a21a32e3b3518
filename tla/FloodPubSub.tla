---------------------------- MODULE FloodPubSub ----------------------------
(***************************************************************************)
(* The delivery-rate instrument (crates/bench/src/bin/floodpubsub.rs):     *)
(* three threads, main, subscriber and publisher, that meet in the atomics *)
(* `subscribed`, `go`, `failed`, `done` and `delivered`.  The server is    *)
(* between the two sockets and is external: it reads the publisher's       *)
(* socket in order, holds a bounded queue for the subscriber, and may      *)
(* close the subscriber's connection.                                      *)
(***************************************************************************)
EXTENDS Naturals

CONSTANTS
  Msgs,       \* MSGS
  MaxSocket,  \* frames in flight from the publisher to the server
  MaxQueue    \* frames the server holds for the subscriber

ASSUME FloodAssumption == Msgs \in Nat \ {0} /\ MaxSocket \in Nat \ {0} /\ MaxQueue \in Nat \ {0}

VARIABLES
  mpc, tpc, ppc,                      \* main, the subscriber, the publisher
  subscribed, go, failed, done, delivered,   \* the shared atomics
  written,    \* frames the publisher has written
  last,       \* main's last sight of `delivered`, when `moved` was set
  got,        \* what it reports
  shut,       \* how the subscriber's connection stood when counting ended
  live,       \* the server has processed the SUB
  socket,     \* frames on their way from the publisher to the server
  queue,      \* frames on their way from the server to the subscriber
  conn        \* the subscriber's connection

flags == <<subscribed, go, failed, done, delivered>>
mainVars == <<mpc, last, got, shut>>
serverVars == <<live, socket, queue, conn>>
floodVars == <<mainVars, tpc, ppc, flags, written, serverVars>>

FloodTypeOK ==
  /\ mpc \in {"await", "go", "publishing", "counting", "join", "ok", "error"}
  /\ tpc \in {"dial", "pong", "store", "gate", "read", "ok", "err"}
  /\ ppc \in {"handshake", "spin", "gate", "write", "ok", "err"}
  /\ subscribed \in BOOLEAN /\ go \in BOOLEAN /\ failed \in BOOLEAN /\ done \in BOOLEAN
  /\ delivered \in 0 .. Msgs /\ written \in 0 .. Msgs
  /\ last \in 0 .. Msgs /\ got \in 0 .. Msgs
  /\ shut \in {"open", "eof", "reset", "left"} /\ conn \in {"open", "eof", "reset", "left"}
  /\ live \in BOOLEAN /\ socket \in 0 .. MaxSocket /\ queue \in 0 .. MaxQueue

FloodInit ==
  /\ mpc = "await" /\ tpc = "dial" /\ ppc = "handshake"
  /\ subscribed = FALSE /\ go = FALSE /\ failed = FALSE /\ done = FALSE
  /\ delivered = 0 /\ written = 0 /\ last = 0 /\ got = 0 /\ shut = "open"
  /\ live = FALSE /\ socket = 0 /\ queue = 0 /\ conn = "open"

SubFinished == tpc \in {"ok", "err"}
PubFinished == ppc \in {"ok", "err"}
Running == mpc \notin {"ok", "error"}

-----------------------------------------------------------------------------
(***************************************************************************)
(* main.  When it returns the process ends, and the other threads with it. *)
(***************************************************************************)

\* The loop on `subscribed`: left when it is set or when the thread has
\* already returned.
AwaitSubscribed ==
  /\ mpc = "await" /\ (subscribed \/ SubFinished) /\ mpc' = "go"
  /\ UNCHANGED <<last, got, shut, tpc, ppc, flags, written, serverVars>>

\* 20 s without a subscriber.
AwaitTimeout ==
  /\ mpc = "await" /\ ~subscribed /\ mpc' = "error"
  /\ UNCHANGED <<last, got, shut, tpc, ppc, flags, written, serverVars>>

StartClock ==
  /\ mpc = "go" /\ go' = TRUE /\ mpc' = "publishing"
  /\ UNCHANGED <<last, got, shut, tpc, ppc, subscribed, failed, done, delivered,
                 written, serverVars>>

\* The publisher is joined; its error is main's.
JoinPublisher ==
  /\ mpc = "publishing" /\ PubFinished
  /\ mpc' = IF ppc = "err" THEN "error" ELSE "counting"
  /\ last' = delivered
  /\ UNCHANGED <<got, shut, tpc, ppc, flags, written, serverVars>>

\* A turn of the counting loop that sees the count move.
CountMoves ==
  /\ mpc = "counting" /\ delivered < Msgs /\ ~failed /\ delivered # last
  /\ last' = delivered
  /\ UNCHANGED <<mpc, got, shut, tpc, ppc, flags, written, serverVars>>

\* The loop ends at the full count, at a failure, after a quiet window, or
\* at the stall timeout; `done` releases the subscriber.
CountEnds ==
  /\ mpc = "counting" /\ mpc' = "join"
  /\ got' = delivered /\ shut' = conn /\ done' = TRUE
  /\ UNCHANGED <<last, tpc, ppc, subscribed, go, failed, delivered, written,
                 serverVars>>

\* The subscriber is joined, the report printed, `failed` looked at.
JoinSubscriber ==
  /\ mpc = "join" /\ SubFinished
  /\ mpc' = IF failed THEN "error" ELSE "ok"
  /\ UNCHANGED <<last, got, shut, tpc, ppc, flags, written, serverVars>>

Main == AwaitSubscribed \/ StartClock \/ JoinPublisher \/ CountMoves \/ JoinSubscriber

-----------------------------------------------------------------------------
(***************************************************************************)
(* The subscriber's thread.                                                *)
(***************************************************************************)

\* dial, CONNECT, SUB and PING.
SubDial ==
  /\ Running /\ tpc = "dial" /\ tpc' = "pong"
  /\ UNCHANGED <<mainVars, ppc, flags, written, serverVars>>

\* Any of it fails, or expect_pong does: a closed connection, or no byte for
\* the 200 ms of the read timeout.
SubHandshakeFails ==
  /\ Running /\ tpc \in {"dial", "pong"} /\ tpc' = "err" /\ conn' = "left"
  /\ UNCHANGED <<mainVars, ppc, flags, written, live, socket, queue>>

\* Mutant of SubPong: the subscriber announces itself without the PONG.
SubPongEarly ==
  /\ Running /\ tpc = "pong" /\ tpc' = "store"
  /\ UNCHANGED <<mainVars, ppc, flags, written, serverVars>>

\* The PONG, which the server sends behind the SUB.
SubPong ==
  /\ Running /\ tpc = "pong" /\ live /\ tpc' = "store"
  /\ UNCHANGED <<mainVars, ppc, flags, written, serverVars>>

SubStore ==
  /\ Running /\ tpc = "store" /\ subscribed' = TRUE /\ tpc' = "gate"
  /\ UNCHANGED <<mainVars, ppc, go, failed, done, delivered, written, serverVars>>

SubGate ==
  /\ Running /\ tpc = "gate" /\ go /\ tpc' = "read"
  /\ UNCHANGED <<mainVars, ppc, flags, written, serverVars>>

\* A message: counted, and the last of them ends the thread.
SubMessage ==
  /\ Running /\ tpc = "read" /\ queue > 0 /\ conn # "reset"
  /\ queue' = queue - 1 /\ delivered' = delivered + 1
  /\ IF delivered + 1 >= Msgs THEN tpc' = "ok" /\ conn' = "left"
                              ELSE UNCHANGED <<tpc, conn>>
  /\ UNCHANGED <<mainVars, ppc, subscribed, go, failed, done, written, live, socket>>

\* Mutant of SubEof: the thread returns without a word to main.
SubEofSilent ==
  /\ Running /\ tpc = "read" /\ queue = 0 /\ conn = "eof"
  /\ tpc' = "ok" /\ conn' = "left"
  /\ UNCHANGED <<mainVars, ppc, flags, written, live, socket, queue>>

\* Mutant of SubEof: the end is taken for a read that brought nothing yet.
SubEofRetried ==
  /\ Running /\ tpc = "read" /\ queue = 0 /\ conn = "eof"
  /\ UNCHANGED floodVars

\* The end of the stream, or the -ERR line before it.
SubEof ==
  /\ Running /\ tpc = "read" /\ queue = 0 /\ conn = "eof"
  /\ failed' = TRUE /\ tpc' = "ok" /\ conn' = "left"
  /\ UNCHANGED <<mainVars, ppc, subscribed, go, done, delivered, written,
                 live, socket, queue>>

\* A read error: the thread returns it, and `failed` stays as it is.
SubReadFails ==
  /\ Running /\ tpc = "read" /\ conn = "reset"
  /\ tpc' = "err" /\ conn' = "left"
  /\ UNCHANGED <<mainVars, ppc, flags, written, live, socket, queue>>

\* A read that times out: over if main says so.
SubReleased ==
  /\ Running /\ tpc = "read" /\ queue = 0 /\ conn = "open" /\ done
  /\ tpc' = "ok" /\ conn' = "left"
  /\ UNCHANGED <<mainVars, ppc, flags, written, live, socket, queue>>

Subscriber ==
  \/ SubDial \/ SubPong \/ SubStore \/ SubGate \/ SubMessage \/ SubEof
  \/ SubReadFails \/ SubReleased

-----------------------------------------------------------------------------
(***************************************************************************)
(* The publisher's thread.                                                 *)
(***************************************************************************)

PubHandshake ==
  /\ Running /\ ppc = "handshake" /\ ppc' \in {"spin", "err"}
  /\ UNCHANGED <<mainVars, tpc, flags, written, serverVars>>

\* The two spins, on `subscribed` and on `go`.
PubSpin ==
  /\ Running
  /\ \/ ppc = "spin" /\ subscribed /\ ppc' = "gate"
     \/ ppc = "gate" /\ go /\ ppc' = "write"
  /\ UNCHANGED <<mainVars, tpc, flags, written, serverVars>>

PubWrite ==
  /\ Running /\ ppc = "write" /\ written < Msgs /\ socket < MaxSocket
  /\ socket' = socket + 1 /\ written' = written + 1
  /\ UNCHANGED <<mainVars, tpc, ppc, flags, live, queue, conn>>

\* The last frame is written, and that is all that is waited for.
PubReturns ==
  /\ Running /\ ppc = "write" /\ written = Msgs /\ ppc' = "ok"
  /\ UNCHANGED <<mainVars, tpc, flags, written, serverVars>>

PubWriteFails ==
  /\ Running /\ ppc = "write" /\ ppc' = "err"
  /\ UNCHANGED <<mainVars, tpc, flags, written, serverVars>>

Publisher == PubHandshake \/ PubSpin \/ PubWrite \/ PubReturns

-----------------------------------------------------------------------------
(***************************************************************************)
(* The server, external: SUB before PONG, frames in order, backpressure on *)
(* the publisher while the queue is full, nothing kept for a subscriber    *)
(* that is gone.                                                           *)
(***************************************************************************)

ServerSubscribes ==
  /\ Running /\ tpc = "pong" /\ ~live /\ live' = TRUE
  /\ UNCHANGED <<mainVars, tpc, ppc, flags, written, socket, queue, conn>>

ServerRoutes ==
  /\ Running /\ socket > 0 /\ (queue < MaxQueue \/ conn # "open")
  /\ socket' = socket - 1
  /\ queue' = IF live /\ conn = "open" THEN queue + 1 ELSE queue
  /\ UNCHANGED <<mainVars, tpc, ppc, flags, written, live, conn>>

\* A slow consumer or a stale connection: some of what was queued is still
\* written before the end of the stream, or the connection is reset.
ServerCloses ==
  /\ Running /\ tpc \in {"gate", "read"} /\ conn = "open"
  /\ conn' \in {"eof", "reset"} /\ queue' \in 0 .. queue
  /\ UNCHANGED <<mainVars, tpc, ppc, flags, written, live, socket>>

FloodServer == ServerSubscribes \/ ServerRoutes

FloodNext ==
  \/ Main \/ AwaitTimeout \/ CountEnds
  \/ Subscriber \/ SubHandshakeFails
  \/ Publisher \/ PubWriteFails
  \/ FloodServer \/ ServerCloses

FloodSpec == FloodInit /\ [][FloodNext]_floodVars

\* Every thread is scheduled, the server goes on reading and writing, and
\* the stall timeout of the counting loop passes.
FloodFairSpec ==
  /\ FloodSpec
  /\ WF_floodVars(Main) /\ WF_floodVars(Subscriber) /\ WF_floodVars(Publisher)
  /\ WF_floodVars(FloodServer) /\ WF_floodVars(CountEnds)

-----------------------------------------------------------------------------
(***************************************************************************)
(* Properties.                                                             *)
(***************************************************************************)

\* "The subscriber's SUB must be live before the publisher's first byte":
\* the chain SUB, PONG, `subscribed`, `go` across three threads.
SubscribedFirst == written > 0 => live

\* "A subscriber that was closed mid-run would otherwise look like a merely
\* slow server": when the server had ended the stream before counting
\* stopped and messages are missing, the run does not succeed.
ClosedIsReported == mpc = "ok" /\ delivered < Msgs => shut # "eof"

\* Once subscribed, every run ends, whatever closes or fails in it: no
\* thread is left waiting for another.
RunEnds == subscribed ~> ~Running

\* A thread that returned before subscribing is not waited for ("surface its
\* error instead of timing out on a flag it will never set").  Refuted: the
\* publisher goes on spinning on that flag, and main on the publisher.
AlwaysEnds == <>~Running

\* The same of a connection that is reset.  Refuted: the subscriber returns
\* the error without setting `failed`.
ResetIsReported == mpc = "ok" /\ delivered < Msgs => shut # "reset"

\* "Both handshakes must be outside the timed window."  Refuted: main waits
\* for the subscriber's only.
HandshakesUntimed == go => ppc # "handshake"

\* `written` means "the server has read every byte".  Refuted: no PING
\* follows the last frame.
WrittenIsRead == ppc = "ok" => socket = 0

\* "The clock stops at the last delivery."  Refuted: deliveries after the
\* last turn of the loop do not move it.
ClockAtLast == mpc = "join" => last = got
=============================================================================
