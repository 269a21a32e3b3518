------------------------------ MODULE Keepalive ------------------------------
(***************************************************************************)
(* The life of one accepted connection: spawn, the select loop of          *)
(* read_loop with its keepalive ticker, the reader's share of handle, and  *)
(* the end of both tasks (crates/server/src/client.rs).                    *)
(*                                                                         *)
(* Commands and lines are abstracted to their kinds.  The batches and      *)
(* partial writes of the writer are the subject of Writer, the waiting for *)
(* room that of Outbox, so here the writer moves whole frames and a parked *)
(* reader simply is let go at some time.  Conn::finish is one step: what   *)
(* its parts do to each other is the subject of Outbox and Delivery.       *)
(***************************************************************************)
EXTENDS Naturals, Sequences

CONSTANTS
    MaxPingsOut,  \* MAX_PINGS_OUT
    MaxIn,        \* bound: commands the client has sent and the reader not read
    MaxOut,       \* max_pending, in frames
    MaxWire       \* what the client's side of the socket buffers, in frames

ASSUME KeepaliveAssumption ==
    /\ MaxPingsOut \in Nat \ {0} /\ MaxIn \in Nat \ {0}
    /\ MaxOut \in Nat \ {0} /\ MaxWire \in Nat \ {0}

Command == {"PING", "PONG", "PUB", "BAD", "EOF"}
Line == {"INFO", "PING", "PONG", "ERR"}

VARIABLES
    rpc,     \* where spawn, and read_loop inside it, is
    due,     \* the ticker has a tick to hand out
    woken,   \* the `wake` future of the reader's select has been notified
    pings,   \* Conn.pings_out
    inbox,   \* what the client has sent, unread
    batch,   \* the events of the last read, not yet handled
    closed,  \* Conn.closed
    hard,    \* Conn.hard
    sender,  \* Outbox.tx is Some
    outq,    \* frames queued and not written
    wpc,     \* the writer task: "run" or "done"
    wire,    \* frames written and not read by the client
    lost     \* history: a probe was counted that no client will answer

readerVars == <<rpc, due, woken, pings, batch>>
connVars == <<closed, hard, sender>>
vars == <<readerVars, connVars, inbox, outq, wpc, wire, lost>>

TypeOK ==
    /\ rpc \in {"top", "arm", "select", "handle", "parked", "join", "gone"}
    /\ due \in BOOLEAN /\ woken \in BOOLEAN
    /\ pings \in 0..MaxPingsOut
    /\ inbox \in Seq(Command) /\ batch \in Seq(Command)
    /\ closed \in BOOLEAN /\ hard \in BOOLEAN /\ sender \in BOOLEAN
    /\ outq \in Seq(Line) /\ wire \in Seq(Line)
    /\ wpc \in {"run", "done"}
    /\ lost \in BOOLEAN

\* spawn queues the INFO line before either task runs.
Init ==
    /\ rpc = "top" /\ due = FALSE /\ woken = FALSE /\ pings = 0
    /\ inbox = <<>> /\ batch = <<>>
    /\ closed = FALSE /\ hard = FALSE /\ sender = TRUE
    /\ outq = <<"INFO">> /\ wpc = "run" /\ wire = <<>>
    /\ lost = FALSE

-----------------------------------------------------------------------------
(* What tasks call                                                         *)

Has(s, x) == \E i \in DOMAIN s : s[i] = x

\* Conn::enqueue: nothing is queued on a closed connection, and the answer that
\* the queue is at its limit is not looked at by the reader.
Room == ~closed /\ sender /\ Len(outq) < MaxOut
Enqueued(line) == IF Room THEN Append(outq, line) ELSE outq

\* Conn::finish: the first caller decides, seals the queue and wakes a reader
\* that waits in its select.
Finish(h) ==
    /\ closed' = TRUE
    /\ hard' = IF closed THEN hard ELSE h
    /\ sender' = IF closed THEN sender ELSE FALSE
    /\ woken' = (woken \/ (~closed /\ rpc = "select"))

-----------------------------------------------------------------------------
(* The reader                                                              *)

\* read_loop returns: its buffers, ticker and read half are dropped, spawn drops
\* the sender and waits for the writer.
ReadLoopEnds ==
    /\ rpc' = "join" /\ due' = FALSE /\ woken' = FALSE
    /\ batch' = <<>> /\ inbox' = <<>>
    /\ sender' = FALSE

\* The same after a close of the reader's own.
ReaderCloses ==
    /\ closed' = TRUE /\ hard' = hard
    /\ ReadLoopEnds

\* The test at the head of the loop.
LoopTop ==
    /\ rpc = "top" /\ ~closed
    /\ rpc' = "arm"
    /\ UNCHANGED <<due, woken, pings, batch, connVars, inbox, outq, wpc, wire, lost>>

LoopTopClosed ==
    /\ rpc = "top" /\ closed
    /\ ReadLoopEnds
    /\ UNCHANGED <<pings, closed, hard, outq, wpc, wire, lost>>

\* select! builds its futures: from here on a wake is heard.
Arm ==
    /\ rpc = "arm"
    /\ rpc' = "select" /\ woken' = FALSE
    /\ UNCHANGED <<due, pings, batch, connVars, inbox, outq, wpc, wire, lost>>

\* Mutant of SelectRead: the scan of a read answers its PINGs on the spot.
SelectReadAnswers ==
    /\ rpc = "select"
    /\ \E n \in 1..Len(inbox) :
          /\ \A i \in 1..n : inbox[i] # "EOF"
          /\ batch' = SelectSeq(SubSeq(inbox, 1, n), LAMBDA c : c # "PING")
          /\ outq' = IF Has(SubSeq(inbox, 1, n), "PING") THEN Enqueued("PONG") ELSE outq
          /\ inbox' = SubSeq(inbox, n + 1, Len(inbox))
    /\ rpc' = IF batch' = <<>> THEN "top" ELSE "handle"
    /\ UNCHANGED <<due, woken, pings, connVars, wpc, wire, lost>>

\* A read takes some of what has arrived, up to the end of the stream.
SelectRead ==
    /\ rpc = "select"
    /\ \E n \in 1..Len(inbox) :
          /\ \A i \in 1..n : inbox[i] # "EOF"
          /\ batch' = SubSeq(inbox, 1, n)
          /\ inbox' = SubSeq(inbox, n + 1, Len(inbox))
    /\ rpc' = "handle"
    /\ UNCHANGED <<due, woken, pings, connVars, outq, wpc, wire, lost>>

\* A read of nothing, or one that fails.
SelectEnd ==
    /\ rpc = "select"
    /\ inbox # <<>> => Head(inbox) = "EOF"
    /\ ReaderCloses
    /\ UNCHANGED <<pings, outq, wpc, wire, lost>>

SelectWake ==
    /\ rpc = "select" /\ woken
    /\ ReadLoopEnds
    /\ UNCHANGED <<pings, closed, hard, outq, wpc, wire, lost>>

\* Mutant of SelectProbe: the probe is queued and not counted.
SelectProbeUncounted ==
    /\ rpc = "select" /\ due /\ pings < MaxPingsOut
    /\ outq' = Enqueued("PING")
    /\ lost' = (lost \/ ~Room)
    /\ due' = FALSE /\ rpc' = "top"
    /\ UNCHANGED <<woken, pings, batch, connVars, inbox, wpc, wire>>

\* A tick: count a probe and queue it ...
SelectProbe ==
    /\ rpc = "select" /\ due /\ pings < MaxPingsOut
    /\ pings' = pings + 1
    /\ outq' = Enqueued("PING")
    /\ lost' = (lost \/ ~Room)
    /\ due' = FALSE /\ rpc' = "top"
    /\ UNCHANGED <<woken, batch, connVars, inbox, wpc, wire>>

\* ... or give the client up.
SelectStale ==
    /\ rpc = "select" /\ due /\ pings >= MaxPingsOut
    /\ outq' = Enqueued("ERR")
    /\ ReaderCloses
    /\ UNCHANGED <<pings, wpc, wire, lost>>

\* handle, one event at a time.
Event(c) == rpc = "handle" /\ Head(batch) = c
Handled ==
    /\ batch' = Tail(batch)
    /\ rpc' = IF Len(batch) = 1 THEN "top" ELSE "handle"

\* Mutant of HandlePong: note_pong is forgotten.
HandlePongIgnored ==
    /\ Event("PONG")
    /\ Handled
    /\ UNCHANGED <<due, woken, pings, connVars, inbox, outq, wpc, wire, lost>>

HandlePong ==
    /\ Event("PONG")
    /\ pings' = 0
    /\ Handled
    /\ UNCHANGED <<due, woken, connVars, inbox, outq, wpc, wire, lost>>

HandlePing ==
    /\ Event("PING")
    /\ outq' = Enqueued("PONG")
    /\ Handled
    /\ UNCHANGED <<due, woken, pings, connVars, inbox, wpc, wire, lost>>

\* A publish may find a subscriber without room, and parks the reader on it
\* until there is room or nobody (ParkedProceeds of Outbox).
HandlePub ==
    /\ Event("PUB")
    /\ Handled
    /\ UNCHANGED <<due, woken, pings, connVars, inbox, outq, wpc, wire, lost>>

Park ==
    /\ Event("PUB")
    /\ rpc' = "parked"
    /\ UNCHANGED <<due, woken, pings, batch, connVars, inbox, outq, wpc, wire, lost>>

Unpark ==
    /\ rpc = "parked"
    /\ Handled
    /\ UNCHANGED <<due, woken, pings, connVars, inbox, outq, wpc, wire, lost>>

\* handle answers false.
HandleBad ==
    /\ Event("BAD")
    /\ ReaderCloses
    /\ UNCHANGED <<pings, outq, wpc, wire, lost>>

SpawnJoined ==
    /\ rpc = "join" /\ wpc = "done"
    /\ rpc' = "gone"
    /\ UNCHANGED <<due, woken, pings, batch, connVars, inbox, outq, wpc, wire, lost>>

\* The backstop: ten seconds without the writer's end.
SpawnBackstop ==
    /\ rpc = "join" /\ wpc # "done"
    /\ Finish(TRUE)
    /\ rpc' = "gone"
    /\ UNCHANGED <<due, pings, batch, inbox, outq, wpc, wire, lost>>

ReaderStep ==
    \/ LoopTop \/ LoopTopClosed \/ Arm
    \/ SelectRead \/ SelectWake \/ SelectProbe \/ SelectStale
    \/ (inbox # <<>> /\ SelectEnd)
    \/ HandlePong \/ HandlePing \/ HandlePub \/ Unpark \/ HandleBad
    \/ SpawnJoined

-----------------------------------------------------------------------------
(* The writer and the rest of the world                                    *)

\* write_loop puts a frame on the socket.
Write ==
    /\ wpc = "run" /\ outq # <<>> /\ ~hard
    /\ Len(wire) < MaxWire
    /\ wire' = Append(wire, Head(outq))
    /\ outq' = Tail(outq)
    /\ UNCHANGED <<readerVars, connVars, inbox, wpc, lost>>

\* It ends when the sender is gone and the queue empty, on a hard close, on an
\* error of the socket (a soft close) ...
WriteEnd ==
    /\ wpc = "run"
    /\ \/ ~sender /\ outq = <<>>
       \/ closed /\ hard
    /\ Finish(FALSE)
    /\ wpc' = "done"
    /\ UNCHANGED <<rpc, due, pings, batch, inbox, outq, wire, lost>>

WriteFails ==
    /\ wpc = "run" /\ outq # <<>>
    /\ Finish(FALSE)
    /\ wpc' = "done"
    /\ UNCHANGED <<rpc, due, pings, batch, inbox, outq, wire, lost>>

\* Mutant of WriteDeadline: the deadline closes the connection and goes on.
WriteDeadlineGoesOn ==
    /\ wpc = "run" /\ outq # <<>> /\ Len(wire) = MaxWire
    /\ Finish(FALSE)
    /\ UNCHANGED <<rpc, due, pings, batch, inbox, outq, wpc, wire, lost>>

\* ... or when the client has not taken anything for a write deadline.
WriteDeadline ==
    /\ wpc = "run" /\ outq # <<>> /\ Len(wire) = MaxWire
    /\ Finish(TRUE)
    /\ wpc' = "done"
    /\ UNCHANGED <<rpc, due, pings, batch, inbox, outq, wire, lost>>

WriterStep == Write \/ WriteEnd \/ WriteDeadline

\* The ping interval passes.  It is long beside a poll of a reader that has
\* something to read, and not beside the wait of one that is parked.
Idle == rpc = "select" /\ inbox = <<>> /\ ~woken
Elapse ==
    /\ ~due /\ (Idle \/ rpc = "parked")
    /\ due' = TRUE
    /\ UNCHANGED <<rpc, woken, pings, batch, connVars, inbox, outq, wpc, wire, lost>>

\* close_now by a publisher's task: the queue of this connection overflowed.
SlowConsumer ==
    /\ ~closed /\ Len(outq) = MaxOut
    /\ Finish(TRUE)
    /\ UNCHANGED <<rpc, due, pings, batch, inbox, outq, wpc, wire, lost>>

ServerNext ==
    \/ ReaderStep \/ Park \/ SelectEnd \/ SpawnBackstop
    \/ WriterStep \/ WriteFails
    \/ Elapse \/ SlowConsumer

\* The runtime polls ready tasks, time passes, a parked reader is let go.
ServerFairness ==
    /\ WF_vars(ReaderStep) /\ WF_vars(WriterStep) /\ WF_vars(Elapse)

-----------------------------------------------------------------------------
(* Properties                                                              *)

\* "After max_pings_out (2) unanswered probes" means probes: as long as the
\* counter is up, a probe or an answer to one is on its way, unless a probe was
\* dropped at the limit of the queue or was swallowed by the client.
ProbeAccounted ==
    pings > 0 /\ ~closed /\ ~lost =>
        \/ Has(outq, "PING") \/ Has(wire, "PING")
        \/ Has(inbox, "PONG") \/ Has(batch, "PONG")

\* Whoever closes the connection, and whether or not the reader hears the wake,
\* the connection's task ends and gives its slot back.
TaskEnds == closed ~> rpc = "gone"

\* The backstop "keeps a wedged socket from leaking the task": when spawn returns
\* no task of the connection is left.
NoTaskLeft == rpc = "gone" => wpc = "done"
=============================================================================
