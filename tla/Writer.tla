------------------------------- MODULE Writer -------------------------------
(***************************************************************************)
(* The writer task of one connection (write_loop, write_batch and consume  *)
(* in crates/server/src/client.rs): frames leave the outbound queue in     *)
(* batches, a batch goes to the socket in as many writes as the kernel     *)
(* wants, and a close decides what is still flushed.                       *)
(*                                                                         *)
(* Bytes are numbered in the order they are queued, from 1.  Frames are    *)
(* contiguous and only the front of a batch is ever dropped, so the batch  *)
(* `parts` is an interval lo+1..hi of byte numbers, cut into buffers at the*)
(* frame ends, and the queue behind it is hi+1..tail.                      *)
(***************************************************************************)
EXTENDS Integers, FiniteSets

CONSTANTS
    FrameLens,      \* lengths a frame may have
    MaxTail,        \* bound: bytes queued over the connection's life
    MaxBatchBytes,  \* MAX_BATCH_BYTES
    MaxBatchParts   \* MAX_BATCH_PARTS

ASSUME WriterAssumption ==
    /\ FrameLens \subseteq Nat \ {0}
    /\ MaxTail \in Nat /\ MaxBatchBytes \in Nat /\ MaxBatchParts \in Nat

VARIABLES
    tail,    \* bytes queued so far
    ends,    \* the numbers of the last bytes of frames
    sender,  \* Outbox.tx is Some
    closed,  \* Conn.closed
    hard,    \* Conn.hard
    lo, hi,  \* the batch: bytes lo+1..hi are in `parts`, or in the hands of a
             \* write of a single buffer
    batch,   \* batch_bytes
    woken,   \* the `wake` the writer waits on has been notified
    broken,  \* the socket reported an error, or a write timed out
    wpc,     \* where the writer is
    wire,    \* the bytes the kernel has taken
    harm     \* history: what first befell the write of a single buffer: "none",
             \* "cut" (taken in part) or "dropped" (cancelled while pending)

queueVars == <<tail, ends, sender>>
flagVars == <<closed, hard>>
batchVars == <<lo, hi, batch>>
vars == <<queueVars, flagVars, batchVars, woken, broken, wpc, wire, harm>>

TypeOK ==
    /\ tail \in 0..MaxTail /\ ends \subseteq 1..tail /\ sender \in BOOLEAN
    /\ closed \in BOOLEAN /\ hard \in BOOLEAN
    /\ lo \in 0..hi /\ hi \in 0..tail /\ batch \in 0..tail
    /\ woken \in BOOLEAN /\ broken \in BOOLEAN
    /\ wpc \in {"recv", "top", "writing", "done"}
    /\ wire \subseteq 1..tail
    /\ harm \in {"none", "cut", "dropped"}

Init ==
    /\ tail = 0 /\ ends = {} /\ sender = TRUE
    /\ closed = FALSE /\ hard = FALSE
    /\ lo = 0 /\ hi = 0 /\ batch = 0
    /\ woken = FALSE /\ broken = FALSE
    /\ wpc = "recv" /\ wire = {} /\ harm = "none"

-----------------------------------------------------------------------------
(* What happens to the queue and the connection meanwhile                  *)

\* Outbox::push of a frame of n bytes.
Enqueue(n) ==
    /\ sender /\ tail + n <= MaxTail
    /\ tail' = tail + n
    /\ ends' = ends \cup {tail + n}
    /\ UNCHANGED <<sender, flagVars, batchVars, woken, broken, wpc, wire, harm>>

\* Conn::finish by another task, its flags ...
FinishMarks(h) ==
    /\ ~closed
    /\ closed' = TRUE /\ hard' = h
    /\ UNCHANGED <<queueVars, batchVars, woken, broken, wpc, wire, harm>>

\* ... and the rest of it: the sender goes, a waiting writer is woken.
FinishSeals ==
    /\ closed /\ sender
    /\ sender' = FALSE
    /\ woken' = (wpc = "writing")
    /\ UNCHANGED <<tail, ends, flagVars, batchVars, broken, wpc, wire, harm>>

-----------------------------------------------------------------------------
(* The writer                                                              *)

Parts(e) == {x \in ends : hi < x /\ x <= e}

\* recv, then try_recv until the queue is empty or the batch is full.
Batchable(e) ==
    /\ e \in ends /\ e > hi
    /\ \/ e = tail
       \/ /\ Cardinality(Parts(e)) > 1
          /\ e - hi >= MaxBatchBytes \/ Cardinality(Parts(e)) >= MaxBatchParts

Receive ==
    /\ wpc = "recv"
    /\ \E e \in ends :
          /\ Batchable(e) /\ \A x \in Parts(e) : Batchable(x) => x = e
          /\ batch' = e - hi
          /\ hi' = e
    /\ wpc' = "top"
    /\ UNCHANGED <<queueVars, flagVars, lo, woken, broken, wire, harm>>

\* Mutant of ReceiveEnd: the writer ends as soon as the sender is gone.
ReceiveEndEarly ==
    /\ wpc = "recv" /\ ~sender
    /\ closed' = TRUE
    /\ wpc' = "done"
    /\ UNCHANGED <<queueVars, hard, batchVars, woken, broken, wire, harm>>

\* Mutant of ReceiveEnd: only a hard close ends the wait for work.
ReceiveEndHard ==
    /\ wpc = "recv" /\ ~sender /\ hi = tail /\ hard
    /\ closed' = TRUE
    /\ wpc' = "done"
    /\ UNCHANGED <<queueVars, hard, batchVars, woken, broken, wire, harm>>

\* recv yields None: the sender is gone and the queue is empty.
ReceiveEnd ==
    /\ wpc = "recv" /\ ~sender /\ hi = tail
    /\ closed' = TRUE
    /\ wpc' = "done"
    /\ UNCHANGED <<queueVars, hard, batchVars, woken, broken, wire, harm>>

\* One buffer is left in the batch: write_batch takes it out for the write.
Lone == lo < hi /\ \A x \in ends : x <= lo \/ x >= hi

BatchDone ==
    /\ wpc = "top" /\ batch = 0
    /\ lo' = hi
    /\ wpc' = "recv"
    /\ UNCHANGED <<queueVars, flagVars, hi, batch, woken, broken, wire, harm>>

\* A hard close: the rest of the batch is dropped.
HardStop ==
    /\ wpc = "top" /\ batch > 0
    /\ closed /\ hard
    /\ wpc' = "done"
    /\ UNCHANGED <<queueVars, flagVars, batchVars, woken, broken, wire, harm>>

\* Nothing left in `parts` although bytes are still accounted for: write_batch
\* answers Ok(0), which the loop takes for a socket that accepts no data.
WriteNothing ==
    /\ wpc = "top" /\ batch > 0 /\ ~(closed /\ hard)
    /\ lo = hi
    /\ closed' = TRUE
    /\ wpc' = "done"
    /\ UNCHANGED <<queueVars, hard, batchVars, woken, broken, wire, harm>>

WriteStart ==
    /\ wpc = "top" /\ batch > 0 /\ ~(closed /\ hard)
    /\ lo < hi
    /\ wpc' = "writing" /\ woken' = FALSE
    /\ UNCHANGED <<queueVars, flagVars, batchVars, broken, wire, harm>>

\* consume: n bytes leave the front of `parts`, or all there is.
Consumed(from, n) == IF from + n < hi THEN from + n ELSE hi

\* What write_batch itself leaves at the front: it has advanced a single buffer
\* that was taken in part, and the loop's consume comes on top of that.
Advanced(n) == IF Lone /\ n < hi - lo THEN lo + n ELSE lo

\* The history of what went wrong with a single buffer.
Harmed(happened, how) == IF happened /\ harm = "none" THEN how ELSE harm

\* Mutant of WriteTakes: consume is forgotten and the next write starts over.
WriteTakesAgain(n) ==
    /\ wpc = "writing"
    /\ n \in 1..(hi - lo)
    /\ harm' = Harmed(Lone /\ n < hi - lo, "cut")
    /\ wire' = wire \cup (lo + 1)..(lo + n)
    /\ lo' = lo
    /\ batch' = batch - n
    /\ wpc' = "top" /\ woken' = FALSE
    /\ UNCHANGED <<queueVars, flagVars, hi, broken>>

\* Mutant of WriteTakes: the buffer that ends mid-way is dropped, not split.
WriteTakesUnsplit(n) ==
    /\ wpc = "writing"
    /\ n \in 1..(hi - lo)
    /\ harm' = Harmed(Lone /\ n < hi - lo, "cut")
    /\ wire' = wire \cup (lo + 1)..(lo + n)
    /\ lo' = CHOOSE x \in ends \cup {hi} :
                /\ x >= lo + n
                /\ \A y \in ends \cup {hi} : y >= lo + n => x <= y
    /\ batch' = hi - lo'
    /\ wpc' = "top" /\ woken' = FALSE
    /\ UNCHANGED <<queueVars, flagVars, hi, broken>>

\* The kernel takes n bytes.
WriteTakes(n) ==
    /\ wpc = "writing"
    /\ n \in 1..(hi - lo)
    /\ harm' = Harmed(Lone /\ n < hi - lo, "cut")
    /\ wire' = wire \cup (lo + 1)..(lo + n)
    /\ lo' = Consumed(Advanced(n), n)
    /\ batch' = batch - n
    /\ wpc' = "top" /\ woken' = FALSE
    /\ UNCHANGED <<queueVars, flagVars, hi, broken>>

Pending == wpc = "writing"

\* EINTR: the buffer goes back and the loop tries again.
WriteInterrupted ==
    /\ Pending
    /\ wpc' = "top" /\ woken' = FALSE
    /\ UNCHANGED <<queueVars, flagVars, batchVars, broken, wire, harm>>

\* The wake cancels a pending write; the buffer a single write had taken out of
\* `parts` goes with the future.
WriteCancelled ==
    /\ Pending /\ woken
    /\ lo' = IF Lone THEN hi ELSE lo
    /\ wpc' = IF hard THEN "done" ELSE "top"
    /\ woken' = FALSE
    /\ harm' = Harmed(Lone, "dropped")
    /\ UNCHANGED <<queueVars, flagVars, hi, batch, broken, wire>>

\* The socket fails: a soft close.
WriteFails ==
    /\ Pending
    /\ closed' = TRUE /\ broken' = TRUE
    /\ wpc' = "done"
    /\ UNCHANGED <<queueVars, hard, batchVars, woken, wire, harm>>

\* The write deadline: a hard close, unless somebody closed already.
WriteDeadline ==
    /\ Pending
    /\ closed' = TRUE /\ broken' = TRUE
    /\ hard' = IF closed THEN hard ELSE TRUE
    /\ wpc' = "done"
    /\ UNCHANGED <<queueVars, batchVars, woken, wire, harm>>

WriteEnds ==
    WriteFails \/ WriteDeadline \/ WriteCancelled \/ \E n \in 1..MaxTail : WriteTakes(n)

WriterStep ==
    \/ Receive \/ ReceiveEnd \/ BatchDone \/ HardStop
    \/ WriteNothing \/ WriteStart \/ WriteEnds

\* Whatever adds nothing to the queue.
Goes ==
    \/ \E h \in BOOLEAN : FinishMarks(h)
    \/ FinishSeals
    \/ WriteInterrupted
    \/ WriterStep

Next == Goes \/ \E n \in FrameLens : Enqueue(n)

Spec == Init /\ [][Next]_vars

\* The runtime polls a ready writer and lets a closer finish; a pending write is
\* taken, fails or meets its deadline, and is not interrupted by signals for ever
\* (each attempt re-arms the deadline, so the code alone does not bound those).
FairSpec == Spec /\ WF_vars(WriterStep) /\ SF_vars(WriteEnds) /\ WF_vars(FinishSeals)

-----------------------------------------------------------------------------
(* Properties                                                              *)

\* "a partially written batch is tracked by advancing the front buffer": the bytes
\* on the wire are the first bytes queued, with none left out.
WireIsPrefix == wire = 1..Cardinality(wire)

\* As long as the write of a single buffer is neither cut nor cancelled, that is
\* so: a partial write of a larger batch, over any of its buffers, is resumed
\* exactly where the kernel stopped.
ResumesExactly == harm = "none" => WireIsPrefix

\* Until then, too, batch_bytes is what is left of the batch, so that the loop
\* over it ends, and the queue is charged for exactly what it still holds.
BatchExact == harm = "none" => batch = hi - lo

\* A writer that ends without a hard close and without a socket error has put
\* everything queued on the wire.
Drained == wpc = "done" /\ ~hard /\ ~broken => wire = 1..tail

\* "A soft close drains", as long as no single buffer was harmed.
SoftCloseDrains == harm = "none" => Drained

\* "A soft close drains, a hard close drops", whatever was pending when it came.
SoftCloseAlwaysDrains == harm # "cut" => Drained

\* Once a connection is closed its writer ends, whatever the socket does.
CloseEndsWriter == closed ~> wpc = "done"
=============================================================================
