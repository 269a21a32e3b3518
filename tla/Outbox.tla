------------------------------- MODULE Outbox -------------------------------
(***************************************************************************)
(* The byte-counted outbound queue of one connection and the stall gate    *)
(* built on it (crates/server/src/client.rs: Outbox, push, drained,        *)
(* wait_for_space, the wait in handle, and Conn::finish as far as it       *)
(* touches the queue).                                                     *)
(*                                                                         *)
(* Every step is one atomic operation of the code on shared state: a load, *)
(* a store, a fetch_add or fetch_sub, a critical section of the queue      *)
(* lock, a notify.  The tasks that queue frames, the writer task and the   *)
(* task that runs Conn::finish interleave between any two of them.         *)
(*                                                                         *)
(* Frames are abstracted to their lengths, and the channel to the number   *)
(* of bytes in it: nothing here depends on which frame is which (module    *)
(* Writer keeps the bytes themselves).                                     *)
(***************************************************************************)
EXTENDS Integers

CONSTANTS
    Tasks,        \* tasks that queue frames on this connection
    Owner,        \* the one that is the connection's own reader task
    Hard,         \* max_pending
    DataLens,     \* lengths a delivered MSG/HMSG frame may have
    ControlLens,  \* lengths of the owner's frames: +OK, PONG, -ERR, PING
    NoTask        \* nobody holds the queue lock / runs finish

ASSUME OutboxAssumption ==
    /\ Hard \in Nat
    /\ Owner \in Tasks
    /\ DataLens \subseteq Nat \ {0}
    /\ ControlLens \subseteq Nat \ {0}
    /\ NoTask \notin Tasks
    /\ "writer" \notin Tasks
    /\ NoTask # "writer"

VARIABLES
    pending,  \* Outbox.pending; a negative value stands for a wrapped usize
    queued,   \* bytes in the channel
    sender,   \* Outbox.tx is Some
    gone,     \* Outbox.gone
    waiting,  \* tasks registered on Outbox.space and not yet notified
    holder,   \* the task inside push, under the queue lock
    len,      \* the length of the holder's frame
    before,   \* the holder's `before`
    closed,   \* Conn.closed
    hard,     \* Conn.hard
    fin,      \* how far Conn::finish got
    closer,   \* the task running Conn::finish
    soft,     \* that call's `hard` argument, negated
    pc,       \* where each queueing task is
    wpc,      \* where the writer is
    batch,    \* batch_bytes of the writer
    amount,   \* the argument of the writer's current call of drained
    after,    \* what the writer does when that call returns
    wake      \* the writer's wait on Conn.wake was notified

queueVars == <<pending, queued, sender, gone, waiting>>
pushVars == <<holder, len, before>>
closeVars == <<closed, hard, fin, closer, soft>>
writerVars == <<wpc, batch, amount, after, wake>>
vars == <<queueVars, pushVars, closeVars, pc, writerVars>>

\* The stall threshold, 75 % of the limit.
Soft == (Hard \div 4) * 3

\* An unsigned comparison: a wrapped counter is larger than any limit.
Exceeds(n, limit) == n < 0 \/ n > limit

Max0(n) == IF n < 0 THEN 0 ELSE n

TaskPC ==
    {"idle", "deliver", "control", "slow", "closing", "stall", "parked",
     "gone1", "pend1", "gone2", "pend2", "gone3", "pend3", "closed3",
     "left", "ended"}
FinStages ==
    {"open", "swapped", "flagged", "sealed", "gone", "zeroed", "notified", "done"}
WriterPC ==
    {"recv", "top", "write", "drain", "sub", "notify", "fail", "deadline",
     "closing", "dead"}

TypeOK ==
    /\ pending \in Int
    /\ queued \in Nat /\ batch \in Nat /\ amount \in Nat
    /\ len \in Nat /\ before \in Int
    /\ sender \in BOOLEAN /\ gone \in BOOLEAN /\ wake \in BOOLEAN
    /\ closed \in BOOLEAN /\ hard \in BOOLEAN /\ soft \in BOOLEAN
    /\ waiting \subseteq Tasks
    /\ holder \in Tasks \cup {NoTask}
    /\ fin \in FinStages
    /\ closer \in Tasks \cup {"writer", NoTask}
    /\ pc \in [Tasks -> TaskPC]
    /\ wpc \in WriterPC
    /\ after \in {"loop", "dead", "fail", "deadline"}

Init ==
    /\ pending = 0 /\ queued = 0
    /\ sender = TRUE /\ gone = FALSE /\ waiting = {}
    /\ holder = NoTask /\ len = 0 /\ before = 0
    /\ closed = FALSE /\ hard = FALSE
    /\ fin = "open" /\ closer = NoTask /\ soft = FALSE
    /\ pc = [t \in Tasks |-> "idle"]
    /\ wpc = "recv" /\ batch = 0 /\ amount = 0 /\ after = "loop" /\ wake = FALSE

Goto(t, label) == pc' = [pc EXCEPT ![t] = label]

-----------------------------------------------------------------------------
(* Queueing a frame: Conn::deliver, Conn::enqueue, push.                   *)

\* push returns and its caller drops the queue lock.
Unlock == holder' = NoTask /\ len' = 0 /\ before' = 0

\* The is_closed test of Conn::deliver passes.
StartDeliver(t) ==
    /\ pc[t] = "idle" /\ ~closed
    /\ Goto(t, "deliver")
    /\ UNCHANGED <<queueVars, pushVars, closeVars, writerVars>>

\* The is_closed test of Conn::enqueue passes, on the owner's task.
StartControl ==
    /\ pc[Owner] = "idle" /\ ~closed /\ ControlLens # {}
    /\ Goto(Owner, "control")
    /\ UNCHANGED <<queueVars, pushVars, closeVars, writerVars>>

\* A closed connection: Enqueue::Dropped, and the publisher moves on.
DropOnClosed(t) ==
    /\ pc[t] = "idle" /\ closed
    /\ UNCHANGED vars

\* Mutant: compares the counter as it was before the addition.
PushAddComparesOld(t) ==
    /\ pc[t] \in {"deliver", "control"} /\ holder = NoTask /\ sender
    /\ \E n \in IF pc[t] = "control" THEN ControlLens ELSE DataLens :
          len' = n /\ pending' = pending + n /\ before' = pending
    /\ holder' = t
    /\ UNCHANGED <<queued, sender, gone, waiting, closeVars, pc, writerVars>>

\* The lock is taken, the sender is still there, and push adds the length.
PushAdd(t) ==
    /\ pc[t] \in {"deliver", "control"}
    /\ holder = NoTask
    /\ sender
    /\ \E n \in IF pc[t] = "control" THEN ControlLens ELSE DataLens :
          /\ len' = n
          /\ pending' = pending + n
          /\ before' = pending + n
    /\ holder' = t
    /\ UNCHANGED <<queued, sender, gone, waiting, closeVars, pc, writerVars>>

\* The lock is taken and the sender is gone: Enqueue::Dropped.
PushNoSender(t) ==
    /\ pc[t] \in {"deliver", "control"}
    /\ holder = NoTask
    /\ ~sender
    /\ Goto(t, "idle")
    /\ UNCHANGED <<queueVars, pushVars, closeVars, writerVars>>

\* Over the hard limit: the addition is undone.  A delivery makes its caller
\* close the connection (Registry::give); a control frame is just not sent.
PushReject(t) ==
    /\ holder = t
    /\ Exceeds(before, Hard)
    /\ pending' = pending - len
    /\ Unlock
    /\ Goto(t, IF pc[t] = "control" THEN "idle" ELSE "slow")
    /\ UNCHANGED <<queued, sender, gone, waiting, closeVars, writerVars>>

\* The frame is sent; a delivery over the soft limit stalls its publisher.
PushSend(t) ==
    /\ holder = t
    /\ ~Exceeds(before, Hard)
    /\ wpc # "dead"
    /\ queued' = queued + len
    /\ Unlock
    /\ Goto(t, IF pc[t] = "deliver" /\ before > Soft THEN "stall" ELSE "idle")
    /\ UNCHANGED <<pending, sender, gone, waiting, closeVars, writerVars>>

\* Mutant: the addition stays.
PushNoReceiverKeeps(t) ==
    /\ holder = t /\ ~Exceeds(before, Hard) /\ wpc = "dead"
    /\ Unlock
    /\ Goto(t, "idle")
    /\ UNCHANGED <<queueVars, closeVars, writerVars>>

\* The receiver went away with the writer: the addition is undone.
PushNoReceiver(t) ==
    /\ holder = t
    /\ ~Exceeds(before, Hard)
    /\ wpc = "dead"
    /\ pending' = pending - len
    /\ Unlock
    /\ Goto(t, "idle")
    /\ UNCHANGED <<queued, sender, gone, waiting, closeVars, writerVars>>

-----------------------------------------------------------------------------
(* The stall: the loop at the end of Publish in handle, around             *)
(* Outbox::wait_for_space.  room() is two loads, gone and then pending.    *)

StallCheckClosed(t) ==
    /\ pc[t] = "stall"
    /\ Goto(t, IF closed THEN "idle" ELSE "gone1")
    /\ UNCHANGED <<queueVars, pushVars, closeVars, writerVars>>

\* Mutant: room() as it was before `gone` existed.
RoomWithoutGone(t) ==
    /\ pc[t] \in {"gone1", "gone2", "gone3"}
    /\ Goto(t, CASE pc[t] = "gone1" -> "pend1"
                 [] pc[t] = "gone2" -> "pend2"
                 [] pc[t] = "gone3" -> "pend3")
    /\ UNCHANGED <<queueVars, pushVars, closeVars, writerVars>>

\* room(), first load.  Room ends wait_for_space (label gone3 is the check
\* that follows it), and there it ends the stall.
RoomGone(t) ==
    /\ pc[t] \in {"gone1", "gone2", "gone3"}
    /\ IF gone
         THEN /\ Goto(t, IF pc[t] = "gone3" THEN "idle" ELSE "gone3")
              /\ waiting' = waiting \ {t}
         ELSE /\ Goto(t, CASE pc[t] = "gone1" -> "pend1"
                           [] pc[t] = "gone2" -> "pend2"
                           [] pc[t] = "gone3" -> "pend3")
              /\ UNCHANGED waiting
    /\ UNCHANGED <<pending, queued, sender, gone, pushVars, closeVars, writerVars>>

\* room(), second load, the first time round: no room registers the waiter.
RoomPendingFirst(t) ==
    /\ pc[t] = "pend1"
    /\ IF Exceeds(pending, Soft)
         THEN Goto(t, "gone2") /\ waiting' = waiting \cup {t}
         ELSE Goto(t, "gone3") /\ UNCHANGED waiting
    /\ UNCHANGED <<pending, queued, sender, gone, pushVars, closeVars, writerVars>>

\* The check after the registration: still no room parks the task.
RoomPendingAgain(t) ==
    /\ pc[t] = "pend2"
    /\ IF Exceeds(pending, Soft)
         THEN Goto(t, "parked") /\ UNCHANGED waiting
         ELSE Goto(t, "gone3") /\ waiting' = waiting \ {t}
    /\ UNCHANGED <<pending, queued, sender, gone, pushVars, closeVars, writerVars>>

\* wait.await returns once the registration was notified.
Wake(t) ==
    /\ pc[t] = "parked"
    /\ t \notin waiting
    /\ Goto(t, "gone1")
    /\ UNCHANGED <<queueVars, pushVars, closeVars, writerVars>>

\* The second half of `room() || is_closed()` after wait_for_space.
RoomPendingAfter(t) ==
    /\ pc[t] = "pend3"
    /\ Goto(t, IF Exceeds(pending, Soft) THEN "closed3" ELSE "idle")
    /\ UNCHANGED <<queueVars, pushVars, closeVars, writerVars>>

RecheckClosed(t) ==
    /\ pc[t] = "closed3"
    /\ Goto(t, IF closed THEN "idle" ELSE "stall")
    /\ UNCHANGED <<queueVars, pushVars, closeVars, writerVars>>

-----------------------------------------------------------------------------
(* Conn::finish.  The swap of closed elects one caller; the others return. *)

BeginFinish(who, isHard) ==
    /\ closed' = TRUE
    /\ fin' = "swapped"
    /\ closer' = who
    /\ soft' = ~isHard
    /\ UNCHANGED hard

\* close_slow_consumer, called by the publisher whose frame did not fit.
CloseSlowConsumer(t) ==
    /\ pc[t] = "slow"
    /\ IF closed
         THEN Goto(t, "idle") /\ UNCHANGED closeVars
         ELSE Goto(t, "closing") /\ BeginFinish(t, TRUE)
    /\ UNCHANGED <<queueVars, pushVars, writerVars>>

\* The reader ends its own connection: EOF, a protocol error, staleness.
OwnerCloses ==
    /\ pc[Owner] = "idle" /\ ~closed
    /\ Goto(Owner, "closing")
    /\ BeginFinish(Owner, FALSE)
    /\ UNCHANGED <<queueVars, pushVars, writerVars>>

FinishFlags ==
    /\ fin = "swapped"
    /\ hard' = ~soft
    /\ fin' = "flagged"
    /\ UNCHANGED <<queueVars, pushVars, closed, closer, soft, pc, writerVars>>

\* Mutant: the sender is dropped without the queue lock.
FinishSealsUnlocked ==
    /\ fin = "flagged"
    /\ sender' = FALSE
    /\ fin' = "sealed"
    /\ UNCHANGED <<pending, queued, gone, waiting, pushVars, closed, hard, closer,
                   soft, pc, writerVars>>

FinishSeals ==
    /\ fin = "flagged"
    /\ holder = NoTask
    /\ sender' = FALSE
    /\ fin' = "sealed"
    /\ UNCHANGED <<pending, queued, gone, waiting, pushVars, closed, hard, closer,
                   soft, pc, writerVars>>

\* no_more_writes, its three operations.
FinishGone ==
    /\ fin = "sealed"
    /\ gone' = TRUE
    /\ fin' = "gone"
    /\ UNCHANGED <<pending, queued, sender, waiting, pushVars, closed, hard, closer,
                   soft, pc, writerVars>>

FinishZeroes ==
    /\ fin = "gone"
    /\ pending' = 0
    /\ fin' = "zeroed"
    /\ UNCHANGED <<queued, sender, gone, waiting, pushVars, closed, hard, closer,
                   soft, pc, writerVars>>

\* Mutant: the close wakes nobody.
FinishNotifiesNobody ==
    /\ fin = "zeroed"
    /\ fin' = "notified"
    /\ UNCHANGED <<queueVars, pushVars, closed, hard, closer, soft, pc, writerVars>>

FinishNotifies ==
    /\ fin = "zeroed"
    /\ waiting' = {}
    /\ fin' = "notified"
    /\ UNCHANGED <<pending, queued, sender, gone, pushVars, closed, hard, closer,
                   soft, pc, writerVars>>

\* wake.notify_waiters reaches the writer only if it is inside the select of
\* a write; the caller of finish goes on.
FinishWakes ==
    /\ fin = "notified"
    /\ fin' = "done"
    /\ wake' = (wpc = "write")
    /\ closer' = NoTask
    /\ IF closer = "writer"
         THEN wpc' = "dead" /\ UNCHANGED pc
         ELSE Goto(closer, "idle") /\ UNCHANGED wpc
    /\ UNCHANGED <<queueVars, pushVars, closed, hard, soft, batch, amount, after>>

\* The reader leaves its loop once it sees the connection closed ...
OwnerLeaves ==
    /\ pc[Owner] = "idle" /\ closed
    /\ Goto(Owner, "left")
    /\ UNCHANGED <<queueVars, pushVars, closeVars, writerVars>>

\* ... and spawn drops the sender.
SpawnDropsSender ==
    /\ pc[Owner] = "left"
    /\ holder = NoTask
    /\ sender' = FALSE
    /\ Goto(Owner, "ended")
    /\ UNCHANGED <<pending, queued, gone, waiting, pushVars, closeVars, writerVars>>

-----------------------------------------------------------------------------
(* The writer, as far as the counters see it: write_loop and drained.      *)

\* recv, and try_recv up to the batch caps: some of what is queued, in order.
WriterReceives ==
    /\ wpc = "recv" /\ queued > 0
    /\ \E n \in 1..queued :
          /\ batch' = n
          /\ queued' = queued - n
    /\ wpc' = "top"
    /\ UNCHANGED <<pending, sender, gone, waiting, pushVars, closeVars, pc, amount,
                   after, wake>>

\* recv yields None: the channel is empty and its sender is gone.  A wake
\* alone never ends this wait: finish drops the sender before it notifies,
\* and the select polls recv first.
WriterSeesEnd ==
    /\ wpc = "recv" /\ queued = 0 /\ ~sender
    /\ wpc' = "fail"
    /\ UNCHANGED <<queueVars, pushVars, closeVars, pc, batch, amount, after, wake>>

\* A call of drained(n) with what follows it.
CallDrained(n, next) ==
    /\ amount' = n
    /\ batch' = batch - n
    /\ after' = next
    /\ wpc' = "drain"
    /\ wake' = FALSE

WriterTop ==
    /\ wpc = "top"
    /\ IF closed /\ hard
         THEN CallDrained(batch, "dead")
         ELSE wpc' = "write" /\ wake' = FALSE /\ UNCHANGED <<batch, amount, after>>
    /\ UNCHANGED <<queueVars, pushVars, closeVars, pc>>

\* The socket takes some of the batch.
WriterWrites ==
    /\ wpc = "write"
    /\ \E n \in 1..batch : CallDrained(n, "loop")
    /\ UNCHANGED <<queueVars, pushVars, closeVars, pc>>

\* Ok(0) or an error other than a timeout.
WriterFails ==
    /\ wpc = "write"
    /\ CallDrained(batch, "fail")
    /\ UNCHANGED <<queueVars, pushVars, closeVars, pc>>

\* The write deadline passes.
WriterDeadline ==
    /\ wpc = "write"
    /\ CallDrained(batch, "deadline")
    /\ UNCHANGED <<queueVars, pushVars, closeVars, pc>>

\* conn.wake fires during the write.
WriterWakes ==
    /\ wpc = "write" /\ wake
    /\ IF hard
         THEN CallDrained(batch, "dead")
         ELSE wpc' = "top" /\ wake' = FALSE /\ UNCHANGED <<batch, amount, after>>
    /\ UNCHANGED <<queueVars, pushVars, closeVars, pc>>

\* Where the writer goes when drained returns.
WriterResumes ==
    /\ wpc' = IF after # "loop" THEN after ELSE IF batch = 0 THEN "recv" ELSE "top"
    /\ after' = "loop"

\* drained, the load of gone.
DrainedChecksGone ==
    /\ wpc = "drain"
    /\ IF gone
         THEN WriterResumes /\ amount' = 0
         ELSE wpc' = "sub" /\ UNCHANGED <<amount, after>>
    /\ UNCHANGED <<queueVars, pushVars, closeVars, pc, batch, wake>>

\* Mutant: a drain that lands on the threshold does not count as crossing it.
DrainedSubtractsStrict ==
    /\ wpc = "sub"
    /\ pending' = pending - amount
    /\ IF pending > Soft /\ Max0(pending - amount) < Soft
         THEN wpc' = "notify" /\ UNCHANGED after
         ELSE WriterResumes
    /\ amount' = 0
    /\ UNCHANGED <<queued, sender, gone, waiting, pushVars, closeVars, pc, batch, wake>>

\* drained, the fetch_sub and the test for crossing the threshold.
DrainedSubtracts ==
    /\ wpc = "sub"
    /\ pending' = pending - amount
    /\ IF pending > Soft /\ Max0(pending - amount) <= Soft
         THEN wpc' = "notify" /\ UNCHANGED after
         ELSE WriterResumes
    /\ amount' = 0
    /\ UNCHANGED <<queued, sender, gone, waiting, pushVars, closeVars, pc, batch, wake>>

DrainedNotifies ==
    /\ wpc = "notify"
    /\ waiting' = {}
    /\ WriterResumes
    /\ UNCHANGED <<pending, queued, sender, gone, pushVars, closeVars, pc, batch,
                   amount, wake>>

\* close, close_now: the writer gives the connection up.
WriterCloses ==
    /\ wpc \in {"fail", "deadline"}
    /\ IF closed
         THEN wpc' = "dead" /\ UNCHANGED closeVars
         ELSE wpc' = "closing" /\ BeginFinish("writer", wpc = "deadline")
    /\ UNCHANGED <<queueVars, pushVars, pc, batch, amount, after, wake>>

-----------------------------------------------------------------------------

\* What a queueing task does on its own once it started.
TaskStep(t) ==
    \/ PushAdd(t) \/ PushNoSender(t) \/ PushReject(t) \/ PushSend(t)
    \/ PushNoReceiver(t)
    \/ StallCheckClosed(t) \/ RoomGone(t) \/ RoomPendingFirst(t)
    \/ RoomPendingAgain(t) \/ Wake(t) \/ RoomPendingAfter(t) \/ RecheckClosed(t)
    \/ CloseSlowConsumer(t)

FinishStep ==
    \/ FinishFlags \/ FinishSeals \/ FinishGone \/ FinishZeroes
    \/ FinishNotifies \/ FinishWakes

OwnerStep == OwnerLeaves \/ SpawnDropsSender

WriterStep ==
    \/ WriterReceives \/ WriterSeesEnd \/ WriterTop \/ WriterWrites
    \/ WriterFails \/ WriterDeadline \/ WriterWakes
    \/ DrainedChecksGone \/ DrainedSubtracts \/ DrainedNotifies \/ WriterCloses

Next ==
    \/ \E t \in Tasks : StartDeliver(t) \/ DropOnClosed(t) \/ TaskStep(t)
    \/ StartControl \/ OwnerCloses
    \/ OwnerStep
    \/ FinishStep
    \/ WriterStep

Spec == Init /\ [][Next]_vars

\* Tasks that can run are run, and the write deadline bounds every write; no
\* client is obliged to publish, to read or to hang up.
FairSpec ==
    /\ Spec
    /\ \A t \in Tasks : WF_vars(TaskStep(t))
    /\ WF_vars(FinishStep) /\ WF_vars(OwnerStep) /\ WF_vars(WriterStep)

-----------------------------------------------------------------------------
(* Properties.                                                             *)

\* push compares `pending` with the limit before it sends, and the writer's
\* drains run outside the queue lock: whatever they interleave with, the
\* bytes held for one client never exceed max_pending.
HardBound == queued + batch + amount <= Hard

\* Until no_more_writes, `pending` counts exactly the bytes in the channel,
\* in the writer's hands and in the push under way: every path that gives a
\* frame up (a rejected push, a dead receiver, the exits of write_loop) takes
\* its bytes off once.
PendingExact ==
    ~gone => pending = queued + batch + amount + len

\* A push that will be, or was, rejected for a delivery: a close follows.
SlowConsumerFound ==
    \/ \E t \in Tasks : pc[t] = "slow"
    \/ holder # NoTask /\ Exceeds(before, Hard) /\ pc[holder] = "deliver"

\* A task waits on `space` and nobody has notified it.
Asleep(t) == pc[t] = "parked" /\ t \in waiting

\* The stall gate loses no wakeup (wait_for_space against drained, push and
\* no_more_writes): while a publisher sleeps, the queue is over the stall
\* threshold, or a notify, or the close that ends in one, is on its way.
NoLostWakeup ==
    (\E t \in Tasks : Asleep(t)) =>
        \/ pending > Soft
        \/ wpc = "notify"
        \/ SlowConsumerFound
        \/ closed /\ fin \notin {"notified", "done"}

\* A publisher parked on a subscriber's stall gate gets off it: the queue
\* drains, or the write deadline closes the subscriber.
ParkedProceeds ==
    \A t \in Tasks : pc[t] = "parked" ~> pc[t] # "parked"

\* Once a connection is closed, by whichever task, finish runs to its end,
\* the writer exits, the reader leaves and no publisher stays stalled on it.
CloseCompletes ==
    closed ~> /\ fin = "done" /\ wpc = "dead" /\ pc[Owner] = "ended"
              /\ \A t \in Tasks \ {Owner} : pc[t] = "idle"

\* A delivery that passed the is_closed test and then waited for the queue
\* lock does not reach the queue of a connection that is gone: nothing is
\* queued, and so nothing is counted, after no_more_writes.
NothingQueuedOnceGone == [][gone => queued' <= queued]_vars

\* "at 75 % the publishing task stalls until the subscriber drains"
\* (client.rs:14): nobody sleeps on the gate of an open connection whose
\* queue has drained completely.
NoSleepOnDrainedQueue ==
    pending = 0 /\ (\E t \in Tasks : Asleep(t)) =>
        wpc = "notify" \/ SlowConsumerFound \/ closed

\* The comment in drained: subtracting after the close zeroed the counter
\* "would wrap a `usize`".
PendingNeverWraps == pending >= 0
=============================================================================
