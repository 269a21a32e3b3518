---------------------------- MODULE OutboxProofs ----------------------------
(***************************************************************************)
(* Proofs about Outbox: the byte accounting, the bound on the memory held  *)
(* for one client, and, for connections whose control frames are never     *)
(* queued, the absence of lost wakeups on the stall gate.                  *)
(***************************************************************************)
EXTENDS Outbox, TLAPS

\* The queue lock: its holder is inside push, and the sender cannot be
\* dropped under it.
LockInv ==
    /\ holder # NoTask => sender /\ pc[holder] \in {"deliver", "control"}
    /\ holder = NoTask => len = 0

\* The stages of finish and the flags it sets.
CloseInv ==
    /\ gone <=> fin \in {"gone", "zeroed", "notified", "done"}
    /\ closed <=> fin # "open"
    /\ fin = "open" => closer = NoTask
    /\ fin \in {"sealed", "gone", "zeroed", "notified", "done"} => ~sender

\* A push that compared its `before` with the limit did so when the bytes
\* were at least as many as they are now.
PushInv == holder # NoTask => queued + batch + amount + len <= before

\* What the writer's place says about its two counts.
WriterInv ==
    /\ wpc \notin {"drain", "sub"} => amount = 0
    /\ wpc = "recv" => batch = 0
    /\ closer = "writer" <=> wpc = "closing"

BytesInv ==
    TypeOK /\ LockInv /\ CloseInv /\ PushInv /\ WriterInv /\ PendingExact /\ HardBound

\* What the wakeup argument needs besides: after the close's notify only a
\* task that has yet to look at `gone` is registered, and a writer that is
\* dead, or on its way there without calling close, left a closed connection.
WakeInv ==
    /\ NoLostWakeup
    /\ \A t \in Tasks : pc[t] # "control"
    /\ fin \in {"notified", "done"} => \A t \in waiting : pc[t] = "gone2"
    /\ wpc = "dead" => closed
    /\ after = "dead" => closed
    /\ hard => closed
    /\ closer \in Tasks => pc[closer] = "closing"

\* The stall threshold is a natural number below the limit.
LEMMA SoftNat == Soft \in Nat
  BY OutboxAssumption DEF Soft

\* The bytes are accounted for when the connection is accepted.
LEMMA BytesInit == Init => BytesInv
<1> SUFFICES ASSUME Init PROVE BytesInv
  OBVIOUS
<1>1. /\ sender \in BOOLEAN /\ gone \in BOOLEAN /\ wake \in BOOLEAN
      /\ closed \in BOOLEAN /\ hard \in BOOLEAN /\ soft \in BOOLEAN
  BY Zenon DEF Init
<1> QED
  BY <1>1, OutboxAssumption
  DEF Init, BytesInv, TypeOK, LockInv, CloseInv, PushInv, WriterInv, PendingExact, HardBound,
      TaskPC, FinStages, WriterPC

USE DEF TaskPC, FinStages, WriterPC

\* Every step keeps the bytes accounted for.
LEMMA BytesStep == BytesInv /\ [Next]_vars => BytesInv'
<1> SUFFICES ASSUME BytesInv, [Next]_vars
             PROVE  BytesInv'
  OBVIOUS
<1> USE OutboxAssumption, SoftNat
         DEF BytesInv, TypeOK, LockInv, CloseInv, PushInv, WriterInv, PendingExact, HardBound,
             Goto, Exceeds, queueVars, pushVars, closeVars, writerVars, vars
<1>1. ASSUME NEW t \in Tasks, StartDeliver(t) PROVE BytesInv'
  BY <1>1 DEF StartDeliver
<1>2. ASSUME NEW t \in Tasks, DropOnClosed(t) PROVE BytesInv'
  BY <1>2 DEF DropOnClosed
<1>3. ASSUME NEW t \in Tasks, PushAdd(t) PROVE BytesInv'
  BY <1>3 DEF PushAdd
<1>4. ASSUME NEW t \in Tasks, PushNoSender(t) PROVE BytesInv'
  BY <1>4 DEF PushNoSender
<1>5. ASSUME NEW t \in Tasks, PushReject(t) PROVE BytesInv'
  BY <1>5 DEF PushReject, Unlock
<1>6. ASSUME NEW t \in Tasks, PushSend(t) PROVE BytesInv'
  BY <1>6 DEF PushSend, Unlock
<1>7. ASSUME NEW t \in Tasks, PushNoReceiver(t) PROVE BytesInv'
  BY <1>7 DEF PushNoReceiver, Unlock
<1>8. ASSUME NEW t \in Tasks, StallCheckClosed(t) PROVE BytesInv'
  BY <1>8 DEF StallCheckClosed
<1>9. ASSUME NEW t \in Tasks, RoomGone(t) PROVE BytesInv'
  BY <1>9 DEF RoomGone
<1>10. ASSUME NEW t \in Tasks, RoomPendingFirst(t) PROVE BytesInv'
  BY <1>10 DEF RoomPendingFirst
<1>11. ASSUME NEW t \in Tasks, RoomPendingAgain(t) PROVE BytesInv'
  BY <1>11 DEF RoomPendingAgain
<1>12. ASSUME NEW t \in Tasks, Wake(t) PROVE BytesInv'
  BY <1>12 DEF Wake
<1>13. ASSUME NEW t \in Tasks, RoomPendingAfter(t) PROVE BytesInv'
  BY <1>13 DEF RoomPendingAfter
<1>14. ASSUME NEW t \in Tasks, RecheckClosed(t) PROVE BytesInv'
  BY <1>14 DEF RecheckClosed
<1>15. ASSUME NEW t \in Tasks, CloseSlowConsumer(t) PROVE BytesInv'
  <2>1. soft' \in BOOLEAN
    BY <1>15, Zenon DEF CloseSlowConsumer, BeginFinish
  <2>2. CASE closed
    BY <1>15, <2>1, <2>2 DEF CloseSlowConsumer
  <2>3. CASE ~closed
    BY <1>15, <2>1, <2>3 DEF CloseSlowConsumer, BeginFinish
  <2> QED
    BY <2>2, <2>3
<1>16. ASSUME StartControl PROVE BytesInv'
  BY <1>16 DEF StartControl
<1>17. ASSUME OwnerCloses PROVE BytesInv'
  BY <1>17 DEF OwnerCloses, BeginFinish
<1>18. ASSUME OwnerLeaves PROVE BytesInv'
  BY <1>18 DEF OwnerLeaves
<1>19. ASSUME SpawnDropsSender PROVE BytesInv'
  <2>1. sender' \in BOOLEAN
    BY <1>19, Zenon DEF SpawnDropsSender
  <2> QED
    BY <1>19, <2>1 DEF SpawnDropsSender
<1>20. ASSUME FinishFlags PROVE BytesInv'
  BY <1>20 DEF FinishFlags
<1>21. ASSUME FinishSeals PROVE BytesInv'
  <2>1. sender' \in BOOLEAN
    BY <1>21, Zenon DEF FinishSeals
  <2> QED
    BY <1>21, <2>1 DEF FinishSeals
<1>22. ASSUME FinishGone PROVE BytesInv'
  BY <1>22 DEF FinishGone
<1>23. ASSUME FinishZeroes PROVE BytesInv'
  BY <1>23 DEF FinishZeroes
<1>24. ASSUME FinishNotifies PROVE BytesInv'
  BY <1>24 DEF FinishNotifies
<1>25. ASSUME FinishWakes PROVE BytesInv'
  BY <1>25 DEF FinishWakes
<1>26. ASSUME WriterReceives PROVE BytesInv'
  BY <1>26 DEF WriterReceives
<1>27. ASSUME WriterSeesEnd PROVE BytesInv'
  BY <1>27 DEF WriterSeesEnd
<1>28. ASSUME WriterTop PROVE BytesInv'
  <2>1. wake' \in BOOLEAN
    BY <1>28, Zenon DEF WriterTop, CallDrained
  <2> QED
    BY <1>28, <2>1 DEF WriterTop, CallDrained
<1>29. ASSUME WriterWrites PROVE BytesInv'
  <2>1. wake' \in BOOLEAN
    BY <1>29, Zenon DEF WriterWrites, CallDrained
  <2> QED
    BY <1>29, <2>1 DEF WriterWrites, CallDrained
<1>30. ASSUME WriterFails PROVE BytesInv'
  <2>1. wake' \in BOOLEAN
    BY <1>30, Zenon DEF WriterFails, CallDrained
  <2> QED
    BY <1>30, <2>1 DEF WriterFails, CallDrained
<1>31. ASSUME WriterDeadline PROVE BytesInv'
  <2>1. wake' \in BOOLEAN
    BY <1>31, Zenon DEF WriterDeadline, CallDrained
  <2> QED
    BY <1>31, <2>1 DEF WriterDeadline, CallDrained
<1>32. ASSUME WriterWakes PROVE BytesInv'
  <2>1. wake' \in BOOLEAN
    BY <1>32, Zenon DEF WriterWakes, CallDrained
  <2> QED
    BY <1>32, <2>1 DEF WriterWakes, CallDrained
<1>33. ASSUME DrainedChecksGone PROVE BytesInv'
  BY <1>33 DEF DrainedChecksGone, WriterResumes
<1>34. ASSUME DrainedSubtracts PROVE BytesInv'
  BY <1>34 DEF DrainedSubtracts, WriterResumes
<1>35. ASSUME DrainedNotifies PROVE BytesInv'
  BY <1>35 DEF DrainedNotifies, WriterResumes
<1>36. ASSUME WriterCloses PROVE BytesInv'
  <2>1. soft' \in BOOLEAN
    BY <1>36, Zenon DEF WriterCloses, BeginFinish
  <2>2. CASE closed
    BY <1>36, <2>1, <2>2 DEF WriterCloses
  <2>3. CASE ~closed
    BY <1>36, <2>1, <2>3 DEF WriterCloses, BeginFinish
  <2> QED
    BY <2>2, <2>3
<1>37. CASE UNCHANGED vars
  BY <1>37
<1> QED
  BY <1>1, <1>2, <1>3, <1>4, <1>5, <1>6, <1>7, <1>8, <1>9, <1>10, <1>11, <1>12, <1>13, <1>14, <1>15, <1>16, <1>17, <1>18, <1>19, <1>20, <1>21, <1>22, <1>23, <1>24, <1>25, <1>26, <1>27, <1>28, <1>29, <1>30, <1>31, <1>32, <1>33, <1>34, <1>35, <1>36, <1>37
  DEF Next, TaskStep, OwnerStep, FinishStep, WriterStep

\* Type correctness of the outbox model.
THEOREM OutboxTypeCorrect == Spec => []TypeOK
<1>1. BytesInv => TypeOK
  BY DEF BytesInv
<1> QED
  BY <1>1, BytesInit, BytesStep, PTL DEF Spec

\* For any number of publishers, any max_pending and any frame lengths, `pending`
\* is the bytes queued and not yet written, until the close.
THEOREM OutboxPendingExact == Spec => []PendingExact
<1>1. BytesInv => PendingExact
  BY DEF BytesInv
<1> QED
  BY <1>1, BytesInit, BytesStep, PTL DEF Spec

\* Likewise the bytes queued for one client never exceed max_pending.
THEOREM OutboxHardBound == Spec => []HardBound
<1>1. BytesInv => HardBound
  BY DEF BytesInv
<1> QED
  BY <1>1, BytesInit, BytesStep, PTL DEF Spec

\* Nothing reaches the queue of a connection after no_more_writes: a push
\* holds the queue lock, and under the lock the sender was there.
THEOREM OutboxSealed == Spec => NothingQueuedOnceGone
<1>1. BytesInv /\ [Next]_vars => [gone => queued' <= queued]_vars
  <2> SUFFICES ASSUME BytesInv, [Next]_vars, gone
               PROVE  queued' <= queued
    OBVIOUS
  <2>1. holder = NoTask
    BY DEF BytesInv, LockInv, CloseInv, TypeOK
  <2>2. CASE \E t \in Tasks : PushSend(t)
    BY <2>1, <2>2, OutboxAssumption DEF PushSend
  <2>3. CASE WriterReceives
    BY <2>3 DEF WriterReceives, BytesInv, TypeOK
  <2>4. CASE UNCHANGED queued
    BY <2>4 DEF BytesInv, TypeOK
  <2>5. \/ \E t \in Tasks : PushSend(t)
        \/ WriterReceives
        \/ UNCHANGED queued
    BY DEF Next, TaskStep, OwnerStep, FinishStep, WriterStep, StartDeliver,
           DropOnClosed, PushAdd, PushNoSender, PushReject, PushNoReceiver,
           StallCheckClosed, RoomGone, RoomPendingFirst, RoomPendingAgain, Wake,
           RoomPendingAfter, RecheckClosed, CloseSlowConsumer, StartControl,
           OwnerCloses, OwnerLeaves, SpawnDropsSender, FinishFlags, FinishSeals,
           FinishGone, FinishZeroes, FinishNotifies, FinishWakes, WriterSeesEnd,
           WriterTop, WriterWrites, WriterFails, WriterDeadline, WriterWakes,
           DrainedChecksGone, DrainedSubtracts, DrainedNotifies, WriterCloses,
           queueVars, vars
  <2> QED
    BY <2>2, <2>3, <2>4, <2>5
<1> QED
  BY <1>1, BytesInit, BytesStep, PTL DEF Spec, NothingQueuedOnceGone

-----------------------------------------------------------------------------

\* Nobody sleeps on the gate of a connection just accepted.
LEMMA WakeInit == Init => WakeInv
  BY OutboxAssumption, SoftNat
  DEF Init, WakeInv, NoLostWakeup, Asleep, SlowConsumerFound

\* Every step keeps the reason to sleep, or the wakeup on its way.
LEMMA WakeStep ==
  ASSUME ControlLens = {}
  PROVE  BytesInv /\ WakeInv /\ [Next]_vars => WakeInv'
<1> SUFFICES ASSUME BytesInv, WakeInv, [Next]_vars
             PROVE  WakeInv'
  OBVIOUS
<1> USE OutboxAssumption, SoftNat
         DEF BytesInv, TypeOK, LockInv, CloseInv, PushInv, WriterInv, PendingExact,
             HardBound, WakeInv, NoLostWakeup, Asleep, SlowConsumerFound, Goto, Exceeds,
             queueVars, pushVars, closeVars, writerVars, vars
<1>1. ASSUME NEW t \in Tasks, StartDeliver(t) PROVE WakeInv'
  BY <1>1 DEF StartDeliver
<1>2. ASSUME NEW t \in Tasks, DropOnClosed(t) PROVE WakeInv'
  BY <1>2 DEF DropOnClosed
<1>3. ASSUME NEW t \in Tasks, PushAdd(t) PROVE WakeInv'
  BY <1>3 DEF PushAdd
<1>4. ASSUME NEW t \in Tasks, PushNoSender(t) PROVE WakeInv'
  BY <1>4 DEF PushNoSender
<1>5. ASSUME NEW t \in Tasks, PushReject(t) PROVE WakeInv'
  BY <1>5 DEF PushReject, Unlock
<1>6. ASSUME NEW t \in Tasks, PushSend(t) PROVE WakeInv'
  BY <1>6 DEF PushSend, Unlock
<1>7. ASSUME NEW t \in Tasks, PushNoReceiver(t) PROVE WakeInv'
  BY <1>7 DEF PushNoReceiver, Unlock
<1>8. ASSUME NEW t \in Tasks, StallCheckClosed(t) PROVE WakeInv'
  BY <1>8 DEF StallCheckClosed
<1>9. ASSUME NEW t \in Tasks, RoomGone(t) PROVE WakeInv'
  BY <1>9 DEF RoomGone
<1>10. ASSUME NEW t \in Tasks, RoomPendingFirst(t) PROVE WakeInv'
  BY <1>10 DEF RoomPendingFirst
<1>11. ASSUME NEW t \in Tasks, RoomPendingAgain(t) PROVE WakeInv'
  BY <1>11 DEF RoomPendingAgain
<1>12. ASSUME NEW t \in Tasks, Wake(t) PROVE WakeInv'
  BY <1>12 DEF Wake
<1>13. ASSUME NEW t \in Tasks, RoomPendingAfter(t) PROVE WakeInv'
  BY <1>13 DEF RoomPendingAfter
<1>14. ASSUME NEW t \in Tasks, RecheckClosed(t) PROVE WakeInv'
  BY <1>14 DEF RecheckClosed
<1>15. ASSUME NEW t \in Tasks, CloseSlowConsumer(t) PROVE WakeInv'
  BY <1>15 DEF CloseSlowConsumer, BeginFinish
<1>16. ASSUME StartControl PROVE WakeInv'
  BY <1>16 DEF StartControl
<1>17. ASSUME OwnerCloses PROVE WakeInv'
  BY <1>17 DEF OwnerCloses, BeginFinish
<1>18. ASSUME OwnerLeaves PROVE WakeInv'
  BY <1>18 DEF OwnerLeaves
<1>19. ASSUME SpawnDropsSender PROVE WakeInv'
  BY <1>19 DEF SpawnDropsSender
<1>20. ASSUME FinishFlags PROVE WakeInv'
  BY <1>20 DEF FinishFlags
<1>21. ASSUME FinishSeals PROVE WakeInv'
  BY <1>21 DEF FinishSeals
<1>22. ASSUME FinishGone PROVE WakeInv'
  BY <1>22 DEF FinishGone
<1>23. ASSUME FinishZeroes PROVE WakeInv'
  BY <1>23 DEF FinishZeroes
<1>24. ASSUME FinishNotifies PROVE WakeInv'
  BY <1>24 DEF FinishNotifies
<1>25. ASSUME FinishWakes PROVE WakeInv'
  BY <1>25 DEF FinishWakes
<1>26. ASSUME WriterReceives PROVE WakeInv'
  BY <1>26 DEF WriterReceives
<1>27. ASSUME WriterSeesEnd PROVE WakeInv'
  BY <1>27 DEF WriterSeesEnd
<1>28. ASSUME WriterTop PROVE WakeInv'
  BY <1>28 DEF WriterTop, CallDrained
<1>29. ASSUME WriterWrites PROVE WakeInv'
  BY <1>29 DEF WriterWrites, CallDrained
<1>30. ASSUME WriterFails PROVE WakeInv'
  BY <1>30 DEF WriterFails, CallDrained
<1>31. ASSUME WriterDeadline PROVE WakeInv'
  BY <1>31 DEF WriterDeadline, CallDrained
<1>32. ASSUME WriterWakes PROVE WakeInv'
  BY <1>32 DEF WriterWakes, CallDrained
<1>33. ASSUME DrainedChecksGone PROVE WakeInv'
  BY <1>33 DEF DrainedChecksGone, WriterResumes
<1>34. ASSUME DrainedSubtracts PROVE WakeInv'
  BY <1>34 DEF DrainedSubtracts, WriterResumes, Max0
<1>35. ASSUME DrainedNotifies PROVE WakeInv'
  BY <1>35 DEF DrainedNotifies, WriterResumes
<1>36. ASSUME WriterCloses PROVE WakeInv'
  BY <1>36 DEF WriterCloses, BeginFinish
<1>37. CASE UNCHANGED vars
  BY <1>37
<1> QED
  BY <1>1, <1>2, <1>3, <1>4, <1>5, <1>6, <1>7, <1>8, <1>9, <1>10, <1>11, <1>12, <1>13, <1>14, <1>15, <1>16, <1>17, <1>18, <1>19, <1>20, <1>21, <1>22, <1>23, <1>24, <1>25, <1>26, <1>27, <1>28, <1>29, <1>30, <1>31, <1>32, <1>33, <1>34, <1>35, <1>36, <1>37
  DEF Next, TaskStep, OwnerStep, FinishStep, WriterStep

\* The stall gate loses no wakeup, for any number of publishers, any limit
\* and any frame lengths, on a connection whose own task queues no control
\* frame behind the publishers' backs.
THEOREM OutboxNoLostWakeup ==
  ASSUME ControlLens = {}
  PROVE  Spec => []NoLostWakeup
<1>1. WakeInv => NoLostWakeup
  BY DEF WakeInv
<1>2. BytesInv /\ WakeInv /\ [Next]_vars => WakeInv'
  BY WakeStep
<1> QED
  BY <1>1, <1>2, BytesInit, BytesStep, WakeInit, PTL DEF Spec
=============================================================================
