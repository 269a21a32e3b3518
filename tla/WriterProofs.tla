---------------------------- MODULE WriterProofs ----------------------------
(***************************************************************************)
(* Theorems about module Writer, for every set of frame lengths and every  *)
(* batch limit: the shape of the state whatever the socket does, and, until *)
(* the write of a single buffer is cut or cancelled, that the bytes on the  *)
(* wire are the bytes queued, up to the last one when the close is soft.    *)
(* And about module Arena, for every size of a chunk: how much memory the   *)
(* frames a client has not taken yet keep alive.                            *)
(***************************************************************************)
EXTENDS Arena, FiniteSetTheorems, TLAPS

\* What the type rests on: the bytes left in the batch are accounted for, and
\* an empty batch is one the writer is done with.
Accounted ==
    /\ TypeOK
    /\ hi - lo <= batch
    /\ wpc = "recv" => lo = hi /\ batch = 0

\* A write moves the front of the batch over what it took, and never past the end.
LEMMA ConsumedBounds ==
    ASSUME NEW n \in 1..(hi - lo), lo \in Nat, hi \in Nat
    PROVE  Consumed(Advanced(n), n) \in (lo + n)..hi
BY DEF Consumed, Advanced

\* The flags are Booleans: a fact of its own because the provers do arithmetic and
\* Boolean values apart.
Flags ==
    /\ sender \in BOOLEAN /\ closed \in BOOLEAN /\ hard \in BOOLEAN
    /\ woken \in BOOLEAN /\ broken \in BOOLEAN

\* Every step keeps the flags Boolean.
LEMMA NextFlags == Flags /\ [Next]_vars => Flags'
<1> SUFFICES ASSUME Flags, [Next]_vars PROVE Flags'
    OBVIOUS
<1> USE DEF Flags, queueVars, flagVars, batchVars
<1>1. ASSUME NEW n \in FrameLens, Enqueue(n) PROVE Flags'
  BY <1>1, Zenon DEF Enqueue
<1>2. ASSUME NEW h \in BOOLEAN, FinishMarks(h) PROVE Flags'
  BY <1>2, Zenon DEF FinishMarks
<1>3. CASE FinishSeals
  BY <1>3, Zenon DEF FinishSeals
<1>4. CASE Receive \/ ReceiveEnd \/ BatchDone \/ HardStop \/ WriteNothing \/ WriteStart
  BY <1>4, Zenon DEF Receive, ReceiveEnd, BatchDone, HardStop, WriteNothing, WriteStart
<1>5. ASSUME NEW n \in 1..MaxTail, WriteTakes(n) PROVE Flags'
  BY <1>5, Zenon DEF WriteTakes
<1>6. CASE WriteInterrupted \/ WriteCancelled \/ WriteFails
  BY <1>6, Zenon DEF WriteInterrupted, WriteCancelled, WriteFails
<1>7. CASE WriteDeadline
  BY <1>7, Zenon DEF WriteDeadline
<1>8. CASE UNCHANGED vars
  BY <1>8, Zenon DEF vars
<1> QED
  BY <1>1, <1>2, <1>3, <1>4, <1>5, <1>6, <1>7, <1>8 DEF Next, Goes, WriterStep, WriteEnds

\* A new writer has nothing to account for.
LEMMA InitAccounted == Init => Accounted
<1> SUFFICES ASSUME Init PROVE Accounted
    OBVIOUS
<1>1. Flags
  BY Zenon DEF Init, Flags
<1> QED
  BY <1>1, WriterAssumption DEF Init, Flags, Accounted, TypeOK, WriterAssumption

\* Every step keeps the batch accounted for.
LEMMA NextAccounted == Accounted /\ [Next]_vars => Accounted'
<1> SUFFICES ASSUME Accounted, [Next]_vars PROVE Accounted'
    OBVIOUS
<1>f. Flags'
  BY NextFlags DEF Accounted, TypeOK, Flags
<1> USE WriterAssumption, <1>f
    DEF Flags, Accounted, TypeOK, WriterAssumption, queueVars, flagVars, batchVars
<1>1. ASSUME NEW n \in FrameLens, Enqueue(n) PROVE Accounted'
  BY <1>1 DEF Enqueue
<1>2. ASSUME NEW h \in BOOLEAN, FinishMarks(h) PROVE Accounted'
  BY <1>2 DEF FinishMarks
<1>3. CASE FinishSeals
  BY <1>3 DEF FinishSeals
<1>4. CASE Receive
  BY <1>4 DEF Receive, Batchable
<1>5. CASE ReceiveEnd
  BY <1>5 DEF ReceiveEnd
<1>6. CASE BatchDone
  BY <1>6 DEF BatchDone
<1>7. CASE HardStop
  BY <1>7 DEF HardStop
<1>8. CASE WriteNothing
  BY <1>8 DEF WriteNothing
<1>9. CASE WriteStart
  BY <1>9 DEF WriteStart
<1>10. ASSUME NEW n \in 1..MaxTail, WriteTakes(n) PROVE Accounted'
  <2>1. n \in 1..(hi - lo) /\ lo' \in (lo + n)..hi
    BY <1>10, ConsumedBounds DEF WriteTakes
  <2> QED
    BY <1>10, <2>1 DEF WriteTakes, Harmed
<1>11. CASE WriteInterrupted
  BY <1>11 DEF WriteInterrupted
<1>12. CASE WriteCancelled
  BY <1>12 DEF WriteCancelled, Pending, Harmed
<1>13. CASE WriteFails
  BY <1>13 DEF WriteFails
<1>14. CASE WriteDeadline
  BY <1>14 DEF WriteDeadline
<1>15. CASE UNCHANGED vars
  BY <1>15 DEF vars
<1> QED
  BY <1>1, <1>2, <1>3, <1>4, <1>5, <1>6, <1>7, <1>8, <1>9, <1>10, <1>11, <1>12,
     <1>13, <1>14, <1>15 DEF Next, Goes, WriterStep, WriteEnds

\* Whatever the socket does, the batch stays inside the queue and batch_bytes,
\* which the code keeps in a usize, never goes below zero.
THEOREM WriterTypeCorrect == Spec => []TypeOK
<1>1. Accounted => TypeOK
  BY DEF Accounted
<1> QED
  BY <1>1, InitAccounted, NextAccounted, PTL DEF Spec

-----------------------------------------------------------------------------

\* Until a single buffer is harmed, the batch starts where the wire ends, and a
\* writer that ended in peace had nothing left.
Contiguous ==
    /\ Accounted
    /\ hard => closed
    /\ harm = "none" =>
         /\ wire = 1..lo
         /\ batch = hi - lo
         /\ wpc = "done" /\ ~hard /\ ~broken => lo = tail /\ ~sender

\* A new connection has nothing on the wire.
LEMMA InitContiguous == Init => Contiguous
BY InitAccounted DEF Init, Contiguous

\* Every step extends the wire by what follows it.
LEMMA NextContiguous == Contiguous /\ [Next]_vars => Contiguous'
<1> SUFFICES ASSUME Contiguous, [Next]_vars PROVE Contiguous'
    OBVIOUS
<1>a. Accounted'
  BY NextAccounted DEF Contiguous
<1> USE WriterAssumption, <1>a
    DEF Contiguous, Accounted, TypeOK, WriterAssumption, queueVars, flagVars, batchVars
<1>1. ASSUME NEW n \in FrameLens, Enqueue(n) PROVE Contiguous'
  BY <1>1 DEF Enqueue
<1>2. ASSUME NEW h \in BOOLEAN, FinishMarks(h) PROVE Contiguous'
  BY <1>2 DEF FinishMarks
<1>3. CASE FinishSeals
  BY <1>3 DEF FinishSeals
<1>4. CASE Receive
  BY <1>4 DEF Receive, Batchable
<1>5. CASE ReceiveEnd
  BY <1>5 DEF ReceiveEnd
<1>6. CASE BatchDone
  BY <1>6 DEF BatchDone
<1>7. CASE HardStop
  BY <1>7 DEF HardStop
<1>8. CASE WriteNothing
  BY <1>8 DEF WriteNothing
<1>9. CASE WriteStart
  BY <1>9 DEF WriteStart
<1>10. ASSUME NEW n \in 1..MaxTail, WriteTakes(n) PROVE Contiguous'
  <2>0. CASE harm' # "none"
    BY <1>10, <2>0 DEF WriteTakes
  <2>1. CASE harm' = "none"
    <3>1. n \in 1..(hi - lo) /\ harm = "none" /\ Advanced(n) = lo
      BY <1>10, <2>1 DEF WriteTakes, Advanced, Harmed
    <3>2. lo' = lo + n
      BY <1>10, <3>1 DEF WriteTakes, Consumed
    <3>3. wire' = 1..(lo + n)
      BY <1>10, <3>1 DEF WriteTakes
    <3> QED
      BY <1>10, <3>1, <3>2, <3>3 DEF WriteTakes
  <2> QED
    BY <2>0, <2>1
<1>11. CASE WriteInterrupted
  BY <1>11 DEF WriteInterrupted
<1>12. CASE WriteCancelled
  BY <1>12 DEF WriteCancelled, Pending, Harmed
<1>13. CASE WriteFails
  BY <1>13 DEF WriteFails
<1>14. CASE WriteDeadline
  BY <1>14 DEF WriteDeadline
<1>15. CASE UNCHANGED vars
  BY <1>15 DEF vars
<1> QED
  BY <1>1, <1>2, <1>3, <1>4, <1>5, <1>6, <1>7, <1>8, <1>9, <1>10, <1>11, <1>12,
     <1>13, <1>14, <1>15 DEF Next, Goes, WriterStep, WriteEnds

\* What the invariant says in the terms of the properties.
LEMMA ContiguousMeans ==
    ASSUME Contiguous
    PROVE  ResumesExactly /\ SoftCloseDrains /\ BatchExact
<1> SUFFICES ASSUME harm = "none" PROVE WireIsPrefix /\ Drained /\ BatchExact
  BY DEF ResumesExactly, SoftCloseDrains, BatchExact
<1>1. lo \in Nat /\ wire = 1..lo
  BY WriterAssumption DEF Contiguous, Accounted, TypeOK, WriterAssumption
<1>2. Cardinality(1..lo) = lo
  BY <1>1, FS_Interval
<1> QED
  BY <1>1, <1>2 DEF Contiguous, WireIsPrefix, Drained, BatchExact

\* Until the write of a single buffer is cut or cancelled, partial writes are
\* resumed exactly where the kernel stopped (consume).
THEOREM WriterResumesExactly == Spec => []ResumesExactly
BY ContiguousMeans, InitContiguous, NextContiguous, PTL DEF Spec

\* Until then, a soft close flushes everything that was queued before it.
THEOREM WriterSoftCloseDrains == Spec => []SoftCloseDrains
BY ContiguousMeans, InitContiguous, NextContiguous, PTL DEF Spec

\* Until then, batch_bytes of write_batch is what the batch still holds.
THEOREM WriterBatchExact == Spec => []BatchExact
BY ContiguousMeans, InitContiguous, NextContiguous, PTL DEF Spec

-----------------------------------------------------------------------------
(* The memory of the frames                                                *)

\* What the arena had used up after the frame that ends with byte e: all it had
\* asked for, but for the room still left.
Used(e) == at[e].asked - at[e].room

After(e) == {x \in ends : x > e}

\* The buffers are of the sizes that are asked for, and each frame laid down since
\* byte e used up its own length and less than its need of a chunk it did not fit.
ArenaInv ==
    /\ Accounted
    /\ tail \in ends \cup {0}
    /\ at \in [ends \cup {0} -> [size : Nat, room : Nat, asked : Nat]]
    /\ \A e \in ends \cup {0} : at[e].size <= Largest /\ at[e].room <= at[e].size
    /\ \A e \in ends \cup {0} :
          Used(tail) - Used(e) <= 2 * (tail - e) + Spare * Cardinality(After(e))

\* There is a largest buffer, and it holds whatever is asked for.
LEMMA LargestBuffer ==
    /\ Largest \in Nat /\ Chunk <= Largest
    /\ \A n \in FrameLens : n + Spare <= Largest
<1>1. Largest \in Buffers /\ \A x \in Buffers : x <= Largest
  BY ArenaAssumption, Zenon DEF ArenaAssumption, Largest
<1>2. Chunk \in Buffers /\ (\A n \in FrameLens : n + Spare \in Buffers)
  BY Zenon DEF Buffers
<1>3. Buffers \subseteq Nat
  BY ArenaAssumption, WriterAssumption DEF ArenaAssumption, WriterAssumption, Buffers
<1> QED BY <1>1, <1>2, <1>3, Zenon

\* A frame uses up its own length and, if it did not fit, the room that was left.
LEMMA PlacedUses ==
    ASSUME NEW a \in [size : Nat, room : Nat, asked : Nat], NEW n \in FrameLens,
           a.size <= Largest, a.room <= a.size
    PROVE  /\ Placed(a, n) \in [size : Nat, room : Nat, asked : Nat]
           /\ Placed(a, n).size <= Largest /\ Placed(a, n).room <= Placed(a, n).size
           /\ (Placed(a, n).asked - Placed(a, n).room) - (a.asked - a.room) <= 2 * n + Spare
<1>1. n \in Nat /\ Spare \in Nat /\ Chunk \in Nat /\ Largest \in Nat
      /\ Chunk <= Largest /\ n + Spare <= Largest
  BY LargestBuffer, ArenaAssumption, WriterAssumption DEF ArenaAssumption, WriterAssumption
<1>2. CASE a.room < n + Spare
  <2>1. PICK s \in Nat : s = IF n + Spare < Chunk THEN Chunk ELSE n + Spare
    BY <1>1
  <2>2. Placed(a, n) = [size |-> s, room |-> s - n, asked |-> a.asked + s]
    BY <1>2, <2>1, Zenon DEF Placed, Fresh
  <2>3. s <= Largest /\ n <= s
    BY <1>1, <2>1
  <2> QED BY <1>1, <1>2, <2>2, <2>3
<1>3. CASE ~(a.room < n + Spare)
  <2>1. Placed(a, n) = [size |-> a.size, room |-> a.room - n, asked |-> a.asked]
    BY <1>3 DEF Placed
  <2> QED BY <1>1, <1>3, <2>1
<1> QED BY <1>2, <1>3

\* What the arena adds leaves the steps of the writer alone.
LEMMA ArenaIsWriter == [ArenaNext]_arenaVars => [Next]_vars
BY Zenon DEF ArenaNext, Next, arenaVars

\* A new connection has asked for nothing.
LEMMA InitArena == ArenaInit => ArenaInv
<1> SUFFICES ASSUME ArenaInit PROVE ArenaInv
  BY Zenon
<1>1. Accounted /\ tail = 0 /\ ends = {} /\ at = [e \in {0} |-> NewArena]
  BY InitAccounted, Zenon DEF ArenaInit, Init
<1>2. Largest \in Nat /\ Spare \in Nat
  BY LargestBuffer, ArenaAssumption DEF ArenaAssumption
<1>3. Cardinality(After(0)) = 0
  <2>1. After(0) = {} BY <1>1, Zenon DEF After
  <2> QED BY <2>1, FS_EmptySet, Zenon
<1>4. Used(0) = 0 BY <1>1 DEF Used, NewArena
<1> QED BY <1>1, <1>2, <1>3, <1>4 DEF ArenaInv, NewArena

\* Every frame that is laid down keeps the account.
LEMMA LayArena ==
    ASSUME ArenaInv, NEW n \in FrameLens, Enqueue(n), Lay(n), Accounted'
    PROVE  ArenaInv'
<1>1. PICK t \in Nat, m \in Nat : t = tail /\ m = tail + n /\ n > 0 /\ n \in Nat
  BY WriterAssumption DEF ArenaInv, Accounted, TypeOK, WriterAssumption
<1>2. /\ tail' = m /\ ends' = ends \cup {m} /\ m = t + n
      /\ at' = [e \in ends \cup {0, m} |-> IF e = m THEN Placed(at[t], n) ELSE at[e]]
  BY <1>1, Zenon DEF Enqueue, Lay
<1>3. t \in ends \cup {0} /\ ends \subseteq 1..t /\ IsFiniteSet(ends)
  <2>1. t \in ends \cup {0} /\ ends \subseteq 1..t
    BY <1>1, Zenon DEF ArenaInv, Accounted, TypeOK
  <2>2. IsFiniteSet(1..t)
    BY <1>1, FS_Interval
  <2> QED BY <2>1, <2>2, FS_Subset, Zenon
<1>4. m \notin ends \cup {0} /\ \A e \in ends \cup {0} : e \in Nat /\ e <= t
  BY <1>1, <1>3
<1>5. PICK a : a = at[t]
  BY Zenon
<1>6. PICK p : p = Placed(a, n)
  BY Zenon
<1>7. at'[m] = p /\ (\A e \in ends \cup {0} : at'[e] = at[e])
  BY <1>2, <1>4, <1>5, <1>6, Zenon
<1>8. /\ a \in [size : Nat, room : Nat, asked : Nat] /\ a.size <= Largest /\ a.room <= a.size
      /\ \A e \in ends \cup {0} : /\ at[e] \in [size : Nat, room : Nat, asked : Nat]
                                 /\ at[e].size <= Largest /\ at[e].room <= at[e].size
  BY <1>1, <1>3, <1>5, Zenon DEF ArenaInv
<1>9. /\ p \in [size : Nat, room : Nat, asked : Nat] /\ p.size <= Largest /\ p.room <= p.size
      /\ (p.asked - p.room) - (a.asked - a.room) <= 2 * n + Spare
  BY <1>6, <1>8, PlacedUses, Zenon
<1>10. at' \in [ends' \cup {0} -> [size : Nat, room : Nat, asked : Nat]]
  BY <1>2, <1>7, <1>8, <1>9
<1>11. \A e \in ends' \cup {0} : at'[e].size <= Largest /\ at'[e].room <= at'[e].size
  BY <1>2, <1>7, <1>8, <1>9, Zenon
<1>12. Used(m)' = p.asked - p.room /\ (\A e \in ends \cup {0} : Used(e)' = Used(e))
       /\ Used(t) = a.asked - a.room
  BY <1>1, <1>5, <1>7, Zenon DEF Used
<1>13. ASSUME NEW e \in ends \cup {0}
       PROVE  Used(m)' - Used(e)' <= 2 * (m - e) + Spare * Cardinality(After(e)')
  <2>1. PICK k \in Nat : k = Cardinality(After(e)) /\ IsFiniteSet(After(e))
    <3>1. After(e) \subseteq ends BY Zenon DEF After
    <3> QED BY <1>3, <3>1, FS_Subset, FS_CardinalityType, Zenon
  <2>2. After(e)' = After(e) \cup {m} /\ m \notin After(e)
    <3>1. m > e BY <1>1, <1>2, <1>4
    <3> QED BY <1>2, <1>4, <3>1, Zenon DEF After
  <2>3. Cardinality(After(e)') = k + 1
    BY <2>1, <2>2, FS_AddElement, Zenon
  <2>4. PICK s \in Nat, u \in Int, v \in Int, w \in Int :
           s = Spare /\ u = Used(e) /\ v = Used(t) /\ w = Used(m)'
    BY <1>8, <1>9, <1>12, ArenaAssumption DEF ArenaAssumption, Used
  <2>5. v - u <= 2 * (t - e) + s * k
    BY <1>1, <2>1, <2>4, Zenon DEF ArenaInv
  <2>6. w - v <= 2 * n + s
    BY <1>9, <1>12, <2>4, Zenon
  <2>7. s * (k + 1) = s * k + s /\ s * k \in Nat
    BY <2>1, <2>4
  <2>8. e \in Nat BY <1>4
  <2>9. w - u <= 2 * (m - e) + (s * k + s)
    BY <1>1, <1>2, <2>5, <2>6, <2>7, <2>8
  <2> QED BY <1>12, <2>3, <2>4, <2>7, <2>9, Zenon
<1>14. Used(m)' - Used(m)' <= 2 * (m - m) + Spare * Cardinality(After(m)')
  <2>1. After(m)' = {}
    BY <1>1, <1>2, <1>4 DEF After
  <2>2. Cardinality(After(m)') = 0
    BY <2>1, FS_EmptySet, Zenon
  <2> QED BY <1>1, <1>9, <1>12, <2>2, ArenaAssumption DEF ArenaAssumption
<1> QED
  BY <1>2, <1>10, <1>11, <1>13, <1>14, Zenon DEF ArenaInv

\* A set of naturals that is not empty has a least element.
LEMMA Least ==
    ASSUME NEW T, T \subseteq Nat, T # {}
    PROVE  \E x \in T : \A y \in T : x <= y
<1> DEFINE R == OpToRel(<, Nat)
<1>1. \A x, y \in Nat : y < x => <<y, x>> \in R
  BY DEF OpToRel
<1> HIDE DEF R
<1>2. IsWellFoundedOn(R, Nat)
  BY NatLessThanWellFounded, Zenon DEF R
<1>3. PICK x \in T : \A y \in T : ~ (<<y, x>> \in R)
  BY <1>2, WFMin, Zenon
<1>4. \A y \in T : ~(y < x)
  BY <1>1, <1>3, Zenon
<1> QED BY <1>4

\* Every step keeps the account.
LEMMA NextArena == ArenaInv /\ [ArenaNext]_arenaVars => ArenaInv'
<1> SUFFICES ASSUME ArenaInv, [ArenaNext]_arenaVars PROVE ArenaInv'
  BY Zenon
<1>1. Accounted'
  BY NextAccounted, ArenaIsWriter, Zenon DEF ArenaInv
<1>2. ASSUME NEW n \in FrameLens, Enqueue(n), Lay(n) PROVE ArenaInv'
  BY <1>1, <1>2, LayArena, Zenon
<1>3. ASSUME UNCHANGED <<tail, ends, at>> PROVE ArenaInv'
  BY <1>1, <1>3, Zenon DEF ArenaInv, Used, After
<1>4. Goes => UNCHANGED <<tail, ends>>
  BY Zenon DEF Goes, FinishMarks, FinishSeals, WriteInterrupted, WriterStep, Receive, ReceiveEnd,
     BatchDone, HardStop, WriteNothing, WriteStart, WriteEnds, WriteFails, WriteDeadline,
     WriteCancelled, WriteTakes, queueVars
<1>5. UNCHANGED arenaVars => UNCHANGED <<tail, ends, at>>
  BY Zenon DEF arenaVars, vars, queueVars
<1> QED BY <1>2, <1>3, <1>4, <1>5, Zenon DEF ArenaNext

\* A client that takes its bytes slowly, or not at all, pins memory in proportion to
\* what it is owed, for every size of a chunk and all frame lengths: a chunk is left
\* unfilled only by less than the frame that did not fit (Arena::tail), and is given
\* up with its last frame.
THEOREM ArenaPinnedBound == ArenaSpec => []PinnedBound
<1>1. ASSUME ArenaInv PROVE PinnedBound
  <2>1. PICK t \in Nat, l \in Nat : t = tail /\ l = lo /\ l <= t
    BY <1>1, WriterAssumption DEF ArenaInv, Accounted, TypeOK, WriterAssumption
  <2>2. t \in ends \cup {0} /\ ends \subseteq 1..t
    BY <1>1, <2>1, Zenon DEF ArenaInv, Accounted, TypeOK
  <2>3. Held \subseteq ends /\ IsFiniteSet(Held) /\ Held \cup {t} \subseteq Nat
    <3>1. Held \subseteq ends BY Zenon DEF Held
    <3>2. IsFiniteSet(1..t) BY FS_Interval
    <3>3. Held \subseteq 1..t BY <2>2, <3>1, Zenon
    <3>4. IsFiniteSet(Held) BY <3>2, <3>3, FS_Subset, Zenon
    <3> QED BY <3>1, <3>3, <3>4
  <2>4. PICK f \in Held \cup {t} : f = First /\ \A x \in Held \cup {t} : f <= x
    <3>1. \E f \in Held \cup {tail} : \A x \in Held \cup {tail} : f <= x
      BY <2>1, <2>3, Least, Zenon
    <3>2. First \in Held \cup {tail} /\ \A x \in Held \cup {tail} : First <= x
      BY <3>1, Zenon DEF First
    <3> QED BY <2>1, <3>2, Zenon
  <2>5. f \in ends \cup {0} /\ f \in Nat /\ f <= t
    BY <2>2, <2>3, <2>4, Zenon
  <2>6. PICK h \in Nat, k \in Nat : h = Cardinality(Held) /\ k = Cardinality(After(f)) /\ k <= h
    <3>1. After(f) \subseteq Held
      <4>1. CASE f \in Held
        <5>1. \A x \in ends : x > f => x > l
          BY <2>1, <2>2, <2>3, <4>1 DEF Held
        <5> QED BY <2>1, <5>1, Zenon DEF After, Held
      <4>2. CASE f = t
        <5>1. \A x \in ends : ~(x > t) BY <2>2
        <5> QED BY <4>2, <5>1, Zenon DEF After
      <4> QED BY <2>4, <4>1, <4>2, Zenon
    <3> QED BY <2>3, <3>1, FS_Subset, FS_CardinalityType, Zenon
  <2>7. t - f <= t - l
    BY <2>1, <2>4, <2>5 DEF Held
  <2>8. PICK a, b \in [size : Nat, room : Nat, asked : Nat] :
           /\ a = at[t] /\ b = at[f]
           /\ a.size <= Largest /\ a.room <= a.size /\ b.size <= Largest
           /\ Used(t) - Used(f) <= 2 * (t - f) + Spare * k
    BY <1>1, <2>1, <2>2, <2>5, <2>6, Zenon DEF ArenaInv
  <2>9. PICK s \in Nat, g \in Nat : s = Spare /\ g = Largest
    BY LargestBuffer, ArenaAssumption, Zenon DEF ArenaAssumption
  <2>10. (a.asked - a.room) - (b.asked - b.room) <= 2 * (t - f) + s * k
    BY <2>8, <2>9, Zenon DEF Used
  <2>11. s * k <= s * h /\ s * k \in Nat /\ s * h \in Nat
    BY <2>6, <2>9
  <2>12. Pinned = a.asked - b.asked + b.size
    BY <2>1, <2>4, <2>8, Zenon DEF Pinned
  <2>13. a.size <= g /\ a.room <= a.size /\ b.size <= g
    BY <2>8, <2>9, Zenon
  <2>14. a.asked - b.asked + b.size <= 2 * (t - l) + s * h + 2 * g
    BY <2>1, <2>5, <2>7, <2>10, <2>11, <2>13
  <2> QED BY <2>1, <2>6, <2>9, <2>12, <2>14, Zenon DEF PinnedBound
<1> QED
  BY <1>1, InitArena, NextArena, PTL DEF ArenaSpec
=============================================================================
