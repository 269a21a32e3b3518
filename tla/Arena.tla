------------------------------- MODULE Arena -------------------------------
(***************************************************************************)
(* Where the bytes of the queued frames live (crates/server/src/arena.rs): *)
(* frames are laid down one behind the other in chunks, under the queue    *)
(* lock and so in the order Writer drains them, and a chunk is freed when  *)
(* nothing refers to it.  Which chunks are alive follows from where the    *)
(* frames were laid and from how far the writer got.                       *)
(***************************************************************************)
EXTENDS Writer

CONSTANTS
    Chunk,  \* CHUNK
    Spare   \* what build_frame asks for beyond what it writes

\* What the arena may ask for at once.
Buffers == {Chunk} \cup {n + Spare : n \in FrameLens}

\* There is a longest frame.
ASSUME ArenaAssumption ==
    /\ Chunk \in Nat \ {0} /\ Spare \in Nat
    /\ \E b \in Buffers : \A x \in Buffers : x <= b

VARIABLE
    at  \* the arena as it was after each frame, by the frame's last byte: the size
        \* of its chunk and the room left there, and history, what it had asked for

arenaVars == <<vars, at>>

\* Arena::new: no chunk, no room.
NewArena == [size |-> 0, room |-> 0, asked |-> 0]

\* BytesMut::with_capacity for n bytes and the spare, and n bytes written.
Fresh(a, n) ==
    LET size == IF n + Spare < Chunk THEN Chunk ELSE n + Spare
    IN [size |-> size, room |-> size - n, asked |-> a.asked + size]

\* Mutant of Placed: the room left is never looked at.
PlacedAnew(a, n) == Fresh(a, n)

\* tail(n + Spare), n bytes written, seal: the current chunk if it has the
\* room, otherwise a new one, of the frame's own size when that is larger.
Placed(a, n) ==
    IF a.room < n + Spare THEN Fresh(a, n) ELSE [a EXCEPT !.room = a.room - n]

\* The frame that is queued is laid down behind the one before it.
Lay(n) ==
    at' = [e \in ends \cup {0, tail + n} |-> IF e = tail + n THEN Placed(at[tail], n) ELSE at[e]]

ArenaInit == Init /\ at = [e \in {0} |-> NewArena]

ArenaNext ==
    \/ Goes /\ UNCHANGED at
    \/ \E n \in FrameLens : Enqueue(n) /\ Lay(n)

ArenaSpec == ArenaInit /\ [][ArenaNext]_arenaVars

\* With the fairness of FairSpec.
ArenaFairSpec == ArenaSpec /\ WF_vars(WriterStep) /\ SF_vars(WriteEnds) /\ WF_vars(FinishSeals)

\* The frames some part of which the writer still holds or has yet to receive,
\* and the first of them, or the arena's cursor if there is none.
Held == {e \in ends : e > lo}
First == CHOOSE e \in Held \cup {tail} : \A x \in Held \cup {tail} : e <= x

\* The memory they take: chunks are given up in the order they were asked for, so
\* all of them are alive from the first frame's to the cursor's.
Pinned == at[tail].asked - at[First].asked + at[First].size

-----------------------------------------------------------------------------
(* Properties                                                              *)

\* The largest buffer the arena asks for at once.
Largest == CHOOSE b \in Buffers : \A x \in Buffers : x <= b

\* A slow client pins memory in proportion to the bytes it is owed, whatever
\* the frame sizes and however far the writer got: every chunk between the
\* first and the last is full but for less than the frame that did not fit.
PinnedBound ==
    Pinned <= 2 * (tail - lo) + Spare * Cardinality(Held) + 2 * Largest

\* "... the ceiling stays `max_pending` plus one partial chunk" (arena.rs:22), with
\* MaxTail, which bounds the bytes owed, for max_pending.  Refuted: frames of
\* more than half a chunk take a chunk each.
PinnedCeiling == Pinned <= MaxTail + Chunk
=============================================================================
