------------------------------ MODULE MCOutbox ------------------------------
(* Instances of Outbox for TLC: publishers p1, p2 and the owner's reader.  *)
EXTENDS Outbox, TLC

CONSTANTS p1, p2, reader

Publishers == Permutations({p1, p2})
=============================================================================
