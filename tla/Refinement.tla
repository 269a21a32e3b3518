----------------------------- MODULE Refinement -----------------------------
(***************************************************************************)
(* What module Registry promises of its caches.                            *)
(***************************************************************************)
EXTENDS Registry

\* The cache cannot be observed: what publishers match, and everything after it,
\* is a behaviour of Delivery, where the match is taken from the subscriptions
\* of one instant between the command and its first delivery.
D == INSTANCE Delivery WITH
        pc <- [c \in Conns |-> IF pc[c] = "resolve" THEN "match" ELSE pc[c]]

ImplementsDelivery == D!Spec
=============================================================================
