-------------------------- MODULE RefinementProofs --------------------------
(***************************************************************************)
(* Registry implements Delivery, for any connections, commands and         *)
(* filters: the publishers' caches cannot be observed.  The invariant is   *)
(* RegistryInv of module RegistryProofs.                                   *)
(***************************************************************************)
EXTENDS RegistryProofs, Refinement

\* Where a task is, as Delivery sees it: a publisher that found its cache stale is
\* still about to match.
Place == [c \in Conns |-> IF pc[c] = "resolve" THEN "match" ELSE pc[c]]

\* A step that moves task c, or none, moves it in Delivery.
LEMMA PlaceMoves ==
    ASSUME Shape, NEW c \in Conns
    PROVE  /\ \A label : Goto(c, label) /\ label # "resolve" =>
                 Place' = [Place EXCEPT ![c] = label]
           /\ pc' = pc => Place' = Place
           /\ pc[c] # "resolve" => Place[c] = pc[c]
           /\ \A p \in Conns : Place[p] \in Routing <=> pc[p] \in Routing
BY Zenon DEF Place, Goto, Shape, Routing

\* What is computed from the subscriptions does not depend on where tasks are.
LEMMA SameComputations ==
    /\ \A list : D!Queued(list) = Queued(list) /\ D!Groups(list) = Groups(list)
    /\ \A list, q : D!Members(list, q) = Members(list, q)
    /\ \A i, from : D!Eligible(i, from) = Eligible(i, from)
    /\ \A i, max : D!Keeps(i, max) = Keeps(i, max)
    /\ \A i : D!RemovedWith(i) = RemovedWith(i)
    /\ \A c : D!Unanswered(c) = Unanswered(c)
    /\ \A S : D!Cardinality(S) = Cardinality(S)
    /\ \A removed : D!Drop(removed) <=> Drop(removed)
<1>0. \A S : D!Cardinality(S) = Cardinality(S)
  BY Zenon DEF D!Cardinality, Cardinality
<1>1. \A list : D!Queued(list) = Queued(list)
  BY Zenon DEF D!Queued, Queued
<1>2. \A list : D!Groups(list) = Groups(list)
  BY <1>1, Zenon DEF D!Groups, Groups
<1>3. \A list, q : D!Members(list, q) = Members(list, q)
  BY Zenon DEF D!Members, Members
<1>4. \A i, from : D!Eligible(i, from) = Eligible(i, from)
  BY Zenon DEF D!Eligible, Eligible
<1>5. \A i, max : D!Keeps(i, max) = Keeps(i, max)
  BY Zenon DEF D!Keeps, Keeps
<1>6. \A i : D!RemovedWith(i) = RemovedWith(i)
  BY Zenon DEF D!RemovedWith, RemovedWith
<1>7. \A c : D!Unanswered(c) = Unanswered(c)
  BY Zenon DEF D!Unanswered, Unanswered, D!Matching, Matching
<1>8. \A removed : D!Drop(removed) <=> Drop(removed)
  BY <1>0, Zenon DEF D!Drop, Drop
<1> QED BY <1>0, <1>1, <1>2, <1>3, <1>4, <1>5, <1>6, <1>7, <1>8, Zenon

\* The steps without the registry are the same in both.
LEMMA OtherRefines ==
    ASSUME Shape, NEW c \in Conns, Other(c)
    PROVE  D!Other(c)
<1> USE PlaceMoves DEF Place, Take, D!Take, Goto, D!Goto, Done, D!Done, Idle, D!Idle,
        registryVars, D!registryVars, subVars, D!subVars, connVars, D!connVars,
        clientVars, D!clientVars, taskVars, D!taskVars
<1>1. ASSUME NEW r \in Subscribes, SubscribeIgnored(c, r) \/ SubscribeNew(c, r)
      PROVE  D!SubscribeIgnored(c, r) \/ D!SubscribeNew(c, r)
  <2>1. CASE SubscribeIgnored(c, r)
    BY <2>1, Zenon DEF SubscribeIgnored, D!SubscribeIgnored
  <2>2. CASE SubscribeNew(c, r)
    BY <2>2, Zenon DEF SubscribeNew, D!SubscribeNew
  <2> QED BY <1>1, <2>1, <2>2, Zenon
<1>2. ASSUME NEW r \in Unsubscribes, UnsubscribeUnknown(c, r) \/ UnsubscribeKnown(c, r)
      PROVE  D!UnsubscribeUnknown(c, r) \/ D!UnsubscribeKnown(c, r)
  <2>1. CASE UnsubscribeUnknown(c, r)
    BY <2>1, Zenon DEF UnsubscribeUnknown, D!UnsubscribeUnknown
  <2>2. CASE UnsubscribeKnown(c, r)
    <3>1. PICK i \in known[c] :
             /\ sub[i].sid = r.sid
             /\ my' = [my EXCEPT ![c].sub = i, ![c].max = r.max, ![c].keep = Keeps(i, r.max)]
      BY <2>2, Zenon DEF UnsubscribeKnown
    <3>2. my' = [my EXCEPT ![c].sub = i, ![c].max = r.max, ![c].keep = D!Keeps(i, r.max)]
      <4>1. D!Keeps(i, r.max) = Keeps(i, r.max)
        BY SameComputations, Zenon
      <4> QED BY <3>1, <4>1, Zenon
    <3>3. \E j \in known[c] :
             /\ sub[j].sid = r.sid
             /\ my' = [my EXCEPT ![c].sub = j, ![c].max = r.max, ![c].keep = D!Keeps(j, r.max)]
      BY <3>1, <3>2, Zenon
    <3>4. D!Take(c) /\ r.conn = c /\ D!Goto(c, "limit")
      BY <2>2, Zenon DEF UnsubscribeKnown
    <3> QED
      BY <2>2, <3>3, <3>4, Zenon DEF UnsubscribeKnown, D!UnsubscribeKnown
  <2> QED BY <1>2, <2>1, <2>2, Zenon
<1>3. ASSUME NEW r \in Publishes, Publish(c, r) PROVE D!Publish(c, r)
  BY <1>3, Zenon DEF Publish, D!Publish
<1>4. ASSUME NEW i \in Ids, GiveSkipped(c, i) \/ GiveQueued(c, i) \/ GiveOverflows(c, i)
      PROVE  D!GiveSkipped(c, i) \/ D!GiveQueued(c, i) \/ D!GiveOverflows(c, i)
  <2> USE DEF Eligible, D!Eligible
  <2>1. CASE GiveSkipped(c, i)
    BY <2>1, Zenon DEF GiveSkipped, D!GiveSkipped
  <2>2. CASE GiveQueued(c, i)
    BY <2>2, Zenon DEF GiveQueued, D!GiveQueued
  <2>3. CASE GiveOverflows(c, i)
    BY <2>3, Zenon DEF GiveOverflows, D!GiveOverflows
  <2> QED BY <1>4, <2>1, <2>2, <2>3, Zenon
<1>5. Read(c) => D!Read(c)
  BY Zenon DEF Read, D!Read
<1>6. Remember(c) => D!Remember(c)
  BY Zenon DEF Remember, D!Remember
<1>7. StoreLimit(c) => D!StoreLimit(c)
  BY Zenon DEF StoreLimit, D!StoreLimit, D!Routing, Routing
<1>8. Forget(c) => D!Forget(c)
  BY Zenon DEF Forget, D!Forget
<1>9. Pick(c) => D!Pick(c)
  <2> SUFFICES ASSUME Pick(c) PROVE D!Pick(c)
    BY Zenon
  <2>1. Place[c] = "pick" /\ D!Goto(c, "give")
    BY Zenon DEF Pick
  <2> DEFINE list == my[c].matched
  <2>2. PICK chosen \in SUBSET Queued(list) :
           /\ \A i \in chosen : Eligible(i, c)
           /\ \A q \in Groups(list) :
                 Cardinality(Members(chosen, q)) =
                     IF \E i \in Members(list, q) : Eligible(i, c) THEN 1 ELSE 0
           /\ my' = [my EXCEPT ![c].todo = (list \ Queued(list)) \cup chosen]
    BY Zenon DEF Pick
  <2>3. /\ chosen \in SUBSET D!Queued(list)
        /\ \A i \in chosen : D!Eligible(i, c)
    BY <2>2, SameComputations, Zenon
  <2>4. ASSUME NEW q \in D!Groups(list)
        PROVE  D!Cardinality(D!Members(chosen, q)) =
                   IF \E i \in D!Members(list, q) : D!Eligible(i, c) THEN 1 ELSE 0
    <3>1. q \in Groups(list) /\ D!Members(chosen, q) = Members(chosen, q)
      BY SameComputations, Zenon
    <3>2. (\E i \in D!Members(list, q) : D!Eligible(i, c))
             <=> (\E i \in Members(list, q) : Eligible(i, c))
      BY SameComputations, Zenon
    <3>3. D!Cardinality(D!Members(chosen, q)) = Cardinality(Members(chosen, q))
      BY <3>1, SameComputations, Zenon
    <3> QED BY <2>2, <3>1, <3>2, <3>3, Zenon
  <2>5. my' = [my EXCEPT ![c].todo = (list \ D!Queued(list)) \cup chosen]
    BY <2>2, SameComputations, Zenon
  <2> QED BY <2>1, <2>3, <2>4, <2>5, Zenon DEF Pick, D!Pick
<1>10. Count(c) => D!Count(c)
  BY Zenon DEF Count, D!Count
<1>11. Check(c) => D!Check(c)
  BY Zenon DEF Check, D!Check, Spent, D!Spent
<1>12. GiveDone(c) => D!GiveDone(c)
  BY Zenon DEF GiveDone, D!GiveDone
<1>13. Settle(c) => D!Settle(c)
  <2> SUFFICES ASSUME Settle(c) PROVE D!Settle(c)
    BY Zenon
  <2>1. Place[c] = "settle" /\ D!Done(c)
    BY Zenon DEF Settle
  <2>2. D!Cardinality(D!Unanswered(c)) = Cardinality(Unanswered(c))
    BY SameComputations, Zenon
  <2>3. \E n \in 0..D!Cardinality(D!Unanswered(c)) :
          /\ c \in closed => n = 0
          /\ n = D!Cardinality(D!Unanswered(c)) \/ c \in closed \cup SlowConsumers
          /\ inbox' = [inbox EXCEPT ![c] =
                          @ \o [k \in 1..n |-> [sub |-> NoSub, from |-> c, seq |-> sent[c]]]]
    BY <2>2, Zenon DEF Settle
  <2> QED BY <2>1, <2>3, Zenon DEF Settle, D!Settle
<1>14. ReaderCloses(c) => D!ReaderCloses(c)
  BY Zenon DEF ReaderCloses, D!ReaderCloses
<1>15. ReaderLeaves(c) => D!ReaderLeaves(c)
  BY Zenon DEF ReaderLeaves, D!ReaderLeaves
<1>16. Swap(c) => D!Swap(c)
  BY Zenon DEF Swap, D!Swap, Shape
<1>17. Clear(c) => D!Clear(c)
  BY Zenon DEF Clear, D!Clear, Shape
<1> QED
  BY <1>1, <1>2, <1>3, <1>4, <1>5, <1>6, <1>7, <1>8, <1>9, <1>10, <1>11, <1>12,
     <1>13, <1>14, <1>15, <1>16, <1>17, Zenon DEF Other, D!Other

\* A change of the registry is the same change; a match out of a cache that is
\* fresh, or out of resolve, is a match of that instant; finding the cache stale
\* is no step at all.
LEMMA StepRefines ==
    ASSUME RegistryInv, NEW c \in Conns, RegistryStep(c)
    PROVE  D!Next \/ UNCHANGED D!vars
<1>0. Shape /\ CacheCoherent
  BY Zenon DEF RegistryInv
<1> USE <1>0, PlaceMoves DEF Place, Goto, D!Goto, Done, D!Done, Idle, D!Idle,
        registryVars, D!registryVars, subVars, D!subVars, connVars, D!connVars,
        clientVars, D!clientVars
<1>1. CASE InsertChanges(c)
  <2>1. D!Insert(c)
    BY <1>1, Zenon DEF InsertChanges, Insert, D!Insert, Same, D!Same
  <2> QED BY <2>1, Zenon DEF D!Next
<1>2. CASE RemoveChanges(c)
  <2>1. D!Remove(c)
    <3>1. Place[c] = "remove" /\ D!Done(c) /\ D!Drop(D!RemovedWith(my[c].sub))
      BY <1>2, SameComputations, Zenon DEF RemoveChanges, Remove
    <3> QED BY <1>2, <3>1, Zenon DEF RemoveChanges, Remove, D!Remove
  <2> QED BY <2>1, Zenon DEF D!Next
<1>3. CASE UnregisterChanges(c)
  <2>1. D!Unregister(c)
    <3>1. /\ Place[c] = "unregister" /\ D!Goto(c, "clear")
          /\ D!Drop({i \in registered : sub[i].conn = my[c].victim})
      BY <1>3, SameComputations, Zenon DEF UnregisterChanges, Unregister
    <3> QED BY <1>3, <3>1, Zenon DEF UnregisterChanges, Unregister, D!Unregister
  <2> QED BY <2>1, Zenon DEF D!Next
<1>4. CASE ExpireChanges(c)
  <2>1. D!Expire(c)
    <3>1. UNION {D!RemovedWith(i) : i \in my[c].expired}
             = UNION {RemovedWith(i) : i \in my[c].expired}
      BY SameComputations
    <3>2. /\ Place[c] = "expire" /\ D!Goto(c, "settle")
          /\ D!Drop(UNION {D!RemovedWith(i) : i \in my[c].expired})
      BY <1>4, <3>1, SameComputations, Zenon DEF ExpireChanges, Expire
    <3> QED BY <1>4, <3>2, Zenon DEF ExpireChanges, Expire, D!Expire
  <2> QED BY <2>1, Zenon DEF D!Next
<1>5. CASE LoadGeneration(c) /\ Fresh(c)
  <2>1. interest[c].subs = Matching(my[c].subject)
    BY <1>5, Zenon DEF CacheCoherent, Fresh
  <2>2. D!Match(c)
    BY <1>5, <2>1, Zenon DEF LoadGeneration, D!Match, Matching, D!Matching
  <2> QED BY <2>2, Zenon DEF D!Next
<1>6. CASE LoadGeneration(c) /\ ~Fresh(c)
  BY <1>6, Zenon DEF LoadGeneration, Shape, D!vars, D!taskVars
<1>7. CASE Resolve(c)
  <2>1. D!Match(c)
    BY <1>7, Zenon DEF Resolve, D!Match, Matching, D!Matching
  <2> QED BY <2>1, Zenon DEF D!Next
<1>8. CASE Other(c)
  BY <1>8, OtherRefines, Zenon DEF D!Next
<1> QED
  BY <1>1, <1>2, <1>3, <1>4, <1>5, <1>6, <1>7, <1>8, Zenon DEF RegistryStep

\* The interest caches of the publishing tasks, guarded by the generation, cannot
\* be told from matching under the lock: every behaviour of Registry, for any
\* connections, commands and filters, is one of Delivery.
THEOREM RegistryImplementsDelivery == RegistrySpec => ImplementsDelivery
<1>1. RegistryInit => D!Init
  BY Zenon DEF RegistryInit, Init, D!Init, Idle, D!Idle
<1>2. RegistryInv /\ [RegistryNext]_registryState => [D!Next]_D!vars
  <2> SUFFICES ASSUME RegistryInv, [RegistryNext]_registryState
               PROVE  D!Next \/ UNCHANGED D!vars
    BY Zenon
  <2>1. CASE UNCHANGED registryState
    BY <2>1, Zenon DEF registryState, vars, D!vars, registryVars, D!registryVars, subVars,
       D!subVars, connVars, D!connVars, clientVars, D!clientVars, taskVars, D!taskVars
  <2>2. CASE RegistryNext
    BY <2>2, StepRefines, Zenon DEF RegistryNext
  <2> QED BY <2>1, <2>2, Zenon
<1> QED
  BY <1>1, <1>2, InitRegistryInv, NextRegistryInv, PTL
     DEF RegistrySpec, ImplementsDelivery, D!Spec
=============================================================================
