--------------------------- MODULE RegistryProofs ---------------------------
(***************************************************************************)
(* Theorems about module Registry, for any connections, commands and       *)
(* filters: the count of the registry is exact; a cache that carries the   *)
(* current generation holds what the registry would answer; an UNSUB of an *)
(* open connection finds what is registered for its sid; a connection that *)
(* closes itself leaves nothing behind.  The last parts state the          *)
(* invariant of the fan-out of a publish and that every step keeps it;     *)
(* module FanoutProofs concludes.                                          *)
(***************************************************************************)
EXTENDS Registry, FiniteSetTheorems, TLAPS

\* The functions of the state, and the return addresses of Conn::finish.
Shape ==
    /\ DOMAIN sub = Ids /\ DOMAIN known = Conns
    /\ DOMAIN pc = Conns /\ DOMAIN my = Conns /\ DOMAIN interest = Conns
    /\ \A c \in Conns :
          /\ {"sub", "ret", "victim"} \subseteq DOMAIN my[c]
          /\ my[c].ret \in {"idle", "give", "ended"}

\* A subscription is written once, before it is registered, and an identity on
\* its way to the registry is taken.
Allocated ==
    /\ \A i \in registered : i \in Ids /\ sub[i] # NoSub
    /\ \A c \in Conns : pc[c] = "insert" => my[c].sub \in Ids /\ sub[my[c].sub] # NoSub

\* The registry is finite and counted.
Counted == IsFiniteSet(registered) /\ TotalExact

\* No cache is ahead of the generation.
Behind ==
    /\ generation \in Nat
    /\ \A c \in Conns : interest[c].generation \in Int /\ interest[c].generation <= generation

RegistryInv == Shape /\ Allocated /\ Counted /\ Behind /\ CacheCoherent

-----------------------------------------------------------------------------

\* A server starts with an empty registry and caches that are never current.
LEMMA InitRegistryInv == RegistryInit => RegistryInv
<1> SUFFICES ASSUME RegistryInit PROVE RegistryInv
    BY Zenon
<1>1. Shape
  BY Zenon DEF RegistryInit, Init, Shape, Idle
<1>2. Allocated
  BY Zenon DEF RegistryInit, Init, Allocated
<1>3. Counted
  BY FS_EmptySet, Zenon DEF RegistryInit, Init, Counted, TotalExact
<1>4. Behind /\ CacheCoherent
  BY DEF RegistryInit, Init, Behind, CacheCoherent, Never
<1> QED
  BY <1>1, <1>2, <1>3, <1>4, Zenon DEF RegistryInv

-----------------------------------------------------------------------------
(* What a step does to the parts of the state the invariant is about.      *)

\* The state keeps its shape, and finish returns to where it was called from.
LEMMA ShapeStep ==
    ASSUME Shape, NEW c \in Conns, RegistryStep(c)
    PROVE  Shape'
<1> USE DEF Shape, Goto, Done, Idle, registryVars, subVars, connVars, clientVars, taskVars, Changed
<1>1. CASE InsertChanges(c)
  BY <1>1, Zenon DEF InsertChanges, Insert
<1>2. CASE RemoveChanges(c)
  BY <1>2, Zenon DEF RemoveChanges, Remove
<1>3. CASE UnregisterChanges(c)
  BY <1>3, Zenon DEF UnregisterChanges, Unregister
<1>4. CASE ExpireChanges(c)
  BY <1>4, Zenon DEF ExpireChanges, Expire
<1>5. CASE LoadGeneration(c)
  BY <1>5 DEF LoadGeneration
<1>6. CASE Resolve(c)
  BY <1>6, Zenon DEF Resolve
<1>7. CASE Other(c) /\ UNCHANGED <<generation, interest>>
  <2>1. CASE Read(c) \/ Forget(c) \/ GiveDone(c) \/ ReaderLeaves(c)
    BY <1>7, <2>1, Zenon DEF Read, Forget, GiveDone, ReaderLeaves
  <2>2. CASE Remember(c)
    BY <1>7, <2>2, Zenon DEF Remember
  <2>3. CASE StoreLimit(c)
    BY <1>7, <2>3 DEF StoreLimit
  <2>4. CASE Pick(c)
    BY <1>7, <2>4, Zenon DEF Pick
  <2>5. CASE Count(c) \/ Check(c)
    BY <1>7, <2>5 DEF Count, Check
  <2>6. CASE Settle(c)
    BY <1>7, <2>6, Zenon DEF Settle
  <2>7. CASE ReaderCloses(c)
    BY <1>7, <2>7, Zenon DEF ReaderCloses
  <2>8. CASE Swap(c) \/ Clear(c)
    BY <1>7, <2>8 DEF Swap, Clear
  <2>9. ASSUME NEW r \in Subscribes, SubscribeIgnored(c, r) \/ SubscribeNew(c, r) PROVE Shape'
    BY <1>7, <2>9 DEF SubscribeIgnored, SubscribeNew
  <2>10. ASSUME NEW r \in Unsubscribes, UnsubscribeUnknown(c, r) \/ UnsubscribeKnown(c, r)
         PROVE Shape'
    <3>1. CASE UnsubscribeUnknown(c, r)
      BY <1>7, <3>1, Zenon DEF UnsubscribeUnknown
    <3>2. CASE UnsubscribeKnown(c, r)
      <4>0. PICK i \in known[c] :
               my' = [my EXCEPT ![c].sub = i, ![c].max = r.max, ![c].keep = Keeps(i, r.max)]
        BY <3>2, Zenon DEF UnsubscribeKnown
      <4> DEFINE k == Keeps(i, r.max)
      <4>1. my' = [my EXCEPT ![c].sub = i, ![c].max = r.max, ![c].keep = k]
        BY <4>0, Zenon
      <4> HIDE DEF k
      <4> QED
        BY <1>7, <3>2, <4>1, Zenon DEF UnsubscribeKnown
    <3> QED
      BY <2>10, <3>1, <3>2, Zenon
  <2>11. ASSUME NEW r \in Publishes, Publish(c, r) PROVE Shape'
    BY <1>7, <2>11, Zenon DEF Publish
  <2>12. ASSUME NEW i \in Ids, GiveSkipped(c, i) \/ GiveQueued(c, i) \/ GiveOverflows(c, i)
         PROVE Shape'
    BY <1>7, <2>12 DEF GiveSkipped, GiveQueued, GiveOverflows
  <2> QED
    BY <1>7, <2>1, <2>2, <2>3, <2>4, <2>5, <2>6, <2>7, <2>8, <2>9, <2>10, <2>11, <2>12, Zenon
    DEF Other
<1> QED
  BY <1>1, <1>2, <1>3, <1>4, <1>5, <1>6, <1>7, Zenon DEF RegistryStep

\* All the steps but four leave the registered subscriptions, and what was said
\* when they were made, alone.
LEMMA OtherStep ==
    ASSUME Shape, Allocated, NEW c \in Conns, Other(c)
    PROVE  /\ UNCHANGED registryVars
           /\ \A i \in Ids : sub[i] # NoSub => sub'[i] = sub[i]
<1> USE DEF registryVars, subVars, connVars, clientVars, taskVars
<1>1. ASSUME NEW r \in Subscribes, SubscribeNew(c, r)
      PROVE  /\ UNCHANGED registryVars
             /\ \A i \in Ids : sub[i] # NoSub => sub'[i] = sub[i]
  BY <1>1, Zenon DEF SubscribeNew, Shape
<1>2. CASE ~\E r \in Subscribes : SubscribeNew(c, r)
  BY <1>2, Zenon DEF Other, Read, Remember, StoreLimit, Forget, Pick, Count, Check, GiveDone, Settle,
              ReaderCloses, ReaderLeaves, Swap, Clear, SubscribeIgnored, UnsubscribeUnknown,
              UnsubscribeKnown, Publish, GiveSkipped, GiveQueued, GiveOverflows
<1> QED
  BY <1>1, <1>2, Zenon

\* A reader task moves itself and no other.
LEMMA OtherIsLocal ==
    ASSUME Shape, NEW c \in Conns, Other(c), NEW d \in Conns, d # c
    PROVE  pc'[d] = pc[d] /\ my'[d] = my[d]
<1> USE DEF Goto, Done, taskVars
<1>1. ASSUME NEW r \in Unsubscribes, UnsubscribeKnown(c, r)
      PROVE  pc'[d] = pc[d] /\ my'[d] = my[d]
  <2>1. PICK i \in known[c] :
           my' = [my EXCEPT ![c].sub = i, ![c].max = r.max, ![c].keep = Keeps(i, r.max)]
    BY <1>1, Zenon DEF UnsubscribeKnown
  <2> DEFINE k == Keeps(i, r.max)
  <2>2. my' = [my EXCEPT ![c].sub = i, ![c].max = r.max, ![c].keep = k]
    BY <2>1, Zenon
  <2> HIDE DEF k
  <2> QED
    BY <1>1, <2>2, Zenon DEF UnsubscribeKnown, Shape
<1>2. CASE Pick(c)
  BY <1>2, Zenon DEF Pick, Shape
<1>3. CASE Count(c) \/ Check(c) \/ GiveDone(c) \/ Settle(c)
  BY <1>3, Zenon DEF Count, Check, GiveDone, Settle, Shape
<1>4. CASE Read(c) \/ Remember(c) \/ StoreLimit(c) \/ Forget(c)
  BY <1>4, Zenon DEF Read, Remember, StoreLimit, Forget, Shape
<1>5. CASE ReaderCloses(c) \/ ReaderLeaves(c) \/ Swap(c) \/ Clear(c)
  BY <1>5, Zenon DEF ReaderCloses, ReaderLeaves, Swap, Clear, Shape
<1>6. ASSUME NEW r, \/ SubscribeIgnored(c, r) \/ SubscribeNew(c, r)
                    \/ UnsubscribeUnknown(c, r) \/ Publish(c, r)
      PROVE  pc'[d] = pc[d] /\ my'[d] = my[d]
  BY <1>6, Zenon DEF SubscribeIgnored, SubscribeNew, UnsubscribeUnknown, Publish, Shape
<1>7. ASSUME NEW i \in Ids, GiveSkipped(c, i) \/ GiveQueued(c, i) \/ GiveOverflows(c, i)
      PROVE  pc'[d] = pc[d] /\ my'[d] = my[d]
  BY <1>7, Zenon DEF GiveSkipped, GiveQueued, GiveOverflows, Shape
<1> QED
  BY <1>1, <1>2, <1>3, <1>4, <1>5, <1>6, <1>7, Zenon DEF Other

\* Taking subscriptions out keeps the count exact.
LEMMA DropCounted ==
    ASSUME Counted, NEW removed \in SUBSET registered, Drop(removed)
    PROVE  Counted'
<1>1. /\ IsFiniteSet(registered \ removed)
      /\ Cardinality(registered \ removed) =
             Cardinality(registered) - Cardinality(registered \cap removed)
  BY FS_Difference, Zenon DEF Counted
<1>2. registered \cap removed = removed
  BY Zenon
<1> QED
  BY <1>1, <1>2, Zenon DEF Counted, Drop, TotalExact

\* The registry changes by an insertion or by a removal.
LEMMA CountedStep ==
    ASSUME RegistryInv, NEW c \in Conns, RegistryStep(c)
    PROVE  Counted'
<1> USE DEF RegistryInv, registryVars, subVars, connVars, clientVars, taskVars
<1>1. CASE InsertChanges(c)
  <2>1. CASE UNCHANGED registryVars
    BY <2>1, Zenon DEF Counted, TotalExact
  <2>2. CASE ~UNCHANGED registryVars
    <3>1. /\ registered' = registered \cup {my[c].sub} /\ total' = total + 1
          /\ ~\E j \in registered : Same(j, my[c].sub)
      BY <1>1, <2>2, Zenon DEF InsertChanges, Insert
    <3>2. my[c].sub \notin registered
      BY <3>1, Zenon DEF Same
    <3>3. IsFiniteSet(registered') /\ Cardinality(registered') = Cardinality(registered) + 1
      BY <3>1, <3>2, FS_AddElement, Zenon DEF Counted
    <3> QED
      BY <3>1, <3>3, Zenon DEF Counted, TotalExact
  <2> QED
    BY <2>1, <2>2, Zenon
<1>2. CASE RemoveChanges(c)
  <2>1. RemovedWith(my[c].sub) \in SUBSET registered
    BY Zenon DEF RemovedWith
  <2> QED
    BY <1>2, <2>1, DropCounted, Zenon DEF RemoveChanges, Remove
<1>3. CASE UnregisterChanges(c)
  BY <1>3, DropCounted, Zenon DEF UnregisterChanges, Unregister
<1>4. CASE ExpireChanges(c)
  <2>1. UNION {RemovedWith(i) : i \in my[c].expired} \in SUBSET registered
    BY Zenon DEF RemovedWith
  <2> QED
    BY <1>4, <2>1, DropCounted, Zenon DEF ExpireChanges, Expire
<1>5. CASE LoadGeneration(c) \/ Resolve(c)
  BY <1>5, Zenon DEF LoadGeneration, Resolve, Counted, TotalExact
<1>6. CASE Other(c)
  BY <1>6, OtherStep, Zenon DEF Counted, TotalExact
<1> QED
  BY <1>1, <1>2, <1>3, <1>4, <1>5, <1>6, Zenon DEF RegistryStep

\* A subscription is registered only after it was written.
LEMMA AllocatedStep ==
    ASSUME RegistryInv, NEW c \in Conns, RegistryStep(c)
    PROVE  Allocated'
<1> USE DEF RegistryInv, registryVars, subVars, connVars, clientVars, taskVars, Goto, Done, Drop
<1>1. CASE InsertChanges(c)
  BY <1>1, Zenon DEF InsertChanges, Insert, Shape, Allocated
<1>2. CASE RemoveChanges(c)
  BY <1>2, Zenon DEF RemoveChanges, Remove, Shape, Allocated
<1>3. CASE UnregisterChanges(c)
  BY <1>3, Zenon DEF UnregisterChanges, Unregister, Shape, Allocated
<1>4. CASE ExpireChanges(c)
  BY <1>4, Zenon DEF ExpireChanges, Expire, Shape, Allocated
<1>5. CASE LoadGeneration(c)
  BY <1>5, Zenon DEF LoadGeneration, Shape, Allocated
<1>6. CASE Resolve(c)
  BY <1>6, Zenon DEF Resolve, Shape, Allocated
<1>7. CASE Other(c)
  <2>1. /\ registered' = registered
        /\ \A i \in Ids : sub[i] # NoSub => sub'[i] = sub[i]
    BY <1>7, OtherStep, Zenon
  <2>2. ASSUME NEW d \in Conns, pc'[d] = "insert"
        PROVE  my'[d].sub \in Ids /\ sub'[my'[d].sub] # NoSub
    <3>1. CASE \E r \in Subscribes : SubscribeNew(c, r)
      <4>1. PICK r \in Subscribes : SubscribeNew(c, r)
        BY <3>1, Zenon
      <4>2. PICK i \in Ids : sub' = [sub EXCEPT ![i] = r] /\ my' = [my EXCEPT ![c].sub = i]
        BY <4>1, Zenon DEF SubscribeNew
      <4>3. r # NoSub
        BY DeliveryAssumption, Zenon DEF DeliveryAssumption
      <4>4. CASE d = c
        BY <4>2, <4>3, <4>4, Zenon DEF Shape
      <4>5. CASE d # c
        BY <2>1, <2>2, <4>1, <4>2, <4>5 DEF SubscribeNew, Shape, Allocated
      <4> QED
        BY <4>4, <4>5, Zenon
    <3>2. CASE ~\E r \in Subscribes : SubscribeNew(c, r)
      <4>1. d # c
        <5>1. CASE Read(c) \/ (\E r \in Subscribes : SubscribeIgnored(c, r))
                   \/ (\E r \in Unsubscribes : UnsubscribeUnknown(c, r))
                   \/ (\E i \in Ids : GiveSkipped(c, i))
          BY <2>2, <5>1, Zenon DEF Read, SubscribeIgnored, UnsubscribeUnknown, GiveSkipped, Take
        <5>2. CASE Swap(c) \/ Clear(c)
          BY <2>2, <5>2, Zenon DEF Swap, Clear, Shape
        <5>3. CASE ~(Swap(c) \/ Clear(c)) /\ pc'[c] # pc[c]
          BY <1>7, <2>2, <3>2, <5>3
          DEF Other, Read, Remember, StoreLimit, Forget, Pick, Count, Check, GiveDone, Settle,
              ReaderCloses, ReaderLeaves, SubscribeIgnored, UnsubscribeUnknown,
              UnsubscribeKnown, Publish, GiveSkipped, GiveQueued, GiveOverflows, Shape
        <5>4. CASE pc'[c] = pc[c]
          BY <1>7, <2>2, <3>2, <5>1, <5>2, <5>4, Zenon
          DEF Other, Remember, StoreLimit, Forget, Pick, Count, Check, GiveDone, Settle,
              ReaderCloses, ReaderLeaves, UnsubscribeKnown, Publish, GiveQueued,
              GiveOverflows, Shape
        <5> QED
          BY <5>2, <5>3, <5>4, Zenon
      <4>2. pc[d] = "insert" /\ my'[d] = my[d]
        BY <1>7, <2>2, <4>1, OtherIsLocal, Zenon
      <4> QED
        BY <2>1, <4>1, <4>2, Zenon DEF Allocated
    <3> QED
      BY <3>1, <3>2, Zenon
  <2> QED
    BY <2>1, <2>2, Zenon DEF Allocated
<1> QED
  BY <1>1, <1>2, <1>3, <1>4, <1>5, <1>6, <1>7, Zenon DEF RegistryStep

\* A change of the registered set comes with a new generation, in the same step.
LEMMA ChangeIsVisible ==
    ASSUME RegistryInv, NEW c \in Conns, RegistryStep(c)
    PROVE  /\ generation' \in {generation, generation + 1}
           /\ generation' = generation => registered' = registered
           /\ \A i \in registered : sub'[i] = sub[i]
<1> USE DEF RegistryInv, registryVars, subVars, Behind, Changed
<1>1. CASE InsertChanges(c)
  BY <1>1 DEF InsertChanges, Insert
<1>2. CASE RemoveChanges(c)
  BY <1>2 DEF RemoveChanges, Remove
<1>3. CASE UnregisterChanges(c)
  BY <1>3 DEF UnregisterChanges, Unregister
<1>4. CASE ExpireChanges(c)
  BY <1>4 DEF ExpireChanges, Expire
<1>5. CASE LoadGeneration(c) \/ Resolve(c)
  BY <1>5, Zenon DEF LoadGeneration, Resolve
<1>6. CASE Other(c) /\ UNCHANGED <<generation, interest>>
  BY <1>6, OtherStep, Zenon DEF Allocated
<1> QED
  BY <1>1, <1>2, <1>3, <1>4, <1>5, <1>6, Zenon DEF RegistryStep

\* A step leaves the cache of a task as it was, or has just resolved it.
LEMMA CacheStep ==
    ASSUME RegistryInv, NEW c \in Conns, RegistryStep(c), NEW d \in Conns
    PROVE  \/ interest'[d] = interest[d]
           \/ /\ interest'[d].generation = generation /\ generation' = generation
              /\ interest'[d].subs = Matching(interest'[d].subject)
<1>1. CASE Resolve(c)
  BY <1>1, Zenon DEF Resolve, RegistryInv, Shape
<1>2. CASE ~Resolve(c)
  BY <1>2, Zenon DEF RegistryStep, InsertChanges, RemoveChanges, UnregisterChanges, ExpireChanges,
              LoadGeneration, Changed
<1> QED
  BY <1>1, <1>2, Zenon

\* A cache with the current generation was resolved after the last change.
LEMMA CoherentStep ==
    ASSUME RegistryInv, NEW c \in Conns, RegistryStep(c)
    PROVE  Behind' /\ CacheCoherent'
<1>1. Behind'
  BY ChangeIsVisible, CacheStep DEF RegistryInv, Behind
<1>2. ASSUME NEW d \in Conns, interest'[d].generation = generation'
      PROVE  interest'[d].subs =
                 {i \in registered' : interest'[d].subject \in Matches[sub'[i].filter]}
  <2>1. generation' = generation /\ registered' = registered
    BY <1>2, ChangeIsVisible, CacheStep DEF RegistryInv, Behind
  <2>2. interest'[d].subs = Matching(interest'[d].subject)
    BY <1>2, <2>1, CacheStep, Zenon DEF RegistryInv, CacheCoherent
  <2> QED
    BY <2>1, <2>2, ChangeIsVisible, Zenon DEF Matching
<1> QED
  BY <1>1, <1>2, Zenon DEF CacheCoherent, Matching

\* Every step keeps the inductive invariant.
LEMMA NextRegistryInv == RegistryInv /\ [RegistryNext]_registryState => RegistryInv'
<1>1. ASSUME RegistryInv, NEW c \in Conns, RegistryStep(c) PROVE RegistryInv'
  BY <1>1, ShapeStep, AllocatedStep, CountedStep, CoherentStep, Zenon DEF RegistryInv
<1>2. ASSUME RegistryInv, UNCHANGED registryState PROVE RegistryInv'
  BY <1>2, Zenon DEF RegistryInv, registryState, vars, registryVars, subVars, connVars, clientVars,
              taskVars, Shape, Allocated, Counted, TotalExact, Behind, CacheCoherent, Matching
<1> QED
  BY <1>1, <1>2, Zenon DEF RegistryNext

\* No change of the subscription set leaves a cache valid that it made wrong: a
\* publisher that finds its generation current has what resolve would answer
\* (changed, inside the critical section of every change).
THEOREM RegistryCacheCoherent == RegistrySpec => []CacheCoherent
<1>1. RegistryInv => CacheCoherent
  BY Zenon DEF RegistryInv
<1> QED
  BY <1>1, InitRegistryInv, NextRegistryInv, PTL DEF RegistrySpec

\* Inner.total counts the registered subscriptions exactly, through duplicates,
\* removals, expiries and the ends of connections on other tasks; as a usize it
\* never goes below zero.
THEOREM RegistryTotalExact == RegistrySpec => []TotalExact
<1>1. RegistryInv => TotalExact
  BY Zenon DEF RegistryInv, Counted
<1> QED
  BY <1>1, InitRegistryInv, NextRegistryInv, PTL DEF RegistrySpec

-----------------------------------------------------------------------------
(* The registry and a connection's own table of subscriptions, Conn.subs   *)

\* A reader task moves itself only, changes its own table or that of a connection
\* it closes, and adds at most the subscription it is inserting.
LEMMA StepFrame ==
    ASSUME RegistryInv, NEW t \in Conns, RegistryStep(t)
    PROVE  /\ closed \subseteq closed'
           /\ \A i \in Ids : sub[i] # NoSub => sub'[i] = sub[i]
           /\ \A d \in Conns \ {t} : pc'[d] = pc[d] /\ my'[d] = my[d]
           /\ \A d \in Conns : \/ known'[d] = known[d]
                               \/ pc[t] = "clear" /\ my[t].victim = d
                               \/ d = t /\ pc[t] \in {"remember", "forget"}
           /\ \A i \in registered' : i \in registered \/ (pc[t] = "insert" /\ i = my[t].sub)
<1>0. Shape /\ Allocated
  BY Zenon DEF RegistryInv
<1> USE DEF registryVars, subVars, connVars, clientVars, taskVars
<1>1. CASE InsertChanges(t)
  BY <1>1, <1>0, Zenon DEF InsertChanges, Insert, Goto, Shape
<1>2. CASE RemoveChanges(t)
  BY <1>2, <1>0, Zenon DEF RemoveChanges, Remove, Drop, Goto, Done, Shape
<1>3. CASE UnregisterChanges(t)
  BY <1>3, <1>0, Zenon DEF UnregisterChanges, Unregister, Drop, Goto, Shape
<1>4. CASE ExpireChanges(t)
  BY <1>4, <1>0, Zenon DEF ExpireChanges, Expire, Drop, Goto, Shape
<1>5. CASE LoadGeneration(t)
  BY <1>5, <1>0, Zenon DEF LoadGeneration, Goto, Shape
<1>6. CASE Resolve(t)
  BY <1>6, <1>0, Zenon DEF Resolve, Goto, Shape
<1>7. CASE Other(t)
  <2>1. /\ registered' = registered
        /\ \A i \in Ids : sub[i] # NoSub => sub'[i] = sub[i]
        /\ \A d \in Conns \ {t} : pc'[d] = pc[d] /\ my'[d] = my[d]
    BY <1>7, <1>0, OtherStep, OtherIsLocal, Zenon
  <2>2. CASE Remember(t) \/ Forget(t) \/ Clear(t)
    BY <2>1, <2>2, <1>0, Zenon DEF Remember, Forget, Clear, Shape
  <2>3. CASE Swap(t)
    BY <2>1, <2>3, Zenon DEF Swap
  <2>4. CASE ~(Remember(t) \/ Forget(t) \/ Clear(t) \/ Swap(t))
    <3>1. known' = known /\ closed' = closed
      BY <1>7, <2>4, Zenon
         DEF Other, Read, StoreLimit, Pick, Count, Check, GiveDone, Settle, ReaderCloses,
             ReaderLeaves, SubscribeIgnored, SubscribeNew, UnsubscribeUnknown,
             UnsubscribeKnown, Publish, GiveSkipped, GiveQueued, GiveOverflows
    <3> QED BY <2>1, <3>1, Zenon
  <2> QED BY <2>2, <2>3, <2>4, Zenon
<1> QED
  BY <1>1, <1>2, <1>3, <1>4, <1>5, <1>6, <1>7, Zenon DEF RegistryStep

\* The labels between the first and the last step of a SUB or UNSUB.
Editing == {"insert", "remember", "limit", "forget", "remove"}

\* The steps that edit a connection's subscriptions.
Edits(t) ==
    \/ (\E r \in Subscribes : SubscribeNew(t, r)) \/ InsertChanges(t) \/ Remember(t)
    \/ (\E r \in Unsubscribes : UnsubscribeKnown(t, r)) \/ StoreLimit(t) \/ Forget(t)
    \/ RemoveChanges(t)

\* The other steps neither start nor end at one of those labels.
LEMMA NotEditing ==
    ASSUME RegistryInv, NEW t \in Conns, RegistryStep(t), ~Edits(t)
    PROVE  pc[t] \notin Editing /\ pc'[t] \notin Editing
<1>0. Shape
  BY Zenon DEF RegistryInv
<1> USE DEF taskVars, Editing
<1>1. CASE UnregisterChanges(t) \/ ExpireChanges(t)
  BY <1>1, <1>0, Zenon DEF UnregisterChanges, Unregister, ExpireChanges, Expire, Goto, Shape
<1>2. CASE LoadGeneration(t) \/ Resolve(t)
  BY <1>2, <1>0, Zenon DEF LoadGeneration, Resolve, Goto, Shape
<1>3. CASE Read(t) \/ ReaderCloses(t) \/ ReaderLeaves(t)
  BY <1>3, <1>0, Zenon DEF Read, ReaderCloses, ReaderLeaves, Goto, Shape
<1>4. CASE Pick(t) \/ Settle(t)
  BY <1>4, <1>0, Zenon DEF Pick, Settle, Goto, Done, Shape
<1>5. CASE Count(t) \/ Check(t) \/ GiveDone(t)
  BY <1>5, <1>0, Zenon DEF Count, Check, GiveDone, Goto, Shape
<1>6. CASE Swap(t) \/ Clear(t)
  BY <1>6, <1>0, Zenon DEF Swap, Clear, Goto, Shape
<1>7. ASSUME NEW r, SubscribeIgnored(t, r) \/ UnsubscribeUnknown(t, r) \/ Publish(t, r)
      PROVE  pc[t] \notin Editing /\ pc'[t] \notin Editing
  BY <1>7, <1>0, Zenon DEF SubscribeIgnored, UnsubscribeUnknown, Publish, Take, Goto, Shape
<1>8. ASSUME NEW i, GiveSkipped(t, i) \/ GiveQueued(t, i) \/ GiveOverflows(t, i)
      PROVE  pc[t] \notin Editing /\ pc'[t] \notin Editing
  BY <1>8, <1>0, Zenon DEF GiveSkipped, GiveQueued, GiveOverflows, Goto, Shape
<1> QED
  BY <1>1, <1>2, <1>3, <1>4, <1>5, <1>6, <1>7, <1>8, Zenon
     DEF RegistryStep, Other, Edits

-----------------------------------------------------------------------------
(* An UNSUB finds its subscription                                         *)

\* Whoever takes a connection's subscriptions away has closed it, and a reader
\* inserts subscriptions of its own connection.
Owned ==
    \A t \in Conns :
        /\ pc[t] \in {"unregister", "clear"} => my[t].victim \in closed
        /\ pc[t] \in {"insert", "remember"} =>
              /\ my[t].sub \in Ids /\ sub[my[t].sub] # NoSub
              /\ sub[my[t].sub].conn = t

\* What Conn.subs of connection c holds against what is registered for it: the
\* subscription a SUB or UNSUB is at may be in one and not in the other.
HeldBy(c) ==
    /\ \A i \in known[c] : i \in Ids /\ sub[i] # NoSub /\ sub[i].conn = c
    /\ \A i, j \in known[c] : sub[i].sid = sub[j].sid => i = j
    /\ pc[c] \in {"insert", "remember"} =>
          \A k \in known[c] : sub[k].sid # sub[my[c].sub].sid
    /\ pc[c] \in {"limit", "forget"} => my[c].sub \in known[c]
    /\ \A i \in registered : sub[i].conn = c =>
          i \in known[c] \/ (pc[c] \in {"remember", "remove"} /\ i = my[c].sub)

Held ==
    /\ \A i \in registered : sub[i].conn \in Conns
    /\ \A c \in Conns \ closed : HeldBy(c)

\* Swap sets the flag before it moves on, and SubscribeNew takes the command's
\* connection from the reader.
LEMMA OwnedStep ==
    ASSUME RegistryInv, Owned, NEW t \in Conns, RegistryStep(t)
    PROVE  Owned'
<1>0. Shape
  BY Zenon DEF RegistryInv
<1> SUFFICES ASSUME NEW d \in Conns
             PROVE  /\ pc'[d] \in {"unregister", "clear"} => my'[d].victim \in closed'
                    /\ pc'[d] \in {"insert", "remember"} =>
                          /\ my'[d].sub \in Ids /\ sub'[my'[d].sub] # NoSub
                          /\ sub'[my'[d].sub].conn = d
    BY Zenon DEF Owned
<1>1. CASE d # t
  BY <1>1, StepFrame DEF Owned
<1>2. CASE d = t /\ Edits(t)
  <2> USE <1>0, <1>2 DEF Goto, Done, registryVars, subVars, connVars, clientVars, taskVars
  <2>1. ASSUME NEW r \in Subscribes, SubscribeNew(t, r)
        PROVE  /\ pc'[t] = "insert" /\ my'[t].sub \in Ids /\ sub'[my'[t].sub] = r
               /\ r # NoSub /\ r.conn = t
    BY <2>1, DeliveryAssumption DEF SubscribeNew, Shape, DeliveryAssumption
  <2>2. CASE InsertChanges(t)
    BY <2>2, Zenon DEF InsertChanges, Insert, Shape, Owned
  <2>3. CASE Remember(t) \/ Forget(t) \/ RemoveChanges(t)
    BY <2>3, Zenon DEF Remember, Forget, RemoveChanges, Remove, Shape
  <2>4. CASE StoreLimit(t)
    BY <2>4, Zenon DEF StoreLimit, Shape
  <2>5. ASSUME NEW r \in Unsubscribes, UnsubscribeKnown(t, r)
        PROVE  pc'[t] = "limit"
    BY <2>5, Zenon DEF UnsubscribeKnown, Shape
  <2> QED BY <2>1, <2>2, <2>3, <2>4, <2>5, Zenon DEF Edits
<1>3. CASE d = t /\ ~Edits(t)
  <2>1. pc'[t] \notin {"insert", "remember"}
    BY <1>3, NotEditing, Zenon DEF Editing
  <2>2. CASE Swap(t) \/ Clear(t)
    BY <1>0, <1>3, <2>1, <2>2, Zenon DEF Swap, Clear, Goto, Shape
  <2>3. CASE UnregisterChanges(t)
    BY <1>0, <1>3, <2>1, <2>3, Zenon
       DEF UnregisterChanges, Unregister, Goto, Shape, connVars, Owned
  <2>4. CASE ~(Swap(t) \/ Clear(t) \/ UnregisterChanges(t))
    <3>1. pc'[t] \notin {"unregister", "clear"}
      <4> USE <1>0 DEF Goto, Done, taskVars, Shape
      <4>1. CASE ExpireChanges(t) \/ LoadGeneration(t) \/ Resolve(t)
        BY <4>1, Zenon DEF ExpireChanges, Expire, LoadGeneration, Resolve
      <4>2. CASE Read(t) \/ ReaderCloses(t) \/ ReaderLeaves(t) \/ Pick(t) \/ Settle(t)
        BY <4>2, Zenon DEF Read, ReaderCloses, ReaderLeaves, Pick, Settle
      <4>3. CASE Count(t) \/ Check(t) \/ GiveDone(t)
        BY <4>3, Zenon DEF Count, Check, GiveDone
      <4>4. ASSUME NEW r, SubscribeIgnored(t, r) \/ UnsubscribeUnknown(t, r) \/ Publish(t, r)
            PROVE  pc'[t] \notin {"unregister", "clear"}
        BY <4>4, Zenon DEF SubscribeIgnored, UnsubscribeUnknown, Publish, Take
      <4>5. ASSUME NEW i, GiveSkipped(t, i) \/ GiveQueued(t, i) \/ GiveOverflows(t, i)
            PROVE  pc'[t] \notin {"unregister", "clear"}
        BY <4>5, Zenon DEF GiveSkipped, GiveQueued, GiveOverflows
      <4> QED
        BY <1>3, <2>4, <4>1, <4>2, <4>3, <4>4, <4>5, Zenon DEF RegistryStep, Other, Edits
    <3> QED BY <1>3, <2>1, <3>1, Zenon
  <2> QED BY <2>2, <2>3, <2>4, Zenon
<1> QED BY <1>1, <1>2, <1>3, Zenon

\* A step keeps the table of an open connection in step with the registry.
LEMMA HeldStep ==
    ASSUME RegistryInv, Owned, Held, NEW t \in Conns, RegistryStep(t)
    PROVE  Held'
<1>0. Shape /\ Allocated
  BY Zenon DEF RegistryInv
<1>c. \A i \in registered' : sub'[i].conn \in Conns
  BY <1>0, StepFrame DEF Held, Owned, Allocated
<1> SUFFICES ASSUME NEW c \in Conns, c \notin closed' PROVE HeldBy(c)'
    BY <1>c, Zenon DEF Held
<1>1. c \notin closed /\ HeldBy(c)
  BY StepFrame, Zenon DEF Held
<1>2. ~(pc[t] = "clear" /\ my[t].victim = c)
  BY <1>1, Zenon DEF Owned
<1>3. \A i \in registered : i \in Ids /\ sub[i] # NoSub /\ sub'[i] = sub[i]
  BY <1>0, StepFrame, Zenon DEF Allocated
<1>4. \A i \in known[c] : i \in Ids /\ sub[i] # NoSub /\ sub'[i] = sub[i] /\ sub[i].conn = c
  BY <1>1, StepFrame, Zenon DEF HeldBy
<1>5. CASE c # t
  <2>1. known'[c] = known[c] /\ pc'[c] = pc[c] /\ my'[c] = my[c]
    BY <1>2, <1>5, StepFrame
  <2>2. pc[t] = "insert" => my[t].sub \in Ids /\ sub'[my[t].sub].conn = t
    BY StepFrame, Zenon DEF Owned
  <2>3. pc[c] \in {"insert", "remember"} => sub'[my[c].sub] = sub[my[c].sub]
    BY StepFrame, Zenon DEF Owned
  <2> QED
    BY <1>1, <1>3, <1>4, <1>5, <2>1, <2>2, <2>3, StepFrame, SMTT(40) DEF HeldBy
<1>6. CASE c = t /\ ~Edits(t)
  <2>1. pc[c] \notin Editing /\ pc'[c] \notin Editing
    BY <1>6, NotEditing, Zenon
  <2>2. known'[c] = known[c] /\ \A i \in registered' : i \in registered
    BY <1>2, <1>6, <2>1, StepFrame, Zenon DEF Editing
  <2> QED
    BY <1>1, <1>3, <1>4, <2>1, <2>2, Zenon DEF HeldBy, Editing
<1>7. CASE c = t /\ Edits(t)
  <2> USE <1>0, <1>7 DEF Goto, Done, registryVars, subVars, connVars, clientVars, taskVars
  <2>1. ASSUME NEW r \in Subscribes, SubscribeNew(c, r) PROVE HeldBy(c)'
    <3>1. PICK i \in Ids : /\ sub[i] = NoSub /\ sub' = [sub EXCEPT ![i] = r]
                           /\ my' = [my EXCEPT ![c].sub = i]
      BY <2>1, Zenon DEF SubscribeNew
    <3>2. /\ known' = known /\ registered' = registered /\ pc[c] = "idle" /\ pc'[c] = "insert"
          /\ \A k \in known[c] : sub[k].sid # r.sid
      BY <2>1, Zenon DEF SubscribeNew, Take, Shape
    <3>3. my'[c].sub = i /\ sub'[i] = r
      BY <3>1, Zenon DEF Shape
    <3> QED BY <1>1, <1>3, <1>4, <3>2, <3>3, SMTT(40) DEF HeldBy
  <2>2. CASE InsertChanges(c)
    <3>1. /\ pc[c] = "insert" /\ pc'[c] = "remember" /\ UNCHANGED <<sub, known, my>>
          /\ \A i \in registered' : i \in registered \/ i = my[c].sub
      BY <2>2, Zenon DEF InsertChanges, Insert, Shape
    <3> QED BY <1>1, <3>1, Zenon DEF HeldBy
  <2>3. CASE Remember(c)
    <3>1. /\ pc[c] = "remember" /\ pc'[c] = "idle" /\ UNCHANGED <<sub, registered>>
          /\ known'[c] = {i \in known[c] : sub[i].sid # sub[my[c].sub].sid} \cup {my[c].sub}
      BY <2>3, Zenon DEF Remember, Shape
    <3>2. my[c].sub \in Ids /\ sub[my[c].sub] # NoSub /\ sub[my[c].sub].conn = c
      BY <3>1, Zenon DEF Owned
    <3>3. known'[c] = known[c] \cup {my[c].sub}
      BY <1>1, <3>1, Zenon DEF HeldBy
    <3> QED BY <1>1, <3>1, <3>2, <3>3, Zenon DEF HeldBy
  <2>4. ASSUME NEW r \in Unsubscribes, UnsubscribeKnown(c, r) PROVE HeldBy(c)'
    <3>1. PICK i \in known[c] :
             my' = [my EXCEPT ![c].sub = i, ![c].max = r.max, ![c].keep = Keeps(i, r.max)]
      BY <2>4, Zenon DEF UnsubscribeKnown
    <3> DEFINE k == Keeps(i, r.max)
    <3>2. my' = [my EXCEPT ![c].sub = i, ![c].max = r.max, ![c].keep = k]
      BY <3>1, Zenon
    <3> HIDE DEF k
    <3>3. my'[c].sub = i
      BY <3>2, Zenon DEF Shape
    <3>4. /\ pc[c] = "idle" /\ pc'[c] = "limit" /\ UNCHANGED <<sub, known, registered>>
      BY <2>4, Zenon DEF UnsubscribeKnown, Take, Shape
    <3> QED BY <1>1, <3>3, <3>4, Zenon DEF HeldBy
  <2>5. CASE StoreLimit(c)
    <3>1. /\ pc[c] = "limit" /\ UNCHANGED <<sub, known, registered>>
          /\ \/ pc'[c] = "idle"
             \/ pc'[c] = "forget" /\ my' = my
      BY <2>5, Zenon DEF StoreLimit, Shape
    <3> QED BY <1>1, <3>1, Zenon DEF HeldBy
  <2>6. CASE Forget(c)
    <3>1. /\ pc[c] = "forget" /\ pc'[c] = "remove" /\ UNCHANGED <<sub, registered, my>>
          /\ known'[c] = {i \in known[c] : sub[i].sid # sub[my[c].sub].sid}
      BY <2>6, Zenon DEF Forget, Shape
    <3>2. \A i \in known[c] : i \in known'[c] \/ i = my[c].sub
      BY <1>1, <3>1, Zenon DEF HeldBy
    <3> QED BY <1>1, <3>1, <3>2, Zenon DEF HeldBy
  <2>7. CASE RemoveChanges(c)
    <3>1. /\ pc[c] = "remove" /\ pc'[c] = "idle" /\ UNCHANGED <<sub, known>>
          /\ registered' = registered \ RemovedWith(my[c].sub)
      BY <2>7, Zenon DEF RemoveChanges, Remove, Drop, Shape
    <3>2. my[c].sub \notin registered'
      BY <3>1, Zenon DEF RemovedWith
    <3> QED BY <1>1, <3>1, <3>2, Zenon DEF HeldBy
  <2> QED BY <1>7, <2>1, <2>2, <2>3, <2>4, <2>5, <2>6, <2>7, Zenon DEF Edits
<1> QED BY <1>5, <1>6, <1>7, Zenon

\* Every registered subscription of an open connection whose reader is between
\* two commands is in Conn.subs, so that an UNSUB of its sid finds it, however
\* the other connections publish, expire and close meanwhile.
THEOREM RegistryUnsubReaches == RegistrySpec => []UnsubReaches
<1>1. RegistryInit => Owned /\ Held
  BY Zenon DEF RegistryInit, Init, Owned, Held, HeldBy
<1>2. RegistryInv /\ Owned /\ Held /\ [RegistryNext]_registryState => Owned' /\ Held'
  <2>1. ASSUME RegistryInv, Owned, Held, UNCHANGED registryState PROVE Owned' /\ Held'
    <3>1. UNCHANGED <<pc, my, sub, known, registered, closed>>
      BY <2>1, Zenon DEF registryState, vars, registryVars, subVars, connVars, clientVars, taskVars
    <3> QED BY <2>1, <3>1 DEF Owned, Held, HeldBy
  <2> QED BY <2>1, OwnedStep, HeldStep, Zenon DEF RegistryNext
<1>3. RegistryInv /\ Held => UnsubReaches
  <2> SUFFICES ASSUME Held, NEW i \in registered, sub[i].conn \notin closed,
                      pc[sub[i].conn] = "idle"
               PROVE  i \in known[sub[i].conn]
    BY Zenon DEF UnsubReaches
  <2> QED BY Zenon DEF Held, HeldBy
<1> QED
  BY <1>1, <1>2, <1>3, InitRegistryInv, NextRegistryInv, PTL DEF RegistrySpec

-----------------------------------------------------------------------------
(* A connection that closes itself leaves nothing behind                   *)

Closing == {"swap", "unregister", "clear"}

\* Only the reader closes its connection, it runs no command afterwards, and each
\* step of finish has taken its part away.
Ending ==
    /\ \A t \in Conns : pc[t] \in Closing => my[t].victim = t /\ my[t].ret = "ended"
    /\ closed \subseteq Conns
    /\ \A c \in closed :
          /\ pc[c] \in {"unregister", "clear", "ended"}
          /\ pc[c] \in {"clear", "ended"} => \A i \in registered : sub[i].conn # c
          /\ pc[c] = "ended" => known[c] = {}

\* Without overflows, the steps of finish are those of the closing reader.
LEMMA EndingStep ==
    ASSUME SlowConsumers = {}, RegistryInv, Owned, Ending, NEW t \in Conns, RegistryStep(t)
    PROVE  Ending'
<1>0. Shape /\ Allocated
  BY Zenon DEF RegistryInv
<1>f. \A i \in registered' :
         /\ \/ i \in registered /\ sub'[i] = sub[i]
            \/ pc[t] = "insert" /\ i = my[t].sub /\ sub'[i].conn = t
  BY <1>0, StepFrame DEF Owned, Allocated
<1> USE DEF registryVars, subVars, connVars, clientVars, taskVars, Goto, Done
<1>1. CASE Swap(t)
  <2>1. /\ my[t].victim = t /\ my' = my /\ closed' = closed \cup {t}
        /\ pc' = [pc EXCEPT ![t] = "unregister"] /\ UNCHANGED <<registered, sub, known>>
    BY <1>1, Zenon DEF Swap, Ending, Closing
  <2> QED BY <1>0, <1>1, <2>1 DEF Ending, Closing, Shape, Swap
<1>2. CASE UnregisterChanges(t)
  <2>1. /\ pc[t] = "unregister" /\ my[t].victim = t /\ my' = my /\ closed' = closed
        /\ pc' = [pc EXCEPT ![t] = "clear"] /\ UNCHANGED <<sub, known>>
        /\ registered' = {i \in registered : sub[i].conn # t}
    BY <1>2 DEF UnregisterChanges, Unregister, Drop, Ending, Closing
  <2> QED BY <1>0, <2>1, Zenon DEF Ending, Closing, Shape
<1>3. CASE Clear(t)
  <2>1. /\ pc[t] = "clear" /\ my[t].victim = t /\ my' = my /\ closed' = closed
        /\ pc' = [pc EXCEPT ![t] = "ended"] /\ UNCHANGED <<sub, registered>>
        /\ known' = [known EXCEPT ![t] = {}]
    BY <1>3, Zenon DEF Clear, Ending, Closing
  <2> QED BY <1>0, <2>1, Zenon DEF Ending, Closing, Shape
<1>4. CASE ~(Swap(t) \/ UnregisterChanges(t) \/ Clear(t))
  <2>1. /\ pc[t] \notin {"unregister", "clear", "ended"} /\ closed' = closed
        /\ pc'[t] \in Closing => my'[t].victim = t /\ my'[t].ret = "ended"
    <3> USE <1>0 DEF Closing, Shape
    <3>1. CASE InsertChanges(t) \/ RemoveChanges(t) \/ ExpireChanges(t)
      BY <3>1, Zenon DEF InsertChanges, Insert, RemoveChanges, Remove, ExpireChanges, Expire
    <3>2. CASE LoadGeneration(t) \/ Resolve(t)
      BY <3>2, Zenon DEF LoadGeneration, Resolve
    <3>3. CASE Read(t) \/ ReaderCloses(t)
      BY <3>3 DEF Read, ReaderCloses
    <3>4. CASE ReaderLeaves(t)
      BY <3>4, Zenon DEF ReaderLeaves, Ending
    <3>5. CASE Pick(t) \/ Settle(t)
      BY <3>5, Zenon DEF Pick, Settle
    <3>6. CASE Count(t) \/ Check(t) \/ GiveDone(t)
      BY <3>6, Zenon DEF Count, Check, GiveDone
    <3>7. CASE Remember(t) \/ Forget(t)
      BY <3>7, Zenon DEF Remember, Forget
    <3>8. CASE StoreLimit(t)
      BY <3>8, Zenon DEF StoreLimit
    <3>9. ASSUME NEW r, SubscribeIgnored(t, r) \/ SubscribeNew(t, r) \/ Publish(t, r)
                        \/ UnsubscribeUnknown(t, r) \/ UnsubscribeKnown(t, r)
          PROVE  /\ pc[t] \notin {"unregister", "clear", "ended"} /\ closed' = closed
                 /\ pc'[t] \in Closing => my'[t].victim = t /\ my'[t].ret = "ended"
      BY <3>9, Zenon DEF SubscribeIgnored, SubscribeNew, Publish, UnsubscribeUnknown,
                  UnsubscribeKnown, Take
    <3>10. ASSUME NEW i, GiveSkipped(t, i) \/ GiveQueued(t, i)
           PROVE  /\ pc[t] \notin {"unregister", "clear", "ended"} /\ closed' = closed
                  /\ pc'[t] \in Closing => my'[t].victim = t /\ my'[t].ret = "ended"
      BY <3>10, Zenon DEF GiveSkipped, GiveQueued
    <3>11. ~\E i : GiveOverflows(t, i)
      BY Zenon DEF GiveOverflows
    <3> QED
      BY <1>4, <3>1, <3>2, <3>3, <3>4, <3>5, <3>6, <3>7, <3>8, <3>9, <3>10, <3>11, Zenon
         DEF RegistryStep, Other
  <2>2. t \notin closed
    BY <2>1, Zenon DEF Ending
  <2>3. \A d \in closed : pc'[d] = pc[d] /\ known'[d] = known[d]
    BY <2>1, <2>2, StepFrame DEF Ending
  <2>4. \A d \in Conns \ {t} : pc'[d] = pc[d] /\ my'[d] = my[d]
    BY StepFrame, Zenon
  <2> QED BY <1>f, <2>1, <2>2, <2>3, <2>4, SMTT(40) DEF Ending
<1> QED BY <1>1, <1>2, <1>3, <1>4, Zenon

\* A connection closed by its own reader (end of file, a protocol error, a stale
\* client) has no subscription left in the registry nor in Conn.subs once its
\* task has ended.  The hypothesis rules out the close from a publisher's task,
\* after which a SUB of the same read is still registered (RegistryLeak.cfg).
THEOREM RegistryClosedHasNoInterest ==
    ASSUME SlowConsumers = {}
    PROVE  RegistrySpec => []ClosedHasNoInterest
<1>1. RegistryInit => Owned /\ Ending
  BY Zenon DEF RegistryInit, Init, Owned, Ending, Closing
<1>2. RegistryInv /\ Owned /\ Ending /\ [RegistryNext]_registryState => Owned' /\ Ending'
  <2>1. ASSUME Owned, Ending, UNCHANGED registryState PROVE Owned' /\ Ending'
    <3>1. UNCHANGED <<pc, my, sub, known, registered, closed>>
      BY <2>1, Zenon DEF registryState, vars, registryVars, subVars, connVars, clientVars, taskVars
    <3> QED BY <2>1, <3>1, Zenon DEF Owned, Ending, Closing
  <2> QED BY <2>1, OwnedStep, EndingStep, Zenon DEF RegistryNext
<1>3. Ending => ClosedHasNoInterest
  BY Zenon DEF Ending, ClosedHasNoInterest
<1> QED
  BY <1>1, <1>2, <1>3, InitRegistryInv, NextRegistryInv, PTL DEF RegistrySpec

-----------------------------------------------------------------------------
(* The fan-out of a publish                                                *)

\* What has been queued for a connection, and the frame of one copy.
Arrived(c) == {inbox[c][k] : k \in DOMAIN inbox[c]}
Copy(i, p, n) == [sub |-> i, from |-> p, seq |-> n]
Frame == [sub : Ids \cup {NoSub}, from : Conns, seq : Nat]

\* No copy is queued twice.
Once(c) ==
    \A k, l \in DOMAIN inbox[c] :
        k # l /\ inbox[c][k].sub # NoSub => inbox[c][k] # inbox[c][l]

\* Frames are numbered by their publisher's count, their subscriptions exist,
\* and a status goes to the publisher.
Frames ==
    /\ inbox \in [Conns -> Seq(Frame)] /\ sent \in [Conns -> Nat]
    /\ \A i \in Ids : sub[i] # NoSub => sub[i].conn \in Conns
    /\ \A c \in Conns : \A f \in Arrived(c) :
          /\ f.seq <= sent[f.from]
          /\ f.sub # NoSub => sub[f.sub] # NoSub
          /\ f.sub = NoSub => f.from = c
    /\ \A c \in Conns : Once(c)

\* The copy of the message task c is routing has been queued for subscription i.
Got(i, c) == Copy(i, c, sent[c]) \in Arrived(sub[i].conn)

\* Task c has matched its message and is giving out the copies; finish may run
\* inside, for a subscriber whose queue overflowed.
Matched == {"give", "count", "check", "expire", "settle"}
Working(c) == pc[c] \in Matched \/ (pc[c] \in Closing /\ my[c].ret = "give")
Starting == {"match", "resolve", "pick"}

\* Subscription i was left out because its connection closed, or is being closed
\* by this task.
Lost(i, c) ==
    \/ sub[i].conn \in closed
    \/ pc[c] = "swap" /\ my[c].victim = sub[i].conn

\* The locals of route.
Locals(c) ==
    /\ {"sub", "n", "todo", "count", "matched", "expired", "victim", "ret"} \subseteq DOMAIN my[c]
    /\ pc[c] = "idle" => my[c] = Idle
    /\ pc[c] \in Starting => my[c].todo = {} /\ my[c].count = 0
    /\ pc[c] \in {"expire", "settle"} => my[c].todo = {}
    /\ pc[c] \in Closing => my[c].ret \in {"give", "ended"}
    /\ my[c].count \in Nat
    /\ pc[c] = "pick" => IsFiniteSet(my[c].matched)
    /\ pc[c] = "pick" \/ Working(c) => \A i \in my[c].matched : i \in Ids /\ sub[i] # NoSub

\* Before the first copy, nothing carries the number of the message.
Unsent(c) ==
    pc[c] \in Starting =>
        \A d \in Conns : \A f \in Arrived(d) : f.from = c => f.seq # sent[c]

\* The copies given and the copies to give: one per group, none twice.
Given(c) ==
    Working(c) =>
        /\ \A i \in my[c].todo : i \in Ids /\ sub[i] # NoSub /\ ~Got(i, c)
        /\ \A i, j \in Ids :
              /\ i \in my[c].todo \/ (sub[i] # NoSub /\ Got(i, c))
              /\ j \in my[c].todo \/ (sub[j] # NoSub /\ Got(j, c))
              /\ sub[i].queue = sub[j].queue /\ sub[i].queue # NoQueue
              => i = j
        /\ my[c].count = 0 => \A i \in Ids : sub[i] # NoSub => ~Got(i, c)
        /\ \A f \in Arrived(c) : f.sub = NoSub => f.seq # sent[c]

\* Who matched is served, is still to be, or went away.
Served(c) ==
    Working(c) =>
        /\ \A i \in my[c].todo : sub[i].queue # NoQueue => ~(sub[i].conn = c /\ c \notin Echo)
        /\ \A i \in my[c].matched : sub[i].queue = NoQueue =>
              i \in my[c].todo \/ Got(i, c) \/ ~Eligible(i, c) \/ Lost(i, c)
        /\ \A i \in my[c].matched : sub[i].queue # NoQueue /\ Eligible(i, c) =>
              \E j \in my[c].matched :
                 /\ sub[j].queue = sub[i].queue
                 /\ j \in my[c].todo \/ Got(j, c) \/ Lost(j, c)

FanoutInv ==
    /\ Frames /\ GroupOnce /\ StatusMeansNobody
    /\ \A c \in Conns : Locals(c) /\ Unsent(c) /\ Given(c) /\ Served(c)

-----------------------------------------------------------------------------
(* What arrives                                                            *)

\* Appending to a queue adds the one frame.
LEMMA Appends ==
    ASSUME NEW S, NEW s \in Seq(S), NEW f \in S
    PROVE  /\ Append(s, f) \in Seq(S)
           /\ \A k \in DOMAIN Append(s, f) :
                 \/ k \in DOMAIN s /\ Append(s, f)[k] = s[k]
                 \/ k = Len(s) + 1 /\ k \notin DOMAIN s /\ Append(s, f)[k] = f
           /\ \A k \in DOMAIN s : k \in DOMAIN Append(s, f) /\ Append(s, f)[k] = s[k]
           /\ Len(s) + 1 \in DOMAIN Append(s, f) /\ Append(s, f)[Len(s) + 1] = f
OBVIOUS

\* Adding the same frame n times.
LEMMA Repeats ==
    ASSUME NEW S, NEW s \in Seq(S), NEW f \in S, NEW n \in Nat
    PROVE  LET r == s \o [k \in 1..n |-> f] IN
           /\ r \in Seq(S)
           /\ \A k \in DOMAIN r : \/ k \in DOMAIN s /\ r[k] = s[k]
                                  \/ n # 0 /\ k \notin DOMAIN s /\ r[k] = f
           /\ \A k \in DOMAIN s : k \in DOMAIN r /\ r[k] = s[k]
<1>1. [k \in 1..n |-> f] \in Seq(S) /\ Len([k \in 1..n |-> f]) = n
  OBVIOUS
<1> QED BY <1>1

\* The steps that publish.
Publishing(t) == \E r \in Publishes : Publish(t, r)
Giving(t) == \E i \in Ids : GiveQueued(t, i)

\* The other steps leave the queues and the numbering alone.
LEMMA Silent ==
    ASSUME NEW t \in Conns, RegistryStep(t), ~Publishing(t), ~Giving(t), ~Settle(t)
    PROVE  UNCHANGED <<inbox, sent>>
<1> USE DEF clientVars
<1>1. CASE Other(t)
  BY <1>1, Zenon DEF Publishing, Giving, Other, Read, Remember, StoreLimit, Forget, Pick, Count,
     Check, GiveDone, ReaderCloses, ReaderLeaves, Swap, Clear, SubscribeIgnored, SubscribeNew,
     UnsubscribeUnknown, UnsubscribeKnown, GiveSkipped, GiveOverflows
<1>2. CASE LoadGeneration(t) \/ Resolve(t)
  BY <1>2, Zenon DEF LoadGeneration, Resolve
<1>3. CASE InsertChanges(t) \/ RemoveChanges(t) \/ UnregisterChanges(t) \/ ExpireChanges(t)
  BY <1>3, Zenon DEF InsertChanges, Insert, RemoveChanges, Remove, UnregisterChanges, Unregister,
     ExpireChanges, Expire
<1> QED BY <1>1, <1>2, <1>3, Zenon DEF RegistryStep

\* A copy goes to the queue of its subscription's connection.
LEMMA GivingArrives ==
    ASSUME Frames, NEW t \in Conns, NEW i \in Ids, GiveQueued(t, i), sub[i] # NoSub,
           NEW d \in Conns, sub[i].conn = d, Copy(i, t, sent[t]) \notin Arrived(d)
    PROVE  /\ UNCHANGED <<sent, sub>>
           /\ inbox' \in [Conns -> Seq(Frame)]
           /\ \A e \in Conns \ {d} : inbox'[e] = inbox[e]
           /\ Arrived(d)' = Arrived(d) \cup {Copy(i, t, sent[t])}
           /\ Once(d)'
<1> DEFINE f == Copy(i, t, sent[t])
<1>1. d \in Conns /\ f \in Frame /\ inbox[d] \in Seq(Frame) /\ f \notin Arrived(d)
  BY Zenon DEF Frames, Frame, Copy
<1>2. UNCHANGED <<sent, sub>> /\ inbox' = [inbox EXCEPT ![d] = Append(inbox[d], f)]
  BY Zenon DEF GiveQueued, subVars, Copy
<1>3. \A k, l \in DOMAIN inbox[d] : k # l /\ inbox[d][k].sub # NoSub => inbox[d][k] # inbox[d][l]
  BY <1>1, Zenon DEF Frames, Once
<1> HIDE DEF f
<1>4. inbox'[d] = Append(inbox[d], f) /\ \A e \in Conns \ {d} : inbox'[e] = inbox[e]
  BY <1>1, <1>2, Zenon DEF Frames
<1>5. inbox' \in [Conns -> Seq(Frame)]
  BY <1>1, <1>2, Appends, SMTT(40) DEF Frames
<1>6. {inbox'[d][k] : k \in DOMAIN inbox'[d]} = {inbox[d][k] : k \in DOMAIN inbox[d]} \cup {f}
  <2>1. \A k \in DOMAIN inbox'[d] : inbox'[d][k] \in {inbox[d][n] : n \in DOMAIN inbox[d]} \cup {f}
    BY <1>1, <1>4, Appends, SMTT(40)
  <2>2. \A k \in DOMAIN inbox[d] : inbox[d][k] \in {inbox'[d][n] : n \in DOMAIN inbox'[d]}
    BY <1>1, <1>4, Appends, SMTT(40)
  <2>3. f \in {inbox'[d][n] : n \in DOMAIN inbox'[d]}
    BY <1>1, <1>4, Appends, SMTT(40)
  <2> QED BY <2>1, <2>2, <2>3, SMTT(40)
<1>7. ASSUME NEW k \in DOMAIN inbox'[d], NEW l \in DOMAIN inbox'[d], k # l,
             inbox'[d][k].sub # NoSub
      PROVE  inbox'[d][k] # inbox'[d][l]
  <2>1. \A n \in DOMAIN inbox[d] : inbox[d][n] # f
    BY <1>1, Zenon DEF Arrived
  <2> QED BY <1>1, <1>3, <1>4, <1>7, <2>1, Appends, SMTT(40)
<1> QED BY <1>2, <1>4, <1>5, <1>6, <1>7, SMTT(40) DEF f, Arrived, Once

\* A status goes to the publisher of a message that reached nobody.
LEMMA SettlingArrives ==
    ASSUME Frames, Counted, NEW t \in Conns, Settle(t)
    PROVE  /\ UNCHANGED <<sent, sub>>
           /\ inbox' \in [Conns -> Seq(Frame)]
           /\ \A d \in Conns \ {t} : inbox'[d] = inbox[d]
           /\ Arrived(t) \subseteq Arrived(t)'
           /\ \A f \in Arrived(t)' : f \in Arrived(t) \/
                 (f = Copy(NoSub, t, sent[t]) /\ my[t].count = 0)
           /\ Once(t)'
           /\ \A k \in DOMAIN inbox'[t] : \/ k \in DOMAIN inbox[t] /\ inbox'[t][k] = inbox[t][k]
                                          \/ inbox'[t][k].sub = NoSub
           /\ \A k \in DOMAIN inbox[t] : k \in DOMAIN inbox'[t] /\ inbox'[t][k] = inbox[t][k]
<1> DEFINE f == Copy(NoSub, t, sent[t])
<1>0. UNCHANGED <<sent, sub>>
  BY Zenon DEF Settle, subVars
<1>1. f \in Frame /\ inbox[t] \in Seq(Frame) /\ f.sub = NoSub
  BY Zenon DEF Frames, Frame, Copy
<1>2. IsFiniteSet(Unanswered(t)) /\ Cardinality(Unanswered(t)) \in Nat
  <2>1. Unanswered(t) \subseteq registered
    BY Zenon DEF Unanswered, Matching
  <2> QED BY <2>1, FS_Subset, FS_CardinalityType, Zenon DEF Counted
<1>3. my[t].count # 0 => Cardinality(Unanswered(t)) = 0
  BY FS_EmptySet, Zenon DEF Unanswered
<1>4. PICK n \in 0..Cardinality(Unanswered(t)) :
         inbox' = [inbox EXCEPT ![t] = inbox[t] \o [k \in 1..n |-> f]]
  BY Zenon DEF Settle, Copy
<1>5. n \in Nat /\ (n # 0 => my[t].count = 0)
  BY <1>2, <1>3, <1>4
<1> DEFINE r == inbox[t] \o [k \in 1..n |-> f]
<1>6. \A k, l \in DOMAIN inbox[t] : k # l /\ inbox[t][k].sub # NoSub => inbox[t][k] # inbox[t][l]
  BY Zenon DEF Frames, Once
<1> HIDE DEF f
<1>7. /\ r \in Seq(Frame)
      /\ \A k \in DOMAIN r : \/ k \in DOMAIN inbox[t] /\ r[k] = inbox[t][k]
                             \/ n # 0 /\ k \notin DOMAIN inbox[t] /\ r[k] = f
      /\ \A k \in DOMAIN inbox[t] : k \in DOMAIN r /\ r[k] = inbox[t][k]
  BY <1>1, <1>5, Repeats, SMTT(40)
<1> HIDE DEF r
<1>8. inbox' \in [Conns -> Seq(Frame)] /\ inbox'[t] = r
      /\ \A d \in Conns \ {t} : inbox'[d] = inbox[d]
  BY <1>4, <1>7, Zenon DEF Frames, r
<1>9. Arrived(t) \subseteq Arrived(t)'
  BY <1>7, <1>8, Zenon DEF Arrived
<1>10. \A g \in Arrived(t)' : g \in Arrived(t) \/ (g = f /\ n # 0)
  BY <1>7, <1>8, Zenon DEF Arrived
<1>11. \A k, l \in DOMAIN r : k # l /\ r[k].sub # NoSub => r[k] # r[l]
  BY <1>1, <1>6, <1>7, Zenon
<1>12. /\ \A k \in DOMAIN inbox'[t] : \/ k \in DOMAIN inbox[t] /\ inbox'[t][k] = inbox[t][k]
                                      \/ inbox'[t][k].sub = NoSub
       /\ \A k \in DOMAIN inbox[t] : k \in DOMAIN inbox'[t] /\ inbox'[t][k] = inbox[t][k]
  BY <1>1, <1>7, <1>8, Zenon
<1> QED BY <1>0, <1>5, <1>8, <1>9, <1>10, <1>11, <1>12, Zenon DEF f, Once

\* The frames a step of task t may add to connection d.
NewFrame(t, d, f) ==
    \/ \E i \in Ids : /\ GiveQueued(t, i) /\ sub[i] # NoSub /\ sub[i].conn = d
                     /\ f = Copy(i, t, sent[t])
    \/ Settle(t) /\ d = t /\ f = Copy(NoSub, t, sent[t]) /\ my[t].count = 0

\* Queues only grow, by frames of the message at hand, and never by the same copy.
LEMMA Arrivals ==
    ASSUME RegistryInv, FanoutInv, NEW t \in Conns, RegistryStep(t)
    PROVE  /\ inbox' \in [Conns -> Seq(Frame)] /\ sent' \in [Conns -> Nat]
           /\ \A d \in Conns \ {t} : sent'[d] = sent[d]
           /\ Publishing(t) => sent'[t] = sent[t] + 1 /\ inbox' = inbox
           /\ ~Publishing(t) => sent'[t] = sent[t]
           /\ \A d \in Conns : Arrived(d) \subseteq Arrived(d)'
           /\ \A d \in Conns : \A f \in Arrived(d)' : f \in Arrived(d) \/ NewFrame(t, d, f)
           /\ \A i \in Ids, d \in Conns : GiveQueued(t, i) /\ sub[i].conn = d =>
                 Copy(i, t, sent[t]) \in Arrived(d)'
           /\ \A d \in Conns : Once(d)'
<1>0. Frames /\ Counted /\ Given(t)
  BY Zenon DEF FanoutInv, RegistryInv
<1>1. CASE Publishing(t)
  <2>1. inbox' = inbox /\ sent' = [sent EXCEPT ![t] = @ + 1] /\ pc[t] = "idle"
    BY <1>1, Zenon DEF Publishing, Publish, Take
  <2>2. \A i : ~GiveQueued(t, i)
    BY <2>1, Zenon DEF GiveQueued
  <2> QED BY <1>0, <1>1, <2>1, <2>2, SMTT(40) DEF Frames, Arrived, Once
<1>2. CASE Giving(t)
  <2>1. PICK i \in Ids : GiveQueued(t, i)
    BY <1>2, Zenon DEF Giving
  <2>2. i \in my[t].todo /\ pc[t] = "give"
    BY <2>1, Zenon DEF GiveQueued
  <2>3. sub[i] # NoSub /\ ~Got(i, t)
    BY <1>0, <2>2, Zenon DEF Given, Working, Matched
  <2>4. PICK d \in Conns : sub[i].conn = d
    BY <1>0, <2>3, Zenon DEF Frames
  <2>5. /\ UNCHANGED <<sent, sub>>
        /\ inbox' \in [Conns -> Seq(Frame)]
        /\ \A e \in Conns \ {d} : inbox'[e] = inbox[e]
        /\ Arrived(d)' = Arrived(d) \cup {Copy(i, t, sent[t])}
        /\ Once(d)'
    BY <1>0, <2>1, <2>3, <2>4, GivingArrives, Zenon DEF Got
  <2>6. ~Publishing(t)
    BY <2>2, Zenon DEF Publishing, Publish, Take
  <2>7. \A e \in Conns \ {d} : Arrived(e)' = Arrived(e)
    BY <2>5, Zenon DEF Arrived
  <2>8. ASSUME NEW j \in Ids, NEW e \in Conns, GiveQueued(t, j), sub[j].conn = e
        PROVE  Copy(j, t, sent[t]) \in Arrived(e)'
    <3>1. j \in my[t].todo
      BY <2>8, Zenon DEF GiveQueued
    <3>2. sub[j] # NoSub /\ ~Got(j, t)
      BY <1>0, <2>2, <3>1, Zenon DEF Given, Working, Matched
    <3>3. Copy(j, t, sent[t]) \notin Arrived(e)
      BY <2>8, <3>2, Zenon DEF Got
    <3>4. Arrived(e)' = Arrived(e) \cup {Copy(j, t, sent[t])}
      BY <1>0, <2>8, <3>2, <3>3, GivingArrives, Zenon
    <3> QED BY <3>4, Zenon
  <2>9. \A e \in Conns : \A f \in Arrived(e)' : f \in Arrived(e) \/ NewFrame(t, e, f)
    BY <2>1, <2>3, <2>4, <2>5, <2>7, Zenon DEF NewFrame
  <2>10. ASSUME NEW e \in Conns PROVE Once(e)'
    <3>1. CASE e # d
      <4>1. inbox'[e] = inbox[e] /\ Once(e)
        BY <1>0, <2>5, <3>1, Zenon DEF Frames
      <4> QED BY <4>1, Zenon DEF Once
    <3> QED BY <2>5, <3>1, Zenon
  <2>11. sent \in [Conns -> Nat]
    BY <1>0, Zenon DEF Frames
  <2> QED BY <2>5, <2>6, <2>7, <2>8, <2>9, <2>10, <2>11, Zenon
<1>3. CASE Settle(t)
  <2>1. /\ UNCHANGED <<sent, sub>>
        /\ inbox' \in [Conns -> Seq(Frame)]
        /\ \A d \in Conns \ {t} : inbox'[d] = inbox[d]
        /\ Arrived(t) \subseteq Arrived(t)'
        /\ \A f \in Arrived(t)' : f \in Arrived(t) \/
              (f = Copy(NoSub, t, sent[t]) /\ my[t].count = 0)
        /\ Once(t)'
    BY <1>0, <1>3, SettlingArrives, Zenon
  <2>2. ~Publishing(t) /\ \A i : ~GiveQueued(t, i)
    BY <1>3, Zenon DEF Publishing, Publish, Take, Settle, GiveQueued
  <2>3. \A e \in Conns \ {t} : Arrived(e)' = Arrived(e)
    BY <2>1, Zenon DEF Arrived
  <2>4. \A e \in Conns : \A f \in Arrived(e)' : f \in Arrived(e) \/ NewFrame(t, e, f)
    BY <1>3, <2>1, <2>3, Zenon DEF NewFrame
  <2>5. /\ sent \in [Conns -> Nat]
        /\ \A e \in Conns : Once(e)'
    BY <1>0, <2>1, SMTT(40) DEF Frames, Once
  <2> QED BY <2>1, <2>2, <2>3, <2>4, <2>5, Zenon
<1>4. CASE ~Publishing(t) /\ ~Giving(t) /\ ~Settle(t)
  <2>1. UNCHANGED <<inbox, sent>>
    BY <1>4, Silent, Zenon
  <2> QED BY <1>0, <1>4, <2>1, SMTT(40) DEF Giving, Frames, Arrived, Once
<1> QED BY <1>1, <1>2, <1>3, <1>4, Zenon

\* A subscription is written once, by the reader of its connection.
LEMMA SubStep ==
    ASSUME RegistryInv, NEW t \in Conns, RegistryStep(t), NEW i \in Ids
    PROVE  sub'[i] = sub[i] \/ (sub[i] = NoSub /\ sub'[i] # NoSub /\ sub'[i].conn = t)
<1> USE DEF subVars
<1>1. CASE \E r \in Subscribes : SubscribeNew(t, r)
  <2>1. PICK r \in Subscribes, j \in Ids :
           r.conn = t /\ sub[j] = NoSub /\ sub' = [sub EXCEPT ![j] = r]
    BY <1>1, Zenon DEF SubscribeNew
  <2>2. r # NoSub
    BY DeliveryAssumption, Zenon DEF DeliveryAssumption
  <2> QED BY <2>1, <2>2, Zenon DEF RegistryInv, Shape
<1>2. CASE ~\E r \in Subscribes : SubscribeNew(t, r)
  <2>1. CASE Other(t)
    BY <1>2, <2>1, Zenon DEF Other, Read, Remember, StoreLimit, Forget, Pick, Count, Check, GiveDone,
       Settle, ReaderCloses, ReaderLeaves, Swap, Clear, SubscribeIgnored, UnsubscribeUnknown,
       UnsubscribeKnown, Publish, GiveSkipped, GiveQueued, GiveOverflows
  <2>2. CASE LoadGeneration(t) \/ Resolve(t)
    BY <2>2, Zenon DEF LoadGeneration, Resolve
  <2>3. CASE InsertChanges(t) \/ RemoveChanges(t) \/ UnregisterChanges(t) \/ ExpireChanges(t)
    BY <2>3, Zenon DEF InsertChanges, Insert, RemoveChanges, Remove, UnregisterChanges, Unregister,
       ExpireChanges, Expire
  <2> QED BY <2>1, <2>2, <2>3, Zenon DEF RegistryStep
<1> QED BY <1>1, <1>2, Zenon

\* A copy that has arrived was there before, or is the one being given.
LEMMA CopyStep ==
    ASSUME RegistryInv, FanoutInv, NEW t \in Conns, RegistryStep(t),
           NEW i \in Ids, sub'[i] # NoSub, NEW p \in Conns, NEW n \in Nat
    PROVE  LET old == sub[i] # NoSub /\ Copy(i, p, n) \in Arrived(sub[i].conn)
               new == {inbox'[sub'[i].conn][k] : k \in DOMAIN inbox'[sub'[i].conn]} IN
           /\ old => Copy(i, p, n) \in new
           /\ Copy(i, p, n) \in new =>
                 /\ sub[i] # NoSub /\ sub'[i] = sub[i]
                 /\ old \/ (p = t /\ n = sent[t] /\ GiveQueued(t, i))
<1>0. Frames /\ i # NoSub
  BY DeliveryAssumption, Zenon DEF FanoutInv, DeliveryAssumption
<1>1. PICK e \in Conns : sub'[i].conn = e
  BY <1>0, SubStep, Zenon DEF Frames
<1> DEFINE f == Copy(i, p, n)
<1>2. f.sub = i /\ f.from = p /\ f.seq = n
  BY Zenon DEF Copy
<1>3. sub[i] # NoSub => sub'[i] = sub[i]
  BY SubStep, Zenon
<1>4. f \in Arrived(e) => sub[i] # NoSub
  BY <1>0, <1>2, Zenon DEF Frames
<1>5. NewFrame(t, e, f) => sub[i] # NoSub /\ p = t /\ n = sent[t] /\ GiveQueued(t, i)
  <2>1. ASSUME NEW j, f = Copy(j, t, sent[t]) PROVE j = i /\ p = t /\ n = sent[t]
    BY <1>2, <2>1, Zenon DEF Copy
  <2> QED BY <1>0, <2>1, Zenon DEF NewFrame
<1>6. /\ Arrived(e) \subseteq Arrived(e)'
      /\ f \in Arrived(e)' => f \in Arrived(e) \/ NewFrame(t, e, f)
  BY Arrivals, Zenon
<1>7. Arrived(e)' = {inbox'[e][k] : k \in DOMAIN inbox'[e]}
  BY Zenon DEF Arrived
<1> HIDE DEF f
<1> QED BY <1>1, <1>3, <1>4, <1>5, <1>6, <1>7, Zenon DEF f

\* The numbering and the typing of frames are kept.
LEMMA FramesStep ==
    ASSUME RegistryInv, FanoutInv, NEW t \in Conns, RegistryStep(t)
    PROVE  Frames'
<1>0. Frames
  BY Zenon DEF FanoutInv
<1>1. /\ inbox' \in [Conns -> Seq(Frame)] /\ sent' \in [Conns -> Nat]
      /\ \A c \in Conns : Once(c)'
  BY Arrivals, Zenon
<1>2. \A d \in Conns : sent[d] \in Nat /\ sent'[d] \in Nat /\ sent[d] <= sent'[d]
  <2>1. sent \in [Conns -> Nat]
    BY <1>0, Zenon DEF Frames
  <2>2. sent' \in [Conns -> Nat]
    BY <1>1, Zenon
  <2>3. \A d \in Conns : sent'[d] = sent[d] + 1 \/ sent'[d] = sent[d]
    BY Arrivals, Zenon
  <2> QED BY <2>1, <2>2, <2>3
<1>3. ASSUME NEW i \in Ids, sub'[i] # NoSub PROVE sub'[i].conn \in Conns
  <2>1. sub[i] # NoSub => sub[i].conn \in Conns
    BY <1>0, Zenon DEF Frames
  <2> QED BY <1>3, <2>1, SubStep, Zenon
<1>4. ASSUME NEW c \in Conns, NEW f \in Arrived(c)'
      PROVE  /\ f.seq <= sent'[f.from]
             /\ f.sub # NoSub => sub'[f.sub] # NoSub
             /\ f.sub = NoSub => f.from = c
  <2>1. CASE f \in Arrived(c)
    <3>1. f \in Frame
      BY <1>0, <2>1 DEF Frames, Arrived
    <3>2. f.from \in Conns /\ f.seq \in Nat /\ f.sub \in Ids \cup {NoSub}
      BY <3>1, Zenon DEF Frame
    <3>3. /\ f.seq <= sent[f.from]
          /\ f.sub # NoSub => sub[f.sub] # NoSub
          /\ f.sub = NoSub => f.from = c
      BY <1>0, <2>1, Zenon DEF Frames
    <3>4. f.sub # NoSub => sub'[f.sub] = sub[f.sub]
      BY <3>2, <3>3, SubStep, Zenon
    <3> QED BY <1>2, <3>2, <3>3, <3>4
  <2>2. CASE NewFrame(t, c, f)
    <3>1. PICK i : /\ f = Copy(i, t, sent[t])
                   /\ i = NoSub => c = t
                   /\ i # NoSub => i \in Ids /\ sub[i] # NoSub
      BY <2>2, DeliveryAssumption, Zenon DEF NewFrame, DeliveryAssumption
    <3>2. f.sub = i /\ f.from = t /\ f.seq = sent[t]
      BY <3>1, Zenon DEF Copy
    <3> QED BY <1>2, <3>1, <3>2, SubStep, Zenon
  <2> QED BY <2>1, <2>2, <1>4, Arrivals, Zenon
<1> QED BY <1>1, <1>3, <1>4, Zenon DEF Frames

\* The copies of one message go to one member of a group at most.
LEMMA GroupOnceStep ==
    ASSUME RegistryInv, FanoutInv, NEW t \in Conns, RegistryStep(t)
    PROVE  GroupOnce'
<1> SUFFICES ASSUME NEW p \in Conns, NEW n \in 1..sent'[p], NEW i \in Ids, NEW j \in Ids,
                    sub'[i] # NoSub, sub'[j] # NoSub, i # j,
                    sub'[i].queue = sub'[j].queue, sub'[i].queue # NoQueue,
                    Copies(i, p, n)' # {}, Copies(j, p, n)' # {}
             PROVE  FALSE
  BY Zenon DEF GroupOnce
<1>0. n \in Nat /\ GroupOnce /\ Given(t) /\ Frames
  BY DEF FanoutInv
<1>1. /\ Copy(i, p, n) \in {inbox'[sub'[i].conn][k] : k \in DOMAIN inbox'[sub'[i].conn]}
      /\ Copy(j, p, n) \in {inbox'[sub'[j].conn][k] : k \in DOMAIN inbox'[sub'[j].conn]}
  BY Zenon DEF Copies, Copy
<1>2. /\ sub[i] # NoSub /\ sub'[i] = sub[i]
      /\ \/ Copy(i, p, n) \in Arrived(sub[i].conn)
         \/ p = t /\ n = sent[t] /\ GiveQueued(t, i)
  BY <1>0, <1>1, CopyStep, Zenon
<1>3. /\ sub[j] # NoSub /\ sub'[j] = sub[j]
      /\ \/ Copy(j, p, n) \in Arrived(sub[j].conn)
         \/ p = t /\ n = sent[t] /\ GiveQueued(t, j)
  BY <1>0, <1>1, CopyStep, Zenon
<1>4. CASE Copy(i, p, n) \in Arrived(sub[i].conn) /\ Copy(j, p, n) \in Arrived(sub[j].conn)
  <2>1. n \in 1..sent[p]
    <3>1. sub[i].conn \in Conns
      BY <1>0, <1>2, Zenon DEF Frames
    <3>2. Copy(i, p, n).seq <= sent[Copy(i, p, n).from]
      BY <1>0, <1>4, <3>1, Zenon DEF Frames
    <3>3. n <= sent[p] /\ sent[p] \in Nat
      BY <1>0, <3>2, Zenon DEF Frames, Copy
    <3> QED BY <1>0, <3>3
  <2>2. Copies(i, p, n) # {} /\ Copies(j, p, n) # {}
    BY <1>4, Zenon DEF Copies, Copy, Arrived
  <2> QED BY <1>0, <1>2, <1>3, <2>1, <2>2, Zenon DEF GroupOnce
<1>5. CASE p = t /\ n = sent[t] /\ (GiveQueued(t, i) \/ GiveQueued(t, j))
  <2>1. Working(t)
    BY <1>5, Zenon DEF GiveQueued, Working, Matched
  <2>2. i \in my[t].todo \/ Got(i, t)
    BY <1>2, <1>5, Zenon DEF GiveQueued, Got
  <2>3. j \in my[t].todo \/ Got(j, t)
    BY <1>3, <1>5, Zenon DEF GiveQueued, Got
  <2> QED BY <1>0, <1>2, <1>3, <2>1, <2>2, <2>3, Zenon DEF Given
<1> QED BY <1>2, <1>3, <1>4, <1>5, Zenon

\* A status is queued when the count of deliveries is zero, and no copy follows.
LEMMA StatusStep ==
    ASSUME RegistryInv, FanoutInv, NEW t \in Conns, RegistryStep(t)
    PROVE  StatusMeansNobody'
<1> SUFFICES ASSUME NEW c \in Conns, NEW m \in DOMAIN inbox'[c], inbox'[c][m].sub = NoSub,
                    NEW i \in Ids, sub'[i] # NoSub,
                    NEW x \in DOMAIN inbox'[sub'[i].conn],
                    inbox'[sub'[i].conn][x] = Copy(i, c, inbox'[c][m].seq)
             PROVE  FALSE
  BY Zenon DEF StatusMeansNobody, Copies, Copy
<1> DEFINE f == inbox'[c][m]
           n == f.seq
<1>0. StatusMeansNobody /\ Given(t) /\ Frames /\ Frames'
  BY FramesStep, Zenon DEF FanoutInv
<1>1. f \in Arrived(c)' /\ f \in Frame /\ n \in Nat
  <2>1. f \in Arrived(c)'
    BY Zenon DEF Arrived
  <2>2. inbox'[c] \in Seq(Frame)
    BY Arrivals, Zenon
  <2>3. f \in Frame
    BY <2>2
  <2> QED BY <2>1, <2>3, Zenon DEF Frame
<1>2. Copy(i, c, n) \in {inbox'[sub'[i].conn][k] : k \in DOMAIN inbox'[sub'[i].conn]}
  BY Zenon
<1> HIDE DEF f, n
<1>3. /\ sub[i] # NoSub /\ sub'[i] = sub[i]
      /\ \/ Copy(i, c, n) \in Arrived(sub[i].conn)
         \/ c = t /\ n = sent[t] /\ GiveQueued(t, i)
  BY <1>1, <1>2, CopyStep, Zenon
<1>4. f.sub = NoSub /\ n = f.seq
  BY Zenon DEF f, n
<1>5. CASE f \in Arrived(c)
  <2>1. CASE Copy(i, c, n) \in Arrived(sub[i].conn)
    <3>1. Copies(i, c, n) # {}
      BY <2>1, Zenon DEF Copies, Copy, Arrived
    <3>2. PICK k \in DOMAIN inbox[c] : inbox[c][k] = f
      BY <1>5, Zenon DEF Arrived
    <3> QED BY <1>0, <1>3, <1>4, <3>1, <3>2, Zenon DEF StatusMeansNobody
  <2>2. CASE c = t /\ n = sent[t] /\ GiveQueued(t, i)
    <3>1. Working(t)
      BY <2>2, Zenon DEF GiveQueued, Working, Matched
    <3> QED BY <1>0, <1>4, <1>5, <2>2, <3>1, Zenon DEF Given
  <2> QED BY <1>3, <2>1, <2>2, Zenon
<1>6. CASE NewFrame(t, c, f)
  <2>1. Settle(t) /\ c = t /\ n = sent[t] /\ my[t].count = 0
    <3>1. ~\E j \in Ids : f = Copy(j, t, sent[t])
      BY <1>4, DeliveryAssumption DEF Copy, DeliveryAssumption
    <3>2. Settle(t) /\ c = t /\ f = Copy(NoSub, t, sent[t]) /\ my[t].count = 0
      BY <1>6, <3>1, Zenon DEF NewFrame
    <3> QED BY <1>4, <3>2, Zenon DEF Copy
  <2>2. Working(t) /\ ~GiveQueued(t, i)
    BY <2>1, Zenon DEF Settle, GiveQueued, Working, Matched
  <2>3. ~Got(i, t)
    BY <1>0, <1>3, <2>1, <2>2, Zenon DEF Given
  <2> QED BY <1>3, <2>1, <2>2, <2>3, Zenon DEF Got
<1> QED BY <1>1, <1>5, <1>6, Arrivals, Zenon

-----------------------------------------------------------------------------
(* Where each task is with its message                                     *)

\* Who has got the message changes by the copy that is given.
LEMMA GotStep ==
    ASSUME RegistryInv, FanoutInv, NEW t \in Conns, RegistryStep(t),
           NEW i \in Ids, sub'[i] # NoSub, NEW c \in Conns, sent'[c] = sent[c]
    PROVE  /\ sub[i] # NoSub /\ Got(i, c) => Got(i, c)'
           /\ Got(i, c)' => sub[i] # NoSub /\ (Got(i, c) \/ (c = t /\ GiveQueued(t, i)))
<1>1. sent[c] \in Nat
  BY Zenon DEF FanoutInv, Frames
<1>2. Got(i, c)' <=> Copy(i, c, sent[c]) \in
                        {inbox'[sub'[i].conn][k] : k \in DOMAIN inbox'[sub'[i].conn]}
  BY Zenon DEF Got, Arrived, Copy
<1> QED BY <1>1, <1>2, CopyStep, Zenon DEF Got

\* The state of a message is the business of the task that routes it.
LEMMA OthersKeep ==
    ASSUME RegistryInv, FanoutInv, NEW t \in Conns, RegistryStep(t), NEW c \in Conns, c # t
    PROVE  Locals(c)' /\ Unsent(c)' /\ Given(c)' /\ Served(c)'
<1>0. Frames /\ Locals(c) /\ Unsent(c) /\ Given(c) /\ Served(c)
  BY Zenon DEF FanoutInv
<1>1. pc'[c] = pc[c] /\ my'[c] = my[c] /\ closed \subseteq closed'
  BY StepFrame, Zenon
<1>2. sent'[c] = sent[c] /\ sent[c] \in Nat
  BY <1>0, Arrivals DEF Frames
<1>3. Working(c)' <=> Working(c)
  BY <1>1, Zenon DEF Working
<1>4. \A i \in Ids : sub[i] # NoSub => sub'[i] = sub[i]
  BY SubStep, Zenon
<1>5. \A i \in Ids : sub[i] # NoSub => (Got(i, c)' <=> Got(i, c))
  BY <1>2, <1>4, GotStep, Zenon
<1>6. \A i \in Ids : sub'[i] # NoSub /\ Got(i, c)' => sub[i] # NoSub
  BY <1>2, GotStep, Zenon
<1>7. \A d \in Conns : \A f \in Arrived(d)' : f \in Arrived(d) \/ (f.from = t /\ (d = c => f.sub # NoSub))
  <2> SUFFICES ASSUME NEW d \in Conns, NEW f, NewFrame(t, d, f)
               PROVE  f.from = t /\ (d = c => f.sub # NoSub)
    BY Arrivals, Zenon
  <2> QED BY DeliveryAssumption DEF NewFrame, Copy, DeliveryAssumption
<1>8. Locals(c)'
  BY <1>0, <1>1, <1>3, <1>4, Zenon DEF Locals
<1>9. Unsent(c)'
  BY <1>0, <1>1, <1>2, <1>7, Zenon DEF Unsent
<1>10. Given(c)'
  <2> SUFFICES ASSUME Working(c) PROVE Given(c)'
    BY <1>3, Zenon DEF Given
  <2>1. \A i \in my[c].todo : i \in Ids /\ sub[i] # NoSub /\ ~Got(i, c)
    BY <1>0, Zenon DEF Given
  <2>2. \A i \in my'[c].todo : i \in Ids /\ sub'[i] # NoSub /\ ~Got(i, c)'
    BY <1>1, <1>4, <1>5, <2>1, Zenon
  <2>3. ASSUME NEW i \in Ids, NEW j \in Ids,
               i \in my'[c].todo \/ (sub'[i] # NoSub /\ Got(i, c)'),
               j \in my'[c].todo \/ (sub'[j] # NoSub /\ Got(j, c)'),
               sub'[i].queue = sub'[j].queue, sub'[i].queue # NoQueue
        PROVE  i = j
    <3>1. sub[i] # NoSub /\ sub'[i] = sub[i] /\ (i \in my[c].todo \/ Got(i, c))
      BY <1>1, <1>4, <1>5, <1>6, <2>1, <2>3, Zenon
    <3>2. sub[j] # NoSub /\ sub'[j] = sub[j] /\ (j \in my[c].todo \/ Got(j, c))
      BY <1>1, <1>4, <1>5, <1>6, <2>1, <2>3, Zenon
    <3> QED BY <1>0, <2>3, <3>1, <3>2, Zenon DEF Given
  <2>4. my'[c].count = 0 => \A i \in Ids : sub'[i] # NoSub => ~Got(i, c)'
    BY <1>0, <1>1, <1>5, <1>6, Zenon DEF Given
  <2>5. \A f \in Arrived(c)' : f.sub = NoSub => f.seq # sent'[c]
    BY <1>0, <1>2, <1>7, Zenon DEF Given
  <2> QED BY <2>2, <2>3, <2>4, <2>5, Zenon DEF Given
<1>11. Served(c)'
  <2> SUFFICES ASSUME Working(c) PROVE Served(c)'
    BY <1>3, Zenon DEF Served
  <2>1. \A i \in my[c].matched : i \in Ids /\ sub[i] # NoSub /\ sub'[i] = sub[i]
                                /\ (Got(i, c)' <=> Got(i, c))
    BY <1>0, <1>4, <1>5, Zenon DEF Locals
  <2>2. \A i \in my[c].todo : sub'[i] = sub[i]
    BY <1>0, <1>4, Zenon DEF Given
  <2>3. \A i \in my[c].matched : /\ Eligible(i, c)' => Eligible(i, c)
                                /\ Lost(i, c) => Lost(i, c)'
    BY <1>1, <2>1, Zenon DEF Eligible, Lost
  <2>4. \A i \in my'[c].todo : sub'[i].queue # NoQueue => ~(sub'[i].conn = c /\ c \notin Echo)
    BY <1>0, <1>1, <2>2, Zenon DEF Served
  <2>5. ASSUME NEW i \in my'[c].matched, sub'[i].queue = NoQueue
        PROVE  i \in my'[c].todo \/ Got(i, c)' \/ ~Eligible(i, c)' \/ Lost(i, c)'
    <3>1. i \in my[c].matched /\ sub[i].queue = NoQueue
      BY <1>1, <2>1, <2>5, Zenon
    <3>2. i \in my[c].todo \/ Got(i, c) \/ ~Eligible(i, c) \/ Lost(i, c)
      BY <1>0, <3>1, Zenon DEF Served
    <3> QED BY <1>1, <2>1, <2>3, <3>1, <3>2, Zenon DEF Eligible, Lost
  <2>6. ASSUME NEW i \in my'[c].matched, sub'[i].queue # NoQueue, Eligible(i, c)'
        PROVE  \E j \in my'[c].matched :
                  /\ sub'[j].queue = sub'[i].queue
                  /\ j \in my'[c].todo \/ Got(j, c)' \/ Lost(j, c)'
    <3>1. /\ i \in my[c].matched /\ sub'[i] = sub[i] /\ sub[i].queue # NoQueue
          /\ Eligible(i, c)
      BY <1>1, <2>1, <2>3, <2>6, Zenon DEF Eligible, Lost
    <3>2. PICK j \in my[c].matched :
             /\ sub[j].queue = sub[i].queue
             /\ j \in my[c].todo \/ Got(j, c) \/ Lost(j, c)
      BY <1>0, <3>1, Zenon DEF Served
    <3>3. sub'[j] = sub[j] /\ (j \in my'[c].todo \/ Got(j, c)' \/ Lost(j, c)')
      BY <1>1, <2>1, <2>3, <3>2, Zenon DEF Eligible, Lost
    <3> QED BY <1>1, <3>1, <3>2, <3>3, Zenon
  <2> QED BY <2>4, <2>5, <2>6, Zenon DEF Served
<1> QED BY <1>8, <1>9, <1>10, <1>11, Zenon

\* Outside route a task does not get into the middle of it.
LEMMA OutsideStep ==
    ASSUME RegistryInv, FanoutInv, NEW t \in Conns, RegistryStep(t),
           pc[t] \notin Starting, ~Working(t), ~Publishing(t)
    PROVE  /\ Locals(t)' /\ Unsent(t)' /\ Given(t)' /\ Served(t)'
           /\ pc'[t] \notin Starting /\ ~Working(t)'
<1>0. Shape /\ Locals(t)
  BY Zenon DEF RegistryInv, FanoutInv
<1>1. Locals(t)' /\ pc'[t] \notin Starting /\ ~Working(t)'
  <2> USE <1>0 DEF Locals, Shape, Goto, Done, Starting, Working, Matched, Closing, Idle,
          registryVars, subVars, connVars, clientVars, taskVars
  <2> DEFINE Outside == Locals(t)' /\ pc'[t] \notin Starting /\ ~Working(t)'
  <2>1. CASE InsertChanges(t)
    BY <2>1, Zenon DEF InsertChanges, Insert
  <2>2. CASE RemoveChanges(t)
    BY <2>2, Zenon DEF RemoveChanges, Remove
  <2>3. CASE UnregisterChanges(t)
    BY <2>3, Zenon DEF UnregisterChanges, Unregister
  <2>4. CASE ExpireChanges(t) \/ LoadGeneration(t) \/ Resolve(t) \/ Pick(t)
    BY <2>4, Zenon DEF ExpireChanges, Expire, LoadGeneration, Resolve, Pick
  <2>5. CASE Count(t) \/ Check(t) \/ GiveDone(t) \/ Settle(t)
    BY <2>5, Zenon DEF Count, Check, GiveDone, Settle
  <2>6. CASE Read(t) \/ ReaderLeaves(t)
    BY <2>6, Zenon DEF Read, ReaderLeaves
  <2>7. CASE ReaderCloses(t)
    BY <2>7, Zenon DEF ReaderCloses
  <2>8. CASE Remember(t) \/ Forget(t)
    <3>1. CASE Remember(t)
      <4>1. pc' = [pc EXCEPT ![t] = "idle"] /\ my' = [my EXCEPT ![t] = Idle] /\ sub' = sub
        BY <3>1, Zenon DEF Remember
      <4> QED BY <4>1, Zenon
    <3>2. CASE Forget(t)
      <4>1. pc' = [pc EXCEPT ![t] = "remove"] /\ my' = my /\ sub' = sub /\ pc[t] = "forget"
        BY <3>2, Zenon DEF Forget
      <4> QED BY <4>1, Zenon
    <3> QED BY <2>8, <3>1, <3>2, Zenon
  <2>9. CASE StoreLimit(t)
    <3>1. /\ sub' = sub /\ pc[t] = "limit"
          /\ \/ pc' = [pc EXCEPT ![t] = "idle"] /\ my' = [my EXCEPT ![t] = Idle]
             \/ pc' = [pc EXCEPT ![t] = "forget"] /\ my' = my
      BY <2>9, Zenon DEF StoreLimit
    <3>2. CASE pc' = [pc EXCEPT ![t] = "idle"] /\ my' = [my EXCEPT ![t] = Idle]
      BY <3>1, <3>2, Zenon
    <3>3. CASE pc' = [pc EXCEPT ![t] = "forget"] /\ my' = my
      BY <3>1, <3>3, Zenon
    <3> QED BY <3>1, <3>2, <3>3, Zenon
  <2>10. CASE Swap(t) \/ Clear(t)
    BY <2>10, Zenon DEF Swap, Clear
  <2>11. ASSUME NEW r, SubscribeIgnored(t, r) \/ UnsubscribeUnknown(t, r) PROVE Outside
    BY <2>11, Zenon DEF SubscribeIgnored, UnsubscribeUnknown, Take
  <2>12. ASSUME NEW r, SubscribeNew(t, r) PROVE Outside
    BY <2>12 DEF SubscribeNew, Take
  <2>13. ASSUME NEW r, UnsubscribeKnown(t, r) PROVE Outside
    <3>0. PICK i \in known[t] :
             my' = [my EXCEPT ![t].sub = i, ![t].max = r.max, ![t].keep = Keeps(i, r.max)]
      BY <2>13, Zenon DEF UnsubscribeKnown
    <3> DEFINE k == Keeps(i, r.max)
    <3>1. my' = [my EXCEPT ![t].sub = i, ![t].max = r.max, ![t].keep = k]
      BY <3>0, Zenon
    <3> HIDE DEF k
    <3> QED BY <2>13, <3>1, ZenonT(40) DEF UnsubscribeKnown, Take
  <2>14. ASSUME NEW i, GiveSkipped(t, i) \/ GiveQueued(t, i) \/ GiveOverflows(t, i)
         PROVE  Outside
    BY <2>14, Zenon DEF GiveSkipped, GiveQueued, GiveOverflows
  <2> HIDE DEF Outside
  <2>15. Outside
    BY <2>1, <2>2, <2>3, <2>4, <2>5, <2>6, <2>7, <2>8, <2>9, <2>10, <2>11, <2>12, <2>13,
       <2>14, Zenon DEF RegistryStep, Other, Publishing, Outside
  <2> QED BY <2>15, Zenon DEF Outside
<1> QED BY <1>1, Zenon DEF Unsent, Given, Served

\* A PUB takes a new number, and the first copy is given after the choice.
LEMMA StartingStep ==
    ASSUME RegistryInv, FanoutInv, NEW t \in Conns, RegistryStep(t),
           Publishing(t) \/ LoadGeneration(t) \/ Resolve(t)
    PROVE  Locals(t)' /\ Unsent(t)' /\ Given(t)' /\ Served(t)'
<1>0. Shape /\ Frames /\ Locals(t) /\ Unsent(t) /\ CacheCoherent /\ Allocated
      /\ IsFiniteSet(registered)
  BY Zenon DEF RegistryInv, FanoutInv, Counted
<1>1. CASE Publishing(t)
  <2>1. PICK r : /\ pc[t] = "idle" /\ pc' = [pc EXCEPT ![t] = "match"] /\ sub' = sub
                 /\ my' = [my EXCEPT ![t].subject = r.subject, ![t].reply = r.reply]
    BY <1>1, Zenon DEF Publishing, Publish, Take, Goto, subVars
  <2>2. Locals(t)' /\ pc'[t] = "match"
    BY <1>0, <2>1 DEF Locals, Shape, Starting, Working, Matched, Closing, Idle
  <2>3. sent'[t] = sent[t] + 1 /\ inbox' = inbox /\ sent[t] \in Nat
    BY <1>0, <1>1, Arrivals, Zenon DEF Frames
  <2>4. ASSUME NEW d \in Conns, NEW f \in Arrived(d)', f.from = t PROVE f.seq # sent'[t]
    <3>1. f \in Arrived(d) /\ f \in Frame
      BY <1>0, <2>3, <2>4 DEF Arrived, Frames
    <3>2. f.seq <= sent[t] /\ f.seq \in Nat
      BY <1>0, <2>4, <3>1, Zenon DEF Frames, Frame
    <3> QED BY <2>3, <3>2
  <2> QED BY <2>2, <2>4, Zenon DEF Unsent, Given, Served, Working, Matched, Closing
<1>2. CASE LoadGeneration(t) \/ Resolve(t)
  <2>1. /\ pc[t] \in {"match", "resolve"} /\ UNCHANGED <<inbox, sent, sub>>
        /\ \/ pc' = [pc EXCEPT ![t] = "resolve"] /\ my' = my
           \/ /\ pc' = [pc EXCEPT ![t] = "pick"]
              /\ my' = [my EXCEPT ![t].matched = Matching(my[t].subject)]
    BY <1>0, <1>2, Zenon DEF LoadGeneration, Resolve, Fresh, CacheCoherent, Goto, clientVars, subVars
  <2>2. /\ IsFiniteSet(Matching(my[t].subject))
        /\ \A i \in Matching(my[t].subject) : i \in Ids /\ sub[i] # NoSub
    <3>1. Matching(my[t].subject) \subseteq registered
      BY Zenon DEF Matching
    <3> QED BY <1>0, <3>1, FS_Subset, Zenon DEF Allocated
  <2>3. pc'[t] \in {"resolve", "pick"}
    BY <1>0, <2>1, Zenon DEF Shape
  <2>4. Locals(t)'
    <3> DEFINE list == Matching(my[t].subject)
    <3> HIDE DEF list
    <3>1. CASE pc' = [pc EXCEPT ![t] = "resolve"] /\ my' = my
      BY <1>0, <2>1, <3>1, Zenon DEF Locals, Shape, Starting, Working, Matched, Closing
    <3>2. CASE pc' = [pc EXCEPT ![t] = "pick"] /\ my' = [my EXCEPT ![t].matched = list]
      BY <1>0, <2>1, <2>2, <3>2, Zenon DEF Locals, Shape, Starting, Working, Matched, Closing, list
    <3> QED BY <2>1, <3>1, <3>2, Zenon DEF list
  <2>5. Unsent(t)'
    BY <1>0, <2>1, <2>3 DEF Unsent, Starting, Arrived
  <2> QED BY <2>3, <2>4, <2>5, Zenon DEF Given, Served, Working, Matched, Closing
<1> QED BY <1>1, <1>2, Zenon

\* pick_groups: the plain subscriptions and one of each group that has an eligible
\* member; nothing has been sent yet.
LEMMA PickStep ==
    ASSUME RegistryInv, FanoutInv, NEW t \in Conns, RegistryStep(t), Pick(t)
    PROVE  Locals(t)' /\ Unsent(t)' /\ Given(t)' /\ Served(t)'
<1>0. Shape /\ Frames /\ Locals(t) /\ Unsent(t) /\ pc[t] = "pick"
  BY Zenon DEF RegistryInv, FanoutInv, Pick
<1> DEFINE list == my[t].matched
<1>1. PICK chosen \in SUBSET Queued(list) :
         /\ \A i \in chosen : Eligible(i, t)
         /\ \A q \in Groups(list) :
               Cardinality(Members(chosen, q)) =
                   IF \E i \in Members(list, q) : Eligible(i, t) THEN 1 ELSE 0
         /\ my' = [my EXCEPT ![t].todo = (list \ Queued(list)) \cup chosen]
  BY Zenon DEF Pick
<1> DEFINE todo == (list \ Queued(list)) \cup chosen
<1>2. /\ my'[t].todo = todo /\ my'[t].matched = list /\ my'[t].count = 0
      /\ DOMAIN my'[t] = DOMAIN my[t] /\ pc'[t] = "give"
      /\ UNCHANGED <<inbox, sent, sub, closed>>
  <2> HIDE DEF todo, list
  <2>1. my' = [my EXCEPT ![t].todo = todo] /\ my[t].count = 0 /\ list = my[t].matched
    BY <1>0, <1>1, Zenon DEF Locals, Starting, todo, list
  <2> QED BY <1>0, <2>1, Zenon DEF Pick, Goto, Shape, Locals, connVars, clientVars, subVars
<1>3. \A i \in list : i \in Ids /\ sub[i] # NoSub
  BY <1>0, Zenon DEF Locals
<1>4. todo \subseteq list /\ \A i \in todo : sub[i].queue # NoQueue => i \in chosen
  BY <1>1, Zenon DEF Queued
<1>5. ASSUME NEW i \in Ids, sub[i] # NoSub PROVE ~Got(i, t)
  <2>1. sub[i].conn \in Conns
    BY <1>0, <1>5, Zenon DEF Frames
  <2>2. \A f \in Arrived(sub[i].conn) : f.from = t => f.seq # sent[t]
    BY <1>0, <2>1, Zenon DEF Unsent, Starting
  <2> QED BY <2>2, Zenon DEF Got, Copy
<1>6. \A i \in Ids : Got(i, t)' <=> Got(i, t)
  BY <1>2, Zenon DEF Got, Arrived, Copy
<1>7. ASSUME NEW q \in Groups(list), NEW i \in Members(list, q), Eligible(i, t)
      PROVE  \E j \in chosen : sub[j].queue = q
  <2>1. Cardinality(Members(chosen, q)) = 1
    BY <1>1, <1>7, Zenon
  <2>2. Members(chosen, q) # {}
    BY <2>1, FS_EmptySet
  <2> QED BY <2>2, Zenon DEF Members
<1>8. ASSUME NEW i \in chosen, NEW j \in chosen, sub[i].queue = sub[j].queue PROVE i = j
  <2> DEFINE q == sub[i].queue
  <2>1. q \in Groups(list) /\ i \in Members(chosen, q) /\ j \in Members(chosen, q)
    BY <1>1, <1>8, Zenon DEF Groups, Members
  <2>2. i \in Members(list, q) /\ Eligible(i, t)
    BY <1>1, Zenon DEF Members, Queued
  <2>3. Cardinality(Members(chosen, q)) = 1
    BY <1>1, <2>1, <2>2, Zenon
  <2>4. IsFiniteSet(Members(chosen, q))
    <3>1. Members(chosen, q) \subseteq list /\ IsFiniteSet(list)
      BY <1>0, <1>1, Zenon DEF Members, Queued, Locals
    <3> QED BY <3>1, FS_Subset, Zenon
  <2>5. \E x : Members(chosen, q) = {x}
    BY <2>3, <2>4, FS_Singleton, Zenon
  <2> QED BY <2>1, <2>5
<1> HIDE DEF todo, list
<1>9. Locals(t)'
  BY <1>0, <1>2, <1>3, Zenon DEF Locals, Starting, Working, Matched, Closing
<1>10. Unsent(t)'
  BY <1>2, Zenon DEF Unsent, Starting
<1>11. Given(t)'
  <2>1. \A i \in todo : i \in Ids /\ sub'[i] # NoSub /\ ~Got(i, t)'
    BY <1>2, <1>3, <1>4, <1>5, <1>6, Zenon
  <2>2. \A i \in Ids : sub'[i] # NoSub => ~Got(i, t)'
    BY <1>2, <1>5, <1>6, Zenon
  <2>3. \A i, j \in todo : sub'[i].queue = sub'[j].queue /\ sub'[i].queue # NoQueue => i = j
    BY <1>2, <1>4, <1>8, Zenon
  <2>4. \A f \in Arrived(t)' : f.sub = NoSub => f.seq # sent'[t]
    <3>1. \A f \in Arrived(t) : f.sub = NoSub => f.from = t
      BY <1>0, Zenon DEF Frames
    <3>2. \A f \in Arrived(t) : f.from = t => f.seq # sent[t]
      BY <1>0, Zenon DEF Unsent, Starting
    <3> QED BY <1>2, <3>1, <3>2, Zenon DEF Arrived
  <2> QED BY <1>2, <2>1, <2>2, <2>3, <2>4, Zenon DEF Given
<1>12. Served(t)'
  <2>1. \A i \in todo : sub'[i].queue # NoQueue => ~(sub'[i].conn = t /\ t \notin Echo)
    BY <1>1, <1>2, <1>4, Zenon DEF Eligible
  <2>2. \A i \in list : sub'[i].queue = NoQueue => i \in todo
    BY <1>2, Zenon DEF todo, Queued
  <2>3. ASSUME NEW i \in list, sub'[i].queue # NoQueue, Eligible(i, t)'
        PROVE  \E j \in list : sub'[j].queue = sub'[i].queue /\ j \in todo
    <3>1. Eligible(i, t) /\ sub[i].queue \in Groups(list) /\ i \in Members(list, sub[i].queue)
      BY <1>2, <2>3, Zenon DEF Eligible, Groups, Members, Queued
    <3>2. PICK j \in chosen : sub[j].queue = sub[i].queue
      BY <1>7, <3>1, Zenon
    <3>3. j \in todo
      BY <3>2, Zenon DEF todo
    <3> QED BY <1>2, <1>4, <3>2, <3>3, Zenon
  <2> QED BY <1>2, <2>1, <2>2, <2>3, Zenon DEF Served
<1> QED BY <1>9, <1>10, <1>11, <1>12, Zenon

\* A step that gives nothing and drops nobody changes nothing here.
LEMMA Carried ==
    ASSUME FanoutInv, NEW t \in Conns, Working(t), Working(t)', pc'[t] \notin Starting \cup {"idle"},
           UNCHANGED <<inbox, sent, sub>>, closed \subseteq closed',
           DOMAIN my'[t] = DOMAIN my[t], my'[t].ret = my[t].ret,
           my'[t].todo = my[t].todo, my'[t].matched = my[t].matched,
           my'[t].count = my[t].count, my'[t].victim = my[t].victim,
           pc[t] = "swap" => my[t].victim \in closed',
           pc'[t] \in {"expire", "settle"} => my[t].todo = {}
    PROVE  Locals(t)' /\ Unsent(t)' /\ Given(t)' /\ Served(t)'
<1>0. Locals(t) /\ Given(t) /\ Served(t)
  BY Zenon DEF FanoutInv
<1>1. \A i : Got(i, t)' <=> Got(i, t)
  BY Zenon DEF Got, Arrived, Copy
<1>2. \A i : /\ Lost(i, t) => Lost(i, t)'
             /\ Eligible(i, t)' => Eligible(i, t)
  BY Zenon DEF Lost, Eligible
<1>3. Arrived(t)' = Arrived(t)
  BY Zenon DEF Arrived
<1>4. Locals(t)'
  BY <1>0, Zenon DEF Locals, Working, Starting, Closing, Matched
<1>5. Given(t)'
  BY <1>0, <1>1, <1>3, Zenon DEF Given
<1>6. Served(t)'
  <2>1. ASSUME NEW i \in my[t].matched, sub[i].queue = NoQueue
        PROVE  i \in my[t].todo \/ Got(i, t)' \/ ~Eligible(i, t)' \/ Lost(i, t)'
    <3>1. i \in my[t].todo \/ Got(i, t) \/ ~Eligible(i, t) \/ Lost(i, t)
      BY <1>0, <2>1, Zenon DEF Served
    <3> QED BY <1>1, <1>2, <3>1, Zenon
  <2>2. ASSUME NEW i \in my[t].matched, sub[i].queue # NoQueue, Eligible(i, t)'
        PROVE  \E j \in my[t].matched :
                  /\ sub[j].queue = sub[i].queue
                  /\ j \in my[t].todo \/ Got(j, t)' \/ Lost(j, t)'
    <3>1. Eligible(i, t)
      BY <1>2, <2>2, Zenon
    <3>2. PICK j \in my[t].matched :
             /\ sub[j].queue = sub[i].queue
             /\ j \in my[t].todo \/ Got(j, t) \/ Lost(j, t)
      BY <1>0, <2>2, <3>1, Zenon DEF Served
    <3>3. j \in my[t].todo \/ Got(j, t)' \/ Lost(j, t)'
      BY <1>1, <1>2, <3>2, Zenon
    <3> QED BY <3>2, <3>3, Zenon
  <2> QED BY <1>0, <2>1, <2>2, Zenon DEF Served
<1> QED BY <1>4, <1>5, <1>6, Zenon DEF Unsent

\* One of the subscriptions to serve is dealt with: it got its copy, or it is not
\* eligible, or its connection is being closed.
LEMMA Dealt ==
    ASSUME RegistryInv, FanoutInv, NEW t \in Conns, RegistryStep(t), pc[t] = "give", NEW x \in my[t].todo,
           pc'[t] \in {"give", "count", "swap"}, pc'[t] = "swap" => my'[t].ret = "give",
           UNCHANGED <<sent, sub, closed>>,
           DOMAIN my'[t] = DOMAIN my[t], my'[t].todo = my[t].todo \ {x},
           my'[t].matched = my[t].matched, my'[t].count \in Nat,
           Got(x, t)' \/ ~Eligible(x, t) \/ Lost(x, t)',
           \A i \in Ids : GiveQueued(t, i) => i = x /\ my'[t].count # 0,
           (\A i \in Ids : ~GiveQueued(t, i)) => my'[t].count = my[t].count
    PROVE  Locals(t)' /\ Unsent(t)' /\ Given(t)' /\ Served(t)'
<1>0. Locals(t) /\ Given(t) /\ Served(t) /\ Working(t) /\ Working(t)'
  BY Zenon DEF FanoutInv, Working, Matched, Closing
<1>1. \A i \in my[t].todo : i \in Ids /\ sub[i] # NoSub /\ ~Got(i, t)
  BY <1>0, Zenon DEF Given
<1>2. \A i \in my[t].matched : i \in Ids /\ sub[i] # NoSub
  BY <1>0, Zenon DEF Locals
<1>3. \A i \in Ids : sub[i] # NoSub =>
         /\ Got(i, t) => Got(i, t)'
         /\ Got(i, t)' => Got(i, t) \/ (i = x /\ my'[t].count # 0)
  BY GotStep, Zenon
<1>4. (\E i \in Ids : GiveQueued(t, i)) => my'[t].count # 0
  BY Zenon
<1>5. \A i : /\ Lost(i, t) => Lost(i, t)'
             /\ Eligible(i, t)' <=> Eligible(i, t)
  BY Zenon DEF Lost, Eligible
<1>6. Locals(t)'
  BY <1>0, <1>2, Zenon DEF Locals, Working, Starting, Closing, Matched
<1>7. Unsent(t)'
  BY Zenon DEF Unsent, Starting
<1>8. Given(t)'
  <2>1. \A i \in my'[t].todo : i \in Ids /\ sub'[i] # NoSub /\ ~Got(i, t)'
    BY <1>1, <1>3, Zenon
  <2>2. ASSUME NEW i \in Ids, sub[i] # NoSub, i \in my'[t].todo \/ Got(i, t)'
        PROVE  i \in my[t].todo \/ Got(i, t)
    BY <1>3, <2>2, Zenon
  <2>3. ASSUME NEW i \in Ids, NEW j \in Ids,
               i \in my'[t].todo \/ (sub'[i] # NoSub /\ Got(i, t)'),
               j \in my'[t].todo \/ (sub'[j] # NoSub /\ Got(j, t)'),
               sub'[i].queue = sub'[j].queue, sub'[i].queue # NoQueue
        PROVE  i = j
    <3>1. sub[i] # NoSub /\ (i \in my[t].todo \/ Got(i, t))
      BY <1>1, <2>2, <2>3, Zenon
    <3>2. sub[j] # NoSub /\ (j \in my[t].todo \/ Got(j, t))
      BY <1>1, <2>2, <2>3, Zenon
    <3> QED BY <1>0, <2>3, <3>1, <3>2, Zenon DEF Given
  <2>4. ASSUME my'[t].count = 0, NEW i \in Ids, sub[i] # NoSub PROVE ~Got(i, t)'
    <3>1. my[t].count = 0
      BY <2>4, <1>4, Zenon
    <3> QED BY <1>0, <1>3, <2>4, <3>1, Zenon DEF Given
  <2>5. \A f \in Arrived(t)' : f.sub = NoSub => f.seq # sent'[t]
    <3>1. \A f : NewFrame(t, t, f) => f.sub # NoSub
      BY DeliveryAssumption DEF NewFrame, Copy, Settle, DeliveryAssumption
    <3> QED BY <1>0, <3>1, Arrivals, Zenon DEF Given
  <2> QED BY <2>1, <2>3, <2>4, <2>5, Zenon DEF Given
<1>9. Served(t)'
  <2>1. ASSUME NEW i \in my[t].matched, sub[i].queue = NoQueue
        PROVE  i \in my'[t].todo \/ Got(i, t)' \/ ~Eligible(i, t)' \/ Lost(i, t)'
    <3>1. i \in my[t].todo \/ Got(i, t) \/ ~Eligible(i, t) \/ Lost(i, t)
      BY <1>0, <2>1, Zenon DEF Served
    <3> QED BY <1>2, <1>3, <1>5, <2>1, <3>1, Zenon
  <2>2. ASSUME NEW i \in my[t].matched, sub[i].queue # NoQueue, Eligible(i, t)'
        PROVE  \E j \in my[t].matched :
                  /\ sub[j].queue = sub[i].queue
                  /\ j \in my'[t].todo \/ Got(j, t)' \/ Lost(j, t)'
    <3>1. Eligible(i, t)
      BY <1>5, <2>2, Zenon
    <3>2. PICK j \in my[t].matched :
             /\ sub[j].queue = sub[i].queue
             /\ j \in my[t].todo \/ Got(j, t) \/ Lost(j, t)
      BY <1>0, <2>2, <3>1, Zenon DEF Served
    <3>3. CASE j = x /\ j \in my[t].todo
      <4>1. ~Eligible(j, t) => Lost(j, t)
        BY <1>0, <2>2, <3>2, <3>3, Zenon DEF Served, Eligible, Lost
      <4>2. Got(j, t)' \/ Lost(j, t)'
        BY <1>5, <3>3, <4>1, Zenon
      <4> QED BY <3>2, <4>2, Zenon
    <3>4. CASE ~(j = x /\ j \in my[t].todo)
      <4>1. j \in my'[t].todo \/ Got(j, t)' \/ Lost(j, t)'
        BY <1>2, <1>3, <1>5, <3>2, <3>4, Zenon
      <4> QED BY <3>2, <4>1, Zenon
    <3> QED BY <3>3, <3>4, Zenon
  <2>3. \A i \in my'[t].todo : sub[i].queue # NoQueue => ~(sub[i].conn = t /\ t \notin Echo)
    BY <1>0, Zenon DEF Served
  <2> QED BY <2>1, <2>2, <2>3, Zenon DEF Served
<1> QED BY <1>6, <1>7, <1>8, <1>9, Zenon

\* The steps of a task between its choice and its next command.
LEMMA WorkingStep ==
    ASSUME RegistryInv, FanoutInv, NEW t \in Conns, RegistryStep(t), Working(t)
    PROVE  Locals(t)' /\ Unsent(t)' /\ Given(t)' /\ Served(t)'
<1> DEFINE Goal == Locals(t)' /\ Unsent(t)' /\ Given(t)' /\ Served(t)'
<1>0. Shape /\ Locals(t) /\ Given(t) /\ closed \subseteq closed'
  BY StepFrame, Zenon DEF RegistryInv, FanoutInv
<1>1. /\ {"sub", "n", "todo", "count", "matched", "expired", "victim", "ret"} \subseteq DOMAIN my[t]
      /\ my[t].count \in Nat /\ DOMAIN my = Conns /\ DOMAIN pc = Conns
  BY <1>0, Zenon DEF Locals, Shape
<1>2. pc[t] \in Matched \/ (pc[t] \in Closing /\ my[t].ret = "give")
  BY Zenon DEF Working
<1> USE <1>1 DEF Goto, connVars, clientVars, subVars, taskVars
<1>3. CASE Count(t) \/ Check(t)
  <2>1. /\ UNCHANGED <<inbox, sent, sub>> /\ pc[t] # "swap" /\ pc'[t] \in {"check", "give"}
        /\ DOMAIN my'[t] = DOMAIN my[t] /\ my'[t].ret = my[t].ret
        /\ my'[t].todo = my[t].todo /\ my'[t].matched = my[t].matched
        /\ my'[t].count = my[t].count /\ my'[t].victim = my[t].victim
    BY <1>3 DEF Count, Check
  <2>2. Working(t)' /\ pc'[t] \notin Starting \cup {"idle"}
    BY <2>1, Zenon DEF Working, Matched, Starting
  <2> QED BY <1>0, <2>1, <2>2, Carried, Zenon
<1>4. CASE GiveDone(t) \/ ExpireChanges(t)
  <2>1. /\ UNCHANGED <<inbox, sent, sub>> /\ pc[t] # "swap" /\ my' = my
        /\ pc'[t] \in {"settle", "expire"} /\ my[t].todo = {}
    BY <1>0, <1>4, Zenon DEF Locals, GiveDone, ExpireChanges, Expire
  <2>2. Working(t)' /\ pc'[t] \notin Starting \cup {"idle"}
    BY <2>1, Zenon DEF Working, Matched, Starting
  <2> QED BY <1>0, <2>1, <2>2, Carried, Zenon
<1>5. CASE Swap(t) \/ UnregisterChanges(t) \/ Clear(t)
  <2>1. /\ UNCHANGED <<inbox, sent, sub>> /\ my' = my
        /\ pc[t] = "swap" => my[t].victim \in closed'
        /\ pc'[t] \in {my[t].ret, "unregister", "clear"}
        /\ pc[t] \in {"swap", "unregister", "clear"}
    BY <1>5, Zenon DEF Swap, UnregisterChanges, Unregister, Clear
  <2>2. my[t].ret = "give"
    BY <1>2, <2>1, Zenon DEF Matched
  <2>3. Working(t)' /\ pc'[t] \notin Starting \cup {"idle", "expire", "settle"}
    BY <2>1, <2>2, Zenon DEF Working, Matched, Starting, Closing
  <2> QED BY <1>0, <2>1, <2>3, Carried, Zenon
<1>6. CASE Settle(t)
  <2>1. pc'[t] = "idle" /\ my'[t] = Idle
    BY <1>6, Zenon DEF Settle, Done
  <2>2. ~Working(t)' /\ pc'[t] \notin Starting
    BY <2>1, Zenon DEF Working, Matched, Closing, Starting
  <2>3. Locals(t)'
    BY <2>1, <2>2 DEF Locals, Starting, Closing, Idle
  <2> QED BY <2>2, <2>3, Zenon DEF Unsent, Given, Served
<1>7. ASSUME NEW x \in Ids, GiveSkipped(t, x) PROVE Goal
  <2>1. /\ pc[t] = "give" /\ x \in my[t].todo /\ ~Eligible(x, t) /\ pc'[t] = "give"
        /\ UNCHANGED <<inbox, sent, sub, closed>> /\ DOMAIN my'[t] = DOMAIN my[t]
        /\ my'[t].todo = my[t].todo \ {x} /\ my'[t].matched = my[t].matched
        /\ my'[t].count = my[t].count /\ pc' = pc
    BY <1>7, Zenon DEF GiveSkipped
  <2>2. \A i \in Ids : ~GiveQueued(t, i)
    BY <2>1, Zenon DEF GiveQueued
  <2> QED BY <2>1, <2>2, Dealt, Zenon
<1>8. ASSUME NEW x \in Ids, GiveOverflows(t, x) PROVE Goal
  <2>1. /\ pc[t] = "give" /\ x \in my[t].todo /\ pc'[t] = "swap"
        /\ UNCHANGED <<inbox, sent, sub, closed>> /\ DOMAIN my'[t] = DOMAIN my[t]
        /\ my'[t].todo = my[t].todo \ {x} /\ my'[t].matched = my[t].matched
        /\ my'[t].count = my[t].count /\ my'[t].ret = "give" /\ my'[t].victim = sub[x].conn
    BY <1>8, Zenon DEF GiveOverflows
  <2>2. \A i \in Ids : ~GiveQueued(t, i)
    BY <2>1, Zenon DEF GiveQueued
  <2>3. Lost(x, t)'
    BY <2>1, Zenon DEF Lost
  <2> QED BY <2>1, <2>2, <2>3, Dealt, Zenon
<1>9. ASSUME NEW x \in Ids, GiveQueued(t, x) PROVE Goal
  <2>1. /\ pc[t] = "give" /\ x \in my[t].todo /\ pc'[t] = "count"
        /\ UNCHANGED <<sent, sub, closed>> /\ DOMAIN my'[t] = DOMAIN my[t]
        /\ my'[t].todo = my[t].todo \ {x} /\ my'[t].matched = my[t].matched
        /\ my'[t].count = my[t].count + 1 /\ my'[t].sub = x
    BY <1>9, Zenon DEF GiveQueued
  <2>2. \A i \in Ids : GiveQueued(t, i) => i = x
    BY <2>1 DEF GiveQueued
  <2>3. Got(x, t)'
    <3>1. sub[x] # NoSub
      BY <1>0, <2>1, Zenon DEF Given
    <3>2. PICK d \in Conns : sub[x].conn = d
      BY <3>1, Zenon DEF FanoutInv, Frames
    <3>3. Copy(x, t, sent[t]) \in Arrived(d)'
      BY <1>9, <3>2, Arrivals, Zenon
    <3> QED BY <2>1, <3>2, <3>3, Zenon DEF Got, Arrived, Copy
  <2>4. my'[t].count \in Nat /\ my'[t].count # 0
    BY <2>1, SMTT(40)
  <2> QED BY <1>9, <2>1, <2>2, <2>3, <2>4, Dealt, Zenon
<1>10. CASE ~(\/ Count(t) \/ Check(t) \/ GiveDone(t) \/ ExpireChanges(t) \/ Swap(t)
              \/ UnregisterChanges(t) \/ Clear(t) \/ Settle(t)
              \/ \E x \in Ids : GiveSkipped(t, x) \/ GiveQueued(t, x) \/ GiveOverflows(t, x))
  BY <1>2, <1>10, Zenon DEF RegistryStep, Other, InsertChanges, Insert, RemoveChanges, Remove,
     LoadGeneration, Resolve, Read, Remember, StoreLimit, Forget, Pick, ReaderCloses,
     ReaderLeaves, SubscribeIgnored, SubscribeNew, UnsubscribeUnknown, UnsubscribeKnown,
     Publish, Take, Matched, Closing
<1> HIDE DEF Goal
<1>11. Goal
  BY <1>3, <1>4, <1>5, <1>6, <1>7, <1>8, <1>9, <1>10, Zenon DEF Goal
<1> QED BY <1>11, Zenon DEF Goal

\* Every step keeps the invariant of the fan-out.
LEMMA FanoutStep ==
    ASSUME RegistryInv, FanoutInv, NEW t \in Conns, RegistryStep(t)
    PROVE  FanoutInv'
<1>1. Locals(t)' /\ Unsent(t)' /\ Given(t)' /\ Served(t)'
  <2>1. CASE Working(t)
    BY <2>1, WorkingStep, Zenon
  <2>2. CASE Publishing(t) \/ LoadGeneration(t) \/ Resolve(t)
    BY <2>2, StartingStep, Zenon
  <2>3. CASE Pick(t)
    BY <2>3, PickStep, Zenon
  <2>4. CASE pc[t] \notin Starting /\ ~Working(t) /\ ~Publishing(t)
    BY <2>4, OutsideStep, SMTT(40)
  <2>5. CASE pc[t] \in Starting /\ ~(LoadGeneration(t) \/ Resolve(t) \/ Pick(t))
    BY <2>5, Zenon DEF RegistryStep, Other, InsertChanges, Insert, RemoveChanges, Remove,
       UnregisterChanges, Unregister, ExpireChanges, Expire, Read, Remember, StoreLimit,
       Forget, Count, Check, GiveDone, Settle, ReaderCloses, ReaderLeaves, Swap, Clear,
       SubscribeIgnored, SubscribeNew, UnsubscribeUnknown, UnsubscribeKnown, Publish, Take,
       GiveSkipped, GiveQueued, GiveOverflows, Starting
  <2> QED BY <2>1, <2>2, <2>3, <2>4, <2>5, Zenon
<1>2. \A c \in Conns : Locals(c)' /\ Unsent(c)' /\ Given(c)' /\ Served(c)'
  BY <1>1, OthersKeep, Zenon
<1> QED BY <1>2, FramesStep, GroupOnceStep, StatusStep, Zenon DEF FanoutInv

\* Nothing has been published when the server starts.
LEMMA FanoutInit == RegistryInit => FanoutInv
<1> SUFFICES ASSUME RegistryInit PROVE FanoutInv
  BY Zenon
<1>1. /\ \A c \in Conns : inbox[c] = <<>> /\ sent[c] = 0 /\ pc[c] = "idle" /\ my[c] = Idle
      /\ \A i \in Ids : sub[i] = NoSub
      /\ inbox = [c \in Conns |-> <<>>] /\ sent = [c \in Conns |-> 0]
  BY Zenon DEF RegistryInit, Init
<1>2. <<>> \in Seq(Frame) /\ DOMAIN <<>> = {}
  OBVIOUS
<1>3. Frames
  BY <1>1, <1>2, Zenon DEF Frames, Arrived, Once
<1>4. GroupOnce
  BY <1>1, Zenon DEF GroupOnce
<1>5. StatusMeansNobody
  BY <1>1, <1>2, Zenon DEF StatusMeansNobody
<1>6. ASSUME NEW c \in Conns PROVE Locals(c) /\ Unsent(c) /\ Given(c) /\ Served(c)
  <2>1. pc[c] = "idle" /\ my[c] = Idle /\ ~Working(c)
    BY <1>1, Zenon DEF Working, Matched, Closing
  <2>2. Locals(c)
    BY <2>1 DEF Locals, Starting, Closing, Idle
  <2> QED BY <2>1, <2>2, Zenon DEF Unsent, Given, Served, Starting
<1> QED BY <1>3, <1>4, <1>5, <1>6, Zenon DEF FanoutInv
=============================================================================
