---------------------------- MODULE FanoutProofs ----------------------------
(***************************************************************************)
(* Theorems about the fan-out of a publish (Registry::route), for any      *)
(* connections, commands, filters and groups, and whatever the subscribers *)
(* and other publishers do meanwhile: who gets a copy, how many, and when  *)
(* the publisher is told that nobody did, with FanoutInv of module         *)
(* RegistryProofs for the invariant; and by how much the copies can exceed *)
(* the maximum of an UNSUB, with the invariant LimitInv.                   *)
(***************************************************************************)
EXTENDS RegistryProofs

-----------------------------------------------------------------------------
(* What the fan-out promises                                               *)

\* The two invariants hold together in every reachable state.
LEMMA FanoutInvariant == RegistrySpec => [](RegistryInv /\ FanoutInv)
<1>1. RegistryInv /\ FanoutInv /\ [RegistryNext]_registryState => FanoutInv'
  <2>1. ASSUME FanoutInv, UNCHANGED registryState PROVE FanoutInv'
    <3>1. UNCHANGED <<pc, my, sub, closed, inbox, sent>>
      BY <2>1, Zenon DEF registryState, vars, registryVars, subVars, connVars, clientVars, taskVars
    <3>2. \A c : Arrived(c)' = Arrived(c)
      BY <3>1, Zenon DEF Arrived
    <3>3. Frames'
      BY <2>1, <3>1, <3>2, SMTT(40) DEF FanoutInv, Frames, Once
    <3>4. GroupOnce'
      BY <2>1, <3>1 DEF FanoutInv, GroupOnce, Copies
    <3>5. StatusMeansNobody'
      BY <2>1, <3>1 DEF FanoutInv, StatusMeansNobody, Copies
    <3>6. ASSUME NEW c \in Conns PROVE Locals(c)' /\ Unsent(c)' /\ Given(c)' /\ Served(c)'
      <4>0. Locals(c) /\ Unsent(c) /\ Given(c) /\ Served(c)
        BY <2>1, Zenon DEF FanoutInv
      <4>1. Locals(c)' /\ Unsent(c)'
        BY <3>1, <3>2, <4>0, ZenonT(40) DEF Locals, Unsent, Working
      <4>2. Given(c)'
        BY <3>1, <4>0, SMTT(40) DEF Given, Working, Got, Arrived, Copy
      <4>3. Served(c)'
        <5>1. CASE Working(c)
          <6>1. \A i : (Got(i, c)' <=> Got(i, c)) /\ (Eligible(i, c)' <=> Eligible(i, c))
                       /\ (Lost(i, c)' <=> Lost(i, c))
            BY <3>1, Zenon DEF Got, Arrived, Copy, Eligible, Lost
          <6>2. \A i \in my[c].matched : sub[i].queue = NoQueue =>
                   i \in my[c].todo \/ Got(i, c)' \/ ~Eligible(i, c)' \/ Lost(i, c)'
            BY <4>0, <5>1, <6>1, Zenon DEF Served
          <6>3. \A i \in my[c].matched : sub[i].queue # NoQueue /\ Eligible(i, c)' =>
                   \E j \in my[c].matched :
                      /\ sub[j].queue = sub[i].queue
                      /\ j \in my[c].todo \/ Got(j, c)' \/ Lost(j, c)'
            BY <4>0, <5>1, <6>1, Zenon DEF Served
          <6> QED BY <3>1, <4>0, <5>1, <6>2, <6>3, Zenon DEF Served
        <5>2. CASE ~Working(c)
          BY <3>1, <5>2, Zenon DEF Served, Working
        <5> QED BY <5>1, <5>2, Zenon
      <4> QED BY <4>1, <4>2, <4>3, Zenon
    <3> QED BY <3>3, <3>4, <3>5, <3>6, Zenon DEF FanoutInv
  <2> QED BY <2>1, FanoutStep, Zenon DEF RegistryNext
<1> QED BY <1>1, FanoutInit, InitRegistryInv, NextRegistryInv, PTL DEF RegistrySpec

\* One message reaches at most one member of a queue group, however the members
\* come, go and close while pick_groups and the deliveries run.
THEOREM RegistryGroupOnce == RegistrySpec => []GroupOnce
<1>1. FanoutInv => GroupOnce
  BY Zenon DEF FanoutInv
<1> QED BY <1>1, FanoutInvariant, PTL

\* no_responder_check tells a publisher that nobody is there only when no copy of
\* its message was queued for anyone.
THEOREM RegistryStatusMeansNobody == RegistrySpec => []StatusMeansNobody
<1>1. FanoutInv => StatusMeansNobody
  BY Zenon DEF FanoutInv
<1> QED BY <1>1, FanoutInvariant, PTL

\* A plain subscription that the publish matched, and whose connection is open at
\* the end of the fan-out, got exactly one copy, whoever overflowed meanwhile.
THEOREM RegistryPlainServed == RegistrySpec => []PlainServed
<1>1. ASSUME FanoutInv PROVE PlainServed
  <2> SUFFICES ASSUME NEW c \in Conns, pc[c] = "settle", NEW i \in my[c].matched,
                      sub[i].queue = NoQueue, Eligible(i, c)
               PROVE  Cardinality(Copies(i, c, sent[c])) = 1
    BY Zenon DEF PlainServed
  <2>0. Frames /\ Locals(c) /\ Served(c) /\ Working(c)
    BY <1>1, Zenon DEF FanoutInv, Working, Matched
  <2>1. my[c].todo = {} /\ i \in Ids /\ sub[i] # NoSub
    BY <2>0, Zenon DEF Locals
  <2>2. Got(i, c)
    BY <2>0, <2>1, Zenon DEF Served, Lost, Eligible
  <2>3. sub[i].conn \in Conns /\ i # NoSub
    BY <2>0, <2>1, DeliveryAssumption, Zenon DEF Frames, DeliveryAssumption
  <2>4. PICK k \in DOMAIN inbox[sub[i].conn] : inbox[sub[i].conn][k] = Copy(i, c, sent[c])
    BY <2>2, Zenon DEF Got, Arrived
  <2>5. \A l \in DOMAIN inbox[sub[i].conn] : inbox[sub[i].conn][l] = Copy(i, c, sent[c]) => l = k
    BY <2>0, <2>3, <2>4 DEF Frames, Once, Copy
  <2>6. Copies(i, c, sent[c]) = {k}
    BY <2>4, <2>5, Zenon DEF Copies, Copy
  <2> QED BY <2>6, FS_Singleton, Zenon
<1> QED BY <1>1, FanoutInvariant, PTL

\* A group with a member that can take the message at the end, and none of whose
\* members closed meanwhile, got a copy: busy members are no reason to drop it.
THEOREM RegistryBusyGroupServed == RegistrySpec => []BusyGroupServed
<1>1. ASSUME FanoutInv PROVE BusyGroupServed
  <2> SUFFICES ASSUME NEW c \in Conns, pc[c] = "settle", NEW q \in Groups(my[c].matched),
                      NEW i \in Members(my[c].matched, q), Eligible(i, c),
                      \A j \in Members(my[c].matched, q) : sub[j].conn \notin closed
               PROVE  \E j \in Members(my[c].matched, q) : Copies(j, c, sent[c]) # {}
    BY Zenon DEF BusyGroupServed
  <2>0. Locals(c) /\ Served(c) /\ Working(c)
    BY <1>1, Zenon DEF FanoutInv, Working, Matched
  <2>1. i \in my[c].matched /\ sub[i].queue = q /\ q # NoQueue /\ my[c].todo = {}
    BY <2>0, Zenon DEF Members, Groups, Queued, Locals
  <2>2. PICK j \in my[c].matched :
           sub[j].queue = q /\ (j \in my[c].todo \/ Got(j, c) \/ Lost(j, c))
    BY <2>0, <2>1, Zenon DEF Served
  <2>3. j \in Members(my[c].matched, q)
    BY <2>2, Zenon DEF Members
  <2>4. Got(j, c)
    BY <2>1, <2>2, <2>3, Zenon DEF Lost
  <2>5. Copies(j, c, sent[c]) # {}
    BY <2>4, Zenon DEF Got, Arrived, Copies, Copy
  <2> QED BY <2>3, <2>5, Zenon
<1> QED BY <1>1, FanoutInvariant, PTL

-----------------------------------------------------------------------------
(* The limit of an UNSUB with a maximum                                    *)

\* The tasks that have queued a copy for i and not counted it yet.
Counting(i) == {p \in Conns : pc[p] = "count" /\ my[p].sub = i}

\* Task p has a copy for i to give or to count.
Pending(p, i) ==
    \/ pc[p] = "pick" /\ i \in my[p].matched
    \/ Working(p) /\ i \in my[p].todo
    \/ pc[p] = "count" /\ my[p].sub = i

\* Task p knows that i is to go, and has not taken it out yet.
Spender(p, i) ==
    \/ pc[p] = "check" /\ my[p].sub = i /\ my[p].n >= limit[i]
    \/ Working(p) /\ pc[p] # "settle" /\ i \in my[p].expired

\* The publishers that may still deliver to i: those with a copy on its way and,
\* while i is registered, those that have not seen the limit spent.
Able(i) ==
    {p \in Conns \cap Publishers : Pending(p, i) \/ (i \in registered /\ ~Spender(p, i))}

\* The counters, and the operands of set_limit.
Numbers ==
    /\ delivered \in [Ids -> Nat] /\ limit \in [Ids -> Nat] /\ quiet \subseteq Ids
    /\ \A c \in Conns : pc[c] = "limit" =>
          my[c].max \in Int /\ (my[c].keep => my[c].max > 0)

\* A subscription that an UNSUB can find is past its insertion for good.
PastInsertion ==
    /\ \A i \in quiet : sub[i] # NoSub
    /\ \A c \in Conns : \A i \in known[c] : i \in Ids /\ sub[i] # NoSub
    /\ \A c \in Conns : pc[c] = "limit" => my[c].sub \in Ids /\ sub[my[c].sub] # NoSub
    /\ \A t \in Conns : pc[t] = "insert" =>
          /\ my[t].sub \notin quiet
          /\ \A c \in Conns : /\ my[t].sub \notin known[c]
                              /\ pc[c] = "limit" => my[c].sub # my[t].sub

\* Who publishes, and what it is counting.
Delivering(c) ==
    /\ pc[c] \in Starting \/ Working(c) => c \in Publishers
    /\ pc[c] \in {"count", "check"} =>
          my[c].sub \in Ids /\ sub[my[c].sub] # NoSub /\ my[c].sub \notin my[c].todo
    /\ pc[c] = "check" => my[c].n \in Nat

\* Every copy that was queued has been counted, or is about to be.
Tally(i) ==
    /\ sub[i] = NoSub => delivered[i] = 0
    /\ sub[i] # NoSub =>
          /\ IsFiniteSet(Received(i))
          /\ Cardinality(Received(i)) = delivered[i] + Cardinality(Counting(i))

\* Once the limit is reached, each delivery takes its publisher out of Able(i).
Bounded(i) ==
    limit[i] > 0 =>
        \/ delivered[i] < limit[i]
        \/ delivered[i] + Cardinality(Able(i)) <= limit[i] - 1 + Cardinality(Publishers)

\* Together, with who a registered subscription belongs to.
LimitInv ==
    /\ Owned /\ Numbers /\ PastInsertion
    /\ \A c \in Conns : Delivering(c)
    /\ \A i \in Ids : Tally(i)
    /\ \A i \in quiet : Bounded(i)

-----------------------------------------------------------------------------

\* account increments the count, set_limit stores the limit, and nobody else does.
LEMMA CounterStep ==
    ASSUME NEW t \in Conns, RegistryStep(t)
    PROVE  /\ ~Count(t) => delivered' = delivered
           /\ ~StoreLimit(t) => limit' = limit /\ quiet' = quiet
<1> USE DEF subVars
<1>1. CASE Other(t)
  BY <1>1, Zenon DEF Other, Read, Remember, StoreLimit, Forget, Pick, Count, Check, GiveDone,
     Settle, ReaderCloses, ReaderLeaves, Swap, Clear, SubscribeIgnored, SubscribeNew,
     UnsubscribeUnknown, UnsubscribeKnown, Publish, GiveSkipped, GiveQueued, GiveOverflows
<1>2. CASE LoadGeneration(t) \/ Resolve(t)
  BY <1>2, Zenon DEF LoadGeneration, Resolve
<1>3. CASE InsertChanges(t) \/ RemoveChanges(t) \/ UnregisterChanges(t) \/ ExpireChanges(t)
  BY <1>3, Zenon DEF InsertChanges, Insert, RemoveChanges, Remove, UnregisterChanges, Unregister,
     ExpireChanges, Expire
<1> QED BY <1>1, <1>2, <1>3, Zenon DEF RegistryStep

\* Where the publish of another task stands does not change.
LEMMA OthersDeliver ==
    ASSUME RegistryInv, FanoutInv, NEW t \in Conns, RegistryStep(t), NEW c \in Conns, c # t,
           Delivering(c)
    PROVE  /\ Delivering(c)'
           /\ \A i \in Ids : Pending(c, i)' <=> Pending(c, i)
           /\ \A i \in Ids : limit'[i] = limit[i] => (Spender(c, i)' <=> Spender(c, i))
           /\ \A i \in Ids : c \in Counting(i)' <=> c \in Counting(i)
<1>1. pc'[c] = pc[c] /\ my'[c] = my[c] /\ \A i \in Ids : sub[i] # NoSub => sub'[i] = sub[i]
  BY StepFrame, Zenon
<1>2. Working(c)' <=> Working(c)
  BY <1>1, Zenon DEF Working
<1>3. Delivering(c)'
  BY <1>1, <1>2, Zenon DEF Delivering
<1>4. \A i \in Ids : Pending(c, i)' <=> Pending(c, i)
  BY <1>1, <1>2, Zenon DEF Pending
<1>5. \A i \in Ids : limit'[i] = limit[i] => (Spender(c, i)' <=> Spender(c, i))
  BY <1>1, <1>2, Zenon DEF Spender
<1>6. \A i \in Ids : c \in Counting(i)' <=> c \in Counting(i)
  BY <1>1, Zenon DEF Counting
<1> QED BY <1>3, <1>4, <1>5, <1>6, Zenon

\* What a step does to the publish of its own task: a copy comes to be pending by
\* a match with what is registered, a task that knows i is to go knows it until it
\* takes i out, and a copy is counted once.
LEMMA DelivererStep ==
    ASSUME RegistryInv, FanoutInv, Numbers, NEW t \in Conns, RegistryStep(t), Delivering(t)
    PROVE  /\ Delivering(t)'
           /\ \A i \in Ids : Pending(t, i)' =>
                 Pending(t, i) \/ (i \in registered /\ pc[t] \in {"match", "resolve"})
           /\ \A i \in Ids : Spender(t, i) /\ limit'[i] = limit[i] /\ limit[i] > 0 /\ i \in registered' =>
                 Spender(t, i)'
           /\ \A i \in Ids : t \in Counting(i)' <=>
                 GiveQueued(t, i) \/ (t \in Counting(i) /\ ~Count(t))
<1> DEFINE Goal ==
      /\ Delivering(t)'
      /\ \A i \in Ids : Pending(t, i)' =>
            Pending(t, i) \/ (i \in registered /\ pc[t] \in {"match", "resolve"})
      /\ \A i \in Ids : Spender(t, i) /\ limit'[i] = limit[i] /\ limit[i] > 0 /\ i \in registered' =>
            Spender(t, i)'
      /\ \A i \in Ids : t \in Counting(i)' <=>
            GiveQueued(t, i) \/ (t \in Counting(i) /\ ~Count(t))
<1>0. Shape /\ Locals(t) /\ Given(t) /\ CacheCoherent
  BY Zenon DEF RegistryInv, FanoutInv
<1>1. /\ {"sub", "n", "todo", "count", "matched", "expired", "victim", "ret"} \subseteq DOMAIN my[t]
      /\ DOMAIN my = Conns /\ DOMAIN pc = Conns
  BY <1>0, Zenon DEF Locals, Shape
<1>2. \A i \in Ids : sub[i] # NoSub => sub'[i] = sub[i]
  BY StepFrame, Zenon
<1> USE <1>1 DEF Goto, connVars, clientVars, subVars, taskVars
<1>3. CASE Count(t)
  <2>1. /\ pc[t] = "count" /\ pc'[t] = "check" /\ my'[t].sub = my[t].sub
        /\ my'[t].n = delivered[my[t].sub] + 1 /\ my'[t].todo = my[t].todo
        /\ my'[t].expired = my[t].expired
    BY <1>3, Zenon DEF Count
  <2>2. my[t].sub \in Ids /\ sub[my[t].sub] # NoSub /\ my[t].sub \notin my[t].todo /\ t \in Publishers
    BY <2>1, Zenon DEF Delivering, Working, Matched
  <2>3. my'[t].n \in Nat
    BY <2>1, <2>2 DEF Numbers
  <2>4. Working(t) /\ Working(t)'
    BY <2>1, Zenon DEF Working, Matched
  <2>5. Delivering(t)'
    BY <1>2, <2>1, <2>2, <2>3, Zenon DEF Delivering
  <2> QED BY <1>3, <2>1, <2>4, <2>5, Zenon DEF Pending, Spender, Counting, GiveQueued
<1>4. CASE Check(t)
  <2>1. /\ pc[t] = "check" /\ pc'[t] = "give" /\ my'[t].todo = my[t].todo
        /\ my'[t].expired = my[t].expired \cup
              (IF Spent(my[t].n, limit[my[t].sub]) THEN {my[t].sub} ELSE {})
    BY <1>4 DEF Check
  <2>2. my[t].sub \in Ids /\ my[t].n \in Nat /\ t \in Publishers /\ Working(t) /\ Working(t)'
    BY <2>1, Zenon DEF Delivering, Working, Matched
  <2>3. Delivering(t)'
    BY <2>1, <2>2, Zenon DEF Delivering
  <2>4. limit[my[t].sub] > 0 /\ my[t].n >= limit[my[t].sub] => Spent(my[t].n, limit[my[t].sub])
    BY <2>2 DEF Spent, Numbers
  <2> QED BY <1>4, <2>1, <2>2, <2>3, <2>4, Zenon DEF Pending, Spender, Counting, GiveQueued, Count
<1>5. CASE GiveDone(t)
  <2>1. pc[t] = "give" /\ pc'[t] \in {"settle", "expire"} /\ my' = my /\ my[t].todo = {}
        /\ (pc'[t] = "settle" => my[t].expired = {})
    BY <1>5, Zenon DEF GiveDone
  <2>2. Working(t) /\ Working(t)' /\ t \in Publishers
    BY <2>1, Zenon DEF Delivering, Working, Matched
  <2>3. Delivering(t)'
    BY <2>1, <2>2, Zenon DEF Delivering
  <2> QED BY <2>1, <2>2, <2>3, Zenon DEF Pending, Spender, Counting, GiveQueued, Count
<1>6. CASE ExpireChanges(t)
  <2>1. /\ pc[t] = "expire" /\ pc'[t] = "settle" /\ my' = my
        /\ registered' = registered \ UNION {RemovedWith(i) : i \in my[t].expired}
    BY <1>6, Zenon DEF ExpireChanges, Expire, Drop
  <2>2. Working(t) /\ Working(t)' /\ t \in Publishers
    BY <2>1, Zenon DEF Delivering, Working, Matched
  <2>3. Delivering(t)'
    BY <2>1, <2>2, Zenon DEF Delivering
  <2>4. ASSUME NEW i \in my[t].expired PROVE i \notin registered'
    <3>1. i \in registered => i \in RemovedWith(i)
      BY Zenon DEF RemovedWith
    <3> QED BY <2>1, <3>1, Zenon
  <2> QED BY <2>1, <2>2, <2>3, <2>4, Zenon DEF Pending, Spender, Counting, GiveQueued, Count
<1>7. CASE Working(t) /\ (Swap(t) \/ UnregisterChanges(t) \/ Clear(t))
  <2>1. /\ pc[t] \in Closing /\ my' = my /\ pc'[t] \in {my[t].ret, "unregister", "clear"}
    BY <1>7, Zenon DEF Swap, UnregisterChanges, Unregister, Clear, Closing
  <2>2. my[t].ret = "give" /\ t \in Publishers
    BY <1>7, <2>1, Zenon DEF Working, Matched, Closing, Delivering
  <2>3. Working(t)' /\ pc'[t] \notin {"settle", "count", "check", "pick"} /\ pc'[t] \notin Starting
    BY <2>1, <2>2, Zenon DEF Working, Matched, Closing, Starting
  <2>4. Delivering(t)'
    BY <2>2, <2>3, Zenon DEF Delivering
  <2> QED BY <1>7, <2>1, <2>3, <2>4, Zenon DEF Pending, Spender, Counting, GiveQueued, Count, Closing
<1>8. CASE Settle(t)
  <2>1. pc[t] = "settle" /\ pc'[t] = "idle"
    BY <1>8, Zenon DEF Settle, Done
  <2>2. ~Working(t)' /\ pc'[t] \notin Starting
    BY <2>1, Zenon DEF Working, Matched, Closing, Starting
  <2>3. Delivering(t)'
    BY <2>1, <2>2, Zenon DEF Delivering
  <2> QED BY <2>1, <2>2, <2>3, Zenon DEF Pending, Spender, Counting, GiveQueued, Count
<1>9. ASSUME NEW x \in Ids, GiveSkipped(t, x) \/ GiveOverflows(t, x) PROVE Goal
  <2>1. /\ pc[t] = "give" /\ pc'[t] \in {"give", "swap"} /\ my'[t].todo = my[t].todo \ {x}
        /\ my[t].expired \subseteq my'[t].expired
        /\ pc'[t] = "swap" => my'[t].ret = "give"
    BY <1>9 DEF GiveSkipped, GiveOverflows
  <2>2. Working(t) /\ Working(t)' /\ t \in Publishers
    BY <2>1, Zenon DEF Delivering, Working, Matched, Closing
  <2>3. Delivering(t)'
    BY <2>1, <2>2, Zenon DEF Delivering
  <2>4. \A i \in Ids : ~GiveQueued(t, i)
    BY <1>9, <2>1, Zenon DEF GiveSkipped, GiveOverflows, GiveQueued
  <2> QED BY <2>1, <2>2, <2>3, <2>4, Zenon DEF Pending, Spender, Counting, Count
<1>10. ASSUME NEW x \in Ids, GiveQueued(t, x) PROVE Goal
  <2>1. /\ pc[t] = "give" /\ pc'[t] = "count" /\ my'[t].todo = my[t].todo \ {x}
        /\ x \in my[t].todo /\ my'[t].sub = x /\ my'[t].expired = my[t].expired
    BY <1>10, Zenon DEF GiveQueued
  <2>2. Working(t) /\ Working(t)' /\ t \in Publishers /\ sub[x] # NoSub
    BY <1>0, <2>1, Zenon DEF Delivering, Working, Matched, Closing, Given
  <2>3. Delivering(t)'
    BY <1>2, <2>1, <2>2, Zenon DEF Delivering
  <2>4. \A i \in Ids : GiveQueued(t, i) => i = x
    BY <2>1 DEF GiveQueued
  <2>5. \A i \in Ids : Pending(t, i)' => Pending(t, i)
    BY <2>1, <2>2, Zenon DEF Pending
  <2> QED BY <1>10, <2>1, <2>2, <2>3, <2>4, <2>5, Zenon DEF Spender, Counting, Count
<1>11. CASE Publishing(t)
  <2>1. PICK r \in Publishes : Publish(t, r)
    BY <1>11, Zenon DEF Publishing
  <2>2. pc[t] = "idle" /\ pc'[t] = "match" /\ t \in Publishers
    BY <2>1, Zenon DEF Publish, Take, Publishers
  <2>3. ~Working(t) /\ ~Working(t)'
    BY <2>2, Zenon DEF Working, Matched, Closing
  <2>4. Delivering(t)'
    BY <2>2, Zenon DEF Delivering
  <2> QED BY <2>2, <2>3, <2>4, Zenon DEF Pending, Spender, Counting, GiveQueued, Count
<1>12. CASE LoadGeneration(t) \/ Resolve(t)
  <2>1. /\ pc[t] \in {"match", "resolve"} /\ pc'[t] \in {"resolve", "pick"}
        /\ pc'[t] = "pick" => my'[t].matched = Matching(my[t].subject)
    BY <1>0, <1>12, Zenon DEF LoadGeneration, Resolve, Fresh, CacheCoherent
  <2>2. Matching(my[t].subject) \subseteq registered
    BY Zenon DEF Matching
  <2>3. ~Working(t) /\ ~Working(t)' /\ t \in Publishers
    BY <2>1, Zenon DEF Working, Matched, Closing, Delivering, Starting
  <2>4. Delivering(t)'
    BY <2>1, <2>3, Zenon DEF Delivering
  <2> QED BY <2>1, <2>2, <2>3, <2>4, Zenon DEF Pending, Spender, Counting, GiveQueued, Count
<1>13. CASE Pick(t)
  <2>1. /\ pc[t] = "pick" /\ pc'[t] = "give" /\ my'[t].todo \subseteq my[t].matched
    BY <1>13, Zenon DEF Pick, Queued
  <2>2. ~Working(t) /\ t \in Publishers
    BY <2>1, Zenon DEF Working, Matched, Closing, Delivering, Starting
  <2>3. Delivering(t)'
    BY <2>1, <2>2, Zenon DEF Delivering
  <2> QED BY <2>1, <2>2, <2>3, Zenon DEF Pending, Spender, Counting, GiveQueued, Count
<1>14. CASE pc[t] \notin Starting /\ ~Working(t) /\ ~Publishing(t)
  <2>1. pc'[t] \notin Starting /\ ~Working(t)'
    BY <1>14, OutsideStep, Zenon
  <2>2. pc'[t] \notin {"pick", "count", "check"} /\ pc[t] \notin {"pick", "count", "check", "give"}
    BY <1>14, <2>1, Zenon DEF Starting, Working, Matched
  <2>3. Delivering(t)'
    BY <2>1, <2>2, Zenon DEF Delivering
  <2> QED BY <1>14, <2>1, <2>2, <2>3, Zenon DEF Pending, Spender, Counting, GiveQueued, Count
<1>15. CASE /\ Working(t)
            /\ ~(\/ Count(t) \/ Check(t) \/ GiveDone(t) \/ ExpireChanges(t) \/ Swap(t)
                 \/ UnregisterChanges(t) \/ Clear(t) \/ Settle(t)
                 \/ \E x \in Ids : GiveSkipped(t, x) \/ GiveQueued(t, x) \/ GiveOverflows(t, x))
  BY <1>15, Zenon DEF RegistryStep, Other, InsertChanges, Insert, RemoveChanges, Remove,
     LoadGeneration, Resolve, Read, Remember, StoreLimit, Forget, Pick, ReaderCloses,
     ReaderLeaves, SubscribeIgnored, SubscribeNew, UnsubscribeUnknown, UnsubscribeKnown,
     Publish, Take, Working, Matched, Closing
<1>16. CASE pc[t] \in Starting /\ ~(LoadGeneration(t) \/ Resolve(t) \/ Pick(t))
  BY <1>16, Zenon DEF RegistryStep, Other, InsertChanges, Insert, RemoveChanges, Remove,
     UnregisterChanges, Unregister, ExpireChanges, Expire, Read, Remember, StoreLimit,
     Forget, Count, Check, GiveDone, Settle, ReaderCloses, ReaderLeaves, Swap, Clear,
     SubscribeIgnored, SubscribeNew, UnsubscribeUnknown, UnsubscribeKnown, Publish, Take,
     GiveSkipped, GiveQueued, GiveOverflows, Starting
<1> HIDE DEF Goal
<1>17. Goal
  BY <1>3, <1>4, <1>5, <1>6, <1>7, <1>8, <1>9, <1>10, <1>11, <1>12, <1>13, <1>14, <1>15, <1>16,
     Zenon DEF Goal
<1> QED BY <1>17, Zenon DEF Goal

\* The counters are numbers: account adds one, and a limit that is kept is positive.
LEMMA NumbersStep ==
    ASSUME RegistryInv, FanoutInv, Numbers, PastInsertion, NEW t \in Conns, RegistryStep(t),
           Delivering(t)
    PROVE  Numbers'
<1>0. Shape
  BY Zenon DEF RegistryInv
<1>1. delivered' \in [Ids -> Nat]
  <2>1. CASE Count(t)
    <3>1. /\ pc[t] = "count"
          /\ delivered' = [delivered EXCEPT ![my[t].sub] = delivered[my[t].sub] + 1]
      BY <2>1, Zenon DEF Count
    <3>2. delivered[my[t].sub] + 1 \in Nat
      BY <3>1 DEF Numbers, Delivering
    <3> QED BY <3>1, <3>2, Zenon DEF Numbers
  <2>2. CASE ~Count(t)
    BY <2>2, CounterStep, Zenon DEF Numbers
  <2> QED BY <2>1, <2>2
<1>2. limit' \in [Ids -> Nat] /\ quiet' \subseteq Ids
  <2>1. CASE StoreLimit(t)
    <3>1. /\ pc[t] = "limit" /\ my[t].sub \in Ids /\ my[t].max \in Int
          /\ my[t].keep => my[t].max > 0
      BY <2>1, Zenon DEF StoreLimit, Numbers, PastInsertion
    <3>2. limit' = [limit EXCEPT ![my[t].sub] = IF my[t].keep THEN my[t].max ELSE 0]
      BY <2>1, Zenon DEF StoreLimit
    <3>3. quiet' = quiet \cup {my[t].sub} \/ quiet' = quiet \ {my[t].sub}
      BY <2>1, Zenon DEF StoreLimit
    <3>4. (IF my[t].keep THEN my[t].max ELSE 0) \in Nat
      BY <3>1
    <3> QED BY <3>1, <3>2, <3>3, <3>4, Zenon DEF Numbers
  <2>2. CASE ~StoreLimit(t)
    BY <2>2, CounterStep, Zenon DEF Numbers
  <2> QED BY <2>1, <2>2
<1>3. ASSUME NEW c \in Conns
      PROVE  pc'[c] = "limit" => my'[c].max \in Int /\ (my'[c].keep => my'[c].max > 0)
  <2>1. CASE c # t
    <3>1. pc'[c] = pc[c] /\ my'[c] = my[c]
      BY <2>1, StepFrame, Zenon
    <3> QED BY <3>1, Zenon DEF Numbers
  <2>2. CASE c = t
    <3>1. CASE \E r \in Unsubscribes : UnsubscribeKnown(t, r)
      <4>1. PICK r \in Unsubscribes, i \in known[t] :
               my' = [my EXCEPT ![t].sub = i, ![t].max = r.max, ![t].keep = Keeps(i, r.max)]
        BY <3>1, Zenon DEF UnsubscribeKnown
      <4> DEFINE k == Keeps(i, r.max)
      <4>2. my' = [my EXCEPT ![t].sub = i, ![t].max = r.max, ![t].keep = k]
        BY <4>1, Zenon
      <4>3. k => r.max > 0
        BY DEF Keeps
      <4> HIDE DEF k
      <4>4. my'[t].max = r.max /\ my'[t].keep = k
        <5>1. pc[t] = "idle"
          BY <3>1, Zenon DEF UnsubscribeKnown, Take
        <5>2. my[t] = Idle
          BY <5>1, Zenon DEF FanoutInv, Locals
        <5>3. {"sub", "max", "keep"} \subseteq DOMAIN my[t]
          BY <5>2, Zenon DEF Idle
        <5> QED BY <1>0, <4>2, <5>3, Zenon DEF Shape
      <4>5. r.max \in Int
        BY LimitAssumption, Zenon DEF LimitAssumption
      <4> QED BY <2>2, <4>3, <4>4, <4>5, Zenon
    <3>2. CASE ~\E r \in Unsubscribes : UnsubscribeKnown(t, r)
      <4>1. pc'[t] # "limit"
        <5>1. CASE ~Edits(t)
          BY <5>1, NotEditing, Zenon DEF Editing
        <5>2. CASE Edits(t)
          BY <1>0, <3>2, <5>2, Zenon DEF Edits, SubscribeNew, InsertChanges, Insert, Remember,
             StoreLimit, Forget, RemoveChanges, Remove, Goto, Done, Shape
        <5> QED BY <5>1, <5>2
      <4> QED BY <2>2, <4>1, Zenon
    <3> QED BY <3>1, <3>2
  <2> QED BY <2>1, <2>2
<1> QED BY <1>1, <1>2, <1>3, Zenon DEF Numbers

\* Where identities come from: an insertion is of an unused one, an UNSUB names one
\* of the table, Remember enters the one it inserted, and a limit is stored for the
\* one the UNSUB found.
LEMMA EditFrame ==
    ASSUME RegistryInv, NEW t \in Conns, RegistryStep(t)
    PROVE  /\ pc'[t] = "insert" => my'[t].sub \in Ids /\ sub[my'[t].sub] = NoSub
           /\ pc'[t] = "limit" => my'[t].sub \in known[t]
           /\ \A d \in Conns : \A i \in known'[d] :
                 i \in known[d] \/ (d = t /\ pc[t] = "remember" /\ i = my[t].sub /\ pc'[t] = "idle")
           /\ \A i \in quiet' : i \in quiet \/ (pc[t] = "limit" /\ i = my[t].sub)
<1>0. Shape
  BY Zenon DEF RegistryInv
<1>1. \A i \in quiet' : i \in quiet \/ (pc[t] = "limit" /\ i = my[t].sub)
  <2>1. CASE StoreLimit(t)
    <3>1. /\ pc[t] = "limit"
          /\ quiet' = quiet \cup {my[t].sub} \/ quiet' = quiet \ {my[t].sub}
      BY <2>1, Zenon DEF StoreLimit
    <3> QED BY <3>1, Zenon
  <2> QED BY <2>1, CounterStep, Zenon
<1> USE <1>0 DEF Shape, Goto, Done, registryVars, subVars, connVars, clientVars, taskVars
<1>2. ASSUME NEW d \in Conns, NEW i \in known'[d]
      PROVE  i \in known[d] \/ (d = t /\ pc[t] = "remember" /\ i = my[t].sub /\ pc'[t] = "idle")
  <2>1. CASE Remember(t) \/ Forget(t) \/ Clear(t)
    <3>1. CASE Remember(t)
      <4>1. /\ pc[t] = "remember" /\ pc' = [pc EXCEPT ![t] = "idle"]
            /\ known' = [known EXCEPT ![t] =
                  {j \in known[t] : sub[j].sid # sub[my[t].sub].sid} \cup {my[t].sub}]
        BY <3>1, Zenon DEF Remember
      <4> QED BY <1>2, <4>1, Zenon
    <3>2. CASE Forget(t)
      <4>1. known' = [known EXCEPT ![t] = {j \in known[t] : sub[j].sid # sub[my[t].sub].sid}]
        BY <3>2, Zenon DEF Forget
      <4> QED BY <1>2, <4>1, Zenon
    <3>3. CASE Clear(t)
      <4>1. known' = [known EXCEPT ![my[t].victim] = {}]
        BY <3>3, Zenon DEF Clear
      <4> QED BY <1>2, <4>1, Zenon
    <3> QED BY <2>1, <3>1, <3>2, <3>3, Zenon
  <2>2. CASE ~(Remember(t) \/ Forget(t) \/ Clear(t))
    <3>1. CASE Other(t)
      BY <1>2, <2>2, <3>1, Zenon
         DEF Other, Read, StoreLimit, Pick, Count, Check, GiveDone, Settle, ReaderCloses,
             ReaderLeaves, Swap, SubscribeIgnored, SubscribeNew, UnsubscribeUnknown,
             UnsubscribeKnown, Publish, GiveSkipped, GiveQueued, GiveOverflows
    <3>2. CASE LoadGeneration(t) \/ Resolve(t)
      BY <1>2, <3>2, Zenon DEF LoadGeneration, Resolve
    <3>3. CASE InsertChanges(t) \/ RemoveChanges(t) \/ UnregisterChanges(t) \/ ExpireChanges(t)
      BY <1>2, <3>3, Zenon DEF InsertChanges, Insert, RemoveChanges, Remove, UnregisterChanges,
         Unregister, ExpireChanges, Expire
    <3> QED BY <3>1, <3>2, <3>3, Zenon DEF RegistryStep
  <2> QED BY <2>1, <2>2
<1>3. /\ pc'[t] = "insert" => my'[t].sub \in Ids /\ sub[my'[t].sub] = NoSub
      /\ pc'[t] = "limit" => my'[t].sub \in known[t]
  <2>1. CASE ~Edits(t)
    BY <2>1, NotEditing, Zenon DEF Editing
  <2>2. ASSUME NEW r \in Subscribes, SubscribeNew(t, r)
        PROVE  pc'[t] = "insert" /\ my'[t].sub \in Ids /\ sub[my'[t].sub] = NoSub
    <3>1. PICK i \in Ids : sub[i] = NoSub /\ my' = [my EXCEPT ![t].sub = i]
      BY <2>2, Zenon DEF SubscribeNew
    <3>2. pc'[t] = "insert"
      BY <2>2, Zenon DEF SubscribeNew
    <3> QED BY <3>1, <3>2, Zenon
  <2>3. ASSUME NEW r \in Unsubscribes, UnsubscribeKnown(t, r)
        PROVE  pc'[t] = "limit" /\ my'[t].sub \in known[t]
    <3>0. PICK i \in known[t] :
             my' = [my EXCEPT ![t].sub = i, ![t].max = r.max, ![t].keep = Keeps(i, r.max)]
      BY <2>3, Zenon DEF UnsubscribeKnown
    <3> DEFINE k == Keeps(i, r.max)
    <3>1. my' = [my EXCEPT ![t].sub = i, ![t].max = r.max, ![t].keep = k]
      BY <3>0, Zenon
    <3> HIDE DEF k
    <3>2. pc'[t] = "limit"
      BY <2>3, Zenon DEF UnsubscribeKnown
    <3> QED BY <3>1, <3>2, Zenon
  <2>4. CASE InsertChanges(t) \/ Remember(t) \/ StoreLimit(t) \/ Forget(t) \/ RemoveChanges(t)
    BY <2>4, Zenon DEF InsertChanges, Insert, Remember, StoreLimit, Forget, RemoveChanges, Remove
  <2> QED BY <2>1, <2>2, <2>3, <2>4, Zenon DEF Edits
<1> QED BY <1>1, <1>2, <1>3, Zenon

\* No subscription is inserted once it can be found.
LEMMA PastInsertionStep ==
    ASSUME RegistryInv, Owned, Numbers, PastInsertion, NEW t \in Conns, RegistryStep(t)
    PROVE  PastInsertion'
<1>1. /\ \A i \in Ids : sub[i] # NoSub => sub'[i] = sub[i]
      /\ \A d \in Conns \ {t} : pc'[d] = pc[d] /\ my'[d] = my[d]
  BY StepFrame, Zenon
<1>2. /\ \A i \in quiet : sub[i] # NoSub
      /\ \A c \in Conns : \A i \in known[c] : i \in Ids /\ sub[i] # NoSub
      /\ \A c \in Conns : pc[c] = "limit" => my[c].sub \in Ids /\ sub[my[c].sub] # NoSub
  BY Zenon DEF PastInsertion
<1>0. /\ pc'[t] = "insert" => my'[t].sub \in Ids /\ sub[my'[t].sub] = NoSub
      /\ pc'[t] = "limit" => my'[t].sub \in known[t]
      /\ \A d \in Conns : \A i \in known'[d] :
            i \in known[d] \/ (d = t /\ pc[t] = "remember" /\ i = my[t].sub /\ pc'[t] = "idle")
      /\ \A i \in quiet' : i \in quiet \/ (pc[t] = "limit" /\ i = my[t].sub)
  BY EditFrame, Zenon
<1>3. \A i \in quiet' : sub'[i] # NoSub
  BY <1>1, <1>2, <1>0, Zenon DEF Numbers
<1>4. \A c \in Conns : \A i \in known'[c] : i \in Ids /\ sub'[i] # NoSub
  <2>1. pc[t] = "remember" => my[t].sub \in Ids /\ sub[my[t].sub] # NoSub
    BY Zenon DEF Owned
  <2>2. ASSUME NEW c \in Conns, NEW i \in known'[c] PROVE i \in Ids /\ sub[i] # NoSub
    BY <1>2, <1>0, <2>1, <2>2, Zenon
  <2> QED BY <1>1, <2>2, Zenon
<1>5. ASSUME NEW c \in Conns, pc'[c] = "limit" PROVE my'[c].sub \in Ids /\ sub'[my'[c].sub] # NoSub
  <2>1. CASE c = t
    BY <1>1, <1>2, <1>5, <2>1, <1>0, Zenon
  <2>2. CASE c # t
    BY <1>1, <1>2, <1>5, <2>2, Zenon
  <2> QED BY <2>1, <2>2
<1>6. ASSUME NEW d \in Conns, pc'[d] = "insert"
      PROVE  /\ my'[d].sub \notin quiet'
             /\ \A c \in Conns : /\ my'[d].sub \notin known'[c]
                                 /\ pc'[c] = "limit" => my'[c].sub # my'[d].sub
  <2>1. CASE d = t
    <3>1. sub[my'[t].sub] = NoSub
      BY <1>6, <2>1, <1>0, Zenon
    <3>2. my'[t].sub \notin quiet'
      BY <1>2, <3>1, <1>0, Zenon
    <3>3. \A c \in Conns : my'[t].sub \notin known'[c]
      BY <1>2, <1>6, <2>1, <3>1, <1>0, Zenon
    <3>4. ASSUME NEW c \in Conns, pc'[c] = "limit" PROVE my'[c].sub # my'[t].sub
      <4>1. c # t
        BY <1>6, <2>1, <3>4, Zenon
      <4>2. my'[c].sub = my[c].sub /\ pc[c] = "limit"
        BY <1>1, <3>4, <4>1, Zenon
      <4>3. sub[my[c].sub] # NoSub
        BY <1>2, <4>2, Zenon
      <4> QED BY <3>1, <4>2, <4>3, Zenon
    <3> QED BY <2>1, <3>2, <3>3, <3>4, Zenon
  <2>2. CASE d # t
    <3>1. /\ pc[d] = "insert" /\ my'[d] = my[d]
          /\ my[d].sub \notin quiet
          /\ \A c \in Conns : /\ my[d].sub \notin known[c]
                              /\ pc[c] = "limit" => my[c].sub # my[d].sub
      BY <1>1, <1>6, <2>2, Zenon DEF PastInsertion
    <3>2. my[d].sub \notin quiet'
      BY <3>1, <1>0, Zenon
    <3>3. pc[t] = "remember" => my[t].sub # my[d].sub
      <4>1. pc[t] = "remember" => sub[my[t].sub].conn = t
        BY Zenon DEF Owned
      <4>2. sub[my[d].sub].conn = d
        BY <3>1, Zenon DEF Owned
      <4> QED BY <2>2, <4>1, <4>2, Zenon
    <3>4. \A c \in Conns : my[d].sub \notin known'[c]
      BY <3>1, <3>3, <1>0, Zenon
    <3>5. ASSUME NEW c \in Conns, pc'[c] = "limit" PROVE my'[c].sub # my[d].sub
      <4>1. CASE c = t
        BY <3>1, <3>5, <4>1, <1>0, Zenon
      <4>2. CASE c # t
        BY <1>1, <3>1, <3>5, <4>2, Zenon
      <4> QED BY <4>1, <4>2
    <3> QED BY <3>1, <3>2, <3>4, <3>5, Zenon
  <2> QED BY <2>1, <2>2
<1> QED BY <1>3, <1>4, <1>5, <1>6, Zenon DEF PastInsertion

\* A step adds one place to what i received if it gives i a copy, and none if not.
LEMMA ReceivedStep ==
    ASSUME RegistryInv, FanoutInv, NEW t \in Conns, RegistryStep(t), NEW i \in Ids, sub[i] # NoSub
    PROVE  /\ GiveQueued(t, i) => \E k : k \notin Received(i) /\ Received(i)' = Received(i) \cup {k}
           /\ ~GiveQueued(t, i) => Received(i)' = Received(i)
<1>0. Frames /\ Given(t) /\ Counted /\ i # NoSub
  BY DeliveryAssumption, Zenon DEF FanoutInv, RegistryInv, DeliveryAssumption
<1>1. PICK d \in Conns : sub[i].conn = d /\ sub'[i].conn = d
  BY <1>0, SubStep, Zenon DEF Frames
<1>2. /\ Received(i) = {k \in DOMAIN inbox[d] : inbox[d][k].sub = i}
      /\ Received(i)' = {k \in DOMAIN inbox'[d] : inbox'[d][k].sub = i}
  BY <1>1, Zenon DEF Received
<1>3. inbox[d] \in Seq(Frame)
  BY <1>0, Zenon DEF Frames
<1>4. ASSUME NEW j \in Ids, GiveQueued(t, j)
      PROVE  /\ j = i => \E k : k \notin Received(i) /\ Received(i)' = Received(i) \cup {k}
             /\ j # i => Received(i)' = Received(i)
  <2>1. pc[t] = "give" /\ j \in my[t].todo
    BY <1>4, Zenon DEF GiveQueued
  <2>2. sub[j] # NoSub /\ sub[j].conn \in Conns
    BY <1>0, <2>1, Zenon DEF Given, Working, Matched, Frames
  <2> DEFINE f == Copy(j, t, sent[t])
  <2>3. inbox' = [inbox EXCEPT ![sub[j].conn] = Append(inbox[sub[j].conn], f)]
    BY <1>4, Zenon DEF GiveQueued, Copy
  <2>4. f \in Frame /\ f.sub = j
    BY <1>0, Zenon DEF Frames, Frame, Copy
  <2> HIDE DEF f
  <2>5. CASE sub[j].conn # d
    <3>1. inbox'[d] = inbox[d] /\ j # i
      BY <1>0, <1>1, <2>3, <2>5, Zenon DEF Frames
    <3> QED BY <1>2, <3>1, Zenon
  <2>6. CASE sub[j].conn = d
    <3>1. inbox'[d] = Append(inbox[d], f)
      BY <1>0, <2>3, <2>6, Zenon DEF Frames
    <3>2. PICK s \in Seq(Frame) : s = inbox[d]
      BY <1>3, Zenon
    <3>3. PICK e : e = Append(s, f)
      BY Zenon
    <3>4. /\ \A k \in DOMAIN e : \/ k \in DOMAIN s /\ e[k] = s[k]
                                 \/ k = Len(s) + 1 /\ k \notin DOMAIN s /\ e[k] = f
          /\ \A k \in DOMAIN s : k \in DOMAIN e /\ e[k] = s[k]
          /\ Len(s) + 1 \in DOMAIN e /\ e[Len(s) + 1] = f
      BY <2>4, <3>3, Appends, SMTT(40)
    <3>5. Received(i) = {k \in DOMAIN s : s[k].sub = i} /\ Received(i)' = {k \in DOMAIN e : e[k].sub = i}
      BY <1>2, <3>1, <3>2, <3>3, Zenon
    <3>6. Len(s) + 1 \notin DOMAIN s
      BY <3>2
    <3>7. PICK m : m = Len(s) + 1
      BY Zenon
    <3>8. CASE j = i
      <4>1. m \notin Received(i) /\ m \in Received(i)'
        BY <2>4, <3>4, <3>5, <3>6, <3>7, <3>8, Zenon
      <4>2. \A k \in Received(i)' : k \in Received(i) \/ k = m
        BY <3>4, <3>5, <3>7, Zenon
      <4>3. \A k \in Received(i) : k \in Received(i)'
        BY <3>4, <3>5, Zenon
      <4> QED BY <3>8, <4>1, <4>2, <4>3, Zenon
    <3>9. CASE j # i
      BY <2>4, <3>4, <3>5, <3>9, Zenon
    <3> QED BY <3>8, <3>9, Zenon
  <2> QED BY <2>5, <2>6, Zenon
<1>5. CASE Settle(t)
  <2>1. ~GiveQueued(t, i)
    BY <1>5, Zenon DEF Settle, GiveQueued
  <2>2. CASE d # t
    <3>1. inbox'[d] = inbox[d]
      BY <1>0, <1>5, <2>2, SettlingArrives, Zenon
    <3> QED BY <1>2, <2>1, <3>1, Zenon
  <2>3. CASE d = t
    <3>1. /\ \A k \in DOMAIN inbox'[t] : \/ k \in DOMAIN inbox[t] /\ inbox'[t][k] = inbox[t][k]
                                         \/ inbox'[t][k].sub = NoSub
          /\ \A k \in DOMAIN inbox[t] : k \in DOMAIN inbox'[t] /\ inbox'[t][k] = inbox[t][k]
      BY <1>0, <1>5, SettlingArrives, Zenon
    <3>2. Received(i)' = Received(i)
      BY <1>0, <1>2, <2>3, <3>1, Zenon
    <3> QED BY <2>1, <3>2, Zenon
  <2> QED BY <2>2, <2>3, Zenon
<1>6. CASE ~Giving(t) /\ ~Settle(t)
  <2>1. inbox' = inbox
    <3>1. CASE Publishing(t)
      BY <3>1, Zenon DEF Publishing, Publish
    <3> QED BY <1>6, <3>1, Silent, Zenon
  <2> QED BY <1>2, <1>6, <2>1, Zenon DEF Giving
<1>7. CASE Giving(t)
  <2>1. PICK j \in Ids : GiveQueued(t, j)
    BY <1>7, Zenon DEF Giving
  <2>2. GiveQueued(t, i) => \E k : k \notin Received(i) /\ Received(i)' = Received(i) \cup {k}
    BY <1>4, Zenon
  <2>3. ~GiveQueued(t, i) => j # i
    BY <2>1, Zenon
  <2> QED BY <1>4, <2>1, <2>2, <2>3, Zenon
<1> QED BY <1>5, <1>6, <1>7, Zenon

\* The tasks that are counting are publishers, so there are finitely many.
LEMMA CountingFinite ==
    ASSUME \A c \in Conns : Delivering(c), NEW i \in Ids
    PROVE  /\ Counting(i) \subseteq Publishers
           /\ IsFiniteSet(Counting(i)) /\ Cardinality(Counting(i)) \in Nat
           /\ Cardinality(Counting(i)) <= Cardinality(Publishers) /\ Cardinality(Publishers) \in Nat
<1>1. Counting(i) \subseteq Publishers
  BY Zenon DEF Counting, Delivering, Working, Matched
<1>2. IsFiniteSet(Publishers)
  BY LimitAssumption, Zenon DEF LimitAssumption
<1> QED BY <1>1, <1>2, FS_Subset, FS_CardinalityType, Zenon

\* A copy and its count: one place more and one task counting when it is given, one
\* count more and one task less when account runs.
LEMMA TallyStep ==
    ASSUME RegistryInv, FanoutInv, Numbers, \A c \in Conns : Delivering(c),
           \A c \in Conns : Delivering(c)', NEW t \in Conns, RegistryStep(t),
           NEW i \in Ids, Tally(i)
    PROVE  Tally(i)'
<1>0. /\ IsFiniteSet(Counting(i)) /\ Cardinality(Counting(i)) \in Nat
      /\ delivered[i] \in Nat
  BY CountingFinite, Zenon DEF Numbers
<1>1. \A c \in Conns : c # t => (c \in Counting(i)' <=> c \in Counting(i))
  BY OthersDeliver, Zenon
<1>2. t \in Counting(i)' <=> GiveQueued(t, i) \/ (t \in Counting(i) /\ ~Count(t))
  BY DelivererStep, Zenon
<1>3. \A c : c \in Counting(i) \/ c \in Counting(i)' => c \in Conns
  BY Zenon DEF Counting
<1>4. GiveQueued(t, i) => t \notin Counting(i) /\ ~Count(t) /\ sub[i] # NoSub
  BY Zenon DEF GiveQueued, Counting, Count, FanoutInv, Given, Working, Matched
<1>5. /\ Count(t) /\ t \in Counting(i) => delivered'[i] = delivered[i] + 1
      /\ ~(Count(t) /\ t \in Counting(i)) => delivered'[i] = delivered[i]
  <2>1. CASE Count(t)
    <3>1. /\ pc[t] = "count"
          /\ delivered' = [delivered EXCEPT ![my[t].sub] = delivered[my[t].sub] + 1]
      BY <2>1, Zenon DEF Count
    <3>2. t \in Counting(i) <=> my[t].sub = i
      BY <3>1, Zenon DEF Counting
    <3> QED BY <2>1, <3>1, <3>2, Zenon DEF Numbers
  <2> QED BY <2>1, CounterStep, Zenon
<1>6. CASE sub[i] # NoSub
  <2>1. sub'[i] = sub[i] /\ IsFiniteSet(Received(i))
        /\ Cardinality(Received(i)) = delivered[i] + Cardinality(Counting(i))
    BY <1>6, SubStep, Zenon DEF Tally
  <2>2. CASE GiveQueued(t, i)
    <3>1. PICK k : k \notin Received(i) /\ Received(i)' = Received(i) \cup {k}
      BY <1>6, <2>2, ReceivedStep, Zenon
    <3>2. IsFiniteSet(Received(i)') /\ Cardinality(Received(i)') = Cardinality(Received(i)) + 1
      BY <2>1, <3>1, FS_AddElement, Zenon
    <3>3. Counting(i)' = Counting(i) \cup {t} /\ t \notin Counting(i)
      BY <1>1, <1>2, <1>3, <1>4, <2>2, Zenon
    <3>4. Cardinality(Counting(i)') = Cardinality(Counting(i)) + 1
      BY <1>0, <3>3, FS_AddElement, Zenon
    <3>5. delivered'[i] = delivered[i]
      BY <1>4, <1>5, <2>2, Zenon
    <3>6. Cardinality(Received(i)') = delivered'[i] + Cardinality(Counting(i)')
      BY <1>0, <2>1, <3>2, <3>4, <3>5
    <3> QED BY <1>6, <2>1, <3>2, <3>6, Zenon DEF Tally
  <2>3. CASE ~GiveQueued(t, i) /\ Count(t) /\ t \in Counting(i)
    <3>1. Received(i)' = Received(i)
      BY <1>6, <2>3, ReceivedStep, Zenon
    <3>2. Counting(i)' = Counting(i) \ {t}
      BY <1>1, <1>2, <1>3, <2>3, Zenon
    <3>3. Cardinality(Counting(i)') = Cardinality(Counting(i)) - 1
      BY <1>0, <2>3, <3>2, FS_RemoveElement, Zenon
    <3>4. delivered'[i] = delivered[i] + 1
      BY <1>5, <2>3, Zenon
    <3>5. Cardinality(Received(i)) = delivered'[i] + Cardinality(Counting(i)')
      BY <1>0, <2>1, <3>3, <3>4
    <3> QED BY <1>6, <2>1, <3>1, <3>5, Zenon DEF Tally
  <2>4. CASE ~GiveQueued(t, i) /\ ~(Count(t) /\ t \in Counting(i))
    <3>1. Received(i)' = Received(i)
      BY <1>6, <2>4, ReceivedStep, Zenon
    <3>2. Counting(i)' = Counting(i)
      <4>1. t \in Counting(i)' <=> t \in Counting(i)
        BY <1>2, <2>4, Zenon
      <4>2. \A c : c \in Counting(i)' <=> c \in Counting(i)
        BY <1>1, <1>3, <4>1, Zenon
      <4> QED BY <4>2, Zenon
    <3>3. delivered'[i] = delivered[i]
      BY <1>5, <2>4, Zenon
    <3> QED BY <1>6, <2>1, <3>1, <3>2, <3>3, Zenon DEF Tally
  <2> QED BY <2>2, <2>3, <2>4, Zenon
<1>7. CASE sub[i] = NoSub
  <2>1. \A c : c \notin Counting(i)
    BY <1>7, Zenon DEF Counting, Delivering
  <2>2. Counting(i)' = {} /\ delivered'[i] = 0
    BY <1>1, <1>2, <1>3, <1>4, <1>5, <1>7, <2>1, Zenon DEF Tally
  <2>3. ASSUME sub'[i] # NoSub PROVE Received(i)' = {}
    <3>1. Frames /\ i # NoSub
      BY DeliveryAssumption, Zenon DEF FanoutInv, DeliveryAssumption
    <3>2. sub'[i].conn = t
      BY <1>7, <2>3, SubStep, Zenon
    <3>3. ASSUME NEW k \in DOMAIN inbox'[t], inbox'[t][k].sub = i PROVE FALSE
      <4>1. PICK f : f = inbox'[t][k]
        BY Zenon
      <4>2. f \in Arrived(t)' /\ f.sub = i
        BY <3>3, <4>1, Zenon DEF Arrived
      <4>3. f \notin Arrived(t)
        BY <1>7, <3>1, <4>2, Zenon DEF Frames
      <4>4. NewFrame(t, t, f)
        BY <4>2, <4>3, Arrivals, Zenon
      <4>5. \A j, p, n : Copy(j, p, n).sub = j
        BY Zenon DEF Copy
      <4>6. PICK j : f = Copy(j, t, sent[t]) /\ (j = NoSub \/ sub[j] # NoSub)
        BY <4>4, Zenon DEF NewFrame
      <4>7. j = i
        BY <4>2, <4>5, <4>6, Zenon
      <4> QED BY <1>7, <3>1, <4>6, <4>7, Zenon
    <3> QED BY <3>2, <3>3, Zenon DEF Received
  <2>4. IsFiniteSet({}) /\ Cardinality({}) = 0
    BY FS_EmptySet, Zenon
  <2>5. 0 = 0 + 0
    OBVIOUS
  <2> QED BY <2>2, <2>3, <2>4, <2>5, Zenon DEF Tally
<1> QED BY <1>6, <1>7, Zenon

\* No publisher becomes able to deliver again once the limit is set, and the one
\* that counts a delivery at or over the limit no longer is.
LEMMA AbleStep ==
    ASSUME RegistryInv, FanoutInv, Numbers, PastInsertion, \A c \in Conns : Delivering(c),
           NEW t \in Conns, RegistryStep(t),
           NEW i \in quiet, limit[i] > 0, limit'[i] = limit[i]
    PROVE  /\ Able(i)' \subseteq Able(i)
           /\ Count(t) /\ my[t].sub = i /\ delivered[i] + 1 >= limit[i] =>
                 t \in Able(i) /\ t \notin Able(i)'
<1>0. i \in Ids
  BY Zenon DEF Numbers
<1>1. i \in registered' => i \in registered
  BY StepFrame, Zenon DEF PastInsertion
<1>2. \A p \in Conns : p # t => (Pending(p, i)' <=> Pending(p, i)) /\ (Spender(p, i)' <=> Spender(p, i))
  BY <1>0, OthersDeliver, Zenon
<1>3. /\ Pending(t, i)' => Pending(t, i) \/ (i \in registered /\ pc[t] \in {"match", "resolve"})
      /\ Spender(t, i) /\ i \in registered' => Spender(t, i)'
  BY <1>0, DelivererStep, Zenon
<1>4. pc[t] \in {"match", "resolve"} => ~Spender(t, i)
  BY Zenon DEF Spender, Working, Matched, Closing
<1>5. ASSUME NEW p \in Able(i)' PROVE p \in Able(i)
  <2>1. /\ p \in Conns /\ p \in Publishers
        /\ Pending(p, i)' \/ (i \in registered' /\ ~Spender(p, i)')
    BY <1>5, Zenon DEF Able
  <2> QED BY <1>1, <1>2, <1>3, <1>4, <2>1, Zenon DEF Able
<1>6. ASSUME Count(t), my[t].sub = i, delivered[i] + 1 >= limit[i]
      PROVE  t \in Able(i) /\ t \notin Able(i)'
  <2>1. /\ pc[t] = "count" /\ pc'[t] = "check" /\ my'[t].n = delivered[i] + 1
        /\ my'[t].sub = i /\ my'[t].todo = my[t].todo
    BY <1>6, Zenon DEF Count, Goto, RegistryInv, Shape, FanoutInv, Locals
  <2>2. t \in Publishers /\ i \notin my[t].todo
    BY <1>6, <2>1, Zenon DEF Delivering, Working, Matched
  <2>3. Spender(t, i)' /\ ~Pending(t, i)'
    <3>1. my'[t].n >= limit'[i]
      BY <1>6, <2>1, Zenon
    <3> QED BY <2>1, <2>2, <3>1, Zenon DEF Spender, Pending
  <2>4. Pending(t, i)
    BY <1>6, <2>1, Zenon DEF Pending
  <2> QED BY <2>2, <2>3, <2>4, Zenon DEF Able
<1> QED BY <1>5, <1>6, Zenon

\* The limit was stored with deliveries to spare; afterwards every delivery that
\* reaches it uses up a publisher.
LEMMA BoundedStep ==
    ASSUME RegistryInv, FanoutInv, LimitInv, NEW t \in Conns, RegistryStep(t),
           NEW i \in quiet', limit'[i] > 0
    PROVE  \/ delivered'[i] < limit'[i]
           \/ delivered'[i] + Cardinality(Able(i)') <= limit'[i] - 1 + Cardinality(Publishers)
<1>0. Numbers /\ PastInsertion /\ (\A c \in Conns : Delivering(c)) /\ (\A j \in quiet : Bounded(j))
  BY Zenon DEF LimitInv
<1>1. CASE StoreLimit(t) /\ my[t].sub = i
  <2>1. /\ limit' = [limit EXCEPT ![my[t].sub] = IF my[t].keep THEN my[t].max ELSE 0]
        /\ quiet' = quiet \ {my[t].sub} \/ my[t].max > delivered[i]
        /\ pc[t] = "limit" /\ delivered' = delivered
    BY <1>1, Zenon DEF StoreLimit
  <2>2. my[t].max > delivered[i] /\ i \in Ids
    BY <1>0, <1>1, <2>1, Zenon DEF PastInsertion
  <2>3. limit'[i] = IF my[t].keep THEN my[t].max ELSE 0
    BY <1>0, <1>1, <2>1, <2>2, Zenon DEF Numbers
  <2>4. delivered[i] \in Nat /\ my[t].max \in Int
    BY <1>0, <2>1, <2>2, Zenon DEF Numbers
  <2> QED BY <2>1, <2>2, <2>3, <2>4
<1>2. CASE ~(StoreLimit(t) /\ my[t].sub = i)
  <2>1. limit'[i] = limit[i] /\ i \in quiet
    <3>1. CASE StoreLimit(t)
      <4>1. /\ limit' = [limit EXCEPT ![my[t].sub] = IF my[t].keep THEN my[t].max ELSE 0]
            /\ quiet' = quiet \cup {my[t].sub} \/ quiet' = quiet \ {my[t].sub}
        BY <3>1, Zenon DEF StoreLimit
      <4> QED BY <1>0, <1>2, <3>1, <4>1, Zenon DEF Numbers
    <3> QED BY <3>1, CounterStep, Zenon
  <2>2. /\ i \in Ids /\ delivered[i] \in Nat /\ limit[i] \in Nat /\ limit[i] > 0
        /\ Cardinality(Publishers) \in Nat /\ IsFiniteSet(Able(i))
        /\ Cardinality(Able(i)) \in Nat /\ Cardinality(Able(i)) <= Cardinality(Publishers)
    <3>1. i \in Ids /\ delivered[i] \in Nat /\ limit[i] \in Nat /\ limit[i] > 0
      BY <1>0, <2>1, Zenon DEF Numbers
    <3>2. IsFiniteSet(Publishers) /\ Able(i) \subseteq Publishers
      BY LimitAssumption, Zenon DEF LimitAssumption, Able
    <3> QED BY <3>1, <3>2, FS_Subset, FS_CardinalityType, Zenon
  <2>3. \/ delivered[i] < limit[i]
        \/ delivered[i] + Cardinality(Able(i)) <= limit[i] - 1 + Cardinality(Publishers)
    BY <1>0, <2>1, <2>2, Zenon DEF Bounded
  <2>4. /\ Able(i)' \subseteq Able(i)
        /\ Count(t) /\ my[t].sub = i /\ delivered[i] + 1 >= limit[i] =>
              t \in Able(i) /\ t \notin Able(i)'
    BY <1>0, <2>1, <2>2, AbleStep, Zenon
  <2>5. /\ IsFiniteSet(Able(i)') /\ Cardinality(Able(i)') \in Nat
        /\ Cardinality(Able(i)') <= Cardinality(Able(i))
    BY <2>2, <2>4, FS_Subset, FS_CardinalityType, Zenon
  <2>6. CASE Count(t) /\ my[t].sub = i
    <3>1. delivered'[i] = delivered[i] + 1
      BY <1>0, <2>2, <2>6, Zenon DEF Count, Numbers
    <3>2. CASE delivered[i] + 1 >= limit[i]
      <4>1. Able(i)' \subseteq Able(i) \ {t} /\ t \in Able(i)
        BY <2>4, <2>6, <3>2, Zenon
      <4>2. IsFiniteSet(Able(i) \ {t}) /\ Cardinality(Able(i) \ {t}) = Cardinality(Able(i)) - 1
        BY <2>2, <4>1, FS_RemoveElement, Zenon
      <4>3. Cardinality(Able(i)') <= Cardinality(Able(i)) - 1
        <5>1. Cardinality(Able(i)') <= Cardinality(Able(i) \ {t})
          BY <4>1, <4>2, FS_Subset, Zenon
        <5> QED BY <4>2, <5>1, Zenon
      <4> QED BY <2>1, <2>2, <2>3, <2>5, <3>1, <3>2, <4>3
    <3>3. CASE ~(delivered[i] + 1 >= limit[i])
      BY <2>1, <2>2, <3>1, <3>3
    <3> QED BY <3>2, <3>3
  <2>7. CASE ~(Count(t) /\ my[t].sub = i)
    <3>1. delivered'[i] = delivered[i]
      <4>1. CASE Count(t)
        <5>1. delivered' = [delivered EXCEPT ![my[t].sub] = delivered[my[t].sub] + 1]
          BY <4>1, Zenon DEF Count
        <5> QED BY <1>0, <2>7, <4>1, <5>1, <2>2, Zenon DEF Numbers
      <4> QED BY <4>1, CounterStep, Zenon
    <3> QED BY <2>1, <2>2, <2>3, <2>5, <3>1
  <2> QED BY <2>6, <2>7
<1> QED BY <1>1, <1>2

\* Every step keeps the invariant of the limits.
LEMMA LimitStep ==
    ASSUME RegistryInv, FanoutInv, LimitInv, NEW t \in Conns, RegistryStep(t)
    PROVE  LimitInv'
<1>0. /\ Owned /\ Numbers /\ PastInsertion
      /\ \A c \in Conns : Delivering(c)
      /\ \A i \in Ids : Tally(i)
  BY Zenon DEF LimitInv
<1>1. \A c \in Conns : Delivering(c)'
  BY <1>0, OthersDeliver, DelivererStep, Zenon
<1>2. Owned' /\ Numbers' /\ PastInsertion'
  BY <1>0, OwnedStep, NumbersStep, PastInsertionStep, Zenon
<1>3. \A i \in Ids : Tally(i)'
  BY <1>0, <1>1, TallyStep, Zenon
<1>4. \A i \in quiet' : Bounded(i)'
  BY BoundedStep, Zenon DEF Bounded
<1> QED BY <1>1, <1>2, <1>3, <1>4, Zenon DEF LimitInv

\* A limit of UNSUB that was stored while no publish was in progress is overrun by
\* at most one copy per publisher but one, whatever the publishers, the subscriber
\* and the other connections do afterwards (set_limit, account and the expiry in
\* route, which are not one critical section).
THEOREM RegistryAutoUnsubBound == RegistrySpec => []AutoUnsubBound
<1>1. RegistryInit => LimitInv
  <2> SUFFICES ASSUME RegistryInit PROVE LimitInv
    BY Zenon
  <2>1. /\ \A c \in Conns : pc[c] = "idle" /\ known[c] = {}
        /\ \A i \in Ids : sub[i] = NoSub /\ delivered[i] = 0
        /\ delivered = [i \in Ids |-> 0] /\ limit = [i \in Ids |-> 0] /\ quiet = {}
    BY Zenon DEF RegistryInit, Init
  <2>2. Owned /\ PastInsertion
    BY <2>1, Zenon DEF Owned, PastInsertion
  <2>3. Numbers
    BY <2>1 DEF Numbers
  <2>4. \A c \in Conns : Delivering(c)
    BY <2>1, Zenon DEF Delivering, Starting, Working, Matched, Closing
  <2>5. \A i \in Ids : Tally(i)
    BY <2>1, Zenon DEF Tally
  <2> QED BY <2>1, <2>2, <2>3, <2>4, <2>5, Zenon DEF LimitInv
<1>2. RegistryInv /\ FanoutInv /\ LimitInv /\ [RegistryNext]_registryState => LimitInv'
  <2>1. ASSUME LimitInv, UNCHANGED registryState PROVE LimitInv'
    <3>1. UNCHANGED <<pc, my, sub, known, registered, closed, inbox, delivered, limit, quiet>>
      BY <2>1, Zenon DEF registryState, vars, registryVars, subVars, connVars, clientVars, taskVars
    <3>2. Owned' /\ Numbers' /\ PastInsertion'
      BY <2>1, <3>1, Zenon DEF LimitInv, Owned, Numbers, PastInsertion
    <3>3. \A c \in Conns : Delivering(c)'
      BY <2>1, <3>1, Zenon DEF LimitInv, Delivering, Working
    <3>4. \A i : Received(i)' = Received(i) /\ Counting(i)' = Counting(i) /\ Able(i)' = Able(i)
      <4> TAKE i
      <4>1. Received(i)' = Received(i)
        BY <3>1 DEF Received
      <4>2. Counting(i)' = Counting(i)
        BY <3>1 DEF Counting
      <4>3. \A p \in Conns : Pending(p, i)' = Pending(p, i) /\ Spender(p, i)' = Spender(p, i)
        BY <3>1, Zenon DEF Pending, Spender, Working
      <4>4. Able(i)' = Able(i)
        BY <3>1, <4>3, Zenon DEF Able
      <4> QED BY <4>1, <4>2, <4>4
    <3>5. \A i \in Ids : Tally(i)'
      BY <2>1, <3>1, <3>4, Zenon DEF LimitInv, Tally
    <3>6. \A i \in quiet' : Bounded(i)'
      BY <2>1, <3>1, <3>4, Zenon DEF LimitInv, Bounded
    <3> QED BY <3>2, <3>3, <3>5, <3>6, Zenon DEF LimitInv
  <2> QED BY <2>1, LimitStep, Zenon DEF RegistryNext
<1>3. LimitInv => AutoUnsubBound
  <2> SUFFICES ASSUME LimitInv, NEW i \in quiet, limit[i] > 0
               PROVE  Cardinality(Received(i)) <= limit[i] + Cardinality(Publishers) - 1
    BY Zenon DEF AutoUnsubBound
  <2>1. /\ i \in Ids /\ sub[i] # NoSub /\ delivered[i] \in Nat /\ limit[i] \in Nat
        /\ \A c \in Conns : Delivering(c)
    BY Zenon DEF LimitInv, Numbers, PastInsertion
  <2>2. Cardinality(Received(i)) = delivered[i] + Cardinality(Counting(i))
    BY <2>1, Zenon DEF LimitInv, Tally
  <2>3. /\ Counting(i) \subseteq Publishers /\ Cardinality(Counting(i)) \in Nat
        /\ Cardinality(Counting(i)) <= Cardinality(Publishers) /\ Cardinality(Publishers) \in Nat
    BY <2>1, CountingFinite, Zenon
  <2>4. Counting(i) \subseteq Able(i) /\ Able(i) \subseteq Publishers
    BY <2>3, Zenon DEF Counting, Able, Pending
  <2>5. /\ Cardinality(Counting(i)) <= Cardinality(Able(i)) /\ Cardinality(Able(i)) \in Nat
    BY <2>4, LimitAssumption, FS_Subset, FS_CardinalityType, Zenon DEF LimitAssumption
  <2>6. \/ delivered[i] < limit[i]
        \/ delivered[i] + Cardinality(Able(i)) <= limit[i] - 1 + Cardinality(Publishers)
    BY Zenon DEF LimitInv, Bounded
  <2> QED BY <2>1, <2>2, <2>3, <2>5, <2>6
<1> QED BY <1>1, <1>2, <1>3, FanoutInvariant, PTL DEF RegistrySpec
=============================================================================
