------------------------------ MODULE Registry ------------------------------
(***************************************************************************)
(* The subscription registry with the interest caches of the publishing    *)
(* tasks (crates/server/src/routing.rs): the steps of module Delivery,     *)
(* where a match comes from a cache that a generation counter guards.      *)
(*                                                                         *)
(* Every change to the subscription set bumps the generation inside the    *)
(* lock that makes it.  A publisher first loads the generation without the *)
(* lock, and uses what its last publish resolved if the generation and the *)
(* subject are the same; otherwise it resolves under the lock.             *)
(***************************************************************************)
EXTENDS Delivery

VARIABLES
    generation,  \* Registry.generation
    interest     \* the Interest of each reader task: [generation, subject, subs]

registryState == <<vars, generation, interest>>

\* u64::MAX of a new Interest: a value the generation never takes.
Never == -1

RegistryInit ==
    /\ Init
    /\ generation = 0
    /\ interest = [c \in Conns |-> [generation |-> Never, subject |-> NoReply, subs |-> {}]]

\* Registry::changed, inside the critical section of the change.
Changed(happened) ==
    /\ generation' = IF happened THEN generation + 1 ELSE generation
    /\ UNCHANGED interest

\* Mutant of ExpireChanges: a spent subscription goes without a new generation.
ExpireQuietly(c) == Expire(c) /\ Changed(FALSE)

\* insert bumps only if it added, remove always, remove_conn only if something
\* went, the expiry in route always.
InsertChanges(c) == Insert(c) /\ Changed(registered' # registered)
RemoveChanges(c) == Remove(c) /\ Changed(TRUE)
UnregisterChanges(c) == Unregister(c) /\ Changed(registered' # registered)
ExpireChanges(c) == Expire(c) /\ Changed(TRUE)

\* Mutant of Fresh: the subject is not compared.
FreshWhateverSubject(c) == interest[c].generation = generation

Fresh(c) ==
    /\ interest[c].generation = generation
    /\ interest[c].subject = my[c].subject

\* The head of route: one atomic load, one compare of the subject.
LoadGeneration(c) ==
    /\ pc[c] = "match"
    /\ IF Fresh(c)
         THEN /\ my' = [my EXCEPT ![c].matched = interest[c].subs]
              /\ Goto(c, "pick")
         ELSE /\ Goto(c, "resolve")
              /\ UNCHANGED my
    /\ UNCHANGED <<registryVars, subVars, connVars, clientVars, generation, interest>>

\* resolve, under the lock, the generation read inside it.
Resolve(c) ==
    /\ pc[c] = "resolve"
    /\ interest' = [interest EXCEPT ![c] =
                       [generation |-> generation, subject |-> my[c].subject,
                        subs |-> Matching(my[c].subject)]]
    /\ my' = [my EXCEPT ![c].matched = Matching(my[c].subject)]
    /\ Goto(c, "pick")
    /\ UNCHANGED <<registryVars, subVars, connVars, clientVars, generation>>

RegistryStep(c) ==
    \/ InsertChanges(c) \/ RemoveChanges(c) \/ UnregisterChanges(c) \/ ExpireChanges(c)
    \/ LoadGeneration(c) \/ Resolve(c)
    \/ Other(c) /\ UNCHANGED <<generation, interest>>

RegistryNext == \E c \in Conns : RegistryStep(c)

RegistrySpec == RegistryInit /\ [][RegistryNext]_registryState

-----------------------------------------------------------------------------
(* Properties                                                              *)

\* The shape of the state.
TypeOK ==
    /\ registered \subseteq Ids /\ total \in Nat
    /\ delivered \in [Ids -> Nat] /\ limit \in [Ids -> Nat] /\ quiet \subseteq Ids
    /\ \A i \in Ids : sub[i] # NoSub => sub[i] \in Subscribes
    /\ \A i \in registered : sub[i] # NoSub
    /\ known \in [Conns -> SUBSET Ids] /\ closed \subseteq Conns
    /\ sent \in [Conns -> 0..MaxSent] /\ batch \in [Conns -> 0..MaxBatch]
    /\ pc \in [Conns -> Labels \cup {"resolve"}]
    /\ generation \in Nat
    /\ \A c \in Conns : interest[c].generation \in Nat \cup {Never}
                        /\ interest[c].subs \subseteq Ids

\* A cached interest that carries the current generation is what the registry
\* would answer now: no change of the subscription set leaves a cache valid.
CacheCoherent ==
    \A c \in Conns : interest[c].generation = generation =>
        interest[c].subs = Matching(interest[c].subject)
=============================================================================
