------------------------------ MODULE Delivery ------------------------------
(***************************************************************************)
(* What the server promises about subscriptions and deliveries: a publish  *)
(* is matched against the subscriptions that exist at one instant, and     *)
(* each match is then given its copy (crates/server/src/routing.rs, the    *)
(* Subscribe, Unsubscribe and Publish arms of handle and Conn::finish in   *)
(* client.rs, no_responder_check in lib.rs).                               *)
(*                                                                         *)
(* This is the specification module Registry implements: there the match   *)
(* comes out of a cache on the publishing task.                            *)
(*                                                                         *)
(* A task is the reader task of a connection; it runs the commands of its  *)
(* client one at a time, each as the sequence of critical sections and     *)
(* atomic operations of the code, interleaved with those of other tasks.   *)
(* Outbound queues are abstracted to a log of the frames accepted; whether *)
(* a frame fits is the environment's choice (module Outbox).  Lists of     *)
(* subscriptions are sets: nothing depends on their order, which a random  *)
(* start index scrambles anyway where it could matter.                     *)
(***************************************************************************)
EXTENDS Integers, Sequences, FiniteSets

CONSTANTS
    Conns,          \* connections, each with its reader task
    Ids,            \* identities for Sub objects: one per SUB that is accepted
    Filters,        \* subscription filters
    Wild,           \* the filters that contain a wildcard token
    Matches,        \* Matches[f]: the subjects filter f matches
    Echo,           \* connections whose CONNECT left echo on
    NoResponders,   \* connections whose CONNECT asked for no_responders
    Subscribes,     \* SUB commands clients may send: [conn, sid, filter, queue]
    Unsubscribes,   \* UNSUB commands: [conn, sid, max]
    Publishes,      \* PUB commands: [conn, subject, reply]
    MaxSent,        \* bound: messages per publisher
    MaxBatch,       \* bound: commands one read may bring
    SlowConsumers,  \* connections whose outbound queue may overflow
    Closers,        \* connections whose client may go away
    NoQueue, NoReply, NoSub

\* A subscription is told from an identity that is not in use, and an identity
\* from the mark of a status frame.
ASSUME DeliveryAssumption == NoSub \notin Subscribes \cup Ids

\* The connections that publish.
Publishers == {r.conn : r \in Publishes}

\* The maximum of an UNSUB is a number, and there are finitely many connections.
ASSUME LimitAssumption ==
    /\ \A r \in Unsubscribes : r.max \in Int
    /\ IsFiniteSet(Publishers)

VARIABLES
    sub,         \* Sub objects: id -> [conn, sid, filter, queue], or NoSub
    delivered,   \* Sub.delivered
    limit,       \* Sub.limit, 0 for none
    quiet,       \* history: subscriptions whose limit was stored while no
                 \* publish was in progress, on a comparison still true
    registered,  \* the subscriptions in Inner.literal and Inner.wildcard
    total,       \* Inner.total
    known,       \* Conn.subs
    closed,      \* the connections with Conn.closed set
    inbox,       \* frames accepted for each connection, in queue order
    sent,        \* messages each connection has published
    batch,       \* events of the current read still to be handled
    pc,          \* where each reader task is
    my           \* the locals of each reader task

registryVars == <<registered, total>>
subVars == <<sub, delivered, limit, quiet>>
connVars == <<known, closed>>
clientVars == <<inbox, sent, batch>>
taskVars == <<pc, my>>
vars == <<registryVars, subVars, connVars, clientVars, taskVars>>

\* The locals of a reader task between two commands.
Idle ==
    [sub |-> NoSub, max |-> 0, keep |-> FALSE, subject |-> NoReply, reply |-> NoReply,
     matched |-> {}, todo |-> {}, count |-> 0, expired |-> {}, n |-> 0,
     victim |-> NoSub, ret |-> "idle"]

Labels ==
    {"idle", "insert", "remember", "limit", "forget", "remove", "match", "pick",
     "give", "count", "check", "expire", "settle", "swap", "unregister", "clear",
     "ended"}

Init ==
    /\ sub = [i \in Ids |-> NoSub]
    /\ delivered = [i \in Ids |-> 0]
    /\ limit = [i \in Ids |-> 0] /\ quiet = {}
    /\ registered = {} /\ total = 0
    /\ known = [c \in Conns |-> {}]
    /\ closed = {}
    /\ inbox = [c \in Conns |-> <<>>]
    /\ sent = [c \in Conns |-> 0]
    /\ batch = [c \in Conns |-> 0]
    /\ pc = [c \in Conns |-> "idle"]
    /\ my = [c \in Conns |-> Idle]

-----------------------------------------------------------------------------
(* What the code computes from the subscriptions.                          *)

\* resolve, matching_of: the subscriptions whose filter matches a subject.
Matching(subject) == {i \in registered : subject \in Matches[sub[i].filter]}

\* same: the duplicate test of insert.
Same(i, j) ==
    /\ sub[i].conn = sub[j].conn
    /\ sub[i].sid = sub[j].sid
    /\ sub[i].filter = sub[j].filter

\* What remove_sub takes out for i: the identity is (connection, sid), looked
\* for among the wildcard filters or in the list of i's literal subject.
RemovedWith(i) ==
    {j \in registered :
        /\ sub[j].conn = sub[i].conn
        /\ sub[j].sid = sub[i].sid
        /\ IF sub[i].filter \in Wild THEN sub[j].filter \in Wild
                                     ELSE sub[j].filter = sub[i].filter}

\* Sub::eligible.
Eligible(i, from) ==
    /\ sub[i].conn \notin closed
    /\ ~(sub[i].conn = from /\ from \notin Echo)

\* Mutant of Drop: one subscription is counted, however many went.
DropOne(removed) ==
    /\ registered' = registered \ removed
    /\ total' = total - 1

\* Taking a set of subscriptions out of the registry.
Drop(removed) ==
    /\ registered' = registered \ removed
    /\ total' = total - Cardinality(removed)

Goto(c, label) == pc' = [pc EXCEPT ![c] = label]

\* The command is done; the next event of the read is up.
Done(c) ==
    /\ Goto(c, "idle")
    /\ my' = [my EXCEPT ![c] = Idle]

\* The reader takes the next event of its batch.
Take(c) ==
    /\ pc[c] = "idle" /\ batch[c] > 0
    /\ batch' = [batch EXCEPT ![c] = @ - 1]

\* One read brings a batch of commands.
Read(c) ==
    /\ pc[c] = "idle" /\ batch[c] = 0 /\ c \notin closed
    /\ batch' = [batch EXCEPT ![c] = MaxBatch]
    /\ UNCHANGED <<registryVars, subVars, connVars, inbox, sent, taskVars>>

-----------------------------------------------------------------------------
(* SUB                                                                     *)

\* The sid is in use: the original subscription stays, the new one is ignored.
SubscribeIgnored(c, r) ==
    /\ Take(c) /\ r.conn = c
    /\ \E i \in known[c] : sub[i].sid = r.sid
    /\ UNCHANGED <<registryVars, subVars, connVars, inbox, sent, taskVars>>

SubscribeNew(c, r) ==
    /\ Take(c) /\ r.conn = c
    /\ \A i \in known[c] : sub[i].sid # r.sid
    /\ \E i \in Ids :
          /\ sub[i] = NoSub
          /\ sub' = [sub EXCEPT ![i] = r]
          /\ my' = [my EXCEPT ![c].sub = i]
    /\ Goto(c, "insert")
    /\ UNCHANGED <<registryVars, delivered, limit, quiet, connVars, inbox, sent>>

\* Registry::insert.
Insert(c) ==
    /\ pc[c] = "insert"
    /\ IF \E j \in registered : Same(j, my[c].sub)
         THEN UNCHANGED registryVars
         ELSE /\ registered' = registered \cup {my[c].sub}
              /\ total' = total + 1
    /\ Goto(c, "remember")
    /\ UNCHANGED <<subVars, connVars, clientVars, my>>

\* conn.subs.insert.
Remember(c) ==
    /\ pc[c] = "remember"
    /\ known' = [known EXCEPT ![c] =
                    {i \in @ : sub[i].sid # sub[my[c].sub].sid} \cup {my[c].sub}]
    /\ Done(c)
    /\ UNCHANGED <<registryVars, subVars, closed, clientVars>>

-----------------------------------------------------------------------------
(* UNSUB                                                                   *)

\* The labels of a task that is inside Registry::route.
Routing == {"match", "resolve", "pick", "give", "count", "check", "expire",
            "swap", "unregister", "clear"}

\* An unknown sid is not an error.
UnsubscribeUnknown(c, r) ==
    /\ Take(c) /\ r.conn = c
    /\ \A i \in known[c] : sub[i].sid # r.sid
    /\ UNCHANGED <<registryVars, subVars, connVars, inbox, sent, taskVars>>

\* set_limit: is there something left to deliver under this maximum?
Keeps(i, max) == max > 0 /\ max > delivered[i]

\* set_limit compares the maximum with the deliveries so far ...
UnsubscribeKnown(c, r) ==
    /\ Take(c) /\ r.conn = c
    /\ \E i \in known[c] :
          /\ sub[i].sid = r.sid
          /\ my' = [my EXCEPT ![c].sub = i, ![c].max = r.max,
                              ![c].keep = Keeps(i, r.max)]
    /\ Goto(c, "limit")
    /\ UNCHANGED <<registryVars, subVars, connVars, inbox, sent>>

\* ... and then stores the limit: two operations, not one.
StoreLimit(c) ==
    /\ pc[c] = "limit"
    /\ limit' = [limit EXCEPT ![my[c].sub] = IF my[c].keep THEN my[c].max ELSE 0]
    /\ quiet' = IF /\ \A p \in Conns : pc[p] \notin Routing
                   /\ my[c].max > delivered[my[c].sub]
                  THEN quiet \cup {my[c].sub}
                  ELSE quiet \ {my[c].sub}
    /\ IF my[c].keep THEN Done(c) ELSE Goto(c, "forget") /\ UNCHANGED my
    /\ UNCHANGED <<registryVars, sub, delivered, connVars, clientVars>>

\* conn.subs.remove.
Forget(c) ==
    /\ pc[c] = "forget"
    /\ known' = [known EXCEPT ![c] = {i \in @ : sub[i].sid # sub[my[c].sub].sid}]
    /\ Goto(c, "remove")
    /\ UNCHANGED <<registryVars, subVars, closed, clientVars, my>>

\* Mutant of Remove: the sid is forgotten and the registry is left as it is.
RemoveNothing(c) ==
    /\ pc[c] = "remove"
    /\ Done(c)
    /\ UNCHANGED <<registryVars, subVars, connVars, clientVars>>

\* Registry::remove.
Remove(c) ==
    /\ pc[c] = "remove"
    /\ Drop(RemovedWith(my[c].sub))
    /\ Done(c)
    /\ UNCHANGED <<subVars, connVars, clientVars>>

-----------------------------------------------------------------------------
(* PUB: Registry::route and what handle does with its outcome              *)

Publish(c, r) ==
    /\ Take(c) /\ r.conn = c /\ sent[c] < MaxSent
    /\ sent' = [sent EXCEPT ![c] = @ + 1]
    /\ my' = [my EXCEPT ![c].subject = r.subject, ![c].reply = r.reply]
    /\ Goto(c, "match")
    /\ UNCHANGED <<registryVars, subVars, connVars, inbox>>

\* The message is matched against the subscriptions of this instant.
Match(c) ==
    /\ pc[c] = "match"
    /\ my' = [my EXCEPT ![c].matched = Matching(my[c].subject)]
    /\ Goto(c, "pick")
    /\ UNCHANGED <<registryVars, subVars, connVars, clientVars>>

Queued(list) == {i \in list : sub[i].queue # NoQueue}
Groups(list) == {sub[i].queue : i \in Queued(list)}
Members(list, q) == {i \in list : sub[i].queue = q}

\* Mutant of Pick: a group is sampled again for each of its members.
PickEach(c) ==
    /\ pc[c] = "pick"
    /\ my' = [my EXCEPT ![c].todo = @ \cup my[c].matched]
    /\ Goto(c, "give")
    /\ UNCHANGED <<registryVars, subVars, connVars, clientVars>>

\* Mutant of Pick: without the second probe, a group whose members are all over
\* their stall threshold gets nothing.
PickWithRoom(c) ==
    /\ pc[c] = "pick"
    /\ LET list == my[c].matched IN
       \E chosen \in SUBSET Queued(list) :
          /\ \A i \in chosen : Eligible(i, c)
          /\ \A q \in Groups(list) : Cardinality(Members(chosen, q)) <= 1
          /\ my' = [my EXCEPT ![c].todo = (list \ Queued(list)) \cup chosen]
    /\ Goto(c, "give")
    /\ UNCHANGED <<registryVars, subVars, connVars, clientVars>>

\* pick_groups: the plain subscriptions and one eligible member of each group
\* that has one.  The random start index, and which queues have room, may make
\* that any of them.
Pick(c) ==
    /\ pc[c] = "pick"
    /\ LET list == my[c].matched IN
       \E chosen \in SUBSET Queued(list) :
          /\ \A i \in chosen : Eligible(i, c)
          /\ \A q \in Groups(list) :
                Cardinality(Members(chosen, q)) =
                    IF \E i \in Members(list, q) : Eligible(i, c) THEN 1 ELSE 0
          /\ my' = [my EXCEPT ![c].todo = (list \ Queued(list)) \cup chosen]
    /\ Goto(c, "give")
    /\ UNCHANGED <<registryVars, subVars, connVars, clientVars>>

\* The connection closed, or it is the publisher's own without echo.
GiveSkipped(c, i) ==
    /\ pc[c] = "give" /\ i \in my[c].todo
    /\ ~Eligible(i, c)
    /\ my' = [my EXCEPT ![c].todo = @ \ {i}]
    /\ UNCHANGED <<registryVars, subVars, connVars, clientVars, pc>>

\* Mutant of GiveQueued: the delivery is not counted.
GiveUncounted(c, i) ==
    /\ pc[c] = "give" /\ i \in my[c].todo
    /\ Eligible(i, c)
    /\ inbox' = [inbox EXCEPT ![sub[i].conn] =
                    Append(@, [sub |-> i, from |-> c, seq |-> sent[c]])]
    /\ my' = [my EXCEPT ![c].todo = @ \ {i}, ![c].sub = i]
    /\ Goto(c, "count")
    /\ UNCHANGED <<registryVars, subVars, connVars, sent, batch>>

\* Enqueue::Ok or Enqueue::SoftLimit.
GiveQueued(c, i) ==
    /\ pc[c] = "give" /\ i \in my[c].todo
    /\ Eligible(i, c)
    /\ inbox' = [inbox EXCEPT ![sub[i].conn] =
                    Append(@, [sub |-> i, from |-> c, seq |-> sent[c]])]
    /\ my' = [my EXCEPT ![c].todo = @ \ {i}, ![c].sub = i, ![c].count = @ + 1]
    /\ Goto(c, "count")
    /\ UNCHANGED <<registryVars, subVars, connVars, sent, batch>>

\* Mutant of GiveOverflows: the fan-out stops at the subscriber that overflows.
GiveOverflowsStops(c, i) ==
    /\ pc[c] = "give" /\ i \in my[c].todo
    /\ Eligible(i, c) /\ sub[i].conn \in SlowConsumers
    /\ my' = [my EXCEPT ![c].todo = {}, ![c].expired = @ \cup {i},
                        ![c].victim = sub[i].conn, ![c].ret = "give"]
    /\ Goto(c, "swap")
    /\ UNCHANGED <<registryVars, subVars, connVars, clientVars>>

\* Enqueue::SlowConsumer: the victim is hung up on from the publisher's task.
GiveOverflows(c, i) ==
    /\ pc[c] = "give" /\ i \in my[c].todo
    /\ Eligible(i, c) /\ sub[i].conn \in SlowConsumers
    /\ my' = [my EXCEPT ![c].todo = @ \ {i}, ![c].expired = @ \cup {i},
                        ![c].victim = sub[i].conn, ![c].ret = "give"]
    /\ Goto(c, "swap")
    /\ UNCHANGED <<registryVars, subVars, connVars, clientVars>>

\* Sub::account, its fetch_add ...
Count(c) ==
    /\ pc[c] = "count"
    /\ delivered' = [delivered EXCEPT ![my[c].sub] = @ + 1]
    /\ my' = [my EXCEPT ![c].n = delivered[my[c].sub] + 1]
    /\ Goto(c, "check")
    /\ UNCHANGED <<registryVars, sub, limit, quiet, connVars, clientVars>>

\* Mutant of Spent: off by one.
SpentLate(n, max) == max # 0 /\ n > max

Spent(n, max) == max # 0 /\ n >= max

\* ... and its load of the limit.
Check(c) ==
    /\ pc[c] = "check"
    /\ LET i == my[c].sub IN
       my' = [my EXCEPT ![c].expired = IF Spent(my[c].n, limit[i]) THEN @ \cup {i} ELSE @,
                        ![c].sub = NoSub, ![c].n = 0]
    /\ Goto(c, "give")
    /\ UNCHANGED <<registryVars, subVars, connVars, clientVars>>

GiveDone(c) ==
    /\ pc[c] = "give" /\ my[c].todo = {}
    /\ Goto(c, IF my[c].expired = {} THEN "settle" ELSE "expire")
    /\ UNCHANGED <<registryVars, subVars, connVars, clientVars, my>>

\* The spent and the overflowed subscriptions leave the registry together.
Expire(c) ==
    /\ pc[c] = "expire"
    /\ Drop(UNION {RemovedWith(i) : i \in my[c].expired})
    /\ Goto(c, "settle")
    /\ UNCHANGED <<subVars, connVars, clientVars, my>>

\* no_responder_check: nothing was delivered, the publisher asked to be told, and
\* these are its subscriptions on the reply subject.
Unanswered(c) ==
    IF my[c].count = 0 /\ c \in NoResponders /\ my[c].reply # NoReply
      THEN {i \in Matching(my[c].reply) : sub[i].conn = c}
      ELSE {}

\* A status for each of them, if the connection is open and has the room.  The
\* wait for room that follows touches nothing here (module Outbox).
Settle(c) ==
    /\ pc[c] = "settle"
    /\ \E n \in 0..Cardinality(Unanswered(c)) :
          /\ c \in closed => n = 0
          /\ n = Cardinality(Unanswered(c)) \/ c \in closed \cup SlowConsumers
          /\ inbox' = [inbox EXCEPT ![c] =
                          @ \o [k \in 1..n |-> [sub |-> NoSub, from |-> c, seq |-> sent[c]]]]
    /\ Done(c)
    /\ UNCHANGED <<registryVars, subVars, connVars, sent, batch>>

-----------------------------------------------------------------------------
(* The end of a connection: Conn::finish, on whichever task runs it         *)

\* EOF, a read error, a command that ends the connection: on the reader's task.
ReaderCloses(c) ==
    /\ pc[c] = "idle" /\ c \in Closers
    /\ my' = [my EXCEPT ![c].victim = c, ![c].ret = "ended"]
    /\ Goto(c, "swap")
    /\ UNCHANGED <<registryVars, subVars, connVars, clientVars>>

\* The read is handled and the connection turns out to be closed.
ReaderLeaves(c) ==
    /\ pc[c] = "idle" /\ c \in closed
    /\ Goto(c, "ended")
    /\ UNCHANGED <<registryVars, subVars, connVars, clientVars, my>>

\* Whoever finds the flag set already returns at once.
Swap(c) ==
    /\ pc[c] = "swap"
    /\ closed' = closed \cup {my[c].victim}
    /\ Goto(c, IF my[c].victim \in closed THEN my[c].ret ELSE "unregister")
    /\ UNCHANGED <<registryVars, subVars, known, clientVars, my>>

\* Mutant of Unregister: only the literal lists are searched.
UnregisterLiterals(c) ==
    /\ pc[c] = "unregister"
    /\ Drop({i \in registered : sub[i].conn = my[c].victim /\ sub[i].filter \notin Wild})
    /\ Goto(c, "clear")
    /\ UNCHANGED <<subVars, connVars, clientVars, my>>

\* Registry::remove_conn.
Unregister(c) ==
    /\ pc[c] = "unregister"
    /\ Drop({i \in registered : sub[i].conn = my[c].victim})
    /\ Goto(c, "clear")
    /\ UNCHANGED <<subVars, connVars, clientVars, my>>

\* conn.subs.clear.
Clear(c) ==
    /\ pc[c] = "clear"
    /\ known' = [known EXCEPT ![my[c].victim] = {}]
    /\ Goto(c, my[c].ret)
    /\ UNCHANGED <<registryVars, subVars, closed, clientVars, my>>

-----------------------------------------------------------------------------
\* The steps that leave the registry alone.
Other(c) ==
    \/ Read(c) \/ Remember(c) \/ StoreLimit(c) \/ Forget(c)
    \/ Pick(c) \/ Count(c) \/ Check(c) \/ GiveDone(c) \/ Settle(c)
    \/ ReaderCloses(c) \/ ReaderLeaves(c) \/ Swap(c) \/ Clear(c)
    \/ \E r \in Subscribes : SubscribeIgnored(c, r) \/ SubscribeNew(c, r)
    \/ \E r \in Unsubscribes : UnsubscribeUnknown(c, r) \/ UnsubscribeKnown(c, r)
    \/ \E r \in Publishes : Publish(c, r)
    \/ \E i \in Ids : GiveSkipped(c, i) \/ GiveQueued(c, i) \/ GiveOverflows(c, i)

Next ==
    \E c \in Conns :
        Other(c) \/ Insert(c) \/ Remove(c) \/ Unregister(c) \/ Expire(c) \/ Match(c)

Spec == Init /\ [][Next]_vars

-----------------------------------------------------------------------------
(* Properties                                                              *)

\* The copies of publisher p's n-th message that were queued for subscription i.
Copies(i, p, n) ==
    {k \in DOMAIN inbox[sub[i].conn] :
        inbox[sub[i].conn][k] = [sub |-> i, from |-> p, seq |-> n]}

\* Inner.total is the number of registered subscriptions, through every insert,
\* duplicate, removal, auto-unsubscribe and connection end.
TotalExact == total = Cardinality(registered)

\* A plain subscription the publish matched, which is still registered when the
\* fan-out ends and whose connection is still open (and takes echoes), got
\* exactly one copy, whatever the other subscribers' queues did meanwhile.
PlainServed ==
    \A c \in Conns : pc[c] = "settle" =>
        \A i \in my[c].matched :
            sub[i].queue = NoQueue /\ i \in registered /\ Eligible(i, c)
                => Cardinality(Copies(i, c, sent[c])) = 1

\* One message reaches at most one member of a queue group.
GroupOnce ==
    \A p \in Conns : \A n \in 1..sent[p] : \A i, j \in Ids :
        /\ sub[i] # NoSub /\ sub[j] # NoSub /\ i # j
        /\ sub[i].queue = sub[j].queue /\ sub[i].queue # NoQueue
        /\ Copies(i, p, n) # {}
        => Copies(j, p, n) = {}

\* A no-responders status is queued only for a message nobody got.
StatusMeansNobody ==
    \A c \in Conns : \A k \in DOMAIN inbox[c] :
        inbox[c][k].sub = NoSub =>
            \A i \in Ids : sub[i] # NoSub => Copies(i, c, inbox[c][k].seq) = {}

\* Every registered subscription of an open connection whose reader is between
\* two commands is in Conn.subs: an UNSUB of its sid finds it.
UnsubReaches ==
    \A i \in registered :
        sub[i].conn \notin closed /\ pc[sub[i].conn] = "idle" => i \in known[sub[i].conn]

\* The places of subscription i's copies in the queue of its connection.
Received(i) == {k \in DOMAIN inbox[sub[i].conn] : inbox[sub[i].conn][k].sub = i}

\* A limit stored while no publish was in progress is overrun by at most one copy
\* per publisher but one: every publisher may have a copy on the way when the
\* limit is reached, and none starts another once it has seen the limit spent.
\* With one publisher the total is exactly bounded by max.
AutoUnsubBound ==
    \A i \in quiet : limit[i] > 0 =>
        Cardinality(Received(i)) <= limit[i] + Cardinality(Publishers) - 1

\* When a reader has gone and nobody is still inside finish for its connection,
\* the registry holds nothing of it and Conn.subs is empty.
ClosedHasNoInterest ==
    \A c \in Conns :
        /\ pc[c] = "ended" /\ c \in closed
        /\ \A t \in Conns : my[t].victim = c => pc[t] \notin {"unregister", "clear"}
        => known[c] = {} /\ \A i \in registered : sub[i].conn # c

\* A group with a member that could take the message at the end of the fan-out,
\* and of which no member's connection closed meanwhile, got a copy: busy members
\* are no reason to drop it (the comment in pick_groups).
BusyGroupServed ==
    \A c \in Conns : pc[c] = "settle" =>
        \A q \in Groups(my[c].matched) :
            /\ \E i \in Members(my[c].matched, q) : Eligible(i, c)
            /\ \A i \in Members(my[c].matched, q) : sub[i].conn \notin closed
            => \E i \in Members(my[c].matched, q) : Copies(i, c, sent[c]) # {}

\* "queue members get exactly one copy per message across the group": a group
\* with a member that was registered and open all through the publish gets one.
GroupServed ==
    \A c \in Conns : pc[c] = "settle" =>
        \A q \in Groups(my[c].matched) :
            (\E i \in Members(my[c].matched, q) : i \in registered /\ Eligible(i, c))
                => \E i \in Members(my[c].matched, q) : Copies(i, c, sent[c]) # {}

\* "UNSUB <sid> <max> with max > delivered bounds the total to max".
AutoUnsubTotal ==
    \A i \in Ids : sub[i] # NoSub /\ limit[i] > 0 => Cardinality(Received(i)) <= limit[i]

\* "Re-using an sid: the original subscription keeps serving": a SUB that is
\* ignored leaves its sid with a registered subscription.
ReuseKeepsServing ==
    [][\A c \in Conns, r \in Subscribes :
          SubscribeIgnored(c, r) =>
              \E i \in registered : sub[i].conn = c /\ sub[i].sid = r.sid]_vars

\* "N non-queue subscriptions each get a copy": a subscription the client holds,
\* on an open connection, without a limit, is in the registry between commands.
HeldIsRegistered ==
    \A c \in Conns : c \notin closed /\ pc[c] = "idle" =>
        \A i \in known[c] : limit[i] = 0 => i \in registered
=============================================================================
