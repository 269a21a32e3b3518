----------------------------- MODULE MCRegistry -----------------------------
(* Instances of Registry for TLC.                                          *)
EXTENDS Refinement, TLC

CONSTANTS a, b, c, s1, s2, s3, s4, foo, all, other, queue

MCFilters == {foo, all, other}
MCWild == {all}
MCMatches == [f \in MCFilters |-> IF f = all THEN {foo, other} ELSE {f}]

SubCmd(conn, sid, filter, q) == [conn |-> conn, sid |-> sid, filter |-> filter, queue |-> q]
UnsubCmd(conn, sid, max) == [conn |-> conn, sid |-> sid, max |-> max]
PubCmd(conn, subject, reply) == [conn |-> conn, subject |-> subject, reply |-> reply]

\* A subscriber of a literal and a wildcard, and a publisher of two subjects.
CacheSubs == {SubCmd(a, 1, foo, NoQueue), SubCmd(a, 2, all, NoQueue)}
CacheUnsubs == {UnsubCmd(a, 1, -1), UnsubCmd(a, 1, 1)}
CachePubs == {PubCmd(c, foo, NoReply), PubCmd(c, other, NoReply)}

\* A queue group of two, one of which may overflow, a plain subscription beside
\* it, and a requester without echo that holds its reply subject.
FanoutSubs ==
    {SubCmd(a, 1, foo, queue), SubCmd(b, 1, foo, queue), SubCmd(a, 2, all, NoQueue),
     SubCmd(c, 1, all, NoQueue)}
FanoutUnsubs == {UnsubCmd(a, 1, 0)}
FanoutPubs == {PubCmd(c, foo, other)}

\* A subscription with a limit and two publishers.
LimitSubs == {SubCmd(a, 1, foo, NoQueue)}
LimitUnsubs == {UnsubCmd(a, 1, 0), UnsubCmd(a, 1, 1)}
LimitPubs == {PubCmd(b, foo, NoReply), PubCmd(c, foo, NoReply)}

Identities == Permutations(Ids)
=============================================================================
