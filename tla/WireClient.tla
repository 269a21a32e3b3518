----------------------------- MODULE WireClient -----------------------------
(***************************************************************************)
(* The raw-protocol client of the conformance tests (Conn in crates/       *)
(* core-it/src/wire.rs) against one connection of the server (Keepalive).  *)
(*                                                                         *)
(* A test is any sequence of calls of Conn.  The INFO line that connect    *)
(* consumes is read like any other; a call that panics, and the end of the *)
(* test, drop the Conn.  A test may also hang for good with its Conn open. *)
(***************************************************************************)
EXTENDS Keepalive

CONSTANTS
    Sends,      \* the commands a test hands to send()
    PingBytes,  \* the length of the PING line, 6
    PingTail    \* how many bytes absorb_ping_bytes compares with it, 7

ASSUME WireAssumption == Sends \subseteq Command

VARIABLES
    cpc,     \* the call the test is in
    auto,    \* Conn.auto_pong
    ahead,   \* history: commands sent before the barrier's PING, not yet handled
    proved   \* history: every barrier that returned was a barrier

clientVars == <<cpc, auto, ahead, proved>>
allVars == <<vars, clientVars>>

ClientTypeOK ==
    /\ cpc \in {"idle", "next", "barrier", "drain", "closed", "mute", "dropped"}
    /\ auto \in BOOLEAN /\ ahead \in Nat
    /\ proved \in BOOLEAN

ClientInit ==
    /\ Init
    /\ cpc = "idle" /\ auto \in BOOLEAN
    /\ ahead = 0 /\ proved = TRUE

serverSide == <<readerVars, connVars, outq, wpc>>

-----------------------------------------------------------------------------
(* The calls                                                               *)

CanSend == Len(inbox) < MaxIn

\* What is sent once the read half is gone reaches nobody.
Sent(c) == IF rpc \in {"join", "gone"} THEN inbox ELSE Append(inbox, c)

\* send().
Send ==
    /\ cpc = "idle" /\ CanSend
    /\ \E c \in Sends : inbox' = Sent(c)
    /\ UNCHANGED <<serverSide, wire, lost, clientVars>>

\* next(), drain() and closed() start to read.
Call(c) ==
    /\ cpc = "idle"
    /\ cpc' = c
    /\ UNCHANGED <<vars, auto, ahead, proved>>

\* barrier() sends its PING.
BarrierStart ==
    /\ cpc = "idle" /\ CanSend
    /\ inbox' = Sent("PING")
    /\ ahead' = Len(inbox) + Len(batch)
    /\ cpc' = "barrier"
    /\ UNCHANGED <<serverSide, wire, lost, auto, proved>>

\* absorb_ping: a whole keepalive line in next() or barrier() is answered.
AbsorbPing ==
    /\ cpc \in {"next", "barrier"} /\ auto
    /\ wire # <<>> /\ Head(wire) = "PING"
    /\ CanSend
    /\ inbox' = Sent("PONG")
    /\ wire' = Tail(wire)
    /\ UNCHANGED <<serverSide, lost, clientVars>>

\* next() hands a line to the test.
NextLine ==
    /\ cpc = "next"
    /\ wire # <<>> /\ ~(auto /\ Head(wire) = "PING")
    /\ wire' = Tail(wire)
    /\ lost' = (lost \/ Head(wire) = "PING")
    /\ cpc' = "idle"
    /\ UNCHANGED <<serverSide, inbox, auto, ahead, proved>>

\* barrier() has read its PONG.
BarrierPong ==
    /\ cpc = "barrier"
    /\ wire # <<>> /\ Head(wire) = "PONG"
    /\ wire' = Tail(wire)
    /\ proved' = (proved /\ ahead = 0) /\ ahead' = 0
    /\ cpc' = "idle"
    /\ UNCHANGED <<serverSide, inbox, lost, auto>>

\* The Conn is dropped: whatever it has not read is gone.
Dropped ==
    /\ cpc' = "dropped" /\ ahead' = 0
    /\ inbox' = Sent("EOF") /\ wire' = <<>>
    /\ lost' = (lost \/ Has(wire, "PING"))

\* Any other line, the end of the stream, or five seconds without one: panic.
BarrierPanic ==
    /\ cpc = "barrier"
    /\ wire # <<>> => Head(wire) \notin (IF auto THEN {"PING", "PONG"} ELSE {"PONG"})
    /\ Dropped
    /\ UNCHANGED <<serverSide, auto, proved>>

\* absorb_ping_bytes, asked after each byte whether what was read is a PING.
AbsorbPingBytes(line) == auto /\ line = "PING" /\ PingBytes >= PingTail

DrainLine ==
    /\ cpc = "drain"
    /\ wire # <<>>
    /\ wire' = Tail(wire)
    /\ IF AbsorbPingBytes(Head(wire))
       THEN CanSend /\ inbox' = Sent("PONG") /\ UNCHANGED lost
       ELSE /\ lost' = (lost \/ Head(wire) = "PING")
            /\ UNCHANGED inbox
    /\ UNCHANGED <<serverSide, cpc, auto, ahead, proved>>

\* closed() answers false on the first byte it cannot absorb; the byte stays in
\* the client's buffer, so the line is still there for the next call.
ClosedLine ==
    /\ cpc = "closed"
    /\ wire # <<>>
    /\ IF AbsorbPingBytes(Head(wire))
       THEN /\ CanSend /\ inbox' = Sent("PONG") /\ wire' = Tail(wire)
            /\ UNCHANGED cpc
       ELSE /\ cpc' = "idle"
            /\ UNCHANGED <<inbox, wire>>
    /\ UNCHANGED <<serverSide, lost, auto, ahead, proved>>

\* A quiet period, or the end of the stream.
Return ==
    /\ cpc \in {"next", "drain", "closed"} /\ wire = <<>>
    /\ cpc' = "idle"
    /\ UNCHANGED <<vars, auto, ahead, proved>>

\* The test ends, or hangs.
Leave ==
    /\ cpc = "idle"
    /\ \/ Dropped
       \/ cpc' = "mute" /\ UNCHANGED <<inbox, wire, lost, ahead>>
    /\ UNCHANGED <<serverSide, auto, proved>>

\* The kernel goes on taking what is sent to a client that hangs.
MuteTakes ==
    /\ cpc = "mute" /\ wire # <<>>
    /\ wire' = Tail(wire) /\ lost' = TRUE
    /\ UNCHANGED <<serverSide, inbox, clientVars>>

ClientNext ==
    \/ Send \/ BarrierStart \/ (\E c \in {"next", "drain", "closed"} : Call(c))
    \/ AbsorbPing \/ NextLine \/ BarrierPong \/ BarrierPanic
    \/ DrainLine \/ ClosedLine \/ Return \/ Leave \/ MuteTakes

\* A command handled is one fewer ahead of the barrier.
Server ==
    /\ ServerNext
    /\ ahead' = IF rpc \in {"handle", "parked"} /\ batch' # batch /\ ahead > 0 THEN ahead - 1 ELSE ahead
    /\ UNCHANGED <<cpc, auto, proved>>

Next == ClientNext \/ Server

Spec == ClientInit /\ [][Next]_allVars

\* Nothing is assumed of the client.
FairSpec == Spec /\ ServerFairness

-----------------------------------------------------------------------------
(* Properties                                                              *)

\* barrier(): "the barrier that proves every command sent before it has been
\* processed by the server".
BarrierProves == proved

\* A client that has gone silent without closing is found out by the keepalive.
MuteIsClosed == cpc = "mute" ~> closed

\* Conn answers the keepalive "so a test cannot mistake server traffic for a
\* protocol response": no call takes a PING off the wire without answering it.
KeepaliveAnswered ==
    [][auto /\ cpc \in {"next", "barrier", "drain"} /\ wire # <<>> /\ wire' = Tail(wire)
         /\ Head(wire) = "PING" => inbox' = Sent("PONG")]_allVars
=============================================================================
