------------------------------ MODULE Session -------------------------------
(***************************************************************************)
(* What one client says and how it is taken: the protocol parser           *)
(* (crates/server/src/proto.rs), the reads that feed it and the command    *)
(* dispatch (read_loop and handle in client.rs).                           *)
(*                                                                         *)
(* The client's bytes are a sequence of symbols: text for bytes of a       *)
(* control line before its end, the line end, and inside a publish the     *)
(* bytes of the body and of its terminator.  A symbol also knows which     *)
(* command it is of: the parser asks for that at a line end only, for what *)
(* the line says.  A read brings any number of symbols, so a line, a body  *)
(* or a terminator may be cut anywhere.                                    *)
(*                                                                         *)
(* All of this runs on the reader task, in order; the steps below are the  *)
(* iterations of the loops.                                                *)
(***************************************************************************)
EXTENDS Integers, Sequences

CONSTANTS
    Commands,        \* what a client may say, one line (with its body) at a time
    MaxCommands,     \* bound: commands of a client
    MaxControlLine,  \* Limits.max_control_line, in symbols
    Slack,           \* how many times that a line without its end may grow: 16
    MaxPayload       \* Limits.max_payload, in symbols

VARIABLES
    script,   \* the commands sent
    input,    \* the same as symbols
    starts,   \* history: how many symbols come before each command
    meant,    \* history: what they amount to, one by one
    fed,      \* symbols read so far
    pos,      \* symbols the parser has consumed
    state,    \* Parser.state: "line" or "body"
    frame,    \* the command whose body is being read
    first,    \* Parts.first: a piece of the body, or NoPiece
    rest,     \* Parts.rest
    got,      \* Parts.got
    events,   \* the batch of the current read
    mode,     \* where the reader is: "read", "parse", "handle", "closed"
    opts,     \* CONNECT's options: [headers, verbose, pedantic]
    done,     \* the operations carried out, each with the replies it queued
    last      \* the -ERR queued for the error that closed the connection, if any

clientVars == <<script, input, starts, meant>>
parserVars == <<pos, state, frame, first, rest, got>>
vars == <<clientVars, fed, parserVars, events, mode, opts, done, last>>

-----------------------------------------------------------------------------
(* Commands as symbols                                                     *)

IsPub(c) == c.verb \in {"PUB", "HPUB"}

\* What can stand where a body's CRLF should: nothing yet, half of it, the CRLF,
\* or bytes that show it is not one.
Terminators == {<<>>, <<"CR">>, <<"CR", "LF">>, <<"other">>, <<"CR", "other">>}

\* nargs is -1 when nothing at all follows the verb; a size that is not one to
\* nine digits is -1.
ASSUME SessionAssumption ==
    /\ MaxControlLine \in Nat /\ Slack \in Nat \ {0} /\ MaxPayload \in Nat
    /\ \A c \in Commands :
          /\ c.len \in Nat
          /\ IsPub(c) => c.hdr \in Int /\ c.total \in Int /\ c.end \in Terminators

\* What comes before the body of a publish, and the length of the body.
BodyAt(c) == c.len + 1
Total(c) == IF c.total < 0 THEN 0 ELSE c.total

\* A bare LF in the place of a line is a symbol of its own; a line's bytes are its
\* text, then its end; a publish goes on with its body and what ends it.
Size(c) ==
    IF c.verb = "LF" THEN 1
    ELSE IF IsPub(c) THEN BodyAt(c) + Total(c) + Len(c.end)
    ELSE c.len + 1

Kind(c, j) ==
    IF c.verb = "LF" THEN "LF"
    ELSE IF j <= c.len THEN "text"
    ELSE IF j = c.len + 1 THEN "line"
    ELSE IF j <= BodyAt(c) + Total(c) THEN "byte"
    ELSE c.end[j - (BodyAt(c) + Total(c))]

Symbols(c, n) == [j \in 1..Size(c) |-> [is |-> Kind(c, j), nth |-> n]]

-----------------------------------------------------------------------------
(* One control line: parse_line and pub_line                               *)

Fatal(text) == [kind |-> "fatal", text |-> text]
Silent == Fatal("silent")
Event == [kind |-> "event", text |-> "none"]
HpubArgs == [kind |-> "args", text |-> "none"]
Body == [kind |-> "body", text |-> "none"]

PubLine(c) ==
    LET hpub == c.verb = "HPUB"
        arity == IF hpub THEN {3, 4} ELSE {2, 3}
    IN  IF c.nargs = -1 THEN Fatal("unknown")
        ELSE IF c.nargs \notin arity \/ c.hdr < 0 \/ c.total < 0 \/ c.hdr > c.total
          THEN IF hpub THEN HpubArgs ELSE Silent
        ELSE IF c.total > MaxPayload THEN Fatal("payload")
        ELSE Body

ParseLine(c) ==
    CASE c.verb \in {"PING", "PONG", "+OK"} -> Event
      [] IsPub(c) -> PubLine(c)
      [] c.verb \in {"CONNECT", "INFO"} -> IF c.nargs > 0 THEN Event ELSE Silent
      [] c.verb = "-ERR" -> IF c.nargs = -1 THEN Fatal("unknown") ELSE Event
      [] c.verb = "SUB" ->
            IF c.nargs = -1 THEN Fatal("unknown")
            ELSE IF c.nargs \in {2, 3} THEN Event ELSE Silent
      [] c.verb = "UNSUB" ->
            IF c.nargs = -1 THEN Fatal("unknown")
            ELSE IF c.nargs \in {1, 2} THEN Event ELSE Silent
      [] OTHER -> Fatal("unknown")

-----------------------------------------------------------------------------
(* The dispatch: handle                                                    *)

OK(o) == IF o.verbose THEN <<"+OK">> ELSE <<>>

\* Options::apply_connect: a key that is absent keeps its value.
ApplyConnect(o, c) == [key \in DOMAIN o |-> IF key \in DOMAIN c.sets THEN c.sets[key] ELSE o[key]]

\* What an operation does under options o: the options after it, the replies it
\* queues, and the text (or silence) it closes the connection with.
Stays(o, replies) == [opts |-> o, replies |-> replies, ends |-> "none"]
Ends(o, text) == [opts |-> o, replies |-> <<>>, ends |-> text]

Outcome(c, o) ==
    CASE c.verb = "CONNECT" ->
            IF c.valid THEN Stays(ApplyConnect(o, c), OK(ApplyConnect(o, c))) ELSE Ends(o, "silent")
      [] c.verb = "SUB" -> Stays(o, IF c.valid THEN OK(o) ELSE <<"invalid subject">>)
      [] c.verb = "UNSUB" -> Stays(o, OK(o))
      [] IsPub(c) ->
            IF c.verb = "HPUB" /\ ~o.headers THEN Ends(o, "silent")
            ELSE Stays(o, (IF o.pedantic /\ ~c.valid THEN <<"invalid publish subject">> ELSE <<>>)
                          \o OK(o))
      [] c.verb = "PING" -> Stays(o, <<"PONG">>)
      [] c.verb = "INFO" -> IF c.valid THEN Stays(o, <<>>) ELSE Ends(o, "silent")
      [] c.verb = "-ERR" -> Ends(o, "silent")
      [] OTHER -> Stays(o, <<>>)

\* HPUB's right to be used is decided when its line is dispatched, and what was
\* wrong with it after that.
Attempt(outcome, o) ==
    IF ~o.headers \/ outcome = "args" THEN Ends(o, "silent")
    ELSE IF outcome = "frame" THEN Ends(o, "unknown") ELSE Stays(o, <<>>)

-----------------------------------------------------------------------------
(* What the commands amount to, taken one by one                           *)

\* A publish whose terminator is not all there.
Cut(c) == IsPub(c) /\ c.end \in {<<>>, <<"CR">>}

\* The words the parser closes the connection with, for a command it cannot read.
Breaks(c) ==
    IF c.verb = "LF" THEN "unknown"
    ELSE IF c.len > MaxControlLine THEN "control line"
    ELSE IF ParseLine(c).kind = "body" /\ c.verb = "PUB" /\ ~Cut(c) /\ c.end # <<"CR", "LF">>
      THEN "unknown"
    ELSE ParseLine(c).text

\* The words a command deserves under options o.  The right to use HPUB comes
\* before anything else about it.
Deserves(c, o) ==
    IF c.verb = "HPUB" /\ c.len <= MaxControlLine /\ c.nargs # -1
      THEN IF ~o.headers \/ ParseLine(c).kind = "args" THEN "silent"
           ELSE IF Breaks(c) # "none" THEN Breaks(c)
           ELSE IF ~Cut(c) /\ c.end # <<"CR", "LF">> THEN "unknown"
           ELSE "none"
    ELSE IF Breaks(c) # "none" THEN Breaks(c)
    ELSE Outcome(c, o).ends

\* The options, the first words deserved and the first the parser would use, after
\* one more command.
Amounts(m, c) ==
    [opts |-> IF m.ends = "none" /\ Deserves(c, m.opts) = "none" THEN Outcome(c, m.opts).opts
              ELSE m.opts,
     ends |-> IF m.ends = "none" THEN Deserves(c, m.opts) ELSE m.ends,
     breaks |-> IF m.breaks = "none" THEN Breaks(c) ELSE m.breaks]

Expected == meant[Len(meant)]

-----------------------------------------------------------------------------
(* The client and its socket                                               *)

NoPiece == [lo |-> 0, hi |-> 0]

Init ==
    /\ script = <<>> /\ input = <<>> /\ starts = <<0>>
    /\ opts = [headers |-> FALSE, verbose |-> TRUE, pedantic |-> TRUE]
    /\ meant = <<[opts |-> opts, ends |-> "none", breaks |-> "none"]>>
    /\ fed = 0 /\ pos = 0
    /\ state = "line" /\ frame = 0 /\ first = NoPiece /\ rest = <<>> /\ got = 0
    /\ events = <<>> /\ mode = "read"
    /\ done = <<>> /\ last = "none"

\* The client sends one more command; while the reader is at work that changes
\* nothing it looks at.  What follows a cut terminator would be taken for the rest
\* of it: the cut command stands for all that.
Send(c) ==
    /\ mode = "read" /\ Len(script) < MaxCommands
    /\ script # <<>> => ~Cut(script[Len(script)])
    /\ script' = Append(script, c)
    /\ input' = input \o Symbols(c, Len(script) + 1)
    /\ starts' = Append(starts, Len(input) + Size(c))
    /\ meant' = Append(meant, Amounts(Expected, c))
    /\ UNCHANGED <<fed, parserVars, events, mode, opts, done, last>>

\* The socket hands over k more symbols, and the parser starts on the buffer.
Read(k) ==
    /\ mode = "read"
    /\ k \in 1..(Len(input) - fed)
    /\ fed' = fed + k
    /\ events' = <<>>
    /\ mode' = "parse"
    /\ UNCHANGED <<clientVars, parserVars, opts, done, last>>

-----------------------------------------------------------------------------
(* The parser: feed_into                                                   *)

\* src.len() and src[j - 1].
Avail == fed - pos
Byte(j) == input[pos + j]

\* The parser has done what it can with this read.
Parsed == mode' = "handle"

\* A parse error: its text is queued, if it has one, and the connection closes.
\* The batch of this read is not carried out.
Fails(text) ==
    /\ last' = text
    /\ mode' = "closed"
    /\ events' = <<>>

\* A bare LF where a line should start is no operation, whatever follows.
BareLF ==
    /\ mode = "parse" /\ state = "line"
    /\ Avail > 0 /\ Byte(1).is = "LF"
    /\ Fails("unknown")
    /\ UNCHANGED <<clientVars, fed, parserVars, opts, done>>

\* find_crlf.
LineEnd(k) == k \in 1..Avail /\ Byte(k).is = "line" /\ \A j \in 1..(k - 1) : Byte(j).is # "line"

NoLine == (Avail > 0 => Byte(1).is # "LF") /\ \A k \in 1..Avail : Byte(k).is # "line"

\* Mutant of AwaitLine: a line without an end is waited for at any length.
AwaitLineForever ==
    /\ mode = "parse" /\ state = "line" /\ NoLine
    /\ Parsed
    /\ UNCHANGED <<clientVars, fed, parserVars, events, opts, done, last>>

\* No line end in the buffer: wait for more, up to a point.
AwaitLine ==
    /\ mode = "parse" /\ state = "line" /\ NoLine
    /\ IF Avail > MaxControlLine * Slack
         THEN Fails("control line")
         ELSE Parsed /\ UNCHANGED <<events, last>>
    /\ UNCHANGED <<clientVars, fed, parserVars, opts, done>>

\* The events: a line's, Event::HpubAttempt, and Event::Publish with its body as
\* the pieces it is put together from.
LineEvent(n) == [is |-> "line", nth |-> n, outcome |-> "none", body |-> <<>>]
HpubAttempt(n, outcome) == [is |-> "attempt", nth |-> n, outcome |-> outcome, body |-> <<>>]
Publish(n, body) == [is |-> "publish", nth |-> n, outcome |-> "none", body |-> body]

TakeLine(k) ==
    /\ mode = "parse" /\ state = "line"
    /\ LineEnd(k) /\ Byte(1).is # "LF"
    /\ LET n == Byte(k).nth
           action == ParseLine(script[n])
       IN
       IF k - 1 > MaxControlLine
         THEN Fails("control line") /\ UNCHANGED <<pos, state, frame>>
         ELSE /\ pos' = pos + k
              /\ \/ /\ action.kind = "fatal"
                    /\ Fails(action.text)
                    /\ UNCHANGED <<state, frame>>
                 \/ /\ action.kind = "event"
                    /\ events' = Append(events, LineEvent(n))
                    /\ UNCHANGED <<mode, state, frame, last>>
                 \/ /\ action.kind = "args"
                    /\ events' = Append(events, HpubAttempt(n, "args"))
                    /\ Parsed
                    /\ UNCHANGED <<state, frame, last>>
                 \/ /\ action.kind = "body"
                    /\ state' = "body" /\ frame' = n
                    /\ events' = IF script[n].verb = "HPUB" THEN Append(events, HpubAttempt(n, "ok"))
                                 ELSE events
                    /\ UNCHANGED <<mode, last>>
    /\ UNCHANGED <<clientVars, fed, first, rest, got, opts, done>>

\* Mutant of Push: the two pieces change places.
PushSwapped(piece) ==
    IF first = NoPiece
      THEN first' = piece /\ UNCHANGED rest
      ELSE first' = NoPiece /\ rest' = rest \o <<piece, first>>

\* Parts::push.
Push(piece) ==
    IF first = NoPiece
      THEN first' = piece /\ UNCHANGED rest
      ELSE first' = NoPiece /\ rest' = rest \o <<first, piece>>

\* Parts::take_body.
TakeBody == IF first = NoPiece THEN rest ELSE <<first>> \o rest

\* The part of the body that is in the buffer becomes one more piece.
TakePiece ==
    /\ mode = "parse" /\ state = "body" /\ got < script[frame].total
    /\ IF Avail = 0
         THEN Parsed /\ UNCHANGED <<pos, first, rest, got>>
         ELSE LET need == script[frame].total - got
                  n == IF need < Avail THEN need ELSE Avail
              IN  /\ Push([lo |-> pos + 1, hi |-> pos + n])
                  /\ got' = got + n
                  /\ pos' = pos + n
                  /\ UNCHANGED mode
    /\ UNCHANGED <<clientVars, fed, state, frame, events, opts, done, last>>

\* Mutant of Terminator: one byte more than the CRLF is waited for.
TerminatorLate ==
    IF Avail <= 2 THEN "wait"
    ELSE IF Byte(1).is = "CR" /\ Byte(2).is = "LF" THEN "good"
    ELSE "bad"

\* The terminator is positional, and judged by the first byte that is there.
Terminator ==
    IF Avail = 0 \/ (Avail = 1 /\ Byte(1).is = "CR") THEN "wait"
    ELSE IF Byte(1).is = "CR" /\ Byte(2).is = "LF" THEN "good"
    ELSE "bad"

\* Mutant of EndBody: a broken PUB is left to the dispatch, like an HPUB.
EndBodyDefers ==
    /\ mode = "parse" /\ state = "body" /\ got = script[frame].total
    /\ \/ /\ Terminator = "wait"
          /\ Parsed
          /\ UNCHANGED <<parserVars, events, last>>
       \/ /\ Terminator = "good"
          /\ pos' = pos + 2
          /\ events' = Append(events, Publish(frame, TakeBody))
          /\ state' = "line" /\ frame' = 0 /\ first' = NoPiece /\ rest' = <<>> /\ got' = 0
          /\ UNCHANGED <<mode, last>>
       \/ /\ Terminator = "bad"
          /\ events' = Append(events, HpubAttempt(frame, "frame"))
          /\ Parsed
          /\ UNCHANGED <<parserVars, last>>
    /\ UNCHANGED <<clientVars, fed, opts, done>>

EndBody ==
    /\ mode = "parse" /\ state = "body" /\ got = script[frame].total
    /\ \/ /\ Terminator = "wait"
          /\ Parsed
          /\ UNCHANGED <<parserVars, events, last>>
       \/ /\ Terminator = "good"
          /\ pos' = pos + 2
          /\ events' = Append(events, Publish(frame, TakeBody))
          /\ state' = "line" /\ frame' = 0 /\ first' = NoPiece /\ rest' = <<>> /\ got' = 0
          /\ UNCHANGED <<mode, last>>
       \/ /\ Terminator = "bad" /\ script[frame].verb = "HPUB"
          /\ events' = Append(events, HpubAttempt(frame, "frame"))
          /\ Parsed
          /\ UNCHANGED <<parserVars, last>>
       \/ /\ Terminator = "bad" /\ script[frame].verb = "PUB"
          /\ Fails("unknown")
          /\ UNCHANGED parserVars
    /\ UNCHANGED <<clientVars, fed, opts, done>>

-----------------------------------------------------------------------------
(* The batch: the loop around handle                                       *)

Result(e) ==
    IF e.is = "attempt" THEN Attempt(e.outcome, opts) ELSE Outcome(script[e.nth], opts)

Handle ==
    /\ mode = "handle" /\ events # <<>>
    /\ LET e == Head(events)
           result == Result(e)
       IN  /\ opts' = result.opts
           /\ done' = IF e.is = "attempt" \/ result.ends # "none" THEN done
                      ELSE Append(done, [nth |-> e.nth, body |-> e.body,
                                         replies |-> result.replies])
           /\ IF result.ends = "none"
                THEN events' = Tail(events) /\ UNCHANGED <<mode, last>>
                ELSE Fails(result.ends)
    /\ UNCHANGED <<clientVars, fed, parserVars>>

\* The batch is carried out: back to the socket.
Handled ==
    /\ mode = "handle" /\ events = <<>>
    /\ mode' = "read"
    /\ UNCHANGED <<clientVars, fed, parserVars, events, opts, done, last>>

Next ==
    \/ \E c \in Commands : Send(c)
    \/ \E k \in 1..Len(input) : Read(k) \/ TakeLine(k)
    \/ BareLF \/ AwaitLine \/ TakePiece \/ EndBody
    \/ Handle \/ Handled

Spec == Init /\ [][Next]_vars

-----------------------------------------------------------------------------
(* Properties                                                              *)

\* The pieces cover the stretch lo..hi of the input, in order.
Covers(pieces, lo, hi) ==
    IF pieces = <<>> THEN lo = hi + 1
    ELSE /\ pieces[1].lo = lo /\ pieces[Len(pieces)].hi = hi
         /\ \A i \in 1..(Len(pieces) - 1) : pieces[i + 1].lo = pieces[i].hi + 1

\* The body of a publish is the bytes sent for it.  An odd number of pieces from
\* three on has the last one in front: see Push.
Carries(pieces, lo, hi) ==
    \/ Covers(pieces, lo, hi)
    \/ /\ Len(pieces) >= 3 /\ Len(pieces) % 2 = 1
       /\ Covers(Tail(pieces) \o <<Head(pieces)>>, lo, hi)

\* However the reads cut the stream, the operations carried out are the commands
\* sent, in order and none twice, each with the bytes of its body, if it has one,
\* and with the replies it draws under the options of the commands before it.
ExecutedInOrder ==
    \A i \in DOMAIN done :
        /\ done[i].nth = i /\ i <= Len(script) /\ meant[i + 1].ends = "none"
        /\ done[i].replies = Outcome(script[i], meant[i].opts).replies
        /\ IsPub(script[i]) =>
              LET before == starts[i] + BodyAt(script[i])
              IN  Carries(done[i].body, before + 1, before + script[i].total)

\* When everything sent has been read and the connection is still open, no command
\* deserved to end it and every complete one has been carried out: nothing waits
\* for a byte that is there.
NothingHeldBack ==
    mode = "read" /\ fed = Len(input) =>
        /\ Expected.ends = "none"
        /\ \A n \in DOMAIN script : n \in DOMAIN done \/ Cut(script[n])

\* The connection closes with the words of the first command that deserves it, or,
\* if that one and more arrived in one read, with those of the first command the
\* parser could not read.
ErrorClass == mode = "closed" => last # "none" /\ last \in {Expected.ends, Expected.breaks}

\* Between reads the parser holds no more than a bounded line without its end, or
\* the bytes of the body it was promised and half a terminator.
BufferBounded ==
    mode = "read" =>
        /\ state = "line" => fed - pos <= MaxControlLine * Slack
        /\ state = "body" => got <= script[frame].total /\ fed - pos <= 1

\* "the body may be split across segments at any boundary": a publish carries its
\* bytes in the order they were sent.
BodyInOrder ==
    \A i \in DOMAIN done : IsPub(script[done[i].nth]) =>
        \A k \in 1..(Len(done[i].body) - 1) : done[i].body[k + 1].lo = done[i].body[k].hi + 1

\* "Without the headers capability the connection is dropped silently whatever
\* the line's arguments were".
HpubNeedsHeaders ==
    mode = "closed" /\ Expected.ends = "silent" => last = "silent"
=============================================================================
