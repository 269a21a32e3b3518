--------------------------- MODULE SessionProofs ----------------------------
(***************************************************************************)
(* Proofs about module Session, for any commands, limits and cuts of the   *)
(* stream: what is carried out is what was sent, in order; nothing waits   *)
(* for a byte that is there; the connection closes with words that are     *)
(* due; and what the parser keeps between reads is bounded.                *)
(*                                                                         *)
(* And about module Subjects, the grammar of the names the commands carry: *)
(* is_valid accepts what is legal, and a match is what a filter means.     *)
(***************************************************************************)
EXTENDS Session, Subjects, TLAPS

-----------------------------------------------------------------------------
(* Sequences                                                               *)

IsSeq(s) == s \in Seq({s[i] : i \in DOMAIN s})

\* A sequence of anything.
LEMMA SeqOf ==
    ASSUME NEW S, NEW s \in Seq(S)
    PROVE  IsSeq(s)
BY DEF IsSeq

\* A sequence has the positions 1 to its length.
LEMMA SeqBasics ==
    ASSUME NEW s, IsSeq(s)
    PROVE  /\ Len(s) \in Nat /\ DOMAIN s = 1..Len(s)
           /\ s = <<>> <=> Len(s) = 0
BY DEF IsSeq

\* A function on 1..n is one.
LEMMA SeqFunction ==
    ASSUME NEW n \in Nat, NEW f, f = [i \in 1..n |-> f[i]]
    PROVE  IsSeq(f) /\ Len(f) = n
<1>1. PICK S : S = {f[i] : i \in DOMAIN f} BY Zenon
<1>2. DOMAIN f = 1..n BY Zenon
<1>3. f \in [1..n -> S] BY <1>1, <1>2, Zenon
<1>4. f \in Seq(S) BY <1>3
<1>5. Len(f) = n BY <1>2, <1>4
<1>6. QED BY <1>1, <1>4, <1>5, Zenon DEF IsSeq

\* A sequence is the function of its positions.
LEMMA SeqIsFunction ==
    ASSUME NEW s, IsSeq(s)
    PROVE  s = [i \in 1..Len(s) |-> s[i]]
<1>1. PICK S : S = {s[i] : i \in DOMAIN s} BY Zenon
<1>2. s \in Seq(S) BY <1>1, Zenon DEF IsSeq
<1>3. QED BY <1>2

\* The empty sequence.
LEMMA SeqEmpty == IsSeq(<<>>) /\ Len(<<>>) = 0
BY DEF IsSeq

\* What appending does.
IsAppend(t, s, e) ==
    /\ IsSeq(t) /\ Len(t) = Len(s) + 1
    /\ \A i \in 1..Len(s) : t[i] = s[i]
    /\ t[Len(s) + 1] = e

\* What Append returns.
LEMMA SeqAppend ==
    ASSUME NEW s, IsSeq(s), NEW e
    PROVE  IsAppend(Append(s, e), s, e)
<1> DEFINE S == {s[i] : i \in DOMAIN s} \cup {e}
           t == Append(s, e)
<1>1. s \in Seq(S) BY DEF IsSeq
<1>2. t \in Seq(S) BY <1>1
<1>3. IsSeq(t) BY <1>2, SeqOf, Zenon
<1>4. QED BY <1>1, <1>3 DEF IsAppend

\* What joining does.
IsJoin(t, s, u) ==
    /\ IsSeq(t) /\ Len(t) = Len(s) + Len(u)
    /\ \A i \in 1..Len(s) : t[i] = s[i]
    /\ \A i \in 1..Len(u) : t[Len(s) + i] = u[i]

\* What concatenation returns.
LEMMA SeqJoin ==
    ASSUME NEW s, IsSeq(s), NEW u, IsSeq(u)
    PROVE  IsJoin(s \o u, s, u)
<1> DEFINE t == s \o u
<1> DEFINE S == {s[i] : i \in DOMAIN s} \cup {u[i] : i \in DOMAIN u}
<1>1. s \in Seq(S) /\ u \in Seq(S) BY DEF IsSeq
<1>2. t \in Seq(S) BY <1>1
<1>3. IsSeq(t) BY <1>2, SeqOf, Zenon
<1>4. QED BY <1>1, <1>3 DEF IsJoin

\* What is left without the head.
LEMMA SeqTail ==
    ASSUME NEW s, IsSeq(s), s # <<>>, NEW t, t = Tail(s)
    PROVE  /\ IsSeq(t) /\ Len(t) = Len(s) - 1 /\ Head(s) = s[1]
           /\ \A i \in 1..(Len(s) - 1) : t[i] = s[i + 1]
<1> DEFINE S == {s[i] : i \in DOMAIN s}
<1>1. s \in Seq(S) BY Zenon DEF IsSeq
<1>2. t \in Seq(S) BY <1>1
<1>3. IsSeq(t) BY <1>2, SeqOf, Zenon
<1>4. QED BY <1>1, <1>3

-----------------------------------------------------------------------------
(* Commands                                                                *)

\* The commands TLC tries are like any others: what SessionAssumption says of one.
LEMMA CommandShape ==
    ASSUME NEW c \in Commands
    PROVE  c.len \in Nat /\ (IsPub(c) => c.hdr \in Int /\ c.total \in Int /\ c.end \in Terminators)
BY SessionAssumption, Zenon

\* What can stand in the place of a body's CRLF, by its length.
LEMMA EndShape ==
    ASSUME NEW e \in Terminators
    PROVE  /\ Len(e) \in 0..2
           /\ e = <<>> <=> Len(e) = 0
           /\ Len(e) = 1 => e[1] \in {"CR", "other"} /\ (e[1] = "CR" <=> e = <<"CR">>)
           /\ Len(e) = 2 => e[1] = "CR" /\ e[2] \in {"LF", "other"} /\ (e[2] = "LF" <=> e = <<"CR", "LF">>)
BY DEF Terminators

\* A line is its text and its end, and a bare LF one symbol.
LEMMA LineSymbols ==
    ASSUME NEW c \in Commands
    PROVE  /\ Size(c) \in Nat /\ Size(c) >= 1
           /\ c.verb = "LF" => Size(c) = 1 /\ Kind(c, 1) = "LF"
           /\ c.verb # "LF" => /\ Size(c) >= c.len + 1
                               /\ Kind(c, c.len + 1) = "line" /\ Kind(c, 1) # "LF"
                               /\ \A j \in 1..c.len : Kind(c, j) = "text"
<1>1. c.len \in Nat /\ (IsPub(c) => c.total \in Int /\ Len(c.end) \in Nat)
  BY CommandShape, EndShape
<1>2. IsPub(c) => Total(c) \in Nat BY <1>1 DEF Total
<1>3. CASE c.verb = "LF" BY <1>3 DEF Size, Kind
<1>4. CASE c.verb # "LF"
  <2>1. \/ Size(c) = c.len + 1
        \/ /\ Size(c) = c.len + 1 + Total(c) + Len(c.end)
           /\ Total(c) \in Nat /\ Len(c.end) \in Nat
    BY <1>1, <1>2, <1>4, Zenon DEF Size, BodyAt
  <2>2. c.len \in Nat BY <1>1, Zenon
  <2>3. Size(c) \in Nat /\ Size(c) >= c.len + 1 /\ Size(c) >= 1 BY <2>1, <2>2
  <2>4. ~(c.len + 1 <= c.len) BY <2>2
  <2>5. Kind(c, c.len + 1) = "line" BY <1>4, <2>4, Zenon DEF Kind
  <2>6. \A j \in 1..c.len : j <= c.len BY <2>2
  <2>7. \A j \in 1..c.len : Kind(c, j) = "text" BY <1>4, <2>6, Zenon DEF Kind
  <2>8. Kind(c, 1) # "LF"
    <3>1. c.len >= 1 \/ c.len + 1 = 1 BY <2>2
    <3>2. c.len >= 1 => 1 \in 1..c.len BY <2>2
    <3>3. "text" # "LF" /\ "line" # "LF" OBVIOUS
    <3> QED BY <2>5, <2>7, <3>1, <3>2, <3>3, Zenon
  <2> QED BY <1>4, <2>3, <2>5, <2>7, <2>8, Zenon
<1>5. QED BY <1>3, <1>4, Zenon

\* A publish goes on with its body and its terminator.
LEMMA BodySymbols ==
    ASSUME NEW c \in Commands, IsPub(c), c.total >= 0
    PROVE  /\ c.total \in Nat /\ Size(c) = BodyAt(c) + c.total + Len(c.end)
           /\ BodyAt(c) = c.len + 1 /\ BodyAt(c) \in Nat
           /\ \A j \in 1..Len(c.end) : Kind(c, BodyAt(c) + c.total + j) = c.end[j]
<1>1. c.len \in Nat /\ c.total \in Nat /\ Len(c.end) \in Nat
  BY CommandShape, EndShape
<1>2. Total(c) = c.total BY <1>1 DEF Total
<1>3. ASSUME NEW j \in 1..Len(c.end)
      PROVE  Kind(c, BodyAt(c) + c.total + j) = c.end[j]
  <2>1. c.verb # "LF" BY Zenon DEF IsPub
  <2>2. PICK i \in Int : i = BodyAt(c) + c.total + j BY <1>1 DEF BodyAt
  <2>3. /\ ~(i <= c.len) /\ ~(i = c.len + 1) /\ ~(i <= BodyAt(c) + Total(c))
        /\ i - (BodyAt(c) + Total(c)) = j
    BY <1>1, <1>2, <2>2 DEF BodyAt
  <2>4. Kind(c, i) = c.end[i - (BodyAt(c) + Total(c))]
    BY <2>1, <2>3, Zenon DEF Kind
  <2> QED BY <2>2, <2>3, <2>4, Zenon
<1>4. QED BY <1>1, <1>2, <1>3 DEF Size, BodyAt, IsPub

\* What parse_line makes of a line.
LEMMA LineKinds ==
    ASSUME NEW c \in Commands
    PROVE  /\ ParseLine(c).kind \in {"event", "args", "body", "fatal"}
           /\ ParseLine(c).kind = "fatal" => ParseLine(c).text # "none"
           /\ ParseLine(c).kind # "fatal" => ParseLine(c).text = "none"
           /\ ParseLine(c).kind \in {"args", "body"} => IsPub(c) /\ c.nargs # -1
           /\ ParseLine(c).kind = "args" => c.verb = "HPUB"
           /\ ParseLine(c).kind = "body" => c.total >= 0
           /\ ParseLine(c).kind = "event" => ~IsPub(c)
<1>1. CASE IsPub(c)
  <2>1. ParseLine(c) = PubLine(c) BY <1>1, Zenon DEF ParseLine, IsPub
  <2> QED BY <1>1, <2>1, CommandShape DEF PubLine, Fatal, Silent, HpubArgs, Body, IsPub
<1>2. CASE ~IsPub(c)
  <2>1. ParseLine(c) = Event \/ ParseLine(c) = Silent \/ ParseLine(c) = Fatal("unknown")
    BY <1>2, Zenon DEF ParseLine
  <2> QED BY <1>2, <2>1 DEF Fatal, Silent, Event
<1>3. QED BY <1>1, <1>2, Zenon

-----------------------------------------------------------------------------
(* Pieces                                                                  *)

\* Pieces that cover a stretch still do with the one that follows.
LEMMA CoversNext ==
    ASSUME NEW s, IsSeq(s), NEW t, IsSeq(t), NEW n \in Nat, Len(s) = n, Len(t) = n + 1,
           \A i \in 1..n : t[i] = s[i],
           NEW lo \in Int, t[n + 1].lo \in Int, Covers(s, lo, t[n + 1].lo - 1)
    PROVE  Covers(t, lo, t[n + 1].hi)
<1>1. t # <<>> BY SeqBasics
<1>2. CASE n = 0
  <2>1. s = <<>> BY <1>2, SeqBasics, Zenon
  <2>2. lo = (t[1].lo - 1) + 1 BY <1>2, <2>1 DEF Covers
  <2> QED BY <1>1, <1>2, <2>2 DEF Covers
<1>3. CASE n > 0
  <2>1. s # <<>> BY <1>3, SeqBasics
  <2>2. /\ s[1].lo = lo /\ s[n].hi = t[n + 1].lo - 1
        /\ \A i \in 1..(n - 1) : s[i + 1].lo = s[i].hi + 1
    BY <2>1, Zenon DEF Covers
  <2>3. t[1].lo = lo BY <1>3, <2>2
  <2>4. ASSUME NEW i \in 1..n PROVE t[i + 1].lo = t[i].hi + 1
    <3>1. CASE i = n BY <3>1, <1>3, <2>2
    <3>2. CASE i < n
      <4>1. t[i + 1] = s[i + 1] /\ t[i] = s[i] /\ i \in 1..(n - 1) BY <3>2
      <4> QED BY <4>1, <2>2, Zenon
    <3> QED BY <3>1, <3>2
  <2>5. \A i \in 1..(Len(t) - 1) : t[i + 1].lo = t[i].hi + 1 BY <2>4
  <2> QED BY <1>1, <2>3, <2>5, Zenon DEF Covers
<1>4. QED BY <1>2, <1>3

\* So do they with the next two.
LEMMA CoversPair ==
    ASSUME NEW s, IsSeq(s), NEW a, NEW b, NEW lo \in Int, a.lo \in Int, a.hi \in Int, b.lo \in Int,
           Covers(s, lo, a.lo - 1), b.lo = a.hi + 1
    PROVE  Covers(s \o <<a, b>>, lo, b.hi) /\ Len(s \o <<a, b>>) = Len(s) + 2 /\ IsSeq(s \o <<a, b>>)
<1>1. PICK n \in Nat : n = Len(s) BY SeqBasics, Zenon
<1>2. PICK t : t = s \o <<a, b>> BY Zenon
<1>3. PICK q : q = <<a, b>> BY Zenon
<1>4. IsSeq(q) /\ Len(q) = 2 /\ q[1] = a /\ q[2] = b
  <2>1. q \in Seq({a, b}) BY <1>3
  <2>2. IsSeq(q) BY <2>1, SeqOf, Zenon
  <2>3. Len(q) = 2 BY <1>3, Zenon
  <2> QED BY <1>3, <2>2, <2>3, Zenon
<1>5. /\ IsSeq(t) /\ Len(t) = n + 2 /\ t[n + 1] = a /\ t[n + 2] = b
      /\ \A i \in 1..n : t[i] = s[i]
  <2>1. t = s \o q BY <1>2, <1>3, Zenon
  <2>2. IsJoin(t, s, q) BY <1>4, <2>1, SeqJoin, Zenon
  <2> QED BY <1>1, <1>4, <2>2 DEF IsJoin
<1>6. PICK u : u = [i \in 1..(n + 1) |-> t[i]] BY Zenon
<1>7. /\ IsSeq(u) /\ Len(u) = n + 1 /\ u[n + 1] = a
      /\ \A i \in 1..n : u[i] = s[i]
      /\ \A i \in 1..(n + 1) : t[i] = u[i]
  <2>1. IsSeq(u) /\ Len(u) = n + 1 BY <1>6, SeqFunction
  <2> QED BY <1>5, <1>6, <2>1
<1>8. Covers(u, lo, a.hi) BY <1>1, <1>7, CoversNext, Zenon
<1>9. a.hi = b.lo - 1 OBVIOUS
<1>10. PICK m \in Nat : m = n + 1 OBVIOUS
<1>11. Covers(t, lo, b.hi)
  <2>1. Len(u) = m /\ Len(t) = m + 1 /\ t[m + 1] = b /\ \A i \in 1..m : t[i] = u[i]
    BY <1>5, <1>7, <1>10
  <2>2. Covers(u, lo, t[m + 1].lo - 1) /\ t[m + 1].lo \in Int BY <1>8, <1>9, <2>1, Zenon
  <2>3. Covers(t, lo, t[m + 1].hi) BY <1>5, <1>7, <2>1, <2>2, CoversNext, Zenon
  <2> QED BY <2>1, <2>3, Zenon
<1>12. QED BY <1>1, <1>2, <1>5, <1>11, Zenon

\* And so do the pieces of rest with first behind them.
LEMMA CoversTurned ==
    ASSUME NEW s, IsSeq(s), NEW a, NEW lo \in Int, a.lo \in Int, Len(s) % 2 = 0,
           Covers(s, lo, a.lo - 1)
    PROVE  Carries(<<a>> \o s, lo, a.hi)
<1>1. PICK n \in Nat : n = Len(s) BY SeqBasics, Zenon
<1>2. PICK t : t = s \o <<a>> BY Zenon
<1>3. PICK p : p = <<a>> \o s BY Zenon
<1>4. PICK q : q = <<a>> BY Zenon
<1>5. IsSeq(q) /\ Len(q) = 1 /\ q[1] = a
  <2>1. q \in Seq({a}) BY <1>4
  <2>2. IsSeq(q) BY <2>1, SeqOf, Zenon
  <2>3. Len(q) = 1 BY <1>4, Zenon
  <2> QED BY <1>4, <2>2, <2>3, Zenon
<1>6. /\ IsSeq(t) /\ Len(t) = n + 1 /\ t[n + 1] = a
      /\ \A i \in 1..n : t[i] = s[i]
  <2>1. t = s \o q BY <1>2, <1>4, Zenon
  <2>2. IsJoin(t, s, q) BY <1>5, <2>1, SeqJoin, Zenon
  <2> QED BY <1>1, <1>5, <2>2 DEF IsJoin
<1>7. Covers(t, lo, a.hi) BY <1>1, <1>6, CoversNext, Zenon
<1>8. /\ IsSeq(p) /\ Len(p) = n + 1 /\ p[1] = a
      /\ \A i \in 1..n : p[1 + i] = s[i]
  <2>1. p = q \o s BY <1>3, <1>4, Zenon
  <2>2. IsJoin(p, q, s) BY <1>5, <2>1, SeqJoin, Zenon
  <2> QED BY <1>1, <1>5, <2>2 DEF IsJoin
<1>9. CASE n = 0
  <2>1. p # <<>> BY <1>8, SeqBasics
  <2>2. s = <<>> BY <1>1, <1>9, SeqBasics, Zenon
  <2>3. lo = (a.lo - 1) + 1 BY <2>2, Zenon DEF Covers
  <2>4. Covers(p, lo, a.hi) BY <1>8, <1>9, <2>1, <2>3 DEF Covers
  <2> QED BY <1>3, <2>4, Zenon DEF Carries
<1>10. CASE n > 0
  <2>1. n >= 2 /\ n % 2 = 0 BY <1>1, <1>10
  <2>2. n + 1 >= 3 /\ (n + 1) % 2 = 1 BY <2>1
  <2>3. p # <<>> BY <1>8, SeqBasics
  <2>4. PICK q1 : q1 = Tail(p) BY Zenon
  <2>5. Head(p) = a /\ IsSeq(q1) /\ Len(q1) = n /\ \A i \in 1..n : q1[i] = s[i]
    <3>1. /\ IsSeq(q1) /\ Len(q1) = Len(p) - 1 /\ Head(p) = p[1]
          /\ \A i \in 1..(Len(p) - 1) : q1[i] = p[i + 1]
      BY <1>8, <2>3, <2>4, SeqTail, Zenon
    <3> QED BY <1>8, <3>1
  <2>6. Tail(p) = s
    <3>1. q1 = [i \in 1..n |-> q1[i]] /\ s = [i \in 1..n |-> s[i]]
      BY <1>1, <2>5, SeqIsFunction, Zenon
    <3>2. [i \in 1..n |-> q1[i]] = [i \in 1..n |-> s[i]] BY <2>5, Zenon
    <3> QED BY <2>4, <3>1, <3>2, Zenon
  <2>7. Covers(Tail(p) \o <<Head(p)>>, lo, a.hi) BY <1>2, <1>7, <2>5, <2>6, Zenon
  <2>8. Len(p) >= 3 /\ Len(p) % 2 = 1 BY <1>8, <2>2, Zenon
  <2> QED BY <1>3, <2>7, <2>8, Zenon DEF Carries
<1>11. QED BY <1>9, <1>10

-----------------------------------------------------------------------------
(* The inductive invariant                                                 *)

N == Len(script)

\* What was sent, as symbols: each command in its place.  Nothing follows a cut one.
Laid ==
    /\ IsSeq(script) /\ \A n \in 1..N : script[n] \in Commands
    /\ IsSeq(input)
    /\ IsSeq(starts) /\ Len(starts) = N + 1 /\ starts[1] = 0 /\ starts[N + 1] = Len(input)
    /\ \A n \in 1..(N + 1) : starts[n] \in 0..Len(input)
    /\ \A n \in 1..N : starts[n + 1] = starts[n] + Size(script[n])
    /\ \A n \in 1..N : \A j \in 1..Size(script[n]) :
          input[starts[n] + j] = [is |-> Kind(script[n], j), nth |-> n]
    /\ \A n \in 1..(N - 1) : ~Cut(script[n])

\* What it amounts to: words once deserved stay deserved.
History ==
    /\ IsSeq(meant) /\ Len(meant) = N + 1
    /\ \A n \in 1..N : meant[n + 1] = Amounts(meant[n], script[n])
    /\ \A n \in 1..(N + 1) :
          /\ meant[n].ends # "none" => meant[N + 1].ends = meant[n].ends
          /\ meant[n].breaks # "none" => meant[N + 1].breaks = meant[n].breaks

Client == Laid /\ History

LastEvent == events[Len(events)]

\* The commands the parser is through with.
Complete ==
    IF events = <<>> THEN Len(done)
    ELSE IF LastEvent.is = "attempt" THEN LastEvent.nth - 1 ELSE LastEvent.nth

\* The parser has given up on an HPUB and left the rest to the dispatch.
Stopped == events # <<>> /\ LastEvent.is = "attempt" /\ LastEvent.outcome # "ok"

\* What comes before the body of command n.
Before(n) == starts[n] + BodyAt(script[n])

\* An event says of a command what is the case.
Faithful(e) ==
    LET c == script[e.nth] IN
    /\ e.nth \in 1..N /\ c.len <= MaxControlLine /\ c.verb # "LF"
    /\ \/ e.is = "line" /\ ParseLine(c).kind = "event"
       \/ /\ e.is = "publish" /\ ParseLine(c).kind = "body" /\ c.end = <<"CR", "LF">>
          /\ Carries(e.body, Before(e.nth) + 1, Before(e.nth) + c.total)
       \/ /\ e.is = "attempt" /\ c.verb = "HPUB"
          /\ \/ e.outcome = "ok" /\ ParseLine(c).kind = "body"
             \/ e.outcome = "args" /\ ParseLine(c).kind = "args"
             \/ /\ e.outcome = "frame" /\ ParseLine(c).kind = "body"
                /\ ~Cut(c) /\ c.end # <<"CR", "LF">>

\* The batch goes on where the operations carried out end, command by command.
Batch ==
    /\ IsSeq(events)
    /\ \A i \in 1..Len(events) : Faithful(events[i])
    /\ events # <<>> => events[1].nth = Len(done) + 1
    /\ \A i \in 1..(Len(events) - 1) :
          events[i + 1].nth = IF events[i].is = "attempt" THEN events[i].nth ELSE events[i].nth + 1
    /\ Complete \in 0..N /\ meant[Complete + 1].breaks = "none"

\* The operations carried out, and the options they leave.
Carried ==
    /\ IsSeq(done) /\ Len(done) <= N
    /\ \A i \in 1..Len(done) :
          /\ done[i].nth = i /\ meant[i + 1].ends = "none"
          /\ done[i].replies = Outcome(script[i], meant[i].opts).replies
          /\ IsPub(script[i]) => Carries(done[i].body, Before(i) + 1, Before(i) + script[i].total)

\* Between commands, and in the middle of a publish whose line is fine.  An HPUB
\* has been allowed, or is about to be asked for.
AtLine ==
    /\ pos = starts[Complete + 1]
    /\ first = NoPiece /\ rest = <<>> /\ got = 0
    /\ events # <<>> => LastEvent.is # "attempt"

InBody ==
    /\ frame = Complete + 1 /\ frame <= N
    /\ ParseLine(script[frame]).kind = "body" /\ script[frame].len <= MaxControlLine
    /\ got \in 0..script[frame].total
    /\ pos = Before(frame) + got
    /\ script[frame].verb = "HPUB" =>
          IF events = <<>> THEN opts.headers ELSE LastEvent.is = "attempt"
    /\ script[frame].verb = "PUB" /\ events # <<>> => LastEvent.is # "attempt"

\* Parts: an even number of pieces in rest, and the one after them in first.
Gathered ==
    /\ IsSeq(rest) /\ Len(rest) % 2 = 0
    /\ first # NoPiece => first.lo \in Nat /\ first.hi = pos
    /\ Covers(rest, Before(frame) + 1, IF first = NoPiece THEN pos ELSE first.lo - 1)

Parser ==
    /\ state \in {"line", "body"}
    /\ state = "line" => AtLine
    /\ state = "body" => InBody /\ Gathered

\* The parser has done all it can with the symbols that are there.
Exhausted ==
    /\ state = "line" => NoLine /\ Avail <= MaxControlLine * Slack
    /\ state = "body" =>
         IF got < script[frame].total THEN Avail = 0
         ELSE Avail = 0 \/ (Avail = 1 /\ Byte(1).is = "CR")

Reader ==
    /\ Carried /\ ErrorClass
    /\ fed \in 0..Len(input) /\ pos \in 0..fed
    /\ mode \in {"read", "parse", "handle", "closed"}
    /\ mode # "closed" =>
         /\ Batch
         /\ opts = meant[Len(done) + 1].opts /\ meant[Len(done) + 1].ends = "none"
         /\ Stopped => mode = "handle"
         /\ ~Stopped => Parser
         /\ mode # "parse" /\ ~Stopped => Exhausted
         /\ mode = "read" => events = <<>>

IInv == Client /\ Reader

-----------------------------------------------------------------------------
(* What the client sends                                                   *)

\* Words deserved stay deserved.
LEMMA AmountsStable ==
    ASSUME NEW m, NEW c
    PROVE  /\ m.ends # "none" => Amounts(m, c).ends = m.ends
           /\ m.breaks # "none" => Amounts(m, c).breaks = m.breaks
           /\ m.ends = "none" => Amounts(m, c).ends = Deserves(c, m.opts)
           /\ m.breaks = "none" => Amounts(m, c).breaks = Breaks(c)
           /\ m.ends = "none" /\ Deserves(c, m.opts) = "none" =>
                 Amounts(m, c).opts = Outcome(c, m.opts).opts
BY Zenon DEF Amounts

\* Nothing sent is laid out, and amounts to nothing.
LEMMA ClientInit == Init => Client
<1> SUFFICES ASSUME Init PROVE Client BY Zenon
<1>1. IsSeq(script) /\ Len(script) = 0 /\ IsSeq(input) /\ Len(input) = 0
  BY SeqEmpty, Zenon DEF Init
<1>2. PICK m : m = [opts |-> opts, ends |-> "none", breaks |-> "none"] BY Zenon
<1>3. starts = <<0>> /\ meant = <<m>> BY <1>2, Zenon DEF Init
<1>4. starts \in Seq({0}) /\ meant \in Seq({m}) BY <1>3
<1>5. IsSeq(starts) /\ Len(starts) = 1 /\ starts[1] = 0 BY <1>3, <1>4, SeqOf, Zenon
<1>6. IsSeq(meant) /\ Len(meant) = 1 BY <1>3, <1>4, SeqOf, Zenon
<1>7. Laid BY <1>1, <1>5 DEF Laid, N
<1>8. History BY <1>1, <1>6 DEF History, N
<1>9. QED BY <1>7, <1>8, Zenon DEF Client

\* One more command, behind the others.
LEMMA SendFacts ==
    ASSUME Client, NEW c \in Commands, Send(c)
    PROVE  /\ N \in Nat /\ N' = N + 1
           /\ IsSeq(script') /\ script'[N + 1] = c
           /\ \A n \in 1..N : script'[n] = script[n]
           /\ Len(input) \in Nat /\ Size(c) \in Nat
           /\ IsSeq(input') /\ Len(input') = Len(input) + Size(c)
           /\ \A p \in 1..Len(input) : input'[p] = input[p]
           /\ \A j \in 1..Size(c) : input'[Len(input) + j] = [is |-> Kind(c, j), nth |-> N + 1]
           /\ IsSeq(starts') /\ Len(starts') = N + 2 /\ starts'[N + 2] = Len(input')
           /\ \A n \in 1..(N + 1) : starts'[n] = starts[n]
           /\ IsSeq(meant') /\ Len(meant') = N + 2
           /\ \A n \in 1..(N + 1) : meant'[n] = meant[n]
           /\ meant'[N + 2] = Amounts(meant[N + 1], c)
           /\ N > 0 => ~Cut(script[N])
<1>1. /\ IsSeq(script) /\ IsSeq(input) /\ IsSeq(starts) /\ Len(starts) = N + 1
      /\ IsSeq(meant) /\ Len(meant) = N + 1
  BY Zenon DEF Client, Laid, History
<1>2. N \in Nat /\ Len(input) \in Nat BY <1>1, SeqBasics, Zenon DEF N
<1>3. Size(c) \in Nat BY LineSymbols, Zenon
<1>4. script' = Append(script, c) BY Zenon DEF Send
<1>5. /\ IsSeq(script') /\ Len(script') = N + 1 /\ script'[N + 1] = c
      /\ \A n \in 1..N : script'[n] = script[n]
  <2>1. IsAppend(script', script, c) BY <1>1, <1>4, SeqAppend, Zenon
  <2> QED BY <2>1, Zenon DEF IsAppend, N
<1>6. PICK u : u = Symbols(c, N + 1) BY Zenon
<1>7. IsSeq(u) /\ Len(u) = Size(c) /\ \A j \in 1..Size(c) : u[j] = [is |-> Kind(c, j), nth |-> N + 1]
  <2>1. u = [j \in 1..Size(c) |-> [is |-> Kind(c, j), nth |-> N + 1]] BY <1>6, Zenon DEF Symbols
  <2>2. \A j \in 1..Size(c) : u[j] = [is |-> Kind(c, j), nth |-> N + 1] BY <2>1, Zenon
  <2>3. u = [j \in 1..Size(c) |-> u[j]] BY <2>1, Zenon
  <2> QED BY <1>3, <2>2, <2>3, SeqFunction, Zenon
<1>8. input' = input \o u BY <1>6, Zenon DEF Send, N
<1>9. IsJoin(input', input, u) BY <1>1, <1>7, <1>8, SeqJoin, Zenon
<1>10. /\ IsSeq(input') /\ Len(input') = Len(input) + Size(c)
       /\ \A p \in 1..Len(input) : input'[p] = input[p]
       /\ \A j \in 1..Size(c) : input'[Len(input) + j] = u[j]
  BY <1>7, <1>9, Zenon DEF IsJoin
<1>11. starts' = Append(starts, Len(input')) BY <1>10, Zenon DEF Send
<1>12. /\ IsSeq(starts') /\ Len(starts') = (N + 1) + 1 /\ starts'[(N + 1) + 1] = Len(input')
       /\ \A n \in 1..(N + 1) : starts'[n] = starts[n]
  <2>1. IsAppend(starts', starts, Len(input')) BY <1>1, <1>11, SeqAppend, Zenon
  <2> QED BY <1>1, <2>1, Zenon DEF IsAppend
<1>13. meant' = Append(meant, Amounts(meant[N + 1], c)) BY <1>1, Zenon DEF Send, Expected
<1>14. /\ IsSeq(meant') /\ Len(meant') = (N + 1) + 1
       /\ meant'[(N + 1) + 1] = Amounts(meant[N + 1], c)
       /\ \A n \in 1..(N + 1) : meant'[n] = meant[n]
  <2>1. IsAppend(meant', meant, Amounts(meant[N + 1], c)) BY <1>1, <1>13, SeqAppend, Zenon
  <2> QED BY <1>1, <2>1, Zenon DEF IsAppend
<1>15. (N + 1) + 1 = N + 2 BY <1>2
<1>16. N > 0 => ~Cut(script[N]) BY <1>1, <1>2, SeqBasics DEF Send, N
<1>17. QED BY <1>2, <1>3, <1>5, <1>7, <1>10, <1>12, <1>14, <1>15, <1>16, Zenon DEF N

\* One more command is laid out behind the others and adds to what they amount to.
LEMMA ClientSend ==
    ASSUME Client, NEW c \in Commands, Send(c)
    PROVE  Client'
<1>1. PICK k \in Nat, m \in Nat : k = N /\ m = Len(input) BY SendFacts, Zenon
<1>2. PICK m1 \in Nat : m1 = m + Size(c) BY LineSymbols
<1>3. /\ N' = k + 1 /\ IsSeq(script') /\ script'[k + 1] = c
      /\ \A n \in 1..k : script'[n] = script[n]
      /\ IsSeq(input') /\ Len(input') = m1
      /\ \A p \in 1..m : input'[p] = input[p]
      /\ \A j \in 1..Size(c) : input'[m + j] = [is |-> Kind(c, j), nth |-> k + 1]
      /\ IsSeq(starts') /\ Len(starts') = k + 2 /\ starts'[k + 2] = m1
      /\ \A n \in 1..(k + 1) : starts'[n] = starts[n]
      /\ IsSeq(meant') /\ Len(meant') = k + 2
      /\ \A n \in 1..(k + 1) : meant'[n] = meant[n]
      /\ meant'[k + 2] = Amounts(meant[k + 1], c)
      /\ k > 0 => ~Cut(script[k])
  BY <1>1, <1>2, SendFacts, Zenon
<1>4. /\ \A n \in 1..k : script[n] \in Commands
      /\ starts[1] = 0 /\ starts[k + 1] = m
      /\ \A n \in 1..(k + 1) : starts[n] \in 0..m
      /\ \A n \in 1..k : starts[n + 1] = starts[n] + Size(script[n])
      /\ \A n \in 1..k : \A j \in 1..Size(script[n]) :
            input[starts[n] + j] = [is |-> Kind(script[n], j), nth |-> n]
      /\ \A n \in 1..(k - 1) : ~Cut(script[n])
  BY <1>1, Zenon DEF Client, Laid
<1>5. /\ \A n \in 1..k : meant[n + 1] = Amounts(meant[n], script[n])
      /\ \A n \in 1..(k + 1) :
            /\ meant[n].ends # "none" => meant[k + 1].ends = meant[n].ends
            /\ meant[n].breaks # "none" => meant[k + 1].breaks = meant[n].breaks
  BY <1>1, Zenon DEF Client, History
<1>6. Size(c) \in Nat BY LineSymbols, Zenon
<1>7. \A n \in 1..(k + 1) : script'[n] \in Commands
  <2> TAKE n \in 1..(k + 1)
  <2>1. CASE n = k + 1 BY <2>1, <1>3, Zenon
  <2>2. CASE n # k + 1 BY <2>2, <1>3, <1>4
  <2> QED BY <2>1, <2>2, Zenon
<1>8. starts'[1] = 0 /\ \A n \in 1..(k + 2) : starts'[n] \in 0..m1
  <2>1. ASSUME NEW n \in 1..(k + 2) PROVE starts'[n] \in 0..m1
    <3>1. CASE n = k + 2 BY <3>1, <1>3
    <3>2. CASE n # k + 2 BY <3>2, <1>2, <1>3, <1>4, <1>6
    <3> QED BY <3>1, <3>2, Zenon
  <2> QED BY <2>1, <1>3, <1>4
<1>9. \A n \in 1..(k + 1) : starts'[n + 1] = starts'[n] + Size(script'[n])
  <2> TAKE n \in 1..(k + 1)
  <2>1. CASE n = k + 1 BY <2>1, <1>2, <1>3, <1>4
  <2>2. CASE n # k + 1 BY <2>2, <1>3, <1>4
  <2> QED BY <2>1, <2>2, Zenon
<1>10. ASSUME NEW n \in 1..(k + 1), NEW j \in 1..Size(script'[n])
       PROVE  input'[starts'[n] + j] = [is |-> Kind(script'[n], j), nth |-> n]
  <2>1. CASE n = k + 1 BY <2>1, <1>3, <1>4, Zenon
  <2>2. CASE n # k + 1
    <3>1. n \in 1..k /\ script'[n] = script[n] /\ starts'[n] = starts[n] BY <2>2, <1>3
    <3>2. Size(script[n]) \in Nat BY <3>1, <1>4, LineSymbols, Zenon
    <3>3. starts[n] \in Nat /\ starts[n] + Size(script[n]) <= m BY <3>1, <1>4
    <3>4. starts[n] + j \in 1..m BY <3>1, <3>2, <3>3
    <3>5. input'[starts[n] + j] = input[starts[n] + j] BY <3>4, <1>3, Zenon
    <3>6. input[starts[n] + j] = [is |-> Kind(script[n], j), nth |-> n] BY <3>1, <1>4, Zenon
    <3> QED BY <3>1, <3>5, <3>6, Zenon
  <2> QED BY <2>1, <2>2, Zenon
<1>11. \A n \in 1..k : ~Cut(script'[n])
  <2> TAKE n \in 1..k
  <2>1. script'[n] = script[n] BY <1>3, Zenon
  <2>2. CASE n = k BY <2>1, <2>2, <1>3
  <2>3. CASE n # k BY <2>1, <2>3, <1>4
  <2> QED BY <2>2, <2>3, Zenon
<1>12. Laid'
  <2>1. (k + 1) + 1 = k + 2 /\ (k + 1) - 1 = k OBVIOUS
  <2> QED BY <1>3, <1>7, <1>8, <1>9, <1>10, <1>11, <2>1, Zenon DEF Laid
<1>13. \A n \in 1..(k + 1) : meant'[n + 1] = Amounts(meant'[n], script'[n])
  <2> TAKE n \in 1..(k + 1)
  <2>1. CASE n = k + 1 BY <2>1, <1>3
  <2>2. CASE n # k + 1 BY <2>2, <1>3, <1>5
  <2> QED BY <2>1, <2>2, Zenon
<1>14. ASSUME NEW n \in 1..(k + 2)
       PROVE  /\ meant'[n].ends # "none" => meant'[k + 2].ends = meant'[n].ends
              /\ meant'[n].breaks # "none" => meant'[k + 2].breaks = meant'[n].breaks
  <2>1. CASE n = k + 2 BY <2>1, Zenon
  <2>2. CASE n # k + 2
    <3>1. n \in 1..(k + 1) /\ meant'[n] = meant[n] BY <2>2, <1>3
    <3>2. /\ meant[k + 1].ends # "none" => meant'[k + 2].ends = meant[k + 1].ends
          /\ meant[k + 1].breaks # "none" => meant'[k + 2].breaks = meant[k + 1].breaks
      BY <1>3, AmountsStable
    <3> QED BY <3>1, <3>2, <1>5, Zenon
  <2> QED BY <2>1, <2>2, Zenon
<1>15. History'
  <2>1. (k + 1) + 1 = k + 2 OBVIOUS
  <2> QED BY <1>3, <1>13, <1>14, <2>1, Zenon DEF History
<1>16. QED BY <1>12, <1>15, Zenon DEF Client

\* Only Send touches what was sent.
LEMMA ClientStep ==
    ASSUME Client, [Next]_vars
    PROVE  Client'
<1>1. CASE \E c \in Commands : Send(c) BY <1>1, ClientSend, Zenon
<1>2. CASE ~\E c \in Commands : Send(c)
  <2>1. UNCHANGED clientVars
    BY <1>2, Zenon DEF Next, vars, Read, TakeLine, BareLF, AwaitLine, TakePiece, EndBody, Handle, Handled
  <2> QED BY <2>1, Zenon DEF Client, Laid, History, N, clientVars
<1>3. QED BY <1>1, <1>2, Zenon

-----------------------------------------------------------------------------
(* The reader: what the steps have in common                               *)

\* A command in its place, and what comes of it.
LEMMA CommandAt ==
    ASSUME Client, NEW n \in 1..N
    PROVE  /\ N \in Nat /\ Len(input) \in Nat
           /\ script[n] \in Commands /\ starts[n] \in Nat
           /\ starts[n + 1] = starts[n] + Size(script[n])
           /\ starts[n] + Size(script[n]) <= Len(input)
           /\ \A j \in 1..Size(script[n]) :
                 input[starts[n] + j].is = Kind(script[n], j) /\ input[starts[n] + j].nth = n
           /\ Cut(script[n]) => starts[n] + Size(script[n]) = Len(input)
           /\ meant[n + 1] = Amounts(meant[n], script[n])
<1>1. N \in Nat /\ Len(input) \in Nat BY SeqBasics, Zenon DEF Client, Laid, N
<1>2. PICK k \in Nat, m \in Nat : k = N /\ m = Len(input) BY <1>1, Zenon
<1>3. /\ \A i \in 1..k : script[i] \in Commands
      /\ \A i \in 1..(k + 1) : starts[i] \in 0..m
      /\ \A i \in 1..k : starts[i + 1] = starts[i] + Size(script[i])
      /\ starts[k + 1] = m
      /\ \A i \in 1..(k - 1) : ~Cut(script[i])
      /\ \A i \in 1..k : meant[i + 1] = Amounts(meant[i], script[i])
  BY <1>2, Zenon DEF Client, Laid, History
<1>4. \A j \in 1..Size(script[n]) : input[starts[n] + j] = [is |-> Kind(script[n], j), nth |-> n]
  BY Zenon DEF Client, Laid
<1>5. n \in 1..k /\ n + 1 \in 1..(k + 1) BY <1>2
<1>6. Cut(script[n]) => starts[n] + Size(script[n]) = m
  <2>1. CASE n = k BY <2>1, <1>3
  <2>2. CASE n # k BY <2>2, <1>3, <1>5
  <2> QED BY <2>1, <2>2, Zenon
<1>7. starts[n + 1] \in 0..m /\ starts[n] \in 0..m BY <1>3, <1>5
<1>8. \A j \in 1..Size(script[n]) :
         input[starts[n] + j].is = Kind(script[n], j) /\ input[starts[n] + j].nth = n
  <2> TAKE j \in 1..Size(script[n])
  <2>1. PICK s : s = input[starts[n] + j] BY Zenon
  <2>2. s = [is |-> Kind(script[n], j), nth |-> n] BY <2>1, <1>4, Zenon
  <2>3. s.is = Kind(script[n], j) /\ s.nth = n BY <2>2, Zenon
  <2> QED BY <2>1, <2>3, Zenon
<1>9. QED BY <1>1, <1>2, <1>3, <1>5, <1>6, <1>7, <1>8

\* The words for the first command that the parser cannot read are expected.
LEMMA BreaksExpected ==
    ASSUME Client, NEW n \in 1..N, meant[n].breaks = "none", Breaks(script[n]) # "none"
    PROVE  Expected.breaks = Breaks(script[n])
<1>1. PICK k \in Nat : k = N BY CommandAt, Zenon
<1>2. meant[n + 1].breaks = Breaks(script[n]) BY CommandAt, AmountsStable
<1>3. n + 1 \in 1..(k + 1) BY <1>1
<1>4. meant[n + 1].breaks # "none" => meant[k + 1].breaks = meant[n + 1].breaks
  BY <1>1, <1>3, Zenon DEF Client, History
<1>5. Expected = meant[k + 1] BY <1>1, Zenon DEF Expected, Client, History
<1>6. QED BY <1>2, <1>4, <1>5, Zenon

\* So are the words that the first command to deserve any deserves.
LEMMA EndsExpected ==
    ASSUME Client, NEW n \in 1..N, meant[n].ends = "none", Deserves(script[n], meant[n].opts) # "none"
    PROVE  Expected.ends = Deserves(script[n], meant[n].opts)
<1>1. PICK k \in Nat : k = N BY CommandAt, Zenon
<1>2. meant[n + 1].ends = Deserves(script[n], meant[n].opts) BY CommandAt, AmountsStable
<1>3. n + 1 \in 1..(k + 1) BY <1>1
<1>4. meant[n + 1].ends # "none" => meant[k + 1].ends = meant[n + 1].ends
  BY <1>1, <1>3, Zenon DEF Client, History
<1>5. Expected = meant[k + 1] BY <1>1, Zenon DEF Expected, Client, History
<1>6. QED BY <1>2, <1>4, <1>5, Zenon

\* A step that closes the connection.
LEMMA Closes ==
    ASSUME Reader, UNCHANGED <<clientVars, fed, done>>, pos' \in 0..fed, mode' = "closed",
           last' # "none", last' \in {Expected.ends, Expected.breaks}
    PROVE  Reader'
<1>1. Carried' BY Zenon DEF Reader, Carried, clientVars, N, Before
<1>2. Expected' = Expected BY Zenon DEF Expected, clientVars
<1>3. ErrorClass' BY <1>2, Zenon DEF ErrorClass
<1>4. QED BY <1>1, <1>3, Zenon DEF Reader, clientVars

\* A step that leaves the batch alone.
LEMMA SameBatch ==
    ASSUME UNCHANGED <<clientVars, events, done>>
    PROVE  /\ Complete' = Complete /\ Stopped' = Stopped /\ LastEvent' = LastEvent
           /\ Carried' = Carried /\ Batch' = Batch /\ N' = N
           /\ \A n : Before(n)' = Before(n)
<1>1. Complete' = Complete /\ Stopped' = Stopped /\ LastEvent' = LastEvent
  BY Zenon DEF Complete, Stopped, LastEvent
<1>2. N' = N /\ \A n : Before(n)' = Before(n) BY Zenon DEF N, Before, clientVars
<1>3. Carried' = Carried BY <1>2, Zenon DEF Carried, clientVars
<1>4. \A e : Faithful(e)' = Faithful(e) BY <1>2 DEF Faithful, clientVars
<1>5. Batch' = Batch BY <1>1, <1>2, <1>4, Zenon DEF Batch, clientVars
<1>6. QED BY <1>1, <1>2, <1>3, <1>5, Zenon

\* A new connection: nothing read, nothing carried out.
LEMMA ReaderInit == Init => Reader
<1> SUFFICES ASSUME Init PROVE Reader BY Zenon
<1>1. /\ script = <<>> /\ input = <<>> /\ starts = <<0>> /\ done = <<>> /\ events = <<>>
      /\ fed = 0 /\ pos = 0 /\ mode = "read" /\ state = "line"
      /\ first = NoPiece /\ rest = <<>> /\ got = 0
      /\ meant = <<[opts |-> opts, ends |-> "none", breaks |-> "none"]>>
  BY Zenon DEF Init
<1>2. N = 0 /\ Len(done) = 0 /\ Len(events) = 0 /\ Len(input) = 0 BY <1>1, Zenon DEF N
<1>3. IsSeq(done) /\ IsSeq(events) BY <1>1, SeqEmpty, Zenon
<1>4. meant[1].opts = opts /\ meant[1].ends = "none" /\ meant[1].breaks = "none" /\ starts[1] = 0
  BY <1>1, Zenon
<1>5. Complete = 0 /\ ~Stopped BY <1>1, <1>2, Zenon DEF Complete, Stopped
<1>6. Carried BY <1>2, <1>3 DEF Carried
<1>7. Batch BY <1>1, <1>2, <1>3, <1>4, <1>5 DEF Batch
<1>8. Parser BY <1>1, <1>4, <1>5 DEF Parser, AtLine
<1>9. Exhausted
  <2>1. Avail = 0 BY <1>1 DEF Avail
  <2>2. MaxControlLine * Slack >= 0 BY SessionAssumption
  <2> QED BY <1>1, <2>1, <2>2 DEF Exhausted, NoLine
<1>10. ErrorClass BY <1>1, Zenon DEF ErrorClass
<1>11. QED BY <1>1, <1>2, <1>4, <1>5, <1>6, <1>7, <1>8, <1>9, <1>10 DEF Reader

-----------------------------------------------------------------------------
(* The reader, step by step                                                *)

\* What is sent later changes nothing the reader has, or has yet to decide.
LEMMA SendReader ==
    ASSUME Client, Reader, NEW c \in Commands, Send(c)
    PROVE  Reader'
<1>1. /\ mode = "read"
      /\ UNCHANGED <<fed, pos, state, frame, first, rest, got, events, mode, opts, done, last>>
  BY Zenon DEF Send, parserVars
<1>2. /\ Carried /\ Batch /\ events = <<>> /\ fed \in 0..Len(input) /\ pos \in 0..fed
      /\ opts = meant[Len(done) + 1].opts /\ meant[Len(done) + 1].ends = "none"
  BY <1>1, Zenon DEF Reader
<1>3. Complete = Len(done) /\ ~Stopped BY <1>2, Zenon DEF Complete, Stopped
<1>4. Complete' = Complete /\ ~Stopped' /\ LastEvent' = LastEvent
  BY <1>1, <1>2, <1>3, Zenon DEF Complete, Stopped, LastEvent
<1>5. PICK d \in Nat, k \in Nat, m \in Nat : d = Len(done) /\ k = N /\ m = Len(input) /\ d <= k
  BY <1>2, SendFacts, SeqBasics, Zenon DEF Carried
<1>6. /\ N' = k + 1 /\ \A n \in 1..k : script'[n] = script[n]
      /\ \A n \in 1..(k + 1) : starts'[n] = starts[n] /\ meant'[n] = meant[n]
      /\ Len(input') \in Nat /\ Len(input') >= m
      /\ \A p \in 1..m : input'[p] = input[p]
  BY <1>5, SendFacts
<1>7. \A n \in 1..k : Before(n)' = Before(n) BY <1>6 DEF Before
<1>8. Carried'
  <2>1. IsSeq(done) /\ IsSeq(done') /\ Len(done') = d BY <1>1, <1>2, <1>5, Zenon DEF Carried
  <2>2. ASSUME NEW i \in 1..d
        PROVE  /\ done'[i].nth = i /\ meant'[i + 1].ends = "none"
               /\ done'[i].replies = Outcome(script'[i], meant'[i].opts).replies
               /\ IsPub(script'[i]) =>
                     Carries(done'[i].body, Before(i)' + 1, Before(i)' + script'[i].total)
    <3>1. i \in 1..k /\ i \in 1..(k + 1) /\ i + 1 \in 1..(k + 1) BY <1>5
    <3>2. script'[i] = script[i] /\ meant'[i] = meant[i] /\ meant'[i + 1] = meant[i + 1]
          /\ Before(i)' = Before(i) /\ done' = done
      BY <1>1, <1>6, <1>7, <3>1, Zenon
    <3>3. /\ done[i].nth = i /\ meant[i + 1].ends = "none"
          /\ done[i].replies = Outcome(script[i], meant[i].opts).replies
          /\ IsPub(script[i]) => Carries(done[i].body, Before(i) + 1, Before(i) + script[i].total)
      BY <1>2, <1>5, Zenon DEF Carried
    <3> QED BY <3>2, <3>3, Zenon
  <2>3. d <= k + 1 BY <1>5
  <2> QED BY <1>6, <2>1, <2>2, <2>3, Zenon DEF Carried
<1>9. meant'[d + 1] = meant[d + 1] /\ starts'[d + 1] = starts[d + 1] BY <1>5, <1>6
<1>10. Batch'
  <2>1. Len(events') = 0 /\ events' = <<>> /\ IsSeq(events') BY <1>1, <1>2, SeqEmpty, Zenon
  <2>2. Complete' = d /\ d \in 0..(k + 1) BY <1>3, <1>4, <1>5
  <2>3. meant[d + 1].breaks = "none" BY <1>2, <1>3, <1>5, Zenon DEF Batch
  <2> QED BY <1>6, <1>9, <2>1, <2>2, <2>3 DEF Batch
<1>11. opts' = meant'[Len(done') + 1].opts /\ meant'[Len(done') + 1].ends = "none"
  BY <1>1, <1>2, <1>5, <1>9, Zenon
<1>12. Parser /\ Exhausted BY <1>1, <1>3, Zenon DEF Reader
<1>13. state = "body" => frame \in 1..k /\ script'[frame] = script[frame] /\ Before(frame)' = Before(frame)
  <2> SUFFICES ASSUME state = "body"
               PROVE  frame \in 1..k /\ script'[frame] = script[frame] /\ Before(frame)' = Before(frame)
    BY Zenon
  <2>1. frame \in 1..k BY <1>3, <1>5, <1>12 DEF Parser, InBody
  <2>2. script'[frame] = script[frame] /\ starts'[frame] = starts[frame] BY <1>6, <2>1
  <2> QED BY <1>1, <2>1, <2>2, Zenon DEF Before
<1>14. Parser'
  <2>1. state = "line" => AtLine' BY <1>1, <1>2, <1>3, <1>4, <1>5, <1>9, <1>12, Zenon DEF Parser, AtLine
  <2>2. state = "body" => InBody'
    <3>1. SUFFICES ASSUME state = "body" PROVE InBody' BY Zenon
    <3>2. InBody /\ frame <= k + 1 BY <1>12, <1>13, <3>1 DEF Parser
    <3> QED BY <1>1, <1>2, <1>4, <1>6, <1>13, <3>1, <3>2, Zenon DEF InBody
  <2>3. state = "body" => Gathered' BY <1>1, <1>12, <1>13, Zenon DEF Parser, Gathered
  <2> QED BY <1>1, <1>12, <2>1, <2>2, <2>3, Zenon DEF Parser
<1>15. Exhausted'
  <2>1. Avail' = Avail BY <1>1, Zenon DEF Avail
  <2>2. \A j \in 1..Avail : Byte(j)' = Byte(j)
    <3> TAKE j \in 1..Avail
    <3>1. pos + j \in 1..m BY <1>2, <1>5 DEF Avail
    <3> QED BY <1>1, <1>6, <3>1, Zenon DEF Byte
  <2>3. Avail \in Nat BY <1>2, <1>5 DEF Avail
  <2>4. state = "line" => NoLine'
    <3>1. SUFFICES ASSUME NoLine PROVE NoLine' BY <1>12, Zenon DEF Exhausted
    <3> QED BY <2>1, <2>2, <2>3, <3>1 DEF NoLine
  <2>5. Avail = 1 => Byte(1)' = Byte(1) BY <2>2
  <2> QED BY <1>1, <1>12, <1>13, <2>1, <2>4, <2>5, Zenon DEF Exhausted
<1>16. ErrorClass' BY <1>1, Zenon DEF ErrorClass
<1>17. fed' \in 0..Len(input') /\ pos' \in 0..fed' BY <1>1, <1>2, <1>5, <1>6
<1>18. QED BY <1>1, <1>2, <1>4, <1>8, <1>10, <1>11, <1>14, <1>15, <1>16, <1>17, Zenon DEF Reader

\* A read starts an empty batch where the last one ended.
LEMMA ReadReader ==
    ASSUME Client, Reader, NEW k, Read(k)
    PROVE  Reader'
<1>1. /\ mode = "read" /\ mode' = "parse" /\ k \in 1..(Len(input) - fed) /\ fed' = fed + k
      /\ UNCHANGED <<clientVars, pos, state, frame, first, rest, got, opts, done, last>>
      /\ events' = <<>>
  BY Zenon DEF Read, parserVars
<1>2. events = <<>> BY <1>1, Zenon DEF Reader
<1>3. UNCHANGED <<clientVars, events, done>> BY <1>1, <1>2, Zenon
<1>4. /\ Complete' = Complete /\ Stopped' = Stopped /\ LastEvent' = LastEvent
      /\ Carried' = Carried /\ Batch' = Batch /\ N' = N
      /\ \A n : Before(n)' = Before(n)
  BY <1>3, SameBatch, Zenon
<1>5. ~Stopped BY <1>2, Zenon DEF Stopped
<1>6. Parser' = Parser
  BY <1>1, <1>3, <1>4, Zenon DEF Parser, AtLine, InBody, Gathered, clientVars
<1>7. Len(input) \in Nat BY SeqBasics, Zenon DEF Client, Laid
<1>8. fed' \in 0..Len(input) /\ pos \in 0..fed' BY <1>1, <1>7 DEF Reader
<1>9. ErrorClass' BY <1>1, Zenon DEF ErrorClass
<1>10. QED BY <1>1, <1>3, <1>4, <1>5, <1>6, <1>8, <1>9, Zenon DEF Reader, clientVars

\* After the batch, the parser still waits where it stopped.
LEMMA HandledReader ==
    ASSUME Client, Reader, Handled
    PROVE  Reader'
<1>1. /\ mode = "handle" /\ mode' = "read" /\ events = <<>>
      /\ UNCHANGED <<clientVars, fed, pos, state, frame, first, rest, got, events, opts, done, last>>
  BY Zenon DEF Handled, parserVars
<1>2. /\ Complete' = Complete /\ Stopped' = Stopped /\ LastEvent' = LastEvent
      /\ Carried' = Carried /\ Batch' = Batch /\ N' = N
      /\ \A n : Before(n)' = Before(n)
  BY <1>1, SameBatch, Zenon
<1>3. ~Stopped BY <1>1, Zenon DEF Stopped
<1>4. Parser' = Parser
  BY <1>1, <1>2, Zenon DEF Parser, AtLine, InBody, Gathered, clientVars
<1>5. Exhausted' = Exhausted
  BY <1>1, Zenon DEF Exhausted, NoLine, Avail, Byte, clientVars
<1>6. ErrorClass' BY <1>1, Zenon DEF ErrorClass
<1>7. QED BY <1>1, <1>2, <1>3, <1>4, <1>5, <1>6, Zenon DEF Reader, clientVars

\* Where a line should start, the command after the ones the parser is through with
\* is what is there.
LEMMA LineAhead ==
    ASSUME Client, Reader, mode = "parse", state = "line"
    PROVE  /\ ~Stopped /\ Batch /\ AtLine /\ Avail \in Nat
           /\ Complete \in Nat /\ meant[Complete + 1].breaks = "none"
           /\ Avail > 0 =>
                 /\ Complete + 1 \in 1..N /\ script[Complete + 1] \in Commands
                 /\ \A j \in 1..Size(script[Complete + 1]) :
                       /\ Byte(j).is = Kind(script[Complete + 1], j)
                       /\ Byte(j).nth = Complete + 1
<1>1. ~Stopped /\ Batch /\ Parser BY Zenon DEF Reader
<1>2. AtLine BY <1>1, Zenon DEF Parser
<1>3. PICK k \in Nat, m \in Nat : k = N /\ m = Len(input) BY SeqBasics, Zenon DEF Client, Laid, N
<1>4. PICK n \in 0..k : n = Complete BY <1>1, <1>3, Zenon DEF Batch
<1>5. fed \in 0..m /\ pos \in 0..fed /\ pos = starts[n + 1] BY <1>2, <1>3, <1>4, Zenon DEF Reader, AtLine
<1>6. Avail \in Nat BY <1>5 DEF Avail
<1>7. meant[n + 1].breaks = "none" BY <1>1, <1>4, Zenon DEF Batch
<1>8. ASSUME Avail > 0
      PROVE  /\ n + 1 \in 1..k /\ script[n + 1] \in Commands
             /\ \A j \in 1..Size(script[n + 1]) :
                   Byte(j).is = Kind(script[n + 1], j) /\ Byte(j).nth = n + 1
  <2>1. starts[k + 1] = m BY <1>3, Zenon DEF Client, Laid
  <2>2. n # k BY <1>5, <1>8, <2>1 DEF Avail
  <2>3. n + 1 \in 1..k /\ n + 1 \in 1..N BY <1>3, <2>2
  <2>4. /\ script[n + 1] \in Commands
        /\ \A j \in 1..Size(script[n + 1]) :
              /\ input[starts[n + 1] + j].is = Kind(script[n + 1], j)
              /\ input[starts[n + 1] + j].nth = n + 1
    BY <2>3, CommandAt, Zenon
  <2> QED BY <1>5, <2>3, <2>4, Zenon DEF Byte
<1>9. QED BY <1>1, <1>2, <1>3, <1>4, <1>6, <1>7, <1>8

\* A bare LF closes the connection with the words it deserves.
LEMMA BareLFReader ==
    ASSUME Client, Reader, BareLF
    PROVE  Reader'
<1>1. /\ mode = "parse" /\ state = "line" /\ Avail > 0 /\ Byte(1).is = "LF"
      /\ last' = "unknown" /\ mode' = "closed"
      /\ UNCHANGED <<clientVars, fed, pos, done>>
  BY Zenon DEF BareLF, Fails, parserVars
<1>2. PICK n : n = Complete + 1 BY Zenon
<1>3. /\ n \in 1..N /\ script[n] \in Commands /\ meant[n].breaks = "none"
      /\ \A j \in 1..Size(script[n]) : Byte(j).is = Kind(script[n], j)
  BY <1>1, <1>2, LineAhead, Zenon
<1>4. Size(script[n]) \in Nat /\ Size(script[n]) >= 1 BY <1>3, LineSymbols, Zenon
<1>5. Kind(script[n], 1) = "LF" BY <1>1, <1>3, <1>4
<1>6. script[n].verb = "LF" BY <1>3, <1>5, LineSymbols, Zenon
<1>7. Breaks(script[n]) = "unknown" BY <1>6, Zenon DEF Breaks
<1>8. Expected.breaks = "unknown" BY <1>3, <1>7, BreaksExpected, Zenon
<1>9. pos' \in 0..fed BY <1>1, Zenon DEF Reader
<1>10. QED BY <1>1, <1>8, <1>9, Closes, Zenon

\* A line without its end is not longer than the command it is of.
LEMMA LongLine ==
    ASSUME Client, Reader, mode = "parse", state = "line", NoLine, Avail > MaxControlLine
    PROVE  Expected.breaks = "control line"
<1>1. Avail \in Nat /\ MaxControlLine \in Nat BY LineAhead, SessionAssumption, Zenon
<1>2. Avail > 0 BY <1>1
<1>3. PICK n : n = Complete + 1 BY Zenon
<1>4. /\ n \in 1..N /\ script[n] \in Commands /\ meant[n].breaks = "none"
      /\ \A j \in 1..Size(script[n]) : Byte(j).is = Kind(script[n], j)
  BY <1>2, <1>3, LineAhead, Zenon
<1>5. PICK c \in Commands : c = script[n] BY <1>4, Zenon
<1>6. c.len \in Nat /\ Size(c) \in Nat /\ Size(c) >= 1 BY CommandShape, LineSymbols, Zenon
<1>7. c.verb # "LF"
  <2>1. Byte(1).is = Kind(c, 1) BY <1>4, <1>5, <1>6
  <2>2. Byte(1).is # "LF" BY <1>2, Zenon DEF NoLine
  <2> QED BY <2>1, <2>2, LineSymbols, Zenon
<1>8. Avail <= c.len
  <2>1. SUFFICES ASSUME c.len + 1 <= Avail PROVE FALSE BY <1>1, <1>6
  <2>2. c.len + 1 \in 1..Avail /\ c.len + 1 \in 1..Size(c) BY <1>1, <1>6, <1>7, <2>1, LineSymbols
  <2>3. Byte(c.len + 1).is = "line" BY <1>4, <1>5, <1>7, <2>2, LineSymbols, Zenon
  <2> QED BY <2>2, <2>3, Zenon DEF NoLine
<1>9. c.len > MaxControlLine BY <1>1, <1>6, <1>8
<1>10. Breaks(c) = "control line" BY <1>7, <1>9, Zenon DEF Breaks
<1>11. QED BY <1>4, <1>5, <1>10, BreaksExpected, Zenon

\* A line within the control line limit is within the limit of a line without its end.
LEMMA Limit == MaxControlLine * Slack \in Nat /\ MaxControlLine * Slack >= MaxControlLine
<1>1. MaxControlLine \in Nat /\ Slack \in Nat /\ Slack >= 1 BY SessionAssumption
<1>2. \A x \in Nat, y \in Nat : y >= 1 => x * y \in Nat /\ x * y >= x
  <2> TAKE x \in Nat, y \in Nat
  <2> HAVE y >= 1
  <2>1. x * y = x + x * (y - 1) OBVIOUS
  <2>2. x * (y - 1) \in Nat OBVIOUS
  <2> QED BY <2>1, <2>2
<1>3. QED BY <1>1, <1>2, Zenon

\* No line end: the parser waits, or the line is too long.
LEMMA AwaitLineReader ==
    ASSUME Client, Reader, AwaitLine
    PROVE  Reader'
<1>1. /\ mode = "parse" /\ state = "line" /\ NoLine
      /\ UNCHANGED <<clientVars, fed, pos, state, frame, first, rest, got, opts, done>>
  BY Zenon DEF AwaitLine, parserVars
<1>2. Avail \in Nat /\ MaxControlLine \in Nat BY <1>1, LineAhead, SessionAssumption, Zenon
<1>3. CASE Avail > MaxControlLine * Slack
  <2>1. last' = "control line" /\ mode' = "closed" BY <1>3, Zenon DEF AwaitLine, Fails
  <2>2. Avail > MaxControlLine BY <1>2, <1>3, Limit
  <2>3. Expected.breaks = "control line" BY <1>1, <2>2, LongLine, Zenon
  <2>4. pos' \in 0..fed BY <1>1, Zenon DEF Reader
  <2> QED BY <1>1, <2>1, <2>3, <2>4, Closes, Zenon
<1>4. CASE ~(Avail > MaxControlLine * Slack)
  <2>1. mode' = "handle" /\ UNCHANGED <<events, last>> BY <1>4, Zenon DEF AwaitLine, Parsed
  <2>2. UNCHANGED <<clientVars, events, done>> BY <1>1, <2>1, Zenon
  <2>3. /\ Complete' = Complete /\ Stopped' = Stopped /\ LastEvent' = LastEvent
        /\ Carried' = Carried /\ Batch' = Batch /\ N' = N
        /\ \A n : Before(n)' = Before(n)
    BY <2>2, SameBatch, Zenon
  <2>4. ~Stopped /\ Parser BY <1>1, Zenon DEF Reader
  <2>5. Parser' = Parser
    BY <1>1, <2>2, <2>3, Zenon DEF Parser, AtLine, InBody, Gathered, clientVars
  <2>6. Avail <= MaxControlLine * Slack BY <1>2, <1>4, Limit
  <2>7. Avail' = Avail /\ NoLine' BY <1>1, Zenon DEF NoLine, Avail, Byte, clientVars
  <2>8. Exhausted' BY <1>1, <2>6, <2>7, Zenon DEF Exhausted
  <2>9. ErrorClass' BY <2>1, Zenon DEF ErrorClass
  <2> QED BY <1>1, <2>1, <2>2, <2>3, <2>4, <2>5, <2>8, <2>9, Zenon DEF Reader, clientVars
<1>5. QED BY <1>3, <1>4, Zenon

\* One more event, for the next command.
LEMMA AppendEvent ==
    ASSUME Client, Batch, Carried, UNCHANGED <<clientVars, done>>,
           NEW e, Faithful(e), e.nth = Complete + 1, events' = Append(events, e),
           e.is # "attempt" => Breaks(script[e.nth]) = "none"
    PROVE  /\ Batch' /\ Carried' /\ N' = N /\ \A n : Before(n)' = Before(n)
           /\ events' # <<>> /\ LastEvent' = e
           /\ Complete' = IF e.is = "attempt" THEN Complete ELSE Complete + 1
           /\ Stopped' <=> (e.is = "attempt" /\ e.outcome # "ok")
<1>1. N' = N /\ \A n : Before(n)' = Before(n) BY Zenon DEF N, Before, clientVars
<1>2. Carried' BY <1>1, Zenon DEF Carried, clientVars
<1>3. IsAppend(events', events, e) BY SeqAppend, Zenon DEF Batch
<1>4. PICK k \in Nat, b \in Nat, d \in Nat : k = N /\ b = Len(events) /\ d = Len(done)
  BY SeqBasics, Zenon DEF Client, Laid, N, Batch, Carried
<1>5. PICK m \in 0..k : m = Complete BY <1>4, Zenon DEF Batch
<1>6. /\ IsSeq(events') /\ Len(events') = b + 1 /\ events'[b + 1] = e
      /\ \A i \in 1..b : events'[i] = events[i]
  BY <1>3, <1>4, Zenon DEF IsAppend
<1>7. events' # <<>> BY <1>6, SeqBasics
<1>8. LastEvent' = e BY <1>6, Zenon DEF LastEvent
<1>9. e.nth = m + 1 /\ m + 1 \in 1..k BY <1>4, <1>5, Zenon DEF Faithful
<1>10. Complete' = IF e.is = "attempt" THEN m ELSE m + 1
  <2>1. Complete' = IF e.is = "attempt" THEN e.nth - 1 ELSE e.nth
    BY <1>7, <1>8, Zenon DEF Complete
  <2>2. e.nth = m + 1 BY <1>9, Zenon
  <2> QED BY <2>1, <2>2
<1>11. Stopped' <=> (e.is = "attempt" /\ e.outcome # "ok") BY <1>7, <1>8, Zenon DEF Stopped
<1>12. \A i \in 1..(b + 1) : Faithful(events[i])'
  <2> TAKE i \in 1..(b + 1)
  <2>1. \A x \in 1..b : Faithful(events[x]) BY <1>4, Zenon DEF Batch
  <2>2. PICK x : x = events'[i] BY Zenon
  <2>3. Faithful(x) BY <1>6, <2>1, <2>2
  <2> QED BY <1>1, <2>2, <2>3, Zenon DEF Faithful, clientVars
<1>13. events'[1].nth = d + 1
  <2>1. CASE b = 0
    <3>1. m = d BY <1>4, <1>5, <2>1, SeqBasics, Zenon DEF Complete, Batch
    <3> QED BY <1>6, <1>9, <2>1, <3>1
  <2>2. CASE b > 0
    <3>1. events[1].nth = d + 1 BY <1>4, <2>2, SeqBasics DEF Batch
    <3> QED BY <1>6, <2>2, <3>1
  <2> QED BY <2>1, <2>2
<1>14. ASSUME NEW i \in 1..b
       PROVE  events'[i + 1].nth = IF events'[i].is = "attempt" THEN events'[i].nth
                                   ELSE events'[i].nth + 1
  <2>1. CASE i = b
    <3>1. events # <<>> BY <1>4, <2>1, SeqBasics DEF Batch
    <3>2. m = IF events[b].is = "attempt" THEN events[b].nth - 1 ELSE events[b].nth
      BY <1>4, <1>5, <3>1, Zenon DEF Complete, LastEvent
    <3>3. events[b].nth \in Int
      <4>1. Faithful(events[b]) BY <1>4, <2>1, Zenon DEF Batch
      <4>2. events[b].nth \in 1..k BY <1>4, <4>1, Zenon DEF Faithful
      <4>3. \A x \in 1..k : x \in Int OBVIOUS
      <4> QED BY <4>2, <4>3, Zenon
    <3> QED BY <1>6, <1>9, <2>1, <3>2, <3>3
  <2>2. CASE i # b
    <3>1. i \in 1..(b - 1) /\ events'[i] = events[i] /\ events'[i + 1] = events[i + 1]
      BY <1>6, <2>2
    <3>2. \A x \in 1..(b - 1) :
            events[x + 1].nth = IF events[x].is = "attempt" THEN events[x].nth ELSE events[x].nth + 1
      BY <1>4, Zenon DEF Batch
    <3> QED BY <3>1, <3>2, Zenon
  <2> QED BY <2>1, <2>2, Zenon
<1>15. meant'[Complete' + 1].breaks = "none" /\ Complete' \in 0..k
  <2>1. meant' = meant /\ meant[m + 1].breaks = "none" BY <1>5, Zenon DEF Batch, clientVars
  <2>2. CASE e.is = "attempt" BY <1>4, <1>9, <1>10, <2>1, <2>2, Zenon
  <2>3. CASE e.is # "attempt"
    <3>1. Breaks(script[m + 1]) = "none" BY <1>9, <2>3, Zenon
    <3>2. meant[(m + 1) + 1].breaks = "none" BY <1>4, <1>9, <2>1, <3>1, CommandAt, AmountsStable, SMTT(40)
    <3> QED BY <1>9, <1>10, <2>1, <2>3, <3>2
  <2> QED BY <2>2, <2>3, Zenon
<1>16. Batch'
  <2>1. Len(events') - 1 = b /\ Len(done') = d BY <1>4, <1>6
  <2> QED BY <1>1, <1>4, <1>6, <1>12, <1>13, <1>14, <1>15, <2>1, Zenon DEF Batch
<1>17. QED BY <1>1, <1>2, <1>5, <1>7, <1>8, <1>10, <1>11, <1>16, Zenon

\* The line end that is found is the next command's own.
LEMMA LineFound ==
    ASSUME Client, Reader, mode = "parse", state = "line", NEW k, LineEnd(k), Byte(1).is # "LF"
    PROVE  /\ Complete + 1 \in 1..N /\ Byte(k).nth = Complete + 1
           /\ script[Complete + 1] \in Commands /\ script[Complete + 1].verb # "LF"
           /\ k = script[Complete + 1].len + 1 /\ k \in 1..Avail
<1>1. Avail \in Nat /\ k \in 1..Avail /\ Byte(k).is = "line" /\ \A j \in 1..(k - 1) : Byte(j).is # "line"
  BY LineAhead, Zenon DEF LineEnd
<1>2. PICK n : n = Complete + 1 BY Zenon
<1>3. Avail > 0 BY <1>1
<1>4. /\ n \in 1..N /\ script[n] \in Commands
      /\ \A j \in 1..Size(script[n]) : Byte(j).is = Kind(script[n], j) /\ Byte(j).nth = n
  BY <1>2, <1>3, LineAhead, Zenon
<1>5. PICK c \in Commands : c = script[n] BY <1>4, Zenon
<1>6. c.len \in Nat /\ Size(c) \in Nat /\ Size(c) >= 1 BY CommandShape, LineSymbols, Zenon
<1>7. c.verb # "LF"
  <2>1. Byte(1).is = Kind(c, 1) BY <1>4, <1>5, <1>6
  <2> QED BY <2>1, LineSymbols, Zenon
<1>8. /\ Size(c) >= c.len + 1 /\ Kind(c, c.len + 1) = "line"
      /\ \A j \in 1..c.len : Kind(c, j) = "text"
  BY <1>7, LineSymbols, Zenon
<1>9. ~(k < c.len + 1)
  <2> SUFFICES ASSUME k < c.len + 1 PROVE FALSE BY Zenon
  <2>1. k \in 1..c.len /\ k \in 1..Size(c) BY <1>1, <1>6, <1>8
  <2>2. Byte(k).is = "text" BY <1>4, <1>5, <1>8, <2>1, Zenon
  <2> QED BY <1>1, <2>2, Zenon
<1>10. ~(k > c.len + 1)
  <2> SUFFICES ASSUME k > c.len + 1 PROVE FALSE BY Zenon
  <2>1. c.len + 1 \in 1..(k - 1) /\ c.len + 1 \in 1..Size(c) BY <1>1, <1>6, <1>8
  <2>2. Byte(c.len + 1).is = "line" BY <1>4, <1>5, <1>8, <2>1, Zenon
  <2> QED BY <1>1, <2>1, <2>2, Zenon
<1>11. k = c.len + 1 BY <1>1, <1>6, <1>9, <1>10
<1>12. k \in 1..Size(c) BY <1>1, <1>6, <1>8, <1>11
<1>13. QED BY <1>1, <1>2, <1>4, <1>5, <1>7, <1>11, <1>12, Zenon

\* A line end: the line is too long, cannot be read, or is what the event says of it.
LEMMA TakeLineReader ==
    ASSUME Client, Reader, NEW k, TakeLine(k)
    PROVE  Reader'
<1>1. /\ mode = "parse" /\ state = "line" /\ LineEnd(k) /\ Byte(1).is # "LF"
      /\ UNCHANGED <<clientVars, fed, first, rest, got, opts, done>>
  BY Zenon DEF TakeLine
<1>2. PICK n : n = Complete + 1 BY Zenon
<1>3. PICK c : c = script[n] BY Zenon
<1>4. /\ n \in 1..N /\ Byte(k).nth = n /\ c \in Commands /\ c.verb # "LF"
      /\ k = c.len + 1 /\ k \in 1..Avail
  BY <1>1, <1>2, <1>3, LineFound, Zenon
<1>5. /\ ~Stopped /\ Batch /\ AtLine /\ Avail \in Nat /\ Complete \in Nat
      /\ meant[n].breaks = "none"
  BY <1>1, <1>2, LineAhead, Zenon
<1>6. /\ pos \in Nat /\ fed \in Nat /\ pos + k \in 0..fed /\ pos \in 0..fed /\ Len(input) \in Nat
  <2>1. Len(input) \in Nat BY SeqBasics, Zenon DEF Client, Laid
  <2>2. fed \in 0..Len(input) /\ pos \in 0..fed BY Zenon DEF Reader
  <2> QED BY <1>4, <2>1, <2>2 DEF Avail
<1>7. c.len \in Nat /\ MaxControlLine \in Nat BY <1>4, CommandShape, SessionAssumption, Zenon
<1>8. /\ Carried /\ fed \in 0..Len(input)
      /\ opts = meant[Len(done) + 1].opts /\ meant[Len(done) + 1].ends = "none"
  BY <1>1, Zenon DEF Reader
<1>9. CASE k - 1 > MaxControlLine
  <2>1. last' = "control line" /\ mode' = "closed" /\ pos' = pos BY <1>9, Zenon DEF TakeLine, Fails
  <2>2. c.len > MaxControlLine BY <1>4, <1>7, <1>9
  <2>3. Breaks(c) = "control line" BY <1>4, <2>2, Zenon DEF Breaks
  <2>4. Expected.breaks = "control line" BY <1>3, <1>4, <1>5, <2>3, BreaksExpected, Zenon
  <2> QED BY <1>1, <1>6, <2>1, <2>4, Closes, Zenon
<1>10. CASE ~(k - 1 > MaxControlLine)
  <2> DEFINE action == ParseLine(c)
  <2>1. /\ pos' = pos + k
        /\ \/ /\ action.kind = "fatal" /\ last' = action.text /\ mode' = "closed"
           \/ /\ action.kind = "event"
              /\ events' = Append(events, LineEvent(n))
              /\ UNCHANGED <<mode, state, frame, last>>
           \/ /\ action.kind = "args"
              /\ events' = Append(events, HpubAttempt(n, "args"))
              /\ mode' = "handle" /\ UNCHANGED <<state, frame, last>>
           \/ /\ action.kind = "body"
              /\ state' = "body" /\ frame' = n
              /\ events' = IF c.verb = "HPUB" THEN Append(events, HpubAttempt(n, "ok")) ELSE events
              /\ UNCHANGED <<mode, last>>
    BY <1>3, <1>4, <1>10, Zenon DEF TakeLine, Fails, Parsed
  <2>2. c.len <= MaxControlLine /\ ~(c.len > MaxControlLine) BY <1>4, <1>7, <1>10
  <2>3. pos = starts[n] /\ starts[n] \in Nat BY <1>2, <1>4, <1>5, CommandAt, Zenon DEF AtLine
  <2>4. CASE action.kind = "fatal"
    <3>1. last' = action.text /\ mode' = "closed" BY <2>1, <2>4, Zenon
    <3>2. Breaks(c) = action.text /\ action.text # "none"
      <4>1. action.text # "none" BY <1>4, <2>4, LineKinds, Zenon
      <4>2. action.kind # "body" BY <2>4, Zenon
      <4> QED BY <1>4, <2>2, <4>1, <4>2, Zenon DEF Breaks
    <3>3. Expected.breaks = action.text BY <1>3, <1>4, <1>5, <3>2, BreaksExpected, Zenon
    <3> QED BY <1>1, <1>6, <2>1, <3>1, <3>2, <3>3, Closes, Zenon
  <2>5. CASE action.kind = "event"
    <3>1. PICK e : e = LineEvent(n) BY Zenon
    <3>2. e.is = "line" /\ e.nth = n BY <3>1, Zenon DEF LineEvent
    <3>3. events' = Append(events, e) /\ UNCHANGED <<mode, state, frame, last>> BY <2>1, <2>5, <3>1, Zenon
    <3>4. Faithful(e) BY <1>3, <1>4, <2>2, <2>5, <3>2, Zenon DEF Faithful
    <3>5. Breaks(c) = "none" /\ ~IsPub(c)
      <4>1. action.text = "none" /\ ~IsPub(c) /\ action.kind # "body" BY <1>4, <2>5, LineKinds, Zenon
      <4> QED BY <1>4, <2>2, <4>1, Zenon DEF Breaks
    <3>6. /\ Batch' /\ Carried' /\ events' # <<>> /\ LastEvent' = e
          /\ Complete' = Complete + 1 /\ ~Stopped'
      BY <1>1, <1>2, <1>3, <1>5, <1>8, <3>2, <3>3, <3>4, <3>5, AppendEvent, Zenon
    <3>7. Size(c) = c.len + 1 BY <1>4, <3>5, Zenon DEF Size
    <3>8. pos' = starts[n + 1] BY <1>3, <1>4, <2>1, <2>3, <3>7, CommandAt, SMTT(40)
    <3>9. AtLine' BY <1>1, <1>2, <1>5, <3>2, <3>6, <3>8, Zenon DEF AtLine, clientVars
    <3>10. Parser' BY <1>1, <3>3, <3>9, Zenon DEF Parser
    <3>11. ErrorClass' BY <1>1, <3>3, Zenon DEF ErrorClass
    <3> QED BY <1>1, <1>6, <1>8, <2>1, <3>3, <3>6, <3>10, <3>11, Zenon DEF Reader, clientVars
  <2>6. CASE action.kind = "args"
    <3>1. PICK e : e = HpubAttempt(n, "args") BY Zenon
    <3>2. e.is = "attempt" /\ e.nth = n /\ e.outcome = "args" BY <3>1, Zenon DEF HpubAttempt
    <3>3. events' = Append(events, e) /\ mode' = "handle" BY <2>1, <2>6, <3>1, Zenon
    <3>4. Faithful(e) BY <1>3, <1>4, <2>2, <2>6, <3>2, LineKinds, Zenon DEF Faithful
    <3>5. Batch' /\ Carried' /\ Stopped'
      BY <1>1, <1>2, <1>5, <1>8, <3>2, <3>3, <3>4, AppendEvent, Zenon
    <3>6. ErrorClass' BY <3>3, Zenon DEF ErrorClass
    <3> QED BY <1>1, <1>6, <1>8, <2>1, <3>3, <3>5, <3>6, Zenon DEF Reader, clientVars
  <2>7. CASE action.kind = "body"
    <3>1. state' = "body" /\ frame' = n /\ UNCHANGED <<mode, last>> BY <2>1, <2>7, Zenon
    <3>2. /\ Batch' /\ Carried' /\ Complete' = Complete /\ ~Stopped'
          /\ c.verb = "HPUB" => events' # <<>> /\ LastEvent'.is = "attempt"
          /\ c.verb # "HPUB" /\ events' # <<>> => LastEvent'.is # "attempt"
      <4>1. CASE c.verb = "HPUB"
        <5>1. PICK e : e = HpubAttempt(n, "ok") BY Zenon
        <5>2. e.is = "attempt" /\ e.nth = n /\ e.outcome = "ok" BY <5>1, Zenon DEF HpubAttempt
        <5>3. events' = Append(events, e) BY <2>1, <2>7, <4>1, <5>1, Zenon
        <5>4. Faithful(e) BY <1>3, <1>4, <2>2, <2>7, <4>1, <5>2, Zenon DEF Faithful
        <5> QED BY <1>1, <1>2, <1>5, <1>8, <4>1, <5>2, <5>3, <5>4, AppendEvent, Zenon
      <4>2. CASE c.verb # "HPUB"
        <5>1. UNCHANGED <<clientVars, events, done>> BY <1>1, <2>1, <2>7, <4>2, Zenon
        <5> QED BY <1>5, <1>8, <4>2, <5>1, SameBatch, SMTT(40) DEF AtLine
      <4> QED BY <4>1, <4>2, Zenon
    <3>3. IsPub(c) /\ c.total \in Nat BY <1>4, <2>7, LineKinds, CommandShape
    <3>4. Before(n)' = pos' /\ N' = N /\ script'[n] = c
      BY <1>1, <1>3, <1>4, <2>1, <2>3, Zenon DEF Before, BodyAt, clientVars, N
    <3>5. InBody'
      <4>1. got' = 0 /\ frame' = Complete' + 1 /\ frame' <= N'
        BY <1>1, <1>2, <1>4, <1>5, <3>1, <3>2, <3>4 DEF AtLine
      <4>2. pos' \in Nat BY <1>4, <1>6, <2>1
      <4>3. pos' = Before(n)' + got'
        <5>1. PICK x \in Nat : x = pos' BY <4>2, Zenon
        <5>2. x = x + 0 OBVIOUS
        <5> QED BY <3>4, <4>1, <5>1, <5>2, Zenon
      <4> QED BY <2>2, <2>7, <3>1, <3>2, <3>3, <3>4, <4>1, <4>3 DEF InBody
    <3>6. Gathered'
      <4>1. rest' = <<>> /\ first' = NoPiece BY <1>1, <1>5, Zenon DEF AtLine
      <4>2. Before(n)' + 1 = pos' + 1 BY <3>4, Zenon
      <4> QED BY <3>1, <4>1, <4>2, SeqEmpty DEF Gathered, Covers
    <3>7. Parser' BY <3>1, <3>5, <3>6, Zenon DEF Parser
    <3>8. ErrorClass' BY <1>1, <3>1, Zenon DEF ErrorClass
    <3> QED BY <1>1, <1>6, <1>8, <2>1, <3>1, <3>2, <3>7, <3>8, Zenon DEF Reader, clientVars
  <2> QED BY <2>1, <2>4, <2>5, <2>6, <2>7, Zenon
<1>11. QED BY <1>9, <1>10, Zenon

\* Inside a body, what is ahead is the rest of it and its terminator.
LEMMA BodyAhead ==
    ASSUME Client, Parser, state = "body", Batch, fed \in 0..Len(input), pos \in 0..fed
    PROVE  /\ InBody /\ Gathered
           /\ Len(input) \in Nat /\ N \in Nat /\ Avail \in Nat /\ frame \in 1..N
           /\ script[frame] \in Commands /\ IsPub(script[frame]) /\ script[frame].verb # "LF"
           /\ script[frame].total \in Nat /\ Before(frame) \in Nat
           /\ script[frame].end \in Terminators
           /\ starts[frame + 1] = Before(frame) + script[frame].total + Len(script[frame].end)
           /\ starts[frame + 1] <= Len(input)
           /\ Cut(script[frame]) => starts[frame + 1] = Len(input)
           /\ \A j \in 1..Len(script[frame].end) :
                 input[Before(frame) + script[frame].total + j].is = script[frame].end[j]
<1>1. InBody /\ Gathered BY Zenon DEF Parser
<1>2. PICK k \in Nat, m \in Nat : k = N /\ m = Len(input) BY SeqBasics, Zenon DEF Client, Laid, N
<1>3. Complete \in 0..k BY <1>2, Zenon DEF Batch
<1>4. PICK n \in 1..k : n = frame BY <1>1, <1>2, <1>3 DEF InBody
<1>5. PICK c : c = script[n] BY Zenon
<1>6. PICK b : b = starts[n] BY Zenon
<1>7. /\ c \in Commands /\ b \in Nat /\ starts[n + 1] = b + Size(c) /\ b + Size(c) <= m
      /\ \A j \in 1..Size(c) : input[b + j].is = Kind(c, j)
      /\ Cut(c) => b + Size(c) = m
  BY <1>2, <1>4, <1>5, <1>6, CommandAt, Zenon
<1>8. IsPub(c) /\ c.total >= 0 BY <1>1, <1>4, <1>5, <1>7, LineKinds, Zenon DEF InBody
<1>9. c.end \in Terminators /\ c.verb # "LF" BY <1>7, <1>8, CommandShape, Zenon DEF IsPub
<1>10. PICK l \in Nat : l = Len(c.end)
  <2>1. Len(c.end) \in 0..2 BY <1>9, EndShape, Zenon
  <2>2. \A x \in 0..2 : x \in Nat OBVIOUS
  <2> QED BY <2>1, <2>2, Zenon
<1>11. /\ c.total \in Nat /\ Size(c) = BodyAt(c) + c.total + l /\ BodyAt(c) \in Nat
       /\ \A j \in 1..l : Kind(c, BodyAt(c) + c.total + j) = c.end[j]
  BY <1>7, <1>8, <1>10, BodySymbols, Zenon
<1>12. Before(n) = b + BodyAt(c) /\ Before(n) \in Nat
  <2>1. Before(n) = b + BodyAt(c) BY <1>5, <1>6, Zenon DEF Before
  <2>2. \A x, y \in Nat : x + y \in Nat OBVIOUS
  <2> QED BY <1>7, <1>11, <2>1, <2>2, Zenon
<1>13. starts[n + 1] = Before(n) + c.total + l /\ starts[n + 1] <= m
  <2>1. starts[n + 1] = b + Size(c) /\ b + Size(c) <= m BY <1>7, Zenon
  <2>2. Size(c) = BodyAt(c) + c.total + l BY <1>11, Zenon
  <2>3. b \in Nat /\ BodyAt(c) \in Nat /\ c.total \in Nat /\ l \in Nat BY <1>7, <1>10, <1>11, Zenon
  <2>4. b + Size(c) = (b + BodyAt(c)) + c.total + l BY <2>2, <2>3
  <2> QED BY <1>12, <2>1, <2>4, Zenon
<1>14. ASSUME NEW j \in 1..l PROVE input[Before(n) + c.total + j].is = c.end[j]
  <2>1. PICK i : i = BodyAt(c) + c.total + j BY Zenon
  <2>2. i \in 1..Size(c) /\ b + i = Before(n) + c.total + j
    <3>1. PICK t \in Nat, a \in Nat : t = c.total /\ a = BodyAt(c) BY <1>11, Zenon
    <3>2. Size(c) = a + t + l /\ Before(n) = b + a /\ i = a + t + j BY <1>11, <1>12, <2>1, <3>1, Zenon
    <3>3. i \in 1..(a + t + l) /\ b + i = b + a + t + j BY <1>7, <3>2
    <3> QED BY <3>1, <3>2, <3>3, Zenon
  <2>3. input[b + i].is = Kind(c, i) /\ Kind(c, i) = c.end[j] BY <1>7, <1>11, <2>1, <2>2, Zenon
  <2> QED BY <2>2, <2>3, Zenon
<1>15. Avail \in Nat BY <1>2 DEF Avail
<1>16. QED BY <1>1, <1>2, <1>4, <1>5, <1>7, <1>8, <1>9, <1>10, <1>11, <1>12, <1>13, <1>14, <1>15, Zenon

\* One more piece of the body: the pieces still cover what was consumed of it.
LEMMA TakePieceReader ==
    ASSUME Client, Reader, TakePiece
    PROVE  Reader'
<1>1. /\ mode = "parse" /\ state = "body" /\ got < script[frame].total
      /\ UNCHANGED <<clientVars, fed, state, frame, events, opts, done, last>>
  BY Zenon DEF TakePiece
<1>2. /\ ~Stopped /\ Batch /\ Carried /\ Parser /\ fed \in 0..Len(input) /\ pos \in 0..fed
      /\ opts = meant[Len(done) + 1].opts /\ meant[Len(done) + 1].ends = "none"
  BY <1>1, Zenon DEF Reader
<1>3. /\ Complete' = Complete /\ Stopped' = Stopped /\ LastEvent' = LastEvent
      /\ Carried' = Carried /\ Batch' = Batch /\ N' = N
      /\ \A n : Before(n)' = Before(n)
  BY <1>1, SameBatch, Zenon
<1>4. PICK f : f = frame BY Zenon
<1>5. PICK c : c = script[f] BY Zenon
<1>6. PICK t \in Nat, b \in Nat : t = c.total /\ b = Before(f)
  BY <1>1, <1>2, <1>4, <1>5, BodyAhead, Zenon
<1>7. Before(f)' = b /\ frame' = f /\ script'[f] = c BY <1>1, <1>3, <1>4, <1>5, <1>6, Zenon DEF clientVars
<1>8. /\ InBody /\ Gathered /\ got \in 0..t /\ pos = b + got /\ Avail \in Nat /\ Len(input) \in Nat
  BY <1>1, <1>2, <1>4, <1>5, <1>6, BodyAhead, Zenon DEF InBody
<1>9. CASE Avail = 0
  <2>1. mode' = "handle" /\ UNCHANGED <<pos, first, rest, got>> BY <1>9, Zenon DEF TakePiece, Parsed
  <2>2. Parser' = Parser BY <1>1, <1>3, <2>1, Zenon DEF Parser, AtLine, InBody, Gathered, clientVars
  <2>3. Avail' = 0 BY <1>1, <1>9, <2>1, Zenon DEF Avail
  <2>4. Exhausted' BY <1>1, <2>1, <2>3, Zenon DEF Exhausted, clientVars
  <2>5. ErrorClass' BY <2>1, Zenon DEF ErrorClass
  <2> QED BY <1>1, <1>2, <1>3, <2>1, <2>2, <2>4, <2>5, Zenon DEF Reader, clientVars
<1>10. CASE Avail # 0
  <2>1. PICK n : n = (IF t - got < Avail THEN t - got ELSE Avail) BY Zenon
  <2>2. PICK piece : piece = [lo |-> pos + 1, hi |-> pos + n] BY Zenon
  <2>3. Push(piece) /\ got' = got + n /\ pos' = pos + n /\ mode' = mode
    BY <1>4, <1>5, <1>6, <1>10, <2>1, <2>2, Zenon DEF TakePiece
  <2>4. n \in Nat /\ n >= 1 /\ got + n <= t /\ n <= Avail
    <3>1. got < t BY <1>1, <1>4, <1>5, <1>6, Zenon
    <3>2. PICK g \in 0..t, a \in Nat : g = got /\ a = Avail BY <1>8, Zenon
    <3>3. n = IF t - g < a THEN t - g ELSE a BY <2>1, <3>2, Zenon
    <3>4. g < t /\ a # 0 BY <1>10, <3>1, <3>2, Zenon
    <3> QED BY <3>2, <3>3, <3>4
  <2>5. pos \in Nat /\ pos + n \in 0..fed /\ got + n \in 0..t /\ pos + n = b + (got + n)
    <3>1. PICK m \in Nat : m = Len(input) BY <1>8, Zenon
    <3>2. PICK g \in 0..t, p \in Nat, h \in Nat : g = got /\ p = pos /\ h = fed BY <1>2, <1>8, <3>1
    <3>3. p = b + g /\ n \in Nat /\ g + n <= t /\ n <= h - p BY <1>8, <2>4, <3>2, Zenon DEF Avail
    <3>4. p + n \in 0..h /\ g + n \in 0..t /\ p + n = b + (g + n) BY <3>3
    <3> QED BY <3>2, <3>4, Zenon
  <2>6. InBody' BY <1>1, <1>3, <1>4, <1>5, <1>6, <1>7, <1>8, <2>3, <2>5, Zenon DEF InBody, clientVars
  <2>7. piece.lo = pos + 1 /\ piece.hi = pos + n /\ piece # NoPiece
    <3>1. piece.lo = pos + 1 /\ piece.hi = pos + n BY <2>2, Zenon
    <3>2. NoPiece.lo = 0 BY Zenon DEF NoPiece
    <3> QED BY <2>5, <3>1, <3>2
  <2>8. Gathered'
    <3>1. CASE first = NoPiece
      <4>1. first' = piece /\ rest' = rest BY <2>3, <3>1, Zenon DEF Push
      <4>2. /\ IsSeq(rest) /\ Len(rest) % 2 = 0 /\ Covers(rest, b + 1, pos)
        BY <1>4, <1>5, <1>6, <1>8, <3>1, Zenon DEF Gathered
      <4>3. piece.lo \in Nat /\ piece.lo - 1 = pos BY <2>5, <2>7
      <4>4. Covers(rest, b + 1, piece.lo - 1) BY <4>2, <4>3, Zenon
      <4>5. first' # NoPiece => first'.lo \in Nat /\ first'.hi = pos' BY <2>3, <2>7, <4>1, <4>3, Zenon
      <4> QED BY <1>7, <2>7, <4>1, <4>2, <4>4, <4>5, Zenon DEF Gathered
    <3>2. CASE first # NoPiece
      <4>1. first' = NoPiece /\ rest' = rest \o <<first, piece>> BY <2>3, <3>2, Zenon DEF Push
      <4>2. /\ IsSeq(rest) /\ Len(rest) % 2 = 0 /\ Covers(rest, b + 1, first.lo - 1)
            /\ first.lo \in Nat /\ first.hi = pos
        BY <1>4, <1>5, <1>6, <1>8, <3>2, Zenon DEF Gathered
      <4>3. piece.lo \in Int /\ first.lo \in Int /\ first.hi \in Int /\ b + 1 \in Int /\ piece.lo = first.hi + 1
        BY <2>5, <2>7, <4>2
      <4>4. Covers(rest', b + 1, piece.hi) /\ Len(rest') = Len(rest) + 2 /\ IsSeq(rest')
        BY <4>1, <4>2, <4>3, CoversPair, Zenon
      <4>5. Len(rest') % 2 = 0
        <5>1. Len(rest) \in Nat BY <4>2, SeqBasics, Zenon
        <5> QED BY <4>2, <4>4, <5>1
      <4>6. Covers(rest', b + 1, pos') BY <2>3, <2>7, <4>4, Zenon
      <4> QED BY <1>7, <4>1, <4>4, <4>5, <4>6, Zenon DEF Gathered
    <3> QED BY <3>1, <3>2, Zenon
  <2>9. Parser' BY <1>1, <2>6, <2>8, Zenon DEF Parser
  <2>10. ErrorClass' BY <1>1, <2>3, Zenon DEF ErrorClass
  <2> QED BY <1>1, <1>2, <1>3, <2>3, <2>5, <2>9, <2>10, Zenon DEF Reader, clientVars
<1>11. QED BY <1>9, <1>10, Zenon

\* What the parser finds behind a body is the terminator that was sent.
LEMMA TerminatorFound ==
    ASSUME Client, Parser, state = "body", Batch, fed \in 0..Len(input), pos \in 0..fed,
           got = script[frame].total
    PROVE  /\ Terminator = "wait" <=> (Avail = 0 \/ (Avail = 1 /\ Byte(1).is = "CR"))
           /\ Terminator = "good" =>
                 /\ script[frame].end = <<"CR", "LF">>
                 /\ pos + 2 = starts[frame + 1] /\ pos + 2 \in 0..fed
           /\ Terminator = "bad" => ~Cut(script[frame]) /\ script[frame].end # <<"CR", "LF">>
           /\ Terminator = "wait" /\ fed = Len(input) => Cut(script[frame])
<1>1. PICK c : c = script[frame] BY Zenon
<1>2. PICK x : x = c.end BY Zenon
<1>3. x \in Terminators /\ IsPub(c) BY <1>1, <1>2, BodyAhead, Zenon
<1>4. PICK l \in 0..2 : l = Len(x) BY <1>3, EndShape, Zenon
<1>5. /\ l = 0 => x = <<>> /\ x # <<"CR", "LF">>
      /\ l = 1 => x # <<>> /\ x # <<"CR", "LF">> /\ x[1] \in {"CR", "other"} /\ (x[1] = "CR" <=> x = <<"CR">>)
      /\ l = 2 => /\ x # <<>> /\ x # <<"CR">>
                  /\ x[1] = "CR" /\ x[2] \in {"LF", "other"} /\ (x[2] = "LF" <=> x = <<"CR", "LF">>)
  BY <1>3, <1>4 DEF Terminators
<1>6. PICK p \in Nat, h \in Nat, m \in Nat, a \in Nat :
         p = pos /\ h = fed /\ m = Len(input) /\ a = Avail /\ a = h - p /\ h <= m
  <2>1. Len(input) \in Nat /\ Avail \in Nat BY BodyAhead, Zenon
  <2>2. pos \in Nat /\ fed \in Nat /\ fed <= Len(input) BY <2>1
  <2>3. Avail = fed - pos BY Zenon DEF Avail
  <2> QED BY <2>1, <2>2, <2>3, Zenon
<1>7. PICK t \in Nat, b \in Nat : t = c.total /\ b = Before(frame) BY <1>1, BodyAhead, Zenon
<1>8. p = b + t BY <1>1, <1>6, <1>7, BodyAhead, Zenon DEF InBody
<1>9. starts[frame + 1] = p + l /\ p + l <= m /\ (Cut(c) => p + l = m)
  <2>1. starts[frame + 1] = b + t + l /\ starts[frame + 1] <= m /\ (Cut(c) => starts[frame + 1] = m)
    BY <1>1, <1>2, <1>4, <1>6, <1>7, BodyAhead, Zenon
  <2> QED BY <1>8, <2>1, Zenon
<1>10. \A j \in 1..l : Byte(j).is = x[j]
  <2> TAKE j \in 1..l
  <2>1. input[b + t + j].is = x[j] BY <1>1, <1>2, <1>4, <1>7, BodyAhead, Zenon
  <2>2. pos + j = b + t + j BY <1>6, <1>8, Zenon
  <2> QED BY <2>1, <2>2, Zenon DEF Byte
<1>11. PICK b1, b2 : b1 = Byte(1).is /\ b2 = Byte(2).is BY Zenon
<1>12. (l >= 1 => b1 = x[1]) /\ (l = 2 => b2 = x[2]) BY <1>10, <1>11
<1>13. Cut(c) <=> (x = <<>> \/ x = <<"CR">>) BY <1>2, <1>3, Zenon DEF Cut
<1>14. Terminator = IF a = 0 \/ (a = 1 /\ b1 = "CR") THEN "wait"
                    ELSE IF b1 = "CR" /\ b2 = "LF" THEN "good" ELSE "bad"
  BY <1>6, <1>11, Zenon DEF Terminator
<1> DEFINE Right == /\ Terminator = "wait" <=> (a = 0 \/ (a = 1 /\ b1 = "CR"))
                    /\ Terminator = "good" => x = <<"CR", "LF">> /\ l = 2 /\ a >= 2
                    /\ Terminator = "bad" => ~Cut(c) /\ x # <<"CR", "LF">>
                    /\ Terminator = "wait" /\ h = m => Cut(c)
<1>15. Right
  <2>1. CASE l = 0
    <3>1. Cut(c) /\ a = 0 BY <1>5, <1>6, <1>9, <1>13, <2>1
    <3> QED BY <1>14, <3>1, Zenon
  <2>2. CASE l = 1
    <3>1. CASE x[1] = "CR"
      <4>1. Cut(c) /\ a <= 1 /\ b1 = "CR" BY <1>5, <1>6, <1>9, <1>12, <1>13, <2>2, <3>1
      <4>2. a = 0 \/ (a = 1 /\ b1 = "CR") BY <4>1
      <4> QED BY <1>14, <4>1, <4>2, Zenon
    <3>2. CASE x[1] # "CR"
      <4>1. ~Cut(c) /\ b1 # "CR" /\ x # <<"CR", "LF">> BY <1>5, <1>12, <1>13, <2>2, <3>2
      <4>2. h = m => a # 0 BY <1>6, <1>9, <2>2
      <4> QED BY <1>14, <4>1, <4>2, Zenon
    <3> QED BY <3>1, <3>2, Zenon
  <2>3. CASE l = 2
    <3>1. ~Cut(c) /\ b1 = "CR" /\ (b2 = "LF" <=> x = <<"CR", "LF">>) BY <1>5, <1>12, <1>13, <2>3
    <3>2. h = m => a # 0 /\ a # 1 BY <1>6, <1>9, <2>3
    <3>3. ~(a = 0 \/ a = 1) => a >= 2 OBVIOUS
    <3> QED BY <1>14, <2>3, <3>1, <3>2, <3>3, Zenon
  <2> QED BY <2>1, <2>2, <2>3
<1>16. l = 2 /\ a >= 2 => p + 2 \in 0..h BY <1>6
<1>17. QED BY <1>1, <1>2, <1>6, <1>9, <1>11, <1>15, <1>16, Zenon

\* The end of a body: it is waited for, completes the publish, or is not a CRLF.
LEMMA EndBodyReader ==
    ASSUME Client, Reader, EndBody
    PROVE  Reader'
<1>1. /\ mode = "parse" /\ state = "body" /\ got = script[frame].total
      /\ UNCHANGED <<clientVars, fed, opts, done>>
  BY Zenon DEF EndBody
<1>2. /\ ~Stopped /\ Batch /\ Carried /\ Parser /\ fed \in 0..Len(input) /\ pos \in 0..fed
      /\ opts = meant[Len(done) + 1].opts /\ meant[Len(done) + 1].ends = "none"
  BY <1>1, Zenon DEF Reader
<1>3. PICK f : f = frame BY Zenon
<1>4. PICK c : c = script[f] BY Zenon
<1>5. /\ InBody /\ Gathered /\ f \in 1..N /\ c \in Commands /\ IsPub(c) /\ c.verb # "LF"
      /\ f = Complete + 1 /\ c.len <= MaxControlLine /\ ParseLine(c).kind = "body"
      /\ c.total \in Nat /\ Before(f) \in Nat /\ pos = Before(f) + c.total
      /\ MaxControlLine \in Nat /\ c.len \in Nat /\ ~(c.len > MaxControlLine)
      /\ ParseLine(c).text = "none"
  <2>1. /\ InBody /\ Gathered /\ f \in 1..N /\ c \in Commands /\ IsPub(c) /\ c.verb # "LF"
        /\ c.total \in Nat /\ Before(f) \in Nat
    BY <1>1, <1>2, <1>3, <1>4, BodyAhead, Zenon
  <2>2. MaxControlLine \in Nat /\ c.len \in Nat BY <2>1, CommandShape, SessionAssumption, Zenon
  <2>3. /\ f = Complete + 1 /\ c.len <= MaxControlLine /\ ParseLine(c).kind = "body"
        /\ pos = Before(f) + c.total
    BY <1>1, <1>3, <1>4, <2>1, Zenon DEF InBody
  <2>4. ParseLine(c).text = "none" BY <2>1, <2>3, LineKinds, Zenon
  <2> QED BY <2>1, <2>2, <2>3, <2>4
<1>6. CASE Terminator = "wait"
  <2>1. mode' = "handle" /\ UNCHANGED <<pos, state, frame, first, rest, got, events, last>>
    BY <1>6, Zenon DEF EndBody, Parsed, parserVars
  <2>2. UNCHANGED <<clientVars, events, done>> BY <1>1, <2>1, Zenon
  <2>3. /\ Complete' = Complete /\ Stopped' = Stopped /\ LastEvent' = LastEvent
        /\ Carried' = Carried /\ Batch' = Batch /\ N' = N
        /\ \A n : Before(n)' = Before(n)
    BY <2>2, SameBatch, Zenon
  <2>4. Parser' = Parser BY <1>1, <2>1, <2>3, Zenon DEF Parser, AtLine, InBody, Gathered, clientVars
  <2>5. Avail = 0 \/ (Avail = 1 /\ Byte(1).is = "CR") BY <1>1, <1>2, <1>6, TerminatorFound, Zenon
  <2>6. ~(got < script[frame].total) BY <1>1, <1>3, <1>4, <1>5, SMTT(40)
  <2>7. Exhausted BY <1>1, <2>5, <2>6, Zenon DEF Exhausted
  <2>8. Exhausted' = Exhausted BY <1>1, <2>1, Zenon DEF Exhausted, NoLine, Avail, Byte, clientVars
  <2>9. ErrorClass' BY <2>1, Zenon DEF ErrorClass
  <2> QED BY <1>1, <1>2, <2>1, <2>3, <2>4, <2>7, <2>8, <2>9, Zenon DEF Reader, clientVars
<1>7. CASE Terminator = "good"
  <2>1. /\ pos' = pos + 2 /\ events' = Append(events, Publish(f, TakeBody))
        /\ state' = "line" /\ first' = NoPiece /\ rest' = <<>> /\ got' = 0
        /\ UNCHANGED <<mode, last>>
    BY <1>3, <1>7, Zenon DEF EndBody
  <2>2. c.end = <<"CR", "LF">> /\ pos + 2 = starts[f + 1] /\ pos + 2 \in 0..fed
    BY <1>1, <1>2, <1>3, <1>4, <1>7, TerminatorFound, Zenon
  <2>3. Carries(TakeBody, Before(f) + 1, Before(f) + c.total)
    <3>1. CASE first = NoPiece
      <4>1. Covers(rest, Before(f) + 1, pos) BY <1>3, <1>5, <3>1, Zenon DEF Gathered
      <4> QED BY <1>5, <3>1, <4>1, Zenon DEF TakeBody, Carries
    <3>2. CASE first # NoPiece
      <4>1. /\ IsSeq(rest) /\ Len(rest) % 2 = 0 /\ Covers(rest, Before(f) + 1, first.lo - 1)
            /\ first.lo \in Int /\ first.hi = pos /\ Before(f) + 1 \in Int
        BY <1>3, <1>5, <3>2 DEF Gathered
      <4>2. Carries(<<first>> \o rest, Before(f) + 1, first.hi) BY <4>1, CoversTurned, Zenon
      <4>3. TakeBody = <<first>> \o rest BY <3>2, Zenon DEF TakeBody
      <4>4. first.hi = Before(f) + c.total BY <1>5, <4>1, Zenon
      <4> QED BY <4>2, <4>3, <4>4, Zenon
    <3> QED BY <3>1, <3>2, Zenon
  <2>4. PICK e : e = Publish(f, TakeBody) BY Zenon
  <2>5. e.is = "publish" /\ e.nth = f /\ e.body = TakeBody BY <2>4, Zenon DEF Publish
  <2>6. Faithful(e) BY <1>4, <1>5, <2>2, <2>3, <2>5, Zenon DEF Faithful
  <2>7. Breaks(c) = "none" BY <1>5, <2>2, Zenon DEF Breaks
  <2>8. /\ Batch' /\ Carried' /\ events' # <<>> /\ LastEvent' = e
        /\ Complete' = Complete + 1 /\ ~Stopped'
    BY <1>1, <1>2, <1>4, <1>5, <2>1, <2>4, <2>5, <2>6, <2>7, AppendEvent, Zenon
  <2>9. AtLine' BY <1>1, <1>5, <2>1, <2>2, <2>5, <2>8, Zenon DEF AtLine, clientVars
  <2>10. Parser' BY <2>1, <2>9, Zenon DEF Parser
  <2>11. ErrorClass' BY <1>1, <2>1, Zenon DEF ErrorClass
  <2> QED BY <1>1, <1>2, <2>1, <2>2, <2>8, <2>10, <2>11, Zenon DEF Reader, clientVars
<1>8. CASE Terminator = "bad"
  <2>1. ~Cut(c) /\ c.end # <<"CR", "LF">> BY <1>1, <1>2, <1>3, <1>4, <1>8, TerminatorFound, Zenon
  <2>2. CASE c.verb = "HPUB"
    <3>1. /\ events' = Append(events, HpubAttempt(f, "frame")) /\ mode' = "handle" /\ pos' = pos
      BY <1>3, <1>4, <1>8, <2>2, Zenon DEF EndBody, Parsed, parserVars
    <3>2. PICK e : e = HpubAttempt(f, "frame") BY Zenon
    <3>3. e.is = "attempt" /\ e.nth = f /\ e.outcome = "frame" BY <3>2, Zenon DEF HpubAttempt
    <3>4. Faithful(e) BY <1>4, <1>5, <2>1, <2>2, <3>3, Zenon DEF Faithful
    <3>5. Batch' /\ Carried' /\ Stopped'
      BY <1>1, <1>2, <1>5, <3>1, <3>2, <3>3, <3>4, AppendEvent, Zenon
    <3>6. ErrorClass' BY <3>1, Zenon DEF ErrorClass
    <3> QED BY <1>1, <1>2, <3>1, <3>5, <3>6, Zenon DEF Reader, clientVars
  <2>3. CASE c.verb = "PUB"
    <3>1. last' = "unknown" /\ mode' = "closed" /\ pos' = pos
      BY <1>3, <1>4, <1>8, <2>3, Zenon DEF EndBody, Fails, parserVars
    <3>2. Breaks(c) = "unknown" BY <1>5, <2>1, <2>3, Zenon DEF Breaks
    <3>3. meant[f].breaks = "none" BY <1>2, <1>5, Zenon DEF Batch
    <3>4. Expected.breaks = "unknown" BY <1>4, <1>5, <3>2, <3>3, BreaksExpected, Zenon
    <3> QED BY <1>1, <1>2, <3>1, <3>4, Closes, Zenon
  <2> QED BY <1>5, <2>2, <2>3, Zenon DEF IsPub
<1>9. QED BY <1>6, <1>7, <1>8, Zenon DEF EndBody

\* What a publish comes to.
LEMMA OutcomeOfPub ==
    ASSUME NEW c, NEW o, IsPub(c)
    PROVE  Outcome(c, o).ends = IF c.verb = "HPUB" /\ ~o.headers THEN "silent" ELSE "none"
<1>1. /\ c.verb # "CONNECT" /\ c.verb # "SUB" /\ c.verb # "UNSUB"
      /\ c.verb # "PING" /\ c.verb # "INFO" /\ c.verb # "-ERR"
  BY Zenon DEF IsPub
<1>2. CASE c.verb = "HPUB" /\ ~o.headers
  <2>1. Outcome(c, o) = Ends(o, "silent") BY <1>1, <1>2, Zenon DEF Outcome
  <2> QED BY <1>2, <2>1 DEF Ends
<1>3. CASE ~(c.verb = "HPUB" /\ ~o.headers)
  <2> DEFINE replies == (IF o.pedantic /\ ~c.valid THEN <<"invalid publish subject">> ELSE <<>>)
                        \o OK(o)
  <2>1. Outcome(c, o) = IF c.verb = "HPUB" /\ ~o.headers THEN Ends(o, "silent") ELSE Stays(o, replies)
    BY <1>1, Zenon DEF Outcome
  <2> HIDE DEF replies
  <2>2. Outcome(c, o) = Stays(o, replies) BY <1>3, <2>1, Zenon
  <2> QED BY <1>3, <2>2 DEF Stays
<1>4. QED BY <1>2, <1>3, Zenon

\* The dispatch of an event that says the truth comes to what the command deserves.
LEMMA ResultDeserved ==
    ASSUME Client, NEW e, Faithful(e)
    PROVE  /\ Result(e).ends # "none" => Result(e).ends = Deserves(script[e.nth], opts)
           /\ e.is # "attempt" => Result(e) = Outcome(script[e.nth], opts)
                                  /\ Result(e).ends = Deserves(script[e.nth], opts)
           /\ e.is = "attempt" /\ Result(e).ends = "none" =>
                 opts.headers /\ e.outcome = "ok" /\ Result(e).opts = opts
<1>1. PICK c : c = script[e.nth] BY Zenon
<1>2. /\ e.nth \in 1..N /\ c \in Commands /\ c.len <= MaxControlLine /\ c.verb # "LF"
      /\ c.len \in Nat /\ MaxControlLine \in Nat
  BY <1>1, CommandAt, CommandShape, SessionAssumption, Zenon DEF Faithful
<1>3. ~(c.len > MaxControlLine) BY <1>2
<1>4. CASE e.is = "line"
  <2>1. ParseLine(c).kind = "event" /\ ParseLine(c).kind # "body" BY <1>1, <1>4, Zenon DEF Faithful
  <2>2. ~IsPub(c) /\ ParseLine(c).text = "none" BY <1>2, <2>1, LineKinds, Zenon
  <2>3. Breaks(c) = "none" BY <1>2, <1>3, <2>1, <2>2, Zenon DEF Breaks
  <2>4. c.verb # "HPUB" BY <2>2, Zenon DEF IsPub
  <2>5. Deserves(c, opts) = Outcome(c, opts).ends BY <2>3, <2>4, Zenon DEF Deserves
  <2> QED BY <1>1, <1>4, <2>5, Zenon DEF Result
<1>5. CASE e.is = "publish"
  <2>1. ParseLine(c).kind = "body" /\ c.end = <<"CR", "LF">> /\ ParseLine(c).kind # "args"
    BY <1>1, <1>5, Zenon DEF Faithful
  <2>2. IsPub(c) /\ ParseLine(c).text = "none" /\ c.nargs # -1 BY <1>2, <2>1, LineKinds, Zenon
  <2>3. Breaks(c) = "none" BY <1>2, <1>3, <2>1, <2>2, Zenon DEF Breaks
  <2>4. CASE c.verb = "HPUB"
    <3>1. Deserves(c, opts) = IF ~opts.headers THEN "silent" ELSE "none"
      BY <1>2, <2>1, <2>2, <2>3, <2>4, Zenon DEF Deserves
    <3>2. Outcome(c, opts).ends = IF ~opts.headers THEN "silent" ELSE "none"
      BY <2>2, <2>4, OutcomeOfPub, Zenon
    <3> QED BY <1>1, <1>5, <3>1, <3>2, Zenon DEF Result
  <2>5. CASE c.verb # "HPUB"
    <3>1. Deserves(c, opts) = Outcome(c, opts).ends BY <2>3, <2>5, Zenon DEF Deserves
    <3> QED BY <1>1, <1>5, <3>1, Zenon DEF Result
  <2> QED BY <2>4, <2>5, Zenon
<1>6. CASE e.is = "attempt"
  <2>1. c.verb = "HPUB" /\ ParseLine(c).kind \in {"body", "args"} BY <1>1, <1>6, Zenon DEF Faithful
  <2>2. c.nargs # -1 /\ ParseLine(c).text = "none" BY <1>2, <2>1, LineKinds, Zenon
  <2>3. Result(e) = Attempt(e.outcome, opts) BY <1>6, Zenon DEF Result
  <2>4. Breaks(c) = "none" BY <1>2, <1>3, <2>1, <2>2, Zenon DEF Breaks
  <2>5. /\ e.outcome \in {"ok", "args", "frame"}
        /\ e.outcome = "args" => ParseLine(c).kind = "args"
        /\ e.outcome = "frame" => ParseLine(c).kind # "args" /\ ~Cut(c) /\ c.end # <<"CR", "LF">>
    BY <1>1, <1>6, Zenon DEF Faithful
  <2>6. CASE ~opts.headers \/ e.outcome = "args"
    <3>1. Deserves(c, opts) = "silent" BY <1>2, <2>1, <2>2, <2>5, <2>6, Zenon DEF Deserves
    <3>2. Result(e) = Ends(opts, "silent") BY <2>3, <2>6, Zenon DEF Attempt
    <3>3. Result(e).ends = "silent" BY <3>2 DEF Ends
    <3> QED BY <1>1, <1>6, <3>1, <3>3, Zenon
  <2>7. CASE opts.headers /\ e.outcome = "frame"
    <3>1. Deserves(c, opts) = "unknown" BY <1>2, <2>1, <2>2, <2>4, <2>5, <2>7, Zenon DEF Deserves
    <3>2. Result(e) = Ends(opts, "unknown") BY <2>3, <2>7, Zenon DEF Attempt
    <3>3. Result(e).ends = "unknown" BY <3>2 DEF Ends
    <3> QED BY <1>1, <1>6, <3>1, <3>3, Zenon
  <2>8. CASE opts.headers /\ e.outcome = "ok"
    <3>1. Result(e) = Stays(opts, <<>>) BY <2>3, <2>8, Zenon DEF Attempt
    <3>2. Result(e).ends = "none" /\ Result(e).opts = opts BY <3>1 DEF Stays
    <3> QED BY <1>6, <2>8, <3>2, Zenon
  <2> QED BY <2>5, <2>6, <2>7, <2>8, Zenon
<1>7. QED BY <1>4, <1>5, <1>6, Zenon DEF Faithful

\* The batch without the event that has been carried out.
LEMMA PopEvent ==
    ASSUME Client, Batch, events # <<>>, UNCHANGED clientVars, events' = Tail(events),
           IsSeq(done), Len(done') = IF events[1].is = "attempt" THEN Len(done) ELSE Len(done) + 1
    PROVE  /\ Batch' /\ Complete' = Complete
           /\ events' # <<>> => LastEvent' = LastEvent
           /\ events' = <<>> => LastEvent = events[1]
<1>1. PICK b \in Nat, d \in Nat, k \in Nat : b = Len(events) /\ d = Len(done) /\ k = N
  BY SeqBasics, Zenon DEF Batch, Client, Laid, N
<1>2. b >= 1 BY <1>1, SeqBasics DEF Batch
<1>3. /\ \A i \in 1..b : Faithful(events[i])
      /\ events[1].nth = d + 1
      /\ \A i \in 1..(b - 1) :
            events[i + 1].nth = IF events[i].is = "attempt" THEN events[i].nth ELSE events[i].nth + 1
      /\ Complete \in 0..k /\ meant[Complete + 1].breaks = "none" /\ IsSeq(events)
  BY <1>1, Zenon DEF Batch
<1>4. /\ IsSeq(events') /\ Len(events') = b - 1
      /\ \A i \in 1..(b - 1) : events'[i] = events[i + 1]
  BY <1>1, <1>3, SeqTail, Zenon
<1>5. N' = N /\ \A n : Before(n)' = Before(n) BY Zenon DEF N, Before, clientVars
<1>6. events' = <<>> <=> b = 1
  <2>1. events' = <<>> <=> Len(events') = 0 BY <1>4, SeqBasics, Zenon
  <2>2. Len(events') = b - 1 BY <1>4, Zenon
  <2> QED BY <2>1, <2>2
<1>7. PICK d1 : d1 = Len(done') BY Zenon
<1>8. d1 = IF events[1].is = "attempt" THEN d ELSE d + 1 BY <1>1, <1>7, Zenon
<1>9. events' # <<>> => LastEvent' = LastEvent
  <2> SUFFICES ASSUME events' # <<>> PROVE LastEvent' = LastEvent BY Zenon
  <2>1. b - 1 \in 1..(b - 1) /\ (b - 1) + 1 = b BY <1>2, <1>6
  <2> QED BY <1>1, <1>4, <2>1, Zenon DEF LastEvent
<1>10. events' = <<>> => LastEvent = events[1] BY <1>1, <1>6, Zenon DEF LastEvent
<1>11. Complete' = Complete
  <2>1. CASE events' = <<>>
    <3>1. Complete' = d1 BY <1>7, <2>1, Zenon DEF Complete
    <3>2. Complete = IF events[1].is = "attempt" THEN events[1].nth - 1 ELSE events[1].nth
      BY <1>10, <2>1, Zenon DEF Complete
    <3> QED BY <1>3, <1>8, <3>1, <3>2
  <2>2. CASE events' # <<>> BY <1>9, <2>2, Zenon DEF Complete
  <2> QED BY <2>1, <2>2, Zenon
<1>12. ASSUME NEW i \in 1..(b - 1) PROVE Faithful(events[i])'
  <2>1. PICK x : x = events[i + 1] BY Zenon
  <2>2. Faithful(x) /\ events'[i] = x BY <1>3, <1>4, <2>1
  <2> QED BY <1>5, <2>2, Zenon DEF Faithful, clientVars
<1>13. b > 1 => events'[1].nth = d1 + 1
  <2> SUFFICES ASSUME b > 1 PROVE events'[1].nth = d1 + 1 BY Zenon
  <2>1. 1 \in 1..(b - 1) OBVIOUS
  <2>2. events'[1] = events[1 + 1] BY <1>4, <2>1, Zenon
  <2>3. events[1 + 1].nth = IF events[1].is = "attempt" THEN events[1].nth ELSE events[1].nth + 1
    BY <1>3, <2>1, Zenon
  <2> QED BY <1>3, <1>8, <2>2, <2>3, Zenon
<1>14. ASSUME NEW i \in 1..((b - 1) - 1)
       PROVE  events'[i + 1].nth = IF events'[i].is = "attempt" THEN events'[i].nth
                                   ELSE events'[i].nth + 1
  <2>1. i \in 1..(b - 1) /\ i + 1 \in 1..(b - 1) OBVIOUS
  <2>2. events'[i] = events[i + 1] /\ events'[i + 1] = events[(i + 1) + 1] BY <1>4, <2>1, Zenon
  <2>3. events[(i + 1) + 1].nth = IF events[i + 1].is = "attempt" THEN events[i + 1].nth
                                  ELSE events[i + 1].nth + 1
    BY <1>3, <2>1, Zenon
  <2> QED BY <2>2, <2>3, Zenon
<1>15. meant' = meant BY Zenon DEF clientVars
<1>16. Batch'
  <2>1. events' # <<>> => events'[1].nth = Len(done') + 1 BY <1>2, <1>6, <1>7, <1>13
  <2>2. Complete' \in 0..N' /\ meant'[Complete' + 1].breaks = "none" BY <1>1, <1>3, <1>5, <1>11, <1>15, Zenon
  <2> QED BY <1>4, <1>12, <1>14, <2>1, <2>2, Zenon DEF Batch
<1>17. QED BY <1>9, <1>10, <1>11, <1>16, Zenon

\* One event of the batch: it is carried out under the options of the commands before it.
LEMMA HandleReader ==
    ASSUME Client, Reader, Handle
    PROVE  Reader'
<1>1. /\ mode = "handle" /\ events # <<>>
      /\ UNCHANGED <<clientVars, fed, pos, state, frame, first, rest, got>>
  BY Zenon DEF Handle, parserVars
<1>2. /\ Batch /\ Carried /\ fed \in 0..Len(input) /\ pos \in 0..fed
      /\ opts = meant[Len(done) + 1].opts /\ meant[Len(done) + 1].ends = "none"
  BY <1>1, Zenon DEF Reader
<1>3. PICK d \in Nat : d = Len(done) BY <1>2, SeqBasics, Zenon DEF Carried
<1>4. IsSeq(events) /\ IsSeq(done) BY <1>2, Zenon DEF Batch, Carried
<1>5. PICK e : e = events[1] BY Zenon
<1>6. Head(events) = e BY <1>1, <1>4, <1>5, SeqTail, Zenon
<1>7. Faithful(e) /\ e.nth = d + 1 /\ d + 1 \in 1..N
  <2>1. Len(events) \in Nat /\ Len(events) >= 1 BY <1>1, <1>4, SeqBasics
  <2>2. Faithful(e) /\ e.nth = d + 1 BY <1>1, <1>2, <1>3, <1>5, <2>1 DEF Batch
  <2> QED BY <2>2, Zenon DEF Faithful
<1>8. PICK c : c = script[d + 1] BY Zenon
<1>9. PICK r : r = Result(e) BY Zenon
<1>10. /\ r.ends # "none" => r.ends = Deserves(c, opts)
       /\ e.is # "attempt" => r = Outcome(c, opts) /\ r.ends = Deserves(c, opts)
       /\ e.is = "attempt" /\ r.ends = "none" => opts.headers /\ e.outcome = "ok" /\ r.opts = opts
  BY <1>7, <1>8, <1>9, ResultDeserved, Zenon
<1>11. /\ opts' = r.opts
       /\ done' = IF e.is = "attempt" \/ r.ends # "none" THEN done
                  ELSE Append(done, [nth |-> e.nth, body |-> e.body, replies |-> r.replies])
       /\ IF r.ends = "none" THEN events' = Tail(events) /\ UNCHANGED <<mode, last>>
          ELSE last' = r.ends /\ mode' = "closed"
  BY <1>6, <1>9, Zenon DEF Handle, Fails
<1>12. CASE r.ends # "none"
  <2>1. done' = done /\ last' = r.ends /\ mode' = "closed" BY <1>11, <1>12, Zenon
  <2>2. Expected.ends = r.ends BY <1>2, <1>3, <1>7, <1>8, <1>10, <1>12, EndsExpected, Zenon
  <2> QED BY <1>1, <1>2, <1>12, <2>1, <2>2, Closes, Zenon
<1>13. CASE r.ends = "none"
  <2>1. events' = Tail(events) /\ mode' = mode /\ last' = last BY <1>11, <1>13, Zenon
  <2>2. /\ Carried' /\ Len(done') = IF e.is = "attempt" THEN d ELSE d + 1
        /\ opts' = meant'[Len(done') + 1].opts /\ meant'[Len(done') + 1].ends = "none"
    <3>1. N' = N /\ \A n : Before(n)' = Before(n) BY <1>1, Zenon DEF N, Before, clientVars
    <3>2. CASE e.is = "attempt"
      <4>1. done' = done /\ opts' = opts BY <1>10, <1>11, <1>13, <3>2, Zenon
      <4> QED BY <1>1, <1>2, <1>3, <3>1, <3>2, <4>1, Zenon DEF Carried, clientVars
    <3>3. CASE e.is # "attempt"
      <4>1. PICK x : x = [nth |-> e.nth, body |-> e.body, replies |-> r.replies] BY Zenon
      <4>2. x.nth = d + 1 /\ x.body = e.body /\ x.replies = r.replies BY <1>7, <4>1, Zenon
      <4>3. done' = Append(done, x) BY <1>11, <1>13, <3>3, <4>1, Zenon
      <4>4. IsAppend(done', done, x) BY <1>4, <4>3, SeqAppend, Zenon
      <4>5. /\ IsSeq(done') /\ Len(done') = d + 1 /\ done'[d + 1] = x
            /\ \A i \in 1..d : done'[i] = done[i]
        BY <1>3, <4>4, Zenon DEF IsAppend
      <4>6. /\ meant[(d + 1) + 1] = Amounts(meant[d + 1], c)
        BY <1>7, <1>8, CommandAt, Zenon
      <4>7. r = Outcome(c, opts) /\ Deserves(c, opts) = "none" BY <1>10, <1>13, <3>3, Zenon
      <4>8. meant[(d + 1) + 1].ends = "none" /\ meant[(d + 1) + 1].opts = r.opts
        BY <1>2, <1>3, <4>6, <4>7, AmountsStable, SMTT(40)
      <4>9. IsPub(c) => Carries(e.body, Before(d + 1) + 1, Before(d + 1) + c.total)
        <5>1. c \in Commands BY <1>7, <1>8, CommandAt, Zenon
        <5>2. IsPub(c) => ParseLine(c).kind # "event" BY <5>1, LineKinds, Zenon
        <5> QED BY <1>7, <1>8, <3>3, <5>2, Zenon DEF Faithful
      <4>10. ASSUME NEW i \in 1..(d + 1)
             PROVE  /\ done'[i].nth = i /\ meant'[i + 1].ends = "none"
                    /\ done'[i].replies = Outcome(script'[i], meant'[i].opts).replies
                    /\ IsPub(script'[i]) =>
                          Carries(done'[i].body, Before(i)' + 1, Before(i)' + script'[i].total)
        <5>1. meant' = meant /\ script' = script /\ Before(i)' = Before(i) BY <1>1, <3>1, Zenon DEF clientVars
        <5>2. CASE i = d + 1
          <6>1. done'[i] = x /\ script[i] = c /\ meant[i].opts = opts BY <1>2, <1>3, <1>8, <4>5, <5>2, Zenon
          <6> QED BY <4>2, <4>7, <4>8, <4>9, <5>1, <5>2, <6>1, Zenon
        <5>3. CASE i # d + 1
          <6>1. i \in 1..d /\ done'[i] = done[i] BY <4>5, <5>3
          <6>2. /\ done[i].nth = i /\ meant[i + 1].ends = "none"
                /\ done[i].replies = Outcome(script[i], meant[i].opts).replies
                /\ IsPub(script[i]) => Carries(done[i].body, Before(i) + 1, Before(i) + script[i].total)
            BY <1>2, <1>3, <6>1, Zenon DEF Carried
          <6> QED BY <5>1, <6>1, <6>2, Zenon
        <5> QED BY <5>2, <5>3, Zenon
      <4>11. d + 1 <= N' BY <1>7, <3>1
      <4>12. Carried' BY <4>5, <4>10, <4>11, Zenon DEF Carried
      <4> QED BY <1>1, <1>11, <3>3, <4>5, <4>8, <4>12, Zenon DEF clientVars
    <3> QED BY <3>2, <3>3, Zenon
  <2>3. /\ Batch' /\ Complete' = Complete
        /\ events' # <<>> => LastEvent' = LastEvent
        /\ events' = <<>> => LastEvent = e
    BY <1>1, <1>2, <1>3, <1>4, <1>5, <2>1, <2>2, PopEvent, Zenon
  <2>4. Stopped' <=> Stopped
    <3>1. CASE events' # <<>> BY <1>1, <2>3, <3>1, Zenon DEF Stopped
    <3>2. CASE events' = <<>> BY <1>1, <1>10, <1>13, <2>3, <3>2, Zenon DEF Stopped
    <3> QED BY <3>1, <3>2, Zenon
  <2>5. ~Stopped => Parser'
    <3> SUFFICES ASSUME ~Stopped PROVE Parser' BY Zenon
    <3>1. Parser BY <1>1, Zenon DEF Reader
    <3>2. N' = N /\ \A n : Before(n)' = Before(n) BY <1>1, Zenon DEF N, Before, clientVars
    <3>3. state = "line" => AtLine' BY <1>1, <2>3, <3>1, Zenon DEF Parser, AtLine, clientVars
    <3>4. state = "body" => InBody'
      <4> SUFFICES ASSUME state = "body" PROVE InBody' BY Zenon
      <4>1. InBody BY <3>1, Zenon DEF Parser
      <4>2. frame' = Complete' + 1 /\ frame' <= N' BY <1>1, <2>3, <3>2, <4>1, Zenon DEF InBody
      <4>3. script' = script /\ frame' = frame /\ Before(frame)' = Before(frame)
        BY <1>1, Zenon DEF clientVars, Before
      <4>4. script[frame].verb = "HPUB" =>
               IF events' = <<>> THEN opts'.headers ELSE LastEvent'.is = "attempt"
        <5>1. script[frame].verb = "HPUB" => LastEvent.is = "attempt" BY <1>1, <4>1, Zenon DEF InBody
        <5>2. events' = <<>> /\ LastEvent.is = "attempt" => opts'.headers
          BY <1>10, <1>11, <1>13, <2>3, Zenon
        <5> QED BY <2>3, <5>1, <5>2, Zenon
      <4>5. script[frame].verb = "PUB" /\ events' # <<>> => LastEvent'.is # "attempt"
        BY <1>1, <2>3, <4>1, Zenon DEF InBody
      <4> QED BY <1>1, <4>1, <4>2, <4>3, <4>4, <4>5, Zenon DEF InBody
    <3>5. state = "body" => Gathered' BY <1>1, <3>1, Zenon DEF Parser, Gathered, Before, clientVars
    <3> QED BY <1>1, <3>1, <3>3, <3>4, <3>5, Zenon DEF Parser
  <2>6. ~Stopped => Exhausted'
    <3>1. Exhausted' = Exhausted BY <1>1, Zenon DEF Exhausted, NoLine, Avail, Byte, clientVars
    <3> QED BY <1>1, <3>1, Zenon DEF Reader
  <2>7. ErrorClass' BY <1>1, <2>1, Zenon DEF ErrorClass
  <2> QED BY <1>1, <1>2, <2>1, <2>2, <2>3, <2>4, <2>5, <2>6, <2>7, Zenon DEF Reader, clientVars
<1>14. QED BY <1>12, <1>13, Zenon

-----------------------------------------------------------------------------
(* The theorems                                                            *)

\* Every step keeps the invariant.
LEMMA IInvStep ==
    ASSUME IInv, [Next]_vars
    PROVE  IInv'
<1>1. Client /\ Reader BY Zenon DEF IInv
<1>2. Client' BY <1>1, ClientStep, Zenon
<1>3. Reader'
  <2>1. CASE \E c \in Commands : Send(c) BY <1>1, <2>1, SendReader, Zenon
  <2>2. CASE \E k \in 1..Len(input) : Read(k) BY <1>1, <2>2, ReadReader, Zenon
  <2>3. CASE \E k \in 1..Len(input) : TakeLine(k) BY <1>1, <2>3, TakeLineReader, Zenon
  <2>4. CASE BareLF BY <1>1, <2>4, BareLFReader, Zenon
  <2>5. CASE AwaitLine BY <1>1, <2>5, AwaitLineReader, Zenon
  <2>6. CASE TakePiece BY <1>1, <2>6, TakePieceReader, Zenon
  <2>7. CASE EndBody BY <1>1, <2>7, EndBodyReader, Zenon
  <2>8. CASE Handle BY <1>1, <2>8, HandleReader, Zenon
  <2>9. CASE Handled BY <1>1, <2>9, HandledReader, Zenon
  <2>10. CASE UNCHANGED vars
    <3>1. UNCHANGED <<clientVars, events, done>> BY <2>10, Zenon DEF vars
    <3>2. Carried' = Carried /\ Batch' = Batch /\ Stopped' = Stopped /\ LastEvent' = LastEvent
          /\ Complete' = Complete /\ N' = N
      BY <3>1, SameBatch, Zenon
    <3>3. Parser' = Parser
      BY <2>10, <3>1, <3>2, Zenon DEF vars, parserVars, clientVars, Parser, AtLine, InBody, Gathered, Before
    <3>4. Exhausted' = Exhausted
      BY <2>10, Zenon DEF vars, parserVars, clientVars, Exhausted, NoLine, Avail, Byte
    <3>5. ErrorClass' = ErrorClass BY <2>10, Zenon DEF vars, clientVars, ErrorClass, Expected
    <3> QED BY <1>1, <2>10, <3>1, <3>2, <3>3, <3>4, <3>5, Zenon DEF Reader, vars, clientVars, parserVars
  <2> QED BY <2>1, <2>2, <2>3, <2>4, <2>5, <2>6, <2>7, <2>8, <2>9, <2>10, Zenon DEF Next
<1>4. QED BY <1>2, <1>3, Zenon DEF IInv

\* So it always holds.
LEMMA IInvHolds == Spec => []IInv
<1>1. Init => IInv BY ClientInit, ReaderInit, Zenon DEF IInv
<1>2. IInv /\ [Next]_vars => IInv' BY IInvStep, Zenon
<1>3. QED BY <1>1, <1>2, PTL DEF Spec

\* However the reads cut the stream, the operations carried out are the commands
\* sent, in order, each with its body and the replies it draws.
THEOREM SessionExecutedInOrder == Spec => []ExecutedInOrder
<1>1. IInv => ExecutedInOrder
  <2> SUFFICES ASSUME IInv PROVE ExecutedInOrder BY Zenon
  <2>1. Carried /\ Client BY Zenon DEF IInv, Reader
  <2>2. PICK d \in Nat, k \in Nat : d = Len(done) /\ k = Len(script) /\ d <= k /\ DOMAIN done = 1..d
    BY <2>1, SeqBasics, Zenon DEF Carried, Client, Laid, N
  <2>3. ASSUME NEW i \in 1..d
        PROVE  /\ done[i].nth = i /\ meant[i + 1].ends = "none"
               /\ done[i].replies = Outcome(script[i], meant[i].opts).replies
               /\ IsPub(script[i]) => Carries(done[i].body, Before(i) + 1, Before(i) + script[i].total)
    BY <2>1, <2>2, Zenon DEF Carried
  <2>4. \A i \in 1..d : i <= k BY <2>2
  <2> QED BY <2>2, <2>3, <2>4, Zenon DEF ExecutedInOrder, Before
<1>2. QED BY <1>1, IInvHolds, PTL

\* The connection closes with words that are due: those of the first command that
\* deserves any, or of the first one the parser could not read.
THEOREM SessionErrorClass == Spec => []ErrorClass
<1>1. IInv => ErrorClass BY Zenon DEF IInv, Reader
<1>2. QED BY <1>1, IInvHolds, PTL

\* Between reads the parser holds a bounded line without its end, or the body it
\* was promised and half a terminator.
THEOREM SessionBufferBounded == Spec => []BufferBounded
<1>1. IInv => BufferBounded
  <2> SUFFICES ASSUME IInv, mode = "read"
               PROVE  /\ state = "line" => fed - pos <= MaxControlLine * Slack
                      /\ state = "body" => got <= script[frame].total /\ fed - pos <= 1
    BY Zenon DEF BufferBounded
  <2>1. /\ Client /\ Batch /\ events = <<>> /\ fed \in 0..Len(input) /\ pos \in 0..fed
    BY Zenon DEF IInv, Reader
  <2>2. ~Stopped BY <2>1, Zenon DEF Stopped
  <2>3. Parser /\ Exhausted BY <2>2, Zenon DEF IInv, Reader
  <2>4. state = "line" => fed - pos <= MaxControlLine * Slack BY <2>3, Zenon DEF Exhausted, Avail
  <2>5. ASSUME state = "body" PROVE got <= script[frame].total /\ fed - pos <= 1
    <3>1. script[frame].total \in Nat /\ got \in 0..script[frame].total
      BY <2>1, <2>3, <2>5, BodyAhead, Zenon DEF InBody
    <3>2. Avail = 0 \/ Avail = 1 BY <2>3, <2>5, Zenon DEF Exhausted
    <3> QED BY <3>1, <3>2 DEF Avail
  <2> QED BY <2>4, <2>5, Zenon
<1>2. QED BY <1>1, IInvHolds, PTL

\* When everything sent has been read and the connection is open, no command
\* deserved to end it and every complete one has been carried out.
THEOREM SessionNothingHeldBack == Spec => []NothingHeldBack
<1>1. IInv => NothingHeldBack
  <2> SUFFICES ASSUME IInv, mode = "read", fed = Len(input)
               PROVE  /\ Expected.ends = "none"
                      /\ \A n \in DOMAIN script : n \in DOMAIN done \/ Cut(script[n])
    BY Zenon DEF NothingHeldBack
  <2>1. /\ Client /\ Carried /\ Batch /\ events = <<>> /\ fed \in 0..Len(input) /\ pos \in 0..fed
        /\ opts = meant[Len(done) + 1].opts /\ meant[Len(done) + 1].ends = "none"
    BY Zenon DEF IInv, Reader
  <2>2. ~Stopped BY <2>1, Zenon DEF Stopped
  <2>3. Parser /\ Exhausted BY <2>2, Zenon DEF IInv, Reader
  <2>4. PICK d \in Nat, k \in Nat, m \in Nat :
           d = Len(done) /\ k = N /\ m = Len(input) /\ d <= k /\ DOMAIN done = 1..d /\ DOMAIN script = 1..k
    <3>1. IsSeq(done) /\ IsSeq(script) /\ IsSeq(input) /\ Len(done) <= Len(script)
      BY <2>1, Zenon DEF Carried, Client, Laid, N
    <3>2. /\ Len(done) \in Nat /\ DOMAIN done = 1..Len(done)
          /\ Len(script) \in Nat /\ DOMAIN script = 1..Len(script) /\ Len(input) \in Nat
      BY <3>1, SeqBasics, Zenon
    <3> QED BY <3>1, <3>2, Zenon DEF N
  <2>5. Complete = d BY <2>1, <2>4, Zenon DEF Complete
  <2>6. Expected = meant[k + 1] BY <2>1, <2>4, Zenon DEF Expected, Client, History
  <2>7. starts[k + 1] = m BY <2>1, <2>4, Zenon DEF Client, Laid
  <2>8. CASE state = "line"
    <3>1. pos = starts[d + 1] /\ NoLine BY <2>3, <2>5, <2>8, Zenon DEF Parser, AtLine, Exhausted
    <3>2. d = k
      <4> SUFFICES ASSUME d # k PROVE FALSE BY Zenon
      <4>1. PICK n \in 1..k : n = d + 1 BY <2>4
      <4>2. PICK c \in Commands : c = script[n] BY <2>1, <2>4, <4>1, CommandAt, Zenon
      <4>3. /\ pos = starts[n] /\ pos \in Nat /\ pos + Size(c) <= m
            /\ \A j \in 1..Size(c) : Byte(j).is = Kind(c, j)
        BY <2>1, <2>4, <3>1, <4>1, <4>2, CommandAt, Zenon DEF Byte
      <4>4. Size(c) \in Nat /\ Size(c) >= 1 /\ c.len \in Nat BY LineSymbols, CommandShape, Zenon
      <4>5. Avail \in Nat /\ Avail >= Size(c) BY <2>4, <4>3, <4>4 DEF Avail
      <4>6. Byte(1).is = Kind(c, 1) /\ Byte(1).is # "LF" BY <3>1, <4>3, <4>4, <4>5 DEF NoLine
      <4>7. c.verb # "LF" BY <4>6, LineSymbols, Zenon
      <4>8. c.len + 1 \in 1..Size(c) /\ c.len + 1 \in 1..Avail BY <4>4, <4>5, <4>7, LineSymbols
      <4>9. Byte(c.len + 1).is = "line" BY <4>3, <4>7, <4>8, LineSymbols, Zenon
      <4> QED BY <3>1, <4>8, <4>9, Zenon DEF NoLine
    <3> QED BY <2>1, <2>4, <2>6, <3>2, Zenon
  <2>9. CASE state = "body"
    <3>1. PICK c : c = script[frame] BY Zenon
    <3>2. /\ InBody /\ frame = d + 1 /\ frame \in 1..k /\ c \in Commands /\ IsPub(c)
          /\ c.total \in Nat /\ Before(frame) \in Nat /\ Avail \in Nat /\ c.end \in Terminators
          /\ starts[frame + 1] = Before(frame) + c.total + Len(c.end) /\ starts[frame + 1] <= m
          /\ ParseLine(c).kind = "body" /\ c.len <= MaxControlLine
          /\ got \in 0..c.total /\ pos = Before(frame) + got
      BY <2>1, <2>3, <2>4, <2>5, <2>9, <3>1, BodyAhead, Zenon DEF InBody
    <3>3. got = c.total
      <4> SUFFICES ASSUME got < c.total PROVE FALSE BY <3>2
      <4>1. Avail = 0 BY <2>3, <2>9, <3>1, Zenon DEF Exhausted
      <4>2. PICK l \in Nat : l = Len(c.end)
        <5>1. Len(c.end) \in 0..2 BY <3>2, EndShape, Zenon
        <5>2. \A x \in 0..2 : x \in Nat OBVIOUS
        <5> QED BY <5>1, <5>2, Zenon
      <4>3. PICK g \in Nat, b \in Nat, t \in Nat : g = got /\ b = Before(frame) /\ t = c.total
        <5>1. got \in Nat BY <3>2
        <5> QED BY <3>2, <5>1, Zenon
      <4>4. m - (b + g) = 0 /\ b + t + l <= m /\ g < t BY <2>4, <3>2, <4>1, <4>2, <4>3, Zenon DEF Avail
      <4> QED BY <4>4
    <3>4. Cut(c)
      <4>1. Avail = 0 \/ (Avail = 1 /\ Byte(1).is = "CR")
        BY <2>3, <2>9, <3>1, <3>2, <3>3, Zenon DEF Exhausted
      <4> QED BY <2>1, <2>3, <2>9, <3>1, <3>3, <4>1, TerminatorFound, Zenon
    <3>5. k = d + 1
      <4>1. \A i \in 1..(k - 1) : ~Cut(script[i]) BY <2>1, <2>4, Zenon DEF Client, Laid
      <4> QED BY <2>4, <3>1, <3>2, <3>4, <4>1
    <3>6. Deserves(c, opts) = "none"
      <4>1. ParseLine(c).text = "none" /\ c.nargs # -1 /\ c.verb # "LF" /\ ParseLine(c).kind # "args"
        BY <3>2, LineKinds, Zenon DEF IsPub
      <4>2. ~(c.len > MaxControlLine) BY <3>2, CommandShape, SessionAssumption
      <4>3. Breaks(c) = "none" BY <3>4, <4>1, <4>2, Zenon DEF Breaks
      <4>4. CASE c.verb = "HPUB"
        <5>1. opts.headers BY <2>1, <3>1, <3>2, <4>4, Zenon DEF InBody
        <5> QED BY <3>2, <3>4, <4>1, <4>3, <4>4, <5>1, Zenon DEF Deserves
      <4>5. CASE c.verb # "HPUB"
        <5>1. Outcome(c, opts).ends = "none" BY <3>2, <4>5, OutcomeOfPub, Zenon
        <5> QED BY <4>3, <4>5, <5>1, Zenon DEF Deserves
      <4> QED BY <4>4, <4>5, Zenon
    <3>7. meant[k + 1].ends = "none"
      <4>1. meant[(d + 1) + 1] = Amounts(meant[d + 1], c) BY <2>1, <2>4, <3>1, <3>2, CommandAt, Zenon
      <4> QED BY <2>1, <2>4, <3>5, <3>6, <4>1, AmountsStable, SMTT(40)
    <3>8. \A n \in 1..k : n \in 1..d \/ Cut(script[n])
      <4> TAKE n \in 1..k
      <4>1. n \in 1..d \/ n = frame BY <3>2, <3>5
      <4> QED BY <3>1, <3>4, <4>1, Zenon
    <3> QED BY <2>4, <2>6, <3>7, <3>8, Zenon
  <2> QED BY <2>3, <2>8, <2>9, Zenon DEF Parser
<1>2. QED BY <1>1, IInvHolds, PTL

-----------------------------------------------------------------------------
(* The subject grammar: module Subjects                                    *)

\* The tokens is_valid has walked so far are legal where they stand.
LegalSoFar ==
    /\ seen <= Len(filter)
    /\ \A i \in 1..seen : /\ filter[i] \notin {Empty, Blank}
                          /\ filter[i] = Rest => i = seen
    /\ afterFw <=> seen > 0 /\ filter[seen] = Rest

\* The tokens matches has walked so far stand for those of the subject.
AlikeSoFar ==
    /\ seen <= Len(filter) /\ seen <= Len(subject)
    /\ \A i \in 1..seen : filter[i] # Rest /\ filter[i] \in {Star, subject[i]}

\* Where the two walks are.
WalkInv ==
    /\ filter \in Texts /\ subject \in Texts /\ seen \in Nat
    /\ phase \in {"validate", "lookup", "walk", "invalid", "match", "differ"}
    /\ phase = "validate" => LegalSoFar
    /\ phase = "lookup" => seen = 0
    /\ phase = "walk" => AlikeSoFar
    /\ ValidIsLegal /\ MatchIsMeaning

\* A text is a sequence of one token or more.
LEMMA TextIsSequence ==
    ASSUME NEW t \in Texts
    PROVE  Len(t) \in Nat \ {0} /\ DOMAIN t = 1..Len(t) /\ t \in [1..Len(t) -> Tokens]
BY DEF Texts

\* A text is its tokens.
LEMMA SameText ==
    ASSUME NEW t \in Texts, NEW u \in Texts,
           Len(t) = Len(u), \A i \in 1..Len(t) : t[i] = u[i]
    PROVE  t = u
BY TextIsSequence

\* What a filter stands for, by its last token.
LEMMA StandsBy ==
    ASSUME NEW f, NEW s
    PROVE  /\ f[Len(f)] = Rest =>
                 (Stands(f, s) <=>
                     Len(s) > Len(f) - 1 /\ \A i \in 1..(Len(f) - 1) : f[i] \in {Star, s[i]})
           /\ f[Len(f)] # Rest =>
                 (Stands(f, s) <=>
                     Len(s) = Len(f) /\ \A i \in 1..Len(f) : f[i] \in {Star, s[i]})
BY Zenon DEF Stands

\* What is known of the answer when j tokens are alike: the walk of matches ends
\* with the right answer wherever it can end.
LEMMA WalkDecides ==
    ASSUME NEW f \in Texts, NEW s \in Texts, NEW j \in Nat,
           j <= Len(f), j <= Len(s), Legal(f),
           \A i \in 1..j : f[i] # Rest /\ f[i] \in {Star, s[i]}
    PROVE  /\ j = Len(f) => (Stands(f, s) <=> j = Len(s))
           /\ j < Len(f) /\ j = Len(s) => ~Stands(f, s)
           /\ j < Len(f) /\ j < Len(s) /\ f[j + 1] = Rest => Stands(f, s)
           /\ j < Len(f) /\ j < Len(s)
                 /\ f[j + 1] \notin {Rest, Star, s[j + 1]} =>
                 ~Stands(f, s)
<1>1. PICK n \in Nat \ {0} : n = Len(f) /\ DOMAIN f = 1..n
  BY TextIsSequence, Zenon
<1>2. PICK m \in Nat \ {0} : m = Len(s)
  BY TextIsSequence, Zenon
<1>3. /\ f[n] = Rest =>
            (Stands(f, s) <=>
                m > n - 1 /\ \A i \in 1..(n - 1) : f[i] \in {Star, s[i]})
      /\ f[n] # Rest =>
            (Stands(f, s) <=> m = n /\ \A i \in 1..n : f[i] \in {Star, s[i]})
  BY <1>1, <1>2, StandsBy, Zenon
<1>4. \A i \in 1..n : f[i] = Rest => i = n
  BY <1>1, Zenon DEF Legal
<1>5. j <= n /\ j <= m
  BY <1>1, <1>2, Zenon
<1>6. j = n => (Stands(f, s) <=> j = m)
  BY <1>3, <1>5
<1>7. j < n /\ j = m => ~Stands(f, s)
  BY <1>3
<1>8. j < n /\ j < m /\ f[j + 1] = Rest => Stands(f, s)
  BY <1>3, <1>4
<1>9. j < n /\ j < m /\ f[j + 1] \notin {Rest, Star, s[j + 1]} =>
         ~Stands(f, s)
  BY <1>3, <1>4
<1> QED BY <1>1, <1>2, <1>6, <1>7, <1>8, <1>9, Zenon

\* Every token is_valid and matches look at keeps the walk where it should be.
LEMMA WalkStep == WalkInv /\ [SubjectsNext]_subjectsVars => WalkInv'
<1> SUFFICES ASSUME WalkInv, [SubjectsNext]_subjectsVars PROVE WalkInv'
  BY Zenon
<1>1. /\ Len(filter) \in Nat \ {0} /\ DOMAIN filter = 1..Len(filter)
      /\ Len(subject) \in Nat \ {0} /\ DOMAIN subject = 1..Len(subject)
  BY TextIsSequence, Zenon DEF WalkInv
<1>2. CASE ValidateToken
  <2>1. LegalSoFar /\ filter' = filter /\ subject' = subject
    BY <1>2, Zenon DEF WalkInv, ValidateToken
  <2>2. CASE BadToken(filter[seen + 1])
    <3>1. phase' = "invalid" /\ seen' = seen
      BY <1>2, <2>2, Zenon DEF ValidateToken
    <3>2. ~Legal(filter)
      BY <1>1, <1>2, <2>1, <2>2 
         DEF WalkInv, LegalSoFar, BadToken, Legal, ValidateToken
    <3> QED BY <2>1, <3>1, <3>2, Zenon DEF WalkInv, ValidIsLegal, MatchIsMeaning, Legal
  <2>3. CASE ~BadToken(filter[seen + 1])
    <3>1. phase' = "validate" /\ seen' = seen + 1 /\ (afterFw' <=> filter[seen + 1] = Rest)
      BY <1>2, <2>3, Zenon DEF ValidateToken
    <3>2. LegalSoFar'
      BY <1>1, <1>2, <2>1, <2>3, <3>1
         DEF WalkInv, LegalSoFar, BadToken, ValidateToken
    <3> QED BY <2>1, <3>1, <3>2 DEF WalkInv, ValidIsLegal, MatchIsMeaning
  <2> QED BY <2>2, <2>3, Zenon
<1>3. CASE Validated
  <2>1. Legal(filter)
    <3>1. LegalSoFar /\ seen = Len(filter)
      BY <1>3, Zenon DEF WalkInv, Validated
    <3> QED BY <1>1, <3>1, Zenon DEF LegalSoFar, Legal
  <2> QED
    BY <1>3, <2>1, Zenon
       DEF WalkInv, Validated, ValidIsLegal, MatchIsMeaning, Legal
<1>4. CASE LookupLiteral
  <2>1. (filter = subject) <=> Stands(filter, subject)
    <3>1. PICK n \in Nat \ {0} : n = Len(filter)
      BY <1>1, Zenon
    <3>2. \A i \in 1..n : filter[i] # Star /\ filter[i] # Rest
      BY <1>1, <1>4, <3>1, Zenon DEF LookupLiteral, HasWildcard
    <3>3. filter[n] # Rest
      BY <3>2
    <3>4. Stands(filter, subject) <=>
             Len(subject) = n /\ \A i \in 1..n : filter[i] \in {Star, subject[i]}
      BY <3>1, <3>3, StandsBy, Zenon
    <3> QED BY <3>1, <3>2, <3>4, SameText, Zenon DEF WalkInv
  <2> QED
    BY <1>4, <2>1, Zenon
       DEF WalkInv, LookupLiteral, ValidIsLegal, MatchIsMeaning,
           Legal, Stands
<1>5. CASE LookupWildcard
  <2>1. phase = "lookup" /\ seen = 0 /\ phase' = "walk" /\ UNCHANGED <<filter, subject, seen>>
    BY <1>5, Zenon DEF WalkInv, LookupWildcard
  <2>2. AlikeSoFar'
    BY <1>1, <2>1 DEF AlikeSoFar
  <2>3. ValidIsLegal'
    BY <2>1, Zenon DEF WalkInv, ValidIsLegal, Legal
  <2> QED BY <2>1, <2>2, <2>3, Zenon DEF WalkInv, MatchIsMeaning
<1>6. CASE WalkTokens
  <2>1. /\ AlikeSoFar /\ seen \in Nat
        /\ filter' = filter /\ subject' = subject /\ phase' = WalkAnswer
    BY <1>6, Zenon DEF WalkInv, WalkTokens
  <2>2. Legal(filter) /\ seen' = IF phase' = "walk" THEN seen + 1 ELSE seen
    BY <1>6, Zenon DEF WalkInv, WalkTokens, ValidIsLegal
  <2> DEFINE Answer ==
        \/ phase' = "match" /\ Stands(filter, subject)
        \/ phase' = "differ" /\ ~Stands(filter, subject)
        \/ phase' = "walk" /\ AlikeSoFar'
  <2>3. PICK n, m \in Nat : n = Len(filter) /\ m = Len(subject)
    BY <1>1, Zenon
  <2>4. seen <= n /\ seen <= m /\ \A i \in 1..seen : filter[i] # Rest
                                 /\ filter[i] \in {Star, subject[i]}
    BY <2>1, <2>3, Zenon DEF AlikeSoFar
  <2>5. phase' =
           IF seen < n /\ seen < m /\ filter[seen + 1] = Rest THEN "match"
           ELSE IF seen < n /\ seen < m /\ filter[seen + 1] # subject[seen + 1]
                   /\ filter[seen + 1] # Star THEN "differ"
           ELSE IF (seen < n) # (seen < m) THEN "differ"
           ELSE IF ~(seen < n) THEN "match"
           ELSE "walk"
    BY <2>1, <2>3, Zenon DEF WalkAnswer
  <2>6. /\ seen = n => (Stands(filter, subject) <=> seen = m)
        /\ seen < n /\ seen = m => ~Stands(filter, subject)
        /\ seen < n /\ seen < m /\ filter[seen + 1] = Rest => Stands(filter, subject)
        /\ seen < n /\ seen < m
              /\ filter[seen + 1] \notin {Rest, Star, subject[seen + 1]} =>
              ~Stands(filter, subject)
    BY <2>1, <2>2, <2>3, WalkDecides, Zenon DEF AlikeSoFar, WalkInv
  <2>7. phase' = "walk" => AlikeSoFar'
    <3>1. ASSUME phase' = "walk"
          PROVE  /\ seen' = seen + 1 /\ seen + 1 <= n /\ seen + 1 <= m
                 /\ \A i \in 1..(seen + 1) : filter[i] # Rest
                                 /\ filter[i] \in {Star, subject[i]}
      <4>1. /\ seen < n /\ seen < m /\ filter[seen + 1] # Rest
            /\ filter[seen + 1] \in {Star, subject[seen + 1]}
        BY <2>5, <3>1, Zenon
      <4>2. seen \in Nat /\ seen + 1 <= n /\ seen + 1 <= m BY <2>1, <2>3, <4>1
      <4>3. seen' = seen + 1 BY <2>2, <3>1, Zenon
      <4>4. \A i \in 1..(seen + 1) : i \in 1..seen \/ i = seen + 1 BY <4>2
      <4> QED BY <2>4, <4>1, <4>2, <4>3, <4>4, Zenon
    <3> QED BY <2>1, <2>3, <3>1, Zenon DEF AlikeSoFar
  <2>8. Answer
    <3>1. CASE phase' = "walk" BY <2>7, <3>1, Zenon
    <3>2. CASE seen < n /\ seen < m /\ phase' # "walk" BY <2>5, <2>6, <3>2, Zenon
    <3>3. CASE ~(seen < n) /\ phase' # "walk"
      <4>1. seen = n BY <2>1, <2>3, <2>4, <3>3
      <4>2. seen < m <=> seen # m BY <2>1, <2>3, <2>4
      <4> QED BY <2>5, <2>6, <3>3, <4>1, <4>2, Zenon
    <3>4. CASE seen < n /\ ~(seen < m) /\ phase' # "walk"
      <4>1. seen = m BY <2>1, <2>3, <2>4, <3>4
      <4> QED BY <2>5, <2>6, <3>4, <4>1, Zenon
    <3> QED BY <3>1, <3>2, <3>3, <3>4, Zenon
  <2>9. seen' \in Nat
    BY <2>1, <2>2
  <2> QED
    BY <2>1, <2>2, <2>8, <2>9, Zenon
       DEF WalkInv, ValidIsLegal, MatchIsMeaning, Legal, Stands
<1>7. CASE UNCHANGED subjectsVars
  BY <1>7, Zenon DEF subjectsVars, WalkInv, LegalSoFar, AlikeSoFar, ValidIsLegal,
              MatchIsMeaning, Legal, Stands
<1> QED
  BY <1>2, <1>3, <1>4, <1>5, <1>6, <1>7, Zenon DEF SubjectsNext

\* The walks stay where they should be.
LEMMA WalkHolds == SubjectsSpec => []WalkInv
<1>1. SubjectsInit => WalkInv
  <2> SUFFICES ASSUME SubjectsInit PROVE WalkInv
    BY Zenon
  <2> QED
    BY TextIsSequence DEF SubjectsInit, WalkInv, LegalSoFar, ValidIsLegal, MatchIsMeaning
<1> QED BY <1>1, WalkStep, PTL DEF SubjectsSpec

\* is_valid accepts a filter if and only if the grammar does, for any names and
\* any number of tokens.
THEOREM SubjectsValidIsLegal == SubjectsSpec => []ValidIsLegal
<1>1. WalkInv => ValidIsLegal
  BY Zenon DEF WalkInv
<1> QED BY <1>1, WalkHolds, PTL

\* A published subject is found under a filter, by equality or by the walk of
\* matches, if and only if the filter stands for it.
THEOREM SubjectsMatchIsMeaning == SubjectsSpec => []MatchIsMeaning
<1>1. WalkInv => MatchIsMeaning
  BY Zenon DEF WalkInv
<1> QED BY <1>1, WalkHolds, PTL
=============================================================================
