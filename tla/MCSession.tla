----------------------------- MODULE MCSession ------------------------------
(* Instances of Session for TLC.                                           *)
EXTENDS Session

Line(verb, nargs, valid) == [verb |-> verb, nargs |-> nargs, valid |-> valid, len |-> 1]

Options(h, v, p) == [headers |-> h, verbose |-> v, pedantic |-> p]

Connect(valid, o) ==
    [verb |-> "CONNECT", nargs |-> 1, valid |-> valid, len |-> 1, sets |-> o]

Pub(verb, nargs, hdr, total, end, valid) ==
    [verb |-> verb, nargs |-> nargs, valid |-> valid, len |-> 1,
     hdr |-> hdr, total |-> total, end |-> end]

CRLF == <<"CR", "LF">>

\* Commands that leave the connection open.
Staying ==
    {Line("PING", -1, TRUE), Line("PONG", 0, TRUE), Line("+OK", -1, TRUE),
     Line("INFO", 1, TRUE), Line("SUB", 2, TRUE), Line("SUB", 3, FALSE),
     Line("UNSUB", 1, TRUE),
     Connect(TRUE, Options(TRUE, FALSE, FALSE)),
     Connect(TRUE, [headers |-> TRUE]),
     Pub("PUB", 2, 0, 0, CRLF, TRUE), Pub("PUB", 3, 0, 2, CRLF, FALSE),
     Pub("PUB", 2, 0, 3, CRLF, TRUE)}

\* Commands that end it, or may.
Ending ==
    {[Line("LF", -1, TRUE) EXCEPT !.len = 0], Line("", -1, TRUE), Line("SUB", -1, TRUE), Line("SUB", 4, TRUE),
     Line("UNSUB", 3, TRUE), Line("CONNECT", -1, TRUE), Line("INFO", 1, FALSE),
     Line("-ERR", -1, TRUE), Line("-ERR", 1, TRUE),
     Connect(FALSE, Options(TRUE, TRUE, TRUE)),
     [Line("PING", -1, TRUE) EXCEPT !.len = 4],
     Pub("PUB", -1, 0, 0, <<>>, TRUE), Pub("PUB", 4, 0, 0, <<>>, TRUE),
     Pub("PUB", 2, 0, -1, <<>>, TRUE), Pub("PUB", 2, 0, 4, <<>>, TRUE),
     Pub("PUB", 2, 0, 1, <<"other">>, TRUE), Pub("PUB", 2, 0, 2, <<"CR", "other">>, TRUE),
     Pub("PUB", 2, 0, 2, <<"CR">>, TRUE),
     Pub("HPUB", 2, 0, 0, <<>>, TRUE), Pub("HPUB", 3, 1, 2, CRLF, TRUE),
     Pub("HPUB", 3, 2, 1, <<>>, TRUE), Pub("HPUB", 3, 1, 4, <<>>, TRUE), Pub("HPUB", 3, 1, 1, <<"other">>, TRUE)}

\* Every way to stay or to end, each after any of the others.
SegmentCommands == Staying \cup Ending

\* A body of three bytes.
BodyCommands == {Pub("PUB", 2, 0, 3, CRLF, TRUE)}

\* A client without headers that uses HPUB.
HpubCommands ==
    {Pub("HPUB", 3, 1, 4, CRLF, TRUE), Pub("HPUB", 3, 1, 2, CRLF, TRUE), Line("", -1, TRUE)}
=============================================================================
