------------------------------ MODULE Subjects ------------------------------
(***************************************************************************)
(* The subject grammar and the match of a filter against a published       *)
(* subject (crates/server/src/subjects.rs), as the token walks of the      *)
(* code, one step per iteration.  A SUB's filter is validated, then a      *)
(* published subject is looked for under it the way the registry does:     *)
(* by equality for a literal filter, by the walk for a wildcard one.       *)
(*                                                                         *)
(* A subject is the sequence of tokens between its dots; a token is one of *)
(* a few kinds the grammar tells apart.                                    *)
(***************************************************************************)
EXTENDS Integers, Sequences

CONSTANTS
    Names,      \* ordinary tokens, legal ones of any length
    MaxTokens   \* bound: tokens of a subject

Star == "*"
Rest == ">"
Empty == ""       \* what two dots in a row, or an empty subject, leave
Blank == "a b"    \* a longer token with a white-space byte in it

Tokens == Names \cup {Star, Rest, Empty, Blank}
Texts == UNION {[1..n -> Tokens] : n \in 1..MaxTokens}

VARIABLES
    filter, subject,
    seen,     \* tokens walked so far
    afterFw,  \* is_valid's after_fw
    phase,    \* "validate", "lookup", "walk", or the answer:
              \* "invalid", "match", "differ"
    walked    \* the answer came from the walk, not from the literal map

subjectsVars == <<filter, subject, seen, afterFw, phase, walked>>

\* Any text can be published: a publish subject is not validated unless the
\* client is pedantic, and then it is only complained about.
SubjectsInit ==
    /\ filter \in Texts /\ subject \in Texts
    /\ subject # <<Empty>>
    /\ seen = 0 /\ afterFw = FALSE /\ phase = "validate" /\ walked = FALSE

-----------------------------------------------------------------------------
(* is_valid                                                                *)

\* Mutant of BadToken: a token may follow the trailing wildcard.
BadTokenAnywhere(token) == token \in {Empty, Blank}

BadToken(token) == token = Empty \/ afterFw \/ token = Blank

ValidateToken ==
    /\ phase = "validate" /\ seen < Len(filter)
    /\ IF BadToken(filter[seen + 1])
         THEN phase' = "invalid" /\ UNCHANGED <<seen, afterFw>>
         ELSE /\ seen' = seen + 1
              /\ afterFw' = (filter[seen + 1] = Rest)
              /\ UNCHANGED phase
    /\ UNCHANGED <<filter, subject, walked>>

Validated ==
    /\ phase = "validate" /\ seen = Len(filter)
    /\ phase' = "lookup" /\ seen' = 0
    /\ UNCHANGED <<filter, subject, afterFw, walked>>

-----------------------------------------------------------------------------
(* has_wildcard, and the two places a subscription can be filed            *)

HasWildcard(text) == \E i \in DOMAIN text : text[i] \in {Star, Rest}

\* The literal map of the registry is looked up by the published bytes.
LookupLiteral ==
    /\ phase = "lookup" /\ ~HasWildcard(filter)
    /\ phase' = IF filter = subject THEN "match" ELSE "differ"
    /\ UNCHANGED <<filter, subject, seen, afterFw, walked>>

LookupWildcard ==
    /\ phase = "lookup" /\ HasWildcard(filter)
    /\ phase' = "walk" /\ walked' = TRUE
    /\ UNCHANGED <<filter, subject, seen, afterFw>>

-----------------------------------------------------------------------------
(* matches                                                                 *)

\* Mutant of WalkAnswer: a trailing wildcard also matches nothing.
WalkAnswerEmptyTail ==
    LET f == seen < Len(filter)
        s == seen < Len(subject)
    IN  IF f /\ filter[seen + 1] = Rest THEN "match"
        ELSE IF f /\ s /\ filter[seen + 1] # subject[seen + 1] /\ filter[seen + 1] # Star THEN "differ"
        ELSE IF f # s THEN "differ"
        ELSE IF ~f THEN "match"
        ELSE "walk"

\* One iteration: both walks take a token, or one or both have run out.
WalkAnswer ==
    LET f == seen < Len(filter)
        s == seen < Len(subject)
    IN  IF f /\ s /\ filter[seen + 1] = Rest THEN "match"
        ELSE IF f /\ s /\ filter[seen + 1] # subject[seen + 1] /\ filter[seen + 1] # Star THEN "differ"
        ELSE IF f # s THEN "differ"
        ELSE IF ~f THEN "match"
        ELSE "walk"

WalkTokens ==
    /\ phase = "walk"
    /\ phase' = WalkAnswer
    /\ seen' = IF WalkAnswer = "walk" THEN seen + 1 ELSE seen
    /\ UNCHANGED <<filter, subject, afterFw, walked>>

SubjectsNext == ValidateToken \/ Validated \/ LookupLiteral \/ LookupWildcard \/ WalkTokens

SubjectsSpec == SubjectsInit /\ [][SubjectsNext]_subjectsVars

-----------------------------------------------------------------------------
(* Properties                                                              *)

\* The grammar of the contract: no empty token, `>` only at the end, no white
\* space inside a token.
Legal(text) ==
    \A i \in DOMAIN text :
        /\ text[i] \notin {Empty, Blank}
        /\ text[i] = Rest => i = Len(text)

\* is_valid accepts exactly the legal filters.
ValidIsLegal ==
    /\ phase = "invalid" => ~Legal(filter)
    /\ phase \in {"lookup", "walk", "match", "differ"} => Legal(filter)

\* What a filter stands for: `*` for one token, a trailing `>` for one or more.
Stands(f, s) ==
    LET open == f[Len(f)] = Rest
        fixed == IF open THEN Len(f) - 1 ELSE Len(f)
    IN  /\ IF open THEN Len(s) > fixed ELSE Len(s) = fixed
        /\ \A i \in 1..fixed : f[i] \in {Star, s[i]}

\* Wherever a subscription is filed, literal map or wildcard list, a published
\* subject is found under it exactly when the filter stands for it.
MatchIsMeaning ==
    /\ phase = "match" => Stands(filter, subject)
    /\ phase = "differ" => ~Stands(filter, subject)

\* "publishes to a wildcard subject silently and the message is dropped": a
\* publish whose subject is not a literal reaches no subscription.
WildcardPublishDropped == phase = "match" => ~HasWildcard(subject)
=============================================================================
