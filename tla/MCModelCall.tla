----------------------------- MODULE MCModelCall -----------------------------
(***************************************************************************)
(* ModelCall with card numbers of three or four digits, and identifiers of *)
(* two digits and of a label with up to three.                             *)
(***************************************************************************)
EXTENDS ModelCall, TLC

MCDigit == "0" :> 0 @@ "1" :> 1 @@ "8" :> 8

Digits == {"0", "1", "8"}

SeqsUpTo(S, n) == UNION {[1..k -> S] : k \in 0..n}

(* An Aadhaar number, and an account number, which ends anywhere. *)
MCIdentifiers ==
    {[words |-> [1..2 -> Digits] \cup {<<d, "-", e>> : d, e \in Digits}, whole |-> TRUE],
     [words |-> {<<"N">> \o s : s \in [1..2 -> Digits] \cup [1..3 -> Digits]}, whole |-> FALSE]}

(* A payload of two words, on one line or two, or with another inside; a   *)
(* delimiter.                                                              *)
MCStrippable == {<<"p", "q">>, <<"p", "/", "q">>, <<"p", "q", "q">>, <<"p", "p", "q", "/">>}
MCMustBlock == {<<"b">>}

(* Texts for the injection rail, among them payloads around payloads, and  *)
(* texts for the PII rail, the longest of them over the size limit.        *)
Plain == SeqsUpTo({"p", "q", "/"}, 4) \cup {<<"p", "q", "/", "p", "q">>, <<"p", "p", "q", "/", "q">>}
         \cup SeqsUpTo({"a", "b", "v", "w", "/"}, 3)
Numbers == SeqsUpTo({"0", "1", "8", "-", "N"}, 4)
           \cup {<<"N">> \o s : s \in [1..4 -> {"0", "8"}]}
           \cup {s \o <<"-">> \o t : s \in [1..2 -> Digits], t \in [1..3 -> {"1", "8", "0"}]}
           \cup {[i \in 1..7 |-> "8"]}

MCQuestions == Plain \cup Numbers

MCReplies ==
    {[form |-> f, text |-> <<"a">>] : f \in Forms}
    \cup {[form |-> "grounded", text |-> t] :
            t \in {<<"f">>, <<"N", "8", "1", "0", "f">>, [i \in 1..7 |-> "8"],
                   <<"8", "1", "0">>, <<"8", "1", "-", "0">>}}

MCHints == {NoHint, 0, 2, 60}
=============================================================================
