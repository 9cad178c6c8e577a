-------------------------------- MODULE Rails --------------------------------
(***************************************************************************)
(* The text algorithms of fsa_guardrails/rails.py: the injection rail's    *)
(* removal and re-scan, the PII rail's Luhn window and its choice among    *)
(* overlapping spans, the tenant rail's verdict.                           *)
(*                                                                         *)
(* A text is a sequence of characters, a span <<a, b>> the positions a to  *)
(* b - 1 of it.  A regular expression is the set of words it matches.      *)
(***************************************************************************)
EXTENDS Sorting, SequencesExt, FiniteSetsExt

CONSTANTS
    Digit,                 \* Digit[c]: the value of a digit character c
    Separators,            \* what may stand between the digits of a run
    MinCard, MaxCard,      \* digits of a card number (13 and 19)
    MaxScan,               \* MAX_SCAN_CHARS
    Identifiers,           \* _PII_PATTERNS: [words, whole], whole when the
                           \*   pattern ends at a word boundary
    Strippable, MustBlock, \* words of the injection families
    Imperative, Context, Newline,  \* characters of the heuristic
    Foreign                \* entity ids of other tenants

ASSUME RailsAssumption ==
    /\ Digit \in [DOMAIN Digit -> 0..9]
    /\ Separators \cap DOMAIN Digit = {}
    /\ MinCard \in Nat \ {0, 1} /\ MaxCard \in Nat /\ MinCard <= MaxCard
    /\ MaxScan \in Nat

Mark == "#"   \* a redacted character, whatever the label

Positions(span) == span[1]..(span[2] - 1)

Piece(text, span) == SubSeq(text, span[1], span[2] - 1)

Spans(text) == {s \in (1..Len(text)) \X (2..(Len(text) + 1)) : s[1] < s[2]}

(* The order of the PII rail's sort: by start, then the longest first. *)
Before(s, t) == s[1] < t[1] \/ (s[1] = t[1] /\ s[2] > t[2])

(* The order of the injection rail's: that of pairs. *)
Precedes(s, t) == s[1] < t[1] \/ (s[1] = t[1] /\ s[2] < t[2])

(* The first span, as a set: none of no spans. *)
First(spans) == {s \in spans : \A t \in spans \ {s} : Before(s, t)}

(* From the sorted spans, each that begins at or after the end of the last *)
(* one taken: the cursor of scan_pii, and re.finditer for one pattern.     *)
Taken(spans, from) ==
    LET take[c \in Int] ==
          UNION {{s} \cup take[s[2]] : s \in First({t \in spans : t[1] >= c})}
    IN  take[from]

Occurrences(text, words) == {s \in Spans(text) : Piece(text, s) \in words}

Matches(text, words) == Taken(Occurrences(text, words), 1)

----------------------------------------------------------------------------
(* The injection rail. *)

Trips(text) == Occurrences(text, Strippable \cup MustBlock) # {}

(* Lines that hold an imperative verb and an instruction-shaped word.      *)
SuspectLines(text) ==
    {s \in Spans(text) :
        /\ Newline \notin Range(Piece(text, s))
        /\ s[1] = 1 \/ text[s[1] - 1] = Newline
        /\ s[2] = Len(text) + 1 \/ text[s[2]] = Newline
        /\ {Imperative, Context} \subseteq Range(Piece(text, s))}

(* The heuristic speaks only when no pattern did. *)
Findings(text) ==
    IF Trips(text)
      THEN UNION {Matches(text, {w}) : w \in Strippable \cup MustBlock}
      ELSE SuspectLines(text)

(* Mutant: a span inside the last one shortens it.                         *)
JoinedNarrowed(merged, s) ==
    IF merged # <<>> /\ s[1] <= merged[Len(merged)][2]
      THEN [merged EXCEPT ![Len(merged)] = <<@[1], s[2]>>]
      ELSE Append(merged, s)

(* A span that overlaps or touches the last one extends it. *)
Joined(merged, s) ==
    IF merged # <<>> /\ s[1] <= merged[Len(merged)][2]
      THEN [merged EXCEPT ![Len(merged)] = <<@[1], IF @[2] > s[2] THEN @[2] ELSE s[2]>>]
      ELSE Append(merged, s)

(* Spans that overlap or touch become one. *)
Merge(spans) ==
    LET sorted == Sorted(spans, Precedes)
        merged[i \in 0..Cardinality(spans)] ==
          IF i = 0 THEN <<>> ELSE Joined(merged[i - 1], sorted[i])
    IN  merged[Cardinality(spans)]

Cut(text, s) == SubSeq(text, 1, s[1] - 1) \o SubSeq(text, s[2], Len(text))

(* The merged spans are cut from the last to the first. *)
Without(text, merged) ==
    LET rest[i \in 0..Len(merged)] ==
          IF i = 0 THEN text ELSE Cut(rest[i - 1], merged[Len(merged) + 1 - i])
    IN  rest[Len(merged)]

scan_injection(text) ==
    LET found == Findings(text)
        rest  == Without(text, Merge(found))
    IN  IF found = {} THEN [action |-> "allow", sanitised |-> text]
        ELSE IF Occurrences(text, MustBlock) # {} \/ Trips(rest)
               THEN [action |-> "block", sanitised |-> <<>>]
               ELSE [action |-> "strip", sanitised |-> rest]

----------------------------------------------------------------------------
(* The PII rail. *)

Doubled(d) == IF 2 * d > 9 THEN 2 * d - 9 ELSE 2 * d

(* _luhn_ok, on the digits' values in order. *)
LuhnOk(ds) ==
    MapThenSumSet(LAMBDA i : IF (i - 1) % 2 = Len(ds) % 2 THEN Doubled(ds[i]) ELSE ds[i],
                  DOMAIN ds) % 10 = 0

(* _DIGIT_RUN: maximal runs of digits and separators, of MinCard at least. *)
DigitRuns(text) ==
    LET in(i) == i \in DOMAIN text /\ text[i] \in DOMAIN Digit \cup Separators
    IN  {s \in Spans(text) :
            /\ \A i \in Positions(s) : in(i)
            /\ ~in(s[1] - 1) /\ ~in(s[2])
            /\ Cardinality(Positions(s)) >= MinCard}

(* The offsets of a run's digits, in order. *)
Offsets(text, run) ==
    Sorted({i \in Positions(run) : text[i] \in DOMAIN Digit}, <)

(* Window lengths l at digit i whose digits pass Luhn. *)
CardLengths(text, offsets, i) ==
    {l \in MinCard..MaxCard :
        /\ i + l - 1 <= Len(offsets)
        /\ LuhnOk([j \in 1..l |-> Digit[text[offsets[i + j - 1]]]])}

(* Mutant: only the longest window at the start of a run is tried. *)
CardSpansGreedy(text) ==
    {<<Offsets(text, run)[1], Offsets(text, run)[Max(CardLengths(text, Offsets(text, run), 1))] + 1>> :
        run \in {s \in DigitRuns(text) : Offsets(text, s) # <<>>
                                         /\ CardLengths(text, Offsets(text, s), 1) # {}}}

(* _card_spans: at each digit the longest window that passes, and on past  *)
(* its end.                                                                *)
CardSpans(text) ==
    UNION {LET offsets == Offsets(text, run)
               slide[i \in 1..(Len(offsets) + 1)] ==
                 IF i > Len(offsets) THEN {}
                 ELSE LET lengths == CardLengths(text, offsets, i)
                      IN  IF lengths = {} THEN slide[i + 1]
                          ELSE LET l == Max(lengths)
                               IN  {<<offsets[i], offsets[i + l - 1] + 1>>} \cup slide[i + l]
           IN  slide[1]
           : run \in DigitRuns(text)}

(* \b: a word character beside none. *)
Boundary(text, i) ==
    i \in {1, Len(text) + 1} \/ text[i - 1] \in Separators \/ text[i] \in Separators

IdentifierSpans(text) ==
    UNION {Taken({s \in Occurrences(text, p.words) :
                     Boundary(text, s[1]) /\ (p.whole => Boundary(text, s[2]))}, 1)
           : p \in Identifiers}

Accepted(text) == Taken(CardSpans(text) \cup IdentifierSpans(text), 1)

Redacted(text, spans) ==
    [i \in DOMAIN text |-> IF \E s \in spans : i \in Positions(s) THEN Mark ELSE text[i]]

scan_pii(text) ==
    IF Len(text) > MaxScan THEN [action |-> "block", sanitised |-> <<>>]
    ELSE [action |-> IF Accepted(text) = {} THEN "allow" ELSE "strip",
          sanitised |-> Redacted(text, Accepted(text))]

----------------------------------------------------------------------------
(* The tenant rail, as the pipeline calls it: without permitted ids.       *)

scan_tenant_leakage(text) ==
    IF Range(text) \cap Foreign # {} THEN "block" ELSE "allow"
=============================================================================
