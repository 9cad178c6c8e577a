--------------------------- MODULE FraudInjection ---------------------------
(***************************************************************************)
(* inject_fraud (fsa_sim/adversarial/fraud.py): a typology is drawn for    *)
(* each target from the claims it is possible for, then the ledger is      *)
(* rewritten claim by claim, and every claim that leaves gets a label.     *)
(*                                                                         *)
(* A label holds what happened (fraud), what the business recorded         *)
(* (observed) and when (confirmed).                                        *)
(***************************************************************************)
EXTENDS Spend

CONSTANTS
    BaseRate,        \* percent of the claims that are targets
    Ceiling,         \* approval_threshold_minor
    Stride,          \* ids set aside for a claim, 10 in the code
    Weights,         \* weights of the legs of a split, 80..120 in the code
    SplitShifts,     \* days between a split claim and a leg, 0..3
    SplitLags,       \* days to a leg's submission, 0..4
    Gaps,            \* days between a receipt and its resubmission, 30..90
    ResubmitLags,    \* days to the resubmission, 1..7
    Jitters,         \* percent of the amount a duplicate claims
    Paddings,        \* percent an inflated claim claims, 115..130
    GhostFactors,    \* percent a ghost vendor's invoice claims, 200..600
    FineGrid, CoarseGrid, CoarseAbove,  \* the round figures it is snapped to
    DinnerFactors,   \* percent a personal claim claims, 110..200
    DinnerLags,      \* days to its submission, 1..9
    CleanLags,       \* days to a reimbursement, 2..10
    AuditLags        \* days to an audit's verdict, 0..400

ASSUME InjectionAssumption ==
    /\ BaseRate \in 0..100
    /\ Ceiling \in Nat /\ Ceiling >= 3
    /\ Stride \in Nat \ {0}
    /\ Weights \subseteq 80..120
    /\ SplitShifts \subseteq 0..3 /\ SplitLags \subseteq 0..4
    /\ Gaps \subseteq 30..90 /\ ResubmitLags \subseteq 1..7
    /\ Jitters \subseteq Nat
    /\ Paddings \subseteq 115..130 /\ GhostFactors \subseteq 200..600
    /\ DinnerFactors \subseteq 110..200 /\ DinnerLags \subseteq 1..9
    /\ FineGrid \in Nat \ {0} /\ CoarseGrid \in Nat \ {0} /\ CoarseAbove \in Nat
    /\ CleanLags \subseteq 2..10 /\ AuditLags \subseteq 0..400

VARIABLES
    expenses,  \* the argument: honest claims
    colluder,  \* index of a user, 0 if no employee has a manager
    plan,      \* plan[i]: the typology of claim i, "none" when it stays honest
    drawn,     \* targets drawn
    index,     \* claims rewritten
    kept, labels, ghosts,  \* the results
    seq

injection == <<expenses, colluder, plan, drawn, index, kept, labels, ghosts, seq>>

Typologies == {"duplicate", "split", "inflation", "ghost_vendor", "collusion", "personal"}

FraudId(n) == <<"exp-f", n>>

GhostId(n) == <<"ghost", n>>

(* The catalogue's ids are of another kind. *)
ASSUME VendorsAssumption == \A v \in Vendors : v.id[1] # "ghost"

Percent(amount, percent) == (amount * percent) \div 100

(* Mutant: an amount may round to nothing. *)
AtLeastOneMissing(amount) == amount

AtLeastOne(amount) == IF amount < 1 THEN 1 ELSE amount

----------------------------------------------------------------------------
(* The typologies: the sequences of claims a claim can become. *)

(* Mutant: the copy is hashed anew. *)
DuplicatesRehashed(claim, n) ==
    UNION {{<<[claim EXCEPT !.id = FraudId(n), !.day = claim.day + gap, !.at = at,
                            !.phash = Phash(claim.vendor, claim.amount, claim.day + gap, 0)]>> :
               at \in UNION {Stamps(claim.day + gap + lag) : lag \in ResubmitLags}} :
        gap \in Gaps}

(* _duplicate: the same receipt under another amount and date. *)
Copy(claim, n, gap, jitter, at) ==
    [claim EXCEPT !.id = FraudId(n), !.day = claim.day + gap, !.at = at,
                  !.amount = AtLeastOne(Percent(claim.amount, jitter))]

Duplicates(claim, n) ==
    UNION {{<<Copy(claim, n, gap, jitter, at)>> :
               jitter \in Jitters, at \in UNION {Stamps(claim.day + gap + lag) : lag \in ResubmitLags}} :
        gap \in Gaps}

(* n_legs: enough that each is below the limit with some headroom. *)
NLegs(amount) ==
    LET headroom == Percent(Ceiling, 92)
        n == (amount + headroom - 1) \div headroom
    IN IF n < 2 THEN 2 ELSE n

Sum(s) ==
    LET total[i \in 0..Len(s)] == IF i = 0 THEN 0 ELSE total[i - 1] + s[i]
    IN  total[Len(s)]

Least(a, b) == IF a < b THEN a ELSE b

(* Mutant: a leg may be as large as the limit. *)
ClampClosed(amount) == AtLeastOne(Least(amount, Ceiling))

Clamp(amount) == AtLeastOne(Least(amount, Ceiling - 1))

(* The amounts of the legs: a weighted share each, the rest for the last,  *)
(* each kept below the limit.                                              *)
LegAmounts(amount, weights) ==
    LET n == Len(weights)
        share(i) == (amount * weights[i]) \div Sum(weights)
        front == [i \in 1..(n - 1) |-> Clamp(share(i))]
    IN Append(front, Clamp(amount - Sum(front)))

Leg(claim, n, i, amount, day, at) ==
    [claim EXCEPT !.id = FraudId(n + i - 1), !.amount = amount, !.day = day, !.at = at,
                  !.phash = Phash(claim.vendor, amount, day, i)]

(* _split *)
Splits(claim, n) ==
    LET legs == 1..NLegs(claim.amount)
    IN {[i \in legs |-> Leg(claim, n, i, LegAmounts(claim.amount, weights)[i], claim.day + shift[i],
                            24 * (claim.day + shift[i] + lag[i]) + hour[i])] :
            weights \in [legs -> Weights], shift \in [legs -> SplitShifts],
            lag \in [legs -> SplitLags], hour \in [legs -> Hours]}

(* _inflate: the receipt stays as it is. *)
Inflations(claim) == {<<[claim EXCEPT !.amount = AtLeastOne(Percent(claim.amount, p))]>> :
                          p \in Paddings}

(* _ghost_vendor: an invoice over a round figure on a receipt of its own. *)
Invoices(claim, vendor) ==
    LET figure(p) ==
            LET inflated == Percent(claim.amount, p)
                grid == IF inflated > CoarseAbove THEN CoarseGrid ELSE FineGrid
                round == ((inflated + grid \div 2) \div grid) * grid
            IN IF round < grid THEN grid ELSE round
    IN {<<[claim EXCEPT !.vendor = vendor, !.amount = figure(p), !.payload = FALSE,
                        !.phash = Phash(vendor, figure(p), claim.day, 0)]>> : p \in GhostFactors}

(* _personal: spent on the following Saturday, never on the same day. *)
Saturday(day) ==
    LET shift == (5 - Weekday(day)) % 7
    IN  day + IF shift = 0 THEN 7 ELSE shift

Dinner(claim, p, at) ==
    [claim EXCEPT !.category = "client_entertainment", !.amount = AtLeastOne(Percent(claim.amount, p)),
                  !.day = Saturday(claim.day), !.at = at]

Dinners(claim) ==
    {<<Dinner(claim, p, at)>> :
        p \in DinnerFactors, at \in UNION {Stamps(Saturday(claim.day) + lag) : lag \in DinnerLags}}

----------------------------------------------------------------------------
(* Labels. *)

Resolutions(claim, lags) == UNION {Stamps(DayOf(claim.at) + lag) : lag \in lags}

CleanLabels(claim) ==
    {[id |-> claim.id, fraud |-> FALSE, typology |-> "none", observed |-> FALSE,
      confirmed |-> at, linked |-> {}] : at \in Resolutions(claim, CleanLags)}

(* Caught by an audit, or recorded clean at the reimbursement. *)
FraudLabels(claim, typology, linked) ==
    {[id |-> claim.id, fraud |-> TRUE, typology |-> typology, observed |-> TRUE,
      confirmed |-> at, linked |-> linked] : at \in Resolutions(claim, AuditLags)}
    \cup {[id |-> claim.id, fraud |-> TRUE, typology |-> typology, observed |-> FALSE,
           confirmed |-> at, linked |-> linked] : at \in Resolutions(claim, CleanLags)}

----------------------------------------------------------------------------
(* The plan. *)

Targets == Percent(Len(expenses), BaseRate)

Colluders == {i \in DOMAIN Users : Users[i].role = "employee" /\ Users[i].manager # None}

(* The claims a typology is possible for. *)
Pool(typology) ==
    {i \in DOMAIN expenses :
        /\ plan[i] = "none"
        /\ typology = "split" => expenses[i].amount > Ceiling
        /\ typology = "collusion" => colluder # 0 /\ expenses[i].user = Users[colluder].id}

(* The loop over targets: an exhausted pool degrades to inflation. *)
DrawTarget ==
    /\ drawn < Targets
    /\ \E typology \in Typologies :
          \/ \E i \in Pool(typology) : plan' = [plan EXCEPT ![i] = typology]
          \/ /\ Pool(typology) = {}
             /\ \E i \in Pool("inflation") : plan' = [plan EXCEPT ![i] = "inflation"]
    /\ drawn' = drawn + 1
    /\ UNCHANGED <<expenses, colluder, index, kept, labels, ghosts, seq>>

----------------------------------------------------------------------------
(* The rewriting loop, over the claim after index. *)

Current == expenses[index + 1]

Rewriting == drawn = Targets /\ index < Len(expenses)

KeepHonest ==
    /\ Rewriting /\ plan[index + 1] = "none"
    /\ kept' = Append(kept, Current)
    /\ \E label \in CleanLabels(Current) : labels' = Append(labels, label)
    /\ index' = index + 1
    /\ UNCHANGED <<expenses, colluder, plan, drawn, ghosts, seq>>

(* Mutant: the sequence number counts targets. *)
EmitUnstrided(before, produced, beforeLabels, linked) ==
    /\ kept' = kept \o before \o produced
    /\ \E given \in [DOMAIN produced -> UNION {FraudLabels(produced[i], plan[index + 1], linked) :
                                                  i \in DOMAIN produced}] :
          /\ \A i \in DOMAIN produced : given[i].id = produced[i].id
          /\ labels' = labels \o beforeLabels \o given
    /\ index' = index + 1
    /\ seq' = seq + 1
    /\ UNCHANGED <<expenses, colluder, plan, drawn>>

(* The claims produced in place of, or after, what is kept of the claim.   *)
Emit(before, produced, beforeLabels, linked) ==
    /\ kept' = kept \o before \o produced
    /\ \E given \in [DOMAIN produced -> UNION {FraudLabels(produced[i], plan[index + 1], linked) :
                                                  i \in DOMAIN produced}] :
          /\ \A i \in DOMAIN produced : given[i].id = produced[i].id
          /\ labels' = labels \o beforeLabels \o given
    /\ index' = index + 1
    /\ seq' = seq + Stride
    /\ UNCHANGED <<expenses, colluder, plan, drawn>>

(* The original submission is kept. *)
RewriteDuplicate ==
    /\ Rewriting /\ plan[index + 1] = "duplicate"
    /\ \E copy \in Duplicates(Current, seq + Stride), label \in CleanLabels(Current) :
          Emit(<<Current>>, copy, <<label>>, {Current.id})
    /\ UNCHANGED ghosts

RewriteSplit ==
    /\ Rewriting /\ plan[index + 1] = "split"
    /\ \E legs \in Splits(Current, seq + Stride) :
          Emit(<<>>, legs, <<>>, {legs[i].id : i \in DOMAIN legs})
    /\ UNCHANGED ghosts

(* A new vendor, seen a few days earlier but not before the world. *)
FirstSeen(day) == IF day < 9 THEN 0 ELSE day - 9

RewriteGhost ==
    /\ Rewriting /\ plan[index + 1] = "ghost_vendor"
    /\ \E invoice \in Invoices(Current, GhostId(seq + Stride)) : Emit(<<>>, invoice, <<>>, {})
    /\ ghosts' = Append(ghosts, [id |-> GhostId(seq + Stride), category |-> Current.category,
                                 firstSeen |-> FirstSeen(Current.day)])

RewritePersonal ==
    /\ Rewriting /\ plan[index + 1] = "personal"
    /\ \E dinner \in Dinners(Current) : Emit(<<>>, dinner, <<>>, {})
    /\ UNCHANGED ghosts

(* A colluder's claim is an inflation linked to the manager. *)
RewriteInflation ==
    /\ Rewriting /\ plan[index + 1] \in {"inflation", "collusion"}
    /\ \E padded \in Inflations(Current) :
          Emit(<<>>, padded, <<>>,
               IF plan[index + 1] = "collusion" THEN {Users[colluder].manager} ELSE {})
    /\ UNCHANGED ghosts

Inject ==
    \/ DrawTarget
    \/ KeepHonest
    \/ RewriteDuplicate
    \/ RewriteSplit
    \/ RewriteGhost
    \/ RewritePersonal
    \/ RewriteInflation

(* The call of inject_fraud, with the colluder drawn first. *)
Called(claims) ==
    /\ expenses' = claims
    /\ plan' = [i \in DOMAIN claims |-> "none"]
    /\ IF claims = <<>> \/ Colluders = {} THEN colluder' = 0 ELSE colluder' \in Colluders
    /\ UNCHANGED <<drawn, index, kept, labels, ghosts, seq>>

Returned == drawn = Targets /\ index = Len(expenses)
=============================================================================
