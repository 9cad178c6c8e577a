----------------------------- MODULE FraudWorld -----------------------------
(***************************************************************************)
(* A tenant's expenses from the honest ledger to the training matrix       *)
(* (fsa_sim/world/generator.py, fsa_ml/features/build.py): honest spend,   *)
(* fraud, injection payloads and budgets, in this order, and then the      *)
(* features and labels of the world as of some instants.                   *)
(***************************************************************************)
EXTENDS FraudInjection, Features

CONSTANTS
    InjectionRate,  \* percent of the receipts that carry a payload
    AsOfs           \* instants a model is trained or evaluated at

VARIABLES
    stage,     \* "spend", "inject", "budgets" or "done"
    claims,    \* the tenant's expenses
    vendors,   \* the catalogue and the ghost vendors
    injected,  \* ids of the claims with an InjectionLabel
    budgets    \* limits by department, category and quarter

vars == <<injection, stage, claims, vendors, injected, budgets>>

ASSUME WorldConfigAssumption ==
    /\ Threshold = Ceiling
    /\ InjectionRate \in 0..100
    /\ AsOfs \subseteq Nat

Init ==
    /\ expenses = <<>> /\ colluder = 0 /\ plan = <<>> /\ drawn = 0 /\ index = 0
    /\ kept = <<>> /\ labels = <<>> /\ ghosts = <<>> /\ seq = 0
    /\ stage = "spend"
    /\ claims = <<>> /\ vendors = {} /\ injected = {} /\ budgets = <<>>

(* _plant, in the receipts at some positions. *)
Planted(ledger, targets) ==
    [i \in DOMAIN ledger |-> IF i \in targets THEN [ledger[i] EXCEPT !.payload = TRUE] ELSE ledger[i]]

TargetSets(ledger) ==
    {S \in SUBSET (DOMAIN ledger) : Cardinality(S) = Percent(Len(ledger), InjectionRate)}

(* Mutant: the payloads are planted before the fraud. *)
GenerateTainted ==
    /\ stage = "spend"
    /\ \E ledger \in Baseline : \E targets \in TargetSets(ledger) :
          /\ Called(Planted(ledger, targets))
          /\ injected' = {ledger[i].id : i \in targets}
    /\ stage' = "inject"
    /\ UNCHANGED <<claims, vendors, budgets>>

Generate ==
    /\ stage = "spend"
    /\ \E ledger \in Baseline : Called(ledger)
    /\ stage' = "inject"
    /\ UNCHANGED <<claims, vendors, injected, budgets>>

InjectFraud ==
    /\ stage = "inject"
    /\ Inject
    /\ UNCHANGED <<stage, claims, vendors, injected, budgets>>

(* inject_payloads: one label for each tainted receipt. *)
InjectPayloads ==
    /\ stage = "inject" /\ Returned
    /\ \E targets \in TargetSets(kept) :
          /\ claims' = Planted(kept, targets)
          /\ injected' = injected \cup {kept[i].id : i \in targets}
    /\ vendors' = Vendors \cup Rows(ghosts)
    /\ stage' = "budgets"
    /\ UNCHANGED <<injection, budgets>>

BudgetKey(c) == <<c.department, c.category, Quarter(c.day)>>

(* What was spent under a key. *)
Spent(ledger, key) ==
    Sum([i \in DOMAIN ledger |-> IF BudgetKey(ledger[i]) = key THEN ledger[i].amount ELSE 0])

Limits(ledger) ==
    [key \in {BudgetKey(c) : c \in Rows(ledger)} |-> Percent(Spent(ledger, key), 115)]

DeriveBudgets ==
    /\ stage = "budgets"
    /\ budgets' = Limits(claims)
    /\ stage' = "done"
    /\ UNCHANGED <<injection, claims, vendors, injected>>

Next ==
    \/ Generate
    \/ InjectFraud
    \/ InjectPayloads
    \/ DeriveBudgets

Spec == Init /\ [][Next]_vars

----------------------------------------------------------------------------
Done == stage = "done"

(* What each variable holds. *)
TypeOK ==
    /\ stage \in {"spend", "inject", "budgets", "done"}
    /\ \A c \in Rows(expenses) \cup Rows(kept) \cup Rows(claims) :
          c.amount \in Nat \ {0} /\ c.day \in Nat /\ c.at >= 24 * c.day /\ c.payload \in BOOLEAN
    /\ colluder \in 0..Len(Users)
    /\ plan \in [DOMAIN expenses -> Typologies \cup {"none"}]
    /\ drawn \in 0..Targets /\ index \in 0..Len(expenses)
    /\ \A l \in Rows(labels) : l.fraud \in BOOLEAN /\ l.observed \in BOOLEAN /\ l.confirmed \in Nat
    /\ injected \subseteq {c.id : c \in Rows(claims)}

(* The i-th label is of the i-th claim; what is labelled honest is exactly *)
(* as it was generated, and only fraud is ever recorded as fraud.  Ghost   *)
(* vendors have ids of their own.  Two claims have one id only where a     *)
(* claim has been split into more legs than ids are set aside for it: one  *)
(* of them is a leg beyond these (inject_fraud).                           *)
LabelledInPlace ==
    Done =>
        /\ DOMAIN labels = DOMAIN claims
        /\ \A i \in DOMAIN claims :
              /\ labels[i].id = claims[i].id
              /\ labels[i].observed => labels[i].fraud
              /\ ~labels[i].fraud => [claims[i] EXCEPT !.payload = FALSE] \in Rows(expenses)
        /\ ManyToOne(vendors)
        /\ \A i, j \in DOMAIN claims :
              claims[i].id = claims[j].id =>
                  i = j \/ claims[i].phash[4] > Stride \/ claims[j].phash[4] > Stride

(* Where the legs of the i-th honest claim are: each has the id the plan   *)
(* gives it and a receipt salted with its number.                          *)
LegRows(i) ==
    LET start == Stride * Cardinality({j \in 1..i : plan[j] # "none"})
    IN {j \in DOMAIN claims :
           \E k \in 1..NLegs(expenses[i].amount) :
               claims[j].id = FraudId(start + k - 1) /\ claims[j].phash[4] = k}

LegsOf(i) == Picked(claims, LegRows(i))

Claimed(legs) == Sum([k \in DOMAIN legs |-> legs[k].amount])

SplitClaims == {i \in DOMAIN plan : plan[i] = "split"}

(* A split claims in at least two legs, each under the limit its claim was *)
(* above and all of them linked.  What an earlier leg may not claim is     *)
(* left to the later ones: together they claim what the claim did, or less *)
(* when the last of them is as large as a leg may be (_split).             *)
LegsUnderLimit ==
    Done =>
        \A i \in SplitClaims :
            LET legs == LegsOf(i)
            IN /\ Len(legs) >= 2 /\ expenses[i].amount > Ceiling
               /\ \A k \in DOMAIN legs : legs[k].amount < Ceiling
               /\ \/ Claimed(legs) = expenses[i].amount
                  \/ /\ Claimed(legs) < expenses[i].amount
                     /\ legs[Len(legs)].amount = Ceiling - 1
               /\ \A j \in LegRows(i) : labels[j].linked = {c.id : c \in Rows(legs)}

(* The docstring of _split: the legs sum to the original claim. *)
LegsSumToClaim ==
    Done =>
        \A i \in SplitClaims : Claimed(LegsOf(i)) = expenses[i].amount

(* A claim is found by its receipt among those before another. *)
SeenBefore(first, later) ==
    LET features == FeaturesOf(claims, vendors, later)
    IN /\ features.since \in 0..(later.at - first.at)
       /\ \A by \in {"tenant_phash", "user_phash"} : first \in features.windows[<<by, 365>>]

(* A claim is the first of a vendor seen just before. *)
LooksNew(claim) ==
    LET features == FeaturesOf(claims, vendors, claim)
    IN /\ features.windows[<<"tenant_vendor", 365>>] = {}
       /\ \E first \in features.vendor :
             features.vendor = {first} /\ first \in (claim.day - 9)..claim.day

(* The features see what a duplicate and a ghost vendor leave.  Whichever  *)
(* of the two submissions of a receipt is the later has the other among    *)
(* the tenant's and the user's before it, though the copy may come first;  *)
(* a ghost vendor is new, without a prior claim.                           *)
SignalsReachFeatures ==
    Done =>
        \A j \in DOMAIN labels :
            /\ labels[j].typology = "duplicate" =>
                  \A i \in {x \in DOMAIN claims : claims[x].id \in labels[j].linked} :
                      /\ claims[i].at < claims[j].at => SeenBefore(claims[i], claims[j])
                      /\ claims[j].at < claims[i].at => SeenBefore(claims[j], claims[i])
            /\ labels[j].typology = "ghost_vendor" => LooksNew(claims[j])

(* A receipt carries a payload exactly when its claim has a label for it,  *)
(* copies of receipts included.                                            *)
TaintedIffLabelled == Done => {c.id : c \in {x \in Rows(claims) : x.payload}} = injected

(* A feature depends on strictly earlier claims: neither a later or equal  *)
(* instant nor the claim itself changes a window.  The gap between equal   *)
(* receipts does too, but for one thing: it is zero when a claim of the    *)
(* same receipt and instant comes before in the file (prior_rolling,       *)
(* duplicate_signals).                                                     *)
FeaturesAreCausal ==
    Done =>
        \A row \in Rows(claims) :
            LET earlier == Picked(claims, {i \in DOMAIN claims : claims[i].at < row.at})
                apart   == Picked(claims, {i \in DOMAIN claims : claims[i].at < row.at \/ claims[i] = row})
                changed == [row EXCEPT !.amount = @ + 1]
            IN /\ \A w \in Windows :
                     Prior(claims, row, w[1], w[2])
                        = Prior(Append(earlier, changed), changed, w[1], w[2])
               /\ \/ SinceSamePhash(claims, row) = SinceSamePhash(apart, row)
                  \/ /\ SinceSamePhash(claims, row) = 0
                     /\ \E twin \in Rows(claims) \ {row} : twin.at = row.at /\ twin.phash = row.phash

(* A training set is what could have been assembled at its instant, from   *)
(* the claims and verdicts there were: nothing that came later is in it,   *)
(* and a claim counts as what was recorded of it by then, caught or not.   *)
(* No claim of it is evaluated on later (assemble, assemble_evaluation).   *)
TrainingIsHonest ==
    Done =>
        \A asOf \in AsOfs :
            LET train == Assemble(claims, vendors, labels, asOf)
                submitted == Picked(claims, {i \in DOMAIN claims : claims[i].at < asOf})
                confirmed == Picked(labels, {i \in DOMAIN labels : labels[i].confirmed <= asOf})
            IN /\ train = Assemble(submitted, vendors, confirmed, asOf)
               /\ \A r \in DOMAIN train.labels :
                     \E l \in Rows(confirmed) : l.id = r.id /\ train.labels[r] = l.observed
               /\ \A later \in {t \in AsOfs : t > asOf} :
                     LET test == Evaluation(claims, vendors, labels, asOf, later)
                     IN DOMAIN test.features \cap DOMAIN train.features = {}
=============================================================================
