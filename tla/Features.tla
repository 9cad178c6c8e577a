------------------------------ MODULE Features ------------------------------
(***************************************************************************)
(* The features and labels a fraud model is trained on (fsa_ml/features):  *)
(* windows over strictly earlier claims, the gap to the last claim with    *)
(* the same receipt, and the labels known at an instant.                   *)
(*                                                                         *)
(* A ledger is a sequence of claims in the order of its file.  Counts,     *)
(* sums, means and deviations are functions of the rows of a window, and a *)
(* window stands for all the aggregates taken over it.  A ledger that      *)
(* repeats an id cannot be reindexed by it: the definitions give its       *)
(* claims features all the same, where the program raises.                 *)
(***************************************************************************)
EXTENDS Sorting

CONSTANTS
    Threshold,  \* APPROVAL_THRESHOLD_MINOR
    Grades      \* the grade of each user id

Rows(ledger) == {ledger[i] : i \in DOMAIN ledger}

(* DUPLICATE_AMOUNT_TOLERANCE is 0.02: the amount over a fiftieth of       *)
(* itself.                                                                 *)
Bucket(amount) == (50 * amount) \div amount

(* What claims are grouped by.  There is one tenant. *)
Key(row, by) ==
    CASE by = "user" -> row.user
      [] by = "user_cat" -> <<row.user, row.category>>
      [] by = "user_vendor" -> <<row.user, row.vendor>>
      [] by = "tenant_vendor" -> row.vendor
      [] by = "dept_cat" -> <<row.department, row.category>>
      [] by = "grade_cat" -> <<Grades[row.user], row.category>>
      [] by = "tenant_phash" -> row.phash
      [] by = "user_phash" -> <<row.user, row.phash>>
      [] by = "vendor_amount" -> <<row.vendor, Bucket(row.amount)>>

(* The groups and days of the windows of each family. *)
Families ==
    [velocity |-> ({"user"} \X {1, 7, 30}) \cup {<<"user_vendor", 7>>},
     employee_history |-> {<<"user_cat", 90>>, <<"user", 30>>, <<"user", 90>>},
     vendor |-> {<<"tenant_vendor", 365>>, <<"user_vendor", 365>>},
     peer_relative |-> {<<"dept_cat", 180>>, <<"grade_cat", 180>>},
     duplicate_signals |-> {<<"tenant_phash", 365>>, <<"vendor_amount", 90>>, <<"user_phash", 365>>}]

Windows == UNION {Families[f] : f \in DOMAIN Families}

(* Mutant: the window is closed on both sides. *)
PriorClosed(ledger, row, by, days) ==
    {r \in Rows(ledger) :
        Key(r, by) = Key(row, by) /\ row.at - 24 * days <= r.at /\ r.at <= row.at}

(* prior_rolling: closed="left". *)
Prior(ledger, row, by, days) ==
    {r \in Rows(ledger) :
        Key(r, by) = Key(row, by) /\ row.at - 24 * days <= r.at /\ r.at < row.at}

NearThreshold(r) == 100 * r.amount >= 80 * Threshold /\ r.amount < Threshold

(* In the order of instants and, within one, of the file. *)
Before(ledger, i, j) ==
    \/ ledger[i].at < ledger[j].at
    \/ ledger[i].at = ledger[j].at /\ i < j

Latest(ledger, S) == CHOOSE i \in S : \A j \in S : ~Before(ledger, i, j)

(* The claims of the same receipt before the one at a place. *)
Earlier(ledger, at) ==
    {i \in DOMAIN ledger : ledger[i].phash = ledger[at].phash /\ Before(ledger, i, at)}

(* dup_days_since_same_phash: hours since the previous row of the same     *)
(* receipt, -1 when there is none.                                         *)
SinceSamePhash(ledger, row) ==
    LET at == CHOOSE i \in DOMAIN ledger : ledger[i] = row
        earlier == Earlier(ledger, at)
    IN IF earlier = {} THEN -1 ELSE row.at - ledger[Latest(ledger, earlier)].at

(* dup_any_prior *)
DuplicateSignal(ledger, row) ==
    \/ Prior(ledger, row, "tenant_phash", 365) # {}
    \/ Prior(ledger, row, "vendor_amount", 90) # {}

(* build_features: a row of the matrix.  The attributes of the claim       *)
(* itself and of its user and vendor make up the rest of it.               *)
FeaturesOf(ledger, vendors, row) ==
    [windows |-> [w \in Windows |-> Prior(ledger, row, w[1], w[2])],
     near |-> {r \in Prior(ledger, row, "user", 7) : NearThreshold(r)},
     since |-> SinceSamePhash(ledger, row),
     any |-> DuplicateSignal(ledger, row),
     vendor |-> {v.firstSeen : v \in {x \in vendors : x.id = row.vendor}},
     intrinsic |-> row]

(* join_context: validate="many_to_one", of the rows joined to the claims. *)
ManyToOne(rows) == \A v, w \in rows : v.id = w.id => v = w

----------------------------------------------------------------------------
(* Mutant: a verdict counts before it was recorded. *)
LabelAsOfAny(labels, asOf) == [id \in {l.id : l \in Rows(labels)} |->
    (CHOOSE l \in Rows(labels) : l.id = id).observed]

Recorded(verdicts, id) == (CHOOSE l \in verdicts : l.id = id).observed

(* label_as_of: what was recorded by then, never what happened. *)
LabelAsOf(labels, asOf) ==
    LET confirmed == {l \in Rows(labels) : l.confirmed <= asOf}
    IN [id \in {l.id : l \in confirmed} |-> Recorded(confirmed, id)]

(* assemble: features of the whole ledger for the claims submitted before  *)
(* asOf whose label was known by then.                                     *)
Assemble(ledger, vendors, labels, asOf) ==
    LET known == LabelAsOf(labels, asOf)
        eligible == {r \in Rows(ledger) : r.at < asOf}
        usable == {r \in eligible : r.id \in DOMAIN known}
    IN [features |-> [r \in usable |-> FeaturesOf(ledger, vendors, r)],
        labels |-> [r \in usable |-> known[r.id]],
        dropped |-> Cardinality(eligible) - Cardinality(usable)]

HeldOut(r, trainAsOf) == r.at >= trainAsOf

(* assemble_evaluation: the test frame; the train frame is Assemble at     *)
(* trainAsOf.                                                              *)
Evaluation(ledger, vendors, labels, trainAsOf, evalAsOf) ==
    LET full == Assemble(ledger, vendors, labels, evalAsOf)
        keep == {r \in DOMAIN full.features : HeldOut(r, trainAsOf)}
    IN [features |-> [r \in keep |-> full.features[r]],
        labels |-> [r \in keep |-> full.labels[r]],
        dropped |-> full.dropped]
=============================================================================
