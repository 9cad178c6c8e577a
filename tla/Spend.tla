------------------------------- MODULE Spend -------------------------------
(***************************************************************************)
(* Honest spend (fsa_sim/world/spend.py) over a tenant's users and vendors *)
(* (org.py, vendors.py): the ledgers generate_baseline_expenses can        *)
(* return.                                                                 *)
(*                                                                         *)
(* Every draw of the seeded generator is a choice from a set, a constant   *)
(* within the range the code draws from.  A date is a number of days since *)
(* the world's start and an instant a number of hours.  The hash of a      *)
(* receipt is the tuple of what is hashed.                                 *)
(***************************************************************************)
EXTENDS Integers, Sequences, FiniteSets

CONSTANTS
    Users,           \* the tenant's users, a sequence
    Vendors,         \* its vendors
    Amounts,         \* amounts sample_amount_minor draws, by category
    Days,            \* dates on which money is spent
    MonthLength,     \* days of a month
    SubmissionLags,  \* days between spending and claiming
    Hours,           \* hours of the day claims are submitted and resolved at
    MaxClaims        \* bound on the honest claims

ASSUME SpendAssumption ==
    /\ Users \in Seq({Users[i] : i \in DOMAIN Users})
    /\ \A v, w \in Vendors : v.id = w.id => v = w
    /\ \A v \in Vendors : v.category \in DOMAIN Amounts
    /\ \A category \in DOMAIN Amounts : Amounts[category] \subseteq Nat \ {0}
    /\ Days \subseteq Nat
    /\ MonthLength \in Nat \ {0}
    /\ SubmissionLags \subseteq 0..45
    /\ Hours \subseteq 0..23
    /\ MaxClaims \in Nat

(* No manager. *)
None == <<"none">>

(* submission_timestamp *)
Stamps(day) == {24 * day + hour : hour \in Hours}

DayOf(instant) == instant \div 24

(* 1 January 2026 is a Thursday; Monday is 0. *)
Weekday(day) == (day + 3) % 7

MonthOf(day) == day \div MonthLength

Quarter(day) == MonthOf(day) \div 3

(* receipt_phash; a salt of 0 is the empty one. *)
Phash(vendor, amount, day, salt) == <<vendor, amount, day, salt>>

ClaimId(seq) == <<"exp", seq>>

(* One claim of a user on a date: a vendor of a category the user spends   *)
(* on, claimed some days later.                                            *)
ClaimsOf(user, seq, day) ==
    UNION {{[id |-> ClaimId(seq), user |-> user.id, department |-> user.department,
             category |-> vendor.category, vendor |-> vendor.id, amount |-> amount,
             day |-> day, at |-> at, phash |-> Phash(vendor.id, amount, day, 0),
             payload |-> FALSE] :
               amount \in Amounts[vendor.category],
               at \in UNION {Stamps(day + lag) : lag \in SubmissionLags}} :
        vendor \in {v \in Vendors : v.category \in user.mix}}

(* The days a user can have spent on in the months of a plan: nobody       *)
(* claims before joining, and n claims of one month fall on at most half   *)
(* as many active days, one at least.                                      *)
Bursty(who, when) ==
    \A i \in DOMAIN who :
        LET month == {j \in DOMAIN who : who[j] = who[i] /\ MonthOf(when[j]) = MonthOf(when[i])}
        IN /\ when[i] >= Users[who[i]].joined
           /\ Cardinality({when[j] : j \in month}) <= (Cardinality(month) + 1) \div 2

(* Users in their order, and the months of each in theirs. *)
InOrder(who, when) ==
    \A i, j \in DOMAIN who :
        i < j => \/ who[i] < who[j]
                 \/ who[i] = who[j] /\ MonthOf(when[i]) <= MonthOf(when[j])

(* Who claims, and when. *)
Drafts(n) ==
    {p \in [who : [1..n -> DOMAIN Users], when : [1..n -> Days]] :
        InOrder(p.who, p.when) /\ Bursty(p.who, p.when)}

Ledgers(n) ==
    UNION {{ledger \in [1..n -> UNION {ClaimsOf(Users[p.who[i]], i, p.when[i]) : i \in 1..n}] :
               \A i \in 1..n : ledger[i] \in ClaimsOf(Users[p.who[i]], i, p.when[i])} :
        p \in Drafts(n)}

Baseline == UNION {Ledgers(n) : n \in 0..MaxClaims}
=============================================================================
