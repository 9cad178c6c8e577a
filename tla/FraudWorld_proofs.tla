------------------------- MODULE FraudWorld_proofs --------------------------
(***************************************************************************)
(* Proofs about FraudWorld for all users, vendors, amounts, rates, lags    *)
(* and numbers of claims: whatever is drawn, the rewriting of the ledger   *)
(* leaves each claim what its typology makes of it, and the ids, labels,   *)
(* features and training sets made from it hold together.                  *)
(***************************************************************************)
EXTENDS FraudWorld, Induction, SequenceTheorems

Listed(s, n) == n \in Nat /\ Len(s) = n /\ s = [i \in 1..n |-> s[i]]

(* The second has n elements more. *)
Longer(s, t, n) ==
    /\ Listed(s, Len(s)) /\ Listed(t, Len(s) + n) /\ n \in Nat
    /\ \A i \in 1..Len(s) : t[i] = s[i]

(* The first id of what is produced from a claim. *)
Start(o) == Stride * Cardinality({j \in 1..o : plan[j] # "none"})

Honest(o, j) == kept[j] = expenses[o] /\ labels[j] \in CleanLabels(expenses[o])

(* What a claim becomes. *)
Width(o) ==
    IF plan[o] = "duplicate" THEN 2
    ELSE IF plan[o] = "split" THEN NLegs(expenses[o].amount) ELSE 1

(* The id and the salt of the k-th of what a claim becomes. *)
IdOf(o, k) ==
    IF plan[o] = "split" THEN FraudId(Start(o) + k - 1)
    ELSE IF plan[o] = "duplicate" /\ k = 2 THEN FraudId(Start(o)) ELSE ClaimId(o)

SaltOf(o, k) == IF plan[o] = "split" THEN k ELSE 0

(* Who is linked to what the claim becomes. *)
LinkedTo(o) ==
    IF plan[o] = "duplicate" THEN {expenses[o].id}
    ELSE IF plan[o] = "split" THEN {FraudId(Start(o) + k - 1) : k \in 1..Width(o)}
    ELSE IF plan[o] = "collusion" THEN {Users[colluder].manager} ELSE {}

Fraudulent(o, j) == labels[j] \in FraudLabels(kept[j], plan[o], LinkedTo(o))

Legs(b, n) == [k \in 1..n |-> kept[b + k]]

Placed(o, b) ==
    /\ b \in Nat /\ b + Width(o) <= Len(kept)
    /\ \/ plan[o] = "none" /\ Honest(o, b + 1)
       \/ /\ plan[o] = "duplicate"
          /\ Honest(o, b + 1)
          /\ <<kept[b + 2]>> \in Duplicates(expenses[o], Start(o))
          /\ Fraudulent(o, b + 2)
       \/ /\ plan[o] = "split"
          /\ Legs(b, Width(o)) \in Splits(expenses[o], Start(o))
          /\ \A k \in 1..Width(o) : Fraudulent(o, b + k)
       \/ /\ plan[o] = "ghost_vendor"
          /\ <<kept[b + 1]>> \in Invoices(expenses[o], GhostId(Start(o)))
          /\ Fraudulent(o, b + 1)
       \/ /\ plan[o] = "personal"
          /\ <<kept[b + 1]>> \in Dinners(expenses[o])
          /\ Fraudulent(o, b + 1)
       \/ /\ plan[o] \in {"inflation", "collusion"}
          /\ <<kept[b + 1]>> \in Inflations(expenses[o])
          /\ Fraudulent(o, b + 1)

Ghost(o) == [id |-> GhostId(Start(o)), category |-> expenses[o].category,
             firstSeen |-> FirstSeen(expenses[o].day)]

PlanInv ==
    /\ expenses = <<>> \/ expenses \in Baseline
    /\ colluder \in 0..Len(Users)
    /\ plan \in [1..Len(expenses) -> Typologies \cup {"none"}]
    /\ \A o \in 1..Len(expenses) : plan[o] = "split" => expenses[o].amount > Ceiling
    /\ drawn \in 0..Targets
    /\ index \in 0..Len(expenses)
    /\ drawn < Targets => index = 0
    /\ seq = Start(index)

RowsInv ==
    /\ Listed(kept, Len(kept)) /\ Listed(labels, Len(kept))
    /\ \A o \in 1..index : \E b \in 0..Len(kept) : Placed(o, b)
    /\ \A j \in 1..Len(kept) : \E o \in 1..index : \E k \in 1..Width(o) : Placed(o, j - k)
    /\ \A i, j \in 1..Len(kept) :
          kept[i].id = kept[j].id /\ kept[i].phash[4] = kept[j].phash[4] => i = j

GhostsInv ==
    /\ Listed(ghosts, Len(ghosts))
    /\ Rows(ghosts) = {Ghost(o) : o \in {i \in 1..index : plan[i] = "ghost_vendor"}}

StageInv ==
    /\ stage \in {"spend", "inject", "budgets", "done"}
    /\ stage = "spend" => expenses = <<>>
    /\ stage \in {"spend", "inject"} => claims = <<>> /\ vendors = {} /\ injected = {}
    /\ stage \in {"budgets", "done"} =>
          /\ Returned
          /\ \E targets \in SUBSET (1..Len(kept)) :
                claims = Planted(kept, targets) /\ injected = {kept[i].id : i \in targets}
          /\ vendors = Vendors \cup Rows(ghosts)
    /\ stage = "done" => budgets = Limits(claims)

----------------------------------------------------------------------------
(* Claims. *)

(* A claim is a record of these fields. *)
Fields == {"id", "user", "department", "category", "vendor", "amount", "day", "at", "phash", "payload"}

IsClaim(c) == c = [f \in Fields |-> c[f]]

(* Something was spent, and claimed no earlier. *)
Dated(c) ==
    /\ c.amount \in Nat \ {0}
    /\ c.day \in Nat /\ c.at \in Nat /\ c.at >= 24 * c.day

(* The i-th honest claim. *)
HonestClaim(c, i) ==
    /\ IsClaim(c) /\ Dated(c)
    /\ c.at <= 24 * c.day + 24 * 46
    /\ c.id = ClaimId(i) /\ c.phash[4] = 0 /\ c.payload = FALSE
    /\ \E v \in Vendors : c.vendor = v.id /\ c.amount \in Amounts[v.category]

(* An instant of a day lies within it. *)
LEMMA Stamped ==
    ASSUME NEW day \in Int, NEW at \in Stamps(day)
    PROVE  at \in Int /\ 24 * day <= at /\ at <= 24 * day + 23
  BY SpendAssumption DEF Stamps

(* What honest spend draws is an honest claim. *)
LEMMA HonestClaims ==
    ASSUME NEW user, NEW i, NEW day \in Days, NEW c \in ClaimsOf(user, i, day)
    PROVE  HonestClaim(c, i)
<1>0. PICK v \in Vendors : \E amount \in Amounts[v.category] :
          \E at \in UNION {Stamps(day + lag) : lag \in SubmissionLags} :
             c = [id |-> ClaimId(i), user |-> user.id, department |-> user.department,
                  category |-> v.category, vendor |-> v.id, amount |-> amount,
                  day |-> day, at |-> at, phash |-> Phash(v.id, amount, day, 0),
                  payload |-> FALSE]
  BY DEF ClaimsOf
<1>1. PICK amount \in Amounts[v.category], lag \in SubmissionLags, at \in Int :
         /\ at \in Stamps(day + lag)
         /\ c = [id |-> ClaimId(i), user |-> user.id, department |-> user.department,
              category |-> v.category, vendor |-> v.id, amount |-> amount,
              day |-> day, at |-> at, phash |-> Phash(v.id, amount, day, 0),
              payload |-> FALSE]
  <2>1. PICK amount \in Amounts[v.category], at \in UNION {Stamps(day + lag) : lag \in SubmissionLags} :
           c = [id |-> ClaimId(i), user |-> user.id, department |-> user.department,
                category |-> v.category, vendor |-> v.id, amount |-> amount,
                day |-> day, at |-> at, phash |-> Phash(v.id, amount, day, 0),
                payload |-> FALSE]
    BY <1>0
  <2>2. PICK lag \in SubmissionLags : at \in Stamps(day + lag)
    OBVIOUS
  <2>3. at \in Int
    <3>1. day \in Nat /\ lag \in 0..45
      BY SpendAssumption
    <3>2. day + lag \in Int
      BY <3>1
    <3> QED
      BY <2>2, <3>2, Stamped
  <2> QED
    BY <2>1, <2>2, <2>3
<1>2. day \in Nat /\ lag \in 0..45 /\ amount \in Nat \ {0}
  BY SpendAssumption
<1>3. at \in Int /\ 24 * (day + lag) <= at /\ at <= 24 * (day + lag) + 23
  <2>1. day + lag \in Int
    BY <1>2
  <2> QED
    BY <1>1, <2>1, Stamped
<1>4. IsClaim(c)
  BY <1>1 DEF IsClaim, Fields
<1>5. /\ c.id = ClaimId(i) /\ c.phash = Phash(v.id, amount, day, 0) /\ c.payload = FALSE
      /\ c.vendor = v.id /\ c.amount = amount /\ c.day = day /\ c.at = at
  BY <1>1
<1>6. c.phash[4] = 0
  BY <1>5 DEF Phash
<1>7. Dated(c)
  BY <1>2, <1>3, <1>5 DEF Dated
<1>8. c.at <= 24 * c.day + 24 * 46
  BY <1>2, <1>3, <1>5
<1> QED
  BY <1>4, <1>5, <1>6, <1>7, <1>8 DEF HonestClaim

(* The claims of an honest ledger. *)
LEMMA HonestLedger ==
    ASSUME NEW ledger \in Baseline
    PROVE  /\ ledger \in Seq(Rows(ledger))
           /\ \A i \in 1..Len(ledger) : HonestClaim(ledger[i], i)
<1>0. PICK n \in 0..MaxClaims : ledger \in Ledgers(n)
  BY DEF Baseline
<1>1. PICK p \in Drafts(n) :
         /\ ledger \in [1..n -> UNION {ClaimsOf(Users[p.who[i]], i, p.when[i]) : i \in 1..n}]
         /\ \A i \in 1..n : ledger[i] \in ClaimsOf(Users[p.who[i]], i, p.when[i])
  BY <1>0 DEF Ledgers
<1>2. n \in Nat /\ DOMAIN ledger = 1..n /\ ledger = [i \in 1..n |-> ledger[i]]
  BY <1>1, SpendAssumption
<1>3. ledger \in Seq(Rows(ledger)) /\ Len(ledger) = n
  <2>1. ledger \in [1..n -> Rows(ledger)]
    BY <1>2 DEF Rows
  <2> QED
    BY <1>2, <2>1
<1>4. ASSUME NEW i \in 1..n PROVE HonestClaim(ledger[i], i)
  <2>1. p.when \in [1..n -> Days]
    BY DEF Drafts
  <2> QED
    BY <1>1, <2>1, HonestClaims
<1> QED
  BY <1>3, <1>4

----------------------------------------------------------------------------
(* Amounts. *)

(* An amount is never nothing. *)
LEMMA AtLeastOneFacts ==
    ASSUME NEW x \in Int
    PROVE  AtLeastOne(x) \in Nat \ {0} /\ AtLeastOne(x) >= x
  BY DEF AtLeastOne

(* A percentage of a hundred or more takes nothing away. *)
LEMMA PercentFacts ==
    ASSUME NEW a \in Nat, NEW p \in Nat
    PROVE  /\ Percent(a, p) \in Nat
           /\ p >= 100 => Percent(a, p) >= a
<1>1. a * p \in Nat
  OBVIOUS
<1>2. Percent(a, p) \in Nat
  BY <1>1 DEF Percent
<1>3. ASSUME p >= 100 PROVE Percent(a, p) >= a
  <2>1. PICK q \in Nat : p = 100 + q
    <3>1. p - 100 \in Nat /\ p = 100 + (p - 100)
      BY <1>3
    <3> QED
      BY <3>1
  <2>2. a * p = 100 * a + a * q /\ a * q \in Nat
    BY <2>1
  <2> QED
    BY <1>1, <2>2 DEF Percent
<1> QED
  BY <1>2, <1>3

(* What is claimed is something. *)
LEMMA Paid == \A a, p \in Nat : AtLeastOne(Percent(a, p)) \in Nat \ {0}
<1> SUFFICES ASSUME NEW a \in Nat, NEW p \in Nat PROVE AtLeastOne(Percent(a, p)) \in Nat \ {0}
  OBVIOUS
<1>1. Percent(a, p) \in Int
  BY PercentFacts
<1> HIDE DEF Percent
<1> QED
  BY <1>1, AtLeastOneFacts

(* A clamped amount is something, below the limit, and no more than it     *)
(* was.                                                                    *)
LEMMA ClampFacts ==
    ASSUME NEW x \in Int
    PROVE  /\ Clamp(x) \in Nat \ {0} /\ Clamp(x) < Ceiling
           /\ x >= 1 => Clamp(x) <= x
           /\ x >= 1 /\ Clamp(x) # x => Clamp(x) = Ceiling - 1
<1>1. Ceiling \in Nat /\ Ceiling >= 3
  BY InjectionAssumption
<1> QED
  BY <1>1 DEF Clamp, AtLeastOne, Least

----------------------------------------------------------------------------
(* Sums. *)

(* The sums of the first elements. *)
Totals(g, s, n) ==
    /\ g \in [0..n -> Int]
    /\ g[0] = 0
    /\ \A i \in 1..n : g[i] = g[i - 1] + s[i]

Numbers(s, n) == s \in [1..n -> Int]

(* A sum is the last of the totals. *)
LEMMA SumBy ==
    ASSUME NEW n \in Nat, NEW s, Numbers(s, n)
    PROVE  \E g : Totals(g, s, n) /\ Sum(s) = g[n]
<1> DEFINE R(g) == [i \in 0..n |-> IF i = 0 THEN 0 ELSE g[i - 1] + s[i]]
<1>0. s \in [1..n -> Int] /\ Len(s) = n
  BY DEF Numbers
<1>1. Sum(s) = (CHOOSE g : g = R(g))[n]
  BY <1>0 DEF Sum
<1>2. \E g : g = R(g)
  <2> DEFINE step == [i \in 1..n |-> [x \in Int |-> x + s[i]]]
  <2>1. step \in Steps(n, Int)
    BY <1>0 DEF Steps
  <2> HIDE DEF step
  <2>2. PICK g : Stepped(n, Int, 0, step, g)
    <3>1. 0 \in Int
      OBVIOUS
    <3> QED
      BY <2>1, <3>1, StepsExist
  <2>3. g \in [0..n -> Int] /\ g[0] = 0 /\ \A i \in 1..n : g[i] = step[i][g[i - 1]]
    BY <2>2 DEF Stepped
  <2>4. ASSUME NEW i \in 0..n PROVE g[i] = IF i = 0 THEN 0 ELSE g[i - 1] + s[i]
    <3>1. CASE i = 0
      BY <2>3, <3>1
    <3>2. CASE i # 0
      <4>1. i \in 1..n /\ i - 1 \in 0..n
        BY <3>2
      <4>2. g[i] = step[i][g[i - 1]] /\ g[i - 1] \in Int
        BY <2>3, <4>1
      <4> QED
        BY <3>2, <4>1, <4>2 DEF step
    <3> QED
      BY <3>1, <3>2
  <2>5. g = R(g)
    BY <2>3, <2>4
  <2> QED
    BY <2>5
<1> DEFINE f == CHOOSE g : g = R(g)
<1>3. f = R(f)
  BY <1>2
<1>4. Sum(s) = f[n]
  BY <1>1
<1> HIDE DEF f
<1>5. f[0] = 0 /\ \A i \in 1..n : f[i] = f[i - 1] + s[i]
  <2>1. f[0] = 0
    BY <1>3
  <2>2. ASSUME NEW i \in 1..n PROVE f[i] = f[i - 1] + s[i]
    <3>1. i \in 0..n /\ i # 0
      OBVIOUS
    <3> QED
      BY <1>3, <3>1
  <2> QED
    BY <2>1, <2>2
<1>6. \A i \in 0..n : f[i] \in Int
  <2> DEFINE S == {i \in 0..n : f[i] \in Int}
  <2>1. 0 \in S
    BY <1>5
  <2>2. ASSUME NEW i \in 1..n, i - 1 \in S PROVE i \in S
    BY <1>0, <1>5, <2>2
  <2>3. 0..n \subseteq S
    <3> HIDE DEF S
    <3> QED
      BY <2>1, <2>2, UpTo
  <2> QED
    BY <2>3
<1>7. f \in [0..n -> Int]
  BY <1>3, <1>6
<1>8. Totals(f, s, n)
  BY <1>5, <1>7 DEF Totals
<1> QED
  BY <1>4, <1>8

(* A sum of at least so much each. *)
LEMMA SumAtLeast ==
    ASSUME NEW n \in Nat, NEW s, Numbers(s, n), NEW low \in Nat, \A i \in 1..n : low <= s[i]
    PROVE  Sum(s) \in Int /\ Sum(s) >= low * n
<1>1. PICK g : Totals(g, s, n) /\ Sum(s) = g[n]
  BY SumBy
<1> DEFINE S == {i \in 0..n : low * i <= g[i]}
<1>2. 0 \in S
  BY <1>1 DEF Totals
<1>3. ASSUME NEW i \in 1..n, i - 1 \in S PROVE i \in S
  <2>1. g[i] = g[i - 1] + s[i] /\ g[i - 1] \in Int /\ s[i] \in Int /\ low <= s[i]
    BY <1>1 DEF Totals, Numbers
  <2>2. low * (i - 1) <= g[i - 1]
    BY <1>3
  <2>3. low * i = low * (i - 1) + low /\ low * (i - 1) \in Int
    OBVIOUS
  <2> HIDE DEF S
  <2>4. low * i <= g[i]
    BY <2>1, <2>2, <2>3
  <2> QED
    BY <2>4 DEF S
<1>4. 0..n \subseteq S
  <2> HIDE DEF S
  <2> QED
    BY <1>2, <1>3, UpTo
<1>5. g[n] \in Int /\ low * n <= g[n]
  <2>1. n \in 0..n
    OBVIOUS
  <2> QED
    BY <1>1, <1>4, <2>1 DEF Totals
<1> QED
  BY <1>1, <1>5

(* What is added last. *)
LEMMA SumLast ==
    ASSUME NEW n \in Nat, NEW s, Numbers(s, n), NEW t, Numbers(t, n + 1),
           \A i \in 1..n : t[i] = s[i]
    PROVE  Sum(t) = Sum(s) + t[n + 1]
<1>1. PICK g : Totals(g, s, n) /\ Sum(s) = g[n]
  BY SumBy
<1>2. PICK h : Totals(h, t, n + 1) /\ Sum(t) = h[n + 1]
  BY SumBy
<1> DEFINE S == {i \in 0..n : h[i] = g[i]}
<1>3. 0 \in S
  BY <1>1, <1>2 DEF Totals
<1>4. ASSUME NEW i \in 1..n, i - 1 \in S PROVE i \in S
  <2>1. i \in 1..(n + 1) /\ g[i] = g[i - 1] + s[i] /\ h[i] = h[i - 1] + t[i]
    BY <1>1, <1>2 DEF Totals
  <2> QED
    BY <1>4, <2>1
<1>5. 0..n \subseteq S
  <2> HIDE DEF S
  <2> QED
    BY <1>3, <1>4, UpTo
<1>6. h[n] = g[n] /\ h[n + 1] = h[(n + 1) - 1] + t[n + 1]
  BY <1>2, <1>5 DEF Totals
<1> QED
  BY <1>1, <1>2, <1>6

----------------------------------------------------------------------------
(* The typologies. *)

(* What is claimed is a claim, and differs from the honest one in its      *)
(* amount, dates, category, vendor, id and hash only.                      *)
FromClaim(e, c) ==
    /\ IsClaim(e) /\ Dated(e)
    /\ e.user = c.user /\ e.payload = FALSE

(* A duplicate keeps the receipt and comes within 98 days. *)
LEMMA DuplicateFacts ==
    ASSUME NEW c, NEW o, HonestClaim(c, o), NEW n, NEW e, <<e>> \in Duplicates(c, n)
    PROVE  /\ FromClaim(e, c)
           /\ e.id = FraudId(n) /\ e.phash = c.phash
           /\ e.vendor = c.vendor
           /\ e.at >= 24 * c.day /\ e.at <= 24 * c.day + 24 * 98
<1>0. /\ IsClaim(c) /\ c.payload = FALSE
      /\ c.amount \in Nat /\ c.day \in Nat
  BY DEF HonestClaim, Dated
<1> DEFINE stamps(gap) == UNION {Stamps(c.day + gap + lag) : lag \in ResubmitLags}
<1>1. PICK gap \in Gaps :
         <<e>> \in {<<Copy(c, n, gap, jitter, at)>> : jitter \in Jitters, at \in stamps(gap)}
  BY DEF Duplicates
<1>2. PICK jitter \in Jitters, at \in stamps(gap) : e = Copy(c, n, gap, jitter, at)
  <2> HIDE DEF stamps
  <2>1. PICK jitter \in Jitters, at \in stamps(gap) : <<e>> = <<Copy(c, n, gap, jitter, at)>>
    BY <1>1
  <2> QED
    BY <2>1
<1>10. PICK lag \in ResubmitLags : at \in Stamps(c.day + gap + lag)
  OBVIOUS
<1>3. gap \in 30..90 /\ lag \in 1..7 /\ jitter \in Nat
  BY InjectionAssumption
<1> DEFINE amount == AtLeastOne(Percent(c.amount, jitter))
<1>4. amount \in Nat \ {0}
  BY <1>0, <1>3, Paid
<1>5. at \in Int /\ 24 * (c.day + gap + lag) <= at /\ at <= 24 * (c.day + gap + lag) + 23
  <2>1. c.day + gap + lag \in Int
    BY <1>0, <1>3
  <2> QED
    BY <1>10, <2>1, Stamped
<1> HIDE DEF amount
<1>6. e = [c EXCEPT !.id = FraudId(n), !.day = c.day + gap, !.at = at, !.amount = amount]
  BY <1>2 DEF amount, Copy
<1>7. /\ IsClaim(e)
      /\ e.id = FraudId(n) /\ e.day = c.day + gap /\ e.at = at /\ e.amount = amount
      /\ e.user = c.user /\ e.phash = c.phash /\ e.payload = c.payload /\ e.vendor = c.vendor
  BY <1>0, <1>6 DEF IsClaim, Fields
<1>8. Dated(e)
  BY <1>0, <1>3, <1>4, <1>5, <1>7 DEF Dated
<1>9. e.at >= 24 * c.day /\ e.at <= 24 * c.day + 24 * 98
  BY <1>0, <1>3, <1>5, <1>7
<1> QED
  BY <1>0, <1>7, <1>8, <1>9 DEF FromClaim

(* An inflated claim keeps the receipt and the vendor. *)
LEMMA InflationFacts ==
    ASSUME NEW c, NEW o, HonestClaim(c, o), NEW e, <<e>> \in Inflations(c)
    PROVE  /\ FromClaim(e, c)
           /\ e.id = c.id /\ e.phash = c.phash /\ e.vendor = c.vendor
<1>0. /\ IsClaim(c) /\ c.payload = FALSE
      /\ c.amount \in Nat /\ c.day \in Nat /\ c.at \in Nat /\ c.at >= 24 * c.day
  BY DEF HonestClaim, Dated
<1>1. PICK p \in Paddings : e = [c EXCEPT !.amount = AtLeastOne(Percent(c.amount, p))]
  BY DEF Inflations
<1>2. p \in Nat
  BY InjectionAssumption
<1> DEFINE amount == AtLeastOne(Percent(c.amount, p))
<1>3. amount \in Nat \ {0}
  BY <1>0, <1>2, Paid
<1> HIDE DEF amount
<1>4. e = [c EXCEPT !.amount = amount]
  BY <1>1 DEF amount
<1>5. /\ IsClaim(e)
      /\ e.id = c.id /\ e.day = c.day /\ e.at = c.at /\ e.amount = amount
      /\ e.user = c.user /\ e.phash = c.phash /\ e.payload = c.payload /\ e.vendor = c.vendor
  BY <1>0, <1>4 DEF IsClaim, Fields
<1> QED
  BY <1>0, <1>3, <1>5 DEF FromClaim, Dated

(* So does a personal one. *)
LEMMA DinnerFacts ==
    ASSUME NEW c, NEW o, HonestClaim(c, o), NEW e, <<e>> \in Dinners(c)
    PROVE  /\ FromClaim(e, c)
           /\ e.id = c.id /\ e.phash = c.phash /\ e.vendor = c.vendor
<1>0. /\ IsClaim(c) /\ c.payload = FALSE
      /\ c.amount \in Nat /\ c.day \in Nat
  BY DEF HonestClaim, Dated
<1> DEFINE day == Saturday(c.day)
<1> DEFINE stamps == UNION {Stamps(day + lag) : lag \in DinnerLags}
<1>10. <<e>> \in {<<Dinner(c, p, at)>> : p \in DinnerFactors, at \in stamps}
  BY DEF Dinners
<1>1. PICK p \in DinnerFactors, at \in stamps : e = Dinner(c, p, at)
  <2> HIDE DEF stamps
  <2>1. PICK p \in DinnerFactors, at \in stamps : <<e>> = <<Dinner(c, p, at)>>
    BY <1>10
  <2> QED
    BY <2>1
<1>2. PICK lag \in DinnerLags : at \in Stamps(day + lag)
  OBVIOUS
<1>3. p \in Nat /\ lag \in 1..9
  BY InjectionAssumption
<1>4. day \in Nat
  <2>1. Weekday(c.day) \in 0..6
    BY <1>0 DEF Weekday
  <2>2. (5 - Weekday(c.day)) % 7 \in 0..6
    BY <2>1
  <2> QED
    BY <1>0, <2>2 DEF Saturday
<1> DEFINE amount == AtLeastOne(Percent(c.amount, p))
<1>5. amount \in Nat \ {0}
  BY <1>0, <1>3, Paid
<1> HIDE DEF amount, day
<1>6. at \in Int /\ 24 * (day + lag) <= at
  <2>1. day + lag \in Int
    BY <1>3, <1>4
  <2> QED
    BY <1>2, <2>1, Stamped
<1>7. e = [c EXCEPT !.category = "client_entertainment", !.amount = amount, !.day = day, !.at = at]
  BY <1>1 DEF amount, day, Dinner
<1>8. /\ IsClaim(e)
      /\ e.id = c.id /\ e.day = day /\ e.at = at /\ e.amount = amount
      /\ e.user = c.user /\ e.phash = c.phash /\ e.payload = c.payload /\ e.vendor = c.vendor
  BY <1>0, <1>7 DEF IsClaim, Fields
<1>9. Dated(e)
  BY <1>3, <1>4, <1>5, <1>6, <1>8 DEF Dated
<1> QED
  BY <1>0, <1>8, <1>9 DEF FromClaim

(* An invoice has a receipt and a vendor of its own. *)
LEMMA InvoiceFacts ==
    ASSUME NEW c, NEW o, HonestClaim(c, o), NEW vendor, NEW e, <<e>> \in Invoices(c, vendor)
    PROVE  /\ FromClaim(e, c)
           /\ e.id = c.id /\ e.phash[4] = 0 /\ e.vendor = vendor /\ e.day = c.day
<1>0. /\ IsClaim(c) /\ c.payload = FALSE
      /\ c.amount \in Nat /\ c.day \in Nat /\ c.at \in Nat /\ c.at >= 24 * c.day
  BY DEF HonestClaim, Dated
<1> DEFINE inflated(p) == Percent(c.amount, p)
           grid(p) == IF inflated(p) > CoarseAbove THEN CoarseGrid ELSE FineGrid
           round(p) == ((inflated(p) + grid(p) \div 2) \div grid(p)) * grid(p)
           figure(p) == IF round(p) < grid(p) THEN grid(p) ELSE round(p)
<1>1. PICK p \in GhostFactors :
         e = [c EXCEPT !.vendor = vendor, !.amount = figure(p), !.payload = FALSE,
                       !.phash = Phash(vendor, figure(p), c.day, 0)]
  BY DEF Invoices
<1>2. p \in Nat
  BY InjectionAssumption
<1>3. inflated(p) \in Nat
  BY <1>0, <1>2, PercentFacts
<1>4. grid(p) \in Nat \ {0}
  BY InjectionAssumption
<1> HIDE DEF inflated, grid
<1>5. round(p) \in Int
  <2>1. grid(p) \div 2 \in Int
    BY <1>4
  <2>2. inflated(p) + grid(p) \div 2 \in Int
    BY <1>3, <2>1
  <2>3. (inflated(p) + grid(p) \div 2) \div grid(p) \in Int
    BY <1>4, <2>2
  <2> QED
    BY <1>4, <2>3
<1> HIDE DEF round
<1>6. figure(p) \in Nat \ {0}
  BY <1>4, <1>5
<1> HIDE DEF figure
<1>7. /\ IsClaim(e)
      /\ e.id = c.id /\ e.day = c.day /\ e.at = c.at /\ e.amount = figure(p)
      /\ e.user = c.user /\ e.phash = Phash(vendor, figure(p), c.day, 0)
      /\ e.payload = FALSE /\ e.vendor = vendor
  BY <1>0, <1>1 DEF IsClaim, Fields
<1>8. e.phash[4] = 0
  BY <1>7 DEF Phash
<1> QED
  BY <1>0, <1>6, <1>7, <1>8 DEF FromClaim, Dated

(* A claim splits into two legs or as few as fit. *)
LEMMA LegsFacts ==
    ASSUME NEW a \in Nat
    PROVE  /\ Percent(Ceiling, 92) \in Nat /\ Percent(Ceiling, 92) >= 2
           /\ NLegs(a) \in Nat /\ NLegs(a) >= 2
           /\ NLegs(a) = 2 \/ a >= (NLegs(a) - 1) * Percent(Ceiling, 92) + 1
<1> DEFINE h == Percent(Ceiling, 92)
           n == (a + h - 1) \div h
<1>1. h \in Nat /\ h >= 2
  BY InjectionAssumption DEF Percent
<1> HIDE DEF h
<1>2. n \in Int /\ n * h <= a + h - 1
  BY <1>1
<1> HIDE DEF n
<1>3. NLegs(a) = IF n < 2 THEN 2 ELSE n
  BY DEF NLegs, n, h
<1>4. n * h = (n - 1) * h + h
  BY <1>1, <1>2
<1>5. (n - 1) * h \in Int
  BY <1>1, <1>2
<1>6. a >= (n - 1) * h + 1
  BY <1>1, <1>2, <1>4, <1>5
<1> QED
  BY <1>1, <1>2, <1>3, <1>6 DEF h

(* Weights of a split. *)
Fractions(weights, n) ==
    /\ weights = [k \in 1..n |-> weights[k]]
    /\ \A k \in 1..n : weights[k] \in 80..120

(* The drawn weights are weights of the legs. *)
LEMMA Weighted ==
    ASSUME NEW n, NEW weights \in [1..n -> Weights]
    PROVE  Fractions(weights, n)
<1>1. \A w \in Weights : w \in 80..120
  BY InjectionAssumption
<1>2. \A k \in 1..n : weights[k] \in Weights
  OBVIOUS
<1>3. weights = [k \in 1..n |-> weights[k]]
  OBVIOUS
<1> QED
  BY <1>1, <1>2, <1>3 DEF Fractions

(* They add up to something. *)
LEMMA Shares ==
    ASSUME NEW n \in Nat, n >= 2, NEW weights, Fractions(weights, n)
    PROVE  /\ Numbers(weights, n)
           /\ Sum(weights) \in Nat \ {0}
           /\ \A k \in 1..n : weights[k] \in 80..120
<1>1. \A k \in 1..n : weights[k] \in 80..120
  BY DEF Fractions
<1>2. Numbers(weights, n)
  <2>1. \A k \in 1..n : weights[k] \in Int
    BY <1>1
  <2> QED
    BY <2>1 DEF Numbers, Fractions
<1>3. Sum(weights) \in Int /\ Sum(weights) >= 80 * n
  <2>1. \A k \in 1..n : 80 <= weights[k]
    BY <1>1
  <2> QED
    BY <1>2, <2>1, SumAtLeast
<1>4. Sum(weights) >= 1
  BY <1>3
<1> QED
  BY <1>1, <1>2, <1>3, <1>4

(* The amounts of the legs but the last, and the last. *)
Front(a, weights, n) ==
    [k \in 1..(n - 1) |-> Clamp((a * weights[k]) \div Sum(weights))]

(* Every leg is something and below the limit. *)
LEMMA LegAmountsFacts ==
    ASSUME NEW a \in Nat, NEW n \in Nat, n >= 2, NEW weights, Fractions(weights, n)
    PROVE  /\ Numbers(Front(a, weights, n), n - 1)
           /\ \A k \in 1..(n - 1) : LegAmounts(a, weights)[k] = Front(a, weights, n)[k]
           /\ LegAmounts(a, weights)[n] = Clamp(a - Sum(Front(a, weights, n)))
           /\ Numbers(LegAmounts(a, weights), n)
           /\ \A k \in 1..n :
                 LegAmounts(a, weights)[k] \in Nat \ {0} /\ LegAmounts(a, weights)[k] < Ceiling
<1> DEFINE front == Front(a, weights, n)
           last == Clamp(a - Sum(front))
<1>1. /\ Sum(weights) \in Nat \ {0}
      /\ \A k \in 1..n : weights[k] \in 80..120
  BY Shares
<1>2. ASSUME NEW k \in 1..(n - 1)
      PROVE  front[k] \in Nat \ {0} /\ front[k] < Ceiling
  <2>1. weights[k] \in Nat
    BY <1>1
  <2>2. a * weights[k] \in Int
    BY <2>1
  <2>3. (a * weights[k]) \div Sum(weights) \in Int
    BY <1>1, <2>2
  <2>4. front[k] = Clamp((a * weights[k]) \div Sum(weights))
    BY DEF Front
  <2> QED
    BY <2>3, <2>4, ClampFacts
<1>3. n - 1 \in Nat /\ Numbers(front, n - 1)
  BY <1>2 DEF Numbers, Front
<1>4. Sum(front) \in Int
  <2>1. \A k \in 1..(n - 1) : 0 <= front[k]
    BY <1>2
  <2> HIDE DEF front
  <2> QED
    BY <1>3, <2>1, SumAtLeast
<1>5. last \in Nat \ {0} /\ last < Ceiling
  BY <1>4, ClampFacts
<1>6. LegAmounts(a, weights) = Append(front, last)
  <2>1. Len(weights) = n
    BY DEF Fractions
  <2> QED
    BY <2>1 DEF LegAmounts, Front
<1>7. front \in Seq(Nat \ {0}) /\ Len(front) = n - 1
  <2>1. front \in [1..(n - 1) -> Nat \ {0}]
    BY <1>2 DEF Front
  <2> QED
    BY <1>3, <2>1
<1> HIDE DEF front, last
<1>8. /\ Append(front, last) \in Seq(Nat \ {0})
      /\ Len(Append(front, last)) = n
      /\ \A k \in 1..(n - 1) : Append(front, last)[k] = front[k]
      /\ Append(front, last)[n] = last
  BY <1>5, <1>7
<1>9. Append(front, last) \in [1..n -> Nat \ {0}]
  BY <1>8, LenProperties
<1>10. ASSUME NEW k \in 1..n PROVE Append(front, last)[k] < Ceiling
  <2>1. CASE k \in 1..(n - 1)
    BY <1>2, <1>8, <2>1
  <2>2. CASE k = n
    BY <1>5, <1>8, <2>2
  <2>3. k \in 1..(n - 1) \/ k = n
    OBVIOUS
  <2> QED
    BY <2>1, <2>2, <2>3
<1>11. Numbers(Append(front, last), n)
  BY <1>9 DEF Numbers
<1>12. \A k \in 1..n : Append(front, last)[k] \in Nat \ {0}
  BY <1>9
<1> QED
  BY <1>3, <1>6, <1>8, <1>10, <1>11, <1>12 DEF front, last

(* A leg is claimed no earlier than it is dated. *)
LEMMA Scheduled ==
    \A day \in Nat : \A shift \in SplitShifts, lag \in SplitLags, hour \in Hours :
        /\ day + shift \in Nat /\ 24 * (day + shift + lag) + hour \in Nat
        /\ 24 * (day + shift + lag) + hour >= 24 * (day + shift)
<1> SUFFICES ASSUME NEW day \in Nat, NEW shift \in SplitShifts, NEW lag \in SplitLags, NEW hour \in Hours
             PROVE  /\ day + shift \in Nat /\ 24 * (day + shift + lag) + hour \in Nat
                    /\ 24 * (day + shift + lag) + hour >= 24 * (day + shift)
  OBVIOUS
<1>1. shift \in 0..3 /\ lag \in 0..4 /\ hour \in 0..23
  BY InjectionAssumption, SpendAssumption
<1> QED
  BY <1>1

(* The legs of a split. *)
LEMMA SplitFacts ==
    ASSUME NEW c, NEW o, HonestClaim(c, o), NEW n, NEW legs \in Splits(c, n)
    PROVE  /\ legs = [k \in 1..NLegs(c.amount) |-> legs[k]]
           /\ \E weights \in [1..NLegs(c.amount) -> Weights] :
                 \A k \in 1..NLegs(c.amount) : legs[k].amount = LegAmounts(c.amount, weights)[k]
           /\ \A k \in 1..NLegs(c.amount) :
                 /\ FromClaim(legs[k], c)
                 /\ legs[k].id = FraudId(n + k - 1) /\ legs[k].phash[4] = k
                 /\ legs[k].vendor = c.vendor /\ legs[k].amount < Ceiling
<1>0. /\ IsClaim(c) /\ c.payload = FALSE
      /\ c.amount \in Nat /\ c.day \in Nat
  BY DEF HonestClaim, Dated
<1> DEFINE m == NLegs(c.amount)
<1>1. m \in Nat /\ m >= 2
  BY <1>0, LegsFacts
<1> DEFINE at(shift, lag, hour, i) == 24 * (c.day + shift[i] + lag[i]) + hour[i]
           split(weights, shift, lag, hour) ==
              [i \in 1..m |-> Leg(c, n, i, LegAmounts(c.amount, weights)[i], c.day + shift[i],
                                  at(shift, lag, hour, i))]
<1>2. PICK weights \in [1..m -> Weights], shift \in [1..m -> SplitShifts],
           lag \in [1..m -> SplitLags], hour \in [1..m -> Hours] :
              legs = split(weights, shift, lag, hour)
  <2>1. Splits(c, n) = {split(weights, shift, lag, hour) :
                           weights \in [1..m -> Weights], shift \in [1..m -> SplitShifts],
                           lag \in [1..m -> SplitLags], hour \in [1..m -> Hours]}
    BY DEF Splits
  <2> HIDE DEF split, m
  <2>2. legs \in {split(weights, shift, lag, hour) :
                     weights \in [1..m -> Weights], shift \in [1..m -> SplitShifts],
                     lag \in [1..m -> SplitLags], hour \in [1..m -> Hours]}
    BY <2>1
  <2> QED
    BY <2>2
<1> DEFINE amount == LegAmounts(c.amount, weights)
<1>3. \A k \in 1..m : amount[k] \in Nat \ {0} /\ amount[k] < Ceiling
  <2> HIDE DEF m
  <2>1. Fractions(weights, m)
    BY Weighted
  <2> QED
    BY <1>0, <1>1, <2>1, LegAmountsFacts
<1> HIDE DEF m, amount
<1>4. ASSUME NEW k \in 1..m
      PROVE  /\ FromClaim(legs[k], c)
             /\ legs[k].id = FraudId(n + k - 1) /\ legs[k].phash[4] = k
             /\ legs[k].vendor = c.vendor /\ legs[k].amount = amount[k] /\ legs[k].amount < Ceiling
  <2> DEFINE e == legs[k]
             day == c.day + shift[k]
             stamp == at(shift, lag, hour, k)
  <2>1. day \in Nat /\ stamp \in Nat /\ stamp >= 24 * day
    <3>1. shift[k] \in SplitShifts /\ lag[k] \in SplitLags /\ hour[k] \in Hours
      OBVIOUS
    <3> QED
      BY <1>0, <3>1, Scheduled
  <2>2. e = Leg(c, n, k, amount[k], day, stamp)
    BY <1>2 DEF amount
  <2> HIDE DEF e, day, stamp, at
  <2>4. /\ IsClaim(e)
        /\ e.id = FraudId(n + k - 1) /\ e.amount = amount[k] /\ e.day = day /\ e.at = stamp
        /\ e.phash = Phash(c.vendor, amount[k], day, k)
        /\ e.user = c.user /\ e.payload = c.payload /\ e.vendor = c.vendor
    BY <1>0, <2>2 DEF IsClaim, Fields, Leg
  <2>5. e.phash[4] = k
    BY <2>4 DEF Phash
  <2>6. amount[k] \in Nat \ {0} /\ amount[k] < Ceiling
    BY <1>3
  <2>7. FromClaim(e, c)
    BY <1>0, <2>1, <2>4, <2>6 DEF FromClaim, Dated
  <2> QED
    BY <2>4, <2>5, <2>6, <2>7 DEF e
<1>5. legs = [k \in 1..m |-> legs[k]]
  BY <1>2
<1>6. \E w \in [1..m -> Weights] : \A k \in 1..m : legs[k].amount = LegAmounts(c.amount, w)[k]
  BY <1>4 DEF amount
<1> QED
  BY <1>4, <1>5, <1>6 DEF m

(* A claim above the limit is worth two of the smallest unit for each leg  *)
(* but the last.                                                           *)
LEMMA Affords ==
    ASSUME NEW a \in Nat, a > Ceiling
    PROVE  NLegs(a) \in Nat /\ NLegs(a) >= 2 /\ a >= 2 * (NLegs(a) - 1) + 1
<1> DEFINE h == Percent(Ceiling, 92)
           n == NLegs(a)
<1>1. n \in Nat /\ n >= 2 /\ h \in Nat /\ h >= 2 /\ (n = 2 \/ a >= (n - 1) * h + 1)
  BY LegsFacts
<1>2. Ceiling \in Nat /\ Ceiling >= 3
  BY InjectionAssumption
<1> HIDE DEF h, n
<1>3. a >= 2 * (n - 1) + 1
  <2>1. CASE n = 2
    BY <1>2, <2>1
  <2>2. CASE a >= (n - 1) * h + 1
    <3>1. PICK m \in Nat : n = m + 1
      <4>1. n - 1 \in Nat /\ n = (n - 1) + 1
        BY <1>1
      <4> QED
        BY <4>1
    <3>2. PICK g \in Nat : h = 2 + g
      <4>1. h - 2 \in Nat /\ h = 2 + (h - 2)
        BY <1>1
      <4> QED
        BY <4>1
    <3>3. (n - 1) * h = 2 * m + m * g /\ m * g \in Nat
      BY <3>1, <3>2
    <3> QED
      BY <2>2, <3>1, <3>3
  <2> QED
    BY <1>1, <2>1, <2>2
<1> QED
  BY <1>1, <1>3 DEF n

(* Its legs are worth as much as the claim, or less when the last of them  *)
(* is as large as a leg may be.                                            *)
LEMMA LegsSum ==
    ASSUME NEW a \in Nat, NEW n \in Nat, n >= 2, a >= 2 * (n - 1) + 1,
           NEW weights, Fractions(weights, n)
    PROVE  \/ Sum(LegAmounts(a, weights)) = a
           \/ /\ Sum(LegAmounts(a, weights)) < a
              /\ LegAmounts(a, weights)[n] = Ceiling - 1
<1>20. /\ Numbers(Front(a, weights, n), n - 1)
       /\ \A k \in 1..(n - 1) : LegAmounts(a, weights)[k] = Front(a, weights, n)[k]
       /\ LegAmounts(a, weights)[n] = Clamp(a - Sum(Front(a, weights, n)))
       /\ Numbers(LegAmounts(a, weights), n)
       /\ \A k \in 1..n : LegAmounts(a, weights)[k] \in Nat \ {0}
  BY LegAmountsFacts
<1> DEFINE W == Sum(weights)
           front == Front(a, weights, n)
<1>1. n \in Nat /\ n >= 2
  OBVIOUS
<1>3. a >= 2 * (n - 1) + 1
  OBVIOUS
<1>4. /\ Numbers(weights, n) /\ W \in Nat \ {0}
      /\ \A k \in 1..n : weights[k] \in 80..120
  BY <1>1, Shares
<1>5. /\ Numbers(front, n - 1)
      /\ \A k \in 1..(n - 1) : LegAmounts(a, weights)[k] = front[k]
      /\ LegAmounts(a, weights)[n] = Clamp(a - Sum(front))
      /\ Numbers(LegAmounts(a, weights), n)
      /\ \A k \in 1..n : LegAmounts(a, weights)[k] \in Nat \ {0}
  BY <1>20
<1>6. PICK g : Totals(g, weights, n) /\ W = g[n]
  BY <1>1, <1>4, SumBy
<1>7. n - 1 \in Nat
  BY <1>1
<1>8. PICK f : Totals(f, front, n - 1) /\ Sum(front) = f[n - 1]
  <2> HIDE DEF front
  <2> QED
    BY <1>5, <1>7, SumBy
<1> HIDE DEF W
(* No weight is too small for its leg. *)
<1>9. ASSUME NEW k \in 1..n PROVE W <= a * weights[k]
  <2> DEFINE S == {i \in 0..n : g[i] <= IF i < k THEN 120 * i ELSE weights[k] + 120 * (i - 1)}
  <2>1. 0 \in S
    BY <1>6 DEF Totals
  <2>2. ASSUME NEW i \in 1..n, i - 1 \in S PROVE i \in S
    <3>1. g[i] = g[i - 1] + weights[i] /\ weights[i] \in 80..120 /\ g[i - 1] \in Int
      BY <1>4, <1>6 DEF Totals
    <3>2. weights[k] \in 80..120
      BY <1>4
    <3> QED
      BY <2>2, <3>1, <3>2
  <2>3. n \in S
    <3>1. 0..n \subseteq S
      <4> HIDE DEF S
      <4> QED
        BY <1>1, <2>1, <2>2, UpTo
    <3> HIDE DEF S
    <3> QED
      BY <1>1, <3>1
  <2>4. W <= weights[k] + 120 * (n - 1)
    BY <1>1, <1>6, <2>3
  <2>5. weights[k] \in 80..120
    BY <1>4
  <2>6. PICK d \in Nat : a = 2 * (n - 1) + 1 + d
    <3>1. a - (2 * (n - 1) + 1) \in Nat /\ a = 2 * (n - 1) + 1 + (a - (2 * (n - 1) + 1))
      BY <1>1, <1>3
    <3> QED
      BY <3>1
  <2>7. a * weights[k] = 2 * ((n - 1) * weights[k]) + weights[k] + d * weights[k]
    BY <1>1, <2>5, <2>6
  <2>8. PICK x \in Nat : weights[k] = 80 + x
    <3>1. weights[k] - 80 \in Nat /\ weights[k] = 80 + (weights[k] - 80)
      BY <2>5
    <3> QED
      BY <3>1
  <2>9. (n - 1) * weights[k] = 80 * (n - 1) + (n - 1) * x /\ (n - 1) * x \in Nat
    BY <1>7, <2>8
  <2>10. d * weights[k] \in Nat
    BY <2>5
  <2> QED
    BY <1>1, <1>4, <2>4, <2>5, <2>7, <2>9, <2>10
(* So that each leg but the last is its share or less. *)
<1>10. ASSUME NEW k \in 1..(n - 1) PROVE front[k] * W <= a * weights[k]
  <2> DEFINE share == (a * weights[k]) \div W
  <2>1. k \in 1..n /\ weights[k] \in 80..120
    BY <1>1, <1>4
  <2>2. a * weights[k] \in Nat /\ W <= a * weights[k]
    BY <1>9, <2>1
  <2>3. share \in Int /\ share * W <= a * weights[k] /\ a * weights[k] < (share + 1) * W
    BY <1>4, <2>2
  <2>4. front[k] = Clamp(share)
    BY <1>1 DEF Front, W
  <2> HIDE DEF share, front
  <2>5. share >= 1
    <3> SUFFICES ASSUME share <= 0 PROVE FALSE
      BY <2>3
    <3>1. PICK y \in Nat : share = 0 - y
      <4>1. 0 - share \in Nat /\ share = 0 - (0 - share)
        BY <2>3
      <4> QED
        BY <4>1
    <3>2. (share + 1) * W = W - y * W /\ y * W \in Nat
      BY <1>4, <3>1
    <3> QED
      BY <1>4, <2>2, <2>3, <3>2
  <2>6. front[k] \in Nat /\ front[k] <= share
    BY <2>3, <2>4, <2>5, ClampFacts
  <2>7. front[k] * W <= share * W
    <3>1. PICK y \in Nat : share = front[k] + y
      <4>1. share - front[k] \in Nat /\ share = front[k] + (share - front[k])
        BY <2>3, <2>6
      <4> QED
        BY <4>1
    <3>2. share * W = front[k] * W + y * W /\ y * W \in Nat /\ front[k] * W \in Nat
      BY <1>4, <2>6, <3>1
    <3> QED
      BY <3>2
  <2>8. front[k] * W \in Int /\ share * W \in Int
    BY <1>4, <2>3, <2>6
  <2> QED
    BY <2>2, <2>3, <2>7, <2>8
<1>11. ASSUME NEW k \in 0..(n - 1) PROVE f[k] * W <= a * g[k]
  <2> DEFINE S == {i \in 0..(n - 1) : f[i] * W <= a * g[i]}
  <2>1. 0 \in S
    BY <1>4, <1>6, <1>7, <1>8 DEF Totals
  <2>2. ASSUME NEW i \in 1..(n - 1), i - 1 \in S PROVE i \in S
    <3>1. f[i] = f[i - 1] + front[i] /\ f[i - 1] \in Int /\ front[i] \in Int
      BY <1>5, <1>7, <1>8 DEF Totals, Numbers
    <3>2. g[i] = g[i - 1] + weights[i] /\ g[i - 1] \in Int /\ weights[i] \in Int
      <4>1. i \in 1..n
        BY <1>1
      <4>2. weights[i] \in 80..120
        BY <1>4, <4>1
      <4>3. g[i] = g[i - 1] + weights[i]
        BY <1>6, <4>1 DEF Totals
      <4>4. i - 1 \in 0..n
        BY <4>1
      <4>5. g[i - 1] \in Int
        BY <1>6, <4>4 DEF Totals
      <4> QED
        BY <4>2, <4>3, <4>5
    <3> HIDE DEF front
    <3>3. f[i] * W = f[i - 1] * W + front[i] * W
      BY <1>4, <3>1
    <3>4. a * g[i] = a * g[i - 1] + a * weights[i]
      BY <3>2
    <3>5. f[i - 1] * W <= a * g[i - 1] /\ front[i] * W <= a * weights[i]
      BY <1>10, <2>2
    <3>6. /\ f[i - 1] * W \in Int /\ front[i] * W \in Int
          /\ a * g[i - 1] \in Int /\ a * weights[i] \in Int
      BY <1>4, <3>1, <3>2
    <3>7. f[i] * W <= a * g[i]
      BY <3>3, <3>4, <3>5, <3>6
    <3> QED
      BY <3>7
  <2>3. 0..(n - 1) \subseteq S
    <3> HIDE DEF S
    <3> QED
      BY <1>7, <2>1, <2>2, UpTo
  <2> QED
    BY <2>3
(* And something is left for the last. *)
<1>12. Sum(front) \in Int /\ a - Sum(front) >= 1
  <2>1. f[n - 1] \in Int /\ g[n - 1] \in Int /\ n \in 1..n /\ n - 1 \in 0..(n - 1)
    BY <1>1, <1>6, <1>7, <1>8 DEF Totals
  <2>2. W = g[n - 1] + weights[n] /\ weights[n] \in Int
    <3>1. weights[n] \in 80..120
      BY <1>4, <2>1
    <3>2. g[n] = g[n - 1] + weights[n]
      BY <1>6, <2>1 DEF Totals
    <3> QED
      BY <1>6, <3>1, <3>2
  <2>3. f[n - 1] * W <= a * g[n - 1] /\ W <= a * weights[n]
    BY <1>9, <1>11, <2>1
  <2>4. a * W = a * g[n - 1] + a * weights[n]
    BY <2>1, <2>2
  <2>5. f[n - 1] * W \in Int /\ a * g[n - 1] \in Int /\ a * weights[n] \in Int /\ a * W \in Int
    BY <1>4, <2>1, <2>2
  <2>6. a * W >= f[n - 1] * W + W
    BY <1>4, <2>3, <2>4, <2>5
  <2>7. a - f[n - 1] >= 1
    <3> SUFFICES ASSUME a - f[n - 1] <= 0 PROVE FALSE
      BY <2>1
    <3>1. PICK y \in Nat : f[n - 1] = a + y
      <4>1. f[n - 1] - a \in Nat /\ f[n - 1] = a + (f[n - 1] - a)
        BY <2>1
      <4> QED
        BY <4>1
    <3>2. f[n - 1] * W = a * W + y * W /\ y * W \in Nat
      BY <1>4, <3>1
    <3> QED
      BY <1>4, <2>5, <2>6, <3>2
  <2> QED
    BY <1>8, <2>1, <2>7
<1>13. /\ Clamp(a - Sum(front)) <= a - Sum(front)
       /\ Clamp(a - Sum(front)) # a - Sum(front) => Clamp(a - Sum(front)) = Ceiling - 1
  BY <1>12, ClampFacts
<1>14. Sum(LegAmounts(a, weights)) = Sum(front) + LegAmounts(a, weights)[n]
  <2>1. Numbers(LegAmounts(a, weights), (n - 1) + 1) /\ (n - 1) + 1 = n
    BY <1>1, <1>5
  <2> HIDE DEF front
  <2> QED
    BY <1>5, <1>7, <2>1, SumLast
<1>15. LegAmounts(a, weights)[n] \in Int
  BY <1>1, <1>5
<1> QED
  BY <1>5, <1>12, <1>13, <1>14, <1>15

----------------------------------------------------------------------------
(* Sequences that grow. *)

(* A listing is a sequence, and its rows are its elements. *)
LEMMA ListedSeq ==
    ASSUME NEW s, NEW n, Listed(s, n)
    PROVE  s \in Seq(Rows(s)) /\ DOMAIN s = 1..n /\ Rows(s) = {s[i] : i \in 1..n}
<1>1. n \in Nat /\ DOMAIN s = 1..n /\ s = [i \in 1..n |-> s[i]]
  BY DEF Listed
<1>2. s \in [1..n -> Rows(s)]
  BY <1>1 DEF Rows
<1> QED
  BY <1>1, <1>2 DEF Rows

(* A sequence is a listing of its length. *)
LEMMA SeqListed ==
    ASSUME NEW S, NEW s \in Seq(S)
    PROVE  Listed(s, Len(s))
  BY LenProperties DEF Listed

(* One sequence after another. *)
Joint(s, t) == s \o t

(* The elements after the m-th are those of t. *)
Follows(u, m, t, n) == \A k \in 1..n : u[m + k] = t[k]

(* One listing after another is a listing. *)
LEMMA Joined ==
    ASSUME NEW s, NEW t, NEW m, NEW n, Listed(s, m), Listed(t, n)
    PROVE  Longer(s, Joint(s, t), n) /\ Follows(Joint(s, t), m, t, n)
<1> DEFINE S == Rows(s) \cup Rows(t)
<1>1. s \in Seq(S) /\ t \in Seq(S)
  <2>1. s \in Seq(Rows(s)) /\ t \in Seq(Rows(t))
    BY ListedSeq
  <2> QED
    BY <2>1
<1>2. m \in Nat /\ n \in Nat /\ Len(s) = m /\ Len(t) = n
  BY DEF Listed
<1> HIDE DEF S
<1> DEFINE u == s \o t
<1>3. /\ u \in Seq(S) /\ Len(u) = m + n
      /\ \A i \in 1..(m + n) : u[i] = IF i <= m THEN s[i] ELSE t[i - m]
  BY <1>1, <1>2, ConcatProperties
<1> HIDE DEF u
<1>4. Listed(u, m + n)
  BY <1>3, SeqListed
<1>5. ASSUME NEW k \in 1..n PROVE u[m + k] = t[k]
  <2>1. m + k \in 1..(m + n) /\ ~(m + k <= m) /\ (m + k) - m = k
    BY <1>2
  <2> QED
    BY <1>3, <2>1
<1>6. ASSUME NEW i \in 1..m PROVE u[i] = s[i]
  <2>1. i \in 1..(m + n) /\ i <= m
    BY <1>2
  <2> QED
    BY <1>3, <2>1
<1> QED
  BY <1>2, <1>4, <1>5, <1>6 DEF Longer, u, Joint, Follows

(* One element is a listing. *)
LEMMA Single ==
    ASSUME NEW x
    PROVE  Listed(<<x>>, 1) /\ <<x>>[1] = x
  BY DEF Listed

(* Nothing after a listing leaves it as it is. *)
LEMMA JoinedEmpty ==
    ASSUME NEW s, NEW m, Listed(s, m)
    PROVE  Joint(s, <<>>) = s
<1>1. s \in Seq(Rows(s))
  BY ListedSeq
<1> QED
  BY <1>1, ConcatEmptySeq DEF Joint

(* One element more, or two. *)
LEMMA LongerByOne ==
    ASSUME NEW s, NEW m, Listed(s, m), NEW x
    PROVE  Longer(s, Append(s, x), 1) /\ Append(s, x)[m + 1] = x
<1>1. s \in Seq(Rows(s) \cup {x}) /\ Len(s) = m /\ m \in Nat
  <2>1. s \in Seq(Rows(s)) /\ Len(s) = m /\ m \in Nat
    BY ListedSeq DEF Listed
  <2> QED
    BY <2>1
<1> DEFINE u == Append(s, x)
<1>2. /\ u \in Seq(Rows(s) \cup {x}) /\ Len(u) = m + 1
      /\ \A i \in 1..m : u[i] = s[i]
      /\ u[m + 1] = x
  BY <1>1, AppendProperties
<1> HIDE DEF u
<1>3. Listed(u, m + 1)
  BY <1>2, SeqListed
<1> QED
  BY <1>1, <1>2, <1>3 DEF Longer, u

(* To append is to put one element after a listing. *)
LEMMA Appended ==
    ASSUME NEW s, NEW m, Listed(s, m), NEW x
    PROVE  Joint(s, <<x>>) = Append(s, x)
<1>1. s \in Seq(Rows(s) \cup {x})
  <2>1. s \in Seq(Rows(s))
    BY ListedSeq
  <2> QED
    BY <2>1
<1> QED
  BY <1>1, AppendIsConcat DEF Joint

(* Listings grow by what they grow each time. *)
LEMMA LongerTwice ==
    ASSUME NEW s, NEW t, NEW u, NEW a, NEW b, Longer(s, t, a), Longer(t, u, b)
    PROVE  Longer(s, u, a + b)
<1>1. /\ Len(s) \in Nat /\ a \in Nat /\ b \in Nat /\ Len(t) = Len(s) + a
      /\ Listed(s, Len(s)) /\ Listed(u, Len(t) + b)
  BY DEF Longer, Listed
<1>2. Listed(u, Len(s) + (a + b))
  <2>1. Len(t) + b = Len(s) + (a + b)
    BY <1>1
  <2> QED
    BY <1>1, <2>1
<1>3. ASSUME NEW i \in 1..Len(s) PROVE u[i] = s[i]
  <2>1. i \in 1..Len(t)
    BY <1>1
  <2> QED
    BY <2>1 DEF Longer
<1> QED
  BY <1>1, <1>2, <1>3 DEF Longer

----------------------------------------------------------------------------
(* The plan. *)

(* The argument is a listing of honest claims. *)
LEMMA ExpensesFacts ==
    ASSUME PlanInv
    PROVE  /\ Listed(expenses, Len(expenses))
           /\ \A i \in 1..Len(expenses) : HonestClaim(expenses[i], i)
<1>1. CASE expenses = <<>>
  <2>1. Len(expenses) = 0
    BY <1>1
  <2>2. expenses = [i \in 1..0 |-> expenses[i]]
    BY <1>1
  <2> QED
    BY <2>1, <2>2 DEF Listed
<1>2. CASE expenses \in Baseline
  BY <1>2, HonestLedger, SeqListed
<1> QED
  BY <1>1, <1>2 DEF PlanInv

(* What is planned for a claim, and what it can become. *)
LEMMA PlannedFacts ==
    ASSUME PlanInv, NEW o \in 1..Len(expenses)
    PROVE  /\ \/ plan[o] = "none" \/ plan[o] = "duplicate" \/ plan[o] = "split"
              \/ plan[o] = "ghost_vendor" \/ plan[o] = "personal"
              \/ plan[o] = "inflation" \/ plan[o] = "collusion"
           /\ Width(o) \in Nat \ {0}
           /\ plan[o] = "split" => expenses[o].amount \in Nat /\ expenses[o].amount > Ceiling
<1>1. plan[o] \in Typologies \cup {"none"}
  BY DEF PlanInv
<1>2. expenses[o].amount \in Nat
  BY ExpensesFacts DEF HonestClaim, Dated
<1>3. NLegs(expenses[o].amount) \in Nat \ {0}
  <2>1. ASSUME NEW a \in Nat PROVE NLegs(a) \in Nat \ {0}
    <3>1. NLegs(a) \in Nat /\ NLegs(a) >= 2
      BY LegsFacts
    <3> QED
      BY <3>1
  <2> QED
    BY <1>2, <2>1
<1>4. Width(o) \in Nat \ {0}
  BY <1>3 DEF Width
<1>5. plan[o] = "split" => expenses[o].amount > Ceiling
  BY DEF PlanInv
<1> QED
  BY <1>1, <1>2, <1>4, <1>5 DEF Typologies

(* Ids are set aside by the stride. *)
LEMMA Strides ==
    ASSUME NEW m \in Nat, NEW n \in Nat
    PROVE  /\ Stride \in Nat \ {0}
           /\ Stride * m \in Nat
           /\ m <= n => Stride * m <= Stride * n
           /\ m + 1 <= n => Stride * m + Stride <= Stride * n
           /\ Stride * (m + 1) = Stride * m + Stride
<1>1. Stride \in Nat \ {0}
  BY InjectionAssumption
<1>2. Stride * m \in Nat /\ Stride * (m + 1) = Stride * m + Stride
  BY <1>1
<1>3. ASSUME NEW x \in Nat, NEW y \in Nat, x <= y PROVE Stride * x <= Stride * y
  <2>1. PICK d \in Nat : y = x + d
    <3>1. y - x \in Nat /\ y = x + (y - x)
      BY <1>3
    <3> QED
      BY <3>1
  <2>2. Stride * y = Stride * x + Stride * d /\ Stride * d \in Nat /\ Stride * x \in Nat
    BY <1>1, <2>1
  <2> QED
    BY <2>2
<1>4. ASSUME m + 1 <= n PROVE Stride * m + Stride <= Stride * n
  <2>1. Stride * (m + 1) <= Stride * n
    BY <1>3, <1>4
  <2> QED
    BY <1>2, <2>1
<1> QED
  BY <1>1, <1>2, <1>3, <1>4

(* The ids set aside for a claim end before those of a later one begin. *)
LEMMA Starts ==
    ASSUME NEW o \in Nat, NEW p \in Nat, o < p
    PROVE  /\ Start(o) \in Nat /\ Start(o) <= Start(p)
           /\ plan[p] # "none" => Start(o) + Stride <= Start(p)
<1> DEFINE S(x) == {j \in 1..x : plan[j] # "none"}
<1>0. \A x \in Nat : IsFiniteSet(1..x)
  BY FS_Interval
<1>1. IsFiniteSet(S(o)) /\ IsFiniteSet(S(p)) /\ Cardinality(S(o)) \in Nat /\ Cardinality(S(p)) \in Nat
  <2>1. S(o) \subseteq 1..o /\ S(p) \subseteq 1..p
    OBVIOUS
  <2> HIDE DEF S
  <2>2. IsFiniteSet(S(o)) /\ IsFiniteSet(S(p))
    BY <1>0, <2>1, FS_Subset
  <2> QED
    BY <2>2, FS_CardinalityType
<1>2. Cardinality(S(o)) <= Cardinality(S(p))
  <2>1. S(o) \subseteq S(p)
    OBVIOUS
  <2> HIDE DEF S
  <2> QED
    BY <1>1, <2>1, FS_Subset
<1>3. ASSUME plan[p] # "none" PROVE Cardinality(S(o)) + 1 <= Cardinality(S(p))
  <2>1. S(o) \cup {p} \subseteq S(p) /\ p \notin S(o)
    BY <1>3
  <2> HIDE DEF S
  <2>2. IsFiniteSet(S(o) \cup {p}) /\ Cardinality(S(o) \cup {p}) = Cardinality(S(o)) + 1
    BY <1>1, <2>1, FS_AddElement
  <2>3. Cardinality(S(o) \cup {p}) <= Cardinality(S(p))
    BY <1>1, <2>1, FS_Subset
  <2> QED
    BY <2>2, <2>3
<1>4. Start(o) = Stride * Cardinality(S(o)) /\ Start(p) = Stride * Cardinality(S(p))
  BY DEF Start
<1> HIDE DEF S
<1>5. /\ Stride * Cardinality(S(o)) \in Nat
      /\ Stride * Cardinality(S(o)) <= Stride * Cardinality(S(p))
      /\ plan[p] # "none" => Stride * Cardinality(S(o)) + Stride <= Stride * Cardinality(S(p))
  BY <1>1, <1>2, <1>3, Strides
<1> QED
  BY <1>4, <1>5

(* Ids are set aside for the next claim exactly when it is a target. *)
LEMMA NextStart ==
    ASSUME NEW o \in Nat
    PROVE  Start(o + 1) = IF plan[o + 1] = "none" THEN Start(o) ELSE Start(o) + Stride
<1> DEFINE S(x) == {j \in 1..x : plan[j] # "none"}
<1>1. IsFiniteSet(S(o)) /\ Cardinality(S(o)) \in Nat
  <2>1. S(o) \subseteq 1..o /\ IsFiniteSet(1..o)
    BY FS_Interval
  <2> HIDE DEF S
  <2>2. IsFiniteSet(S(o))
    BY <2>1, FS_Subset
  <2> QED
    BY <2>2, FS_CardinalityType
<1>2. Start(o) = Stride * Cardinality(S(o)) /\ Start(o + 1) = Stride * Cardinality(S(o + 1))
  BY DEF Start
<1>3. CASE plan[o + 1] = "none"
  <2>1. S(o + 1) = S(o)
    BY <1>3
  <2> QED
    BY <1>2, <1>3, <2>1
<1>4. CASE plan[o + 1] # "none"
  <2>1. S(o + 1) = S(o) \cup {o + 1} /\ o + 1 \notin S(o)
    BY <1>4
  <2> HIDE DEF S
  <2>2. Cardinality(S(o) \cup {o + 1}) = Cardinality(S(o)) + 1
    BY <1>1, <2>1, FS_AddElement
  <2>3. Cardinality(S(o + 1)) = Cardinality(S(o)) + 1
    BY <2>1, <2>2
  <2>4. Stride * (Cardinality(S(o)) + 1) = Stride * Cardinality(S(o)) + Stride
    BY <1>1, Strides
  <2> QED
    BY <1>2, <1>4, <2>3, <2>4
<1> QED
  BY <1>3, <1>4

(* No two of what the claims become have one id and one salt. *)
LEMMA TagsDiffer ==
    ASSUME PlanInv, NEW o \in 1..Len(expenses), NEW p \in 1..Len(expenses),
           NEW k \in 1..Width(o), NEW l \in 1..Width(p),
           IdOf(o, k) = IdOf(p, l), SaltOf(o, k) = SaltOf(p, l)
    PROVE  o = p /\ k = l
<1>0. Len(expenses) \in Nat
  BY ExpensesFacts DEF Listed
<1>1. o \in Nat /\ p \in Nat /\ k \in Nat \ {0} /\ l \in Nat \ {0} /\ k <= Width(o) /\ l <= Width(p)
  BY <1>0, PlannedFacts
<1>2. Start(o) \in Nat /\ Start(p) \in Nat
  <2>1. o + 1 \in Nat /\ o < o + 1 /\ p + 1 \in Nat /\ p < p + 1
    BY <1>1
  <2> QED
    BY <1>1, <2>1, Starts
<1>20. Stride \in Nat \ {0}
  BY InjectionAssumption
<1>3. ASSUME plan[o] # "none", plan[p] # "none", Start(o) = Start(p) PROVE o = p
  <2>1. CASE o < p
    <3>1. Start(o) + Stride <= Start(p)
      BY <1>1, <1>3, <2>1, Starts
    <3> QED
      BY <1>2, <1>20, <1>3, <3>1
  <2>2. CASE p < o
    <3>1. Start(p) + Stride <= Start(o)
      BY <1>1, <1>3, <2>2, Starts
    <3> QED
      BY <1>2, <1>20, <1>3, <3>1
  <2> QED
    BY <1>1, <2>1, <2>2
<1>4. \A x, y : FraudId(x) = FraudId(y) => x = y
  BY DEF FraudId
<1>5. \A x, y : ClaimId(x) = ClaimId(y) => x = y
  BY DEF ClaimId
<1>6. \A x, y : FraudId(x) # ClaimId(y)
  BY DEF FraudId, ClaimId
<1>7. CASE plan[o] = "split"
  <2>1. SaltOf(o, k) # 0
    BY <1>1, <1>7 DEF SaltOf
  <2>2. plan[p] = "split" /\ k = l
    BY <1>7, <2>1 DEF SaltOf
  <2>3. Start(o) + k - 1 = Start(p) + l - 1
    BY <1>4, <1>7, <2>2 DEF IdOf
  <2> QED
    BY <1>1, <1>2, <1>3, <1>7, <2>2, <2>3
<1>8. CASE plan[o] # "split"
  <2>1. plan[p] # "split"
    BY <1>1, <1>8 DEF SaltOf
  <2>2. CASE plan[o] = "duplicate" /\ k = 2
    <3>1. plan[p] = "duplicate" /\ l = 2 /\ Start(o) = Start(p)
      BY <1>4, <1>6, <1>8, <2>1, <2>2 DEF IdOf
    <3> QED
      BY <1>3, <2>2, <3>1
  <2>3. CASE ~(plan[o] = "duplicate" /\ k = 2)
    <3>1. ~(plan[p] = "duplicate" /\ l = 2) /\ o = p
      BY <1>5, <1>6, <1>8, <2>1, <2>3 DEF IdOf
    <3>2. k = 1 /\ l = 1
      BY <1>1, <1>8, <2>1, <2>3, <3>1 DEF Width
    <3> QED
      BY <3>1, <3>2
  <2> QED
    BY <2>2, <2>3
<1> QED
  BY <1>7, <1>8

----------------------------------------------------------------------------
(* Labels. *)

(* A label of a claim. *)
Verdict(l, c, fraud, typology, linked) ==
    /\ l.id = c.id /\ l.fraud = fraud /\ l.typology = typology /\ l.linked = linked
    /\ l.observed \in BOOLEAN /\ (l.observed => fraud)
    /\ l.confirmed \in Nat

(* A verdict is recorded at an instant. *)
LEMMA ResolvedFacts ==
    ASSUME NEW c, Dated(c), NEW lags, lags \subseteq Nat, NEW at \in Resolutions(c, lags)
    PROVE  at \in Nat
<1>1. PICK lag \in lags : at \in Stamps(DayOf(c.at) + lag)
  BY DEF Resolutions
<1>2. DayOf(c.at) \in Nat
  BY DEF DayOf, Dated
<1> HIDE DEF DayOf
<1>3. DayOf(c.at) + lag \in Int /\ 24 * (DayOf(c.at) + lag) >= 0
  BY <1>2
<1>4. at \in Int /\ 24 * (DayOf(c.at) + lag) <= at
  BY <1>1, <1>3, Stamped
<1> QED
  BY <1>3, <1>4

(* The label of an honest claim says so. *)
LEMMA CleanFacts ==
    ASSUME NEW c, Dated(c), NEW l \in CleanLabels(c)
    PROVE  Verdict(l, c, FALSE, "none", {})
<1>1. PICK at \in Resolutions(c, CleanLags) :
         l = [id |-> c.id, fraud |-> FALSE, typology |-> "none", observed |-> FALSE,
              confirmed |-> at, linked |-> {}]
  BY DEF CleanLabels
<1>2. at \in Nat
  <2>1. CleanLags \subseteq Nat
    BY InjectionAssumption
  <2> QED
    BY <2>1, ResolvedFacts
<1> QED
  BY <1>1, <1>2 DEF Verdict

(* The label of a fraud says so, recorded or not. *)
LEMMA FraudFacts ==
    ASSUME NEW c, Dated(c), NEW typology, NEW linked, NEW l \in FraudLabels(c, typology, linked)
    PROVE  Verdict(l, c, TRUE, typology, linked)
<1>1. CleanLags \subseteq Nat /\ AuditLags \subseteq Nat
  BY InjectionAssumption
<1>2. PICK at \in Resolutions(c, AuditLags) \cup Resolutions(c, CleanLags), observed \in BOOLEAN :
         l = [id |-> c.id, fraud |-> TRUE, typology |-> typology, observed |-> observed,
              confirmed |-> at, linked |-> linked]
  BY DEF FraudLabels
<1>3. at \in Nat
  BY <1>1, ResolvedFacts
<1> QED
  BY <1>2, <1>3 DEF Verdict

----------------------------------------------------------------------------
(* What the claims become. *)

(* The original of a duplicate and the honest claims are as they were. *)
Untouched(o, k) == plan[o] = "none" \/ (plan[o] = "duplicate" /\ k = 1)

(* The k-th of what the claim becomes is c, and its label l. *)
Becomes(o, k, c, l) ==
    /\ FromClaim(c, expenses[o])
    /\ c.id = IdOf(o, k) /\ c.phash[4] = SaltOf(o, k)
    /\ IF Untouched(o, k) THEN c = expenses[o] /\ Verdict(l, c, FALSE, "none", {})
       ELSE Verdict(l, c, TRUE, plan[o], LinkedTo(o))

(* An honest claim comes from itself. *)
LEMMA HonestFrom ==
    ASSUME NEW c, NEW i, HonestClaim(c, i)
    PROVE  FromClaim(c, c) /\ Dated(c) /\ c.id = ClaimId(i) /\ c.phash[4] = 0 /\ c.amount \in Nat
  BY DEF HonestClaim, FromClaim, Dated

(* Each of what a claim became is in its place, with its label. *)
LEMMA PlacedFacts ==
    ASSUME PlanInv, Len(kept) \in Nat, NEW o \in 1..Len(expenses), NEW b, Placed(o, b), NEW k \in 1..Width(o)
    PROVE  /\ b + k \in 1..Len(kept)
           /\ Becomes(o, k, kept[b + k], labels[b + k])
<1> DEFINE c == expenses[o]
<1>1. HonestClaim(c, o)
  BY ExpensesFacts
<1>2. Width(o) \in Nat \ {0} /\ b \in Nat /\ b + Width(o) <= Len(kept)
  BY PlannedFacts DEF Placed
<1>3. b + k \in 1..Len(kept)
  BY <1>2
<1>4. FromClaim(c, c) /\ Dated(c) /\ c.id = ClaimId(o) /\ c.phash[4] = 0 /\ c.amount \in Nat
  BY <1>1, HonestFrom
<1>5. CASE plan[o] = "none"
  <2>1. Honest(o, b + 1)
    BY <1>5 DEF Placed
  <2>2. k = 1
    BY <1>5 DEF Width
  <2>3. kept[b + k] = c /\ labels[b + k] \in CleanLabels(c)
    BY <2>1, <2>2 DEF Honest
  <2>4. Verdict(labels[b + k], c, FALSE, "none", {})
    BY <1>4, <2>3, CleanFacts
  <2>5. IdOf(o, k) = ClaimId(o) /\ SaltOf(o, k) = 0 /\ Untouched(o, k)
    BY <1>5 DEF IdOf, SaltOf, Untouched
  <2> QED
    BY <1>3, <1>4, <2>3, <2>4, <2>5 DEF Becomes
<1>6. CASE plan[o] = "duplicate"
  <2>1. /\ Honest(o, b + 1)
        /\ <<kept[b + 2]>> \in Duplicates(c, Start(o))
        /\ Fraudulent(o, b + 2)
    BY <1>6 DEF Placed
  <2>2. k = 1 \/ k = 2
    BY <1>6 DEF Width
  <2>3. CASE k = 1
    <3>1. kept[b + k] = c /\ labels[b + k] \in CleanLabels(c)
      BY <2>1, <2>3 DEF Honest
    <3>2. Verdict(labels[b + k], c, FALSE, "none", {})
      BY <1>4, <3>1, CleanFacts
    <3>3. IdOf(o, k) = ClaimId(o) /\ SaltOf(o, k) = 0 /\ Untouched(o, k)
      BY <1>6, <2>3 DEF IdOf, SaltOf, Untouched
    <3> QED
      BY <1>3, <1>4, <3>1, <3>2, <3>3 DEF Becomes
  <2>4. CASE k = 2
    <3> DEFINE e == kept[b + k]
    <3>1. FromClaim(e, c) /\ e.id = FraudId(Start(o)) /\ e.phash = c.phash
      BY <1>1, <2>1, <2>4, DuplicateFacts
    <3>2. labels[b + k] \in FraudLabels(e, plan[o], LinkedTo(o))
      BY <2>1, <2>4 DEF Fraudulent
    <3>3. Dated(e)
      BY <3>1 DEF FromClaim
    <3>4. Verdict(labels[b + k], e, TRUE, plan[o], LinkedTo(o))
      BY <3>2, <3>3, FraudFacts
    <3>5. IdOf(o, k) = FraudId(Start(o)) /\ SaltOf(o, k) = 0 /\ ~Untouched(o, k)
      BY <1>6, <2>4 DEF IdOf, SaltOf, Untouched
    <3> HIDE DEF c
    <3>6. FromClaim(e, expenses[o]) /\ c.phash[4] = 0
      BY <1>4, <3>1 DEF c
    <3> HIDE DEF e
    <3>7. Becomes(o, k, e, labels[b + k])
      BY <3>1, <3>4, <3>5, <3>6 DEF Becomes
    <3> QED
      BY <1>3, <3>7 DEF e
  <2> QED
    BY <2>2, <2>3, <2>4
<1>7. CASE plan[o] = "split"
  <2> DEFINE legs == Legs(b, Width(o))
             e == kept[b + k]
  <2>1. /\ legs \in Splits(c, Start(o))
        /\ \A i \in 1..Width(o) : Fraudulent(o, b + i)
    BY <1>7 DEF Placed
  <2>2. Width(o) = NLegs(c.amount)
    BY <1>7 DEF Width
  <2>3. DOMAIN legs = 1..Width(o) /\ \A i \in 1..Width(o) : legs[i] = kept[b + i]
    BY DEF Legs
  <2> HIDE DEF legs
  <2>4. \A i \in 1..Width(o) :
           /\ FromClaim(legs[i], c)
           /\ legs[i].id = FraudId(Start(o) + i - 1) /\ legs[i].phash[4] = i
    BY <1>1, <2>1, <2>2, SplitFacts
  <2>6. FromClaim(e, c) /\ e.id = FraudId(Start(o) + k - 1) /\ e.phash[4] = k
    BY <2>3, <2>4
  <2>7. labels[b + k] \in FraudLabels(e, plan[o], LinkedTo(o))
    BY <2>1 DEF Fraudulent
  <2>8. Dated(e)
    BY <2>6 DEF FromClaim
  <2>9. Verdict(labels[b + k], e, TRUE, plan[o], LinkedTo(o))
    BY <2>7, <2>8, FraudFacts
  <2>10. IdOf(o, k) = FraudId(Start(o) + k - 1) /\ SaltOf(o, k) = k /\ ~Untouched(o, k)
    BY <1>7 DEF IdOf, SaltOf, Untouched
  <2> HIDE DEF e
  <2>11. Becomes(o, k, e, labels[b + k])
    BY <2>6, <2>9, <2>10 DEF Becomes
  <2> QED
    BY <1>3, <2>11 DEF e
<1>8. ASSUME plan[o] # "none", plan[o] # "duplicate", plan[o] # "split",
             FromClaim(kept[b + 1], c), kept[b + 1].id = c.id, kept[b + 1].phash[4] = 0,
             Fraudulent(o, b + 1)
      PROVE  Becomes(o, k, kept[b + k], labels[b + k])
  <2> DEFINE e == kept[b + k]
  <2>1. k = 1
    BY <1>8 DEF Width
  <2>2. FromClaim(e, c) /\ e.id = ClaimId(o) /\ e.phash[4] = 0
    BY <1>4, <1>8, <2>1
  <2>3. labels[b + k] \in FraudLabels(e, plan[o], LinkedTo(o))
    BY <1>8, <2>1 DEF Fraudulent
  <2>4. Dated(e)
    BY <2>2 DEF FromClaim
  <2>5. Verdict(labels[b + k], e, TRUE, plan[o], LinkedTo(o))
    BY <2>3, <2>4, FraudFacts
  <2>6. IdOf(o, k) = ClaimId(o) /\ SaltOf(o, k) = 0 /\ ~Untouched(o, k)
    BY <1>8 DEF IdOf, SaltOf, Untouched
  <2> HIDE DEF e
  <2>7. Becomes(o, k, e, labels[b + k])
    BY <2>2, <2>5, <2>6 DEF Becomes
  <2> QED
    BY <2>7 DEF e
<1>9. CASE plan[o] = "ghost_vendor"
  <2>1. <<kept[b + 1]>> \in Invoices(c, GhostId(Start(o))) /\ Fraudulent(o, b + 1)
    BY <1>9 DEF Placed
  <2> QED
    BY <1>1, <1>3, <1>8, <1>9, <2>1, InvoiceFacts
<1>10. CASE plan[o] = "personal"
  <2>1. <<kept[b + 1]>> \in Dinners(c) /\ Fraudulent(o, b + 1)
    BY <1>10 DEF Placed
  <2> QED
    BY <1>1, <1>3, <1>4, <1>8, <1>10, <2>1, DinnerFacts
<1>11. CASE plan[o] \in {"inflation", "collusion"}
  <2>1. <<kept[b + 1]>> \in Inflations(c) /\ Fraudulent(o, b + 1)
    BY <1>11 DEF Placed
  <2> QED
    BY <1>1, <1>3, <1>4, <1>8, <1>11, <2>1, InflationFacts
<1> QED
  BY <1>5, <1>6, <1>7, <1>9, <1>10, <1>11, PlannedFacts

----------------------------------------------------------------------------
(* The rewriting loop. *)

Rewritten ==
    PlanInv /\ Len(kept) \in Nat =>
       \A o \in 1..Len(expenses) : \A b : Placed(o, b) => \A k \in 1..Width(o) :
          b + k \in 1..Len(kept) /\ Becomes(o, k, kept[b + k], labels[b + k])

(* To append what a claim becomes and its labels places it. *)
LEMMA Rewrites == Rewritten
  BY PlacedFacts DEF Rewritten

(* The same of the next state. *)
LEMMA RewritesNext == Rewritten'
  BY Rewrites, PTL

(* What is placed stays. *)
LEMMA PlacedStays ==
    ASSUME PlanInv, NEW o \in 1..Len(expenses), NEW b, Placed(o, b), NEW n,
           Longer(kept, kept', n), Longer(labels, labels', n), Len(labels) = Len(kept),
           UNCHANGED <<expenses, colluder, plan>>
    PROVE  Placed(o, b)'
<1>1. /\ Len(kept) \in Nat /\ n \in Nat /\ Len(kept)' = Len(kept) + n
      /\ \A i \in 1..Len(kept) : kept'[i] = kept[i] /\ labels'[i] = labels[i]
  BY DEF Longer, Listed
<1>2. /\ Start(o)' = Start(o) /\ Width(o)' = Width(o) /\ LinkedTo(o)' = LinkedTo(o)
      /\ plan'[o] = plan[o] /\ expenses'[o] = expenses[o]
  BY DEF Start, Width, LinkedTo
<1>3. Width(o) \in Nat \ {0} /\ b \in Nat /\ b + Width(o) <= Len(kept)
  BY PlannedFacts DEF Placed
<1>4. b \in Nat /\ b + Width(o)' <= Len(kept)'
  BY <1>1, <1>2, <1>3
<1>5. ASSUME NEW k \in 1..Width(o) PROVE kept'[b + k] = kept[b + k] /\ labels'[b + k] = labels[b + k]
  <2>1. b + k \in 1..Len(kept)
    BY <1>1, <1>3
  <2> QED
    BY <1>1, <2>1
<1>6. 1 \in 1..Width(o)
  BY <1>3
<1>7. kept'[b + 1] = kept[b + 1] /\ labels'[b + 1] = labels[b + 1]
  BY <1>5, <1>6
<1>8. ASSUME NEW k \in 1..Width(o), Fraudulent(o, b + k) PROVE Fraudulent(o, b + k)'
  BY <1>2, <1>5, <1>8 DEF Fraudulent
<1>9. ASSUME Fraudulent(o, b + 1) PROVE Fraudulent(o, b + 1)'
  BY <1>6, <1>8, <1>9
<1>10. ASSUME Honest(o, b + 1) PROVE Honest(o, b + 1)'
  BY <1>2, <1>7, <1>10 DEF Honest
<1>11. CASE plan[o] = "none"
  <2>1. Honest(o, b + 1)'
    BY <1>10, <1>11 DEF Placed
  <2> QED
    BY <1>2, <1>4, <1>11, <2>1 DEF Placed
<1>12. CASE plan[o] = "duplicate"
  <2>1. /\ Honest(o, b + 1)
        /\ <<kept[b + 2]>> \in Duplicates(expenses[o], Start(o))
        /\ Fraudulent(o, b + 2)
    BY <1>12 DEF Placed
  <2>2. 2 \in 1..Width(o)
    BY <1>12 DEF Width
  <2>3. <<kept'[b + 2]>> \in Duplicates(expenses'[o], Start(o)')
    BY <1>2, <1>5, <2>1, <2>2
  <2>4. Honest(o, b + 1)' /\ Fraudulent(o, b + 2)'
    BY <1>8, <1>10, <2>1, <2>2
  <2> QED
    BY <1>2, <1>4, <1>12, <2>3, <2>4 DEF Placed
<1>13. CASE plan[o] = "split"
  <2>1. /\ Legs(b, Width(o)) \in Splits(expenses[o], Start(o))
        /\ \A k \in 1..Width(o) : Fraudulent(o, b + k)
    BY <1>13 DEF Placed
  <2>2. Legs(b, Width(o))' = Legs(b, Width(o))
    BY <1>2, <1>5 DEF Legs
  <2>3. Legs(b, Width(o))' \in Splits(expenses[o], Start(o))'
    BY <1>2, <2>1, <2>2
  <2>4. \A k \in 1..Width(o)' : Fraudulent(o, b + k)'
    BY <1>2, <1>8, <2>1
  <2> QED
    BY <1>2, <1>4, <1>13, <2>3, <2>4 DEF Placed
<1>14. CASE plan[o] = "ghost_vendor"
  <2>1. <<kept[b + 1]>> \in Invoices(expenses[o], GhostId(Start(o))) /\ Fraudulent(o, b + 1)
    BY <1>14 DEF Placed
  <2>2. <<kept'[b + 1]>> \in Invoices(expenses'[o], GhostId(Start(o)'))
    BY <1>2, <1>7, <2>1
  <2> QED
    BY <1>2, <1>4, <1>9, <1>14, <2>1, <2>2 DEF Placed
<1>15. CASE plan[o] = "personal"
  <2>1. <<kept[b + 1]>> \in Dinners(expenses[o]) /\ Fraudulent(o, b + 1)
    BY <1>15 DEF Placed
  <2>2. <<kept'[b + 1]>> \in Dinners(expenses'[o])
    BY <1>2, <1>7, <2>1
  <2> QED
    BY <1>2, <1>4, <1>9, <1>15, <2>1, <2>2 DEF Placed
<1>16. CASE plan[o] \in {"inflation", "collusion"}
  <2>1. <<kept[b + 1]>> \in Inflations(expenses[o]) /\ Fraudulent(o, b + 1)
    BY <1>16 DEF Placed
  <2>2. <<kept'[b + 1]>> \in Inflations(expenses'[o])
    BY <1>2, <1>7, <2>1
  <2> QED
    BY <1>2, <1>4, <1>9, <1>16, <2>1, <2>2 DEF Placed
<1> QED
  BY <1>11, <1>12, <1>13, <1>14, <1>15, <1>16, PlannedFacts

(* The rows and labels of the next claim, the o-th, come after the first m. *)
Grown(o, m, w) ==
    /\ o = index + 1 /\ index' = o
    /\ m = Len(kept) /\ w = Width(o)
    /\ UNCHANGED <<expenses, colluder, plan>>
    /\ Longer(kept, kept', w) /\ Longer(labels, labels', w)
    /\ Placed(o, m)'

(* The rows stay right when the next claim is placed. *)
LEMMA Grow ==
    ASSUME PlanInv, PlanInv', RowsInv, index < Len(expenses),
           NEW o, NEW m, NEW w, Grown(o, m, w)
    PROVE  RowsInv'
<1>1. index \in Nat /\ Len(expenses) \in Nat /\ o \in 1..Len(expenses) /\ index' = o
  BY ExpensesFacts DEF PlanInv, Listed, Grown
<1>2. Len(expenses)' = Len(expenses)
  BY DEF Grown
<1>3. m \in Nat /\ w \in Nat \ {0} /\ Len(labels) = m
  BY <1>1, PlannedFacts DEF RowsInv, Listed, Grown
<1>4. /\ Listed(kept', m + w) /\ Listed(labels', m + w)
      /\ \A i \in 1..m : kept'[i] = kept[i] /\ labels'[i] = labels[i]
  BY <1>3 DEF Grown, Longer
<1>5. Len(kept)' = m + w
  BY <1>4 DEF Listed
<1>6. \A p \in 1..Len(expenses) : Width(p)' = Width(p)
  BY DEF Width, Grown
<1>7. ASSUME NEW p \in 1..Len(expenses), NEW b, Placed(p, b) PROVE Placed(p, b)'
  <2>1. Longer(kept, kept', w) /\ Longer(labels, labels', w) /\ UNCHANGED <<expenses, colluder, plan>>
    BY DEF Grown
  <2> QED
    BY <1>3, <1>7, <2>1, PlacedStays DEF Grown
<1>8. Placed(o, m)'
  BY DEF Grown
<1>9. ASSUME NEW p \in 1..o PROVE \E b \in 0..(m + w) : Placed(p, b)'
  <2>1. CASE p = o
    <3>1. m \in 0..(m + w)
      BY <1>3
    <3> QED
      BY <1>8, <2>1, <3>1
  <2>2. CASE p # o
    <3>1. p \in 1..index /\ p \in 1..Len(expenses)
      BY <1>1, <2>2 DEF Grown
    <3>2. PICK b \in 0..m : Placed(p, b)
      BY <3>1 DEF RowsInv, Grown
    <3>3. b \in 0..(m + w)
      BY <1>3
    <3> QED
      BY <1>7, <3>1, <3>2, <3>3
  <2> QED
    BY <2>1, <2>2
<1>10. ASSUME NEW j \in 1..(m + w)
       PROVE  \E p \in 1..o : \E k \in 1..Width(p)' : Placed(p, j - k)'
  <2>1. CASE j \in 1..m
    <3>1. PICK p \in 1..index : \E k \in 1..Width(p) : Placed(p, j - k)
      BY <2>1 DEF RowsInv, Grown
    <3>2. p \in 1..o /\ p \in 1..Len(expenses)
      BY <1>1 DEF Grown
    <3>3. PICK k \in 1..Width(p) : Placed(p, j - k)
      BY <3>1
    <3>4. Placed(p, j - k)' /\ k \in 1..Width(p)'
      BY <1>6, <1>7, <3>2, <3>3
    <3> QED
      BY <3>2, <3>4
  <2>2. CASE j \notin 1..m
    <3> DEFINE k == j - m
    <3>1. k \in 1..w /\ j - k = m
      BY <1>3, <2>2
    <3>2. k \in 1..Width(o)'
      BY <1>1, <1>6, <3>1 DEF Grown
    <3>3. o \in 1..o
      BY <1>1
    <3> HIDE DEF k
    <3> QED
      BY <1>8, <3>1, <3>2, <3>3
  <2> QED
    BY <2>1, <2>2
(* The id and the salt of a row tell whose it is. *)
<1>11. ASSUME NEW j \in 1..(m + w)
       PROVE  \E p \in 1..o : \E k \in 1..Width(p) :
                 /\ kept'[j].id = IdOf(p, k) /\ kept'[j].phash[4] = SaltOf(p, k)
                 /\ p = o <=> j \notin 1..m
                 /\ p = o => j = m + k
  <2>0. /\ \A p \in 1..Len(expenses) : \A k : IdOf(p, k)' = IdOf(p, k) /\ SaltOf(p, k)' = SaltOf(p, k)
    BY DEF Grown, IdOf, SaltOf, Start
  <2>1. CASE j \in 1..m
    <3>1. PICK p \in 1..index : \E k \in 1..Width(p) : Placed(p, j - k)
      BY <2>1 DEF RowsInv, Grown
    <3>2. p \in 1..o /\ p \in 1..Len(expenses) /\ p # o
      BY <1>1 DEF Grown
    <3>3. PICK k \in 1..Width(p) : Placed(p, j - k)
      BY <3>1
    <3>4. Becomes(p, k, kept[(j - k) + k], labels[(j - k) + k])
      BY <1>3, <3>2, <3>3, PlacedFacts DEF Grown
    <3>5. (j - k) + k = j
      BY <1>3, <1>1, <3>2, PlannedFacts
    <3>6. kept'[j].id = IdOf(p, k) /\ kept'[j].phash[4] = SaltOf(p, k)
      BY <1>4, <2>1, <3>4, <3>5 DEF Becomes
    <3> QED
      BY <2>1, <3>2, <3>3, <3>6
  <2>2. CASE j \notin 1..m
    <3> DEFINE k == j - m
    <3>1. k \in 1..w /\ j = m + k
      BY <1>3, <2>2
    <3>2. k \in 1..Width(o)' /\ k \in 1..Width(o)
      BY <1>1, <1>6, <3>1 DEF Grown
    <3>3. o \in 1..o /\ o \in 1..Len(expenses)'
      BY <1>1, <1>2
    <3> HIDE DEF k
    <3>4. Becomes(o, k, kept[m + k], labels[m + k])'
      <4>1. Len(kept)' \in Nat
        BY <1>3, <1>5
      <4> QED
        BY <1>8, <3>2, <3>3, <4>1, RewritesNext DEF Rewritten
    <3>5. kept'[j].id = IdOf(o, k) /\ kept'[j].phash[4] = SaltOf(o, k)
      BY <1>1, <2>0, <3>1, <3>4 DEF Becomes
    <3> QED
      BY <2>2, <3>1, <3>2, <3>3, <3>5
  <2> QED
    BY <2>1, <2>2
<1>12. ASSUME NEW i \in 1..(m + w), NEW j \in 1..(m + w),
              kept'[i].id = kept'[j].id, kept'[i].phash[4] = kept'[j].phash[4]
       PROVE  i = j
  <2>1. PICK p \in 1..o : \E k \in 1..Width(p) :
           /\ kept'[i].id = IdOf(p, k) /\ kept'[i].phash[4] = SaltOf(p, k)
           /\ p = o <=> i \notin 1..m
           /\ p = o => i = m + k
    BY <1>11
  <2>2. PICK q \in 1..o : \E k \in 1..Width(q) :
           /\ kept'[j].id = IdOf(q, k) /\ kept'[j].phash[4] = SaltOf(q, k)
           /\ q = o <=> j \notin 1..m
           /\ q = o => j = m + k
    BY <1>11
  <2>3. p \in 1..Len(expenses) /\ q \in 1..Len(expenses)
    BY <1>1
  <2>4. PICK k \in 1..Width(p) :
           /\ kept'[i].id = IdOf(p, k) /\ kept'[i].phash[4] = SaltOf(p, k)
           /\ p = o <=> i \notin 1..m
           /\ p = o => i = m + k
    BY <2>1
  <2>5. PICK l \in 1..Width(q) :
           /\ kept'[j].id = IdOf(q, l) /\ kept'[j].phash[4] = SaltOf(q, l)
           /\ q = o <=> j \notin 1..m
           /\ q = o => j = m + l
    BY <2>2
  <2>6. p = q /\ k = l
    <3>1. IdOf(p, k) = IdOf(q, l) /\ SaltOf(p, k) = SaltOf(q, l)
      BY <1>12, <2>4, <2>5
    <3> HIDE <1>12, <2>4, <2>5
    <3> QED
      BY <2>3, <3>1, TagsDiffer
  <2>7. CASE p = o
    BY <2>4, <2>5, <2>6, <2>7
  <2>8. CASE p # o
    <3>1. i \in 1..m /\ j \in 1..m
      BY <2>4, <2>5, <2>6, <2>8
    <3>2. kept'[i] = kept[i] /\ kept'[j] = kept[j]
      BY <1>4, <3>1
    <3> QED
      BY <1>12, <3>1, <3>2 DEF RowsInv, Grown
  <2> QED
    BY <2>7, <2>8
<1>13. (\A p \in 1..index : \E b \in 0..Len(kept) : Placed(p, b))'
  BY <1>1, <1>5, <1>9
<1>14. (\A j \in 1..Len(kept) : \E p \in 1..index : \E k \in 1..Width(p) : Placed(p, j - k))'
  BY <1>1, <1>5, <1>10
<1>15. (Listed(kept, Len(kept)) /\ Listed(labels, Len(kept)))'
  BY <1>4, <1>5
<1>16. (\A i, j \in 1..Len(kept) :
          kept[i].id = kept[j].id /\ kept[i].phash[4] = kept[j].phash[4] => i = j)'
  BY <1>5, <1>12
<1> QED
  BY <1>13, <1>14, <1>15, <1>16 DEF RowsInv

----------------------------------------------------------------------------
(* What stays. *)

(* Targets are counted by a natural number. *)
LEMMA TargetsFacts == PlanInv => Targets \in Nat
<1> SUFFICES ASSUME PlanInv PROVE Targets \in Nat
  OBVIOUS
<1>1. Len(expenses) \in Nat
  BY ExpensesFacts DEF Listed
<1>2. BaseRate \in Nat
  BY InjectionAssumption
<1> QED
  BY <1>1, <1>2, PercentFacts DEF Targets

(* A step that leaves the injection alone keeps the rows, *)
LEMMA RowsStay ==
    ASSUME RowsInv, UNCHANGED injection
    PROVE  RowsInv'
<1>1. /\ expenses' = expenses /\ colluder' = colluder /\ plan' = plan /\ index' = index
      /\ kept' = kept /\ labels' = labels
  BY DEF injection
<1>2. ASSUME NEW o, NEW b PROVE Placed(o, b)' <=> Placed(o, b)
  <2>1. Start(o)' = Start(o) /\ Width(o)' = Width(o) /\ LinkedTo(o)' = LinkedTo(o)
    BY <1>1 DEF Start, Width, LinkedTo
  <2>2. \A j : (Honest(o, j)' <=> Honest(o, j)) /\ (Fraudulent(o, j)' <=> Fraudulent(o, j))
    BY <1>1, <2>1 DEF Honest, Fraudulent
  <2>3. \A n : Legs(b, n)' = Legs(b, n)
    BY <1>1 DEF Legs
  <2> QED
    BY <1>1, <2>1, <2>2, <2>3 DEF Placed
<1>3. \A o : Width(o)' = Width(o)
  BY <1>1 DEF Width
<1> QED
  BY <1>1, <1>2, <1>3 DEF RowsInv

(* the plan *)
LEMMA PlanStays ==
    ASSUME PlanInv, UNCHANGED injection
    PROVE  PlanInv'
  BY DEF PlanInv, Start, Targets, injection

(* and the ghost vendors. *)
LEMMA GhostsStay ==
    ASSUME GhostsInv, UNCHANGED injection
    PROVE  GhostsInv'
<1>1. expenses' = expenses /\ plan' = plan /\ index' = index /\ ghosts' = ghosts
  BY DEF injection
<1>2. \A o : Ghost(o)' = Ghost(o)
  BY <1>1 DEF Ghost, Start
<1> QED
  BY <1>1, <1>2 DEF GhostsInv

(* Nothing is kept before the first claim is rewritten. *)
LEMMA NothingKept ==
    ASSUME index = 0
    PROVE  /\ RowsInv => kept = <<>> /\ labels = <<>>
           /\ kept = <<>> /\ labels = <<>> => RowsInv
           /\ GhostsInv => ghosts = <<>>
           /\ ghosts = <<>> => GhostsInv
<1>1. 1..index = {}
  OBVIOUS
<1>2. ASSUME NEW s, Listed(s, 0) PROVE s = <<>>
  BY <1>2 DEF Listed
<1>3. Listed(<<>>, 0)
  BY DEF Listed
<1>4. ASSUME RowsInv PROVE kept = <<>> /\ labels = <<>>
  <2>1. Len(kept) \in Nat
    BY <1>4 DEF RowsInv, Listed
  <2>2. 1..Len(kept) = {}
    BY <1>1, <1>4 DEF RowsInv
  <2>3. Len(kept) = 0
    BY <2>1, <2>2
  <2>4. Listed(kept, 0) /\ Listed(labels, 0)
    BY <1>4, <2>3 DEF RowsInv
  <2> QED
    BY <1>2, <2>4
<1>5. ASSUME kept = <<>>, labels = <<>> PROVE RowsInv
  <2>1. Len(kept) = 0
    BY <1>5
  <2>2. 1..Len(kept) = {}
    BY <2>1
  <2> QED
    BY <1>1, <1>3, <1>5, <2>1, <2>2 DEF RowsInv
<1>6. {Ghost(o) : o \in {i \in 1..index : plan[i] = "ghost_vendor"}} = {}
  BY <1>1
<1>7. ASSUME GhostsInv PROVE ghosts = <<>>
  <2>1. Listed(ghosts, Len(ghosts)) /\ Rows(ghosts) = {}
    BY <1>6, <1>7 DEF GhostsInv
  <2>2. Len(ghosts) \in Nat /\ {ghosts[i] : i \in 1..Len(ghosts)} = {}
    BY <2>1, ListedSeq DEF Listed
  <2>3. Len(ghosts) = 0
    <3> SUFFICES ASSUME Len(ghosts) # 0 PROVE FALSE
      OBVIOUS
    <3>1. 1 \in 1..Len(ghosts)
      BY <2>2
    <3> QED
      BY <2>2, <3>1
  <2> QED
    BY <1>2, <2>1, <2>3
<1>8. ASSUME ghosts = <<>> PROVE GhostsInv
  <2>1. Len(ghosts) = 0 /\ Listed(ghosts, Len(ghosts))
    BY <1>3, <1>8
  <2>2. Rows(ghosts) = {}
    BY <1>8 DEF Rows
  <2> QED
    BY <1>6, <2>1, <2>2 DEF GhostsInv
<1> QED
  BY <1>4, <1>5, <1>7, <1>8

EmptyKept ==
    index = 0 =>
        /\ kept = <<>> /\ labels = <<>> => RowsInv
        /\ ghosts = <<>> => GhostsInv

(* With no claim rewritten the rows and the ghosts are right. *)
LEMMA Empty == EmptyKept
  BY NothingKept DEF EmptyKept

(* The same of the next state. *)
LEMMA EmptyNext == EmptyKept'
  BY Empty, PTL

----------------------------------------------------------------------------
(* The steps of the plan. *)

InjectionInv == PlanInv /\ RowsInv /\ GhostsInv

(* No ids are set aside before the first claim. *)
LEMMA StartZero == Start(0) = 0
<1>1. {j \in 1..0 : plan[j] # "none"} = {}
  OBVIOUS
<1>2. Cardinality({j \in 1..0 : plan[j] # "none"}) = 0
  BY <1>1, FS_EmptySet
<1>3. Stride * 0 = 0
  BY InjectionAssumption
<1> QED
  BY <1>2, <1>3 DEF Start

(* The same of the next state. *)
LEMMA StartZeroNext == Start(0)' = 0
<1>1. {j \in 1..0 : plan'[j] # "none"} = {}
  OBVIOUS
<1>2. Cardinality({j \in 1..0 : plan'[j] # "none"}) = 0
  BY <1>1, FS_EmptySet
<1>3. Stride * 0 = 0
  BY InjectionAssumption
<1> QED
  BY <1>2, <1>3 DEF Start

(* The invariant holds at first, *)
LEMMA InitInjection == Init => InjectionInv
<1> SUFFICES ASSUME Init PROVE InjectionInv
  OBVIOUS
<1>1. /\ expenses = <<>> /\ colluder = 0 /\ plan = <<>> /\ drawn = 0 /\ index = 0
      /\ kept = <<>> /\ labels = <<>> /\ ghosts = <<>> /\ seq = 0
  BY DEF Init
<1>2. RowsInv /\ GhostsInv
  BY <1>1, NothingKept
<1>3. Len(expenses) = 0
  BY <1>1
<1>4. Targets \in Nat
  <2>1. BaseRate \in Nat
    BY InjectionAssumption
  <2> QED
    BY <1>3, <2>1, PercentFacts DEF Targets
<1>5. Len(Users) \in Nat
  BY SpendAssumption
<1>6. plan \in [1..0 -> Typologies \cup {"none"}]
  BY <1>1
<1>7. PlanInv
  BY <1>1, <1>3, <1>4, <1>5, <1>6, StartZero DEF PlanInv
<1> QED
  BY <1>2, <1>7 DEF InjectionInv

(* after a target is drawn, *)
LEMMA DrawInjection ==
    ASSUME InjectionInv, DrawTarget
    PROVE  InjectionInv'
<1>1. /\ drawn < Targets /\ drawn' = drawn + 1
      /\ UNCHANGED <<expenses, colluder, index, kept, labels, ghosts, seq>>
  BY DEF DrawTarget
<1>2. index = 0
  BY <1>1 DEF InjectionInv, PlanInv
<1>3. RowsInv' /\ GhostsInv'
  <2>1. kept' = <<>> /\ labels' = <<>> /\ ghosts' = <<>> /\ index' = 0
    BY <1>1, <1>2, NothingKept DEF InjectionInv
  <2> QED
    BY <2>1, EmptyNext DEF EmptyKept
<1>4. PICK i \in 1..Len(expenses), typology \in Typologies :
         /\ plan' = [plan EXCEPT ![i] = typology]
         /\ typology = "split" => expenses[i].amount > Ceiling
  <2>0. DOMAIN expenses = 1..Len(expenses)
    BY ExpensesFacts, ListedSeq DEF InjectionInv
  <2>1. PICK typology \in Typologies :
           \/ \E i \in Pool(typology) : plan' = [plan EXCEPT ![i] = typology]
           \/ \E i \in Pool("inflation") : plan' = [plan EXCEPT ![i] = "inflation"]
    BY DEF DrawTarget
  <2>2. CASE \E i \in Pool(typology) : plan' = [plan EXCEPT ![i] = typology]
    BY <2>0, <2>2 DEF Pool
  <2>3. CASE \E i \in Pool("inflation") : plan' = [plan EXCEPT ![i] = "inflation"]
    BY <2>0, <2>3 DEF Pool, Typologies
  <2> QED
    BY <2>1, <2>2, <2>3
<1>5. plan \in [1..Len(expenses) -> Typologies \cup {"none"}]
      /\ \A o \in 1..Len(expenses) : plan[o] = "split" => expenses[o].amount > Ceiling
  BY DEF InjectionInv, PlanInv
<1>6. plan' \in [1..Len(expenses) -> Typologies \cup {"none"}]
  BY <1>4, <1>5
<1>7. ASSUME NEW o \in 1..Len(expenses), plan'[o] = "split" PROVE expenses[o].amount > Ceiling
  BY <1>4, <1>5, <1>7
<1>8. Targets' = Targets /\ Targets \in Nat /\ drawn \in 0..Targets
  BY <1>1, TargetsFacts DEF InjectionInv, PlanInv, Targets
<1>9. seq' = Start(index)'
  <2>1. seq = 0
    BY <1>2, StartZero DEF InjectionInv, PlanInv
  <2> QED
    BY <1>1, <1>2, <2>1, StartZeroNext
<1>10. PlanInv'
  <2>1. /\ expenses = <<>> \/ expenses \in Baseline
        /\ colluder \in 0..Len(Users) /\ index \in 0..Len(expenses)
    BY DEF InjectionInv, PlanInv
  <2>2. drawn' \in 0..Targets'
    BY <1>1, <1>8
  <2> QED
    BY <1>1, <1>2, <1>6, <1>7, <1>9, <2>1, <2>2 DEF PlanInv
<1> QED
  BY <1>3, <1>10 DEF InjectionInv

----------------------------------------------------------------------------
(* The steps of the rewriting loop. *)

(* The loop goes on to the next claim. *)
Advanced ==
    /\ Rewriting
    /\ index' = index + 1
    /\ UNCHANGED <<expenses, colluder, plan, drawn>>
    /\ seq' = IF plan[index + 1] = "none" THEN seq ELSE seq + Stride

(* The plan stays right when the next claim is rewritten. *)
LEMMA AdvancedPlan ==
    ASSUME PlanInv, Advanced
    PROVE  /\ PlanInv'
           /\ index \in Nat /\ index + 1 \in 1..Len(expenses) /\ index < Len(expenses)
           /\ HonestClaim(Current, index + 1)
           /\ plan[index + 1] # "none" => seq + Stride = Start(index + 1)
<1>1. Len(expenses) \in Nat /\ index \in 0..Len(expenses) /\ index < Len(expenses) /\ drawn = Targets
  BY ExpensesFacts DEF PlanInv, Listed, Advanced, Rewriting
<1>2. index \in Nat /\ index + 1 \in 1..Len(expenses) /\ index + 1 \in 0..Len(expenses)
  BY <1>1
<1>3. HonestClaim(Current, index + 1)
  BY <1>2, ExpensesFacts DEF Current
<1>4. seq = Start(index)
  BY DEF PlanInv
<1>5. Start(index + 1) = IF plan[index + 1] = "none" THEN Start(index) ELSE Start(index) + Stride
  BY <1>2, NextStart
<1>6. \A o : Start(o)' = Start(o)
  BY DEF Start, Advanced
<1>7. seq' = Start(index)'
  BY <1>4, <1>5, <1>6 DEF Advanced
<1>8. Targets' = Targets /\ Targets \in Nat
  BY TargetsFacts DEF Targets, Advanced
<1>9. PlanInv'
  <2>1. /\ expenses' = <<>> \/ expenses' \in Baseline
        /\ colluder' \in 0..Len(Users)
        /\ plan' \in [1..Len(expenses') -> Typologies \cup {"none"}]
        /\ \A o \in 1..Len(expenses') : plan'[o] = "split" => expenses'[o].amount > Ceiling
    BY DEF PlanInv, Advanced
  <2>2. /\ drawn' \in 0..Targets' /\ ~(drawn' < Targets')
        /\ index' \in 0..Len(expenses')
    BY <1>1, <1>2, <1>8 DEF Advanced
  <2> QED
    BY <1>7, <2>1, <2>2 DEF PlanInv
<1> QED
  BY <1>1, <1>2, <1>3, <1>4, <1>5, <1>9

(* The ghost vendors stay, or there is one more. *)
LEMMA GhostsAdvance ==
    ASSUME PlanInv, GhostsInv, Advanced,
           \/ plan[index + 1] # "ghost_vendor" /\ ghosts' = ghosts
           \/ plan[index + 1] = "ghost_vendor" /\ ghosts' = Append(ghosts, Ghost(index + 1))
    PROVE  GhostsInv'
<1>1. index \in Nat /\ index' = index + 1 /\ plan' = plan
  BY AdvancedPlan DEF Advanced
<1>2. \A o : Ghost(o)' = Ghost(o)
  BY DEF Ghost, Start, Advanced
<1> DEFINE S(n) == {Ghost(o) : o \in {i \in 1..n : plan[i] = "ghost_vendor"}}
<1>3. /\ plan[index + 1] = "ghost_vendor" => S(index + 1) = S(index) \cup {Ghost(index + 1)}
      /\ plan[index + 1] # "ghost_vendor" => S(index + 1) = S(index)
  <2>1. 1..(index + 1) = (1..index) \cup {index + 1}
    BY <1>1
  <2> QED
    BY <2>1
<1>4. {Ghost(o) : o \in {i \in 1..index : plan[i] = "ghost_vendor"}}' = S(index + 1)
  BY <1>1, <1>2
<1>5. Listed(ghosts, Len(ghosts)) /\ Rows(ghosts) = S(index)
  BY DEF GhostsInv
<1> HIDE DEF S
<1>6. CASE plan[index + 1] # "ghost_vendor" /\ ghosts' = ghosts
  BY <1>3, <1>4, <1>5, <1>6 DEF GhostsInv
<1>7. CASE plan[index + 1] = "ghost_vendor" /\ ghosts' = Append(ghosts, Ghost(index + 1))
  <2> DEFINE g == Ghost(index + 1)
             n == Len(ghosts)
             t == Append(ghosts, g)
  <2>1. n \in Nat
    BY <1>5 DEF Listed
  <2> HIDE DEF g, n
  <2>2. Longer(ghosts, t, 1) /\ t[n + 1] = g
    BY <1>5, LongerByOne DEF n
  <2> HIDE DEF t
  <2>3. Listed(t, n + 1) /\ \A i \in 1..n : t[i] = ghosts[i]
    BY <2>2 DEF Longer, n
  <2>4. Rows(t) = {t[i] : i \in 1..(n + 1)} /\ Rows(ghosts) = {ghosts[i] : i \in 1..n}
    BY <1>5, <2>3, ListedSeq DEF n
  <2>5. 1..(n + 1) = (1..n) \cup {n + 1}
    BY <2>1
  <2>6. Rows(t) = Rows(ghosts) \cup {g}
    BY <2>2, <2>3, <2>4, <2>5
  <2>7. ghosts' = t /\ Len(ghosts)' = n + 1
    BY <1>7, <2>3 DEF t, g, Listed
  <2>8. Listed(ghosts, Len(ghosts))'
    BY <2>3, <2>7
  <2>9. Rows(ghosts)' = S(index + 1)
    <3>1. Rows(ghosts)' = Rows(t)
      BY <2>7 DEF Rows
    <3> QED
      BY <1>3, <1>5, <1>7, <2>6, <3>1 DEF g
  <2> QED
    BY <1>4, <2>8, <2>9 DEF GhostsInv
<1> QED
  BY <1>6, <1>7

(* The invariant holds after a claim is kept, *)
LEMMA KeepInjection ==
    ASSUME InjectionInv, KeepHonest
    PROVE  InjectionInv'
<1>1. Advanced /\ plan[index + 1] = "none" /\ kept' = Append(kept, Current) /\ ghosts' = ghosts
  BY DEF KeepHonest, Advanced
<1>2. PICK label \in CleanLabels(Current) : labels' = Append(labels, label)
  BY DEF KeepHonest
<1>3. PlanInv' /\ GhostsInv' /\ index \in Nat /\ index + 1 \in 1..Len(expenses) /\ index < Len(expenses)
  BY <1>1, AdvancedPlan, GhostsAdvance DEF InjectionInv
<1>4. PICK o, m, w : o = index + 1 /\ m = Len(kept) /\ w = Width(o)
  OBVIOUS
<1>5. w = 1
  BY <1>1, <1>4 DEF Width
<1>6. Listed(kept, m) /\ Listed(labels, m) /\ m \in Nat
  BY <1>4 DEF InjectionInv, RowsInv, Listed
<1>7. Longer(kept, kept', 1) /\ kept'[m + 1] = Current
  <2>1. Longer(kept, Append(kept, Current), 1) /\ Append(kept, Current)[m + 1] = Current
    BY <1>6, LongerByOne
  <2> QED
    BY <1>1, <2>1
<1>8. Longer(labels, labels', 1) /\ labels'[m + 1] = label
  BY <1>2, <1>6, LongerByOne
<1>9. Placed(o, m)'
  <2>1. Width(o)' = 1 /\ plan'[o] = "none" /\ expenses'[o] = Current
    BY <1>1, <1>4 DEF Width, Advanced, Current
  <2>2. Len(kept)' = m + 1
    BY <1>6, <1>7 DEF Longer, Listed
  <2>3. Honest(o, m + 1)'
    BY <1>2, <1>7, <1>8, <2>1 DEF Honest
  <2> QED
    BY <1>6, <2>1, <2>2, <2>3 DEF Placed
<1>10. Grown(o, m, w)
  BY <1>1, <1>4, <1>5, <1>7, <1>8, <1>9 DEF Grown, Advanced
<1>11. RowsInv'
  BY <1>3, <1>10, Grow DEF InjectionInv
<1> QED
  BY <1>3, <1>11 DEF InjectionInv

(* Every claim that is produced gets a label of its own. *)
Given(given, produced, typology, linked) ==
    /\ given \in [DOMAIN produced -> UNION {FraudLabels(produced[i], typology, linked) :
                                                i \in DOMAIN produced}]
    /\ \A i \in DOMAIN produced : given[i].id = produced[i].id

Distinct(produced, w) == \A i, j \in 1..w : produced[i].id = produced[j].id => i = j

(* The labels that are given are one for each claim produced, in order. *)
LEMMA GivenFacts ==
    ASSUME NEW produced, NEW w, Listed(produced, w),
           Distinct(produced, w),
           NEW typology, NEW linked, NEW given, Given(given, produced, typology, linked)
    PROVE  /\ Listed(given, w)
           /\ \A i \in 1..w : given[i] \in FraudLabels(produced[i], typology, linked)
<1>1. w \in Nat /\ DOMAIN produced = 1..w
  BY ListedSeq DEF Listed
<1>2. Listed(given, w)
  BY <1>1 DEF Listed, Given
<1>3. ASSUME NEW i \in 1..w PROVE given[i] \in FraudLabels(produced[i], typology, linked)
  <2>1. PICK j \in 1..w : given[i] \in FraudLabels(produced[j], typology, linked)
    BY <1>1 DEF Given
  <2>2. given[i].id = produced[j].id
    BY <2>1 DEF FraudLabels
  <2>3. i = j
    BY <1>1, <2>2 DEF Given, Distinct
  <2> QED
    BY <2>1, <2>3
<1> QED
  BY <1>2, <1>3

(* What Emit does to the rows, by the number of claims produced. *)
LEMMA EmitFacts ==
    ASSUME NEW before, NEW produced, NEW beforeLabels, NEW linked,
           Emit(before, produced, beforeLabels, linked),
           NEW n, Listed(Joint(kept, before), n), Listed(Joint(labels, beforeLabels), n),
           NEW w, Listed(produced, w),
           Distinct(produced, w)
    PROVE  /\ Longer(Joint(kept, before), kept', w) /\ Longer(Joint(labels, beforeLabels), labels', w)
           /\ \A k \in 1..w : /\ kept'[n + k] = produced[k]
                              /\ labels'[n + k] \in FraudLabels(produced[k], plan[index + 1], linked)
           /\ index' = index + 1 /\ seq' = seq + Stride
           /\ UNCHANGED <<expenses, colluder, plan, drawn>>
<1>0. PICK s, t : s = Joint(kept, before) /\ t = Joint(labels, beforeLabels)
  OBVIOUS
<1>1. /\ kept' = Joint(s, produced)
      /\ index' = index + 1 /\ seq' = seq + Stride
      /\ UNCHANGED <<expenses, colluder, plan, drawn>>
  BY <1>0 DEF Emit, Joint
<1>2. PICK given : Given(given, produced, plan[index + 1], linked) /\ labels' = Joint(t, given)
  BY <1>0 DEF Emit, Given, Joint
<1>3. /\ Listed(given, w)
      /\ \A i \in 1..w : given[i] \in FraudLabels(produced[i], plan[index + 1], linked)
  BY <1>2, GivenFacts
<1>4. Listed(s, n) /\ Listed(t, n)
  BY <1>0
<1>5. Longer(s, kept', w) /\ \A k \in 1..w : kept'[n + k] = produced[k]
  <2>1. Longer(s, Joint(s, produced), w)
    BY <1>4, Joined
  <2>2. Follows(Joint(s, produced), n, produced, w)
    BY <1>4, Joined
  <2> QED
    BY <1>1, <2>1, <2>2 DEF Follows
<1>6. Longer(t, labels', w) /\ \A k \in 1..w : labels'[n + k] = given[k]
  <2>1. Longer(t, Joint(t, given), w)
    BY <1>3, <1>4, Joined
  <2>2. Follows(Joint(t, given), n, given, w)
    BY <1>3, <1>4, Joined
  <2> QED
    BY <1>2, <2>1, <2>2 DEF Follows
<1> QED
  BY <1>0, <1>1, <1>3, <1>5, <1>6

(* One claim in place of the current one. *)
LEMMA EmitOne ==
    ASSUME InjectionInv, NEW e, NEW linked, Emit(<<>>, <<e>>, <<>>, linked),
           NEW m, m = Len(kept)
    PROVE  /\ Longer(kept, kept', 1) /\ Longer(labels, labels', 1)
           /\ kept'[m + 1] = e /\ labels'[m + 1] \in FraudLabels(e, plan[index + 1], linked)
           /\ index' = index + 1 /\ seq' = seq + Stride
           /\ UNCHANGED <<expenses, colluder, plan, drawn>>
           /\ m \in Nat /\ Len(kept)' = m + 1
<1>1. Listed(kept, m) /\ Listed(labels, m) /\ m \in Nat
  BY DEF InjectionInv, RowsInv, Listed
<1>2. Joint(kept, <<>>) = kept /\ Joint(labels, <<>>) = labels
  BY <1>1, JoinedEmpty
<1> DEFINE p == <<e>>
<1>3. Listed(p, 1) /\ p[1] = e
  BY Single
<1>4. Emit(<<>>, p, <<>>, linked)
  OBVIOUS
<1> HIDE DEF p
<1>5. /\ Distinct(p, 1)
      /\ Listed(Joint(kept, <<>>), m) /\ Listed(Joint(labels, <<>>), m)
  BY <1>1, <1>2 DEF Distinct
<1>8. /\ Longer(Joint(kept, <<>>), kept', 1) /\ Longer(Joint(labels, <<>>), labels', 1)
      /\ \A k \in 1..1 : /\ kept'[m + k] = p[k]
                         /\ labels'[m + k] \in FraudLabels(p[k], plan[index + 1], linked)
      /\ index' = index + 1 /\ seq' = seq + Stride
      /\ UNCHANGED <<expenses, colluder, plan, drawn>>
  BY <1>3, <1>4, <1>5, EmitFacts
<1>6. Longer(kept, kept', 1) /\ Longer(labels, labels', 1)
  BY <1>2, <1>8
<1>7. Len(kept)' = m + 1
  BY <1>1, <1>6 DEF Longer, Listed
<1> QED
  BY <1>1, <1>3, <1>6, <1>7, <1>8

(* Once the rows of the next claim are in their place the invariant holds. *)
LEMMA GrowInjection ==
    ASSUME InjectionInv, Advanced, GhostsInv', NEW o, NEW m, NEW w, Grown(o, m, w)
    PROVE  InjectionInv'
<1>1. PlanInv' /\ index < Len(expenses)
  BY AdvancedPlan DEF InjectionInv
<1>2. RowsInv'
  BY <1>1, Grow DEF InjectionInv
<1> QED
  BY <1>1, <1>2 DEF InjectionInv

(* A claim replaced by one. *)
LEMMA ReplaceInjection ==
    ASSUME InjectionInv, Rewriting, NEW e, NEW linked, Emit(<<>>, <<e>>, <<>>, linked),
           linked = LinkedTo(index + 1), GhostsInv',
           \/ plan[index + 1] = "ghost_vendor" /\ <<e>> \in Invoices(Current, GhostId(seq + Stride))
           \/ plan[index + 1] = "personal" /\ <<e>> \in Dinners(Current)
           \/ plan[index + 1] \in {"inflation", "collusion"} /\ <<e>> \in Inflations(Current)
    PROVE  InjectionInv'
<1>1. PICK o, m : o = index + 1 /\ m = Len(kept)
  OBVIOUS
<1>2. /\ Longer(kept, kept', 1) /\ Longer(labels, labels', 1)
      /\ kept'[m + 1] = e /\ labels'[m + 1] \in FraudLabels(e, plan[o], linked)
      /\ index' = o /\ seq' = seq + Stride
      /\ UNCHANGED <<expenses, colluder, plan, drawn>>
      /\ m \in Nat /\ Len(kept)' = m + 1
  BY <1>1, EmitOne
<1>3. plan[o] # "none" /\ plan[o] # "duplicate" /\ plan[o] # "split"
  BY <1>1
<1>4. Advanced
  BY <1>1, <1>2, <1>3 DEF Advanced
<1>5. seq + Stride = Start(o)
  BY <1>1, <1>3, <1>4, AdvancedPlan DEF InjectionInv
<1>6. /\ Start(o)' = Start(o) /\ Width(o)' = 1 /\ Width(o) = 1 /\ LinkedTo(o)' = LinkedTo(o)
      /\ plan'[o] = plan[o] /\ expenses'[o] = Current
  BY <1>1, <1>2, <1>3 DEF Start, Width, LinkedTo, Current
<1>7. Fraudulent(o, m + 1)'
  BY <1>1, <1>2, <1>6 DEF Fraudulent
<1>8. Placed(o, m)'
  <2>1. m \in Nat /\ m + Width(o)' <= Len(kept)'
    BY <1>2, <1>6
  <2>2. CASE plan[o] = "ghost_vendor"
    <3>1. <<kept'[m + 1]>> \in Invoices(expenses'[o], GhostId(Start(o)'))
      BY <1>1, <1>2, <1>5, <1>6, <2>2
    <3> QED
      BY <1>6, <1>7, <2>1, <2>2, <3>1 DEF Placed
  <2>3. CASE plan[o] = "personal"
    <3>1. <<kept'[m + 1]>> \in Dinners(expenses'[o])
      BY <1>1, <1>2, <1>6, <2>3
    <3> QED
      BY <1>6, <1>7, <2>1, <2>3, <3>1 DEF Placed
  <2>4. CASE plan[o] \in {"inflation", "collusion"}
    <3>1. <<kept'[m + 1]>> \in Inflations(expenses'[o])
      BY <1>1, <1>2, <1>6, <2>4
    <3> QED
      BY <1>6, <1>7, <2>1, <2>4, <3>1 DEF Placed
  <2> QED
    BY <1>1, <2>2, <2>3, <2>4
<1>9. Grown(o, m, 1)
  BY <1>1, <1>2, <1>6, <1>8 DEF Grown
<1> QED
  BY <1>4, <1>9, GrowInjection

(* What each typology but the split produces is one claim. *)
LEMMA OneClaim ==
    ASSUME NEW c, NEW n, NEW x
    PROVE  /\ x \in Duplicates(c, n) => \E e : x = <<e>>
           /\ x \in Invoices(c, n) => \E e : x = <<e>>
           /\ x \in Dinners(c) => \E e : x = <<e>>
           /\ x \in Inflations(c) => \E e : x = <<e>>
<1>1. x \in Duplicates(c, n) => \E e : x = <<e>>
  <2> SUFFICES ASSUME x \in Duplicates(c, n) PROVE \E e : x = <<e>>
    OBVIOUS
  <2> DEFINE stamps(gap) == UNION {Stamps(c.day + gap + lag) : lag \in ResubmitLags}
  <2>1. PICK gap \in Gaps :
           x \in {<<Copy(c, n, gap, jitter, at)>> : jitter \in Jitters, at \in stamps(gap)}
    BY DEF Duplicates
  <2> HIDE DEF stamps
  <2>2. PICK jitter \in Jitters, at \in stamps(gap) : x = <<Copy(c, n, gap, jitter, at)>>
    BY <2>1
  <2> QED
    BY <2>2
<1>2. x \in Invoices(c, n) => \E e : x = <<e>>
  BY DEF Invoices
<1>3. x \in Dinners(c) => \E e : x = <<e>>
  <2> SUFFICES ASSUME x \in Dinners(c) PROVE \E e : x = <<e>>
    OBVIOUS
  <2> DEFINE stamps == UNION {Stamps(Saturday(c.day) + lag) : lag \in DinnerLags}
  <2>1. x \in {<<Dinner(c, p, at)>> : p \in DinnerFactors, at \in stamps}
    BY DEF Dinners
  <2> HIDE DEF stamps
  <2>2. PICK p \in DinnerFactors, at \in stamps : x = <<Dinner(c, p, at)>>
    BY <2>1
  <2> QED
    BY <2>2
<1>4. x \in Inflations(c) => \E e : x = <<e>>
  BY DEF Inflations
<1> QED
  BY <1>1, <1>2, <1>3, <1>4

(* The next claim is advanced to by every action that emits. *)
LEMMA EmitAdvances ==
    ASSUME NEW before, NEW produced, NEW beforeLabels, NEW linked,
           Emit(before, produced, beforeLabels, linked), Rewriting, plan[index + 1] # "none"
    PROVE  Advanced
  BY DEF Emit, Advanced

(* The invariant holds after a claim becomes a ghost vendor's, *)
LEMMA GhostInjection ==
    ASSUME InjectionInv, RewriteGhost
    PROVE  InjectionInv'
<1>1. PICK invoice \in Invoices(Current, GhostId(seq + Stride)) : Emit(<<>>, invoice, <<>>, {})
  BY DEF RewriteGhost
<1>2. PICK e : invoice = <<e>>
  BY OneClaim
<1>3. Rewriting /\ plan[index + 1] = "ghost_vendor"
  BY DEF RewriteGhost
<1>4. Advanced
  BY <1>1, <1>3, EmitAdvances
<1>5. seq + Stride = Start(index + 1)
  BY <1>3, <1>4, AdvancedPlan DEF InjectionInv
<1>6. ghosts' = Append(ghosts, Ghost(index + 1))
  BY <1>5 DEF RewriteGhost, Ghost, Current
<1>7. GhostsInv'
  BY <1>3, <1>4, <1>6, GhostsAdvance DEF InjectionInv
<1>8. {} = LinkedTo(index + 1)
  BY <1>3 DEF LinkedTo
<1> QED
  BY <1>1, <1>2, <1>3, <1>7, <1>8, ReplaceInjection

(* a personal one, *)
LEMMA PersonalInjection ==
    ASSUME InjectionInv, RewritePersonal
    PROVE  InjectionInv'
<1>1. PICK dinner \in Dinners(Current) : Emit(<<>>, dinner, <<>>, {})
  BY DEF RewritePersonal
<1>2. PICK e : dinner = <<e>>
  BY OneClaim
<1>3. Rewriting /\ plan[index + 1] = "personal" /\ ghosts' = ghosts
  BY DEF RewritePersonal
<1>4. Advanced
  BY <1>1, <1>3, EmitAdvances
<1>5. GhostsInv'
  BY <1>3, <1>4, GhostsAdvance DEF InjectionInv
<1>6. {} = LinkedTo(index + 1)
  BY <1>3 DEF LinkedTo
<1> QED
  BY <1>1, <1>2, <1>3, <1>5, <1>6, ReplaceInjection

(* an inflated one, *)
LEMMA InflationInjection ==
    ASSUME InjectionInv, RewriteInflation
    PROVE  InjectionInv'
<1> DEFINE linked == IF plan[index + 1] = "collusion" THEN {Users[colluder].manager} ELSE {}
<1>1. PICK padded \in Inflations(Current) : Emit(<<>>, padded, <<>>, linked)
  BY DEF RewriteInflation
<1>2. PICK e : padded = <<e>>
  BY OneClaim
<1>3. Rewriting /\ plan[index + 1] \in {"inflation", "collusion"} /\ ghosts' = ghosts
  BY DEF RewriteInflation
<1>4. linked = LinkedTo(index + 1)
  BY <1>3 DEF LinkedTo
<1> HIDE DEF linked
<1>5. Advanced
  BY <1>1, <1>3, EmitAdvances
<1>6. GhostsInv'
  BY <1>3, <1>5, GhostsAdvance DEF InjectionInv
<1> QED
  BY <1>1, <1>2, <1>3, <1>4, <1>6, ReplaceInjection

(* a duplicate *)
LEMMA DuplicateInjection ==
    ASSUME InjectionInv, RewriteDuplicate
    PROVE  InjectionInv'
<1>1. PICK copy \in Duplicates(Current, seq + Stride), label \in CleanLabels(Current) :
         Emit(<<Current>>, copy, <<label>>, {Current.id})
  BY DEF RewriteDuplicate
<1>2. PICK e : copy = <<e>>
  BY OneClaim
<1>3. Rewriting /\ plan[index + 1] = "duplicate" /\ ghosts' = ghosts
  BY DEF RewriteDuplicate
<1>4. Advanced
  BY <1>1, <1>3, EmitAdvances
<1>5. GhostsInv'
  BY <1>3, <1>4, GhostsAdvance DEF InjectionInv
<1>6. seq + Stride = Start(index + 1)
  BY <1>3, <1>4, AdvancedPlan DEF InjectionInv
<1>7. PICK o, m, c, s, t : /\ o = index + 1 /\ m = Len(kept) /\ c = Current
                           /\ s = Joint(kept, <<c>>) /\ t = Joint(labels, <<label>>)
  OBVIOUS
<1>8. Listed(kept, m) /\ Listed(labels, m) /\ m \in Nat /\ Len(labels) = m
  BY <1>7 DEF InjectionInv, RowsInv, Listed
<1>9. Longer(kept, s, 1) /\ s[m + 1] = c
  <2>1. s = Append(kept, c)
    BY <1>7, <1>8, Appended
  <2>2. Longer(kept, Append(kept, c), 1) /\ Append(kept, c)[m + 1] = c
    BY <1>8, LongerByOne
  <2> QED
    BY <2>1, <2>2
<1>10. Longer(labels, t, 1) /\ t[m + 1] = label
  <2>1. t = Append(labels, label)
    BY <1>7, <1>8, Appended
  <2>2. Longer(labels, Append(labels, label), 1) /\ Append(labels, label)[m + 1] = label
    BY <1>8, LongerByOne
  <2> QED
    BY <2>1, <2>2
<1>11. PICK n : n = m + 1
  OBVIOUS
<1>12. Listed(s, n) /\ Listed(t, n)
  BY <1>7, <1>8, <1>9, <1>10, <1>11 DEF Longer
<1>13. /\ Longer(s, kept', 1) /\ Longer(t, labels', 1)
       /\ \A k \in 1..1 : /\ kept'[n + k] = copy[k]
                          /\ labels'[n + k] \in FraudLabels(copy[k], plan[index + 1], {Current.id})
       /\ index' = index + 1 /\ seq' = seq + Stride
       /\ UNCHANGED <<expenses, colluder, plan, drawn>>
  <2>1. Listed(copy, 1)
    BY <1>2, Single
  <2>2. Distinct(copy, 1)
    BY DEF Distinct
  <2>3. Listed(Joint(kept, <<Current>>), n) /\ Listed(Joint(labels, <<label>>), n)
    BY <1>7, <1>12
  <2>4. s = Joint(kept, <<Current>>) /\ t = Joint(labels, <<label>>)
    BY <1>7
  <2> HIDE <1>2, <1>7, <1>12
  <2> QED
    BY <1>1, <2>1, <2>2, <2>3, <2>4, EmitFacts
<1>14. Longer(kept, kept', 2) /\ Longer(labels, labels', 2)
  <2>1. Longer(kept, kept', 1 + 1) /\ Longer(labels, labels', 1 + 1)
    BY <1>9, <1>10, <1>13, LongerTwice
  <2> QED
    BY <2>1
<1>15. kept'[m + 1] = c /\ labels'[m + 1] = label
  <2>1. m + 1 \in 1..n /\ Len(s) = n /\ Len(t) = n
    BY <1>8, <1>11, <1>12 DEF Listed
  <2>2. kept'[m + 1] = s[m + 1] /\ labels'[m + 1] = t[m + 1]
    BY <1>13, <2>1 DEF Longer
  <2> QED
    BY <1>9, <1>10, <2>2
<1>16. kept'[m + 2] = e /\ labels'[m + 2] \in FraudLabels(e, plan[o], {c.id})
  <2>1. n + 1 = m + 2 /\ 1 \in 1..1 /\ copy[1] = e
    BY <1>2, <1>8, <1>11
  <2>2. kept'[n + 1] = copy[1] /\ labels'[n + 1] \in FraudLabels(copy[1], plan[index + 1], {Current.id})
    BY <1>13, <2>1
  <2> QED
    BY <1>7, <2>1, <2>2
<1>17. Placed(o, m)'
  <2>1. /\ Start(o)' = Start(o) /\ Width(o)' = 2 /\ LinkedTo(o)' = {c.id}
        /\ plan'[o] = "duplicate" /\ plan[o] = "duplicate" /\ expenses'[o] = c
    BY <1>3, <1>7, <1>13 DEF Start, Width, LinkedTo, Current
  <2>2. Len(kept)' = m + 2
    BY <1>8, <1>14 DEF Longer, Listed
  <2>3. Honest(o, m + 1)'
    BY <1>7, <1>15, <2>1 DEF Honest
  <2>4. Fraudulent(o, m + 2)'
    BY <1>16, <2>1 DEF Fraudulent
  <2>5. <<kept'[m + 2]>> \in Duplicates(expenses'[o], Start(o)')
    BY <1>1, <1>2, <1>6, <1>7, <1>16, <2>1
  <2>6. m \in Nat /\ m + Width(o)' <= Len(kept)'
    BY <1>8, <2>1, <2>2
  <2> QED
    BY <2>1, <2>3, <2>4, <2>5, <2>6 DEF Placed
<1>18. Grown(o, m, 2)
  <2>1. Width(o) = 2
    BY <1>3, <1>7 DEF Width
  <2> QED
    BY <1>7, <1>13, <1>14, <1>17, <2>1 DEF Grown
<1> QED
  BY <1>4, <1>5, <1>18, GrowInjection

(* or a split, *)
LEMMA SplitInjection ==
    ASSUME InjectionInv, RewriteSplit
    PROVE  InjectionInv'
<1>1. PICK legs \in Splits(Current, seq + Stride) :
         Emit(<<>>, legs, <<>>, {legs[i].id : i \in DOMAIN legs})
  BY DEF RewriteSplit
<1>2. Rewriting /\ plan[index + 1] = "split" /\ ghosts' = ghosts
  BY DEF RewriteSplit
<1>3. Advanced
  BY <1>1, <1>2, EmitAdvances
<1>4. GhostsInv'
  BY <1>2, <1>3, GhostsAdvance DEF InjectionInv
<1>5. seq + Stride = Start(index + 1) /\ HonestClaim(Current, index + 1)
  BY <1>2, <1>3, AdvancedPlan DEF InjectionInv
<1>6. PICK o, m, w, c, x : /\ o = index + 1 /\ m = Len(kept) /\ w = Width(o) /\ c = Current
                           /\ x = {legs[i].id : i \in DOMAIN legs}
  OBVIOUS
<1>7. w = NLegs(c.amount) /\ w \in Nat
  <2>1. index + 1 \in 1..Len(expenses)
    BY <1>3, AdvancedPlan DEF InjectionInv
  <2>2. Width(index + 1) \in Nat \ {0}
    BY <2>1, PlannedFacts DEF InjectionInv
  <2> QED
    BY <1>2, <1>6, <2>2 DEF Width, Current
<1>8. /\ legs = [k \in 1..w |-> legs[k]]
      /\ \A k \in 1..w : legs[k].id = FraudId(Start(o) + k - 1)
  <2>1. HonestClaim(c, o) /\ legs \in Splits(c, Start(o))
    BY <1>5, <1>6
  <2> HIDE <1>6, <1>5
  <2> QED
    BY <1>7, <2>1, SplitFacts
<1>9. Listed(legs, w)
  BY <1>7, <1>8 DEF Listed
<1>10. Start(o) \in Nat
  <2>1. o \in Nat
    BY <1>3, <1>6, AdvancedPlan DEF InjectionInv
  <2>2. o + 1 \in Nat /\ o < o + 1
    BY <2>1
  <2> QED
    BY <2>1, <2>2, Starts
<1>11. Distinct(legs, w)
  <2> SUFFICES ASSUME NEW i \in 1..w, NEW j \in 1..w, legs[i].id = legs[j].id PROVE i = j
    BY DEF Distinct
  <2>1. FraudId(Start(o) + i - 1) = FraudId(Start(o) + j - 1)
    BY <1>8
  <2>2. Start(o) + i - 1 = Start(o) + j - 1
    BY <2>1 DEF FraudId
  <2> QED
    BY <1>7, <1>10, <2>2
<1>12. x = {FraudId(Start(o) + k - 1) : k \in 1..w}
  <2>1. DOMAIN legs = 1..w
    BY <1>8
  <2> QED
    BY <1>6, <1>8, <2>1
<1>13. Listed(kept, m) /\ Listed(labels, m) /\ m \in Nat
  BY <1>6 DEF InjectionInv, RowsInv, Listed
<1>14. /\ Longer(kept, kept', w) /\ Longer(labels, labels', w)
       /\ \A k \in 1..w : /\ kept'[m + k] = legs[k]
                          /\ labels'[m + k] \in FraudLabels(legs[k], plan[o], x)
       /\ index' = o
       /\ UNCHANGED <<expenses, colluder, plan, drawn>>
  <2>1. Joint(kept, <<>>) = kept /\ Joint(labels, <<>>) = labels
    BY <1>13, JoinedEmpty
  <2>2. Listed(Joint(kept, <<>>), m) /\ Listed(Joint(labels, <<>>), m)
    BY <1>13, <2>1
  <2>3. Emit(<<>>, legs, <<>>, x)
    BY <1>1, <1>6
  <2>4. /\ Longer(Joint(kept, <<>>), kept', w) /\ Longer(Joint(labels, <<>>), labels', w)
        /\ \A k \in 1..w : /\ kept'[m + k] = legs[k]
                           /\ labels'[m + k] \in FraudLabels(legs[k], plan[index + 1], x)
        /\ index' = index + 1 /\ seq' = seq + Stride
        /\ UNCHANGED <<expenses, colluder, plan, drawn>>
    BY <1>9, <1>11, <2>2, <2>3, EmitFacts
  <2> QED
    BY <1>6, <2>1, <2>4
<1>15. Placed(o, m)'
  <2>1. /\ Start(o)' = Start(o) /\ Width(o)' = w /\ LinkedTo(o)' = x
        /\ plan'[o] = "split" /\ plan[o] = "split" /\ expenses'[o] = c
    <3>1. plan' = plan /\ expenses' = expenses /\ colluder' = colluder
      BY <1>14
    <3>2. Start(o)' = Start(o) /\ Width(o)' = Width(o) /\ LinkedTo(o)' = LinkedTo(o)
      BY <3>1 DEF Start, Width, LinkedTo
    <3>3. plan[o] = "split" /\ expenses[o] = c /\ Width(o) = w
      BY <1>2, <1>6 DEF Current
    <3>4. LinkedTo(o) = x
      BY <1>12, <3>3 DEF LinkedTo
    <3> QED
      BY <3>1, <3>2, <3>3, <3>4
  <2>2. Len(kept)' = m + w
    BY <1>6, <1>14 DEF Longer, Listed
  <2>3. ASSUME NEW k \in 1..w PROVE Fraudulent(o, m + k)'
    <3>1. labels'[m + k] \in FraudLabels(kept'[m + k], plan[o], x)
      BY <1>14
    <3> QED
      BY <2>1, <3>1 DEF Fraudulent
  <2>4. Legs(m, w)' = legs
    BY <1>8, <1>14 DEF Legs
  <2>5. legs \in Splits(c, Start(o))
    BY <1>1, <1>5, <1>6
  <2>6. Legs(m, Width(o))' \in Splits(expenses[o], Start(o))'
    BY <2>1, <2>4, <2>5
  <2>7. m \in Nat /\ m + Width(o)' <= Len(kept)'
    BY <1>7, <1>13, <2>1, <2>2
  <2> QED
    BY <2>1, <2>3, <2>6, <2>7 DEF Placed
<1>16. Grown(o, m, w)
  BY <1>6, <1>14, <1>15 DEF Grown
<1> QED
  BY <1>3, <1>4, <1>16, GrowInjection

(* so after every step of the injection. *)
LEMMA InjectInjection ==
    ASSUME InjectionInv, Inject
    PROVE  InjectionInv'
  BY DrawInjection, KeepInjection, DuplicateInjection, SplitInjection, GhostInjection,
     PersonalInjection, InflationInjection DEF Inject

----------------------------------------------------------------------------
(* The stages. *)

IInv == InjectionInv /\ StageInv

(* The invariant holds at first *)
LEMMA InitInv == Init => IInv
<1> SUFFICES ASSUME Init PROVE IInv
  OBVIOUS
<1>1. InjectionInv
  BY InitInjection
<1>2. StageInv
  BY DEF Init, StageInv
<1> QED
  BY <1>1, <1>2 DEF IInv

(* A step that leaves the injection alone keeps its invariant. *)
LEMMA InjectionStays ==
    ASSUME InjectionInv, UNCHANGED injection
    PROVE  InjectionInv'
  BY RowsStay, PlanStays, GhostsStay DEF InjectionInv

(* The invariant holds after the honest ledger is drawn, *)
LEMMA GenerateStep ==
    ASSUME IInv, Generate
    PROVE  IInv'
<1>1. stage = "spend" /\ stage' = "inject" /\ UNCHANGED <<claims, vendors, injected, budgets>>
  BY DEF Generate
<1>2. PICK ledger \in Baseline : Called(ledger)
  BY DEF Generate
<1>3. Listed(ledger, Len(ledger))
  BY HonestLedger, SeqListed
<1>4. PICK n \in Nat : n = Len(ledger) /\ DOMAIN ledger = 1..n
  BY <1>3, ListedSeq DEF Listed
<1>5. /\ expenses' = ledger /\ plan' = [i \in 1..n |-> "none"]
      /\ UNCHANGED <<drawn, index, kept, labels, ghosts, seq>>
  BY <1>2, <1>4 DEF Called
<1>6. expenses = <<>> /\ Len(expenses) = 0
  BY <1>1 DEF IInv, StageInv
<1>7. drawn = 0 /\ index = 0
  <2>1. drawn \in 0..Targets /\ index \in 0..0
    BY <1>6 DEF IInv, InjectionInv, PlanInv
  <2>2. Targets = 0
    <3>1. BaseRate \in Nat
      BY InjectionAssumption
    <3>2. Targets = (0 * BaseRate) \div 100
      BY <1>6 DEF Targets, Percent
    <3>3. 0 * BaseRate = 0
      BY <3>1
    <3> QED
      BY <3>2, <3>3
  <2> QED
    BY <2>1, <2>2
<1>8. RowsInv' /\ GhostsInv'
  <2>1. kept' = <<>> /\ labels' = <<>> /\ ghosts' = <<>> /\ index' = 0
    BY <1>5, <1>7, NothingKept DEF IInv, InjectionInv
  <2> QED
    BY <2>1, EmptyNext DEF EmptyKept
<1>9. colluder' \in 0..Len(Users)
  <2>1. PICK m \in Nat : m = Len(Users) /\ DOMAIN Users = 1..m
    BY SpendAssumption
  <2>2. Colluders \subseteq 1..m
    BY <2>1 DEF Colluders
  <2>3. colluder' = 0 \/ colluder' \in Colluders
    BY <1>2 DEF Called
  <2>4. colluder' = 0 \/ colluder' \in 1..m
    BY <2>2, <2>3
  <2>5. colluder' \in 0..m
    BY <2>4
  <2> QED
    BY <2>1, <2>5
<1>10. Targets' \in Nat
  <2>1. BaseRate \in Nat
    BY InjectionAssumption
  <2> QED
    BY <1>4, <1>5, <2>1, PercentFacts DEF Targets
<1>11. seq' = Start(index)'
  <2>1. seq = 0
    BY <1>7, StartZero DEF IInv, InjectionInv, PlanInv
  <2> QED
    BY <1>5, <1>7, <2>1, StartZeroNext
<1>12. plan' \in [1..Len(expenses') -> Typologies \cup {"none"}]
       /\ \A o \in 1..Len(expenses') : plan'[o] # "split"
  BY <1>4, <1>5
<1>13. drawn' = 0 /\ index' = 0 /\ Len(expenses)' = n /\ expenses' \in Baseline
  BY <1>4, <1>5, <1>7
<1>14. PlanInv'
  <2>1. drawn' \in 0..Targets' /\ index' \in 0..Len(expenses')
    BY <1>10, <1>13
  <2> QED
    BY <1>9, <1>11, <1>12, <1>13, <2>1 DEF PlanInv
<1>15. StageInv'
  BY <1>1 DEF IInv, StageInv
<1> QED
  BY <1>8, <1>14, <1>15 DEF IInv, InjectionInv

(* after a step of the injection, *)
LEMMA InjectStep ==
    ASSUME IInv, InjectFraud
    PROVE  IInv'
<1>1. stage = "inject" /\ Inject /\ UNCHANGED <<stage, claims, vendors, injected, budgets>>
  BY DEF InjectFraud
<1>2. InjectionInv'
  BY <1>1, InjectInjection DEF IInv
<1>3. StageInv'
  BY <1>1 DEF IInv, StageInv
<1> QED
  BY <1>2, <1>3 DEF IInv

(* after the payloads are planted *)
LEMMA PayloadStep ==
    ASSUME IInv, InjectPayloads
    PROVE  IInv'
<1>1. /\ stage = "inject" /\ Returned /\ UNCHANGED injection /\ stage' = "budgets"
      /\ vendors' = Vendors \cup Rows(ghosts)
  BY DEF InjectPayloads
<1>2. PICK targets \in TargetSets(kept) :
         /\ claims' = Planted(kept, targets)
         /\ injected' = injected \cup {kept[i].id : i \in targets}
  BY DEF InjectPayloads
<1>3. targets \in SUBSET (1..Len(kept))
  <2>1. DOMAIN kept = 1..Len(kept)
    BY ListedSeq DEF IInv, InjectionInv, RowsInv
  <2> QED
    BY <2>1 DEF TargetSets
<1>4. injected = {}
  BY <1>1 DEF IInv, StageInv
<1>5. kept' = kept /\ ghosts' = ghosts /\ Returned'
  BY <1>1 DEF injection, Returned, Targets
<1>6. claims' = Planted(kept', targets) /\ injected' = {kept'[i].id : i \in targets}
  BY <1>2, <1>4, <1>5
<1>7. (\E S \in SUBSET (1..Len(kept)) : claims = Planted(kept, S) /\ injected = {kept[i].id : i \in S})'
  BY <1>3, <1>5, <1>6
<1>8. vendors' = (Vendors \cup Rows(ghosts))'
  BY <1>1, <1>5 DEF Rows
<1>9. StageInv'
  BY <1>1, <1>5, <1>7, <1>8 DEF StageInv
<1>10. InjectionInv'
  BY <1>1, InjectionStays DEF IInv
<1> QED
  BY <1>9, <1>10 DEF IInv

(* A step that leaves the claims as they are. *)
LEMMA SettledStep ==
    ASSUME IInv, UNCHANGED <<injection, claims, vendors, injected>>,
           \/ stage' = stage /\ budgets' = budgets
           \/ stage = "budgets" /\ stage' = "done" /\ budgets' = Limits(claims)
    PROVE  IInv'
<1>1. InjectionInv'
  BY InjectionStays DEF IInv
<1>2. expenses' = expenses /\ kept' = kept /\ ghosts' = ghosts /\ (Returned' <=> Returned)
  BY DEF injection, Returned, Targets
<1>3. ASSUME stage \in {"budgets", "done"}
      PROVE  /\ Returned'
             /\ (\E S \in SUBSET (1..Len(kept)) :
                    claims = Planted(kept, S) /\ injected = {kept[i].id : i \in S})'
             /\ vendors' = (Vendors \cup Rows(ghosts))'
  <2>1. PICK S \in SUBSET (1..Len(kept)) : claims = Planted(kept, S) /\ injected = {kept[i].id : i \in S}
    BY <1>3 DEF IInv, StageInv
  <2>2. claims' = Planted(kept', S) /\ injected' = {kept'[i].id : i \in S} /\ S \in SUBSET (1..Len(kept'))
    BY <1>2, <2>1
  <2>3. Returned' /\ vendors' = (Vendors \cup Rows(ghosts))'
    BY <1>2, <1>3 DEF IInv, StageInv, Rows
  <2> QED
    BY <2>2, <2>3
<1>4. Limits(claims)' = Limits(claims)
  BY DEF Limits
<1>5. StageInv'
  <2>1. stage' \in {"budgets", "done"} => stage \in {"budgets", "done"}
    OBVIOUS
  <2>2. stage' = "done" => budgets' = Limits(claims)'
    BY <1>4 DEF IInv, StageInv
  <2>3. stage' \in {"spend", "inject"} => stage' = stage
    OBVIOUS
  <2>4. stage' \in {"spend", "inject", "budgets", "done"}
    BY DEF IInv, StageInv
  <2>5. stage' \in {"spend", "inject"} => claims' = <<>> /\ vendors' = {} /\ injected' = {}
    BY <2>3 DEF IInv, StageInv
  <2>6. stage' = "spend" => expenses' = <<>>
    BY <1>2, <2>3 DEF IInv, StageInv
  <2>7. stage' \in {"budgets", "done"} =>
           /\ Returned'
           /\ (\E S \in SUBSET (1..Len(kept)) :
                  claims = Planted(kept, S) /\ injected = {kept[i].id : i \in S})'
           /\ vendors' = (Vendors \cup Rows(ghosts))'
    BY <1>3, <2>1
  <2> QED
    BY <2>2, <2>4, <2>5, <2>6, <2>7 DEF StageInv
<1> QED
  BY <1>1, <1>5 DEF IInv

(* and so after every step. *)
LEMMA StepInv == IInv /\ [Next]_vars => IInv'
<1> SUFFICES ASSUME IInv, [Next]_vars PROVE IInv'
  OBVIOUS
<1>1. CASE Generate
  BY <1>1, GenerateStep
<1>2. CASE InjectFraud
  BY <1>2, InjectStep
<1>3. CASE InjectPayloads
  BY <1>3, PayloadStep
<1>4. CASE DeriveBudgets
  <2>1. /\ UNCHANGED <<injection, claims, vendors, injected>>
        /\ stage = "budgets" /\ stage' = "done" /\ budgets' = Limits(claims)
    BY <1>4 DEF DeriveBudgets
  <2> QED
    BY <2>1, SettledStep
<1>5. CASE UNCHANGED vars
  <2>1. UNCHANGED <<injection, claims, vendors, injected>> /\ stage' = stage /\ budgets' = budgets
    BY <1>5 DEF vars
  <2> QED
    BY <2>1, SettledStep
<1> QED
  BY <1>1, <1>2, <1>3, <1>4, <1>5 DEF Next

(* It holds in every reachable state. *)
LEMMA Inductive == Spec => []IInv
  BY InitInv, StepInv, PTL DEF Spec

----------------------------------------------------------------------------
(* The claims, their labels and what they come from. *)

(* Every claim that was kept comes from a claim, with its label. *)
LEMMA Traced ==
    ASSUME InjectionInv, NEW j \in 1..Len(kept)
    PROVE  \E o \in 1..index : \E k \in 1..Width(o) :
              o \in 1..Len(expenses) /\ Placed(o, j - k) /\ Becomes(o, k, kept[j], labels[j])
<1>1. Len(kept) \in Nat
  BY DEF InjectionInv, RowsInv, Listed
<1>2. PICK o \in 1..index : \E k \in 1..Width(o) : Placed(o, j - k)
  BY DEF InjectionInv, RowsInv
<1>3. PICK k \in 1..Width(o) : Placed(o, j - k)
  BY <1>2
<1>4. o \in 1..Len(expenses)
  <2>1. index \in 0..Len(expenses) /\ Len(expenses) \in Nat
    BY ExpensesFacts DEF InjectionInv, PlanInv, Listed
  <2> QED
    BY <2>1
<1>5. PICK b \in Nat : b = j - k
  BY <1>3 DEF Placed
<1>6. Width(o) \in Nat
  BY <1>4, PlannedFacts DEF InjectionInv
<1>7. b + k = j
  BY <1>1, <1>5, <1>6
<1>8. Becomes(o, k, kept[b + k], labels[b + k])
  BY <1>1, <1>3, <1>4, <1>5, PlacedFacts DEF InjectionInv
<1> QED
  BY <1>3, <1>4, <1>7, <1>8

(* The claim that leaves in the j-th place. *)
Carried(c, e, tainted) ==
    /\ IsClaim(c) /\ Dated(c)
    /\ \A f \in Fields \ {"payload"} : c[f] = e[f]
    /\ c.payload = tainted

(* A receipt with a payload is otherwise the same. *)
LEMMA Plants ==
    ASSUME NEW e, NEW x, FromClaim(e, x)
    PROVE  Carried([e EXCEPT !.payload = TRUE], e, TRUE) /\ Carried(e, e, FALSE)
<1> DEFINE c == [e EXCEPT !.payload = TRUE]
<1>1. e = [f \in Fields |-> e[f]] /\ Dated(e) /\ e.payload = FALSE
  BY DEF FromClaim, IsClaim
<1>2. c = [f \in Fields |-> IF f = "payload" THEN TRUE ELSE e[f]]
  BY <1>1 DEF Fields
<1> HIDE DEF c
<1>3. \A f \in Fields : c[f] = IF f = "payload" THEN TRUE ELSE e[f]
  BY <1>2
<1>4. c = [f \in Fields |-> c[f]]
  BY <1>2, <1>3
<1>5. c.payload = TRUE /\ c.amount = e.amount /\ c.day = e.day /\ c.at = e.at
  BY <1>3 DEF Fields
<1>6. Dated(c)
  BY <1>1, <1>5 DEF Dated
<1>7. Carried(c, e, TRUE)
  BY <1>3, <1>4, <1>5, <1>6 DEF Carried, IsClaim
<1>8. Carried(e, e, FALSE)
  BY <1>1 DEF Carried, IsClaim
<1> QED
  BY <1>7, <1>8 DEF c

(* What the claims are once the injection has returned. *)
Settled(n, targets) ==
    /\ n \in Nat /\ n = Len(kept) /\ index = Len(expenses)
    /\ targets \in SUBSET (1..n)
    /\ Listed(kept, n) /\ Listed(labels, n) /\ Listed(claims, n)
    /\ injected = {kept[i].id : i \in targets}
    /\ \A i \in 1..n : Carried(claims[i], kept[i], i \in targets)

(* After the injection the claims are the kept ones and the payloads. *)
LEMMA SettledFacts ==
    ASSUME IInv, stage \in {"budgets", "done"}
    PROVE  \E n : \E targets : Settled(n, targets)
<1>1. PICK n : n = Len(kept)
  OBVIOUS
<1>2. n \in Nat /\ Listed(kept, n) /\ Listed(labels, n)
  BY <1>1 DEF IInv, InjectionInv, RowsInv, Listed
<1>3. Returned /\ \E targets \in SUBSET (1..Len(kept)) :
                     claims = Planted(kept, targets) /\ injected = {kept[i].id : i \in targets}
  BY DEF IInv, StageInv
<1>4. PICK targets \in SUBSET (1..n) :
         claims = Planted(kept, targets) /\ injected = {kept[i].id : i \in targets}
  BY <1>1, <1>3
<1>5. DOMAIN kept = 1..n
  BY <1>2, ListedSeq
<1>6. claims = [i \in 1..n |-> IF i \in targets THEN [kept[i] EXCEPT !.payload = TRUE] ELSE kept[i]]
  BY <1>4, <1>5 DEF Planted
<1>7. Listed(claims, n)
  <2> DEFINE f(i) == IF i \in targets THEN [kept[i] EXCEPT !.payload = TRUE] ELSE kept[i]
  <2>1. claims = [i \in 1..n |-> f(i)]
    BY <1>6
  <2> HIDE DEF f
  <2>2. claims \in Seq({f(i) : i \in 1..n}) /\ DOMAIN claims = 1..n
    BY <1>2, <2>1
  <2>3. Len(claims) = n
    BY <1>2, <2>2
  <2>4. claims = [i \in 1..n |-> claims[i]]
    BY <2>1
  <2> QED
    BY <1>2, <2>3, <2>4 DEF Listed
<1>8. ASSUME NEW i \in 1..n PROVE Carried(claims[i], kept[i], i \in targets)
  <2>1. PICK o \in 1..index : \E k \in 1..Width(o) : Becomes(o, k, kept[i], labels[i])
    BY <1>1, Traced DEF IInv
  <2>2. FromClaim(kept[i], expenses[o])
    BY <2>1 DEF Becomes
  <2>3. CASE i \in targets
    <3>1. claims[i] = [kept[i] EXCEPT !.payload = TRUE]
      BY <1>6, <2>3
    <3>2. (i \in targets) = TRUE
      BY <2>3
    <3>3. Carried(claims[i], kept[i], TRUE)
      BY <2>2, <3>1, Plants
    <3> QED
      BY <3>2, <3>3
  <2>4. CASE i \notin targets
    <3>1. claims[i] = kept[i]
      BY <1>6, <2>4
    <3>2. (i \in targets) = FALSE
      BY <2>4
    <3>3. Carried(claims[i], kept[i], FALSE)
      BY <2>2, <3>1, Plants
    <3> QED
      BY <3>2, <3>3
  <2> QED
    BY <2>3, <2>4
<1>9. index = Len(expenses)
  BY <1>3 DEF Returned
<1> QED
  BY <1>1, <1>2, <1>4, <1>7, <1>8, <1>9 DEF Settled

LEMMA InvTainted == IInv => TaintedIffLabelled
<1> SUFFICES ASSUME IInv, Done PROVE TaintedIffLabelled
  BY DEF TaintedIffLabelled
<1>1. PICK n : \E targets : Settled(n, targets)
  BY SettledFacts DEF Done
<1>2. PICK targets : Settled(n, targets)
  BY <1>1
<1>3. Rows(claims) = {claims[i] : i \in 1..n}
  BY <1>2, ListedSeq DEF Settled
<1>4. \A i \in 1..n : claims[i].id = kept[i].id /\ claims[i].payload = (i \in targets)
  BY <1>2 DEF Settled, Carried, Fields
<1>5. targets \subseteq 1..n /\ injected = {kept[i].id : i \in targets}
  BY <1>2 DEF Settled
<1>6. {x \in Rows(claims) : x.payload} = {claims[i] : i \in targets}
  BY <1>3, <1>4, <1>5
<1>7. {c.id : c \in {claims[i] : i \in targets}} = {kept[i].id : i \in targets}
  BY <1>4, <1>5
<1> QED
  BY <1>5, <1>6, <1>7 DEF TaintedIffLabelled

(* A receipt carries a payload exactly when its claim has an injection     *)
(* label: no typology copies, carries over or drops one, because the       *)
(* payloads are planted after the fraud (generate_tenant).                 *)
THEOREM PayloadsLabelled == Spec => []TaintedIffLabelled
  BY InvTainted, Inductive, PTL

LEMMA InvType == IInv => TypeOK
<1> SUFFICES ASSUME IInv PROVE TypeOK
  OBVIOUS
<1>1. \A c \in Rows(expenses) : Dated(c) /\ c.payload \in BOOLEAN
  <2>1. Listed(expenses, Len(expenses)) /\ \A i \in 1..Len(expenses) : HonestClaim(expenses[i], i)
    BY ExpensesFacts DEF IInv, InjectionInv
  <2>2. Rows(expenses) = {expenses[i] : i \in 1..Len(expenses)}
    BY <2>1, ListedSeq
  <2> QED
    BY <2>1, <2>2 DEF HonestClaim
<1>2. \A j \in 1..Len(kept) : Dated(kept[j]) /\ kept[j].payload \in BOOLEAN
  BY Traced DEF IInv, Becomes, FromClaim
<1>3. \A c \in Rows(kept) : Dated(c) /\ c.payload \in BOOLEAN
  <2>1. Rows(kept) = {kept[i] : i \in 1..Len(kept)}
    BY ListedSeq DEF IInv, InjectionInv, RowsInv
  <2> QED
    BY <1>2, <2>1
<1>4. /\ \A c \in Rows(claims) : Dated(c) /\ c.payload \in BOOLEAN
      /\ injected \subseteq {c.id : c \in Rows(claims)}
  <2>1. CASE stage \in {"spend", "inject"}
    <3>1. claims = <<>> /\ injected = {}
      BY <2>1 DEF IInv, StageInv
    <3>2. Rows(claims) = {}
      BY <3>1 DEF Rows
    <3> QED
      BY <3>1, <3>2
  <2>2. CASE stage \in {"budgets", "done"}
    <3>1. PICK n : \E targets : Settled(n, targets)
      BY <2>2, SettledFacts
    <3>2. PICK targets : Settled(n, targets)
      BY <3>1
    <3>3. Rows(claims) = {claims[i] : i \in 1..n}
      BY <3>2, ListedSeq DEF Settled
    <3>4. \A i \in 1..n : Dated(claims[i]) /\ claims[i].payload \in BOOLEAN
      <4> TAKE i \in 1..n
      <4>1. Dated(claims[i]) /\ claims[i].payload = (i \in targets)
        BY <3>2 DEF Settled, Carried
      <4>2. (i \in targets) \in BOOLEAN
        OBVIOUS
      <4> QED
        BY <4>1, <4>2
    <3>5. \A i \in 1..n : claims[i].id = kept[i].id
      BY <3>2 DEF Settled, Carried, Fields
    <3>6. targets \subseteq 1..n /\ injected = {kept[i].id : i \in targets}
      BY <3>2 DEF Settled
    <3> QED
      BY <3>3, <3>4, <3>5, <3>6
  <2> QED
    BY <2>1, <2>2 DEF IInv, StageInv
<1>5. \A l \in Rows(labels) : l.fraud \in BOOLEAN /\ l.observed \in BOOLEAN /\ l.confirmed \in Nat
  <2>1. Rows(labels) = {labels[i] : i \in 1..Len(kept)}
    BY ListedSeq DEF IInv, InjectionInv, RowsInv
  <2>2. \A j \in 1..Len(kept) :
           labels[j].fraud \in BOOLEAN /\ labels[j].observed \in BOOLEAN /\ labels[j].confirmed \in Nat
    BY Traced DEF IInv, Becomes, Verdict
  <2> QED
    BY <2>1, <2>2
<1>6. /\ colluder \in 0..Len(Users)
      /\ plan \in [DOMAIN expenses -> Typologies \cup {"none"}]
      /\ drawn \in 0..Targets /\ index \in 0..Len(expenses)
  <2>1. DOMAIN expenses = 1..Len(expenses)
    BY ExpensesFacts, ListedSeq DEF IInv, InjectionInv
  <2> QED
    BY <2>1 DEF IInv, InjectionInv, PlanInv
<1>7. stage \in {"spend", "inject", "budgets", "done"}
  BY DEF IInv, StageInv
<1>8. \A c \in Rows(expenses) \cup Rows(kept) \cup Rows(claims) :
          c.amount \in Nat \ {0} /\ c.day \in Nat /\ c.at >= 24 * c.day /\ c.payload \in BOOLEAN
  BY <1>1, <1>3, <1>4 DEF Dated
<1> QED
  BY <1>4, <1>5, <1>6, <1>7, <1>8 DEF TypeOK

(* Amounts are something, no claim is submitted before its date, the plan  *)
(* and the labels keep their ranges and a payload is labelled only on a    *)
(* claim there is, at every stage of generate_tenant.                      *)
THEOREM WorldTypeCorrect == Spec => []TypeOK
  BY InvType, Inductive, PTL

----------------------------------------------------------------------------
(* What is picked from a ledger, and the features. *)

(* The sequence q of the elements of K picks them from s. *)
Picks(q, m, s, K) ==
    /\ Lists(q, m, K)
    /\ Picked(s, K) = [i \in 1..m |-> s[q[i]]]
    /\ Rows(Picked(s, K)) = {s[i] : i \in K}

(* What is picked is listed in its order. *)
LEMMA PickedFacts ==
    ASSUME NEW s, NEW n \in Nat, NEW K, K \subseteq 1..n
    PROVE  \E m \in Nat : \E q : Picks(q, m, s, K)
<1>1. IsFiniteSet(K) /\ K \subseteq Int
  <2>1. IsFiniteSet(1..n)
    BY FS_Interval
  <2>2. IsFiniteSet(K)
    BY <2>1, FS_Subset
  <2> QED
    BY <2>2
<1>2. PICK m \in Nat : m = Cardinality(K) /\ Lists(Sorted(K, <), m, K)
  BY <1>1, SortedLists
<1>3. PICK q : q = Sorted(K, <)
  OBVIOUS
<1>4. Lists(q, m, K)
  BY <1>2, <1>3
<1>5. Picked(s, K) = [i \in 1..m |-> s[q[i]]]
  <2>1. Picked(s, K) = Along(s, q, m)
    BY <1>1, <1>4, PicksListed
  <2> QED
    BY <2>1 DEF Along
<1>6. Rows(Picked(s, K)) = {s[q[i]] : i \in 1..m}
  BY <1>5 DEF Rows
<1>7. {s[q[i]] : i \in 1..m} = {s[i] : i \in K}
  BY <1>4 DEF Lists
<1> QED
  BY <1>4, <1>5, <1>6, <1>7 DEF Picks

Last(s, E, i) == i \in E /\ \A j \in E : ~Before(s, i, j)

Instants(s, n) == \A i \in 1..n : s[i].at \in Nat

(* Of some claims one is the last. *)
LEMMA LastExists ==
    ASSUME NEW s, NEW n \in Nat, Instants(s, n), NEW E, E \subseteq 1..n, E # {}
    PROVE  \E i : Last(s, E, i)
<1> DEFINE below == [x \in E |-> {y \in E : Before(s, y, x)}]
<1>1. IsFiniteSet(E)
  <2>1. IsFiniteSet(1..n)
    BY FS_Interval
  <2> QED
    BY <2>1, FS_Subset
<1>2. below \in [E -> SUBSET E]
  OBVIOUS
<1>3. \A x \in E : x \in Nat /\ s[x].at \in Nat
  <2> SUFFICES ASSUME NEW x \in E PROVE x \in Nat /\ s[x].at \in Nat
    OBVIOUS
  <2>1. x \in 1..n
    OBVIOUS
  <2>2. x \in Nat
    BY <2>1
  <2>3. s[x].at \in Nat
    BY <2>1 DEF Instants
  <2> QED
    BY <2>2, <2>3
<1>4. \A x, y \in E : x \in below[y] <=> Before(s, x, y)
  OBVIOUS
<1>5. \A x \in E : x \notin below[x]
  BY <1>3, <1>4 DEF Before
<1>6. ASSUME NEW x \in E, NEW y \in E, x \in below[y] PROVE below[x] \subseteq below[y]
  <2> SUFFICES ASSUME NEW z \in below[x] PROVE z \in below[y]
    OBVIOUS
  <2>1. z \in E /\ Before(s, z, x) /\ Before(s, x, y)
    BY <1>6
  <2>2. Before(s, z, y)
    BY <1>3, <2>1 DEF Before
  <2> QED
    BY <2>1, <2>2
<1>7. \A x, y \in E : x = y \/ x \in below[y] \/ y \in below[x]
  BY <1>3, <1>4 DEF Before
<1> HIDE DEF below
<1>8. /\ Cardinality(E) \in Nat
      /\ \A x \in E : Cardinality(below[x]) \in 0..(Cardinality(E) - 1)
      /\ \A x, y \in E : Cardinality(below[x]) < Cardinality(below[y]) <=> x \in below[y]
      /\ \A k \in 1..Cardinality(E) : \E x \in E : Cardinality(below[x]) = k - 1
  BY <1>1, <1>2, <1>5, <1>6, <1>7, Ranked
<1>9. PICK m \in Nat : m = Cardinality(E)
  BY <1>8
<1>10. m \in 1..m
  BY <1>1, <1>9, FS_EmptySet
<1>11. PICK x \in E : Cardinality(below[x]) = m - 1
  BY <1>8, <1>9, <1>10
<1>12. ASSUME NEW y \in E PROVE ~Before(s, x, y)
  <2>1. Cardinality(below[y]) \in 0..(m - 1)
    BY <1>8, <1>9
  <2>2. ~(Cardinality(below[x]) < Cardinality(below[y]))
    BY <1>11, <2>1
  <2> QED
    BY <1>4, <1>8, <2>2
<1> QED
  BY <1>11, <1>12 DEF Last

(* The gap is to the last of the earlier claims, when there is one. *)
LEMMA SinceBy ==
    ASSUME NEW s, NEW n \in Nat, DOMAIN s = 1..n, Instants(s, n),
           NEW a \in 1..n, NEW row, row = s[a], \A i \in 1..n : s[i] = row => i = a
    PROVE  \/ Earlier(s, a) = {} /\ SinceSamePhash(s, row) = -1
           \/ \E i : Last(s, Earlier(s, a), i) /\ SinceSamePhash(s, row) = row.at - s[i].at
<1>1. (CHOOSE i \in DOMAIN s : s[i] = row) = a
  OBVIOUS
<1>2. SinceSamePhash(s, row)
        = IF Earlier(s, a) = {} THEN -1 ELSE row.at - s[Latest(s, Earlier(s, a))].at
  BY <1>1 DEF SinceSamePhash
<1>3. CASE Earlier(s, a) = {}
  BY <1>2, <1>3
<1>4. CASE Earlier(s, a) # {}
  <2>1. PICK E : E = Earlier(s, a)
    OBVIOUS
  <2>2. E \subseteq 1..n /\ E # {}
    BY <1>4, <2>1 DEF Earlier
  <2>3. \E i \in E : \A j \in E : ~Before(s, i, j)
    BY <2>2, LastExists DEF Last
  <2>4. PICK i : i = Latest(s, E)
    OBVIOUS
  <2>5. Last(s, E, i)
    BY <2>3, <2>4 DEF Last, Latest
  <2>6. SinceSamePhash(s, row) = row.at - s[i].at
    BY <1>2, <1>4, <2>1, <2>4
  <2> QED
    BY <2>1, <2>5, <2>6
<1> QED
  BY <1>3, <1>4

(* No two claims are one. *)
Once(s, n) == \A i, j \in 1..n : s[i] = s[j] => i = j

(* The gap to the last claim with the same receipt is the same in a part   *)
(* of the ledger that holds the earlier claims with it.                    *)
LEMMA SinceOfPicked ==
    ASSUME NEW s, NEW n \in Nat, DOMAIN s = 1..n, Instants(s, n), Once(s, n),
           NEW K, K \subseteq 1..n, NEW a \in 1..n, a \in K, Earlier(s, a) \subseteq K
    PROVE  SinceSamePhash(Picked(s, K), s[a]) = SinceSamePhash(s, s[a])
<1>1. PICK row : row = s[a]
  OBVIOUS
<1>2. PICK m \in Nat : \E q : Picks(q, m, s, K)
  BY PickedFacts
<1>3. PICK q : Picks(q, m, s, K)
  BY <1>2
<1>4. PICK p : p = Picked(s, K)
  OBVIOUS
<1>5. DOMAIN p = 1..m /\ \A i \in 1..m : p[i] = s[q[i]]
  BY <1>3, <1>4 DEF Picks
<1>6. /\ \A i \in 1..m : q[i] \in 1..n /\ q[i] \in K
      /\ \A i, j \in 1..m : i < j => q[i] < q[j]
      /\ \A x \in K : \E i \in 1..m : q[i] = x
  BY <1>3 DEF Picks, Lists
<1>7. PICK b \in 1..m : q[b] = a
  BY <1>6
<1>8. Instants(p, m)
  BY <1>5, <1>6 DEF Instants
<1>9. p[b] = row /\ \A i \in 1..m : p[i] = row => i = b
  <2>1. ASSUME NEW i \in 1..m, p[i] = row PROVE i = b
    <3>1. q[i] = q[b]
      BY <1>1, <1>5, <1>6, <1>7, <2>1 DEF Once
    <3>2. ~(i < b) /\ ~(b < i)
      BY <1>6, <3>1
    <3> QED
      BY <3>2
  <2> QED
    BY <1>1, <1>5, <1>7, <2>1
<1>10. \A i, j \in 1..m : Before(p, i, j) <=> Before(s, q[i], q[j])
  <2> TAKE i, j \in 1..m
  <2>1. p[i].at = s[q[i]].at /\ p[j].at = s[q[j]].at
    BY <1>5
  <2>2. i < j <=> q[i] < q[j]
    <3>1. i < j => q[i] < q[j]
      BY <1>6
    <3>2. j < i => q[j] < q[i]
      BY <1>6
    <3>3. i = j => q[i] = q[j]
      OBVIOUS
    <3>4. q[i] \in 1..n /\ q[j] \in 1..n
      BY <1>6
    <3> QED
      BY <3>1, <3>2, <3>3, <3>4
  <2> QED
    BY <2>1, <2>2 DEF Before
<1>11. PICK E : E = Earlier(s, a)
  OBVIOUS
<1>12. PICK F : F = Earlier(p, b)
  OBVIOUS
<1>13. \A i \in 1..m : i \in F <=> q[i] \in E
  BY <1>5, <1>6, <1>7, <1>10, <1>11, <1>12 DEF Earlier
<1>14. \A x \in E : \E i \in 1..m : i \in F /\ q[i] = x
  <2> TAKE x \in E
  <2>1. x \in K
    BY <1>11
  <2> QED
    BY <1>6, <1>13, <2>1
<1>15. F \subseteq 1..m /\ E \subseteq 1..n
  BY <1>5, <1>11, <1>12 DEF Earlier
<1>16. \/ E = {} /\ SinceSamePhash(s, row) = -1
       \/ \E i : Last(s, E, i) /\ SinceSamePhash(s, row) = row.at - s[i].at
  BY <1>1, <1>11, SinceBy DEF Once
<1>17. \/ F = {} /\ SinceSamePhash(p, row) = -1
       \/ \E i : Last(p, F, i) /\ SinceSamePhash(p, row) = row.at - p[i].at
  <2>1. DOMAIN p = 1..m
    BY <1>5
  <2>2. p[b] = row
    BY <1>9
  <2>3. \A i \in 1..m : p[i] = row => i = b
    BY <1>9
  <2>4. b \in 1..m /\ m \in Nat
    OBVIOUS
  <2> HIDE <1>9
  <2> QED
    BY SMTT(30), <1>8, <1>12, <2>1, <2>2, <2>3, <2>4, SinceBy
<1>18. E = {} <=> F = {}
  BY <1>13, <1>14, <1>15
<1>19. CASE E = {}
  <2>1. SinceSamePhash(s, row) = -1 /\ SinceSamePhash(p, row) = -1
    BY <1>16, <1>17, <1>18, <1>19 DEF Last
  <2> QED
    BY <1>1, <1>4, <2>1
<1>20. CASE E # {}
  <2>1. PICK x : Last(s, E, x) /\ SinceSamePhash(s, row) = row.at - s[x].at
    BY <1>16, <1>20
  <2>2. PICK i : Last(p, F, i) /\ SinceSamePhash(p, row) = row.at - p[i].at
    BY <1>17, <1>18, <1>20
  <2>3. i \in 1..m /\ q[i] \in E /\ x \in E
    BY <1>13, <1>15, <2>1, <2>2 DEF Last
  <2>4. PICK j \in 1..m : j \in F /\ q[j] = x
    BY <1>14, <2>3
  <2>5. ~Before(s, x, q[i]) /\ ~Before(s, q[i], x)
    BY <1>10, <2>1, <2>2, <2>3, <2>4 DEF Last
  <2>6. x = q[i]
    <3>1. x \in 1..n /\ q[i] \in 1..n /\ s[x].at \in Nat /\ s[q[i]].at \in Nat
      BY <1>15, <2>3 DEF Instants
    <3> QED
      BY <2>5, <3>1 DEF Before
  <2> QED
    BY <1>1, <1>4, <1>5, <2>1, <2>2, <2>3, <2>6
<1> QED
  BY <1>19, <1>20

(* An amount over a fiftieth of itself is fifty. *)
LEMMA BucketIsFifty == \A amount \in Nat \ {0} : Bucket(amount) = 50
<1> SUFFICES ASSUME NEW amount \in Nat \ {0} PROVE Bucket(amount) = 50
  OBVIOUS
<1>1. (50 * amount) \div amount = 50
  OBVIOUS
<1> QED
  BY <1>1 DEF Bucket

Groups == {"user", "user_cat", "user_vendor", "tenant_vendor", "dept_cat", "grade_cat",
           "tenant_phash", "user_phash", "vendor_amount"}

(* Every window is over one of the groups. *)
LEMMA Grouped == \A w \in Windows : w[1] \in Groups
<1> SUFFICES ASSUME NEW w \in Windows PROVE w[1] \in Groups
  OBVIOUS
<1>1. \/ w \in Families.velocity \/ w \in Families.employee_history \/ w \in Families.vendor
      \/ w \in Families.peer_relative \/ w \in Families.duplicate_signals
  BY DEF Windows, Families
<1>2. CASE w \in Families.velocity
  <2>1. w \in ({"user"} \X {1, 7, 30}) \/ w = <<"user_vendor", 7>>
    BY <1>2 DEF Families
  <2> QED
    BY <2>1 DEF Groups
<1>3. CASE w \in Families.employee_history
  <2>1. w = <<"user_cat", 90>> \/ w = <<"user", 30>> \/ w = <<"user", 90>>
    BY <1>3 DEF Families
  <2> QED
    BY <2>1 DEF Groups
<1>4. CASE w \in Families.vendor
  <2>1. w = <<"tenant_vendor", 365>> \/ w = <<"user_vendor", 365>>
    BY <1>4 DEF Families
  <2> QED
    BY <2>1 DEF Groups
<1>5. CASE w \in Families.peer_relative
  <2>1. w = <<"dept_cat", 180>> \/ w = <<"grade_cat", 180>>
    BY <1>5 DEF Families
  <2> QED
    BY <2>1 DEF Groups
<1>6. CASE w \in Families.duplicate_signals
  <2>1. w = <<"tenant_phash", 365>> \/ w = <<"vendor_amount", 90>> \/ w = <<"user_phash", 365>>
    BY <1>6 DEF Families
  <2> QED
    BY <2>1 DEF Groups
<1> QED
  BY <1>1, <1>2, <1>3, <1>4, <1>5, <1>6

(* A claim over one paisa more is in the same groups. *)
LEMMA SameGroups ==
    ASSUME NEW row, IsClaim(row), Dated(row), NEW by \in Groups
    PROVE  /\ Key([row EXCEPT !.amount = @ + 1], by) = Key(row, by)
           /\ [row EXCEPT !.amount = @ + 1].at = row.at
<1>1. PICK c : c = [row EXCEPT !.amount = @ + 1]
  OBVIOUS
<1>2. row = [f \in Fields |-> row[f]]
  BY DEF IsClaim
<1>3. c = [f \in Fields |-> IF f = "amount" THEN row.amount + 1 ELSE row[f]]
  BY <1>1, <1>2 DEF Fields
<1>4. /\ c.user = row.user /\ c.category = row.category /\ c.vendor = row.vendor
      /\ c.department = row.department /\ c.phash = row.phash /\ c.at = row.at
      /\ c.amount = row.amount + 1
  BY <1>3 DEF Fields
<1>5. Bucket(c.amount) = Bucket(row.amount)
  <2>1. row.amount \in Nat \ {0} /\ row.amount + 1 \in Nat \ {0}
    BY DEF Dated
  <2> QED
    BY <1>4, <2>1, BucketIsFifty
<1>6. Key(c, by) = Key(row, by)
  BY <1>4, <1>5 DEF Key, Groups
<1> QED
  BY <1>1, <1>4, <1>6

(* The positions hold the claims before a row. *)
Spans(K, s, n, row) ==
    /\ n \in Nat /\ DOMAIN s = 1..n /\ K \subseteq 1..n
    /\ \A i \in 1..n : s[i].at < row.at => i \in K

(* The windows are over the claims before the row only. *)
LEMMA PriorOfPicked ==
    ASSUME NEW s, NEW n, NEW K, NEW row, Spans(K, s, n, row)
    PROVE  \A by, days : Prior(Picked(s, K), row, by, days) = Prior(s, row, by, days)
<1>1. Rows(s) = {s[i] : i \in 1..n}
  BY DEF Spans, Rows
<1>2. Rows(Picked(s, K)) = {s[i] : i \in K}
  <2>1. PICK m \in Nat : \E q : Picks(q, m, s, K)
    BY PickedFacts DEF Spans
  <2> QED
    BY <2>1 DEF Picks
<1>3. \A r : r.at < row.at => (r \in Rows(Picked(s, K)) <=> r \in Rows(s))
  BY <1>1, <1>2 DEF Spans
<1> QED
  BY <1>3 DEF Prior

(* No two claims that leave are one. *)
LEMMA OnceClaims ==
    ASSUME InjectionInv, NEW n, NEW targets, Settled(n, targets)
    PROVE  DOMAIN claims = 1..n /\ Instants(claims, n) /\ Once(claims, n)
<1>1. DOMAIN claims = 1..n
  BY ListedSeq DEF Settled
<1>2. Instants(claims, n)
  BY DEF Settled, Carried, Dated, Instants
<1>3. \A i \in 1..n : claims[i].id = kept[i].id /\ claims[i].phash = kept[i].phash
  BY DEF Settled, Carried, Fields
<1>4. \A i, j \in 1..n : kept[i].id = kept[j].id /\ kept[i].phash[4] = kept[j].phash[4] => i = j
  BY DEF Settled, InjectionInv, RowsInv
<1>5. Once(claims, n)
  <2> SUFFICES ASSUME NEW i \in 1..n, NEW j \in 1..n, claims[i] = claims[j] PROVE i = j
    BY DEF Once
  <2>1. kept[i].id = kept[j].id /\ kept[i].phash = kept[j].phash
    BY <1>3
  <2> QED
    BY <1>4, <2>1
<1> QED
  BY <1>1, <1>2, <1>5

(* With the claims of earlier instants alone the gap is the same, or it is *)
(* zero for a claim of the same receipt and instant.                       *)
LEMMA SinceApart ==
    ASSUME NEW s, NEW n \in Nat, DOMAIN s = 1..n, Instants(s, n), Once(s, n), NEW a \in 1..n,
           NEW K, K = {i \in 1..n : s[i].at < s[a].at \/ s[i] = s[a]}
    PROVE  \/ SinceSamePhash(s, s[a]) = SinceSamePhash(Picked(s, K), s[a])
           \/ /\ SinceSamePhash(s, s[a]) = 0
              /\ \E t \in 1..n : s[t] # s[a] /\ s[t].at = s[a].at /\ s[t].phash = s[a].phash
<1>1. PICK row : row = s[a]
  OBVIOUS
<1>2. PICK E : E = Earlier(s, a)
  OBVIOUS
<1>3. \A i : i \in E <=> i \in 1..n /\ s[i].phash = row.phash /\ Before(s, i, a)
  BY <1>1, <1>2 DEF Earlier
<1>4. CASE \A i \in E : s[i].at # row.at
  <2>1. a \in K /\ K \subseteq 1..n
    OBVIOUS
  <2>2. \A i \in E : s[i].at < row.at
    BY <1>1, <1>3, <1>4 DEF Before
  <2>3. E \subseteq K
    BY <1>1, <1>3, <2>2
  <2> QED
    BY <1>1, <1>2, <2>1, <2>3, SinceOfPicked
<1>5. CASE \E i \in E : s[i].at = row.at
  <2>1. PICK t \in E : s[t].at = row.at
    BY <1>5
  <2>2. t \in 1..n /\ s[t].phash = row.phash /\ Before(s, t, a)
    BY <1>3
  <2>3. s[t] # row
    <3>1. s[t].at \in Nat /\ s[a].at \in Nat
      BY <2>2 DEF Instants
    <3>2. t < a
      BY <1>1, <2>1, <2>2, <3>1 DEF Before
    <3>3. t # a
      BY <2>2, <3>2
    <3> QED
      BY <1>1, <2>2, <3>3 DEF Once
  <2>4. PICK i : Last(s, E, i) /\ SinceSamePhash(s, row) = row.at - s[i].at
    <3>1. \/ E = {} /\ SinceSamePhash(s, row) = -1
          \/ \E i : Last(s, E, i) /\ SinceSamePhash(s, row) = row.at - s[i].at
      BY <1>1, <1>2, SinceBy DEF Once
    <3> QED
      BY <2>1, <3>1
  <2>5. i \in 1..n /\ Before(s, i, a) /\ ~Before(s, i, t)
    BY <1>3, <2>1, <2>4 DEF Last
  <2>6. s[i].at = row.at /\ row.at \in Nat
    <3>1. s[i].at \in Nat /\ s[t].at \in Nat /\ s[a].at \in Nat
      BY <2>2, <2>5 DEF Instants
    <3> QED
      BY <1>1, <2>1, <2>5, <3>1 DEF Before
  <2>7. SinceSamePhash(s, row) = 0
    BY <2>4, <2>6
  <2> QED
    BY <1>1, <2>1, <2>2, <2>3, <2>7
<1> QED
  BY <1>4, <1>5

LEMMA InvCausal == IInv => FeaturesAreCausal
<1> SUFFICES ASSUME IInv, Done PROVE FeaturesAreCausal
  BY DEF FeaturesAreCausal
<1>1. PICK n : \E targets : Settled(n, targets)
  BY SettledFacts DEF Done
<1>2. PICK targets : Settled(n, targets)
  BY <1>1
<1>3. PICK s : s = claims
  OBVIOUS
<1>4. n \in Nat /\ DOMAIN s = 1..n /\ Instants(s, n) /\ Once(s, n)
  BY <1>2, <1>3, OnceClaims DEF IInv, Settled
<1>5. \A i \in 1..n : IsClaim(s[i]) /\ Dated(s[i])
  BY <1>2, <1>3 DEF Settled, Carried
<1>6. ASSUME NEW a \in 1..n
      PROVE  LET row == s[a]
                 earlier == Picked(s, {i \in 1..n : s[i].at < row.at})
                 apart == Picked(s, {i \in 1..n : s[i].at < row.at \/ s[i] = row})
                 changed == [row EXCEPT !.amount = @ + 1]
             IN /\ \A w \in Windows :
                      Prior(s, row, w[1], w[2]) = Prior(Append(earlier, changed), changed, w[1], w[2])
                /\ \/ SinceSamePhash(s, row) = SinceSamePhash(apart, row)
                   \/ /\ SinceSamePhash(s, row) = 0
                      /\ \E t \in 1..n : s[t] # row /\ s[t].at = row.at /\ s[t].phash = row.phash
  <2> DEFINE row == s[a]
             K == {i \in 1..n : s[i].at < row.at}
             L == {i \in 1..n : s[i].at < row.at \/ s[i] = row}
             changed == [row EXCEPT !.amount = @ + 1]
  <2>1. \/ SinceSamePhash(s, row) = SinceSamePhash(Picked(s, L), row)
        \/ /\ SinceSamePhash(s, row) = 0
           /\ \E t \in 1..n : s[t] # row /\ s[t].at = row.at /\ s[t].phash = row.phash
    BY <1>4, SinceApart
  <2>3. \A by, days : Prior(Picked(s, K), row, by, days) = Prior(s, row, by, days)
    <3>1. Spans(K, s, n, row)
      BY <1>4 DEF Spans
    <3> HIDE DEF K, row
    <3> QED
      BY <3>1, PriorOfPicked
  <2>2. ASSUME NEW w \in Windows
        PROVE  Prior(s, row, w[1], w[2]) = Prior(Append(Picked(s, K), changed), changed, w[1], w[2])
    <3>1. K \subseteq 1..n /\ \A i \in 1..n : s[i].at < row.at => i \in K
      OBVIOUS
    <3>2. w[1] \in Groups /\ Key(changed, w[1]) = Key(row, w[1]) /\ changed.at = row.at /\ row.at \in Nat
      BY <1>5, Grouped, SameGroups DEF Dated
    <3> HIDE DEF K, row, changed
    <3>3. Prior(Picked(s, K), row, w[1], w[2]) = Prior(s, row, w[1], w[2])
      BY <2>3
    <3>4. PICK m \in Nat : \E q : Picks(q, m, s, K)
      BY <1>4, <3>1, PickedFacts
    <3>5. PICK p : p = Picked(s, K)
      OBVIOUS
    <3>6. Listed(p, m)
      <4>1. PICK q : Picks(q, m, s, K)
        BY <3>4
      <4>2. p = [i \in 1..m |-> s[q[i]]]
        BY <3>5, <4>1 DEF Picks
      <4>3. p \in Seq({s[q[i]] : i \in 1..m}) /\ Len(p) = m
        BY <4>2
      <4> QED
        BY <4>2, <4>3 DEF Listed
    <3>7. Rows(Append(p, changed)) = Rows(p) \cup {changed}
      <4>1. Longer(p, Append(p, changed), 1) /\ Append(p, changed)[m + 1] = changed
        BY <3>6, LongerByOne
      <4>2. PICK u : u = Append(p, changed)
        OBVIOUS
      <4>3. Listed(u, m + 1) /\ u[m + 1] = changed /\ \A i \in 1..m : u[i] = p[i]
        BY <3>6, <4>1, <4>2 DEF Longer, Listed
      <4>4. Rows(u) = {u[i] : i \in 1..(m + 1)} /\ Rows(p) = {p[i] : i \in 1..m}
        BY <3>6, <4>3, ListedSeq
      <4>5. 1..(m + 1) = (1..m) \cup {m + 1}
        OBVIOUS
      <4>6. \A i \in 1..m : u[i] = p[i]
        BY <4>3
      <4>7. u[m + 1] = changed
        BY <4>3
      <4>8. {u[i] : i \in 1..(m + 1)} = {u[i] : i \in 1..m} \cup {u[m + 1]}
        BY <4>5
      <4>9. {u[i] : i \in 1..m} = {p[i] : i \in 1..m}
        BY <4>6
      <4> QED
        BY <4>2, <4>4, <4>7, <4>8, <4>9
    <3>8. Prior(Append(p, changed), changed, w[1], w[2]) = Prior(p, row, w[1], w[2])
      BY <3>2, <3>7 DEF Prior
    <3> QED
      BY <3>3, <3>5, <3>8
  <2> HIDE DEF row, K, L, changed
  <2> QED
    BY <2>1, <2>2 DEF row, K, L, changed
<1>7. Rows(claims) = {s[i] : i \in 1..n}
  BY <1>3, <1>4 DEF Rows
<1>8. ASSUME NEW row \in Rows(claims)
      PROVE  LET earlier == Picked(claims, {i \in DOMAIN claims : claims[i].at < row.at})
                 apart   == Picked(claims, {i \in DOMAIN claims : claims[i].at < row.at \/ claims[i] = row})
                 changed == [row EXCEPT !.amount = @ + 1]
             IN /\ \A w \in Windows :
                      Prior(claims, row, w[1], w[2])
                         = Prior(Append(earlier, changed), changed, w[1], w[2])
                /\ \/ SinceSamePhash(claims, row) = SinceSamePhash(apart, row)
                   \/ /\ SinceSamePhash(claims, row) = 0
                      /\ \E twin \in Rows(claims) \ {row} : twin.at = row.at /\ twin.phash = row.phash
  <2>1. PICK a \in 1..n : row = s[a]
    BY <1>7
  <2>2. \A t \in 1..n : s[t] # row => s[t] \in Rows(claims) \ {row}
    BY <1>7
  <2>3. PICK K : K = {i \in 1..n : s[i].at < row.at}
    OBVIOUS
  <2>4. PICK L : L = {i \in 1..n : s[i].at < row.at \/ s[i] = row}
    OBVIOUS
  <2>5. PICK changed : changed = [row EXCEPT !.amount = @ + 1]
    OBVIOUS
  <2>6. \A w \in Windows : Prior(s, row, w[1], w[2]) = Prior(Append(Picked(s, K), changed), changed, w[1], w[2])
    <3>1. \A w \in Windows :
             Prior(s, s[a], w[1], w[2])
                = Prior(Append(Picked(s, {i \in 1..n : s[i].at < s[a].at}), [s[a] EXCEPT !.amount = @ + 1]),
                        [s[a] EXCEPT !.amount = @ + 1], w[1], w[2])
      BY <1>6
    <3> QED
      BY <2>1, <2>3, <2>5, <3>1
  <2>7. \/ SinceSamePhash(s, row) = SinceSamePhash(Picked(s, L), row)
        \/ /\ SinceSamePhash(s, row) = 0
           /\ \E t \in 1..n : s[t] # row /\ s[t].at = row.at /\ s[t].phash = row.phash
    BY <1>6, <2>1, <2>4
  <2>8. \/ SinceSamePhash(s, row) = SinceSamePhash(Picked(s, L), row)
        \/ /\ SinceSamePhash(s, row) = 0
           /\ \E twin \in Rows(claims) \ {row} : twin.at = row.at /\ twin.phash = row.phash
    BY <2>2, <2>7
  <2>9. /\ K = {i \in DOMAIN claims : claims[i].at < row.at}
        /\ L = {i \in DOMAIN claims : claims[i].at < row.at \/ claims[i] = row}
    BY <1>3, <1>4, <2>3, <2>4
  <2> QED
    BY <1>3, <2>5, <2>6, <2>8, <2>9
<1> QED
  BY <1>8 DEF FeaturesAreCausal

(* No window of a claim sees the claim itself, an equal instant or a later *)
(* one, and nor does the gap between equal receipts, but that it is zero   *)
(* after a claim of the same receipt and instant (prior_rolling,           *)
(* days_since_same_phash).                                                 *)
THEOREM FeaturesCausal == Spec => []FeaturesAreCausal
  BY InvCausal, Inductive, PTL

(* The features depend on the windows and on the gap, *)
LEMMA SameFeatures ==
    ASSUME NEW s, NEW t, NEW catalogue, NEW row,
           \A by, days : Prior(t, row, by, days) = Prior(s, row, by, days),
           SinceSamePhash(t, row) = SinceSamePhash(s, row)
    PROVE  FeaturesOf(t, catalogue, row) = FeaturesOf(s, catalogue, row)
<1>1. DuplicateSignal(t, row) = DuplicateSignal(s, row)
  BY DEF DuplicateSignal
<1>2. [w \in Windows |-> Prior(t, row, w[1], w[2])] = [w \in Windows |-> Prior(s, row, w[1], w[2])]
  OBVIOUS
<1>3. {r \in Prior(t, row, "user", 7) : NearThreshold(r)} = {r \in Prior(s, row, "user", 7) : NearThreshold(r)}
  OBVIOUS
<1> QED
  BY <1>1, <1>2, <1>3 DEF FeaturesOf

(* the labels on what was recorded by then *)
LEMMA SameLabels ==
    ASSUME NEW s, NEW t, NEW asOf,
           {l \in Rows(t) : l.confirmed <= asOf} = {l \in Rows(s) : l.confirmed <= asOf}
    PROVE  LabelAsOf(t, asOf) = LabelAsOf(s, asOf)
  BY DEF LabelAsOf

(* and a training set on these and on what was submitted by then. *)
LEMMA SameFrame ==
    ASSUME NEW s, NEW t, NEW catalogue, NEW l, NEW m, NEW asOf,
           {r \in Rows(t) : r.at < asOf} = {r \in Rows(s) : r.at < asOf},
           LabelAsOf(m, asOf) = LabelAsOf(l, asOf),
           \A r \in Rows(s) : r.at < asOf => FeaturesOf(t, catalogue, r) = FeaturesOf(s, catalogue, r)
    PROVE  Assemble(t, catalogue, m, asOf) = Assemble(s, catalogue, l, asOf)
<1> DEFINE eligible == {r \in Rows(s) : r.at < asOf}
           known == LabelAsOf(l, asOf)
           usable == {r \in eligible : r.id \in DOMAIN known}
<1>1. Assemble(s, catalogue, l, asOf)
        = [features |-> [r \in usable |-> FeaturesOf(s, catalogue, r)],
           labels |-> [r \in usable |-> known[r.id]],
           dropped |-> Cardinality(eligible) - Cardinality(usable)]
  BY DEF Assemble
<1>2. Assemble(t, catalogue, m, asOf)
        = [features |-> [r \in usable |-> FeaturesOf(t, catalogue, r)],
           labels |-> [r \in usable |-> known[r.id]],
           dropped |-> Cardinality(eligible) - Cardinality(usable)]
  BY DEF Assemble
<1>3. [r \in usable |-> FeaturesOf(t, catalogue, r)] = [r \in usable |-> FeaturesOf(s, catalogue, r)]
  OBVIOUS
<1> QED
  BY <1>1, <1>2, <1>3

LEMMA InvTraining == IInv => TrainingIsHonest
<1> SUFFICES ASSUME IInv, Done, NEW asOf \in AsOfs
             PROVE  LET train == Assemble(claims, vendors, labels, asOf)
                        submitted == Picked(claims, {i \in DOMAIN claims : claims[i].at < asOf})
                        confirmed == Picked(labels, {i \in DOMAIN labels : labels[i].confirmed <= asOf})
                    IN /\ train = Assemble(submitted, vendors, confirmed, asOf)
                       /\ \A r \in DOMAIN train.labels :
                             \E l \in Rows(confirmed) : l.id = r.id /\ train.labels[r] = l.observed
                       /\ \A later \in {t \in AsOfs : t > asOf} :
                             LET test == Evaluation(claims, vendors, labels, asOf, later)
                             IN DOMAIN test.features \cap DOMAIN train.features = {}
  BY DEF TrainingIsHonest
<1>1. PICK n : \E targets : Settled(n, targets)
  BY SettledFacts DEF Done
<1>2. PICK targets : Settled(n, targets)
  BY <1>1
<1>3. PICK s : s = claims
  OBVIOUS
<1>4. PICK l : l = labels
  OBVIOUS
<1>5. PICK catalogue : catalogue = vendors
  OBVIOUS
<1>6. n \in Nat /\ DOMAIN s = 1..n /\ Instants(s, n) /\ Once(s, n)
  BY <1>2, <1>3, OnceClaims DEF IInv, Settled
<1>7. DOMAIN l = 1..n
  BY <1>2, <1>4, ListedSeq DEF Settled
<1>8. Rows(s) = {s[i] : i \in 1..n} /\ Rows(l) = {l[i] : i \in 1..n}
  BY <1>6, <1>7 DEF Rows
<1>9. asOf \in Nat /\ \A r \in Rows(s) : r.at \in Nat
  BY <1>6, <1>8, WorldConfigAssumption DEF Instants
<1> DEFINE K == {i \in 1..n : s[i].at < asOf}
           L == {i \in 1..n : l[i].confirmed <= asOf}
<1>10. Assemble(Picked(s, K), catalogue, Picked(l, L), asOf) = Assemble(s, catalogue, l, asOf)
  <2>1. K \subseteq 1..n /\ L \subseteq 1..n
        /\ (\A i \in 1..n : i \in K <=> s[i].at < asOf)
        /\ (\A i \in 1..n : i \in L <=> l[i].confirmed <= asOf)
    OBVIOUS
  <2> HIDE DEF K, L
  <2>2. PICK k \in Nat : \E q : Picks(q, k, s, K)
    BY <1>6, <2>1, PickedFacts
  <2>3. PICK j \in Nat : \E q : Picks(q, j, l, L)
    BY <1>6, <2>1, PickedFacts
  <2>4. Rows(Picked(s, K)) = {s[i] : i \in K} /\ Rows(Picked(l, L)) = {l[i] : i \in L}
    BY <2>2, <2>3 DEF Picks
  <2>5. {r \in Rows(Picked(s, K)) : r.at < asOf} = {r \in Rows(s) : r.at < asOf}
    BY <1>8, <2>1, <2>4
  <2>6. {x \in Rows(Picked(l, L)) : x.confirmed <= asOf} = {x \in Rows(l) : x.confirmed <= asOf}
    BY <1>8, <2>1, <2>4
  <2>7. LabelAsOf(Picked(l, L), asOf) = LabelAsOf(l, asOf)
    BY <2>6, SameLabels
  <2>8. ASSUME NEW r \in Rows(s), r.at < asOf
        PROVE  FeaturesOf(Picked(s, K), catalogue, r) = FeaturesOf(s, catalogue, r)
    <3>1. PICK a \in 1..n : r = s[a]
      BY <1>8
    <3>2. \A i \in 1..n : s[i].at <= s[a].at => i \in K
      BY <1>6, <2>1, <2>8, <3>1, <1>9 DEF Instants
    <3>3. \A i \in 1..n : s[i].at < r.at => i \in K
      BY <1>6, <3>1, <3>2 DEF Instants
    <3>6. a \in K /\ Earlier(s, a) \subseteq K
      <4>1. a \in K
        BY <1>6, <3>2 DEF Instants
      <4>2. ASSUME NEW i \in Earlier(s, a) PROVE i \in K
        <5>1. i \in 1..n /\ Before(s, i, a)
          BY <1>6 DEF Earlier
        <5>2. s[i].at <= s[a].at
          BY <1>6, <5>1 DEF Before, Instants
        <5> QED
          BY <3>2, <5>1, <5>2
      <4> QED
        BY <4>1, <4>2
    <3>4. SinceSamePhash(Picked(s, K), r) = SinceSamePhash(s, r)
      BY <1>6, <2>1, <3>1, <3>6, SinceOfPicked
    <3>5. \A by, days : Prior(Picked(s, K), r, by, days) = Prior(s, r, by, days)
      <4>1. Spans(K, s, n, r)
        BY <1>6, <2>1, <3>3 DEF Spans
      <4> QED
        BY <4>1, PriorOfPicked
    <3> QED
      BY <3>4, <3>5, SameFeatures
  <2> QED
    BY <2>5, <2>7, <2>8, SameFrame
<1>11. ASSUME NEW later
       PROVE  DOMAIN Evaluation(s, catalogue, l, asOf, later).features
                \cap DOMAIN Assemble(s, catalogue, l, asOf).features = {}
  <2>1. DOMAIN Assemble(s, catalogue, l, asOf).features \subseteq {r \in Rows(s) : r.at < asOf}
    BY DEF Assemble
  <2>2. DOMAIN Evaluation(s, catalogue, l, asOf, later).features \subseteq {r : r \in {x \in Rows(s) : HeldOut(x, asOf)}}
    <3>1. DOMAIN Assemble(s, catalogue, l, later).features \subseteq Rows(s)
      BY DEF Assemble
    <3>2. DOMAIN Evaluation(s, catalogue, l, asOf, later).features
            = {r \in DOMAIN Assemble(s, catalogue, l, later).features : HeldOut(r, asOf)}
      BY DEF Evaluation
    <3> QED
      BY <3>1, <3>2
  <2>3. \A r \in Rows(s) : HeldOut(r, asOf) => ~(r.at < asOf)
    BY <1>9 DEF HeldOut
  <2> QED
    BY <2>1, <2>2, <2>3
<1>12. ASSUME NEW r \in DOMAIN Assemble(s, catalogue, l, asOf).labels
       PROVE  \E x \in Rows(Picked(l, L)) :
                 x.id = r.id /\ Assemble(s, catalogue, l, asOf).labels[r] = x.observed
  <2>1. PICK confirmed : confirmed = {x \in Rows(l) : x.confirmed <= asOf}
    OBVIOUS
  <2>2. confirmed = Rows(Picked(l, L))
    <3>1. L \subseteq 1..n /\ \A i \in 1..n : i \in L <=> l[i].confirmed <= asOf
      OBVIOUS
    <3> HIDE DEF L
    <3>2. PICK j \in Nat : \E q : Picks(q, j, l, L)
      BY <1>6, <3>1, PickedFacts
    <3>3. Rows(Picked(l, L)) = {l[i] : i \in L}
      BY <3>2 DEF Picks
    <3> QED
      BY <1>8, <2>1, <3>1, <3>3
  <2>3. PICK known : known = LabelAsOf(l, asOf)
    OBVIOUS
  <2>4. known = [id \in {x.id : x \in confirmed} |-> Recorded(confirmed, id)]
    BY <2>1, <2>3 DEF LabelAsOf
  <2>5. r.id \in DOMAIN known /\ Assemble(s, catalogue, l, asOf).labels[r] = known[r.id]
    BY <2>3 DEF Assemble
  <2>6. PICK y \in confirmed : y.id = r.id
    BY <2>4, <2>5
  <2>7. PICK x : x = CHOOSE z \in confirmed : z.id = r.id
    OBVIOUS
  <2>8. x \in confirmed /\ x.id = r.id
    BY <2>6, <2>7
  <2>9. Assemble(s, catalogue, l, asOf).labels[r] = x.observed
    BY <2>4, <2>5, <2>7 DEF Recorded
  <2> QED
    BY <2>2, <2>8, <2>9
<1>13. /\ K = {i \in DOMAIN claims : claims[i].at < asOf}
       /\ L = {i \in DOMAIN labels : labels[i].confirmed <= asOf}
  BY <1>3, <1>4, <1>6, <1>7
<1> HIDE DEF K, L
<1>14. PICK train : train = Assemble(s, catalogue, l, asOf)
  OBVIOUS
<1>15. PICK confirmed : confirmed = Picked(l, L)
  OBVIOUS
<1>16. \A r \in DOMAIN train.labels : \E x \in Rows(confirmed) : x.id = r.id /\ train.labels[r] = x.observed
  BY <1>12, <1>14, <1>15
<1>17. train = Assemble(Picked(s, K), catalogue, confirmed, asOf)
  BY <1>10, <1>14, <1>15
<1>18. \A later : DOMAIN Evaluation(s, catalogue, l, asOf, later).features \cap DOMAIN train.features = {}
  BY <1>11, <1>14
<1>19. PICK submitted : submitted = Picked(s, K)
  OBVIOUS
<1>20. submitted = Picked(claims, {i \in DOMAIN claims : claims[i].at < asOf})
  BY <1>3, <1>13, <1>19
<1>21. confirmed = Picked(labels, {i \in DOMAIN labels : labels[i].confirmed <= asOf})
  BY <1>4, <1>13, <1>15
<1>22. train = Assemble(claims, vendors, labels, asOf)
  BY <1>3, <1>4, <1>5, <1>14
<1>23. train = Assemble(submitted, vendors, confirmed, asOf)
  BY <1>5, <1>17, <1>19
<1>24. \A later : DOMAIN Evaluation(claims, vendors, labels, asOf, later).features \cap DOMAIN train.features = {}
  BY <1>3, <1>4, <1>5, <1>18
<1> QED
  BY <1>16, <1>20, <1>21, <1>22, <1>23, <1>24

(* A training set of any instant is what the claims submitted and the      *)
(* verdicts recorded by then give, each claim counts as a verdict on it    *)
(* says, and none is evaluated on later (assemble, label_as_of,            *)
(* assemble_evaluation).                                                   *)
THEOREM TrainingHonest == Spec => []TrainingIsHonest
  BY InvTraining, Inductive, PTL

----------------------------------------------------------------------------
(* Ids. *)

(* How far the id is from the first one set aside. *)
Offset(o, k) == IF plan[o] = "split" THEN k - 1 ELSE 0

(* Up to as many legs as ids are set aside, every id is one of those set   *)
(* aside for its claim, or the claim's own.                                *)
LEMMA Offsets ==
    ASSUME PlanInv, NEW o \in 1..Len(expenses), NEW k \in 1..Width(o), SaltOf(o, k) <= Stride
    PROVE  /\ Offset(o, k) \in 0..(Stride - 1)
           /\ Start(o) \in Nat
           /\ \/ IdOf(o, k) = FraudId(Start(o) + Offset(o, k)) /\ plan[o] # "none"
              \/ IdOf(o, k) = ClaimId(o) /\ ~(plan[o] = "split" \/ (plan[o] = "duplicate" /\ k = 2))
<1>1. Len(expenses) \in Nat /\ Width(o) \in Nat /\ k \in Nat \ {0} /\ k <= Width(o)
  BY ExpensesFacts, PlannedFacts DEF Listed
<1>2. Start(o) \in Nat
  <2>1. o \in Nat /\ o + 1 \in Nat /\ o < o + 1
    BY <1>1
  <2> QED
    BY <2>1, Starts
<1>20. Stride \in Nat \ {0}
  BY InjectionAssumption
<1>3. CASE plan[o] = "split"
  <2>3. k <= Stride
    BY <1>3 DEF SaltOf
  <2>4. Offset(o, k) = k - 1 /\ Offset(o, k) \in 0..(Stride - 1)
    BY <1>1, <1>20, <1>3, <2>3 DEF Offset
  <2>5. Start(o) + k - 1 = Start(o) + (k - 1)
    BY <1>1, <1>2
  <2>6. IdOf(o, k) = FraudId(Start(o) + Offset(o, k))
    BY <1>3, <2>4, <2>5 DEF IdOf
  <2> QED
    BY <1>2, <1>3, <2>4, <2>6
<1>4. CASE plan[o] # "split"
  <2>1. Offset(o, k) = 0 /\ Start(o) + 0 = Start(o) /\ 0 \in 0..(Stride - 1)
    BY <1>2, <1>20, <1>4 DEF Offset
  <2> QED
    BY <1>2, <1>4, <2>1 DEF IdOf
<1> QED
  BY <1>3, <1>4

(* No id is set aside for two claims. *)
LEMMA Spaced ==
    ASSUME NEW o \in Nat, NEW p \in Nat, plan[o] # "none", plan[p] # "none",
           NEW d \in 0..(Stride - 1), NEW e \in 0..(Stride - 1), Start(o) + d = Start(p) + e
    PROVE  o = p /\ d = e
<1>0. Stride \in Nat \ {0}
  BY InjectionAssumption
<1>1. Start(o) \in Nat /\ Start(p) \in Nat
  <2>1. o + 1 \in Nat /\ o < o + 1 /\ p + 1 \in Nat /\ p < p + 1
    OBVIOUS
  <2> QED
    BY <2>1, Starts
<1>2. ~(o < p)
  <2> SUFFICES ASSUME o < p PROVE FALSE
    OBVIOUS
  <2>1. Start(o) + Stride <= Start(p)
    BY Starts
  <2> QED
    BY <1>0, <1>1, <2>1
<1>3. ~(p < o)
  <2> SUFFICES ASSUME p < o PROVE FALSE
    OBVIOUS
  <2>1. Start(p) + Stride <= Start(o)
    BY Starts
  <2> QED
    BY <1>0, <1>1, <2>1
<1>4. o = p
  BY <1>2, <1>3
<1>5. d = e
  BY <1>1, <1>4
<1> QED
  BY <1>4, <1>5

(* Up to as many legs as ids are set aside, no two of what the claims      *)
(* become have one id.                                                     *)
LEMMA IdsDiffer ==
    ASSUME PlanInv, NEW o \in 1..Len(expenses), NEW p \in 1..Len(expenses),
           NEW k \in 1..Width(o), NEW l \in 1..Width(p), IdOf(o, k) = IdOf(p, l),
           SaltOf(o, k) <= Stride, SaltOf(p, l) <= Stride
    PROVE  o = p /\ k = l
<1>1. SaltOf(o, k) = SaltOf(p, l)
  <2>1. o \in Nat /\ p \in Nat
    BY ExpensesFacts DEF Listed
  <2>2. /\ Offset(o, k) \in 0..(Stride - 1) /\ Start(o) \in Nat
        /\ \/ IdOf(o, k) = FraudId(Start(o) + Offset(o, k)) /\ plan[o] # "none"
           \/ IdOf(o, k) = ClaimId(o) /\ ~(plan[o] = "split" \/ (plan[o] = "duplicate" /\ k = 2))
    BY Offsets
  <2>3. /\ Offset(p, l) \in 0..(Stride - 1) /\ Start(p) \in Nat
        /\ \/ IdOf(p, l) = FraudId(Start(p) + Offset(p, l)) /\ plan[p] # "none"
           \/ IdOf(p, l) = ClaimId(p) /\ ~(plan[p] = "split" \/ (plan[p] = "duplicate" /\ l = 2))
    BY Offsets
  <2>4. (\A x, y : FraudId(x) = FraudId(y) => x = y) /\ (\A x, y : FraudId(x) # ClaimId(y))
    BY DEF FraudId, ClaimId
  <2>5. CASE IdOf(o, k) = FraudId(Start(o) + Offset(o, k)) /\ plan[o] # "none"
    <3>1. Start(o) + Offset(o, k) = Start(p) + Offset(p, l) /\ plan[p] # "none"
      BY <2>3, <2>4, <2>5
    <3>2. o = p /\ Offset(o, k) = Offset(p, l)
      BY <2>1, <2>2, <2>3, <2>5, <3>1, Spaced
    <3>3. Width(o) \in Nat
      BY PlannedFacts
    <3> QED
      BY <3>2, <3>3 DEF Offset, SaltOf
  <2>6. CASE IdOf(o, k) = ClaimId(o) /\ ~(plan[o] = "split" \/ (plan[o] = "duplicate" /\ k = 2))
    <3>1. ~(plan[p] = "split")
      BY <2>3, <2>4, <2>6
    <3> QED
      BY <2>6, <3>1 DEF SaltOf
  <2> QED
    BY <2>2, <2>5, <2>6
<1> QED
  BY <1>1, TagsDiffer

(* Two claims that leave have one id only where one of them is a leg       *)
(* beyond the ids set aside.                                               *)
LEMMA KeptOnce ==
    ASSUME InjectionInv, NEW i \in 1..Len(kept), NEW j \in 1..Len(kept), kept[i].id = kept[j].id
    PROVE  i = j \/ kept[i].phash[4] > Stride \/ kept[j].phash[4] > Stride
<1>1. PICK o \in 1..index : \E k \in 1..Width(o) :
         o \in 1..Len(expenses) /\ Placed(o, i - k) /\ Becomes(o, k, kept[i], labels[i])
  BY Traced
<1>2. PICK k \in 1..Width(o) : Becomes(o, k, kept[i], labels[i])
  BY <1>1
<1>3. PICK p \in 1..index : \E l \in 1..Width(p) :
         p \in 1..Len(expenses) /\ Placed(p, j - l) /\ Becomes(p, l, kept[j], labels[j])
  BY Traced
<1>4. PICK l \in 1..Width(p) : Becomes(p, l, kept[j], labels[j])
  BY <1>3
<1>5. IdOf(o, k) = IdOf(p, l) /\ kept[i].phash[4] = SaltOf(o, k) /\ kept[j].phash[4] = SaltOf(p, l)
  BY <1>2, <1>4 DEF Becomes
<1>6. SaltOf(o, k) \in Nat /\ SaltOf(p, l) \in Nat /\ Stride \in Nat
  <2>1. Width(o) \in Nat /\ Width(p) \in Nat
    BY <1>1, <1>3, PlannedFacts DEF InjectionInv
  <2> QED
    BY <2>1, InjectionAssumption DEF SaltOf
<1>7. CASE SaltOf(o, k) <= Stride /\ SaltOf(p, l) <= Stride
  <2>1. o = p /\ k = l
    BY <1>1, <1>3, <1>5, <1>7, IdsDiffer DEF InjectionInv
  <2>2. kept[i].phash[4] = kept[j].phash[4]
    BY <1>5, <2>1
  <2> QED
    BY <2>2 DEF InjectionInv, RowsInv
<1> QED
  BY <1>5, <1>6, <1>7

(* No two claims that leave have the id of one honest claim. *)
LEMMA OwnOnce ==
    ASSUME InjectionInv, NEW o, NEW i \in 1..Len(kept), NEW j \in 1..Len(kept),
           kept[i].id = ClaimId(o), kept[j].id = ClaimId(o)
    PROVE  i = j
<1>1. ASSUME NEW x \in 1..Len(kept), kept[x].id = ClaimId(o) PROVE kept[x].phash[4] = 0
  <2>1. PICK p \in 1..index : \E k \in 1..Width(p) :
           p \in 1..Len(expenses) /\ Placed(p, x - k) /\ Becomes(p, k, kept[x], labels[x])
    BY Traced
  <2>2. PICK k \in 1..Width(p) : Becomes(p, k, kept[x], labels[x])
    BY <2>1
  <2>3. IdOf(p, k) = ClaimId(o) /\ kept[x].phash[4] = SaltOf(p, k)
    BY <1>1, <2>2 DEF Becomes
  <2>4. plan[p] # "split"
    BY <2>3 DEF IdOf, FraudId, ClaimId
  <2> QED
    BY <2>3, <2>4 DEF SaltOf
<1>2. kept[i].phash[4] = kept[j].phash[4] /\ kept[i].id = kept[j].id
  BY <1>1
<1> QED
  BY <1>2 DEF InjectionInv, RowsInv

(* A label is of the claim beside it. *)
LEMMA ClaimBeside ==
    ASSUME InjectionInv, NEW n, NEW targets, Settled(n, targets), NEW j \in 1..n
    PROVE  labels[j].id = kept[j].id /\ claims[j].id = kept[j].id /\ claims[j].phash = kept[j].phash
<1>1. labels[j].id = kept[j].id
  BY Traced DEF Settled, Becomes, Verdict
<1> QED
  BY <1>1 DEF Settled, Carried, Fields

(* Vendors. *)
LEMMA GhostIds ==
    /\ \A x : GhostId(x)[1] = "ghost"
    /\ \A x, y : GhostId(x) = GhostId(y) => x = y
  BY DEF GhostId

(* Every ghost vendor is of a target. *)
LEMMA GhostRows ==
    ASSUME InjectionInv, NEW v \in Rows(ghosts)
    PROVE  \E o \in 1..index : o \in 1..Len(expenses) /\ plan[o] = "ghost_vendor" /\ v = Ghost(o)
<1>1. PICK o \in {i \in 1..index : plan[i] = "ghost_vendor"} : v = Ghost(o)
  BY DEF InjectionInv, GhostsInv
<1>2. o \in 1..Len(expenses)
  <2>1. index \in 0..Len(expenses) /\ Len(expenses) \in Nat
    BY ExpensesFacts DEF InjectionInv, PlanInv, Listed
  <2> QED
    BY <2>1
<1> QED
  BY <1>1, <1>2

(* No two ghost vendors have one id. *)
LEMMA GhostsOnce ==
    ASSUME InjectionInv, NEW v \in Rows(ghosts), NEW w \in Rows(ghosts), v.id = w.id
    PROVE  v = w
<1>1. PICK o \in 1..index : o \in 1..Len(expenses) /\ plan[o] = "ghost_vendor" /\ v = Ghost(o)
  BY GhostRows
<1>2. PICK p \in 1..index : p \in 1..Len(expenses) /\ plan[p] = "ghost_vendor" /\ w = Ghost(p)
  BY GhostRows
<1>3. Start(o) = Start(p)
  BY <1>1, <1>2, GhostIds DEF Ghost
<1>4. o \in Nat /\ p \in Nat /\ Start(o) \in Nat
  <2>1. o \in Nat /\ p \in Nat
    BY <1>1, <1>2
  <2>2. o + 1 \in Nat /\ o < o + 1
    BY <2>1
  <2> QED
    BY <2>1, <2>2, Starts
<1>5. o = p
  <2>1. 0 \in 0..(Stride - 1) /\ Start(o) + 0 = Start(p) + 0
    BY <1>3, InjectionAssumption
  <2>2. plan[o] # "none" /\ plan[p] # "none"
    BY <1>1, <1>2
  <2> QED
    BY <1>4, <2>1, <2>2, Spaced
<1> QED
  BY <1>1, <1>2, <1>5

(* A ghost vendor is not of the catalogue. *)
LEMMA GhostsApart ==
    ASSUME InjectionInv, NEW v \in Vendors, NEW w \in Rows(ghosts)
    PROVE  v.id # w.id
<1>1. PICK o : w = Ghost(o)
  BY GhostRows
<1>2. w.id = GhostId(Start(o))
  BY <1>1 DEF Ghost
<1> QED
  BY <1>2, GhostIds, VendorsAssumption

LEMMA InvLabelled == IInv => LabelledInPlace
<1> SUFFICES ASSUME IInv, Done PROVE LabelledInPlace
  BY DEF LabelledInPlace
<1>1. PICK n : \E targets : Settled(n, targets)
  BY SettledFacts DEF Done
<1>2. PICK targets : Settled(n, targets)
  BY <1>1
<1>3. DOMAIN claims = 1..n /\ DOMAIN labels = 1..n /\ n = Len(kept)
  BY <1>2, ListedSeq DEF Settled
<1>5. \A j \in 1..n :
         labels[j].id = kept[j].id /\ claims[j].id = kept[j].id /\ claims[j].phash = kept[j].phash
  BY <1>2, ClaimBeside DEF IInv
<1>6. \A i, j \in 1..n :
         claims[i].id = claims[j].id =>
             i = j \/ claims[i].phash[4] > Stride \/ claims[j].phash[4] > Stride
  <2> SUFFICES ASSUME NEW i \in 1..n, NEW j \in 1..n, claims[i].id = claims[j].id
               PROVE  i = j \/ claims[i].phash[4] > Stride \/ claims[j].phash[4] > Stride
    OBVIOUS
  <2>1. kept[i].id = kept[j].id
    BY <1>5
  <2>2. i = j \/ kept[i].phash[4] > Stride \/ kept[j].phash[4] > Stride
    BY <1>3, <2>1, KeptOnce DEF IInv
  <2> QED
    BY <1>5, <2>2
<1>7. \A v, w \in vendors : v.id = w.id => v = w
  <2>1. vendors = Vendors \cup Rows(ghosts)
    BY DEF IInv, StageInv, Done
  <2>2. \A v, w \in Vendors : v.id = w.id => v = w
    BY SpendAssumption
  <2>3. \A v, w \in Rows(ghosts) : v.id = w.id => v = w
    BY GhostsOnce DEF IInv
  <2>4. \A v \in Vendors : \A w \in Rows(ghosts) : v.id # w.id
    BY GhostsApart DEF IInv
  <2> QED
    BY <2>1, <2>2, <2>3, <2>4
<1>9. ASSUME NEW j \in 1..n
      PROVE  /\ labels[j].observed => labels[j].fraud
             /\ ~labels[j].fraud => [claims[j] EXCEPT !.payload = FALSE] \in Rows(expenses)
  <2>1. PICK o \in 1..index : \E k \in 1..Width(o) :
           o \in 1..Len(expenses) /\ Becomes(o, k, kept[j], labels[j])
    BY <1>3, Traced DEF IInv
  <2>2. PICK k \in 1..Width(o) : o \in 1..Len(expenses) /\ Becomes(o, k, kept[j], labels[j])
    BY <2>1
  <2>3. labels[j].observed => labels[j].fraud
    BY <2>2 DEF Becomes, Verdict
  <2>4. ASSUME ~labels[j].fraud PROVE [claims[j] EXCEPT !.payload = FALSE] \in Rows(expenses)
    <3>1. Untouched(o, k)
      BY <2>2, <2>4 DEF Becomes, Verdict
    <3>2. kept[j] = expenses[o]
      BY <2>2, <3>1 DEF Becomes
    <3>3. IsClaim(kept[j]) /\ kept[j].payload = FALSE
      BY <2>2 DEF Becomes, FromClaim
    <3>4. IsClaim(claims[j]) /\ \A f \in Fields \ {"payload"} : claims[j][f] = kept[j][f]
      BY <1>2 DEF Settled, Carried
    <3>5. PICK c : c = claims[j]
      OBVIOUS
    <3>6. PICK e : e = kept[j]
      OBVIOUS
    <3>7. c = [f \in Fields |-> c[f]] /\ e = [f \in Fields |-> e[f]] /\ e.payload = FALSE
          /\ \A f \in Fields \ {"payload"} : c[f] = e[f]
      BY <3>3, <3>4, <3>5, <3>6 DEF IsClaim
    <3>8. [c EXCEPT !.payload = FALSE] = [f \in Fields |-> IF f = "payload" THEN FALSE ELSE c[f]]
      BY <3>7 DEF Fields
    <3>9. [c EXCEPT !.payload = FALSE] = e
      BY <3>7, <3>8
    <3>10. expenses[o] \in Rows(expenses)
      <4>1. Rows(expenses) = {expenses[i] : i \in 1..Len(expenses)}
        BY ExpensesFacts, ListedSeq DEF IInv, InjectionInv
      <4> QED
        BY <2>2, <4>1
    <3> QED
      BY <3>2, <3>5, <3>6, <3>9, <3>10
  <2> QED
    BY <2>3, <2>4
<1> QED
  BY <1>3, <1>5, <1>6, <1>7, <1>9 DEF LabelledInPlace, ManyToOne

(* Whatever is drawn, every claim that leaves has its own label beside it, *)
(* what is labelled honest is as it was generated, and two claims have one *)
(* id only where one of them is a leg beyond the ids set aside for its     *)
(* claim (inject_fraud, _split).                                           *)
THEOREM LabelsBeside == Spec => []LabelledInPlace
  BY InvLabelled, Inductive, PTL

----------------------------------------------------------------------------
(* The legs of a split. *)

(* A function over the first numbers is a listing. *)
LEMMA ListedBy ==
    ASSUME NEW n \in Nat, NEW s, s = [i \in 1..n |-> s[i]]
    PROVE  Listed(s, n)
<1>1. s \in [1..n -> Rows(s)]
  BY DEF Rows
<1>2. s \in Seq(Rows(s)) /\ DOMAIN s = 1..n
  BY <1>1
<1>3. Len(s) = n
  BY <1>2
<1> QED
  BY <1>3 DEF Listed

(* The legs of the o-th claim, after the b-th of the claims that leave. *)
LegsAt(o, b, w, legs) ==
    /\ b \in Nat /\ w = NLegs(expenses[o].amount) /\ w \in Nat /\ w >= 2
    /\ Listed(legs, w)
    /\ \A k \in 1..w : b + k \in 1..Len(kept) /\ legs[k] = claims[b + k]
    /\ Rows(legs) = {claims[b + k] : k \in 1..w}

(* What is claimed of them. *)
Splitting(o, b, w) ==
    \E weights : Fractions(weights, w) /\ \A k \in 1..w :
        kept[b + k].amount = LegAmounts(expenses[o].amount, weights)[k]

(* A split claim has its legs among the claims that leave. *)
LEMMA SplitPlaced ==
    ASSUME InjectionInv, index = Len(expenses), NEW o \in SplitClaims
    PROVE  \E b \in 0..Len(kept) : Placed(o, b) /\ o \in 1..Len(expenses) /\ plan[o] = "split"
<1>1. DOMAIN plan = 1..Len(expenses)
  BY DEF InjectionInv, PlanInv
<1>2. o \in 1..Len(expenses) /\ plan[o] = "split"
  BY <1>1 DEF SplitClaims
<1> QED
  BY <1>2 DEF InjectionInv, RowsInv

(* The legs found by their ids and receipts are the ones placed. *)
LEMMA LegsFound ==
    ASSUME InjectionInv, NEW n, NEW targets, Settled(n, targets),
           NEW o \in SplitClaims, NEW b \in 0..Len(kept), Placed(o, b)
    PROVE  /\ LegsAt(o, b, NLegs(expenses[o].amount), LegsOf(o))
           /\ LegRows(o) = {b + k : k \in 1..NLegs(expenses[o].amount)}
<1>1. o \in 1..Len(expenses) /\ plan[o] = "split" /\ index = Len(expenses) /\ n = Len(kept) /\ n \in Nat
  BY SplitPlaced DEF Settled
<1>2. PICK w \in Nat : w = Width(o) /\ w = NLegs(expenses[o].amount) /\ w >= 2
  <2>1. Width(o) = NLegs(expenses[o].amount)
    BY <1>1 DEF Width
  <2>2. expenses[o].amount \in Nat
    BY <1>1, PlannedFacts DEF InjectionInv
  <2> QED
    BY <2>1, <2>2, LegsFacts
<1>3. ASSUME NEW k \in 1..w
      PROVE  b + k \in 1..n /\ kept[b + k].id = FraudId(Start(o) + k - 1) /\ kept[b + k].phash[4] = k
  <2>1. b + k \in 1..Len(kept) /\ Becomes(o, k, kept[b + k], labels[b + k])
    BY <1>1, <1>2, PlacedFacts DEF InjectionInv
  <2> QED
    BY <1>1, <2>1 DEF Becomes, IdOf, SaltOf
<1>4. PICK s : s = claims
  OBVIOUS
<1>5. DOMAIN s = 1..n /\ \A j \in 1..n : s[j].id = kept[j].id /\ s[j].phash = kept[j].phash
  BY <1>4, ListedSeq DEF Settled, Carried, Fields
<1>6. PICK K : K = {j \in 1..n : \E k \in 1..w :
                       s[j].id = FraudId(Start(o) + k - 1) /\ s[j].phash[4] = k}
  OBVIOUS
<1>7. \A k \in 1..w : b + k \in K
  <2> SUFFICES ASSUME NEW k \in 1..w PROVE b + k \in K
    OBVIOUS
  <2>1. PICK j : j = b + k
    OBVIOUS
  <2>2. j \in 1..n /\ kept[j].id = FraudId(Start(o) + k - 1) /\ kept[j].phash[4] = k
    BY <1>3, <2>1
  <2>3. s[j].id = FraudId(Start(o) + k - 1) /\ s[j].phash[4] = k
    BY <1>5, <2>2
  <2>4. j \in K
    BY <1>6, <2>2, <2>3
  <2> QED
    BY <2>1, <2>4
<1>8. ASSUME NEW j \in K PROVE \E k \in 1..w : b + k = j
  <2>1. PICK k \in 1..w : kept[j].id = FraudId(Start(o) + k - 1) /\ kept[j].phash[4] = k
    BY <1>5, <1>6
  <2>2. j \in 1..n
    BY <1>6
  <2>3. b + k \in 1..n /\ kept[b + k].id = kept[j].id /\ kept[b + k].phash[4] = kept[j].phash[4]
    BY <1>3, <2>1
  <2>4. b + k = j
    BY <1>1, <2>2, <2>3 DEF InjectionInv, RowsInv
  <2> QED
    BY <2>4
<1>9. b \in Nat
  BY <1>1
<1>10. PICK q : q = [k \in 1..w |-> b + k]
  OBVIOUS
<1>11. Lists(q, w, K) /\ K \subseteq Int
  <2>1. q \in [1..w -> K]
    BY <1>7, <1>10
  <2>2. \A i, j \in 1..w : i < j => q[i] < q[j]
    BY <1>9, <1>10
  <2>3. \A x \in K : \E k \in 1..w : q[k] = x
    BY <1>8, <1>10
  <2>4. K \subseteq Int
    BY <1>6
  <2> QED
    BY <2>1, <2>2, <2>3, <2>4 DEF Lists
<1>12. PICK legs : legs = Picked(s, K)
  OBVIOUS
<1>13. legs = [k \in 1..w |-> s[b + k]]
  <2>1. legs = Along(s, q, w)
    BY <1>11, <1>12, PicksListed
  <2> QED
    BY <1>10, <2>1 DEF Along
<1>18. LegRows(o) = K
  BY <1>2, <1>4, <1>5, <1>6 DEF LegRows, Start
<1>14. LegsOf(o) = legs
  BY <1>4, <1>12, <1>18 DEF LegsOf
<1>15. Listed(legs, w)
  <2>1. legs = [k \in 1..w |-> legs[k]]
    BY <1>13
  <2> QED
    BY <2>1, ListedBy
<1>16. \A k \in 1..w : legs[k] = s[b + k]
  BY <1>13
<1>17. Rows(legs) = {s[b + k] : k \in 1..w}
  BY <1>13 DEF Rows
<1>19. K = {b + k : k \in 1..w}
  <2>1. \A x : x \in K <=> \E k \in 1..w : x = b + k
    BY <1>7, <1>8
  <2> QED
    BY <2>1
<1>20. LegsAt(o, b, w, legs)
  BY <1>1, <1>2, <1>3, <1>4, <1>9, <1>15, <1>16, <1>17 DEF LegsAt
<1> QED
  BY <1>2, <1>14, <1>18, <1>19, <1>20

(* They are what _split made of the claim. *)
LEMMA LegsSplit ==
    ASSUME PlanInv, NEW o \in 1..Len(expenses), plan[o] = "split", NEW b, Placed(o, b),
           NEW w, w = NLegs(expenses[o].amount)
    PROVE  Splitting(o, b, w) /\ \A k \in 1..w : kept[b + k].amount < Ceiling
<1>1. HonestClaim(expenses[o], o)
  BY ExpensesFacts
<1>2. Legs(b, w) \in Splits(expenses[o], Start(o))
  BY DEF Placed, Width
<1>3. PICK l : l = Legs(b, w)
  OBVIOUS
<1>4. /\ \E weights \in [1..w -> Weights] :
            \A k \in 1..w : l[k].amount = LegAmounts(expenses[o].amount, weights)[k]
      /\ \A k \in 1..w : l[k].amount < Ceiling
  BY <1>1, <1>2, <1>3, SplitFacts
<1>5. \A k \in 1..w : l[k] = kept[b + k]
  BY <1>3 DEF Legs
<1>6. PICK weights \in [1..w -> Weights] :
         \A k \in 1..w : l[k].amount = LegAmounts(expenses[o].amount, weights)[k]
  BY <1>4
<1>7. Fractions(weights, w)
  BY Weighted
<1> QED
  BY <1>4, <1>5, <1>6, <1>7 DEF Splitting

LEMMA InvLegs == IInv => LegsUnderLimit
<1> SUFFICES ASSUME IInv, Done, NEW o \in SplitClaims
             PROVE  LET legs == LegsOf(o)
                    IN /\ Len(legs) >= 2 /\ expenses[o].amount > Ceiling
                       /\ \A k \in DOMAIN legs : legs[k].amount < Ceiling
                       /\ \/ Claimed(legs) = expenses[o].amount
                          \/ /\ Claimed(legs) < expenses[o].amount
                             /\ legs[Len(legs)].amount = Ceiling - 1
                       /\ \A j \in LegRows(o) : labels[j].linked = {c.id : c \in Rows(legs)}
  BY DEF LegsUnderLimit
<1>1. PICK n : \E targets : Settled(n, targets)
  BY SettledFacts DEF Done
<1>2. PICK targets : Settled(n, targets)
  BY <1>1
<1>3. index = Len(expenses) /\ n = Len(kept) /\ n \in Nat
  BY <1>2 DEF Settled
<1>4. PICK b \in 0..Len(kept) : Placed(o, b) /\ o \in 1..Len(expenses) /\ plan[o] = "split"
  BY <1>3, SplitPlaced DEF IInv
<1>5. PICK legs : legs = LegsOf(o)
  OBVIOUS
<1>6. PICK w : w = NLegs(expenses[o].amount)
  OBVIOUS
<1>7. LegsAt(o, b, w, legs) /\ LegRows(o) = {b + k : k \in 1..w}
  BY <1>2, <1>4, <1>5, <1>6, LegsFound DEF IInv
<1>8. w \in Nat /\ w >= 2 /\ Listed(legs, w)
  BY <1>7 DEF LegsAt
<1>9. Len(legs) = w /\ DOMAIN legs = 1..w
  BY <1>8, ListedSeq DEF Listed
<1>10. PICK a \in Nat : a = expenses[o].amount /\ a > Ceiling
  BY <1>4, PlannedFacts DEF IInv, InjectionInv
<1>11. Splitting(o, b, w) /\ \A k \in 1..w : kept[b + k].amount < Ceiling
  BY <1>4, <1>6, LegsSplit DEF IInv, InjectionInv
<1>12. \A k \in 1..w : b + k \in 1..n /\ legs[k] = claims[b + k]
  BY <1>3, <1>7 DEF LegsAt
<1>13. \A k \in 1..w : legs[k].amount = kept[b + k].amount /\ legs[k].id = kept[b + k].id
  <2> TAKE k \in 1..w
  <2>1. Carried(claims[b + k], kept[b + k], b + k \in targets)
    BY <1>2, <1>12 DEF Settled
  <2> QED
    BY <1>12, <2>1 DEF Carried, Fields
<1>14. \A k \in 1..w : legs[k].amount < Ceiling
  BY <1>11, <1>13
<1>15. \/ Claimed(legs) = a
       \/ Claimed(legs) < a /\ legs[Len(legs)].amount = Ceiling - 1
  <2>1. PICK weights : Fractions(weights, w) /\ \A k \in 1..w : kept[b + k].amount = LegAmounts(a, weights)[k]
    BY <1>10, <1>11 DEF Splitting
  <2>2. PICK shares : shares = LegAmounts(a, weights)
    OBVIOUS
  <2>3. Numbers(shares, w)
    BY <1>8, <2>1, <2>2, LegAmountsFacts
  <2>4. [k \in 1..w |-> legs[k].amount] = shares
    <3>1. \A k \in 1..w : legs[k].amount = shares[k]
      BY <1>13, <2>1, <2>2
    <3>2. shares = [k \in 1..w |-> shares[k]]
      BY <2>3 DEF Numbers
    <3> QED
      BY <3>1, <3>2
  <2>5. a >= 2 * (w - 1) + 1
    BY <1>6, <1>10, Affords
  <2>6. Sum(shares) = a \/ (Sum(shares) < a /\ shares[w] = Ceiling - 1)
    BY <1>8, <2>1, <2>2, <2>5, LegsSum
  <2>7. Claimed(legs) = Sum(shares)
    BY <1>9, <2>4 DEF Claimed
  <2>8. w \in 1..w
    BY <1>8
  <2>9. shares[w] = legs[Len(legs)].amount
    BY <1>9, <1>13, <2>1, <2>2, <2>8
  <2> QED
    BY <2>6, <2>7, <2>9
<1>16. Rows(legs) = {legs[k] : k \in 1..w}
  BY <1>8, ListedSeq
<1>17. {c.id : c \in Rows(legs)} = LinkedTo(o)
  <2>1. \A k \in 1..w : kept[b + k].id = FraudId(Start(o) + k - 1)
    <3> TAKE k \in 1..w
    <3>1. Width(o) = w
      BY <1>4, <1>6 DEF Width
    <3>2. Becomes(o, k, kept[b + k], labels[b + k])
      BY <1>3, <1>4, <3>1, PlacedFacts DEF IInv, InjectionInv
    <3> QED
      BY <1>4, <3>2 DEF Becomes, IdOf
  <2>2. LinkedTo(o) = {FraudId(Start(o) + k - 1) : k \in 1..w}
    BY <1>4, <1>6 DEF LinkedTo, Width
  <2>3. {c.id : c \in Rows(legs)} = {legs[k].id : k \in 1..w}
    BY <1>16
  <2>4. {legs[k].id : k \in 1..w} = {FraudId(Start(o) + k - 1) : k \in 1..w}
    BY <1>13, <2>1
  <2> QED
    BY <2>2, <2>3, <2>4
<1>18. ASSUME NEW j \in LegRows(o) PROVE labels[j].linked = LinkedTo(o)
  <2>1. PICK k \in 1..w : j = b + k
    BY <1>7
  <2>5. Width(o) = w
    BY <1>4, <1>6 DEF Width
  <2>6. Becomes(o, k, kept[b + k], labels[b + k])
    BY <1>3, <1>4, <2>5, PlacedFacts DEF IInv, InjectionInv
  <2>7. ~Untouched(o, k)
    BY <1>4 DEF Untouched
  <2> QED
    BY <2>1, <2>6, <2>7 DEF Becomes, Verdict
<1> QED
  BY <1>5, <1>8, <1>9, <1>10, <1>14, <1>15, <1>17, <1>18

(* Whatever is drawn, the legs found by their ids and receipts are two at  *)
(* least, all linked and each below the limit the claim was above, and     *)
(* they claim what the claim did or, when the last is as large as a leg    *)
(* may be, less, never more (_split, _labelled).                           *)
THEOREM LegsStayUnder == Spec => []LegsUnderLimit
  BY InvLegs, Inductive, PTL

----------------------------------------------------------------------------
(* What duplicates and ghost vendors leave. *)

(* A duplicate comes from a claim that was kept. *)
LEMMA DuplicateBeside ==
    ASSUME InjectionInv, NEW j \in 1..Len(kept), labels[j].typology = "duplicate"
    PROVE  \E o \in 1..Len(expenses) : \E i \in 1..Len(kept) :
              /\ kept[i] = expenses[o] /\ labels[j].linked = {expenses[o].id}
              /\ <<kept[j]>> \in Duplicates(expenses[o], Start(o))
<1>1. PICK o \in 1..index : \E k \in 1..Width(o) :
         o \in 1..Len(expenses) /\ Placed(o, j - k) /\ Becomes(o, k, kept[j], labels[j])
  BY Traced
<1>2. PICK k \in 1..Width(o) : Placed(o, j - k) /\ Becomes(o, k, kept[j], labels[j])
  BY <1>1
<1>3. o \in 1..Len(expenses)
  BY <1>1
<1>4. ~Untouched(o, k)
  BY <1>2 DEF Becomes, Verdict
<1>5. plan[o] = "duplicate" /\ labels[j].linked = LinkedTo(o)
  BY <1>2, <1>4 DEF Becomes, Verdict
<1>6. k = 2
  BY <1>4, <1>5 DEF Untouched, Width
<1>7. PICK b \in Nat : b = j - k /\ Placed(o, b) /\ b + 2 <= Len(kept)
  BY <1>2, <1>5 DEF Placed, Width
<1>8. Len(kept) \in Nat
  BY DEF InjectionInv, RowsInv, Listed
<1>9. b + 2 = j /\ b + 1 \in 1..Len(kept)
  BY <1>6, <1>7, <1>8
<1>10. Honest(o, b + 1) /\ <<kept[b + 2]>> \in Duplicates(expenses[o], Start(o))
  BY <1>5, <1>7 DEF Placed
<1> QED
  BY <1>3, <1>5, <1>9, <1>10 DEF Honest, LinkedTo

(* A ghost vendor's claim comes from an invoice. *)
LEMMA GhostBeside ==
    ASSUME InjectionInv, NEW j \in 1..Len(kept), labels[j].typology = "ghost_vendor"
    PROVE  \E o \in 1..index :
              /\ o \in 1..Len(expenses) /\ plan[o] = "ghost_vendor"
              /\ <<kept[j]>> \in Invoices(expenses[o], GhostId(Start(o)))
<1>1. PICK o \in 1..index : \E k \in 1..Width(o) :
         o \in 1..Len(expenses) /\ Placed(o, j - k) /\ Becomes(o, k, kept[j], labels[j])
  BY Traced
<1>2. PICK k \in 1..Width(o) : Placed(o, j - k) /\ Becomes(o, k, kept[j], labels[j])
  BY <1>1
<1>3. ~Untouched(o, k)
  BY <1>2 DEF Becomes, Verdict
<1>4. plan[o] = "ghost_vendor"
  BY <1>2, <1>3 DEF Becomes, Verdict
<1>5. k = 1
  BY <1>4 DEF Width
<1>6. PICK b \in Nat : b = j - k /\ Placed(o, b)
  BY <1>2 DEF Placed
<1>7. Len(kept) \in Nat
  BY DEF InjectionInv, RowsInv, Listed
<1>8. b + 1 = j
  BY <1>5, <1>6, <1>7
<1>9. <<kept[b + 1]>> \in Invoices(expenses[o], GhostId(Start(o)))
  BY <1>4, <1>6 DEF Placed
<1> QED
  BY <1>1, <1>4, <1>8, <1>9

(* A claim is of a ghost vendor only if its own honest one was. *)
LEMMA VendorFrom ==
    ASSUME InjectionInv, NEW i \in 1..Len(kept)
    PROVE  \E o \in 1..Len(expenses) : \E k \in 1..Width(o) :
              /\ Becomes(o, k, kept[i], labels[i])
              /\ kept[i].vendor = IF plan[o] = "ghost_vendor" THEN GhostId(Start(o)) ELSE expenses[o].vendor
<1>1. PICK o \in 1..index : \E k \in 1..Width(o) :
         o \in 1..Len(expenses) /\ Placed(o, i - k) /\ Becomes(o, k, kept[i], labels[i])
  BY Traced
<1>2. PICK k \in 1..Width(o) : Placed(o, i - k) /\ Becomes(o, k, kept[i], labels[i])
  BY <1>1
<1>3. o \in 1..Len(expenses)
  BY <1>1
<1>4. Len(kept) \in Nat /\ Width(o) \in Nat \ {0}
  BY <1>3, PlannedFacts DEF InjectionInv, RowsInv, Listed
<1>5. PICK b \in Nat : b = i - k /\ Placed(o, b)
  BY <1>2 DEF Placed
<1>6. b + k = i
  BY <1>4, <1>5
<1>7. HonestClaim(expenses[o], o)
  BY <1>3, ExpensesFacts DEF InjectionInv
<1>8. kept[i].vendor = IF plan[o] = "ghost_vendor" THEN GhostId(Start(o)) ELSE expenses[o].vendor
  <2>1. CASE Untouched(o, k)
    <3>1. kept[i] = expenses[o] /\ plan[o] # "ghost_vendor"
      BY <1>2, <2>1 DEF Becomes, Untouched
    <3> QED
      BY <3>1
  <2>2. CASE ~Untouched(o, k) /\ plan[o] = "duplicate"
    <3>1. k = 2
      BY <2>2 DEF Untouched, Width
    <3>2. <<kept[b + 2]>> \in Duplicates(expenses[o], Start(o))
      BY <1>5, <2>2 DEF Placed
    <3>3. kept[i].vendor = expenses[o].vendor
      BY <1>6, <1>7, <3>1, <3>2, DuplicateFacts
    <3> QED
      BY <2>2, <3>3
  <2>3. CASE plan[o] = "split"
    <3>1. PICK w : w = NLegs(expenses[o].amount) /\ w = Width(o)
      BY <2>3 DEF Width
    <3>2. Legs(b, w) \in Splits(expenses[o], Start(o))
      BY <1>5, <2>3, <3>1 DEF Placed
    <3>3. PICK l : l = Legs(b, w)
      OBVIOUS
    <3>4. \A m \in 1..w : l[m].vendor = expenses[o].vendor
      <4>1. PICK c : c = expenses[o]
        OBVIOUS
      <4>2. HonestClaim(c, o) /\ l \in Splits(c, Start(o)) /\ w = NLegs(c.amount)
        BY <1>7, <3>1, <3>2, <3>3, <4>1
      <4>3. \A m \in 1..NLegs(c.amount) :
               /\ FromClaim(l[m], c)
               /\ l[m].id = FraudId(Start(o) + m - 1) /\ l[m].phash[4] = m
               /\ l[m].vendor = c.vendor /\ l[m].amount < Ceiling
        BY <4>2, SplitFacts
      <4> QED
        BY <4>1, <4>2, <4>3
    <3>5. l[k] = kept[b + k]
      BY <3>1, <3>3 DEF Legs
    <3>6. kept[i].vendor = expenses[o].vendor
      BY <1>6, <3>1, <3>4, <3>5
    <3> QED
      BY <2>3, <3>6
  <2>4. CASE plan[o] = "ghost_vendor"
    <3>1. k = 1 /\ <<kept[b + 1]>> \in Invoices(expenses[o], GhostId(Start(o)))
      BY <1>5, <2>4 DEF Placed, Width
    <3>2. kept[i].vendor = GhostId(Start(o))
      BY <1>6, <1>7, <3>1, InvoiceFacts
    <3> QED
      BY <2>4, <3>2
  <2>5. CASE plan[o] = "personal"
    <3>1. k = 1 /\ <<kept[b + 1]>> \in Dinners(expenses[o])
      BY <1>5, <2>5 DEF Placed, Width
    <3>2. kept[i].vendor = expenses[o].vendor
      BY <1>6, <1>7, <3>1, DinnerFacts
    <3> QED
      BY <2>5, <3>2
  <2>6. CASE plan[o] \in {"inflation", "collusion"}
    <3>1. k = 1 /\ <<kept[b + 1]>> \in Inflations(expenses[o])
      BY <1>5, <2>6 DEF Placed, Width
    <3>2. kept[i].vendor = expenses[o].vendor
      BY <1>6, <1>7, <3>1, InflationFacts
    <3> QED
      BY <2>6, <3>2
  <2> QED
    BY <1>3, <2>1, <2>2, <2>3, <2>4, <2>5, <2>6, PlannedFacts DEF InjectionInv, Untouched
<1> QED
  BY <1>2, <1>3, <1>8

(* The features hold the windows of a year by receipt and by vendor. *)
LEMMA WindowOf ==
    ASSUME NEW s, NEW catalogue, NEW row, NEW by \in {"tenant_phash", "user_phash", "tenant_vendor"}
    PROVE  FeaturesOf(s, catalogue, row).windows[<<by, 365>>] = Prior(s, row, by, 365)
<1>1. <<by, 365>> \in Windows
  <2>1. <<by, 365>> \in Families.vendor \cup Families.duplicate_signals
    BY DEF Families
  <2>2. Families.vendor \subseteq Windows /\ Families.duplicate_signals \subseteq Windows
    BY DEF Families, Windows
  <2> QED
    BY <2>1, <2>2
<1>2. FeaturesOf(s, catalogue, row).windows = [w \in Windows |-> Prior(s, row, w[1], w[2])]
  BY DEF FeaturesOf
<1>3. PICK w : w = <<by, 365>>
  OBVIOUS
<1>4. w[1] = by /\ w[2] = 365
  BY <1>3
<1> HIDE DEF Windows
<1> QED
  BY <1>1, <1>2, <1>3, <1>4

(* The gap to a claim of the same receipt is at most the time to any of    *)
(* those before.                                                           *)
LEMMA SinceAtMost ==
    ASSUME NEW s, NEW n \in Nat, DOMAIN s = 1..n, Instants(s, n), Once(s, n),
           NEW i \in 1..n, NEW j \in 1..n, s[i].phash = s[j].phash, s[i].at < s[j].at
    PROVE  SinceSamePhash(s, s[j]) \in 0..(s[j].at - s[i].at)
<1>1. PICK row : row = s[j]
  OBVIOUS
<1>2. PICK E : E = Earlier(s, j)
  OBVIOUS
<1>3. i \in E /\ E \subseteq 1..n
  BY <1>2 DEF Earlier, Before
<1>4. \/ E = {} /\ SinceSamePhash(s, row) = -1
      \/ \E x : Last(s, E, x) /\ SinceSamePhash(s, row) = row.at - s[x].at
  BY <1>1, <1>2, SinceBy DEF Once
<1>5. PICK x : Last(s, E, x) /\ SinceSamePhash(s, row) = row.at - s[x].at
  BY <1>3, <1>4
<1>6. x \in E /\ ~Before(s, x, i)
  BY <1>3, <1>5 DEF Last
<1>7. x \in 1..n /\ Before(s, x, j)
  BY <1>2, <1>3, <1>6 DEF Earlier
<1>8. s[x].at \in Nat /\ s[i].at \in Nat /\ s[j].at \in Nat
  BY <1>7 DEF Instants
<1>9. s[i].at <= s[x].at /\ s[x].at <= s[j].at
  BY <1>6, <1>7, <1>8 DEF Before
<1>10. s[j].at - s[x].at \in 0..(s[j].at - s[i].at)
  BY <1>8, <1>9
<1> QED
  BY <1>1, <1>5, <1>10

(* A claim is of the same receipt as another a year at most before it. *)
Resubmits(s, i, j) ==
    /\ s[i].phash = s[j].phash /\ s[i].user = s[j].user
    /\ s[j].at - 24 * 365 <= s[i].at

(* It is found from there. *)
LEMMA SeenFrom ==
    ASSUME NEW s, NEW n \in Nat, DOMAIN s = 1..n, Instants(s, n), Once(s, n),
           NEW i \in 1..n, NEW j \in 1..n, Resubmits(s, i, j), s[i].at < s[j].at
    PROVE  /\ SinceSamePhash(s, s[j]) \in 0..(s[j].at - s[i].at)
           /\ \A by \in {"tenant_phash", "user_phash"} : s[i] \in Prior(s, s[j], by, 365)
<1>1. SinceSamePhash(s, s[j]) \in 0..(s[j].at - s[i].at)
  BY SinceAtMost DEF Resubmits
<1>2. s[i] \in Rows(s)
  BY DEF Rows
<1>3. \A by \in {"tenant_phash", "user_phash"} : Key(s[i], by) = Key(s[j], by)
  BY DEF Key, Resubmits
<1>4. s[j].at - 24 * 365 <= s[i].at
  BY DEF Resubmits
<1>5. \A by \in {"tenant_phash", "user_phash"} : s[i] \in Prior(s, s[j], by, 365)
  BY <1>2, <1>3, <1>4 DEF Prior
<1> QED
  BY <1>1, <1>5

(* Each of a duplicate and its original is a resubmission of the other. *)
LEMMA DuplicateSeen ==
    ASSUME IInv, NEW n, NEW targets, Settled(n, targets), NEW s, s = claims,
           NEW j \in 1..n, labels[j].typology = "duplicate",
           NEW x \in 1..n, s[x].id \in labels[j].linked
    PROVE  Resubmits(s, x, j) /\ Resubmits(s, j, x)
<1>1. n = Len(kept) /\ n \in Nat
  BY DEF Settled
<1>2. PICK o \in 1..Len(expenses) : \E i \in 1..Len(kept) :
              /\ kept[i] = expenses[o] /\ labels[j].linked = {expenses[o].id}
              /\ <<kept[j]>> \in Duplicates(expenses[o], Start(o))
  BY <1>1, DuplicateBeside DEF IInv
<1>3. PICK i \in 1..Len(kept) :
              /\ kept[i] = expenses[o] /\ labels[j].linked = {expenses[o].id}
              /\ <<kept[j]>> \in Duplicates(expenses[o], Start(o))
  BY <1>2
<1>4. \A m \in 1..n :
         /\ s[m].id = kept[m].id /\ s[m].user = kept[m].user
         /\ s[m].phash = kept[m].phash /\ s[m].at = kept[m].at /\ s[m].at \in Nat
  BY DEF Settled, Carried, Fields, Dated
<1>5. x = i
  <2>1. kept[x].id = kept[i].id
    BY <1>3, <1>4
  <2>2. kept[i].id = ClaimId(o)
    BY <1>3, ExpensesFacts DEF IInv, InjectionInv, HonestClaim
  <2> QED
    BY <1>1, <2>1, <2>2, OwnOnce DEF IInv
<1>6. PICK c : c = expenses[o]
  OBVIOUS
<1>7. PICK e : e = kept[j]
  OBVIOUS
<1>8. HonestClaim(c, o)
  BY <1>6, ExpensesFacts DEF IInv, InjectionInv
<1>9. FromClaim(e, c) /\ e.phash = c.phash /\ e.at >= 24 * c.day /\ e.at <= 24 * c.day + 24 * 98
  BY <1>3, <1>6, <1>7, <1>8, DuplicateFacts
<1>10. c.day \in Nat /\ c.at \in Nat /\ c.at >= 24 * c.day /\ c.at <= 24 * c.day + 24 * 46
  BY <1>8 DEF HonestClaim, Dated
<1>11. s[x].phash = s[j].phash /\ s[x].user = s[j].user
  BY <1>3, <1>4, <1>5, <1>6, <1>7, <1>9 DEF FromClaim
<1>12. s[j].at - 24 * 365 <= s[x].at /\ s[x].at - 24 * 365 <= s[j].at
  <2>1. s[x].at = c.at /\ s[j].at = e.at /\ e.at \in Nat
    <3>1. x \in 1..n /\ j \in 1..n
      OBVIOUS
    <3>2. s[x].at = kept[x].at /\ s[j].at = kept[j].at /\ s[j].at \in Nat
      BY <1>4, <3>1
    <3>3. kept[x] = c /\ kept[j] = e
      BY <1>3, <1>5, <1>6, <1>7
    <3> QED
      BY <3>2, <3>3
  <2>2. PICK u, v, d : u = c.at /\ v = e.at /\ d = c.day
    OBVIOUS
  <2>3. /\ u \in Nat /\ v \in Nat /\ d \in Nat
        /\ u >= 24 * d /\ u <= 24 * d + 24 * 46 /\ v >= 24 * d /\ v <= 24 * d + 24 * 98
    BY <1>9, <1>10, <2>1, <2>2
  <2>4. v - 24 * 365 <= u /\ u - 24 * 365 <= v
    BY <2>3
  <2> QED
    BY <2>1, <2>2, <2>4
<1> QED
  BY <1>11, <1>12 DEF Resubmits

(* A ghost vendor has no claim before and one first day. *)
LEMMA GhostSeen ==
    ASSUME IInv, Done, NEW n, NEW targets, Settled(n, targets), NEW s, s = claims,
           NEW j \in 1..n, labels[j].typology = "ghost_vendor"
    PROVE  /\ Prior(s, s[j], "tenant_vendor", 365) = {}
           /\ \E first : /\ {v.firstSeen : v \in {x \in vendors : x.id = s[j].vendor}} = {first}
                         /\ first \in (s[j].day - 9)..s[j].day
<1>1. n = Len(kept) /\ n \in Nat /\ index = Len(expenses)
  BY DEF Settled
<1>2. PICK o \in 1..index :
              /\ o \in 1..Len(expenses) /\ plan[o] = "ghost_vendor"
              /\ <<kept[j]>> \in Invoices(expenses[o], GhostId(Start(o)))
  BY <1>1, GhostBeside DEF IInv
<1>3. \A m \in 1..n :
         s[m].id = kept[m].id /\ s[m].vendor = kept[m].vendor /\ s[m].day = kept[m].day /\ s[m].at \in Nat
  BY DEF Settled, Carried, Fields, Dated
<1>4. PICK c : c = expenses[o]
  OBVIOUS
<1>5. PICK e : e = kept[j]
  OBVIOUS
<1>6. HonestClaim(c, o)
  BY <1>2, <1>4, ExpensesFacts DEF IInv, InjectionInv
<1>7. e.vendor = GhostId(Start(o)) /\ e.day = c.day /\ e.id = c.id
  BY <1>2, <1>4, <1>5, <1>6, InvoiceFacts
<1>8. s[j].vendor = GhostId(Start(o)) /\ s[j].day = c.day
  BY <1>3, <1>5, <1>7
<1>9. ASSUME NEW m \in 1..n, s[m].vendor = s[j].vendor PROVE m = j
  <2>1. PICK p \in 1..Len(expenses) : \E k \in 1..Width(p) :
              /\ Becomes(p, k, kept[m], labels[m])
              /\ kept[m].vendor = IF plan[p] = "ghost_vendor" THEN GhostId(Start(p)) ELSE expenses[p].vendor
    BY <1>1, VendorFrom DEF IInv
  <2>2. PICK k \in 1..Width(p) :
              /\ Becomes(p, k, kept[m], labels[m])
              /\ kept[m].vendor = IF plan[p] = "ghost_vendor" THEN GhostId(Start(p)) ELSE expenses[p].vendor
    BY <2>1
  <2>3. kept[m].vendor = GhostId(Start(o))
    BY <1>3, <1>8, <1>9
  <2>4. plan[p] = "ghost_vendor"
    <3>1. PICK v \in Vendors : expenses[p].vendor = v.id
      BY ExpensesFacts DEF IInv, InjectionInv, HonestClaim
    <3>2. expenses[p].vendor # GhostId(Start(o))
      BY <3>1, GhostIds, VendorsAssumption
    <3> QED
      BY <2>2, <2>3, <3>2
  <2>5. Start(p) = Start(o)
    BY <2>2, <2>3, <2>4, GhostIds
  <2>6. p = o
    <3>1. p \in Nat /\ o \in Nat
      BY <1>2, ExpensesFacts DEF IInv, InjectionInv, Listed
    <3>2. o + 1 \in Nat /\ o < o + 1
      BY <3>1
    <3>3. Start(o) \in Nat
      BY <3>1, <3>2, Starts
    <3>4. 0 \in 0..(Stride - 1) /\ Start(p) + 0 = Start(o) + 0
      BY <2>5, InjectionAssumption
    <3>5. plan[p] # "none" /\ plan[o] # "none"
      BY <1>2, <2>4
    <3> QED
      BY <3>1, <3>4, <3>5, Spaced
  <2>7. kept[m].id = IdOf(p, k) /\ IdOf(p, k) = ClaimId(o)
    BY <2>2, <2>4, <2>6 DEF Becomes, IdOf
  <2>8. kept[j].id = ClaimId(o)
    BY <1>5, <1>6, <1>7 DEF HonestClaim
  <2> QED
    BY <1>1, <2>7, <2>8, OwnOnce DEF IInv
<1>10. DOMAIN s = 1..n
  BY OnceClaims DEF IInv
<1>11. Prior(s, s[j], "tenant_vendor", 365) = {}
  <2> SUFFICES ASSUME NEW r \in Prior(s, s[j], "tenant_vendor", 365) PROVE FALSE
    OBVIOUS
  <2>1. r \in Rows(s) /\ Key(r, "tenant_vendor") = Key(s[j], "tenant_vendor") /\ r.at < s[j].at
    BY DEF Prior
  <2>2. PICK m \in 1..n : r = s[m]
    BY <1>10, <2>1 DEF Rows
  <2>3. s[m].vendor = s[j].vendor
    BY <2>1, <2>2 DEF Key
  <2>4. m = j
    BY <1>9, <2>3
  <2>5. s[j].at < s[j].at /\ s[j].at \in Nat
    BY <1>3, <2>1, <2>2, <2>4
  <2> QED
    BY <2>5
<1>12. {x \in vendors : x.id = s[j].vendor} = {Ghost(o)}
  <2>1. vendors = Vendors \cup Rows(ghosts)
    BY DEF IInv, StageInv, Done
  <2>2. Ghost(o) \in Rows(ghosts) /\ Ghost(o).id = s[j].vendor
    BY <1>2, <1>8 DEF IInv, InjectionInv, GhostsInv, Ghost
  <2>3. \A x \in Rows(ghosts) : x.id = s[j].vendor => x = Ghost(o)
    BY <2>2, GhostsOnce DEF IInv
  <2>4. \A x \in Vendors : x.id # s[j].vendor
    BY <2>2, GhostsApart DEF IInv
  <2> QED
    BY <2>1, <2>2, <2>3, <2>4
<1>13. FirstSeen(c.day) \in (s[j].day - 9)..s[j].day
  <2>1. c.day \in Nat
    BY <1>6 DEF HonestClaim, Dated
  <2> QED
    BY <1>8, <2>1 DEF FirstSeen
<1>14. Ghost(o).firstSeen = FirstSeen(c.day)
  BY <1>4 DEF Ghost
<1>15. {v.firstSeen : v \in {x \in vendors : x.id = s[j].vendor}} = {FirstSeen(c.day)}
  BY <1>12, <1>14
<1> QED
  BY <1>11, <1>13, <1>15

LEMMA InvSignals == IInv => SignalsReachFeatures
<1> SUFFICES ASSUME IInv, Done, NEW j \in DOMAIN labels
             PROVE  /\ labels[j].typology = "duplicate" =>
                          \A i \in {x \in DOMAIN claims : claims[x].id \in labels[j].linked} :
                              /\ claims[i].at < claims[j].at => SeenBefore(claims[i], claims[j])
                              /\ claims[j].at < claims[i].at => SeenBefore(claims[j], claims[i])
                    /\ labels[j].typology = "ghost_vendor" => LooksNew(claims[j])
  BY DEF SignalsReachFeatures
<1>1. PICK n : \E targets : Settled(n, targets)
  BY SettledFacts DEF Done
<1>2. PICK targets : Settled(n, targets)
  BY <1>1
<1>3. PICK s : s = claims
  OBVIOUS
<1>4. DOMAIN labels = 1..n /\ n \in Nat
  BY <1>2, ListedSeq DEF Settled
<1>5. DOMAIN s = 1..n /\ Instants(s, n) /\ Once(s, n)
  BY <1>2, <1>3, OnceClaims DEF IInv
<1>6. ASSUME NEW x \in 1..n, NEW y \in 1..n, Resubmits(s, x, y), s[x].at < s[y].at
      PROVE  SeenBefore(claims[x], claims[y])
  <2>1. /\ SinceSamePhash(s, s[y]) \in 0..(s[y].at - s[x].at)
        /\ \A by \in {"tenant_phash", "user_phash"} : s[x] \in Prior(s, s[y], by, 365)
    BY <1>4, <1>5, <1>6, SeenFrom
  <2>2. FeaturesOf(s, vendors, s[y]).since = SinceSamePhash(s, s[y])
    BY DEF FeaturesOf
  <2>3. \A by \in {"tenant_phash", "user_phash"} :
           FeaturesOf(s, vendors, s[y]).windows[<<by, 365>>] = Prior(s, s[y], by, 365)
    BY WindowOf
  <2> QED
    BY <1>3, <2>1, <2>2, <2>3 DEF SeenBefore
<1>7. ASSUME labels[j].typology = "duplicate", NEW i \in DOMAIN claims, claims[i].id \in labels[j].linked
      PROVE  /\ claims[i].at < claims[j].at => SeenBefore(claims[i], claims[j])
             /\ claims[j].at < claims[i].at => SeenBefore(claims[j], claims[i])
  <2>1. i \in 1..n /\ j \in 1..n
    BY <1>3, <1>4, <1>5
  <2>2. Resubmits(s, i, j) /\ Resubmits(s, j, i)
    BY <1>2, <1>3, <1>7, <2>1, DuplicateSeen
  <2> QED
    BY <1>3, <1>6, <2>1, <2>2
<1>8. ASSUME labels[j].typology = "ghost_vendor" PROVE LooksNew(claims[j])
  <2>3. /\ Prior(s, s[j], "tenant_vendor", 365) = {}
        /\ \E first : /\ {v.firstSeen : v \in {x \in vendors : x.id = s[j].vendor}} = {first}
                      /\ first \in (s[j].day - 9)..s[j].day
    <3>1. j \in 1..n
      BY <1>4
    <3> QED
      BY <1>2, <1>3, <1>8, <3>1, GhostSeen
  <2>4. PICK features : features = FeaturesOf(s, vendors, s[j])
    OBVIOUS
  <2>5. features.vendor = {v.firstSeen : v \in {x \in vendors : x.id = s[j].vendor}}
    BY <2>4 DEF FeaturesOf
  <2>6. features.windows[<<"tenant_vendor", 365>>] = Prior(s, s[j], "tenant_vendor", 365)
    BY <2>4, WindowOf
  <2>7. PICK first : features.vendor = {first} /\ first \in (s[j].day - 9)..s[j].day
    BY <2>3, <2>5
  <2>8. first \in features.vendor
    BY <2>7
  <2> QED
    BY <1>3, <2>3, <2>4, <2>6, <2>7, <2>8 DEF LooksNew
<1> QED
  BY <1>7, <1>8

(* Whatever is drawn, the later of a receipt's two submissions finds the   *)
(* other in both windows by receipt and at a gap no longer than the time   *)
(* between them, whichever it is, and a ghost vendor is new and has no     *)
(* claim before (_duplicate, _ghost_vendor, build_features).               *)
THEOREM SignalsReach == Spec => []SignalsReachFeatures
  BY InvSignals, Inductive, PTL
=============================================================================
