------------------------ MODULE ModelGateway_proofs -------------------------
(***************************************************************************)
(* Proofs about ModelGateway for every set of calls and every value of the *)
(* budget, the caps, the cost sets and the bounds: its types, the identity *)
(* of its running total, and the daily cap.                                *)
(***************************************************************************)
EXTENDS ModelGateway, FiniteSetTheorems, TLAPS

----------------------------------------------------------------------------
(* Reservations as tokens *)

(* A reservation of e units is a finite set of e tokens. *)
LEMMA TokenCount ==
    ASSUME NEW c, NEW e \in Nat
    PROVE  /\ IsFiniteSet({c} \X (1..e))
           /\ Cardinality({c} \X (1..e)) = e
<1>1. IsFiniteSet({c}) /\ Cardinality({c}) = 1
  BY FS_Singleton
<1>2. IsFiniteSet(1..e) /\ Cardinality(1..e) = e
  BY FS_Interval
<1>3. /\ IsFiniteSet({c} \X (1..e))
      /\ Cardinality({c} \X (1..e)) = Cardinality({c}) * Cardinality(1..e)
  BY <1>1, <1>2, FS_Product
<1> QED
  BY <1>1, <1>2, <1>3

(* Which tokens are held, pointwise. *)
LEMMA HeldMember ==
    ASSUME NEW d, NEW c, NEW i
    PROVE  <<c, i>> \in HeldUnits(d) <=>
              /\ c \in Calls
              /\ phase[c] = "calling"
              /\ resOn[c] = d
              /\ i \in 1..est[c]
  BY DEF HeldUnits, Outstanding

(* A step that changes no call in flight holds the same tokens. *)
LEMMA HeldUnchanged ==
    ASSUME \A c \in Calls : phase'[c] = "calling" <=> phase[c] = "calling",
           \A c \in Calls : phase[c] = "calling"
                               => est'[c] = est[c] /\ resOn'[c] = resOn[c]
    PROVE  \A d : HeldUnits(d)' = HeldUnits(d)
<1> TAKE d
<1>1. Outstanding(d)' = Outstanding(d)
  BY DEF Outstanding
<1>2. \A c \in Outstanding(d) : est'[c] = est[c]
  BY DEF Outstanding
<1> QED
  BY <1>1, <1>2 DEF HeldUnits

(* A call that starts holds its estimate on its own date, and nothing      *)
(* changes on any other.                                                   *)
LEMMA HeldAdded ==
    ASSUME TypeOK, NEW c \in Calls, phase[c] # "calling", NEW date \in Days,
           phase' = [phase EXCEPT ![c] = "calling"],
           resOn' = [resOn EXCEPT ![c] = date],
           est' = est,
           IsFiniteSet(HeldUnits(date))
    PROVE  /\ \A d : d # date => HeldUnits(d)' = HeldUnits(d)
           /\ IsFiniteSet(HeldUnits(date)')
           /\ Held(date)' = Held(date) + est[c]
<1> DEFINE Own == {c} \X (1..est[c])
<1>1. /\ phase \in [Calls -> Phases]
      /\ resOn \in [Calls -> Days]
      /\ est[c] \in Nat
  BY DEF TypeOK
<1>2. \A d : d # date => HeldUnits(d)' = HeldUnits(d)
  <2> SUFFICES ASSUME NEW d, d # date
               PROVE  HeldUnits(d)' = HeldUnits(d)
    OBVIOUS
  <2>1. Outstanding(d)' = Outstanding(d)
    BY <1>1 DEF Outstanding
  <2> QED
    BY <2>1 DEF HeldUnits
<1>3. Outstanding(date)' = Outstanding(date) \cup {c}
  BY <1>1 DEF Outstanding
<1>4. HeldUnits(date)' = HeldUnits(date) \cup Own
  BY <1>3 DEF HeldUnits
<1>5. HeldUnits(date) \cap Own = {}
  BY DEF HeldUnits, Outstanding
<1>6. IsFiniteSet(Own) /\ Cardinality(Own) = est[c]
  BY <1>1, TokenCount
<1>7. /\ IsFiniteSet(HeldUnits(date) \cup Own)
      /\ Cardinality(HeldUnits(date) \cup Own)
            = Cardinality(HeldUnits(date)) + Cardinality(Own)
              - Cardinality(HeldUnits(date) \cap Own)
  BY <1>6, FS_Union
<1>8. Cardinality(HeldUnits(date) \cap Own) = 0
  BY <1>5, FS_EmptySet
<1>9. Cardinality(HeldUnits(date)) \in Nat
  BY FS_CardinalityType
<1>10. Held(date)' = Held(date) + est[c]
  BY <1>1, <1>4, <1>6, <1>7, <1>8, <1>9 DEF Held
<1> QED
  BY <1>2, <1>4, <1>7, <1>10

(* A call that ends gives back exactly its estimate, on its own date. *)
LEMMA HeldRemoved ==
    ASSUME TypeOK, NEW c \in Calls, phase[c] = "calling",
           NEW next \in Phases, next # "calling",
           phase' = [phase EXCEPT ![c] = next],
           resOn' = resOn,
           est' = est,
           IsFiniteSet(HeldUnits(resOn[c]))
    PROVE  /\ \A d : d # resOn[c] => HeldUnits(d)' = HeldUnits(d)
           /\ IsFiniteSet(HeldUnits(resOn[c])')
           /\ Held(resOn[c])' = Held(resOn[c]) - est[c]
<1> DEFINE date == resOn[c]
           Own == {c} \X (1..est[c])
<1>1. /\ phase \in [Calls -> Phases]
      /\ est[c] \in Nat
  BY DEF TypeOK
<1>2. \A d : d # date => HeldUnits(d)' = HeldUnits(d)
  <2> SUFFICES ASSUME NEW d, d # date
               PROVE  HeldUnits(d)' = HeldUnits(d)
    OBVIOUS
  <2>1. Outstanding(d)' = Outstanding(d)
    BY <1>1 DEF Outstanding
  <2> QED
    BY <2>1 DEF HeldUnits
<1>3. Outstanding(date)' = Outstanding(date) \ {c}
  BY <1>1 DEF Outstanding
<1>4. HeldUnits(date)' = HeldUnits(date) \ Own
  BY <1>3 DEF HeldUnits
<1>5. HeldUnits(date) \cap Own = Own
  BY DEF HeldUnits, Outstanding
<1>6. IsFiniteSet(Own) /\ Cardinality(Own) = est[c]
  BY <1>1, TokenCount
<1>7. /\ IsFiniteSet(HeldUnits(date) \ Own)
      /\ Cardinality(HeldUnits(date) \ Own)
            = Cardinality(HeldUnits(date)) - Cardinality(HeldUnits(date) \cap Own)
  BY FS_Difference
<1>8. Held(date)' = Held(date) - est[c]
  BY <1>4, <1>5, <1>6, <1>7 DEF Held
<1> QED
  BY <1>2, <1>4, <1>7, <1>8

----------------------------------------------------------------------------
(* Type correctness *)

LEMMA DayArithmetic == Days \subseteq Nat /\ 0 \in Days
  BY GatewayAssumption DEF Days

LEMMA TypeStep == TypeOK /\ [Next]_vars => TypeOK'
<1> SUFFICES ASSUME TypeOK, [Next]_vars
             PROVE  TypeOK'
  OBVIOUS
<1> USE DEF TypeOK, history
<1>1. ASSUME NEW c \in Calls, NEW e \in Estimates, Admit(c, e) \/ OverCallCap(c, e)
      PROVE  TypeOK'
  BY <1>1, GatewayAssumption DEF Admit, OverCallCap, Phases, Final
<1>2. ASSUME NEW c \in Calls, TurnAway(c)
      PROVE  TypeOK'
  BY <1>2 DEF TurnAway, Phases, Final
<1>3. ASSUME NEW c \in Calls, Reserve(c)
      PROVE  TypeOK'
  BY <1>3 DEF Reserve, SpentToday, Phases, Final
<1>4. ASSUME NEW c \in Calls, Refuse(c)
      PROVE  TypeOK'
  BY <1>4 DEF Refuse, SpentToday, Phases, Final
<1>5. ASSUME NEW c \in Calls, NEW bill \in FailureBills, ProviderFails(c, bill)
      PROVE  TypeOK'
  BY <1>5, GatewayAssumption DEF ProviderFails, PostLate, Phases, Final
<1>6. ASSUME NEW c \in Calls, NEW cost \in Costs, Settle(c, cost)
      PROVE  TypeOK'
  <2>1. Charge(c, cost) \in Nat
    BY GatewayAssumption DEF Charge
  <2>2. Excess(Charge(c, cost), est[c]) \in Nat
    BY <2>1 DEF Excess
  <2>3. overrun' \in [Days -> Nat]
    BY <1>6, <2>2 DEF Settle
  <2>4. late' \in [Days -> Int]
    BY <1>6, <2>1 DEF Settle, PostLate
  <2>5. invoice' \in [Days -> Nat]
    BY <1>6, <2>1 DEF Settle
  <2>6. spent' \in Int
    <3>1. spent' = spent + (Charge(c, cost) - est[c])
      BY <1>6 DEF Settle
    <3> QED
      BY <2>1, <3>1
  <2>7. phase' \in [Calls -> Phases]
    BY <1>6 DEF Settle, Phases
  <2> QED
    BY <1>6, <2>3, <2>4, <2>5, <2>6, <2>7 DEF Settle
<1>7. ASSUME NEW c \in Calls, Record(c) \/ RecordFails(c)
      PROVE  TypeOK'
  BY <1>7 DEF Record, RecordFails, Phases, Final
<1>8. CASE Tick
  <2>1. today' \in Days
    <3>1. today \in Days /\ today < MaxDay /\ today' = today + 1
      BY <1>8 DEF Tick
    <3> QED
      BY <3>1, GatewayAssumption DEF Days
  <2> QED
    BY <1>8, <2>1 DEF Tick, program
<1>9. CASE Restart
  BY <1>9, GatewayAssumption DEF Restart, Phases, Final
<1>10. CASE UNCHANGED vars
  BY <1>10 DEF vars, program
<1> QED
  BY <1>1, <1>2, <1>3, <1>4, <1>5, <1>6, <1>7, <1>8, <1>9, <1>10
  DEF Next, ProviderEnds

(* Every variable keeps its type: the phases of a call are the ones named, *)
(* the running total is an integer (it may be negative), and what the      *)
(* provider charged is never negative.                                     *)
THEOREM TypeCorrect == Spec => []TypeOK
<1>1. Init => TypeOK
  BY GatewayAssumption, DayArithmetic DEF Init, TypeOK, Phases, Final
<1> QED
  BY <1>1, TypeStep, PTL DEF Spec

----------------------------------------------------------------------------
(* The inductive invariant.  LedgerIdentity says what spent is made of;    *)
(* SpentBound that no step lets it past the budget except by an overrun;   *)
(* PastCap keeps, for the accounts already closed, the cap that these two  *)
(* give for the open one; FutureUntouched lets the account of a new date   *)
(* start from nothing.                                                     *)

FutureUntouched ==
    /\ spentOn <= today
    /\ \A d \in Days : d > spentOn =>
          invoice[d] = 0 /\ opening[d] = 0 /\ leaked[d] = 0 /\ overrun[d] = 0 /\ late[d] = 0

ReservedBefore == \A c \in Calls : phase[c] = "calling" => resOn[c] <= spentOn

HeldFinite == \A d \in Days : IsFiniteSet(HeldUnits(d))

SpentBound == spent <= Budget + overrun[spentOn]

CapOn(d) == invoice[d] + Held(d) <= Budget + Slack(d)

PastCap == \A d \in Days : d < spentOn => CapOn(d)

IInv ==
    /\ TypeOK
    /\ FutureUntouched
    /\ ReservedBefore
    /\ HeldFinite
    /\ LedgerIdentity
    /\ SpentBound
    /\ PastCap

LEMMA InvInit == Init => IInv
<1> SUFFICES ASSUME Init
             PROVE  IInv
  OBVIOUS
<1>1. TypeOK
  BY GatewayAssumption, DayArithmetic DEF Init, TypeOK, Phases, Final
<1>2. \A d : HeldUnits(d) = {}
  BY DEF Init, HeldUnits, Outstanding
<1>3. \A d : IsFiniteSet(HeldUnits(d)) /\ Held(d) = 0
  BY <1>2, FS_EmptySet DEF Held
<1>4. FutureUntouched /\ ReservedBefore /\ PastCap
  BY DayArithmetic DEF Init, FutureUntouched, ReservedBefore, PastCap, Days
<1>5. LedgerIdentity /\ SpentBound
  BY <1>3, DayArithmetic, GatewayAssumption DEF Init, LedgerIdentity, SpentBound
<1> QED
  BY <1>1, <1>3, <1>4, <1>5 DEF IInv, HeldFinite

(* A step that leaves the ledger and the calls in flight alone. *)
LEMMA LedgerUntouched ==
    ASSUME IInv, TypeOK', today' >= today,
           \A c \in Calls : phase'[c] = "calling" <=> phase[c] = "calling",
           \A c \in Calls : phase[c] = "calling" => est'[c] = est[c],
           UNCHANGED <<spent, spentOn, resOn, history>>
    PROVE  IInv'
<1> USE DEF IInv
<1>1. \A d : HeldUnits(d)' = HeldUnits(d)
  BY HeldUnchanged
<1>2. \A d : Held(d)' = Held(d)
  BY <1>1 DEF Held
<1>3. FutureUntouched'
  <2>1. spentOn <= today'
    BY DEF FutureUntouched, TypeOK, Days
  <2> QED
    BY <2>1 DEF FutureUntouched, history
<1>4. ReservedBefore'
  BY DEF ReservedBefore
<1>5. HeldFinite'
  BY <1>1 DEF HeldFinite
<1>6. LedgerIdentity' /\ SpentBound'
  BY <1>2 DEF LedgerIdentity, SpentBound, history
<1>7. PastCap'
  BY <1>2 DEF PastCap, CapOn, Slack, history
<1> QED
  BY <1>3, <1>4, <1>5, <1>6, <1>7

(* What the invariant says of the accounts. *)
LEMMA HeldType == IInv => \A d \in Days : Held(d) \in Nat
  BY FS_CardinalityType DEF IInv, HeldFinite, Held

LEMMA NoneHeldAhead ==
    ASSUME IInv, NEW d \in Days, d > spentOn
    PROVE  HeldUnits(d) = {} /\ Held(d) = 0
<1>1. \A c \in Calls : ~(phase[c] = "calling" /\ resOn[c] = d)
  BY DEF IInv, TypeOK, ReservedBefore, Days
<1>2. HeldUnits(d) = {}
  BY <1>1 DEF HeldUnits, Outstanding
<1> QED
  BY <1>2, FS_EmptySet DEF Held

LEMMA CapEverywhere == IInv => \A d \in Days : CapOn(d)
<1> SUFFICES ASSUME IInv, NEW d \in Days
             PROVE  CapOn(d)
  OBVIOUS
<1> USE DEF IInv
<1>1. /\ spentOn \in Days /\ spent \in Int
      /\ invoice[d] \in Nat /\ opening[d] \in Nat /\ leaked[d] \in Nat
      /\ overrun[d] \in Nat /\ late[d] \in Int
  BY DEF TypeOK
<1>2. Held(d) \in Nat
  BY HeldType
<1>3. d \in Int /\ spentOn \in Int /\ Budget \in Nat
  BY <1>1, GatewayAssumption DEF Days
<1>4. CASE d < spentOn
  BY <1>4 DEF PastCap
<1>5. CASE d = spentOn
  <2>1. spent = (invoice[d] - opening[d] - leaked[d]) + Held(d) + late[d]
    BY <1>5 DEF LedgerIdentity
  <2>2. spent <= Budget + overrun[d]
    BY <1>5 DEF SpentBound
  <2> QED
    BY <1>1, <1>2, <1>3, <2>1, <2>2 DEF CapOn, Slack
<1>6. CASE d > spentOn
  <2>1. Held(d) = 0
    BY <1>6, NoneHeldAhead
  <2>2. /\ invoice[d] = 0 /\ opening[d] = 0 /\ leaked[d] = 0
        /\ overrun[d] = 0 /\ late[d] = 0
    BY <1>6 DEF FutureUntouched
  <2> QED
    BY <1>3, <2>1, <2>2 DEF CapOn, Slack
<1> QED
  BY <1>3, <1>4, <1>5, <1>6

(* The running total as _reserve finds it is the account of the current    *)
(* date, whether that account is open already or starts now.               *)
LEMMA AccountToday ==
    ASSUME IInv
    PROVE  /\ SpentToday = (invoice[today] - opening[today] - leaked[today])
                           + Held(today) + late[today]
           /\ SpentToday <= Budget + overrun[today]
           /\ SpentToday \in Int
<1> USE DEF IInv
<1>1. today \in Days /\ spentOn \in Days /\ spentOn <= today /\ spent \in Int
  BY DEF TypeOK, FutureUntouched
<1>2. CASE today = spentOn
  BY <1>1, <1>2 DEF SpentToday, LedgerIdentity, SpentBound
<1>3. CASE today # spentOn
  <2>1. today > spentOn
    BY <1>1, <1>3 DEF Days
  <2>2. Held(today) = 0
    BY <1>1, <2>1, NoneHeldAhead
  <2>3. /\ invoice[today] = 0 /\ opening[today] = 0 /\ leaked[today] = 0
        /\ overrun[today] = 0 /\ late[today] = 0
    BY <1>1, <2>1 DEF FutureUntouched
  <2> QED
    BY <1>3, <2>2, <2>3, GatewayAssumption DEF SpentToday
<1> QED
  BY <1>2, <1>3


(* Moving the open account to the current date. *)
LEMMA RollOverKeeps ==
    ASSUME IInv, spentOn' = today, today' = today, UNCHANGED history
    PROVE  FutureUntouched'
<1>1. today \in Days /\ spentOn \in Days /\ spentOn <= today
  BY DEF IInv, TypeOK, FutureUntouched
<1>2. \A d \in Days : d > today => d > spentOn
  BY <1>1 DEF Days
<1> QED
  BY <1>1, <1>2 DEF IInv, FutureUntouched, history, Days

LEMMA ReserveStep ==
    ASSUME IInv, TypeOK', NEW c \in Calls, Reserve(c)
    PROVE  IInv'
<1> USE DEF IInv
<1>1. /\ phase[c] # "calling"
      /\ phase' = [phase EXCEPT ![c] = "calling"]
      /\ resOn' = [resOn EXCEPT ![c] = today]
      /\ est' = est /\ today' = today /\ spentOn' = today
      /\ spent' = SpentToday + est[c]
      /\ SpentToday + est[c] <= Budget
      /\ UNCHANGED history
  BY DEF Reserve, Affordable
<1>2. today \in Days /\ est[c] \in Nat /\ phase \in [Calls -> Phases]
         /\ resOn \in [Calls -> Days] /\ spentOn \in Days
  BY DEF TypeOK
<1>3. IsFiniteSet(HeldUnits(today))
  BY <1>2 DEF HeldFinite
<1>4. /\ \A d : d # today => HeldUnits(d)' = HeldUnits(d)
      /\ IsFiniteSet(HeldUnits(today)')
      /\ Held(today)' = Held(today) + est[c]
  <2> DEFINE date == today
  <2>1. /\ \A d : d # date => HeldUnits(d)' = HeldUnits(d)
        /\ IsFiniteSet(HeldUnits(date)')
        /\ Held(date)' = Held(date) + est[c]
    BY <1>1, <1>2, <1>3, HeldAdded
  <2> QED
    BY <2>1
<1>5. \A d : d # today => Held(d)' = Held(d)
  BY <1>4 DEF Held
<1>6. FutureUntouched'
  BY <1>1, RollOverKeeps
<1>7. ReservedBefore'
  BY <1>1, <1>2 DEF ReservedBefore, FutureUntouched, Days
<1>8. HeldFinite'
  BY <1>1, <1>4 DEF HeldFinite
<1>9. Held(today) \in Nat
  BY <1>2, HeldType
<1>10. /\ invoice[today] \in Nat /\ opening[today] \in Nat /\ leaked[today] \in Nat
       /\ overrun[today] \in Nat /\ late[today] \in Int
  BY <1>2 DEF TypeOK
<1>11. LedgerIdentity'
  <2>1. spent' = (invoice[today] - opening[today] - leaked[today])
                 + Held(today)' + late[today]
    BY <1>1, <1>2, <1>4, <1>9, <1>10, AccountToday
  <2> QED
    BY <1>1, <2>1 DEF LedgerIdentity, history
<1>12. SpentBound'
  <2>1. spent' <= Budget + overrun[today]
    BY <1>1, <1>2, <1>10, AccountToday, GatewayAssumption
  <2> QED
    BY <1>1, <2>1 DEF SpentBound, history
<1>13. PastCap'
  <2> SUFFICES ASSUME NEW d \in Days, d < today
               PROVE  CapOn(d)'
    BY <1>1 DEF PastCap
  <2>1. d # today
    BY <1>2 DEF Days
  <2> QED
    BY <1>1, <1>5, <2>1, CapEverywhere DEF CapOn, Slack, history
<1> QED
  BY <1>6, <1>7, <1>8, <1>11, <1>12, <1>13

LEMMA RefuseStep ==
    ASSUME IInv, TypeOK', NEW c \in Calls, Refuse(c)
    PROVE  IInv'
<1> USE DEF IInv
<1>1. /\ phase[c] # "calling"
      /\ phase' = [phase EXCEPT ![c] = "refused"]
      /\ resOn' = resOn
      /\ est' = est /\ today' = today /\ spentOn' = today
      /\ spent' = SpentToday
      /\ UNCHANGED history
  BY DEF Refuse
<1>2. today \in Days /\ phase \in [Calls -> Phases] /\ spentOn \in Days
         /\ resOn \in [Calls -> Days]
  BY DEF TypeOK
<1>3. \A x \in Calls : phase'[x] = "calling" <=> phase[x] = "calling"
  BY <1>1, <1>2
<1>4. \A d : HeldUnits(d)' = HeldUnits(d)
  BY <1>1, <1>3, HeldUnchanged
<1>5. \A d : Held(d)' = Held(d)
  BY <1>4 DEF Held
<1>6. FutureUntouched'
  BY <1>1, RollOverKeeps
<1>7. ReservedBefore'
  BY <1>1, <1>2, <1>3 DEF ReservedBefore, FutureUntouched, Days
<1>8. HeldFinite'
  BY <1>4 DEF HeldFinite
<1>9. LedgerIdentity' /\ SpentBound'
  BY <1>1, <1>5, AccountToday DEF LedgerIdentity, SpentBound, history
<1>10. PastCap'
  BY <1>1, <1>5, CapEverywhere DEF PastCap, CapOn, Slack, history
<1> QED
  BY <1>6, <1>7, <1>8, <1>9, <1>10


(* A call in flight ends: bill is charged on its date, leak of which is    *)
(* never posted; delta is posted, and exceeds nothing but over.            *)
LEMMA EndStep ==
    ASSUME IInv, TypeOK', NEW c \in Calls, phase[c] = "calling",
           NEW next \in {"raised", "settled"},
           NEW bill \in Nat, NEW leak \in Nat, NEW over \in Nat, NEW delta \in Int,
           phase' = [phase EXCEPT ![c] = next],
           spent' = spent + delta,
           invoice' = [invoice EXCEPT ![resOn[c]] = @ + bill],
           leaked' = [leaked EXCEPT ![resOn[c]] = @ + leak],
           overrun' = [d \in Days |->
                          IF d \in {resOn[c], spentOn} THEN overrun[d] + over ELSE overrun[d]],
           PostLate(c, delta),
           UNCHANGED <<today, spentOn, est, resOn, opening>>,
           delta = bill - leak - est[c], delta <= over
    PROVE  IInv'
<1> USE DEF IInv
<1>1. /\ phase \in [Calls -> Phases] /\ resOn \in [Calls -> Days]
      /\ spentOn \in Days /\ resOn[c] \in Days /\ est[c] \in Nat
      /\ invoice \in [Days -> Nat] /\ leaked \in [Days -> Nat]
      /\ opening \in [Days -> Nat] /\ overrun \in [Days -> Nat]
      /\ late \in [Days -> Int] /\ spent \in Int
  BY DEF TypeOK
<1>2. next \in Phases /\ next # "calling"
  BY DEF Phases, Final
<1>3. IsFiniteSet(HeldUnits(resOn[c]))
  BY <1>1 DEF HeldFinite
<1>4. /\ \A d : d # resOn[c] => HeldUnits(d)' = HeldUnits(d)
      /\ IsFiniteSet(HeldUnits(resOn[c])')
      /\ Held(resOn[c])' = Held(resOn[c]) - est[c]
  BY <1>2, <1>3, HeldRemoved
<1>5. \A d : d # resOn[c] => Held(d)' = Held(d)
  BY <1>4 DEF Held
<1>6. resOn[c] <= spentOn
  BY DEF ReservedBefore
<1>7. FutureUntouched'
  <2> SUFFICES ASSUME NEW d \in Days, d > spentOn
               PROVE  (invoice[d] = 0 /\ opening[d] = 0 /\ leaked[d] = 0
                         /\ overrun[d] = 0 /\ late[d] = 0)'
    BY DEF FutureUntouched
  <2>1. d # resOn[c] /\ d # spentOn
    BY <1>1, <1>6 DEF Days
  <2> QED
    BY <1>1, <2>1 DEF FutureUntouched, PostLate
<1>8. ReservedBefore'
  BY <1>1, <1>2 DEF ReservedBefore
<1>9. HeldFinite'
  BY <1>4 DEF HeldFinite
<1>10. Held(spentOn) \in Nat /\ Held(resOn[c]) \in Nat
  BY <1>1, HeldType
<1>11. LedgerIdentity'
  <2>1. CASE resOn[c] = spentOn
    <3>1. /\ invoice'[spentOn] = invoice[spentOn] + bill
          /\ leaked'[spentOn] = leaked[spentOn] + leak
          /\ late'[spentOn] = late[spentOn]
          /\ Held(spentOn)' = Held(spentOn) - est[c]
      BY <1>1, <1>4, <2>1 DEF PostLate
    <3> QED
      BY <1>1, <1>10, <3>1 DEF LedgerIdentity
  <2>2. CASE resOn[c] # spentOn
    <3>1. /\ invoice'[spentOn] = invoice[spentOn]
          /\ leaked'[spentOn] = leaked[spentOn]
          /\ late'[spentOn] = late[spentOn] + delta
          /\ Held(spentOn)' = Held(spentOn)
      BY <1>1, <1>5, <2>2 DEF PostLate
    <3> QED
      BY <1>1, <1>10, <3>1 DEF LedgerIdentity
  <2> QED
    BY <2>1, <2>2
<1>12. SpentBound'
  <2>1. overrun'[spentOn] = overrun[spentOn] + over
    BY <1>1
  <2> QED
    BY <1>1, <2>1, GatewayAssumption DEF SpentBound
<1>13. PastCap'
  <2> SUFFICES ASSUME NEW d \in Days, d < spentOn
               PROVE  CapOn(d)'
    BY DEF PastCap
  <2>1. CapOn(d) /\ d # spentOn
    BY <1>1 DEF PastCap, Days
  <2>2. late'[d] = late[d]
    BY <1>1, <2>1 DEF PostLate
  <2>3. CASE d = resOn[c]
    <3>1. /\ invoice'[d] = invoice[d] + bill
          /\ leaked'[d] = leaked[d] + leak
          /\ overrun'[d] = overrun[d] + over
          /\ Held(d)' = Held(d) - est[c]
          /\ Held(d) \in Nat
      BY <1>1, <1>4, <1>10, <2>3
    <3> QED
      BY <1>1, <2>1, <2>2, <3>1, GatewayAssumption DEF CapOn, Slack
  <2>4. CASE d # resOn[c]
    <3>1. /\ invoice'[d] = invoice[d]
          /\ leaked'[d] = leaked[d]
          /\ overrun'[d] = overrun[d]
          /\ Held(d)' = Held(d)
      BY <1>1, <1>5, <2>1, <2>4
    <3> QED
      BY <2>1, <2>2, <3>1 DEF CapOn, Slack
  <2> QED
    BY <2>3, <2>4
<1> QED
  BY <1>7, <1>8, <1>9, <1>11, <1>12, <1>13

LEMMA RestartStep ==
    ASSUME IInv, TypeOK', Restart
    PROVE  IInv'
<1> USE DEF IInv
<1>1. /\ today \in Days /\ spentOn \in Days /\ spentOn <= today
      /\ invoice \in [Days -> Nat] /\ leaked \in [Days -> Nat]
      /\ opening \in [Days -> Nat] /\ overrun \in [Days -> Nat]
      /\ late \in [Days -> Int]
  BY DEF TypeOK, FutureUntouched
<1>2. /\ spent' = 0 /\ spentOn' = today /\ today' = today /\ invoice' = invoice
      /\ opening' = [opening EXCEPT ![today] = invoice[today]]
      /\ leaked' = [leaked EXCEPT ![today] = 0]
      /\ overrun' = [overrun EXCEPT ![today] = 0]
      /\ late' = [late EXCEPT ![today] = 0]
      /\ \A c \in Calls : phase'[c] # "calling"
  BY DEF Restart, Final
<1>3. \A d : HeldUnits(d)' = {}
  BY <1>2 DEF HeldUnits, Outstanding
<1>4. \A d : IsFiniteSet(HeldUnits(d)') /\ Held(d)' = 0
  BY <1>3, FS_EmptySet DEF Held
<1>5. FutureUntouched'
  <2> SUFFICES ASSUME NEW d \in Days, d > today
               PROVE  (invoice[d] = 0 /\ opening[d] = 0 /\ leaked[d] = 0
                         /\ overrun[d] = 0 /\ late[d] = 0)'
    BY <1>1, <1>2 DEF FutureUntouched, Days
  <2>1. d > spentOn /\ d # today
    BY <1>1 DEF Days
  <2> QED
    BY <1>1, <1>2, <2>1 DEF FutureUntouched
<1>6. ReservedBefore' /\ HeldFinite'
  BY <1>2, <1>4 DEF ReservedBefore, HeldFinite
<1>7. LedgerIdentity' /\ SpentBound'
  BY <1>1, <1>2, <1>4, GatewayAssumption DEF LedgerIdentity, SpentBound
<1>8. PastCap'
  <2> SUFFICES ASSUME NEW d \in Days, d < today
               PROVE  CapOn(d)'
    BY <1>2 DEF PastCap
  <2>1. d # today
    BY <1>1 DEF Days
  <2>2. CapOn(d) /\ Held(d) \in Nat
    BY CapEverywhere, HeldType
  <2>3. Slack(d)' = Slack(d) /\ invoice'[d] = invoice[d] /\ Held(d)' = 0
    BY <1>1, <1>2, <1>4, <2>1 DEF Slack
  <2>4. Slack(d) \in Int /\ invoice[d] \in Nat
    BY <1>1 DEF Slack
  <2> QED
    BY <2>2, <2>3, <2>4, GatewayAssumption DEF CapOn
<1> QED
  BY <1>5, <1>6, <1>7, <1>8


LEMMA InvStep == IInv /\ [Next]_vars => IInv'
<1> SUFFICES ASSUME IInv, [Next]_vars
             PROVE  IInv'
  OBVIOUS
<1>1. TypeOK'
  BY TypeStep DEF IInv
<1>2. TypeOK /\ today \in Int
  BY DEF IInv, TypeOK, Days
<1>3. ASSUME NEW c \in Calls, NEW e \in Estimates, Admit(c, e)
      PROVE  IInv'
  BY <1>1, <1>2, <1>3, LedgerUntouched DEF Admit, TypeOK
<1>4. ASSUME NEW c \in Calls, NEW e \in Estimates, OverCallCap(c, e)
      PROVE  IInv'
  BY <1>1, <1>2, <1>4, LedgerUntouched DEF OverCallCap, TypeOK
<1>5. ASSUME NEW c \in Calls, TurnAway(c)
      PROVE  IInv'
  BY <1>1, <1>2, <1>5, LedgerUntouched DEF TurnAway, TypeOK
<1>6. ASSUME NEW c \in Calls, Reserve(c)
      PROVE  IInv'
  BY <1>1, <1>6, ReserveStep
<1>7. ASSUME NEW c \in Calls, Refuse(c)
      PROVE  IInv'
  BY <1>1, <1>7, RefuseStep
<1>8. ASSUME NEW c \in Calls, NEW bill \in FailureBills, ProviderFails(c, bill)
      PROVE  IInv'
  <2>1. bill \in Nat /\ est[c] \in Nat /\ spent \in Int /\ overrun \in [Days -> Nat]
    BY <1>2, GatewayAssumption DEF TypeOK
  <2>2. overrun' = [d \in Days |->
                       IF d \in {resOn[c], spentOn} THEN overrun[d] + 0 ELSE overrun[d]]
    BY <1>8, <2>1 DEF ProviderFails
  <2>3. spent' = spent + (-est[c])
    BY <1>8, <2>1 DEF ProviderFails
  <2>4. -est[c] = bill - bill - est[c] /\ -est[c] <= 0 /\ -est[c] \in Int
    BY <2>1
  <2>5. /\ phase[c] = "calling"
        /\ phase' = [phase EXCEPT ![c] = "raised"]
        /\ invoice' = [invoice EXCEPT ![resOn[c]] = @ + bill]
        /\ leaked' = [leaked EXCEPT ![resOn[c]] = @ + bill]
        /\ PostLate(c, -est[c])
        /\ UNCHANGED <<today, spentOn, est, resOn, opening>>
    BY <1>8 DEF ProviderFails
  <2> QED
    BY <1>1, <2>1, <2>2, <2>3, <2>4, <2>5, EndStep
<1>9. ASSUME NEW c \in Calls, NEW cost \in Costs, Settle(c, cost)
      PROVE  IInv'
  <2> DEFINE charge == Charge(c, cost)
             over == Excess(charge, est[c])
  <2>1. charge \in Nat /\ est[c] \in Nat /\ leaked \in [Days -> Nat]
    BY <1>2, GatewayAssumption DEF TypeOK, Charge
  <2>2. over \in Nat /\ charge - est[c] <= over
    BY <2>1 DEF Excess
  <2>3. leaked' = [leaked EXCEPT ![resOn[c]] = @ + 0]
    <3>1. leaked' = leaked
      BY <1>9 DEF Settle
    <3>2. leaked[resOn[c]] \in Nat
      BY <1>2 DEF TypeOK
    <3> HIDE DEF charge, over
    <3> QED
      BY <2>1, <3>1, <3>2
  <2>4. charge - est[c] = charge - 0 - est[c] /\ charge - est[c] \in Int
    BY <2>1
  <2>5. /\ phase[c] = "calling"
        /\ spent' = spent + (charge - est[c])
        /\ phase' = [phase EXCEPT ![c] = "settled"]
        /\ invoice' = [invoice EXCEPT ![resOn[c]] = @ + charge]
        /\ overrun' = [d \in Days |->
                          IF d \in {resOn[c], spentOn} THEN overrun[d] + over ELSE overrun[d]]
        /\ PostLate(c, charge - est[c])
        /\ UNCHANGED <<today, spentOn, est, resOn, opening>>
    BY <1>9 DEF Settle
  <2> HIDE DEF charge, over
  <2> QED
    BY <1>1, <2>1, <2>2, <2>3, <2>4, <2>5, EndStep
<1>10. ASSUME NEW c \in Calls, Record(c) \/ RecordFails(c)
       PROVE  IInv'
  BY <1>1, <1>2, <1>10, LedgerUntouched DEF Record, RecordFails, TypeOK
<1>11. CASE Tick
  BY <1>1, <1>2, <1>11, LedgerUntouched DEF Tick, program
<1>12. CASE Restart
  BY <1>1, <1>12, RestartStep
<1>13. CASE UNCHANGED vars
  BY <1>1, <1>2, <1>13, LedgerUntouched DEF vars, program
<1> QED
  BY <1>3, <1>4, <1>5, <1>6, <1>7, <1>8, <1>9, <1>10, <1>11, <1>12, <1>13
  DEF Next, ProviderEnds

LEMMA InvHolds == Spec => []IInv
  BY InvInit, InvStep, PTL DEF Spec

----------------------------------------------------------------------------
(* Whatever the interleaving of reservations, releases, reconciliations,   *)
(* midnights and restarts, _spent is exactly the open account's charges    *)
(* and reservations, up to the discrepancies the history names.            *)
THEOREM LedgerIdentityHolds == Spec => []LedgerIdentity
  BY InvHolds, PTL DEF IInv

(* On every date what was charged and may still be charged stays within    *)
(* the daily budget and the named discrepancies.                           *)
THEOREM DailyCapHolds == Spec => []DailyCap
<1>1. IInv => DailyCap
  BY CapEverywhere DEF CapOn, DailyCap
<1> QED
  BY <1>1, InvHolds, PTL

(* A call is refused only when the charges and reservations of its date    *)
(* leave no room for it: a released or settled reservation is given back   *)
(* in full.                                                                *)
THEOREM RefusalIsJustified == Spec => RefusalJustified
<1>1. IInv /\ [Next]_vars =>
         [\A c \in Calls :
            phase[c] = "admitted" /\ phase'[c] = "refused" /\ Clean(today)
              => invoice[today] + Held(today) + est[c] > Budget]_vars
  <2> SUFFICES ASSUME IInv, Next, NEW c \in Calls,
                      phase[c] = "admitted", phase'[c] = "refused", Clean(today)
               PROVE  invoice[today] + Held(today) + est[c] > Budget
    BY DEF vars
  <2>1. Refuse(c)
    <3>1. phase \in [Calls -> Phases]
      BY DEF IInv, TypeOK
    <3> QED
      BY <3>1 DEF Next, Admit, OverCallCap, TurnAway, Reserve, Refuse, ProviderEnds,
                  ProviderFails, Settle, Record, RecordFails, Tick, Restart, program, Final
  <2>2. today \in Days /\ est[c] \in Nat /\ invoice[today] \in Nat
    BY DEF IInv, TypeOK
  <2>3. Held(today) \in Nat
    BY <2>2, HeldType
  <2>4. SpentToday = invoice[today] + Held(today)
    BY <2>2, <2>3, AccountToday DEF Clean
  <2> QED
    BY <2>1, <2>2, <2>3, <2>4, GatewayAssumption DEF Refuse, Affordable
<1> QED
  BY <1>1, InvHolds, PTL DEF Spec, RefusalJustified
=============================================================================
