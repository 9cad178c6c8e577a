---------------------------- MODULE ModelGateway ----------------------------
(***************************************************************************)
(* The model gateway (fsa_gateway/gateway.py): every model call is         *)
(* screened, reserved against the daily budget under a lock, sent to the   *)
(* provider without the lock, settled under the lock and recorded.         *)
(*                                                                         *)
(* A call is one invocation of ModelGateway.complete on a request thread.  *)
(* Money is counted in whole units; a call's estimate, the cost a provider *)
(* reports and what it bills for a failed call come from small sets.       *)
(*                                                                         *)
(* spent, spentOn and phase are the program's.  invoice, opening, leaked,  *)
(* overrun and late are history: they say, for each UTC date, what the     *)
(* provider really charged for the calls authorised on it and every way    *)
(* in which the program's one running total can differ from that.          *)
(***************************************************************************)
EXTENDS Integers, FiniteSets

CONSTANTS
    Calls,         \* invocations of ModelGateway.complete
    Budget,        \* daily_budget_usd
    CallCap,       \* max_cost_usd_per_call of the routes
    Estimates,     \* worst-case estimates that routes and prompts give
    Costs,         \* costs a provider reports; 0 when it reports no usage
    FailureBills,  \* what a provider bills for a call that raised
    MaxDay,        \* bound: UTC dates 0..MaxDay
    MaxRestarts    \* bound: restarts of the process

ASSUME GatewayAssumption ==
    /\ Budget \in Nat
    /\ CallCap \in Nat
    /\ Estimates \subseteq Nat
    /\ Costs \subseteq Nat
    /\ FailureBills \subseteq Nat
    /\ MaxDay \in Nat
    /\ MaxRestarts \in Nat

Days == 0..MaxDay

Final == {"returned", "refused", "raised", "lost"}

Phases == {"idle", "admitted", "calling", "settled"} \cup Final

VARIABLES
    today,     \* the UTC date
    restarts,  \* restarts so far
    spent,     \* ModelGateway._spent
    spentOn,   \* ModelGateway._spent_on
    phase,     \* phase[c]: how far complete() has come
    est,       \* est[c]: the local variable estimate
    resOn,     \* resOn[c]: the date of the account the call reserved in
    logged,    \* calls with an LlmRecord in the interaction log
    sent,      \* calls handed to the provider
    invoice,   \* invoice[d]: charged for the calls authorised on d
    opening,   \* opening[d]: invoice[d] when the process restarted on d
    leaked,    \* leaked[d]: charged for calls of d that raised
    overrun,   \* overrun[d]: charged beyond the estimate, posted on d
    late       \* late[d]: posted on d's account for calls of another date

program == <<spent, spentOn, phase, est, resOn>>
history == <<invoice, opening, leaked, overrun, late>>
vars == <<today, restarts, program, logged, sent, history>>

----------------------------------------------------------------------------
(* What is reserved.  A reservation of e units made by c is the set of     *)
(* tokens {c} \X (1..e), so that the sum of several is a cardinality.      *)

Outstanding(d) == {c \in Calls : phase[c] = "calling" /\ resOn[c] = d}

HeldUnits(d) == UNION {{c} \X (1..est[c]) : c \in Outstanding(d)}

Held(d) == Cardinality(HeldUnits(d))

(* What a charge has beyond its estimate, for the history. *)
Excess(charge, e) == IF charge > e THEN charge - e ELSE 0

----------------------------------------------------------------------------
(* ModelGateway.__init__ *)
Init ==
    /\ today = 0
    /\ restarts = 0
    /\ spent = 0
    /\ spentOn = 0
    /\ phase = [c \in Calls |-> "idle"]
    /\ est = [c \in Calls |-> 0]
    /\ resOn = [c \in Calls |-> 0]
    /\ logged = {}
    /\ sent = {}
    /\ invoice = [d \in Days |-> 0]
    /\ opening = [d \in Days |-> 0]
    /\ leaked = [d \in Days |-> 0]
    /\ overrun = [d \in Days |-> 0]
    /\ late = [d \in Days |-> 0]

(* The route is known, the input rail passes the prompt and its record is  *)
(* written; the estimate is within the per-call cap.                       *)
Admit(c, e) ==
    /\ phase[c] = "idle"
    /\ e <= CallCap
    /\ phase' = [phase EXCEPT ![c] = "admitted"]
    /\ est' = [est EXCEPT ![c] = e]
    /\ UNCHANGED <<today, restarts, spent, spentOn, resOn, logged, sent, history>>

(* The estimate is over the per-call cap: BudgetExceededError. *)
OverCallCap(c, e) ==
    /\ phase[c] = "idle"
    /\ e > CallCap
    /\ phase' = [phase EXCEPT ![c] = "refused"]
    /\ UNCHANGED <<today, restarts, spent, spentOn, est, resOn, logged, sent, history>>

(* An unknown route, a prompt the PII rail blocks, or a rail record that   *)
(* cannot be written: complete() raises before anything is reserved.       *)
TurnAway(c) ==
    /\ phase[c] = "idle"
    /\ phase' = [phase EXCEPT ![c] = "raised"]
    /\ UNCHANGED <<today, restarts, spent, spentOn, est, resOn, logged, sent, history>>

(* Mutant: the running total is never moved to a new date. *)
SpentSinceStart == spent

(* What _reserve finds in the running total once it has compared dates. *)
SpentToday == IF today # spentOn THEN 0 ELSE spent

(* Mutant: what is already recorded is compared with the budget, and the   *)
(* call being authorised is not counted.                                   *)
AffordableUncounted(e) == SpentToday <= Budget

Affordable(e) == SpentToday + e <= Budget

(* _reserve: the date check, the cap check and the addition are one        *)
(* critical section.                                                       *)
Reserve(c) ==
    /\ phase[c] = "admitted"
    /\ Affordable(est[c])
    /\ spentOn' = today
    /\ spent' = SpentToday + est[c]
    /\ phase' = [phase EXCEPT ![c] = "calling"]
    /\ resOn' = [resOn EXCEPT ![c] = today]
    /\ sent' = sent \cup {c}
    /\ UNCHANGED <<today, restarts, est, logged, history>>

(* _reserve raises; the move to a new date it made first is kept. *)
Refuse(c) ==
    /\ phase[c] = "admitted"
    /\ ~Affordable(est[c])
    /\ spentOn' = today
    /\ spent' = SpentToday
    /\ phase' = [phase EXCEPT ![c] = "refused"]
    /\ UNCHANGED <<today, restarts, est, resOn, logged, sent, history>>

(* A delta of the running total for call c, entered in its history: on the *)
(* call's own date it belongs to the account, on any other it is late.     *)
PostLate(c, delta) ==
    late' = IF resOn[c] = spentOn THEN late
            ELSE [late EXCEPT ![spentOn] = @ + delta]

(* What a completion is charged: the reported cost, or the estimate when   *)
(* no usage is reported.                                                   *)
Charge(c, cost) == IF cost > 0 THEN cost ELSE est[c]

(* Mutant: a failed call keeps its reservation. *)
ProviderFailsUnreleased(c, bill) ==
    /\ phase[c] = "calling"
    /\ phase' = [phase EXCEPT ![c] = "raised"]
    /\ invoice' = [invoice EXCEPT ![resOn[c]] = @ + bill]
    /\ leaked' = [leaked EXCEPT ![resOn[c]] = @ + bill]
    /\ UNCHANGED <<today, restarts, spent, spentOn, est, resOn, logged, sent,
                   opening, overrun, late>>

(* The provider raises and the reservation is released.  The thread does   *)
(* nothing else between the two, so they are one step.                     *)
ProviderFails(c, bill) ==
    /\ phase[c] = "calling"
    /\ spent' = spent - est[c]
    /\ phase' = [phase EXCEPT ![c] = "raised"]
    /\ invoice' = [invoice EXCEPT ![resOn[c]] = @ + bill]
    /\ leaked' = [leaked EXCEPT ![resOn[c]] = @ + bill]
    /\ PostLate(c, -est[c])
    /\ UNCHANGED <<today, restarts, spentOn, est, resOn, logged, sent, opening, overrun>>

(* The provider answers and the reservation is reconciled with the charge. *)
Settle(c, cost) ==
    LET charge == Charge(c, cost) IN
    /\ phase[c] = "calling"
    /\ spent' = spent + (charge - est[c])
    /\ phase' = [phase EXCEPT ![c] = "settled"]
    /\ invoice' = [invoice EXCEPT ![resOn[c]] = @ + charge]
    /\ overrun' = [d \in Days |->
                      IF d \in {resOn[c], spentOn}
                      THEN overrun[d] + Excess(charge, est[c]) ELSE overrun[d]]
    /\ PostLate(c, charge - est[c])
    /\ UNCHANGED <<today, restarts, spentOn, est, resOn, logged, sent, opening, leaked>>

(* The LlmRecord is written and the completion is returned. *)
Record(c) ==
    /\ phase[c] = "settled"
    /\ logged' = logged \cup {c}
    /\ phase' = [phase EXCEPT ![c] = "returned"]
    /\ UNCHANGED <<today, restarts, spent, spentOn, est, resOn, sent, history>>

(* The log's disk write fails: the caller gets the OSError although the    *)
(* call was answered and charged.                                          *)
RecordFails(c) ==
    /\ phase[c] = "settled"
    /\ phase' = [phase EXCEPT ![c] = "raised"]
    /\ UNCHANGED <<today, restarts, spent, spentOn, est, resOn, logged, sent, history>>

(* Midnight, UTC. *)
Tick ==
    /\ today < MaxDay
    /\ today' = today + 1
    /\ UNCHANGED <<restarts, program, logged, sent, history>>

(* Mutant: a new process has no date until its first call. *)
RestartUndated ==
    /\ restarts < MaxRestarts
    /\ restarts' = restarts + 1
    /\ spent' = 0
    /\ spentOn' = -1
    /\ phase' = [c \in Calls |->
                    IF phase[c] \in Final \cup {"idle"} THEN phase[c] ELSE "lost"]
    /\ opening' = [opening EXCEPT ![today] = invoice[today]]
    /\ leaked' = [leaked EXCEPT ![today] = 0]
    /\ overrun' = [overrun EXCEPT ![today] = 0]
    /\ late' = [late EXCEPT ![today] = 0]
    /\ UNCHANGED <<today, est, resOn, logged, sent, invoice>>

(* The process dies and a new one builds its gateway: the running total is *)
(* in memory only, and the calls in flight are lost with their threads.    *)
Restart ==
    /\ restarts < MaxRestarts
    /\ restarts' = restarts + 1
    /\ spent' = 0
    /\ spentOn' = today
    /\ phase' = [c \in Calls |->
                    IF phase[c] \in Final \cup {"idle"} THEN phase[c] ELSE "lost"]
    /\ opening' = [opening EXCEPT ![today] = invoice[today]]
    /\ leaked' = [leaked EXCEPT ![today] = 0]
    /\ overrun' = [overrun EXCEPT ![today] = 0]
    /\ late' = [late EXCEPT ![today] = 0]
    /\ UNCHANGED <<today, est, resOn, logged, sent, invoice>>

ProviderEnds(c) ==
    \/ \E bill \in FailureBills : ProviderFails(c, bill)
    \/ \E cost \in Costs : Settle(c, cost)

Next ==
    \/ \E c \in Calls :
          \/ \E e \in Estimates : Admit(c, e) \/ OverCallCap(c, e)
          \/ TurnAway(c)
          \/ Reserve(c)
          \/ Refuse(c)
          \/ ProviderEnds(c)
          \/ Record(c)
          \/ RecordFails(c)
    \/ Tick
    \/ Restart

Spec == Init /\ [][Next]_vars

----------------------------------------------------------------------------
(* Type invariant. *)
TypeOK ==
    /\ today \in Days
    /\ restarts \in 0..MaxRestarts
    /\ spent \in Int
    /\ spentOn \in Days
    /\ phase \in [Calls -> Phases]
    /\ est \in [Calls -> Nat]
    /\ resOn \in [Calls -> Days]
    /\ logged \subseteq Calls
    /\ sent \subseteq Calls
    /\ invoice \in [Days -> Nat]
    /\ opening \in [Days -> Nat]
    /\ leaked \in [Days -> Nat]
    /\ overrun \in [Days -> Nat]
    /\ late \in [Days -> Int]

(* The running total is the open account's charges and reservations, up to *)
(* the discrepancies the history names: no interleaving of reservations,   *)
(* releases and reconciliations on other threads loses or repeats one.     *)
LedgerIdentity ==
    spent = (invoice[spentOn] - opening[spentOn] - leaked[spentOn])
            + Held(spentOn) + late[spentOn]

(* On every date, what was charged and what may still be charged exceeds   *)
(* the daily budget at most by what the history names: charges before a    *)
(* restart, charges of failed calls, charges beyond the estimate, and      *)
(* reservations of an earlier date given back on this one.  Where none of  *)
(* these happened the gateway's promise holds as it stands, "a per-run and *)
(* per-day budget is enforced before the call, so spend is bounded by      *)
(* design".                                                                *)
Slack(d) == opening[d] + leaked[d] + overrun[d] - late[d]

DailyCap == \A d \in Days : invoice[d] + Held(d) <= Budget + Slack(d)

(* A date on which none of these happened. *)
Clean(d) == opening[d] = 0 /\ leaked[d] = 0 /\ overrun[d] = 0 /\ late[d] = 0

(* A call is refused only when what is charged and reserved on its date    *)
(* leaves no room for it: neither a failed call nor a settled one keeps    *)
(* any part of its reservation.                                            *)
RefusalJustified ==
    [][\A c \in Calls :
          phase[c] = "admitted" /\ phase'[c] = "refused" /\ Clean(today)
              => invoice[today] + Held(today) + est[c] > Budget]_vars

(* gateway.py:9-10 and 89-91, without the qualification: the calls of a    *)
(* date never cost more than the daily budget, and a restart grants no     *)
(* fresh one.                                                              *)
DailyBillWithinBudget == \A d \in Days : invoice[d] <= Budget
=============================================================================
