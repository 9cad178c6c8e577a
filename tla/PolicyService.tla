---------------------------- MODULE PolicyService ----------------------------
(***************************************************************************)
(* What the policy service promises a caller, without its stages, its log  *)
(* or its budget.  A question let in is shown some of what its principal   *)
(* may read; the model is asked about that once at most, and never before; *)
(* an answer cites what was shown and rests on a reply of the model.  A    *)
(* question refused was never put to the model; one that failed may have   *)
(* been, even if nobody learns the reply.                                  *)
(***************************************************************************)
CONSTANTS
    Runs,      \* questions
    Citation,  \* what an answer can cite; each has a rule
    Permitted  \* Permitted[r]: what the search of r may find

VARIABLES
    state,  \* state[r]: waiting, open, or how the question ended
    shown,  \* shown[r]: what an open or answered question was shown
    call,   \* call[r]: the model was not asked, is being asked, was asked
    answer  \* answer[r]: the citations of an answer

vars == <<state, shown, call, answer>>

Init ==
    /\ state = [r \in Runs |-> "waiting"]
    /\ shown = [r \in Runs |-> {}]
    /\ call = [r \in Runs |-> "none"]
    /\ answer = [r \in Runs |-> {}]

LetIn(r) ==
    /\ state[r] = "waiting"
    /\ state' = [state EXCEPT ![r] = "open"]
    /\ UNCHANGED <<shown, call, answer>>

Show(r) ==
    /\ state[r] = "open" /\ shown[r] = {} /\ call[r] = "none"
    /\ \E found \in (SUBSET Permitted[r]) \ {{}} : shown' = [shown EXCEPT ![r] = found]
    /\ UNCHANGED <<state, call, answer>>

Consult(r) ==
    /\ state[r] = "open" /\ shown[r] # {} /\ call[r] = "none"
    /\ call' = [call EXCEPT ![r] = "out"]
    /\ UNCHANGED <<state, shown, answer>>

Hear(r) ==
    /\ state[r] = "open" /\ call[r] = "out"
    /\ call' = [call EXCEPT ![r] = "over"]
    /\ UNCHANGED <<state, shown, answer>>

Answer(r) ==
    /\ state[r] = "open" /\ call[r] = "over"
    /\ state' = [state EXCEPT ![r] = "answered"]
    /\ \E cites \in (SUBSET Citation) \ {{}} :
          /\ \A c \in cites : \E s \in shown[r] : c.rule = s.rule
          /\ answer' = [answer EXCEPT ![r] = cites]
    /\ UNCHANGED <<shown, call>>

Refuse(r) ==
    /\ state[r] \in {"waiting", "open"} /\ call[r] = "none"
    /\ state' = [state EXCEPT ![r] = "refused"]
    /\ shown' = [shown EXCEPT ![r] = {}]
    /\ UNCHANGED <<call, answer>>

Over(c) == IF c = "out" THEN "over" ELSE c

Fail(r) ==
    /\ state[r] \in {"waiting", "open"}
    /\ state' = [state EXCEPT ![r] = "failed"]
    /\ shown' = [shown EXCEPT ![r] = {}]
    /\ call' = [call EXCEPT ![r] = Over(@)]
    /\ UNCHANGED answer

(* Every open question fails at once. *)
Restart ==
    /\ state' = [r \in Runs |-> IF state[r] = "open" THEN "failed" ELSE state[r]]
    /\ shown' = [r \in Runs |-> IF state[r] = "open" THEN {} ELSE shown[r]]
    /\ call' = [r \in Runs |-> IF state[r] = "open" THEN Over(call[r]) ELSE call[r]]
    /\ UNCHANGED answer

Next ==
    \/ \E r \in Runs : LetIn(r) \/ Show(r) \/ Consult(r) \/ Hear(r)
                       \/ Answer(r) \/ Refuse(r) \/ Fail(r)
    \/ Restart

Spec == Init /\ [][Next]_vars
=============================================================================
