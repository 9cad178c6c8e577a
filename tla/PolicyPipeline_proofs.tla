------------------------ MODULE PolicyPipeline_proofs -----------------------
(***************************************************************************)
(* Proofs about PolicyPipeline for every set of runs, documents and        *)
(* replies: what an answer rests on, what the log tells of a run, what the *)
(* service costs, and that it is a PolicyService.                          *)
(***************************************************************************)
EXTENDS PolicyPipeline, SequenceTheorems, TLAPS

(* A step of the pipeline that changes nothing of the gateway. *)
LEMMA GatewayUntouched ==
    ASSUME UNCHANGED gateway
    PROVE  UNCHANGED G!vars
  BY DEF gateway, G!vars, G!program, G!history

LEMMA GatewayStep == [Next]_vars => [G!Next]_G!vars
<1> SUFFICES ASSUME [Next]_vars
             PROVE  G!Next \/ UNCHANGED G!vars
  OBVIOUS
<1>1. ASSUME NEW r \in Runs, NEW s \in Screenings, Ask(r, s) \/ AskUnrecorded(r, s)
      PROVE  UNCHANGED gateway
  BY <1>1 DEF Ask, AskUnrecorded, gateway
<1>2. ASSUME NEW r \in Runs, Proceed(r)
      PROVE  G!Next \/ UNCHANGED gateway
  <2>1. ASSUME NEW docs \in SUBSET Documents, Retrieve(r, docs)
        PROVE  UNCHANGED gateway
    BY <2>1 DEF Retrieve, gateway
  <2>2. CASE RetrieveDenied(r)
    BY <2>2 DEF RetrieveDenied, gateway
  <2>3. ASSUME NEW e \in Estimates, Prompt(r, e)
        PROVE  G!Next
    BY <2>3 DEF Prompt, G!Next
  <2>4. CASE PromptRejected(r)
    BY <2>4 DEF PromptRejected, G!Next
  <2>5. CASE Reserve(r)
    BY <2>5 DEF Reserve, G!Next
  <2>6. CASE Generate(r)
    BY <2>6 DEF Generate, G!Next, G!ProviderEnds
  <2>7. ASSUME NEW reply \in Replies, Digest(r, reply)
        PROVE  G!Next
    BY <2>7 DEF Digest, G!Next
  <2>8. CASE DigestUnrecorded(r)
    BY <2>8 DEF DigestUnrecorded, G!Next
  <2>9. ASSUME NEW leak \in BOOLEAN, Screen(r, leak)
        PROVE  UNCHANGED gateway
    BY <2>9 DEF Screen, gateway
  <2> QED
    BY <1>2, <2>1, <2>2, <2>3, <2>4, <2>5, <2>6, <2>7, <2>8, <2>9 DEF Proceed
<1>3. CASE Midnight \/ Restart
  BY <1>3 DEF Midnight, Restart, G!Next
<1>4. UNCHANGED vars => UNCHANGED gateway
  BY DEF vars
<1> QED
  BY <1>1, <1>2, <1>3, <1>4, GatewayUntouched DEF Next

(* The gateway the runs drive behaves as ModelGateway says.                *)
LEMMA GatewayDriven == Spec => G!Spec
<1>1. Init => G!Init
  BY DEF Init
<1> QED
  BY <1>1, GatewayStep, PTL DEF Spec, G!Spec

----------------------------------------------------------------------------
(* What an answer rests on: the chunks of a run are permitted ones, and    *)
(* from the moment it is grounded its citations are of their rules.        *)
ChunksPermitted ==
    \A r \in Runs : \A chunk \in chunks[r] :
        chunk \in Searchable[r] /\ chunk.document \in allowed[r]

CitationsGrounded ==
    \A r \in Runs :
        stage[r] \in {"grounded", "answered"} =>
            /\ cited[r] # {}
            /\ \A c \in cited[r] : \E chunk \in chunks[r] : c.rule = chunk.rule

AnswerShape ==
    /\ stage \in [Runs -> Stages \cup Ended]
    /\ allowed = [r \in Runs |-> allowed[r]]
    /\ chunks = [r \in Runs |-> chunks[r]]
    /\ cited = [r \in Runs |-> cited[r]]

AnswerInv == AnswerShape /\ ChunksPermitted /\ CitationsGrounded

LEMMA AnswerInit == Init => AnswerInv
  BY DEF Init, AnswerInv, AnswerShape, ChunksPermitted, CitationsGrounded, Stages

(* A step that leaves the chunks alone and grounds no run. *)
LEMMA NothingGrounded ==
    ASSUME AnswerInv,
           UNCHANGED <<allowed, chunks, cited>>,
           stage' \in [Runs -> Stages \cup Ended],
           \A r \in Runs : stage'[r] \in {"grounded", "answered"}
                             => stage[r] \in {"grounded", "answered"}
    PROVE  AnswerInv'
  BY DEF AnswerInv, AnswerShape, ChunksPermitted, CitationsGrounded

(* A run that moves to a stage without an answer. *)
LEMMA MovesUngrounded ==
    ASSUME AnswerInv, NEW r \in Runs,
           NEW to \in {"screened", "retrieved", "degraded", "errored", "lost"},
           stage' = [stage EXCEPT ![r] = to],
           UNCHANGED <<allowed, chunks, cited>>
    PROVE  AnswerInv'
<1>1. /\ stage' \in [Runs -> Stages \cup Ended]
      /\ \A q \in Runs : stage'[q] \in {"grounded", "answered"}
                          => stage[q] \in {"grounded", "answered"}
  BY DEF AnswerInv, AnswerShape, Stages, Ended
<1> QED
  BY <1>1, NothingGrounded

LEMMA AnswerStep == AnswerInv /\ [Next]_vars => AnswerInv'
<1> SUFFICES ASSUME AnswerInv, [Next]_vars
             PROVE  AnswerInv'
  OBVIOUS
<1>1. ASSUME NEW r \in Runs, NEW s \in Screenings, Ask(r, s) \/ AskUnrecorded(r, s)
      PROVE  AnswerInv'
  <2>1. /\ UNCHANGED <<allowed, chunks, cited>>
        /\ \E to \in {"screened", "degraded", "errored"} :
              stage' = [stage EXCEPT ![r] = to]
    BY <1>1 DEF Ask, AskUnrecorded, Ends, Errs, Moves
  <2> QED
    BY <2>1, MovesUngrounded
<1>2. ASSUME NEW r \in Runs, Proceed(r)
      PROVE  AnswerInv'
  <2>1. ASSUME NEW docs \in SUBSET Documents, Retrieve(r, docs)
        PROVE  AnswerInv'
    <3>1. PICK top \in TopK(Candidates(r, docs)) :
             chunks' = [chunks EXCEPT ![r] = top]
      BY <2>1 DEF Retrieve
    <3>2. /\ allowed' = [allowed EXCEPT ![r] = docs]
          /\ cited' = cited
          /\ \E to \in {"degraded", "retrieved", "errored"} :
                stage' = [stage EXCEPT ![r] = to]
      BY <2>1 DEF Retrieve, Ends, Moves, Errs
    <3>3. \A chunk \in top : chunk \in Searchable[r] /\ chunk.document \in docs
      BY DEF TopK, Candidates
    <3>4. AnswerShape'
      BY <3>1, <3>2 DEF AnswerInv, AnswerShape, Stages, Ended
    <3>5. ChunksPermitted'
      BY <3>1, <3>2, <3>3 DEF AnswerInv, AnswerShape, ChunksPermitted
    <3>6. CitationsGrounded'
      BY <3>1, <3>2 DEF AnswerInv, AnswerShape, CitationsGrounded
    <3> QED
      BY <3>4, <3>5, <3>6 DEF AnswerInv
  <2>2. CASE \/ RetrieveDenied(r) \/ PromptRejected(r) \/ Reserve(r)
             \/ Generate(r) \/ DigestUnrecorded(r)
             \/ \E e \in Estimates : Prompt(r, e)
    <3>1. /\ UNCHANGED <<allowed, chunks, cited>>
          /\ \/ stage' = stage
             \/ \E to \in {"degraded", "errored"} : stage' = [stage EXCEPT ![r] = to]
      BY <2>2 DEF RetrieveDenied, PromptRejected, Reserve, Generate,
                  DigestUnrecorded, Prompt, Ends, Errs
    <3>2. CASE stage' = stage
      BY <3>1, <3>2, NothingGrounded DEF AnswerInv, AnswerShape
    <3> QED
      BY <3>1, <3>2, MovesUngrounded
  <2>3. ASSUME NEW reply \in Replies, Digest(r, reply)
        PROVE  AnswerInv'
    <3>1. CASE Grounded(r, reply) # {}
      <4>1. /\ UNCHANGED <<allowed, chunks>>
            /\ cited' = [cited EXCEPT ![r] = Grounded(r, reply)]
            /\ stage' = [stage EXCEPT ![r] = "grounded"]
        BY <2>3, <3>1 DEF Digest, Moves
      <4>2. \A c \in Grounded(r, reply) : \E chunk \in chunks[r] : c.rule = chunk.rule
        BY DEF Grounded
      <4>3. AnswerShape' /\ ChunksPermitted'
        BY <4>1 DEF AnswerInv, AnswerShape, ChunksPermitted, Stages
      <4>4. CitationsGrounded'
        BY <3>1, <4>1, <4>2 DEF AnswerInv, AnswerShape, CitationsGrounded
      <4> QED
        BY <4>3, <4>4 DEF AnswerInv
    <3>2. CASE Grounded(r, reply) = {}
      <4>1. /\ UNCHANGED <<allowed, chunks, cited>>
            /\ stage' = [stage EXCEPT ![r] = "degraded"]
        BY <2>3, <3>2 DEF Digest, Ends
      <4> QED
        BY <4>1, MovesUngrounded
    <3> QED
      BY <3>1, <3>2
  <2>4. ASSUME NEW leak \in BOOLEAN, Screen(r, leak)
        PROVE  AnswerInv'
    <3>1. /\ stage[r] = "grounded"
          /\ UNCHANGED <<allowed, chunks, cited>>
          /\ \E to \in {"answered", "degraded", "errored"} :
                stage' = [stage EXCEPT ![r] = to]
      BY <2>4 DEF Screen, Ends, Errs, Moves
    <3>2. /\ stage' \in [Runs -> Stages \cup Ended]
          /\ \A q \in Runs : stage'[q] \in {"grounded", "answered"}
                              => stage[q] \in {"grounded", "answered"}
      BY <3>1 DEF AnswerInv, AnswerShape, Ended
    <3> QED
      BY <3>1, <3>2, NothingGrounded
  <2> QED
    BY <1>2, <2>1, <2>2, <2>3, <2>4 DEF Proceed
<1>3. CASE Midnight
  BY <1>3, NothingGrounded DEF Midnight, request, AnswerInv, AnswerShape
<1>4. CASE Restart
  <2>1. /\ UNCHANGED <<allowed, chunks, cited>>
        /\ stage' \in [Runs -> Stages \cup Ended]
        /\ \A q \in Runs : stage'[q] \in {"grounded", "answered"}
                            => stage[q] \in {"grounded", "answered"}
    BY <1>4 DEF Restart, AnswerInv, AnswerShape, Ended
  <2> QED
    BY <2>1, NothingGrounded
<1>5. CASE UNCHANGED vars
  BY <1>5, NothingGrounded DEF vars, request, AnswerInv, AnswerShape
<1> QED
  BY <1>1, <1>2, <1>3, <1>4, <1>5 DEF Next

(* Every answer the service gives cites rules of chunks that were in force *)
(* for the question's date, of the asking principal's tenant, in documents *)
(* the authorisation store had listed for that principal.                  *)
THEOREM AnswersAreGrounded == Spec => []GroundedInPermitted
<1>1. AnswerInv => GroundedInPermitted
  BY DEF AnswerInv, ChunksPermitted, CitationsGrounded, GroundedInPermitted
<1> QED
  BY <1>1, AnswerInit, AnswerStep, PTL DEF Spec

----------------------------------------------------------------------------
(* How far a run has come and how far its gateway call has come: a call is *)
(* under way only for a run that has retrieved something and not ended,    *)
(* and what the caller was told agrees with what the provider was sent.    *)
CallMatchesStage ==
    \A r \in Runs :
        /\ phase[r] \in {"admitted", "calling", "settled"} => stage[r] = "retrieved"
        /\ stage[r] \in {"idle", "screened"} => phase[r] = "idle"
        /\ stage[r] \in {"grounded", "answered"} => phase[r] = "returned"

SentMatchesCall ==
    \A r \in Runs :
        /\ phase[r] \in {"idle", "admitted"} => r \notin sent
        /\ phase[r] \in {"calling", "settled", "returned"} => r \in sent
        /\ phase[r] = "returned" => r \in logged

ReasonMatchesSent ==
    \A r \in Runs :
        /\ reason[r] # "none" => stage[r] = "degraded"
        /\ reason[r] \in {"injection_blocked", "authz_unavailable",
                          "no_permitted_context", "budget_exceeded"} => r \notin sent

OutcomeShape ==
    /\ stage = [r \in Runs |-> stage[r]]
    /\ phase = [r \in Runs |-> phase[r]]
    /\ reason = [r \in Runs |-> reason[r]]

OutcomeInv == OutcomeShape /\ CallMatchesStage /\ SentMatchesCall /\ ReasonMatchesSent

LEMMA OutcomeInit == Init => OutcomeInv
  BY DEF Init, G!Init, OutcomeInv, OutcomeShape, CallMatchesStage,
         SentMatchesCall, ReasonMatchesSent

LEMMA OutcomeStep == OutcomeInv /\ [Next]_vars => OutcomeInv'
<1> SUFFICES ASSUME OutcomeInv, [Next]_vars
             PROVE  OutcomeInv'
  OBVIOUS
<1> USE DEF OutcomeInv, OutcomeShape, CallMatchesStage, SentMatchesCall, ReasonMatchesSent
<1>1. ASSUME NEW r \in Runs, NEW s \in Screenings, Ask(r, s) \/ AskUnrecorded(r, s)
      PROVE  OutcomeInv'
  BY <1>1 DEF Ask, AskUnrecorded, Ends, Errs, Moves, gateway
<1>2. ASSUME NEW r \in Runs, Proceed(r)
      PROVE  OutcomeInv'
  <2>1. ASSUME NEW docs \in SUBSET Documents, Retrieve(r, docs)
        PROVE  OutcomeInv'
    <3>1. /\ stage[r] = "screened"
          /\ UNCHANGED gateway
          /\ \/ Ends(r, "no_permitted_context")
             \/ Moves(r, "screened", "retrieved") /\ UNCHANGED reason
             \/ Errs(r)
      BY <2>1 DEF Retrieve
    <3> QED
      BY <3>1 DEF Ends, Errs, Moves, gateway
  <2>2. CASE RetrieveDenied(r)
    BY <2>2 DEF RetrieveDenied, Ends, Errs, gateway
  <2>3. ASSUME NEW e \in Estimates, Prompt(r, e)
        PROVE  OutcomeInv'
    BY <2>3 DEF Prompt, Ends, G!Admit, G!OverCallCap
  <2>4. CASE PromptRejected(r)
    BY <2>4 DEF PromptRejected, Ends, G!TurnAway
  <2>5. CASE Reserve(r)
    <3>1. CASE G!Reserve(r) /\ UNCHANGED <<stage, reason>>
      BY <3>1 DEF G!Reserve
    <3>2. CASE G!Refuse(r) /\ Ends(r, "budget_exceeded")
      BY <3>2 DEF G!Refuse, Ends
    <3> QED
      BY <2>5, <3>1, <3>2 DEF Reserve
  <2>6. CASE Generate(r)
    <3>1. ASSUME NEW cost \in Costs, G!Settle(r, cost), UNCHANGED <<stage, reason>>
          PROVE  OutcomeInv'
      BY <3>1 DEF G!Settle
    <3>2. ASSUME NEW bill \in FailureBills, G!ProviderFails(r, bill),
                 NEW why \in ProviderReasons, Ends(r, why)
          PROVE  OutcomeInv'
      BY <3>2 DEF G!ProviderFails, Ends, ProviderReasons
    <3> QED
      BY <2>6, <3>1, <3>2 DEF Generate
  <2>7. ASSUME NEW reply \in Replies, Digest(r, reply)
        PROVE  OutcomeInv'
    <3>1. /\ G!Record(r)
          /\ \/ Moves(r, "retrieved", "grounded") /\ UNCHANGED reason
             \/ \E why \in ParseReasons \cup {"ungrounded_citation"} : Ends(r, why)
      BY <2>7 DEF Digest
    <3> QED
      BY <3>1 DEF Moves, Ends, ParseReasons, G!Record
  <2>8. CASE DigestUnrecorded(r)
    BY <2>8 DEF DigestUnrecorded, Ends, G!RecordFails
  <2>9. ASSUME NEW leak \in BOOLEAN, Screen(r, leak)
        PROVE  OutcomeInv'
    <3>1. /\ stage[r] = "grounded"
          /\ UNCHANGED gateway
          /\ \/ Ends(r, "cross_tenant_leak")
             \/ Moves(r, "grounded", "answered") /\ UNCHANGED reason
             \/ Errs(r)
      BY <2>9 DEF Screen
    <3> QED
      BY <3>1 DEF Ends, Errs, Moves, gateway
  <2> QED
    BY <1>2, <2>1, <2>2, <2>3, <2>4, <2>5, <2>6, <2>7, <2>8, <2>9 DEF Proceed
<1>3. CASE Midnight
  BY <1>3 DEF Midnight, G!Tick, G!program, request
<1>4. CASE Restart
  BY <1>4 DEF Restart, G!Restart, G!Final, Ended
<1>5. CASE UNCHANGED vars
  BY <1>5 DEF vars, gateway, request
<1> QED
  BY <1>1, <1>2, <1>3, <1>4, <1>5 DEF Next

(* What a caller is told agrees with what the provider was sent: a refusal *)
(* made before the model call never cost a call, and an answer is always   *)
(* one the provider gave and the log holds.                                *)
THEOREM OutcomesMatchCalls == Spec => []OutcomeMatchesGateway
<1>1. OutcomeInv => OutcomeMatchesGateway
  BY DEF OutcomeInv, CallMatchesStage, SentMatchesCall, ReasonMatchesSent,
         OutcomeMatchesGateway, Unasked
<1> QED
  BY <1>1, OutcomeInit, OutcomeStep, PTL DEF Spec

----------------------------------------------------------------------------
(* What a run has written.  A trail in order is an initial part of the one *)
(* order in which at most the last record blocks; a clean one has no block *)
(* and may be added to.                                                    *)
Rows == [kind : Kinds, blocked : BOOLEAN]

InOrder(t) ==
    /\ t \in Seq(Rows)
    /\ Len(t) <= Len(Order)
    /\ \A i \in 1..Len(t) :
          t[i].kind = Order[i] /\ (t[i].blocked => i = Len(t))

CleanTrail(t, n) ==
    /\ InOrder(t)
    /\ Len(t) = n
    /\ \A i \in 1..Len(t) : ~t[i].blocked

(* The next record of the order, blocking or not, keeps a clean trail in   *)
(* order, and clean when it does not block.                                *)
LEMMA NextRecord ==
    ASSUME NEW n \in 0..5, NEW k \in 1..6, k = n + 1,
           NEW t, CleanTrail(t, n), NEW b \in BOOLEAN, NEW kind, kind = Order[k]
    PROVE  /\ InOrder(t \o <<Entry(kind, b)>>)
           /\ Len(t \o <<Entry(kind, b)>>) = k
           /\ ~b => CleanTrail(t \o <<Entry(kind, b)>>, k)
<1> DEFINE e == Entry(kind, b)
           u == t \o <<e>>
<1>1. /\ Len(Order) = 6
      /\ \A i \in 1..6 : Order[i] \in Kinds
  BY DEF Order, Kinds
<1>2. e \in Rows /\ e.kind = Order[k] /\ e.blocked = b
  BY <1>1 DEF Rows, Entry
<1>3. t \in Seq(Rows) /\ Len(t) = n
  BY DEF CleanTrail, InOrder
<1>4. /\ u \in Seq(Rows)
      /\ Len(u) = k
      /\ \A i \in 1..n : u[i] = t[i]
      /\ u[k] = e
  <2> HIDE DEF e
  <2> QED
    BY <1>2, <1>3
<1>5. \A i \in 1..k : i \in 1..n \/ i = k
  OBVIOUS
<1>6. \A i \in 1..n : t[i].kind = Order[i] /\ ~t[i].blocked
  BY <1>3 DEF CleanTrail, InOrder
<1>7. \A i \in 1..k : u[i].kind = Order[i] /\ (u[i].blocked => i = k /\ b)
  <2> HIDE DEF e, u
  <2> QED
    BY <1>2, <1>4, <1>5, <1>6
<1> HIDE DEF u
<1>8. InOrder(u)
  BY <1>1, <1>4, <1>7 DEF InOrder
<1>9. ~b => CleanTrail(u, k)
  BY <1>4, <1>7, <1>8 DEF CleanTrail
<1> QED
  BY <1>4, <1>8, <1>9 DEF u

(* The records in their places. *)
LEMMA NextRecords ==
    ASSUME NEW t, NEW b \in BOOLEAN
    PROVE  /\ CleanTrail(t, 0) =>
                  /\ InOrder(t \o <<Entry("injection", b)>>)
                  /\ ~b => CleanTrail(t \o <<Entry("injection", b)>>, 1)
           /\ CleanTrail(t, 1) => CleanTrail(t \o <<Entry("retrieval", FALSE)>>, 2)
           /\ CleanTrail(t, 2) => CleanTrail(t \o <<Entry("pii_input", FALSE)>>, 3)
           /\ CleanTrail(t, 3) => CleanTrail(t \o <<Entry("llm", FALSE)>>, 4)
           /\ CleanTrail(t, 4) => CleanTrail(t \o <<Entry("pii_output", FALSE)>>, 5)
           /\ CleanTrail(t, 5) => /\ InOrder(t \o <<Entry("leakage", b)>>)
                                  /\ Len(t \o <<Entry("leakage", b)>>) = 6
<1>0. /\ Order[1] = "injection" /\ Order[2] = "retrieval" /\ Order[3] = "pii_input"
      /\ Order[4] = "llm" /\ Order[5] = "pii_output" /\ Order[6] = "leakage"
  BY DEF Order
<1>1. ASSUME CleanTrail(t, 0)
      PROVE  /\ InOrder(t \o <<Entry("injection", b)>>)
             /\ ~b => CleanTrail(t \o <<Entry("injection", b)>>, 1)
  <2>1. 0 \in 0..5 /\ 1 \in 1..6 /\ 1 = 0 + 1
    OBVIOUS
  <2> QED
    BY <1>0, <1>1, <2>1, NextRecord
<1>2. ASSUME CleanTrail(t, 1)
      PROVE  CleanTrail(t \o <<Entry("retrieval", FALSE)>>, 2)
  <2>1. 1 \in 0..5 /\ 2 \in 1..6 /\ 2 = 1 + 1 /\ FALSE \in BOOLEAN
    OBVIOUS
  <2> QED
    BY <1>0, <1>2, <2>1, NextRecord
<1>3. ASSUME CleanTrail(t, 2)
      PROVE  CleanTrail(t \o <<Entry("pii_input", FALSE)>>, 3)
  <2>1. 2 \in 0..5 /\ 3 \in 1..6 /\ 3 = 2 + 1 /\ FALSE \in BOOLEAN
    OBVIOUS
  <2> QED
    BY <1>0, <1>3, <2>1, NextRecord
<1>4. ASSUME CleanTrail(t, 3)
      PROVE  CleanTrail(t \o <<Entry("llm", FALSE)>>, 4)
  <2>1. 3 \in 0..5 /\ 4 \in 1..6 /\ 4 = 3 + 1 /\ FALSE \in BOOLEAN
    OBVIOUS
  <2> QED
    BY <1>0, <1>4, <2>1, NextRecord
<1>5. ASSUME CleanTrail(t, 4)
      PROVE  CleanTrail(t \o <<Entry("pii_output", FALSE)>>, 5)
  <2>1. 4 \in 0..5 /\ 5 \in 1..6 /\ 5 = 4 + 1 /\ FALSE \in BOOLEAN
    OBVIOUS
  <2> QED
    BY <1>0, <1>5, <2>1, NextRecord
<1>6. ASSUME CleanTrail(t, 5)
      PROVE  /\ InOrder(t \o <<Entry("leakage", b)>>)
             /\ Len(t \o <<Entry("leakage", b)>>) = 6
  <2>1. 5 \in 0..5 /\ 6 \in 1..6 /\ 6 = 5 + 1
    OBVIOUS
  <2> QED
    BY <1>0, <1>6, <2>1, NextRecord
<1> QED
  BY <1>1, <1>2, <1>3, <1>4, <1>5, <1>6

(* Two records written one after the other. *)
LEMMA TwoRecords ==
    ASSUME NEW t \in Seq(Rows), NEW a \in Rows, NEW b \in Rows
    PROVE  /\ (t \o <<a>>) \o <<b>> = t \o <<a, b>>
           /\ SubSeq(<<a, b>>, 1, 1) = <<a>>
           /\ SubSeq(<<a, b>>, 1, 2) = <<a, b>>
           /\ SubSeq(<<a>>, 1, 0) = << >>
           /\ Len(<<a>>) = 1
           /\ Len(<<a, b>>) = 2
<1>1. /\ <<a>> \in Seq(Rows) /\ <<b>> \in Seq(Rows) /\ <<a, b>> \in Seq(Rows)
      /\ Len(<<a>>) = 1 /\ Len(<<b>>) = 1 /\ Len(<<a, b>>) = 2
  OBVIOUS
<1>2. <<a>> \o <<b>> = <<a, b>>
  <2> DEFINE u == <<a>> \o <<b>>
  <2>1. /\ u \in Seq(Rows) /\ Len(u) = 2
        /\ u[1] = a /\ u[2] = b
    BY <1>1, ConcatProperties
  <2>2. \A i \in 1..2 : u[i] = <<a, b>>[i]
    <3> HIDE DEF u
    <3> QED
      BY <2>1
  <2> HIDE DEF u
  <2>3. u = <<a, b>>
    BY <1>1, <2>1, <2>2, SeqEqual
  <2> QED
    BY <2>3 DEF u
<1>3. SubSeq(<<a, b>>, 1, 1) = <<a>> /\ SubSeq(<<a, b>>, 1, 2) = <<a, b>>
  <2> DEFINE s == <<a, b>>
  <2>1. \A i \in 1..2 : s[i] \in Rows
    OBVIOUS
  <2>2. /\ SubSeq(s, 1, 1) \in Seq(Rows) /\ Len(SubSeq(s, 1, 1)) = 1
        /\ SubSeq(s, 1, 1)[1] = s[1]
    BY <2>1, SubSeqProperties
  <2>3. /\ SubSeq(s, 1, 2) \in Seq(Rows) /\ Len(SubSeq(s, 1, 2)) = 2
        /\ \A i \in 1..2 : SubSeq(s, 1, 2)[i] = s[i]
    BY <2>1, SubSeqProperties
  <2>4. SubSeq(s, 1, 1) = <<a>>
    <3>1. \A i \in 1..1 : SubSeq(s, 1, 1)[i] = <<a>>[i]
      BY <2>2
    <3> QED
      BY <1>1, <2>2, <3>1, SeqEqual
  <2>5. SubSeq(s, 1, 2) = <<a, b>>
    BY <1>1, <2>3, SeqEqual
  <2> QED
    BY <2>4, <2>5
<1>4. SubSeq(<<a>>, 1, 0) = << >>
  BY SubSeqEmpty
<1>5. (t \o <<a>>) \o <<b>> = t \o (<<a>> \o <<b>>)
  BY <1>1, ConcatAssociative
<1> QED
  BY <1>1, <1>2, <1>3, <1>4, <1>5

(* A write of one record that raises leaves the record in the file or not. *)
LEMMA TornRecord ==
    ASSUME NEW r \in Runs, NEW e, trail = [q \in Runs |-> trail[q]],
           trail[r] \in Seq(Rows), WriteRaises(r, <<e>>)
    PROVE  \/ trail' = [trail EXCEPT ![r] = @ \o <<e>>]
           \/ trail' = trail
<1>1. SubSeq(<<e>>, 1, Len(<<e>>) - 1) = << >>
  OBVIOUS
<1>2. trail[r] \o << >> = trail[r]
  OBVIOUS
<1> QED
  BY <1>1, <1>2 DEF WriteRaises, Writes

(* What a run has written at each point of its way.  Two records precede   *)
(* the gateway call, the prompt's is written as the call is admitted, and  *)
(* the completion's as it is returned.                                     *)
Written(st, ph, t) ==
    /\ InOrder(t)
    /\ st = "idle" => CleanTrail(t, 0)
    /\ st = "screened" => CleanTrail(t, 1)
    /\ st = "retrieved" => CleanTrail(t, IF ph = "idle" THEN 2 ELSE 3)
    /\ st = "grounded" => CleanTrail(t, 4)
    /\ st = "answered" => Len(t) = 6

Explained ==
    \A r \in Runs :
        /\ stage[r] \in {"screened", "retrieved", "grounded"} => screening[r] # "block"
        /\ stage[r] \in {"retrieved", "grounded"} => chunks[r] # {}
        /\ r \in sent => screening[r] # "block" /\ chunks[r] # {} /\ Len(trail[r]) >= 3

TrailShape ==
    /\ sent \subseteq Runs
    /\ trail = [r \in Runs |-> trail[r]]
    /\ screening = [r \in Runs |-> screening[r]]
    /\ chunks = [r \in Runs |-> chunks[r]]

TrailInv ==
    /\ OutcomeInv
    /\ TrailShape
    /\ \A r \in Runs : Written(stage[r], phase[r], trail[r])
    /\ Explained

LEMMA OrderRecords ==
    /\ Len(Order) = 6
    /\ Order[1] = "injection" /\ Order[2] = "retrieval" /\ Order[3] = "pii_input"
    /\ Order[4] = "llm" /\ Order[5] = "pii_output" /\ Order[6] = "leakage"
  BY DEF Order

LEMMA TrailInit == Init => TrailInv
<1> SUFFICES ASSUME Init PROVE TrailInv
  OBVIOUS
<1>1. CleanTrail(<< >>, 0)
  BY OrderRecords DEF CleanTrail, InOrder
<1>2. \A r \in Runs : Written(stage[r], phase[r], trail[r])
  BY <1>1 DEF Init, Written, CleanTrail
<1>3. TrailShape /\ Explained
  BY DEF Init, G!Init, TrailShape, Explained
<1> QED
  BY <1>2, <1>3, OutcomeInit DEF TrailInv

(* A step of run r leaves every other run where it was. *)
LEMMA OthersWritten ==
    ASSUME TrailInv, OutcomeInv', TrailShape', NEW r \in Runs,
           \A q \in Runs \ {r} :
               /\ stage'[q] = stage[q] /\ phase'[q] = phase[q] /\ trail'[q] = trail[q]
               /\ screening'[q] = screening[q] /\ chunks'[q] = chunks[q]
               /\ q \in sent' => q \in sent,
           Written(stage'[r], phase'[r], trail'[r]),
           stage'[r] \in {"screened", "retrieved", "grounded"} => screening'[r] # "block",
           stage'[r] \in {"retrieved", "grounded"} => chunks'[r] # {},
           r \in sent' => screening'[r] # "block" /\ chunks'[r] # {} /\ Len(trail'[r]) >= 3
    PROVE  TrailInv'
<1>1. \A q \in Runs : Written(stage'[q], phase'[q], trail'[q])
  BY DEF TrailInv
<1>2. Explained'
  BY DEF TrailInv, Explained
<1> QED
  BY <1>1, <1>2 DEF TrailInv

(* A run that ends, whatever it wrote in order, stays explained. *)
LEMMA EndedWritten ==
    ASSUME NEW st \in {"degraded", "errored", "lost"}, NEW ph, NEW t, InOrder(t)
    PROVE  Written(st, ph, t)
  BY DEF Written

LEMMA CleanInOrder ==
    ASSUME NEW n, NEW t, CleanTrail(t, n)
    PROVE  InOrder(t) /\ Len(t) = n /\ t \in Seq(Rows)
  BY DEF CleanTrail, InOrder

LEMMA TrailStep == TrailInv /\ [Next]_vars => TrailInv'
<1> SUFFICES ASSUME TrailInv, [Next]_vars
             PROVE  TrailInv'
  OBVIOUS
<1>1. OutcomeInv'
  BY OutcomeStep DEF TrailInv
<1>2. ASSUME NEW r \in Runs, NEW s \in Screenings, Ask(r, s) \/ AskUnrecorded(r, s)
      PROVE  TrailInv'
  <2> DEFINE e == Entry("injection", s = "block")
  <2>1. /\ stage[r] = "idle"
        /\ screening' = [screening EXCEPT ![r] = s]
        /\ UNCHANGED <<chunks, phase, sent>>
        /\ r \notin sent
    BY <1>2 DEF Ask, AskUnrecorded, gateway, TrailInv, OutcomeInv,
                CallMatchesStage, SentMatchesCall
  <2>2. /\ CleanTrail(trail[r], 0)
        /\ trail[r] \in Seq(Rows)
    BY <2>1, CleanInOrder DEF TrailInv, Written
  <2>3. LET u == trail[r] \o <<e>>
        IN  InOrder(u) /\ (s # "block" => CleanTrail(u, 1))
    BY <2>2, NextRecords
  <2>4. /\ \/ trail' = [trail EXCEPT ![r] = @ \o <<e>>]
           \/ trail' = trail /\ AskUnrecorded(r, s)
        /\ \/ stage' = [stage EXCEPT ![r] = "screened"] /\ s # "block" /\ Ask(r, s)
           \/ \E st \in {"degraded", "errored"} : stage' = [stage EXCEPT ![r] = st]
    BY <1>2, <2>2, TornRecord DEF Ask, AskUnrecorded, Writes, Moves, Ends, Errs,
                                  TrailInv, TrailShape
  <2>5. TrailShape'
    BY <2>1, <2>4 DEF TrailInv, TrailShape
  <2>6. Written(stage'[r], phase'[r], trail'[r])
    <3>1. trail'[r] = trail[r] \o <<e>> \/ (trail'[r] = trail[r] /\ AskUnrecorded(r, s))
      BY <2>4 DEF TrailInv, TrailShape
    <3>2. InOrder(trail'[r])
      BY <2>2, <2>3, <3>1, CleanInOrder
    <3>3. CASE stage'[r] \in {"degraded", "errored"}
      BY <3>2, <3>3, EndedWritten
    <3>4. CASE stage' = [stage EXCEPT ![r] = "screened"] /\ s # "block" /\ Ask(r, s)
      <4>1. stage'[r] = "screened" /\ trail'[r] = trail[r] \o <<e>>
        BY <3>4 DEF Ask, Writes, TrailInv, TrailShape, OutcomeInv, OutcomeShape
      <4> QED
        BY <2>3, <3>2, <3>4, <4>1 DEF Written
    <3> QED
      BY <2>4, <3>3, <3>4 DEF TrailInv, OutcomeInv, OutcomeShape
  <2>7. stage'[r] \in {"screened", "degraded", "errored"}
        /\ (stage'[r] = "screened" => s # "block")
    BY <2>4 DEF TrailInv, OutcomeInv, OutcomeShape
  <2>8. \A q \in Runs \ {r} :
            /\ stage'[q] = stage[q] /\ phase'[q] = phase[q] /\ trail'[q] = trail[q]
            /\ screening'[q] = screening[q] /\ chunks'[q] = chunks[q]
            /\ q \in sent' => q \in sent
    BY <2>1, <2>4 DEF TrailInv, TrailShape, OutcomeInv, OutcomeShape
  <2>9. screening'[r] = s
    BY <2>1 DEF TrailInv, TrailShape
  <2> QED
    BY <1>1, <2>1, <2>5, <2>6, <2>7, <2>8, <2>9, OthersWritten
<1>3. ASSUME NEW r \in Runs, NEW docs \in SUBSET Documents, Retrieve(r, docs)
      PROVE  TrailInv'
  <2> DEFINE e == Entry("retrieval", FALSE)
  <2>1. PICK top \in TopK(Candidates(r, docs)) :
           /\ chunks' = [chunks EXCEPT ![r] = top]
           /\ \/ /\ Writes(r, <<e>>)
                 /\ IF top = {}
                      THEN Ends(r, "no_permitted_context")
                      ELSE Moves(r, "screened", "retrieved") /\ UNCHANGED reason
              \/ /\ WriteRaises(r, <<e>>)
                 /\ Errs(r)
    BY <1>3 DEF Retrieve
  <2>2. /\ stage[r] = "screened" /\ phase[r] = "idle"
        /\ UNCHANGED <<screening, phase, sent>>
        /\ r \notin sent
    BY <1>3 DEF Retrieve, gateway, TrailInv, OutcomeInv, CallMatchesStage,
                SentMatchesCall
  <2>3. CleanTrail(trail[r], 1) /\ trail[r] \in Seq(Rows) /\ InOrder(trail[r])
    BY <2>2, CleanInOrder DEF TrailInv, Written
  <2>4. CleanTrail(trail[r] \o <<e>>, 2)
    BY <2>3, NextRecords
  <2>5. trail' = [trail EXCEPT ![r] = @ \o <<e>>] \/ trail' = trail
    BY <2>1, <2>3, TornRecord DEF Writes, TrailInv, TrailShape
  <2>6. \/ /\ stage' = [stage EXCEPT ![r] = "retrieved"]
           /\ top # {}
           /\ trail' = [trail EXCEPT ![r] = @ \o <<e>>]
        \/ \E st \in {"degraded", "errored"} : stage' = [stage EXCEPT ![r] = st]
    BY <2>1 DEF Moves, Ends, Errs, Writes
  <2>7. TrailShape'
    BY <2>1, <2>2, <2>5 DEF TrailInv, TrailShape
  <2>8. InOrder(trail'[r])
    BY <2>3, <2>4, <2>5, CleanInOrder DEF TrailInv, TrailShape
  <2>9. Written(stage'[r], phase'[r], trail'[r])
    <3>1. CASE stage'[r] \in {"degraded", "errored"}
      BY <2>8, <3>1, EndedWritten
    <3>2. CASE /\ stage' = [stage EXCEPT ![r] = "retrieved"]
               /\ trail' = [trail EXCEPT ![r] = @ \o <<e>>]
      <4>1. /\ stage'[r] = "retrieved" /\ phase'[r] = "idle"
            /\ trail'[r] = trail[r] \o <<e>>
        BY <2>2, <3>2 DEF TrailInv, TrailShape, OutcomeInv, OutcomeShape
      <4> QED
        BY <2>4, <2>8, <4>1 DEF Written
    <3> QED
      BY <2>6, <3>1, <3>2 DEF TrailInv, OutcomeInv, OutcomeShape
  <2>10. /\ stage'[r] \in {"retrieved", "degraded", "errored"}
         /\ stage'[r] = "retrieved" => chunks'[r] # {} /\ screening'[r] # "block"
    BY <2>1, <2>2, <2>6 DEF TrailInv, TrailShape, OutcomeInv, OutcomeShape, Explained
  <2>11. \A q \in Runs \ {r} :
            /\ stage'[q] = stage[q] /\ phase'[q] = phase[q] /\ trail'[q] = trail[q]
            /\ screening'[q] = screening[q] /\ chunks'[q] = chunks[q]
            /\ q \in sent' => q \in sent
    BY <2>1, <2>2, <2>5, <2>6 DEF TrailInv, TrailShape, OutcomeInv, OutcomeShape
  <2> QED
    BY <1>1, <2>2, <2>7, <2>9, <2>10, <2>11, OthersWritten
<1>4. ASSUME NEW r \in Runs, RetrieveDenied(r)
      PROVE  TrailInv'
  <2>1. /\ stage[r] = "screened" /\ r \notin sent
        /\ \E st \in {"degraded", "errored"} : stage' = [stage EXCEPT ![r] = st]
        /\ UNCHANGED <<screening, chunks, trail, phase, sent>>
    BY <1>4 DEF RetrieveDenied, Ends, Errs, gateway, TrailInv, OutcomeInv,
                CallMatchesStage, SentMatchesCall
  <2>2. stage'[r] \in {"degraded", "errored"}
    BY <2>1 DEF TrailInv, OutcomeInv, OutcomeShape
  <2>3. Written(stage'[r], phase'[r], trail'[r])
    BY <2>1, <2>2, EndedWritten DEF TrailInv, Written
  <2>4. TrailShape'
    BY <2>1 DEF TrailInv, TrailShape
  <2>5. \A q \in Runs \ {r} :
            /\ stage'[q] = stage[q] /\ phase'[q] = phase[q] /\ trail'[q] = trail[q]
            /\ screening'[q] = screening[q] /\ chunks'[q] = chunks[q]
            /\ q \in sent' => q \in sent
    BY <2>1 DEF TrailInv, OutcomeInv, OutcomeShape
  <2> QED
    BY <1>1, <2>1, <2>2, <2>3, <2>4, <2>5, OthersWritten
<1>5. ASSUME NEW r \in Runs, PromptRejected(r) \/ \E e \in Estimates : Prompt(r, e)
      PROVE  TrailInv'
  <2> DEFINE e == Entry("pii_input", FALSE)
  <2>1. /\ stage[r] = "retrieved" /\ phase[r] = "idle" /\ r \notin sent
        /\ UNCHANGED <<screening, chunks, sent>>
    BY <1>5 DEF PromptRejected, Prompt, G!TurnAway, G!Admit, G!OverCallCap,
                TrailInv, OutcomeInv, SentMatchesCall
  <2>2. CleanTrail(trail[r], 2) /\ trail[r] \in Seq(Rows) /\ InOrder(trail[r])
    BY <2>1, CleanInOrder DEF TrailInv, Written
  <2>3. CleanTrail(trail[r] \o <<e>>, 3)
    BY <2>2, NextRecords
  <2>4. trail' = [trail EXCEPT ![r] = @ \o <<e>>] \/ trail' = trail
    BY <1>5, <2>2, TornRecord DEF PromptRejected, Prompt, Writes, TrailInv, TrailShape
  <2>5. \/ /\ stage' = stage
           /\ phase' = [phase EXCEPT ![r] = "admitted"]
           /\ trail' = [trail EXCEPT ![r] = @ \o <<e>>]
        \/ /\ stage' = [stage EXCEPT ![r] = "degraded"]
           /\ \E ph \in {"refused", "raised"} : phase' = [phase EXCEPT ![r] = ph]
    BY <1>5 DEF PromptRejected, Prompt, G!TurnAway, G!Admit, G!OverCallCap,
                Ends, Writes
  <2>6. InOrder(trail'[r])
    BY <2>2, <2>3, <2>4, CleanInOrder DEF TrailInv, TrailShape
  <2>7. Written(stage'[r], phase'[r], trail'[r])
    <3>1. CASE stage'[r] = "degraded"
      BY <2>6, <3>1, EndedWritten
    <3>2. CASE /\ stage' = stage
               /\ phase' = [phase EXCEPT ![r] = "admitted"]
               /\ trail' = [trail EXCEPT ![r] = @ \o <<e>>]
      <4>1. /\ stage'[r] = "retrieved" /\ phase'[r] = "admitted"
            /\ trail'[r] = trail[r] \o <<e>>
        BY <2>1, <3>2 DEF TrailInv, TrailShape, OutcomeInv, OutcomeShape
      <4> QED
        BY <2>3, <2>6, <4>1 DEF Written
    <3> QED
      BY <2>5, <3>1, <3>2 DEF TrailInv, OutcomeInv, OutcomeShape
  <2>8. /\ stage'[r] \in {"retrieved", "degraded"}
        /\ screening'[r] # "block" /\ chunks'[r] # {}
    BY <2>1, <2>5 DEF TrailInv, OutcomeInv, OutcomeShape, Explained
  <2>9. TrailShape'
    BY <2>1, <2>4 DEF TrailInv, TrailShape
  <2>10. \A q \in Runs \ {r} :
            /\ stage'[q] = stage[q] /\ phase'[q] = phase[q] /\ trail'[q] = trail[q]
            /\ screening'[q] = screening[q] /\ chunks'[q] = chunks[q]
            /\ q \in sent' => q \in sent
    BY <2>1, <2>4, <2>5 DEF TrailInv, TrailShape, OutcomeInv, OutcomeShape
  <2> QED
    BY <1>1, <2>1, <2>7, <2>8, <2>9, <2>10, OthersWritten
<1>6. ASSUME NEW r \in Runs, Reserve(r) \/ Generate(r)
      PROVE  TrailInv'
  <2>1. /\ UNCHANGED <<screening, chunks, trail>>
        /\ phase[r] \in {"admitted", "calling"}
        /\ sent' \subseteq sent \cup {r}
        /\ \E ph \in {"calling", "refused", "settled", "raised"} :
              phase' = [phase EXCEPT ![r] = ph]
        /\ \/ stage' = stage
           \/ stage' = [stage EXCEPT ![r] = "degraded"]
    BY <1>6 DEF Reserve, Generate, Ends, G!Reserve, G!Refuse, G!Settle, G!ProviderFails
  <2>2. stage[r] = "retrieved"
    BY <2>1 DEF TrailInv, OutcomeInv, CallMatchesStage
  <2>3. CleanTrail(trail[r], 3) /\ InOrder(trail[r]) /\ Len(trail[r]) = 3
    BY <2>1, <2>2, CleanInOrder DEF TrailInv, Written
  <2>4. /\ stage'[r] \in {"retrieved", "degraded"}
        /\ phase'[r] # "idle"
    BY <2>1, <2>2 DEF TrailInv, OutcomeInv, OutcomeShape
  <2>5. Written(stage'[r], phase'[r], trail'[r])
    BY <2>1, <2>3, <2>4 DEF Written
  <2>6. screening'[r] # "block" /\ chunks'[r] # {} /\ Len(trail'[r]) >= 3
    BY <2>1, <2>2, <2>3 DEF TrailInv, Explained
  <2>7. TrailShape'
    BY <2>1 DEF TrailInv, TrailShape
  <2>8. \A q \in Runs \ {r} :
            /\ stage'[q] = stage[q] /\ phase'[q] = phase[q] /\ trail'[q] = trail[q]
            /\ screening'[q] = screening[q] /\ chunks'[q] = chunks[q]
            /\ q \in sent' => q \in sent
    BY <2>1 DEF TrailInv, OutcomeInv, OutcomeShape
  <2> QED
    BY <1>1, <2>4, <2>5, <2>6, <2>7, <2>8, OthersWritten
<1>7. ASSUME NEW r \in Runs,
             DigestUnrecorded(r) \/ \E reply \in Replies : Digest(r, reply)
      PROVE  TrailInv'
  <2> DEFINE e == Entry("llm", FALSE)
  <2>1. /\ UNCHANGED <<screening, chunks, sent>>
        /\ phase[r] = "settled"
        /\ \E ph \in {"returned", "raised"} : phase' = [phase EXCEPT ![r] = ph]
        /\ \/ /\ stage' = [stage EXCEPT ![r] = "grounded"]
              /\ trail' = [trail EXCEPT ![r] = @ \o <<e>>]
           \/ stage' = [stage EXCEPT ![r] = "degraded"]
    BY <1>7 DEF Digest, DigestUnrecorded, G!Record, G!RecordFails, Ends, Moves, Writes
  <2>2. stage[r] = "retrieved"
    BY <2>1 DEF TrailInv, OutcomeInv, CallMatchesStage
  <2>3. /\ CleanTrail(trail[r], 3) /\ InOrder(trail[r]) /\ Len(trail[r]) = 3
        /\ trail[r] \in Seq(Rows)
    BY <2>1, <2>2, CleanInOrder DEF TrailInv, Written
  <2>4. CleanTrail(trail[r] \o <<e>>, 4)
    BY <2>3, NextRecords
  <2>5. trail' = [trail EXCEPT ![r] = @ \o <<e>>] \/ trail' = trail
    BY <1>7, <2>3, TornRecord DEF Digest, DigestUnrecorded, Writes, TrailInv, TrailShape
  <2>6. InOrder(trail'[r]) /\ Len(trail'[r]) >= 3
    <3>1. InOrder(trail[r] \o <<e>>) /\ Len(trail[r] \o <<e>>) = 4
      BY <2>4, CleanInOrder
    <3>2. trail'[r] = trail[r] \o <<e>> \/ trail'[r] = trail[r]
      BY <2>5 DEF TrailInv, TrailShape
    <3>3. 4 >= 3 /\ 3 >= 3
      OBVIOUS
    <3> HIDE DEF e
    <3>4. CASE trail'[r] = trail[r] \o <<e>>
      BY <3>1, <3>3, <3>4
    <3>5. CASE trail'[r] = trail[r]
      BY <2>3, <3>3, <3>5
    <3> QED
      BY <3>2, <3>4, <3>5
  <2>7. Written(stage'[r], phase'[r], trail'[r])
    <3>1. CASE stage'[r] = "degraded"
      BY <2>6, <3>1, EndedWritten
    <3>2. CASE /\ stage' = [stage EXCEPT ![r] = "grounded"]
               /\ trail' = [trail EXCEPT ![r] = @ \o <<e>>]
      <4>1. stage'[r] = "grounded" /\ trail'[r] = trail[r] \o <<e>>
        BY <3>2 DEF TrailInv, TrailShape, OutcomeInv, OutcomeShape
      <4> QED
        BY <2>4, <2>6, <4>1 DEF Written
    <3> QED
      BY <2>1, <3>1, <3>2 DEF TrailInv, OutcomeInv, OutcomeShape
  <2>8. /\ stage'[r] \in {"grounded", "degraded"}
        /\ screening'[r] # "block" /\ chunks'[r] # {}
    BY <2>1, <2>2 DEF TrailInv, OutcomeInv, OutcomeShape, Explained
  <2>9. TrailShape'
    BY <2>1, <2>5 DEF TrailInv, TrailShape
  <2>10. \A q \in Runs \ {r} :
            /\ stage'[q] = stage[q] /\ phase'[q] = phase[q] /\ trail'[q] = trail[q]
            /\ screening'[q] = screening[q] /\ chunks'[q] = chunks[q]
            /\ q \in sent' => q \in sent
    BY <2>1, <2>5 DEF TrailInv, TrailShape, OutcomeInv, OutcomeShape
  <2> QED
    BY <1>1, <2>6, <2>7, <2>8, <2>9, <2>10, OthersWritten
<1>8. ASSUME NEW r \in Runs, NEW leak \in BOOLEAN, Screen(r, leak)
      PROVE  TrailInv'
  <2> DEFINE a == Entry("pii_output", FALSE)
             b == Entry("leakage", leak)
             t == trail[r]
  <2>0. a \in Rows /\ b \in Rows
    BY DEF Rows, Kinds, Entry
  <2>1. /\ stage[r] = "grounded"
        /\ UNCHANGED <<screening, chunks, phase, sent>>
    BY <1>8 DEF Screen, gateway
  <2>2. CleanTrail(t, 4) /\ InOrder(t) /\ Len(t) = 4 /\ t \in Seq(Rows)
    BY <2>1, CleanInOrder DEF TrailInv, Written
  <2>3. CleanTrail(t \o <<a>>, 5) /\ InOrder(t \o <<a>>) /\ Len(t \o <<a>>) = 5
    BY <2>2, NextRecords, CleanInOrder
  <2>4. InOrder((t \o <<a>>) \o <<b>>) /\ Len((t \o <<a>>) \o <<b>>) = 6
    BY <2>3, NextRecords
  <2>5. (t \o <<a>>) \o <<b>> = t \o <<a, b>>
    BY <2>2, <2>0, TwoRecords
  <2>6. \/ /\ trail' = [trail EXCEPT ![r] = @ \o <<a, b>>]
           /\ \E st \in {"answered", "degraded"} : stage' = [stage EXCEPT ![r] = st]
        \/ /\ \E u \in {<<>>, <<a>>, <<a, b>>} : trail' = [trail EXCEPT ![r] = @ \o u]
           /\ stage' = [stage EXCEPT ![r] = "errored"]
    <3>1. /\ SubSeq(<<a, b>>, 1, 1) = <<a>>
          /\ SubSeq(<<a, b>>, 1, 2) = <<a, b>>
          /\ Len(<<a>>) = 1 /\ Len(<<a, b>>) = 2
          /\ SubSeq(<<a>>, 1, 0) = << >>
      BY <2>0, <2>2, TwoRecords
    <3>2. ASSUME NEW n \in 1..2, WriteRaises(r, SubSeq(<<a, b>>, 1, n))
          PROVE  \E u \in {<<>>, <<a>>, <<a, b>>} : trail' = [trail EXCEPT ![r] = @ \o u]
      <4> HIDE DEF a, b
      <4>1. CASE n = 1
        <5>1. WriteRaises(r, <<a>>)
          BY <3>1, <3>2, <4>1
        <5>2. SubSeq(<<a>>, 1, Len(<<a>>) - 1) = << >>
          BY <3>1
        <5> QED
          BY <5>1, <5>2 DEF WriteRaises, Writes
      <4>2. CASE n = 2
        BY <3>1, <3>2, <4>2 DEF WriteRaises, Writes
      <4> QED
        BY <4>1, <4>2
    <3> QED
      BY <1>8, <3>2 DEF Screen, Writes, Ends, Errs, Moves
  <2>7. /\ TrailShape'
        /\ \/ trail'[r] = t \o <<a, b>>
           \/ trail'[r] = t \o <<a>> /\ stage'[r] = "errored"
           \/ trail'[r] = t \o << >> /\ stage'[r] = "errored"
        /\ stage'[r] \in {"answered", "degraded", "errored"}
    <3> HIDE DEF a, b
    <3> QED
      BY <2>1, <2>6 DEF TrailInv, TrailShape, OutcomeInv, OutcomeShape
  <2>8. /\ InOrder(trail'[r]) /\ Len(trail'[r]) >= 3
        /\ stage'[r] = "answered" => Len(trail'[r]) = 6
    <3>1. t \o << >> = t
      <4> HIDE DEF t
      <4> QED
        BY <2>2
    <3>2. InOrder(t \o <<a, b>>) /\ Len(t \o <<a, b>>) = 6
      BY <2>4, <2>5
    <3>3. CASE trail'[r] = t \o <<a, b>>
      <4> HIDE DEF a, b, t
      <4> QED
        BY <3>2, <3>3
    <3>4. CASE trail'[r] = t \o <<a>> /\ stage'[r] = "errored"
      <4> HIDE DEF a, b, t
      <4> QED
        BY <2>3, <3>4
    <3>5. CASE trail'[r] = t \o << >> /\ stage'[r] = "errored"
      <4>1. trail'[r] = t /\ 4 >= 3
        BY <3>1, <3>5
      <4> HIDE DEF a, b, t
      <4> QED
        BY <2>2, <3>5, <4>1
    <3> QED
      BY <2>7, <3>3, <3>4, <3>5
  <2>9. Written(stage'[r], phase'[r], trail'[r])
    BY <2>7, <2>8 DEF Written
  <2>10. screening'[r] # "block" /\ chunks'[r] # {}
    BY <2>1 DEF TrailInv, Explained
  <2>11. \A q \in Runs \ {r} :
            /\ stage'[q] = stage[q] /\ phase'[q] = phase[q] /\ trail'[q] = trail[q]
            /\ screening'[q] = screening[q] /\ chunks'[q] = chunks[q]
            /\ q \in sent' => q \in sent
    <3> HIDE DEF a, b
    <3> QED
      BY <2>1, <2>6 DEF TrailInv, TrailShape, OutcomeInv, OutcomeShape
  <2> QED
    BY <1>1, <2>7, <2>8, <2>9, <2>10, <2>11, OthersWritten
<1>9. CASE Restart
  <2>1. /\ UNCHANGED <<screening, chunks, trail, sent>>
        /\ \A r \in Runs :
              \/ stage'[r] = "lost"
              \/ /\ stage[r] \in Ended \cup {"idle"}
                 /\ stage'[r] = stage[r]
    BY <1>9 DEF Restart, G!Restart
  <2>2. \A r \in Runs : Written(stage'[r], phase'[r], trail'[r])
    BY <2>1, EndedWritten DEF TrailInv, Written, Ended
  <2>3. Explained'
    BY <2>1 DEF TrailInv, Explained, Ended
  <2> QED
    BY <1>1, <2>1, <2>2, <2>3 DEF TrailInv, TrailShape
<1>10. CASE Midnight \/ UNCHANGED vars
  <2>1. UNCHANGED <<screening, chunks, trail, sent, stage, phase>>
    BY <1>10 DEF Midnight, G!Tick, G!program, request, vars, gateway
  <2> QED
    BY <1>1, <2>1 DEF TrailInv, TrailShape, Explained
<1>11. ASSUME NEW r \in Runs, Proceed(r)
       PROVE  TrailInv'
  BY <1>11, <1>3, <1>4, <1>5, <1>6, <1>7, <1>8 DEF Proceed
<1> QED
  BY <1>2, <1>9, <1>10, <1>11 DEF Next

(* The order the pipeline says is not negotiable is the order of every     *)
(* run's records, whatever fails or is refused and whenever the service    *)
(* restarts, and nothing is written after a block.                         *)
THEOREM OrderIsKept == Spec => []OrderNotNegotiable
<1>1. TrailInv => OrderNotNegotiable
  BY OrderRecords DEF TrailInv, Written, InOrder, OrderNotNegotiable
<1> QED
  BY <1>1, TrailInit, TrailStep, PTL DEF Spec

(* Every prompt that reached the provider is explained by three records on *)
(* file, of a question let through and of a retrieval that found something.*)
THEOREM EveryPromptIsExplained == Spec => []SentIsExplained
<1>1. TrailInv => SentIsExplained
  <2>1. Explained /\ sent \subseteq Runs => SentIsExplained
    BY DEF Explained, SentIsExplained
  <2> QED
    BY <2>1 DEF TrailInv, TrailShape
<1> QED
  BY <1>1, TrailInit, TrailStep, PTL DEF Spec

----------------------------------------------------------------------------
(* The types of the pipeline's own variables but the trail. *)
RequestShape ==
    /\ stage \in [Runs -> Stages \cup Ended]
    /\ screening \in [Runs -> Screenings]
    /\ allowed \in [Runs -> SUBSET Documents]
    /\ chunks \in [Runs -> SUBSET Chunk]
    /\ cited \in [Runs -> SUBSET Citation]
    /\ reason \in [Runs -> Reasons]

LEMMA RequestInit == Init => RequestShape
  BY DEF Init, RequestShape, Stages, Screenings, Reasons

(* A run that changes its stage and its reason only. *)
LEMMA OutcomeTyped ==
    ASSUME RequestShape, NEW r \in Runs, UNCHANGED <<screening, allowed, chunks, cited>>,
           \/ UNCHANGED <<stage, reason>>
           \/ \E why \in Reasons : Ends(r, why)
           \/ Errs(r)
           \/ \E to \in Stages \cup Ended : stage' = [stage EXCEPT ![r] = to] /\ UNCHANGED reason
    PROVE  RequestShape'
  BY DEF RequestShape, Ends, Errs, Ended

LEMMA RequestStep == RequestShape /\ [Next]_vars => RequestShape'
<1> SUFFICES ASSUME RequestShape, [Next]_vars
             PROVE  RequestShape'
  OBVIOUS
<1>1. ASSUME NEW r \in Runs, NEW s \in Screenings, Ask(r, s) \/ AskUnrecorded(r, s)
      PROVE  RequestShape'
  BY <1>1 DEF Ask, AskUnrecorded, Ends, Errs, Moves, RequestShape, Stages, Ended, Reasons
<1>2. ASSUME NEW r \in Runs, Proceed(r)
      PROVE  RequestShape'
  <2>1. ASSUME NEW docs \in SUBSET Documents, Retrieve(r, docs)
        PROVE  RequestShape'
    <3>1. PICK top \in TopK(Candidates(r, docs)) :
             chunks' = [chunks EXCEPT ![r] = top]
      BY <2>1 DEF Retrieve
    <3>2. top \subseteq Chunk
      <4>1. Searchable[r] \in SUBSET Chunk
        BY PipelineAssumption
      <4> QED
        BY <4>1 DEF TopK, Candidates
    <3>3. /\ allowed' = [allowed EXCEPT ![r] = docs]
          /\ UNCHANGED <<screening, cited>>
          /\ \/ Ends(r, "no_permitted_context")
             \/ Moves(r, "screened", "retrieved") /\ UNCHANGED reason
             \/ Errs(r)
      BY <2>1 DEF Retrieve
    <3> QED
      BY <3>1, <3>2, <3>3 DEF RequestShape, Ends, Moves, Errs, Stages, Ended, Reasons
  <2>2. CASE RetrieveDenied(r)
    BY <2>2, OutcomeTyped DEF RetrieveDenied, Reasons
  <2>3. CASE PromptRejected(r) \/ Reserve(r) \/ DigestUnrecorded(r)
             \/ \E e \in Estimates : Prompt(r, e)
    BY <2>3, OutcomeTyped DEF PromptRejected, Reserve, DigestUnrecorded, Prompt,
                              Reasons, ProviderReasons
  <2>4. CASE Generate(r)
    BY <2>4, OutcomeTyped DEF Generate, Reasons
  <2>5. ASSUME NEW reply \in Replies, Digest(r, reply)
        PROVE  RequestShape'
    <3>1. CASE Grounded(r, reply) # {}
      <4>1. Grounded(r, reply) \subseteq Citation
        BY PipelineAssumption DEF Grounded
      <4> QED
        BY <2>5, <3>1, <4>1 DEF Digest, Moves, RequestShape, Stages
    <3>2. CASE Grounded(r, reply) = {}
      <4>1. UNCHANGED <<screening, allowed, chunks, cited>> /\ \E why \in Reasons : Ends(r, why)
        BY <2>5, <3>2 DEF Digest, Reasons, ParseReasons
      <4> QED
        BY <4>1, OutcomeTyped
    <3> QED
      BY <3>1, <3>2
  <2>6. ASSUME NEW leak \in BOOLEAN, Screen(r, leak)
        PROVE  RequestShape'
    <3>1. /\ UNCHANGED <<screening, allowed, chunks, cited>>
          /\ \/ Ends(r, "cross_tenant_leak")
             \/ Moves(r, "grounded", "answered") /\ UNCHANGED reason
             \/ Errs(r)
      BY <2>6 DEF Screen
    <3> QED
      BY <3>1, OutcomeTyped DEF Moves, Ended, Reasons
  <2> QED
    BY <1>2, <2>1, <2>2, <2>3, <2>4, <2>5, <2>6 DEF Proceed
<1>3. CASE Restart
  BY <1>3 DEF Restart, RequestShape, Ended
<1>4. CASE Midnight \/ UNCHANGED vars
  BY <1>4 DEF Midnight, vars, request, RequestShape
<1> QED
  BY <1>1, <1>2, <1>3, <1>4 DEF Next

----------------------------------------------------------------------------
P == INSTANCE ModelGateway_proofs WITH Calls <- Runs

(* The instance of the gateway's proofs is the instance the runs drive. *)
LEMMA GatewayIsGateway == Spec => P!Spec
<1>1. G!Init => P!Init
  BY DEF G!Init, P!Init, G!Days, P!Days
<1>2. [G!Next]_G!vars => [P!Next]_P!vars
  BY DEF
     G!Next, G!Admit, G!OverCallCap, G!TurnAway, G!Reserve, G!Refuse,
     G!ProviderEnds, G!ProviderFails, G!Settle, G!Record, G!RecordFails,
     G!Tick, G!Restart, G!vars, G!program, G!history, G!SpentToday,
     G!Affordable, G!PostLate, G!Charge, G!Excess, G!Final, G!Days, P!Next,
     P!Admit, P!OverCallCap, P!TurnAway, P!Reserve, P!Refuse, P!ProviderEnds,
     P!ProviderFails, P!Settle, P!Record, P!RecordFails, P!Tick, P!Restart,
     P!vars, P!program, P!history, P!SpentToday, P!Affordable, P!PostLate,
     P!Charge, P!Excess, P!Final, P!Days
<1>3. Spec => G!Spec
  BY GatewayDriven
<1>4. G!Spec => P!Spec
  BY <1>1, <1>2, PTL DEF G!Spec, P!Spec
<1> QED
  BY <1>3, <1>4, PTL

(* The daily cap holds for the service as a whole, however its runs are    *)
(* interleaved and wherever they fail: every unit they cost beyond the     *)
(* budget is one the gateway's history names.                              *)
THEOREM ServiceWithinBudget == Spec => []G!DailyCap
<1>1. P!GatewayAssumption
  BY BudgetAssumption DEF G!GatewayAssumption, P!GatewayAssumption
<1>2. P!Spec => []P!DailyCap
  BY <1>1, P!DailyCapHolds
<1>3. P!DailyCap => G!DailyCap
  BY DEF G!DailyCap, P!DailyCap, G!Held, P!Held, G!HeldUnits, P!HeldUnits,
         G!Outstanding, P!Outstanding, G!Slack, P!Slack, G!Days, P!Days,
         G!Cardinality, P!Cardinality, G!IsFiniteSet, P!IsFiniteSet
<1> QED
  BY <1>2, <1>3, GatewayIsGateway, PTL

(* Type correctness, the gateway's included. *)
THEOREM PipelineTypeCorrect == Spec => []TypeOK
<1>1. P!GatewayAssumption
  BY BudgetAssumption DEF G!GatewayAssumption, P!GatewayAssumption
<1>2. P!Spec => []P!TypeOK
  BY <1>1, P!TypeCorrect
<1>3. Spec => P!Spec
  BY GatewayIsGateway
<1>4. P!TypeOK => G!TypeOK
  BY DEF P!TypeOK, G!TypeOK, P!Days, G!Days, P!Phases, G!Phases, P!Final, G!Final
<1>5. TrailInv => trail \in [Runs -> Seq([kind : Kinds, blocked : BOOLEAN])]
  BY DEF TrailInv, TrailShape, Written, InOrder, Rows
<1>6. Spec => []TrailInv
  BY TrailInit, TrailStep, PTL DEF Spec
<1>7. Spec => []RequestShape
  BY RequestInit, RequestStep, PTL DEF Spec
<1>8. G!TypeOK /\ RequestShape /\ trail \in [Runs -> Seq([kind : Kinds, blocked : BOOLEAN])]
         => TypeOK
  BY DEF TypeOK, RequestShape
<1> QED
  BY <1>2, <1>3, <1>4, <1>5, <1>6, <1>7, <1>8, PTL

----------------------------------------------------------------------------
(* The service a caller sees.  A step of run r leaves every other question *)
(* of PolicyService as it was.                                             *)
Elsewhere(r) ==
    \A q \in Runs \ {r} :
        /\ stage'[q] = stage[q] /\ reason'[q] = reason[q] /\ phase'[q] = phase[q]
        /\ chunks'[q] = chunks[q] /\ cited'[q] = cited[q]
        /\ q \in sent' <=> q \in sent

LEMMA OneQuestion ==
    ASSUME NEW r \in Runs, Elsewhere(r)
    PROVE  /\ ServiceState' = [ServiceState EXCEPT ![r] = ServiceState'[r]]
           /\ ServiceShown' = [ServiceShown EXCEPT ![r] = ServiceShown'[r]]
           /\ ServiceCall' = [ServiceCall EXCEPT ![r] = ServiceCall'[r]]
           /\ ServiceAnswer' = [ServiceAnswer EXCEPT ![r] = ServiceAnswer'[r]]
<1>1. ServiceState' = [ServiceState EXCEPT ![r] = ServiceState'[r]]
  <2>1. ASSUME NEW q \in Runs, q # r PROVE ServiceState'[q] = ServiceState[q]
    <3>1. stage'[q] = stage[q] /\ reason'[q] = reason[q]
      BY <2>1 DEF Elsewhere
    <3> QED
      BY <3>1 DEF ServiceState
  <2>2. /\ ServiceState' = [q \in Runs |-> ServiceState'[q]]
        /\ ServiceState = [q \in Runs |-> ServiceState[q]]
    BY DEF ServiceState
  <2> QED
    BY <2>1, <2>2
<1>2. ServiceShown' = [ServiceShown EXCEPT ![r] = ServiceShown'[r]]
  BY DEF Elsewhere, ServiceShown
<1>3. ServiceCall' = [ServiceCall EXCEPT ![r] = ServiceCall'[r]]
  BY DEF Elsewhere, ServiceCall
<1>4. ServiceAnswer' = [ServiceAnswer EXCEPT ![r] = ServiceAnswer'[r]]
  BY DEF Elsewhere, ServiceAnswer
<1> QED
  BY <1>1, <1>2, <1>3, <1>4

(* What PolicyService sees of a run. *)
LEMMA ServiceOf ==
    ASSUME NEW r \in Runs
    PROVE  /\ stage[r] = "idle" => ServiceState[r] = "waiting"
           /\ stage[r] \in {"screened", "retrieved", "grounded"} => ServiceState[r] = "open"
           /\ stage[r] = "answered" =>
                 /\ ServiceState[r] = "answered"
                 /\ ServiceShown[r] = chunks[r] /\ ServiceAnswer[r] = cited[r]
           /\ stage[r] = "degraded" =>
                 ServiceState[r] = IF reason[r] \in Unasked THEN "refused" ELSE "failed"
           /\ stage[r] \in {"errored", "lost"} => ServiceState[r] = "failed"
           /\ stage[r] \in {"retrieved", "grounded"} => ServiceShown[r] = chunks[r]
           /\ stage[r] \in {"idle", "screened", "degraded", "errored", "lost"} =>
                 ServiceShown[r] = {}
           /\ stage[r] # "answered" => ServiceAnswer[r] = {}
           /\ r \notin sent => ServiceCall[r] = "none"
           /\ r \in sent => ServiceCall[r] = IF phase[r] = "calling" THEN "out" ELSE "over"
  BY DEF ServiceState, ServiceShown, ServiceAnswer, ServiceCall

ServiceInv == TrailInv /\ AnswerInv /\ RequestShape

LEMMA ServiceInvHolds == Spec => []ServiceInv
  BY TrailInit, TrailStep, AnswerInit, AnswerStep, RequestInit, RequestStep, PTL
     DEF Spec, ServiceInv

LEMMA Updated ==
    ASSUME NEW r \in Runs
    PROVE  /\ ServiceState = [ServiceState EXCEPT ![r] = ServiceState[r]]
           /\ ServiceShown = [ServiceShown EXCEPT ![r] = ServiceShown[r]]
           /\ ServiceCall = [ServiceCall EXCEPT ![r] = ServiceCall[r]]
           /\ ServiceAnswer = [ServiceAnswer EXCEPT ![r] = ServiceAnswer[r]]
<1>1. ServiceState = [ServiceState EXCEPT ![r] = ServiceState[r]]
  BY DEF ServiceState
<1>2. ServiceShown = [ServiceShown EXCEPT ![r] = ServiceShown[r]]
  BY DEF ServiceShown
<1>3. ServiceCall = [ServiceCall EXCEPT ![r] = ServiceCall[r]]
  BY DEF ServiceCall
<1>4. ServiceAnswer = [ServiceAnswer EXCEPT ![r] = ServiceAnswer[r]]
  BY DEF ServiceAnswer
<1> QED
  BY <1>1, <1>2, <1>3, <1>4

(* What the invariant says where a step of PolicyService begins. *)
LEMMA CallKnown ==
    ASSUME ServiceInv, NEW r \in Runs
    PROVE  /\ phase[r] \in {"idle", "admitted"} => r \notin sent
           /\ phase[r] \in {"calling", "settled", "returned"} => r \in sent
           /\ phase[r] \in {"admitted", "calling", "settled"} => stage[r] = "retrieved"
           /\ stage[r] \in {"idle", "screened"} => phase[r] = "idle"
           /\ stage[r] \in {"grounded", "answered"} => phase[r] = "returned"
           /\ stage[r] \in {"retrieved", "grounded"} => chunks[r] # {}
  BY DEF ServiceInv, TrailInv, OutcomeInv, SentMatchesCall, CallMatchesStage, Explained

Working == {"idle", "screened", "retrieved", "grounded"}

(* A working run that ends without an answer, the model's reply, if it was *)
(* asked, known or lost.                                                   *)
LEMMA WorkFails ==
    ASSUME ServiceInv, NEW r \in Runs, Elsewhere(r), stage[r] \in Working,
           \/ stage'[r] \in {"errored", "lost"}
           \/ stage'[r] = "degraded" /\ reason'[r] \notin Unasked,
           r \in sent' <=> r \in sent, phase'[r] # "calling"
    PROVE  Service!Next
<1>1. /\ ServiceState[r] \in {"waiting", "open"} /\ ServiceState'[r] = "failed"
      /\ ServiceShown'[r] = {}
      /\ ServiceAnswer[r] = {} /\ ServiceAnswer'[r] = {}
  <2>1. stage'[r] \in {"degraded", "errored", "lost"}
    OBVIOUS
  <2>2. ServiceState[r] \in {"waiting", "open"} /\ ServiceAnswer[r] = {}
    BY ServiceOf DEF Working
  <2>3. ServiceState'[r] = "failed"
    BY DEF ServiceState
  <2>4. ServiceShown'[r] = {} /\ ServiceAnswer'[r] = {}
    BY <2>1 DEF ServiceShown, ServiceAnswer
  <2> QED
    BY <2>2, <2>3, <2>4
<1>2. ServiceCall'[r] = Service!Over(ServiceCall[r])
  BY DEF ServiceCall, Service!Over
<1>3. ServiceAnswer = [q \in Runs |-> ServiceAnswer[q]]
  BY DEF ServiceAnswer
<1>4. Service!Fail(r)
  BY <1>1, <1>2, <1>3, OneQuestion DEF Service!Fail
<1> QED
  BY <1>4 DEF Service!Next

(* A working run that is refused before the model is asked. *)
LEMMA WorkRefused ==
    ASSUME ServiceInv, NEW r \in Runs, Elsewhere(r), stage[r] \in Working,
           stage'[r] = "degraded", reason'[r] \in Unasked,
           r \notin sent, r \notin sent'
    PROVE  Service!Next
<1>1. /\ ServiceState[r] \in {"waiting", "open"}
      /\ ServiceCall[r] = "none" /\ ServiceAnswer[r] = {}
  BY ServiceOf DEF Working
<1>2. ServiceState'[r] = "refused"
  BY DEF ServiceState
<1>3. ServiceShown'[r] = {} /\ ServiceCall'[r] = "none" /\ ServiceAnswer'[r] = {}
  BY DEF ServiceShown, ServiceCall, ServiceAnswer
<1>4. /\ ServiceAnswer = [q \in Runs |-> ServiceAnswer[q]]
      /\ ServiceCall = [q \in Runs |-> ServiceCall[q]]
  BY DEF ServiceAnswer, ServiceCall
<1>5. Service!Refuse(r)
  BY <1>1, <1>2, <1>3, <1>4, OneQuestion DEF Service!Refuse
<1> QED
  BY <1>5 DEF Service!Next

(* A step of the gateway or the parser that a caller cannot tell.          *)
LEMMA WorkUnseen ==
    ASSUME NEW r \in Runs, Elsewhere(r),
           ServiceState'[r] = ServiceState[r], ServiceShown'[r] = ServiceShown[r],
           ServiceCall'[r] = ServiceCall[r], ServiceAnswer'[r] = ServiceAnswer[r]
    PROVE  UNCHANGED Service!vars
<1>1. /\ ServiceState = [q \in Runs |-> ServiceState[q]]
      /\ ServiceShown = [q \in Runs |-> ServiceShown[q]]
      /\ ServiceCall = [q \in Runs |-> ServiceCall[q]]
      /\ ServiceAnswer = [q \in Runs |-> ServiceAnswer[q]]
  BY DEF ServiceState, ServiceShown, ServiceCall, ServiceAnswer
<1> QED
  BY <1>1, OneQuestion DEF Service!vars


LEMMA ServiceInit == Init => Service!Init
<1> SUFFICES ASSUME Init
             PROVE  Service!Init
  OBVIOUS
<1>1. \A r \in Runs : stage[r] = "idle" /\ r \notin sent
  BY DEF Init, G!Init
<1>2. ServiceState = [r \in Runs |-> "waiting"]
  BY <1>1, ServiceOf DEF ServiceState
<1>3. /\ ServiceShown = [r \in Runs |-> {}]
      /\ ServiceCall = [r \in Runs |-> "none"]
      /\ ServiceAnswer = [r \in Runs |-> {}]
  BY <1>1, ServiceOf DEF ServiceShown, ServiceCall, ServiceAnswer
<1> QED
  BY <1>2, <1>3 DEF Service!Init

(* The functions a step updates at one run.                                *)
LEMMA RunsAreFunctions ==
    ASSUME ServiceInv
    PROVE  /\ stage = [q \in Runs |-> stage[q]] /\ reason = [q \in Runs |-> reason[q]]
           /\ phase = [q \in Runs |-> phase[q]] /\ chunks = [q \in Runs |-> chunks[q]]
           /\ cited = [q \in Runs |-> cited[q]]
  BY DEF ServiceInv, TrailInv, OutcomeInv, OutcomeShape, RequestShape

LEMMA AskServes ==
    ASSUME ServiceInv, NEW r \in Runs, NEW s \in Screenings, Ask(r, s) \/ AskUnrecorded(r, s)
    PROVE  Service!Next
<1>1. /\ stage[r] = "idle" /\ r \notin sent
      /\ UNCHANGED <<gateway, chunks, cited>>
  BY CallKnown DEF Ask, AskUnrecorded
<1>2. \/ Ends(r, "injection_blocked") \/ Errs(r)
      \/ stage' = [stage EXCEPT ![r] = "screened"] /\ UNCHANGED reason
  BY DEF Ask, AskUnrecorded, Moves
<1>3. Elsewhere(r)
  BY <1>1, <1>2, RunsAreFunctions DEF Elsewhere, gateway, Ends, Errs
<1>4. sent' = sent /\ phase'[r] = "idle"
  BY <1>1, CallKnown DEF gateway
<1>5. CASE Ends(r, "injection_blocked")
  <2>1. stage'[r] = "degraded" /\ reason'[r] \in Unasked
    BY <1>5, RunsAreFunctions DEF Ends, Unasked
  <2> QED
    BY <1>1, <1>3, <1>4, <2>1, WorkRefused DEF Working
<1>6. CASE Errs(r)
  <2>1. stage'[r] = "errored"
    BY <1>6, RunsAreFunctions DEF Errs
  <2> QED
    BY <1>1, <1>3, <1>4, <2>1, WorkFails DEF Working
<1>7. CASE stage' = [stage EXCEPT ![r] = "screened"] /\ UNCHANGED reason
  <2>1. stage'[r] = "screened"
    BY <1>7, RunsAreFunctions
  <2>2. /\ ServiceState[r] = "waiting" /\ ServiceState'[r] = "open"
        /\ ServiceShown'[r] = ServiceShown[r] /\ ServiceCall'[r] = ServiceCall[r]
        /\ ServiceAnswer'[r] = ServiceAnswer[r]
    <3>1. ServiceState'[r] = "open"
      BY <2>1 DEF ServiceState
    <3>2. ServiceShown'[r] = {} /\ ServiceAnswer'[r] = {} /\ ServiceCall'[r] = "none"
      BY <1>1, <1>4, <2>1 DEF ServiceShown, ServiceAnswer, ServiceCall
    <3> QED
      BY <1>1, <3>1, <3>2, ServiceOf
  <2>3. Service!LetIn(r)
    BY <1>3, <2>2, OneQuestion, Updated DEF Service!LetIn
  <2> QED
    BY <2>3 DEF Service!Next
<1> QED
  BY <1>2, <1>5, <1>6, <1>7

LEMMA RetrieveServes ==
    ASSUME ServiceInv, NEW r \in Runs, NEW docs \in SUBSET Documents, Retrieve(r, docs)
    PROVE  Service!Next
<1>1. PICK top \in TopK(Candidates(r, docs)) :
         /\ chunks' = [chunks EXCEPT ![r] = top]
         /\ \/ top = {} /\ Ends(r, "no_permitted_context")
            \/ top # {} /\ Moves(r, "screened", "retrieved") /\ UNCHANGED reason
            \/ Errs(r)
  BY DEF Retrieve
<1>2. /\ stage[r] = "screened" /\ r \notin sent /\ r \notin sent' /\ phase'[r] = "idle"
      /\ UNCHANGED <<gateway, cited>>
  BY CallKnown DEF Retrieve, gateway
<1>3. Elsewhere(r)
  BY <1>1, <1>2, RunsAreFunctions DEF Elsewhere, gateway, Ends, Errs, Moves
<1>4. CASE Ends(r, "no_permitted_context")
  <2>1. stage'[r] = "degraded" /\ reason'[r] \in Unasked
    BY <1>4, RunsAreFunctions DEF Ends, Unasked
  <2> QED
    BY <1>2, <1>3, <2>1, WorkRefused DEF Working
<1>5. CASE Errs(r)
  <2>1. stage'[r] = "errored"
    BY <1>5, RunsAreFunctions DEF Errs
  <2> QED
    BY <1>2, <1>3, <2>1, WorkFails DEF Working
<1>6. CASE top # {} /\ Moves(r, "screened", "retrieved")
  <2>1. stage'[r] = "retrieved" /\ chunks'[r] = top
    BY <1>1, <1>6, RunsAreFunctions DEF Moves
  <2>2. top \in (SUBSET Searchable[r]) \ {{}}
    BY <1>6 DEF TopK, Candidates
  <2>3. /\ ServiceState[r] = "open" /\ ServiceShown[r] = {} /\ ServiceCall[r] = "none"
        /\ ServiceAnswer[r] = {}
    BY <1>2, ServiceOf
  <2>4. /\ ServiceState'[r] = "open" /\ ServiceShown'[r] = top /\ ServiceCall'[r] = "none"
        /\ ServiceAnswer'[r] = {}
    <3>1. ServiceState'[r] = "open"
      BY <2>1 DEF ServiceState
    <3>2. ServiceShown'[r] = top /\ ServiceAnswer'[r] = {} /\ ServiceCall'[r] = "none"
      BY <1>2, <2>1 DEF ServiceShown, ServiceAnswer, ServiceCall
    <3> QED
      BY <3>1, <3>2
  <2>5. Service!Show(r)
    BY <1>3, <2>2, <2>3, <2>4, OneQuestion, Updated DEF Service!Show
  <2> QED
    BY <2>5 DEF Service!Next
<1> QED
  BY <1>1, <1>4, <1>5, <1>6

LEMMA DeniedServes ==
    ASSUME ServiceInv, NEW r \in Runs, RetrieveDenied(r)
    PROVE  Service!Next
<1>1. /\ stage[r] = "screened" /\ r \notin sent /\ r \notin sent' /\ phase'[r] = "idle"
      /\ UNCHANGED <<gateway, chunks, cited>>
      /\ Ends(r, "authz_unavailable") \/ Errs(r)
  BY CallKnown DEF RetrieveDenied, gateway
<1>2. Elsewhere(r)
  BY <1>1, RunsAreFunctions DEF Elsewhere, gateway, Ends, Errs
<1>3. CASE Ends(r, "authz_unavailable")
  <2>1. stage'[r] = "degraded" /\ reason'[r] \in Unasked
    BY <1>3, RunsAreFunctions DEF Ends, Unasked
  <2> QED
    BY <1>1, <1>2, <2>1, WorkRefused DEF Working
<1>4. CASE Errs(r)
  <2>1. stage'[r] = "errored"
    BY <1>4, RunsAreFunctions DEF Errs
  <2> QED
    BY <1>1, <1>2, <2>1, WorkFails DEF Working
<1> QED
  BY <1>1, <1>3, <1>4

LEMMA PromptServes ==
    ASSUME ServiceInv, NEW r \in Runs,
           PromptRejected(r) \/ \E e \in Estimates : Prompt(r, e)
    PROVE  Service!Next \/ UNCHANGED Service!vars
<1>1. /\ stage[r] = "retrieved" /\ phase[r] = "idle"
      /\ UNCHANGED <<sent, chunks, cited>>
      /\ \/ \E e \in Estimates : G!Admit(r, e) /\ UNCHANGED <<stage, reason>>
         \/ \E e \in Estimates : G!OverCallCap(r, e) /\ Ends(r, "budget_exceeded")
         \/ G!TurnAway(r) /\ Ends(r, "provider_error")
  BY DEF PromptRejected, Prompt, G!Admit, G!OverCallCap, G!TurnAway
<1>2. r \notin sent /\ r \notin sent'
  BY <1>1, CallKnown
<1>3. Elsewhere(r) /\ phase'[r] \in {"admitted", "refused", "raised"}
  BY <1>1, RunsAreFunctions DEF Elsewhere, Ends, G!Admit, G!OverCallCap, G!TurnAway
<1>4. CASE UNCHANGED <<stage, reason>>
  BY <1>1, <1>2, <1>3, <1>4, WorkUnseen
     DEF ServiceState, ServiceShown, ServiceAnswer, ServiceCall
<1>5. CASE Ends(r, "budget_exceeded")
  <2>1. stage'[r] = "degraded" /\ reason'[r] \in Unasked
    BY <1>5, RunsAreFunctions DEF Ends, Unasked
  <2> QED
    BY <1>1, <1>2, <1>3, <2>1, WorkRefused DEF Working
<1>6. CASE Ends(r, "provider_error")
  <2>1. stage'[r] = "degraded" /\ reason'[r] \notin Unasked
    BY <1>6, RunsAreFunctions DEF Ends, Unasked
  <2> QED
    BY <1>1, <1>2, <1>3, <2>1, WorkFails DEF Working
<1> QED
  BY <1>1, <1>4, <1>5, <1>6

LEMMA ReserveServes ==
    ASSUME ServiceInv, NEW r \in Runs, Reserve(r)
    PROVE  Service!Next
<1>1. /\ phase[r] = "admitted" /\ stage[r] = "retrieved" /\ chunks[r] # {}
      /\ UNCHANGED <<chunks, cited>>
  BY CallKnown DEF Reserve, G!Reserve, G!Refuse
<1>2. r \notin sent
  BY <1>1, CallKnown
<1>3. Elsewhere(r)
  BY <1>1, RunsAreFunctions DEF Elsewhere, Reserve, Ends, G!Reserve, G!Refuse
<1>4. CASE G!Reserve(r) /\ UNCHANGED <<stage, reason>>
  <2>1. phase'[r] = "calling" /\ r \in sent'
    BY <1>4, RunsAreFunctions DEF G!Reserve
  <2>2. /\ ServiceState[r] = "open" /\ ServiceShown[r] # {} /\ ServiceCall[r] = "none"
        /\ ServiceAnswer[r] = {}
    BY <1>1, <1>2, ServiceOf
  <2>3. /\ ServiceState'[r] = ServiceState[r] /\ ServiceShown'[r] = ServiceShown[r]
        /\ ServiceCall'[r] = "out" /\ ServiceAnswer'[r] = ServiceAnswer[r]
    BY <1>1, <1>4, <2>1 DEF ServiceState, ServiceShown, ServiceCall, ServiceAnswer
  <2>4. Service!Consult(r)
    BY <1>3, <2>2, <2>3, OneQuestion, Updated DEF Service!Consult
  <2> QED
    BY <2>4 DEF Service!Next
<1>5. CASE G!Refuse(r) /\ Ends(r, "budget_exceeded")
  <2>1. stage'[r] = "degraded" /\ reason'[r] \in Unasked /\ r \notin sent'
    BY <1>2, <1>5, RunsAreFunctions DEF Ends, Unasked, G!Refuse
  <2> QED
    BY <1>1, <1>2, <1>3, <2>1, WorkRefused DEF Working
<1> QED
  BY <1>4, <1>5 DEF Reserve

LEMMA GenerateServes ==
    ASSUME ServiceInv, NEW r \in Runs, Generate(r)
    PROVE  Service!Next
<1>1. /\ phase[r] = "calling" /\ stage[r] = "retrieved"
      /\ UNCHANGED <<sent, chunks, cited>>
  BY CallKnown DEF Generate, G!Settle, G!ProviderFails
<1>2. r \in sent
  BY <1>1, CallKnown
<1>3. Elsewhere(r)
  BY <1>1, RunsAreFunctions DEF Elsewhere, Generate, Ends, G!Settle, G!ProviderFails
<1>4. CASE (\E cost \in Costs : G!Settle(r, cost)) /\ UNCHANGED <<stage, reason>>
  <2>1. phase'[r] = "settled"
    BY <1>4, RunsAreFunctions DEF G!Settle
  <2>2. /\ ServiceState[r] = "open" /\ ServiceCall[r] = "out" /\ ServiceAnswer[r] = {}
    BY <1>1, <1>2, ServiceOf
  <2>3. /\ ServiceState'[r] = ServiceState[r] /\ ServiceShown'[r] = ServiceShown[r]
        /\ ServiceCall'[r] = "over" /\ ServiceAnswer'[r] = ServiceAnswer[r]
    BY <1>1, <1>2, <1>4, <2>1 DEF ServiceState, ServiceShown, ServiceCall, ServiceAnswer
  <2>4. Service!Hear(r)
    BY <1>3, <2>2, <2>3, OneQuestion, Updated DEF Service!Hear
  <2> QED
    BY <2>4 DEF Service!Next
<1>5. CASE \E bill \in FailureBills, why \in ProviderReasons :
              G!ProviderFails(r, bill) /\ Ends(r, why)
  <2>1. stage'[r] = "degraded" /\ reason'[r] \notin Unasked /\ phase'[r] = "raised"
    BY <1>5, RunsAreFunctions DEF Ends, Unasked, ProviderReasons, G!ProviderFails
  <2> QED
    BY <1>1, <1>3, <2>1, WorkFails DEF Working
<1> QED
  BY <1>4, <1>5 DEF Generate

LEMMA DigestServes ==
    ASSUME ServiceInv, NEW r \in Runs, NEW reply \in Replies, Digest(r, reply)
    PROVE  Service!Next \/ UNCHANGED Service!vars
<1>1. /\ phase[r] = "settled" /\ stage[r] = "retrieved" /\ r \in sent
      /\ UNCHANGED <<sent, chunks>>
  BY CallKnown DEF Digest, G!Record
<1>2. phase' = [phase EXCEPT ![r] = "returned"] /\ phase'[r] = "returned"
  BY RunsAreFunctions DEF Digest, G!Record
<1>3. CASE Grounded(r, reply) # {}
  <2>1. /\ cited' = [cited EXCEPT ![r] = Grounded(r, reply)]
        /\ stage' = [stage EXCEPT ![r] = "grounded"] /\ stage'[r] = "grounded"
        /\ UNCHANGED reason
    BY <1>3, RunsAreFunctions DEF Digest, Moves
  <2>2. Elsewhere(r)
    BY <1>1, <1>2, <2>1, RunsAreFunctions DEF Elsewhere
  <2>3. ServiceState[r] = "open" /\ ServiceState'[r] = "open"
    BY <1>1, <2>1 DEF ServiceState
  <2>4. /\ ServiceShown'[r] = ServiceShown[r] /\ ServiceCall'[r] = ServiceCall[r]
        /\ ServiceAnswer'[r] = ServiceAnswer[r]
    BY <1>1, <1>2, <2>1 DEF ServiceShown, ServiceCall, ServiceAnswer
  <2> QED
    BY <2>2, <2>3, <2>4, WorkUnseen
<1>4. CASE Grounded(r, reply) = {}
  <2>1. PICK why \in ParseReasons \cup {"ungrounded_citation"} : Ends(r, why)
    BY <1>4 DEF Digest
  <2>2. cited' = cited
    BY <1>4 DEF Digest
  <2>3. Elsewhere(r)
    BY <1>1, <1>2, <2>1, <2>2, RunsAreFunctions DEF Elsewhere, Ends
  <2>4. stage'[r] = "degraded" /\ reason'[r] \notin Unasked
    BY <2>1, RunsAreFunctions DEF Ends, Unasked, ParseReasons
  <2> QED
    BY <1>1, <1>2, <2>3, <2>4, WorkFails DEF Working
<1> QED
  BY <1>3, <1>4

LEMMA UnrecordedServes ==
    ASSUME ServiceInv, NEW r \in Runs, DigestUnrecorded(r)
    PROVE  Service!Next
<1>1. /\ phase[r] = "settled" /\ stage[r] = "retrieved"
      /\ UNCHANGED <<sent, chunks, cited>>
      /\ phase' = [phase EXCEPT ![r] = "raised"] /\ phase'[r] = "raised"
      /\ Ends(r, "provider_error")
  BY CallKnown, RunsAreFunctions DEF DigestUnrecorded, G!RecordFails
<1>2. Elsewhere(r)
  BY <1>1, RunsAreFunctions DEF Elsewhere, Ends
<1>3. stage'[r] = "degraded" /\ reason'[r] \notin Unasked
  BY <1>1, RunsAreFunctions DEF Ends, Unasked
<1> QED
  BY <1>1, <1>2, <1>3, WorkFails DEF Working

(* The answer a caller gets is the one the model's reply was reduced to,   *)
(* and rests on the chunks of the same run.                                *)
LEMMA ScreenServes ==
    ASSUME ServiceInv, NEW r \in Runs, NEW leak \in BOOLEAN, Screen(r, leak)
    PROVE  Service!Next
<1>1. /\ stage[r] = "grounded" /\ phase[r] = "returned" /\ r \in sent
      /\ UNCHANGED <<gateway, chunks, cited>>
      /\ sent' = sent /\ phase' = phase
  BY CallKnown DEF Screen, gateway
<1>2. \/ Ends(r, "cross_tenant_leak") \/ Errs(r)
      \/ stage' = [stage EXCEPT ![r] = "answered"] /\ UNCHANGED reason
  BY DEF Screen, Moves
<1>3. Elsewhere(r)
  BY <1>1, <1>2, RunsAreFunctions DEF Elsewhere, Ends, Errs
<1>4. CASE Ends(r, "cross_tenant_leak") \/ Errs(r)
  <2>1. \/ stage'[r] = "errored"
        \/ stage'[r] = "degraded" /\ reason'[r] \notin Unasked
    BY <1>4, RunsAreFunctions DEF Ends, Errs, Unasked
  <2> QED
    BY <1>1, <1>3, <2>1, WorkFails DEF Working
<1>5. CASE stage' = [stage EXCEPT ![r] = "answered"] /\ UNCHANGED reason
  <2>1. stage'[r] = "answered"
    BY <1>5, RunsAreFunctions
  <2>2. /\ cited[r] \in (SUBSET Citation) \ {{}}
        /\ \A c \in cited[r] : \E chunk \in chunks[r] : c.rule = chunk.rule
    <3>1. cited[r] \in SUBSET Citation
      BY DEF ServiceInv, RequestShape
    <3> QED
      BY <1>1, <3>1 DEF ServiceInv, AnswerInv, CitationsGrounded
  <2>3. /\ ServiceState[r] = "open" /\ ServiceShown[r] = chunks[r]
        /\ ServiceCall[r] = "over"
    BY <1>1, ServiceOf
  <2>4. /\ ServiceState'[r] = "answered" /\ ServiceAnswer'[r] = cited[r]
        /\ ServiceShown'[r] = ServiceShown[r] /\ ServiceCall'[r] = ServiceCall[r]
    <3>1. ServiceState'[r] = "answered"
      BY <2>1 DEF ServiceState
    <3>2. ServiceAnswer'[r] = cited[r] /\ ServiceShown'[r] = chunks[r]
      BY <1>1, <2>1 DEF ServiceAnswer, ServiceShown
    <3>3. ServiceCall'[r] = ServiceCall[r]
      BY <1>1 DEF ServiceCall
    <3> QED
      BY <2>3, <3>1, <3>2, <3>3
  <2>5. Service!Answer(r)
    BY <1>3, <2>2, <2>3, <2>4, OneQuestion, Updated DEF Service!Answer
  <2> QED
    BY <2>5 DEF Service!Next
<1> QED
  BY <1>2, <1>4, <1>5

(* A restart loses the questions under way and no other. *)
LEMMA RestartServes ==
    ASSUME ServiceInv, Restart
    PROVE  Service!Next
<1>1. /\ UNCHANGED <<sent, chunks, cited, reason>>
      /\ stage' = [r \in Runs |->
                      IF stage[r] \in Ended \cup {"idle"} THEN stage[r] ELSE "lost"]
      /\ phase' = [r \in Runs |->
                      IF phase[r] \in G!Final \cup {"idle"} THEN phase[r] ELSE "lost"]
  BY DEF Restart, G!Restart
<1>2. \A r \in Runs :
         /\ phase'[r] # "calling"
         /\ phase[r] = "calling" => stage[r] = "retrieved"
         /\ stage[r] \in Working \cup Ended
  <2>1. \A r \in Runs : phase'[r] # "calling"
    BY <1>1 DEF G!Final
  <2>2. \A r \in Runs : stage[r] \in Stages \cup Ended
    BY DEF ServiceInv, RequestShape
  <2> QED
    BY <2>1, <2>2, CallKnown DEF Stages, Working
<1>3. \A r \in Runs :
         ServiceState'[r] = IF ServiceState[r] = "open" THEN "failed" ELSE ServiceState[r]
  <2> TAKE r \in Runs
  <2>1. CASE stage[r] \in {"screened", "retrieved", "grounded"}
    <3>1. stage'[r] = "lost"
      BY <1>1, <2>1 DEF Ended
    <3> QED
      BY <2>1, <3>1 DEF ServiceState
  <2>2. CASE stage[r] \notin {"screened", "retrieved", "grounded"}
    <3>1. stage'[r] = stage[r] /\ reason'[r] = reason[r]
      BY <1>1, <1>2, <2>2 DEF Working
    <3>2. ServiceState'[r] = ServiceState[r]
      BY <3>1 DEF ServiceState
    <3>3. ServiceState[r] # "open"
      BY <1>2, <2>2, ServiceOf DEF Working, Ended
    <3> QED
      BY <3>2, <3>3
  <2> QED
    BY <2>1, <2>2
<1>4. \A r \in Runs : ServiceState[r] = "open" <=>
                         stage[r] \in {"screened", "retrieved", "grounded"}
  BY <1>2, ServiceOf DEF Working, Ended
<1>5. \A r \in Runs :
         ServiceShown'[r] = IF ServiceState[r] = "open" THEN {} ELSE ServiceShown[r]
  BY <1>1, <1>2, <1>4 DEF ServiceShown, Working, Ended
<1>6. \A r \in Runs :
         ServiceCall'[r] = IF ServiceState[r] = "open" THEN Service!Over(ServiceCall[r])
                           ELSE ServiceCall[r]
  BY <1>1, <1>2, <1>4 DEF ServiceCall, Service!Over
<1>7. \A r \in Runs : ServiceAnswer'[r] = ServiceAnswer[r]
  BY <1>1, <1>2 DEF ServiceAnswer, Working, Ended
<1>8. /\ ServiceState' = [r \in Runs |-> ServiceState'[r]]
      /\ ServiceShown' = [r \in Runs |-> ServiceShown'[r]]
      /\ ServiceCall' = [r \in Runs |-> ServiceCall'[r]]
      /\ ServiceAnswer' = [r \in Runs |-> ServiceAnswer'[r]]
      /\ ServiceAnswer = [r \in Runs |-> ServiceAnswer[r]]
  BY DEF ServiceState, ServiceShown, ServiceCall, ServiceAnswer
<1>9. Service!Restart
  BY <1>3, <1>5, <1>6, <1>7, <1>8 DEF Service!Restart
<1> QED
  BY <1>9 DEF Service!Next

(* The pipeline over its gateway is a PolicyService: whatever fails, is    *)
(* refused or restarted, the model is asked once at most about a question, *)
(* after something was shown, an answer rests on that, and a question that *)
(* was refused never reached the model.                                    *)
THEOREM PipelineImplementsService == Spec => ImplementsService
<1>1. ServiceInv /\ [Next]_vars => [Service!Next]_Service!vars
  <2> SUFFICES ASSUME ServiceInv, [Next]_vars
               PROVE  Service!Next \/ UNCHANGED Service!vars
    OBVIOUS
  <2>1. ASSUME NEW r \in Runs, NEW s \in Screenings, Ask(r, s) \/ AskUnrecorded(r, s)
        PROVE  Service!Next
    BY <2>1, AskServes
  <2>2. ASSUME NEW r \in Runs, Proceed(r)
        PROVE  Service!Next \/ UNCHANGED Service!vars
    BY <2>2, RetrieveServes, DeniedServes, PromptServes, ReserveServes, GenerateServes,
       DigestServes, UnrecordedServes, ScreenServes DEF Proceed
  <2>3. CASE Restart
    BY <2>3, RestartServes
  <2>4. CASE Midnight \/ UNCHANGED vars
    <3>1. UNCHANGED <<stage, reason, phase, chunks, cited, sent>>
      BY <2>4 DEF Midnight, request, vars, gateway, G!Tick, G!program
    <3> QED
      BY <3>1 DEF Service!vars, ServiceState, ServiceShown, ServiceCall, ServiceAnswer
  <2> QED
    BY <2>1, <2>2, <2>3, <2>4 DEF Next
<1> QED
  BY <1>1, ServiceInit, ServiceInvHolds, PTL DEF Spec, Service!Spec, ImplementsService
=============================================================================
