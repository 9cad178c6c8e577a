--------------------------- MODULE PolicyPipeline ---------------------------
(***************************************************************************)
(* The policy-question pipeline (copilot_service/pipeline.py) composed     *)
(* with the model gateway: concurrent runs of PolicyPipeline.ask, each on  *)
(* its own request thread, over one gateway.                               *)
(*                                                                         *)
(* A run's gateway call is the gateway's call of the same name, so a step  *)
(* of the pipeline that enters the gateway is a gateway step with the      *)
(* pipeline's own effects beside it.  A step ends where another thread,    *)
(* midnight or a restart can come between.                                 *)
(*                                                                         *)
(* Texts are abstracted to what the control depends on: a screening is the *)
(* injection rail's verdict, a chunk its document and rule, a reply the    *)
(* citations a model's text parses to.                                     *)
(***************************************************************************)
EXTENDS Integers, Sequences, FiniteSets

CONSTANTS
    Runs,          \* requests, each with one principal and one expense date
    Documents,     \* ids of policy documents
    Rules,         \* rule references
    Searchable,    \* Searchable[r]: chunks of the principal's tenant in force
    K,             \* chunks asked for
    Replies,       \* what a completion's text parses to: sets of citations,
                   \*   {} when it does not parse
    Budget, CallCap, Estimates, Costs, FailureBills, MaxDay, MaxRestarts

Chunk == [document : Documents, rule : Rules]

(* A citation has the shape of a chunk: a document id and a rule reference. *)
Citation == [document : Documents, rule : Rules]

ASSUME PipelineAssumption ==
    /\ Searchable \in [Runs -> SUBSET Chunk]
    /\ K \in Nat \ {0}
    /\ Replies \subseteq SUBSET Citation

VARIABLES
    today, restarts, spent, spentOn, phase, est, resOn, logged, sent,
    invoice, opening, leaked, overrun, late,  \* the gateway's
    stage,      \* stage[r]: how far ask() has come
    screening,  \* screening[r]: what the injection rail did
    allowed,    \* allowed[r]: documents list_objects returned
    chunks,     \* chunks[r]: retrieval.chunks
    cited,      \* cited[r]: the answer's citations
    reason,     \* reason[r]: degraded_reason
    trail       \* trail[r]: the run's records in the interaction log

gateway == <<today, restarts, spent, spentOn, phase, est, resOn, logged, sent,
             invoice, opening, leaked, overrun, late>>
request == <<stage, screening, allowed, chunks, cited, reason, trail>>
vars == <<gateway, request>>

G == INSTANCE ModelGateway WITH Calls <- Runs

ASSUME BudgetAssumption == G!GatewayAssumption

Stages == {"idle", "screened", "retrieved", "grounded"}

Ended == {"answered", "degraded", "errored", "lost"}

(* The injection rail blocks or, with or without a part taken out, passes. *)
Screenings == {"none", "pass", "block"}

ProviderReasons == {"model_unavailable", "provider_quota_exhausted", "provider_error"}

ParseReasons == {"output_truncated", "unparseable_output"}

Reasons == {"none", "injection_blocked", "authz_unavailable", "no_permitted_context",
            "budget_exceeded", "ungrounded_citation", "cross_tenant_leak"}
           \cup ProviderReasons \cup ParseReasons

(* Reasons given before the model is asked. *)
Unasked == {"injection_blocked", "authz_unavailable", "no_permitted_context",
            "budget_exceeded"}

Kinds == {"injection", "retrieval", "pii_input", "llm", "pii_output", "leakage"}

Entry(kind, blocked) == [kind |-> kind, blocked |-> blocked]

----------------------------------------------------------------------------
(* Helpers of ask(). *)

Moves(r, from, to) == stage[r] = from /\ stage' = [stage EXCEPT ![r] = to]

(* Mutant: the stage and the reason are swapped. *)
EndsSwapped(r, why) ==
    /\ stage' = [stage EXCEPT ![r] = why]
    /\ reason' = [reason EXCEPT ![r] = "degraded"]

Ends(r, why) ==
    /\ stage' = [stage EXCEPT ![r] = "degraded"]
    /\ reason' = [reason EXCEPT ![r] = why]

Errs(r) ==
    /\ stage' = [stage EXCEPT ![r] = "errored"]
    /\ UNCHANGED reason

Writes(r, entries) == trail' = [trail EXCEPT ![r] = @ \o entries]

(* InteractionLog.write raises OSError while writing the last entry, whose *)
(* line is or is not in the file.                                          *)
WriteRaises(r, entries) ==
    \/ Writes(r, entries)
    \/ Writes(r, SubSeq(entries, 1, Len(entries) - 1))

(* Mutant: the permitted set is not a predicate of the search. *)
CandidatesUnfiltered(r, docs) == Searchable[r]

(* VectorStore.search: the ACL, the tenant and the date are predicates and *)
(* the K best of what satisfies them are returned, whatever the scores.    *)
Candidates(r, docs) == {c \in Searchable[r] : c.document \in docs}

TopK(S) == {T \in SUBSET S :
               Cardinality(T) = IF Cardinality(S) < K THEN Cardinality(S) ELSE K}

(* Citations are kept by rule reference. *)
Grounded(r, reply) == {c \in reply : \E chunk \in chunks[r] : c.rule = chunk.rule}

----------------------------------------------------------------------------
Init ==
    /\ G!Init
    /\ stage = [r \in Runs |-> "idle"]
    /\ screening = [r \in Runs |-> "none"]
    /\ allowed = [r \in Runs |-> {}]
    /\ chunks = [r \in Runs |-> {}]
    /\ cited = [r \in Runs |-> {}]
    /\ reason = [r \in Runs |-> "none"]
    /\ trail = [r \in Runs |-> <<>>]

(* A question arrives, the injection rail rules on it and the verdict is   *)
(* recorded.                                                               *)
Ask(r, s) ==
    /\ stage[r] = "idle"
    /\ screening' = [screening EXCEPT ![r] = s]
    /\ Writes(r, <<Entry("injection", s = "block")>>)
    /\ IF s = "block"
         THEN Ends(r, "injection_blocked")
         ELSE Moves(r, "idle", "screened") /\ UNCHANGED reason
    /\ UNCHANGED <<gateway, allowed, chunks, cited>>

AskUnrecorded(r, s) ==
    /\ stage[r] = "idle"
    /\ screening' = [screening EXCEPT ![r] = s]
    /\ WriteRaises(r, <<Entry("injection", s = "block")>>)
    /\ Errs(r)
    /\ UNCHANGED <<gateway, allowed, chunks, cited>>

(* Mutant: an empty retrieval goes on to the model. *)
RetrieveEvenNothing(r, docs) ==
    /\ stage[r] = "screened"
    /\ allowed' = [allowed EXCEPT ![r] = docs]
    /\ \E top \in TopK(Candidates(r, docs)) : chunks' = [chunks EXCEPT ![r] = top]
    /\ Writes(r, <<Entry("retrieval", FALSE)>>)
    /\ Moves(r, "screened", "retrieved")
    /\ UNCHANGED <<gateway, screening, cited, reason>>

(* list_objects, the search and the RetrievalRecord.  The store's tuples   *)
(* may change at any time, so it may answer with any documents.            *)
Retrieve(r, docs) ==
    /\ stage[r] = "screened"
    /\ allowed' = [allowed EXCEPT ![r] = docs]
    /\ \E top \in TopK(Candidates(r, docs)) :
          /\ chunks' = [chunks EXCEPT ![r] = top]
          /\ \/ /\ Writes(r, <<Entry("retrieval", FALSE)>>)
                /\ IF top = {}
                     THEN Ends(r, "no_permitted_context")
                     ELSE Moves(r, "screened", "retrieved") /\ UNCHANGED reason
             \/ /\ WriteRaises(r, <<Entry("retrieval", FALSE)>>)
                /\ Errs(r)
    /\ UNCHANGED <<gateway, screening, cited>>

(* The store cannot be reached, or fails: FailClosedError, which is        *)
(* caught.  It refuses the request: DependencyError, which is not.         *)
RetrieveDenied(r) ==
    /\ stage[r] = "screened"
    /\ Ends(r, "authz_unavailable") \/ Errs(r)
    /\ UNCHANGED <<gateway, screening, allowed, chunks, cited, trail>>

(* Mutant: the input rail's verdict is not recorded. *)
PromptUnrecorded(r, e) ==
    /\ stage[r] = "retrieved"
    /\ \/ G!Admit(r, e) /\ UNCHANGED <<stage, reason>>
       \/ G!OverCallCap(r, e) /\ Ends(r, "budget_exceeded")
    /\ UNCHANGED <<screening, allowed, chunks, cited, trail>>

(* gateway.complete up to the estimate: the prompt is screened and the     *)
(* verdict recorded.                                                       *)
Prompt(r, e) ==
    /\ stage[r] = "retrieved"
    /\ Writes(r, <<Entry("pii_input", FALSE)>>)
    /\ \/ G!Admit(r, e) /\ UNCHANGED <<stage, reason>>
       \/ G!OverCallCap(r, e) /\ Ends(r, "budget_exceeded")
    /\ UNCHANGED <<screening, allowed, chunks, cited>>

PromptRejected(r) ==
    /\ stage[r] = "retrieved"
    /\ G!TurnAway(r)
    /\ WriteRaises(r, <<Entry("pii_input", FALSE)>>)
    /\ Ends(r, "provider_error")
    /\ UNCHANGED <<screening, allowed, chunks, cited>>

Reserve(r) ==
    /\ \/ G!Reserve(r) /\ UNCHANGED <<stage, reason>>
       \/ G!Refuse(r) /\ Ends(r, "budget_exceeded")
    /\ UNCHANGED <<screening, allowed, chunks, cited, trail>>

(* Mutant: a provider failure is reported as a refusal of the budget. *)
GenerateMisreported(r) ==
    /\ \/ (\E cost \in Costs : G!Settle(r, cost)) /\ UNCHANGED <<stage, reason>>
       \/ /\ \E bill \in FailureBills : G!ProviderFails(r, bill)
          /\ Ends(r, "budget_exceeded")
    /\ UNCHANGED <<screening, allowed, chunks, cited, trail>>

(* The provider answers, or raises: every exception but a refusal of the   *)
(* budget becomes a reason of its own or provider_error.                   *)
Generate(r) ==
    /\ \/ (\E cost \in Costs : G!Settle(r, cost)) /\ UNCHANGED <<stage, reason>>
       \/ /\ \E bill \in FailureBills : G!ProviderFails(r, bill)
          /\ \E why \in ProviderReasons : Ends(r, why)
    /\ UNCHANGED <<screening, allowed, chunks, cited, trail>>

(* Mutant: a reply that is not grounded is dropped without an outcome. *)
DigestDropped(r, reply) ==
    /\ G!Record(r)
    /\ Writes(r, <<Entry("llm", FALSE)>>)
    /\ IF Grounded(r, reply) # {}
         THEN /\ Moves(r, "retrieved", "grounded")
              /\ cited' = [cited EXCEPT ![r] = Grounded(r, reply)]
         ELSE UNCHANGED <<stage, cited>>
    /\ UNCHANGED <<screening, allowed, chunks, reason>>

(* Mutant: a reply that does not parse sends the run back to the gateway,  *)
(* for a second call on the estimate of the first.                         *)
DigestAskedAgain(r, reply) ==
    /\ phase[r] = "settled"
    /\ logged' = logged \cup {r}
    /\ phase' = [phase EXCEPT ![r] = IF reply = {} THEN "admitted" ELSE "returned"]
    /\ Writes(r, <<Entry("llm", FALSE)>>)
    /\ IF Grounded(r, reply) # {}
         THEN /\ Moves(r, "retrieved", "grounded")
              /\ cited' = [cited EXCEPT ![r] = Grounded(r, reply)]
              /\ UNCHANGED reason
         ELSE /\ IF reply = {} THEN UNCHANGED <<stage, reason>>
                 ELSE Ends(r, "ungrounded_citation")
              /\ UNCHANGED cited
    /\ UNCHANGED <<today, restarts, spent, spentOn, est, resOn, sent, invoice,
                   opening, leaked, overrun, late, screening, allowed, chunks>>

(* The LlmRecord is written, complete() returns, the text is parsed and    *)
(* its citations are checked.                                              *)
Digest(r, reply) ==
    /\ G!Record(r)
    /\ Writes(r, <<Entry("llm", FALSE)>>)
    /\ IF Grounded(r, reply) # {}
         THEN /\ Moves(r, "retrieved", "grounded")
              /\ cited' = [cited EXCEPT ![r] = Grounded(r, reply)]
              /\ UNCHANGED reason
         ELSE /\ \E why \in (IF reply = {} THEN ParseReasons ELSE {"ungrounded_citation"}) :
                    Ends(r, why)
              /\ UNCHANGED cited
    /\ UNCHANGED <<screening, allowed, chunks>>

DigestUnrecorded(r) ==
    /\ G!RecordFails(r)
    /\ WriteRaises(r, <<Entry("llm", FALSE)>>)
    /\ Ends(r, "provider_error")
    /\ UNCHANGED <<screening, allowed, chunks, cited>>

(* The output rails, each with its record; only leakage blocks. *)
Screen(r, leak) ==
    /\ stage[r] = "grounded"
    /\ \/ /\ Writes(r, <<Entry("pii_output", FALSE), Entry("leakage", leak)>>)
          /\ IF leak
               THEN Ends(r, "cross_tenant_leak")
               ELSE Moves(r, "grounded", "answered") /\ UNCHANGED reason
       \/ /\ \E n \in 1..2 :
                WriteRaises(r, SubSeq(<<Entry("pii_output", FALSE),
                                        Entry("leakage", leak)>>, 1, n))
          /\ Errs(r)
    /\ UNCHANGED <<gateway, screening, allowed, chunks, cited>>

Midnight == G!Tick /\ UNCHANGED request

(* The service restarts: its runs are lost, the log is not.                *)
Restart ==
    /\ G!Restart
    /\ stage' = [r \in Runs |->
                    IF stage[r] \in Ended \cup {"idle"} THEN stage[r] ELSE "lost"]
    /\ UNCHANGED <<screening, allowed, chunks, cited, reason, trail>>

(* What a run does once it has been asked. *)
Proceed(r) ==
    \/ \E docs \in SUBSET Documents : Retrieve(r, docs)
    \/ RetrieveDenied(r)
    \/ \E e \in Estimates : Prompt(r, e)
    \/ PromptRejected(r)
    \/ Reserve(r)
    \/ Generate(r)
    \/ \E reply \in Replies : Digest(r, reply)
    \/ DigestUnrecorded(r)
    \/ \E leak \in BOOLEAN : Screen(r, leak)

Next ==
    \/ \E r \in Runs :
          \/ \E s \in Screenings \ {"none"} : Ask(r, s) \/ AskUnrecorded(r, s)
          \/ Proceed(r)
    \/ Midnight
    \/ Restart

Spec == Init /\ [][Next]_vars

(* A thread that is running keeps running: the store's client and the      *)
(* provider's have timeouts, and the retries are counted.                  *)
FairSpec == Spec /\ \A r \in Runs : WF_vars(Proceed(r))

----------------------------------------------------------------------------
(* Type invariant of the pipeline's own variables. *)
TypeOK ==
    /\ G!TypeOK
    /\ stage \in [Runs -> Stages \cup Ended]
    /\ screening \in [Runs -> Screenings]
    /\ allowed \in [Runs -> SUBSET Documents]
    /\ chunks \in [Runs -> SUBSET Chunk]
    /\ cited \in [Runs -> SUBSET Citation]
    /\ reason \in [Runs -> Reasons]
    /\ trail \in [Runs -> Seq([kind : Kinds, blocked : BOOLEAN])]

(* "Order is not negotiable" (pipeline.py:15-18), read off the log: every  *)
(* run's records are an initial part of the one order, whole when the run  *)
(* is answered, and nothing follows a block.                               *)
Order == <<"injection", "retrieval", "pii_input", "llm", "pii_output", "leakage">>

OrderNotNegotiable ==
    \A r \in Runs :
        /\ Len(trail[r]) <= Len(Order)
        /\ \A i \in 1..Len(trail[r]) :
              /\ trail[r][i].kind = Order[i]
              /\ trail[r][i].blocked => i = Len(trail[r])
        /\ stage[r] = "answered" => Len(trail[r]) = Len(Order)

(* No prompt reaches the provider that was not preceded by the records of  *)
(* a question let through, of a retrieval that found something and of the  *)
(* prompt's own screening: the timeline explains every call that costs     *)
(* money, even one cut short by a crash.                                   *)
SentIsExplained ==
    \A r \in sent : Len(trail[r]) >= 3 /\ chunks[r] # {} /\ screening[r] # "block"

(* What a caller is told was refused before the model was called was never *)
(* sent to the provider; what was answered was, is logged and is billed.   *)
OutcomeMatchesGateway ==
    \A r \in Runs :
        /\ reason[r] \in Unasked => r \notin sent
        /\ stage[r] = "answered" => r \in sent \cap logged /\ phase[r] = "returned"

(* An answer rests on what its own principal was permitted to read when it *)
(* was authorised: each citation's rule is in a chunk in force, of the     *)
(* principal's tenant, of a document the store had listed.  A reply of the *)
(* model cannot change that, nor can a change of the tuples or another     *)
(* principal's run.                                                        *)
GroundedInPermitted ==
    \A r \in Runs :
        stage[r] = "answered" =>
            /\ cited[r] # {}
            /\ \A c \in cited[r] :
                  \E chunk \in Searchable[r] :
                      chunk.rule = c.rule /\ chunk.document \in allowed[r]

(* What a caller may rely on, PolicyService: a run is a question, a reason *)
(* given before the model is asked is a refusal, every other end without   *)
(* an answer a failure.  No path through failures, refusals of the budget, *)
(* bad replies and restarts asks the model twice for one question, or      *)
(* before something was shown, or refuses a question it did put to it.     *)
ServiceState ==
    [r \in Runs |->
        CASE stage[r] = "idle" -> "waiting"
          [] stage[r] \in {"screened", "retrieved", "grounded"} -> "open"
          [] stage[r] = "answered" -> "answered"
          [] stage[r] = "degraded" /\ reason[r] \in Unasked -> "refused"
          [] OTHER -> "failed"]

ServiceShown ==
    [r \in Runs |->
        IF stage[r] \in {"retrieved", "grounded", "answered"} THEN chunks[r] ELSE {}]

ServiceCall ==
    [r \in Runs |->
        IF r \notin sent THEN "none" ELSE IF phase[r] = "calling" THEN "out" ELSE "over"]

ServiceAnswer == [r \in Runs |-> IF stage[r] = "answered" THEN cited[r] ELSE {}]

Service == INSTANCE PolicyService WITH
    Permitted <- Searchable,
    state <- ServiceState,
    shown <- ServiceShown,
    call <- ServiceCall,
    answer <- ServiceAnswer

ImplementsService == Service!Spec

(* Every question asked gets an outcome. *)
EveryRunEnds == \A r \in Runs : stage[r] = "screened" ~> stage[r] \in Ended

----------------------------------------------------------------------------
(* pipeline.py:268: "citations must resolve to chunks we actually          *)
(* retrieved".                                                             *)
CitationsResolve == \A r \in Runs : stage[r] = "answered" => cited[r] \subseteq chunks[r]
=============================================================================
