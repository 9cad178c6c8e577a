------------------------------ MODULE ModelCall ------------------------------
(***************************************************************************)
(* One question's way through the rails and the provider: the text stages  *)
(* of PolicyPipeline.ask, the input rail of ModelGateway.complete and the  *)
(* retry loop of GeminiProvider.complete.                                  *)
(*                                                                         *)
(* Retrieval, the budget and the log, which come between these stages, are *)
(* in PolicyPipeline and ModelGateway.  The prompt is the question: what   *)
(* the template puts around it holds nothing a rail looks for.             *)
(***************************************************************************)
EXTENDS Rails

CONSTANTS
    Questions,    \* texts an employee may send
    Replies,      \* what a model may write: [form, text]
    Hints,        \* values of the Retry-After header, NoHint included
    MaxRetries,   \* max_retries of the provider
    MaxAnswer     \* the longest answer the schema takes

VARIABLES
    stage, question,
    prompt,       \* safe_question, what the prompt is made of
    sent,         \* the prompt as the provider sees it
    attempt,      \* retries of the current call
    slept,        \* seconds the request thread slept between them
    billed,       \* requests the provider may have charged for
    reply,        \* the completion: form, text and finish_reason
    shown,        \* the text the employee gets
    reason        \* degraded_reason

vars == <<stage, question, prompt, sent, attempt, slept, billed, reply, shown, reason>>

NoHint == -1   \* no header, or the date form of it

(* An answer is parsed and grounded, parsed and not grounded, or no answer *)
(* at all.                                                                 *)
Forms == {"grounded", "ungrounded", "prose"}

Finishes == {"stop", "max_tokens", "truncated_in_thinking"}

Text == Seq(DOMAIN Digit \cup Separators \cup {Mark} \cup
            UNION {Range(t) : t \in Questions \cup {r.text : r \in Replies}})

ASSUME CallAssumption ==
    /\ \A t \in Questions \cup {r.text : r \in Replies} : t \in Seq(Range(t))
    /\ \A r \in Replies : r.form \in Forms
    /\ Hints \subseteq Int /\ NoHint \in Hints
    /\ MaxRetries \in Nat
    /\ MaxAnswer \in Nat /\ MaxAnswer <= MaxScan

Ended == {"answered", "degraded"}

Reasons == {"none", "injection_blocked", "model_unavailable", "provider_quota_exhausted",
            "provider_error", "output_truncated", "unparseable_output",
            "ungrounded_citation", "cross_tenant_leak"}

HintCap == 30

Retryable == {429, 500, 502, 503, 504}

(* A response that brings no completion: its status, whether its body is   *)
(* the JSON the API documents, whether the message in it is about billing. *)
Refusal == [status : {301, 400, 404, 429, 500, 503}, json : BOOLEAN, billing : BOOLEAN, hint : Hints]

BillingFailure(r) == r.status = 429 /\ r.json /\ r.billing

(* max(0.0, min(float(raw), 30.0)), and 0 for none. *)
RetryAfter(hint) ==
    IF hint < 0 THEN 0 ELSE IF hint > HintCap THEN HintCap ELSE hint

(* min(2.0**attempt, 8.0) *)
Backoff == IF attempt < 3 THEN <<1, 2, 4>>[attempt + 1] ELSE 8

(* A hint of zero is falsy and yields to the exponential. *)
Delay(hint) ==
    IF RetryAfter(hint) > 0 THEN RetryAfter(hint) ELSE Backoff

(* Mutant: the quota error has lost its own code. *)
ErrorCodeInherited(r) ==
    IF BillingFailure(r) THEN "internal_error"
    ELSE IF r.status = 404 /\ r.json THEN "model_unavailable"
    ELSE "provider_error"

(* What the pipeline files a final response under: the error's code, or    *)
(* provider_error for every other exception.                               *)
ErrorCode(r) ==
    IF BillingFailure(r) THEN "provider_quota_exhausted"
    ELSE IF r.status = 404 /\ r.json THEN "model_unavailable"
    ELSE "provider_error"

Degraded(why) == stage' = "degraded" /\ reason' = why

Moves(to) == stage' = to /\ UNCHANGED reason

(* The call returns or raises, and its locals are gone. *)
Leaves == attempt' = 0 /\ slept' = 0

NoReply == [form |-> "prose", text |-> <<>>, finish |-> "stop"]

----------------------------------------------------------------------------
Init ==
    /\ question \in Questions
    /\ stage = "asked"
    /\ prompt = <<>> /\ sent = <<>> /\ shown = <<>>
    /\ attempt = 0 /\ slept = 0 /\ billed = 0
    /\ reply = NoReply
    /\ reason = "none"

(* scan_injection of the question. *)
Screen ==
    LET verdict == scan_injection(question)
    IN  /\ stage = "asked"
        /\ IF verdict.action = "block"
             THEN Degraded("injection_blocked") /\ UNCHANGED prompt
             ELSE /\ prompt' = IF verdict.sanitised = <<>> THEN question ELSE verdict.sanitised
                  /\ Moves("screened")
        /\ UNCHANGED <<question, sent, attempt, slept, billed, reply, shown>>

(* scan_pii of the prompt, in the gateway. *)
Scrub ==
    LET verdict == scan_pii(prompt)
    IN  /\ stage = "screened"
        /\ IF verdict.action = "block"
             THEN Degraded("provider_error") /\ UNCHANGED sent
             ELSE sent' = verdict.sanitised /\ Moves("calling")
        /\ UNCHANGED <<question, prompt, attempt, slept, billed, reply, shown>>

(* No API key is set: RuntimeError before any request. *)
NoKey ==
    /\ stage = "calling" /\ attempt = 0
    /\ Degraded("provider_error")
    /\ UNCHANGED <<question, prompt, sent, attempt, slept, billed, reply, shown>>

(* A transient refusal, with retries left. *)
Retry(r) ==
    /\ stage = "calling"
    /\ r.status \in Retryable /\ ~BillingFailure(r)
    /\ attempt < MaxRetries
    /\ slept' = slept + Delay(r.hint)
    /\ attempt' = attempt + 1
    /\ UNCHANGED <<stage, question, prompt, sent, billed, reply, shown, reason>>

GiveUp(r) ==
    /\ stage = "calling"
    /\ r.status \in Retryable => BillingFailure(r) \/ attempt >= MaxRetries
    /\ Degraded(ErrorCode(r))
    /\ Leaves
    /\ UNCHANGED <<question, prompt, sent, billed, reply, shown>>

(* Mutant: a timeout is retried like a 503. *)
TransportErrorRetried(charged) ==
    /\ stage = "calling"
    /\ billed' = billed + charged
    /\ IF attempt < MaxRetries
         THEN attempt' = attempt + 1 /\ UNCHANGED <<stage, reason, slept>>
         ELSE Degraded("provider_error") /\ Leaves
    /\ UNCHANGED <<question, prompt, sent, reply, shown>>

(* httpx.post raises, or the body of a 200 is not JSON.  A request that    *)
(* timed out may have been served.                                         *)
TransportError(charged) ==
    /\ stage = "calling"
    /\ billed' = billed + charged
    /\ Degraded("provider_error")
    /\ Leaves
    /\ UNCHANGED <<question, prompt, sent, reply, shown>>

(* A completion.  One whose budget went on thinking is named so. *)
Complete(form, text, finish) ==
    /\ stage = "calling"
    /\ billed' = billed + 1
    /\ reply' = [form   |-> form, text |-> text,
                 finish |-> IF finish = "max_tokens" /\ text = <<>>
                              THEN "truncated_in_thinking" ELSE finish]
    /\ Moves("completed")
    /\ Leaves
    /\ UNCHANGED <<question, prompt, sent, shown>>

(* The answer is parsed, its citations resolved and its text screened.  An *)
(* answer the schema finds too long is no answer.                          *)
Deliver ==
    LET screened == scan_pii(reply.text).sanitised
    IN  /\ stage = "completed"
        /\ \/ /\ reply.form = "prose" \/ Len(reply.text) > MaxAnswer
              /\ Degraded(IF reply.finish \in {"max_tokens", "truncated_in_thinking"}
                            THEN "output_truncated" ELSE "unparseable_output")
              /\ UNCHANGED shown
           \/ /\ reply.form = "ungrounded" /\ Len(reply.text) <= MaxAnswer
              /\ Degraded("ungrounded_citation")
              /\ UNCHANGED shown
           \/ /\ reply.form = "grounded" /\ Len(reply.text) <= MaxAnswer
              /\ IF scan_tenant_leakage(screened) = "block"
                   THEN Degraded("cross_tenant_leak") /\ UNCHANGED shown
                   ELSE shown' = screened /\ Moves("answered")
        /\ UNCHANGED <<question, prompt, sent, attempt, slept, billed, reply>>

Next ==
    \/ Screen \/ Scrub \/ NoKey \/ Deliver
    \/ \E r \in Refusal : Retry(r) \/ GiveUp(r)
    \/ \E charged \in {0, 1} : TransportError(charged)
    \/ \E r \in Replies, finish \in {"stop", "max_tokens"} : Complete(r.form, r.text, finish)
    \/ Complete("prose", <<>>, "max_tokens")

Spec == Init /\ [][Next]_vars

----------------------------------------------------------------------------
(* Texts, counters and reasons keep their ranges; a stage is degraded just *)
(* when it has a reason (PolicyPipeline.ask).                              *)
TypeOK ==
    /\ stage \in {"asked", "screened", "calling", "completed"} \cup Ended
    /\ {question, prompt, sent, shown} \subseteq Text
    /\ reply.form \in Forms /\ reply.text \in Text /\ reply.finish \in Finishes
    /\ attempt \in 0..MaxRetries
    /\ slept \in 0..(MaxRetries * HintCap)
    /\ billed \in Nat
    /\ reason \in Reasons
    /\ stage = "degraded" <=> reason # "none"

(* Windows of a run's digits that could be a card number, wherever they    *)
(* begin.                                                                  *)
CardWindows(text) ==
    UNION {LET offsets == Offsets(text, run)
           IN  UNION {{<<offsets[i], offsets[i + l - 1] + 1>> : l \in CardLengths(text, offsets, i)} :
                          i \in DOMAIN offsets}
           : run \in DigitRuns(text)}

(* A card number on its own: no other digit beside it. *)
Cards(text) ==
    {s \in CardWindows(text) :
        /\ \A i \in Positions(s) : text[i] \in DOMAIN Digit
        /\ s[1] = 1 \/ text[s[1] - 1] \notin DOMAIN Digit
        /\ s[2] = Len(text) + 1 \/ text[s[2]] \notin DOMAIN Digit}

Touched(span, redacted) == \E i \in Positions(span) : redacted[i] = Mark

(* The rail's pairs of a text and what it released of it. *)
Released ==
    (IF stage \in {"calling", "completed", "answered"} THEN {<<prompt, sent>>} ELSE {})
    \cup (IF stage = "answered" THEN {<<reply.text, shown>>} ELSE {})

(* Nothing the PII rail recognises is released whole, to the provider or   *)
(* to the employee: of every identifier a pattern matches some part is     *)
(* redacted, whatever overlaps it, and where no pattern matches, of every  *)
(* window of digits that could be a card number (scan_pii, _card_spans).   *)
FoundIsTouched ==
    \A pair \in Released :
        /\ \A s \in IdentifierSpans(pair[1]) : Touched(s, pair[2])
        /\ IdentifierSpans(pair[1]) = {} =>
              \A s \in CardWindows(pair[1]) : Touched(s, pair[2])

(* However the provider behaves, a question is charged for once at most,   *)
(* only an answer of the model ends it without an error, and its thread    *)
(* sleeps no longer than the capped hints add up to                        *)
(* (GeminiProvider.complete).                                              *)
BoundedCall ==
    /\ billed <= 1
    /\ stage \in {"completed", "answered"} => billed = 1
    /\ attempt = 0 => slept = 0
    /\ slept <= attempt * HintCap

(* What is left of a question without the spans of its findings.           *)
Kept(text) ==
    LET found == UNION {Positions(s) : s \in Findings(text)}
        kept  == Sorted(DOMAIN text \ found, <)
    IN  [i \in DOMAIN kept |-> text[kept[i]]]

(* Where stripping leaves something of a question, that and nothing else   *)
(* goes on to retrieval and the prompt, every other character once and in  *)
(* order, and it trips the rail no more (scan_injection,                   *)
(* PolicyPipeline.ask).                                                    *)
StripIsExact ==
    stage # "asked" /\ reason # "injection_blocked" /\ Kept(question) # <<>> =>
        prompt = Kept(question) /\ ~Trips(prompt)

(* What pipeline.py says of the order of its stages, "The injection rail   *)
(* runs before the question is embedded, so a payload never influences     *)
(* retrieval": what goes on, to retrieval and the prompt, trips the rail   *)
(* no more.                                                                *)
PayloadNeverGoesOn ==
    stage # "asked" /\ reason # "injection_blocked" => ~Trips(prompt)

(* What rails.py says of the input direction, "it stops a card number      *)
(* entering a prompt": no card number reaches the provider whole.          *)
CardsAreRedacted ==
    \A pair \in Released : \A s \in Cards(pair[1]) : Touched(s, pair[2])
=============================================================================
