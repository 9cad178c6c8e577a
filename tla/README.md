# Argus: formal models of the policy copilot and its trust plane

Argus answers employees' questions about expense policy with a language model,
and generates and scores synthetic expense claims for fraud detection. These
TLA+ modules model the parts of it whose correctness depends on interleaving,
failure, restart, order, or on an algorithm with awkward boundaries; TLC checks
them on small instances and TLAPS proves the central results for every
instance.

Source paths below are relative to `src/`.

## The system: inventory

| Component | State it keeps | Operations | What is hard | What makes it correct |
|---|---|---|---|---|
| **Model gateway** `packages/gateway/.../gateway.py` | `_spent`, `_spent_on`, a lock; all in memory | `complete`, `_reserve` | request threads share one running total that is reserved under the lock, spent without it and reconciled under it; midnight and restarts fall in between | the total is exact; a day costs at most the budget; a refusal is never caused by a call that already gave its money back |
| **Model providers** `.../provider.py` | none (an HTTP call with retries) | `complete` | throttling, billing errors, timeouts after billing, missing usage | it ends; permanent failures are not retried |
| **Interaction log** `packages/telemetry/.../interactions.py` | `_buffer`, a JSONL file | `write`, read-only views | unlocked concurrent writes, I/O errors between buffer, write and fsync, crashes | what was acknowledged is durable, in place and in order |
| **Trace reader** `scripts/trace.py` | none | `load`, summary, timeline, cost | torn lines | it shows every acknowledged record |
| **Policy pipeline** `services/copilot/.../pipeline.py` | per request only | `ask` | eight stages, each with its own refusal, log record and escaping exceptions | order of the stages; an answer rests on permitted documents; outcome and money agree |
| **Copilot service** `.../app.py` | `STATE`: world, gateway, log, pipeline | `lifespan`, `/policy/ask`, `/healthz`, read-only endpoints | synchronous endpoint on a thread pool; restart rebuilds the gateway | – |
| **Authorisation store** `packages/authz/.../local.py`, `tuples.py`, `infra/openfga/model.fga` | relation tuples | `check`, `list_objects`, `grant`, `revoke` | two implementations of one set of rules; a walk over department parents with a depth bound; five tuple maps; listing against checking | revocation takes effect at the next query; the store answers as the model file does; an outage is never an empty list |
| **OpenFGA client** `.../openfga.py` | remote tuples | `write`, `list_objects`, over HTTP | timeouts, 4xx and 5xx, batches of 100 that fail one by one | part of a write gives no more than the whole of it |
| **World builder** `scripts/build_authz_world.py` | none | `build` | the tuples are joined from the rows of four tables | the tuples give what the rows say, or nothing is built |
| **Retrieval** `packages/retrieval/...` | chunks and vectors | `ingest`, `search`, `retrieve` | validity intervals, permission before ranking | only permitted, own-tenant, in-force chunks are ranked; a department's cap can be found on every date |
| **Guardrail rails** `packages/guardrails/.../rails.py` | none | `scan_injection`, `scan_pii`, `scan_tenant_leakage` | overlapping spans, re-scan after removal, Luhn window | removal is exact; nothing detected is released whole |
| **Common** `packages/common/...` | none | errors and their codes, `Money`, settings | which exception is which | refusals are told apart |
| **World generator** `simulator/.../world/` | none (seeded) | organisation, policy corpus, honest spend, budgets | order of the stages | what a stage makes is not undone or missed by the next |
| **Fraud simulator** `simulator/.../adversarial/` | none (seeded) | `inject_fraud` with six typologies, `inject_payloads` | legs under a limit, disjoint pools, ids in strides | each claim has its label beside it; each typology leaves its signal; receipts and labels agree |
| **Fraud features** `ml/src/fsa_ml/features/` | none | windows, duplicate signals, labels as of an instant, `assemble` | equal timestamps, late labels | no row sees itself or the future |

How they interact: `POST /policy/ask` runs `PolicyPipeline.ask` on a thread of
the pool. The pipeline calls the rails (pure), the retriever (which calls the
authorisation store once and the in-memory index), the gateway (which calls
the input rail, the lock-protected ledger and a provider) and, at every stage,
`InteractionLog.write`. All requests share one gateway, one log and one store.
A restart rebuilds everything but the log file and the remote tuples.

## The modules

| Module | Role |
|---|---|
| `Induction` | induction over numbers, and the existence of functions defined step by step, for the proofs |
| `ModelGateway` | the gateway: concurrent calls, dates, restarts, failing providers |
| `ModelGateway_proofs` | its inductive invariant and four theorems |
| `MCModelGateway` | `ModelGateway` for TLC, with the symmetry of calls |
| `AuditLog` | abstract: what is stored stays stored, and a writer is told only then |
| `InteractionLog` | the log file, its buffer, fsync, I/O errors, crashes, and `trace.py`'s `load` |
| `InteractionLog_proofs` | the log implements `AuditLog`; append-only |
| `PolicyPipeline` | the pipeline composed with the gateway (`G == INSTANCE ModelGateway WITH Calls <- Runs`) |
| `PolicyService` | abstract: what a caller is promised of a question, without stages, log or budget |
| `PolicyPipeline_proofs` | the pipeline implements `PolicyService`; grounding; the budget of the whole service |
| `MCPolicyPipeline` | `PolicyPipeline` for TLC: two tenants, three documents |
| `AuthzModel` | the rules of `model.fga` and the tuples of `tuples.py`, as functions of a set of tuples: the reference the stores are compared with |
| `AuthzModel_proofs` | a partly written expense gives no more than the whole one |
| `AuthzStore` | the in-process store of `local.py` |
| `OpenFGAStore` | the OpenFGA client's `write` and `list_objects`, and the server as it uses it |
| `World` | the rows of the generated organisation and policy corpus |
| `Access` | `World`, both stores and the retriever, from the seed to the chunks of an answer |
| `Access_proofs`, `MCAccess` | the proofs of all its properties, and `Access` for TLC |
| `Sorting` | a set in an order, and selections from a sequence, by what they yield |
| `Rails` | the three scans and their span algorithms |
| `ModelCall` | a question through `Rails`, the retry loop of the provider and the output rails |
| `ModelCall_proofs`, `MCModelCall` | the proofs of all its properties, and `ModelCall` for TLC |
| `Spend` | honest claims |
| `FraudInjection` | the plan over the candidate pools, the six typologies, labels, ghost vendors |
| `Features` | windows, duplicate signals, labels and frames as of an instant |
| `FraudWorld` | the generator's stages composed with the features |
| `FraudWorld_proofs`, `MCFraudWorld` | the proofs of all its properties, and `FraudWorld` for TLC |

Definitions named *Mutant* in their comment are not part of any specification.
Each is a plausible bug in the definition that follows it; replacing that
definition by it makes TLC violate the property it is paired with, which shows
that the property can tell the code from a wrong version of it.

### ModelGateway

A call is one invocation of `complete`. Its `phase` is how far it has come:

| Step of `complete` | Action |
|---|---|
| route, input rail, its record, estimate within the cap | `Admit`, or `TurnAway` / `OverCallCap` when one of them raises |
| `_reserve` under the lock: date check, cap check, addition | `Reserve` (and the request is sent), or `Refuse` |
| provider raises; release under the lock | `ProviderFails` |
| provider answers; reconcile under the lock | `Settle` |
| `LlmRecord` written, completion returned | `Record`, or `RecordFails` when the disk fails |

`Tick` is midnight UTC and `Restart` a new process, whose `__init__` starts at
zero on the current date. The provider's answer and the reconciliation that
follows are one step: nothing another thread can see lies between them, since
the HTTP response changes no shared state. `spent`, `spentOn` and `est` are the
code's `_spent`, `_spent_on` and `estimate`. Money is counted in whole units;
rounding of floats is not modelled.

`invoice`, `opening`, `leaked`, `overrun` and `late` are history variables, one
value per date. They say what the provider charged for the calls authorised on
a date and name the four ways in which one running total can differ from it: a
restart forgot it (`opening`), a failed call was billed (`leaked`, the residual
risk gateway.py:185-188 accepts), a call cost more than its estimate
(`overrun`), a reservation of one date was settled on another (`late`, because
the total was reset in between). Calls killed by a restart count as unbilled.

### InteractionLog

`write` is three steps on a thread: `Buffer` (copy, redact, serialise, append
to memory), `AppendLine` (the JSONL line, in append mode), `Sync` (fsync, and
return). `AppendFails` and `SyncFails` are the I/O errors `write` lets through;
an append that fails may leave the beginning of its line. `Crash` keeps a
prefix of the pieces at least as long as what was synced, and may leave the
beginning of the next. That a successful fsync covers everything in the file,
the lines of other threads included, and that lines of concurrent appends do
not mix are assumptions about the operating system. `Readable` is what
`trace.py`'s `load` makes of the file: a torn piece has no newline, so it is
read together with the line that follows it, and both are skipped.

`AuditLog` is the promise: `stored` only grows, and a writer is `promised`
only what is stored. `ImplementsAuditLog` maps `stored` to the lines an fsync
has covered and `promised` to the records whose `write` returned.

### PolicyPipeline

One action per stage of `ask`, with the early returns as alternatives:

| Stage | Action |
|---|---|
| 1 injection rail and its record | `Ask`, `AskUnrecorded` |
| 2, 3 `list_objects`, search, `RetrievalRecord` | `Retrieve`, `RetrieveDenied` |
| 4, 5 prompt, gateway up to the estimate | `Prompt`, `PromptRejected` |
| 5 reservation, provider | `Reserve`, `Generate` |
| 5, 6, 7 record, return, parse, citation check | `Digest`, `DigestUnrecorded` |
| 8 output rails and their records | `Screen` |

Actions that enter the gateway contain the gateway's action as a conjunct, so
both change in one step. The store may list any documents at any time, which
covers every change of tuples between requests. `trail` is the run's records in
the log; a write that raises leaves its line in the file or not, which is what
`InteractionLog` says of it. Texts are abstracted: the rails' verdicts, the
chunks a search returns among equally sized subsets of the candidates, and the
citations a reply parses to are chosen freely. `Access` says which documents the
store lists and which chunks a search may return, `ModelCall` what becomes of
the text.

`PolicyService` is the promise: a question let in is shown some of what its
principal may read, the model is asked about it at most once and only then, an
answer follows a reply and cites what was shown, a refused question was never
put to the model, and how a question ended is final. `ImplementsService` maps
the stage and reason to `state`, the chunks to `shown`, and, where the question
was sent, the phase of its call in the gateway to `call`. The stages, their
records and the errors between them are not in it, so a run that came back into
the gateway after an unreadable reply or a failed write, or one reported as
refused although it was sent, would be no behaviour of it.

### Access

`world` is one organisation and corpus out of those the generator can draw:
every tree of departments within the depth limit, heads, managers of part of a
department, members, one employee of each special role, two versions of the
tenant's policy that meet on a date, and addenda of departments. In the rules,
what a relation inherits along parents is the least set closed under the step
(`Ancestry`, `ReportingLine`), so that a cycle of departments has a meaning
there too, and is where the store's walk departs from it by raising.

| Code | Action |
|---|---|
| `build()`: tuples, store, ingestion, retriever | `Build`, or `BuildFails` when `build_tuples` raises on a row |
| `grant`, `revoke`, `set_available` of the local store | `Mutate` |
| `write` of the OpenFGA client, batch by batch | `File`: `Write`, `WriteBatch`, `WriteReturns`; `WriteFails` (5xx, unreachable), `AnswerLost` (carried out, timed out), `WriteRejected` (4xx) |
| `retrieve`: `list_objects` | `Retrieve`, or `RetrieveRaises` |
| `retrieve`: the search | `Search` |
| the caller has its answer | `Return` |

Tuples change between the listing and the search of a request. A question put
to the local store has a *set* of outcomes among yes, no and raise:
`_manager_chain` iterates over a set, and `any()` stops at the first branch that
is true or raises, so on a cyclic or too deep chain the answer depends on the
process's hash seed. `told` is a history variable, the tuples the store was
given and not told to drop; `LocalAgreesWithModel` compares every answer of the
store with the rules of the model file over `told`, and `ListingIsExact` every
listing, of either store, at the moment it is made. `RaisesOnlyOnCycles` says
where the exception can come from, `SeedFollowsRows` and `ReportingLineViews`
say of the tuples what a reader of the rows expects. Embeddings and scores are
left out: the search may return any `K` of the chunks it may rank.

### ModelCall and Rails

`Rails` translates the three scans over texts that are short sequences of
letters. A regular expression is the set of words it matches; finding matches
from left to right, merging touching spans, removing them, scanning what is left
once more, sliding the Luhn window over a run of digits, and accepting
non-overlapping spans in order are as in the code. A sort is stated by what it
yields: the k-th of the sorted elements is the one with k - 1 before it.

| Code | Action |
|---|---|
| `PolicyPipeline.ask`: `scan_injection`, `safe_question` | `Screen` |
| `ModelGateway.complete`: `scan_pii` of the prompt | `Scrub` |
| `GeminiProvider.complete`: no key, refusal retried, refusal final | `NoKey`, `Retry`, `GiveUp` |
| the same: `httpx.post` or `response.json()` raises; a completion | `TransportError`, `Complete` |
| `ask`: parsing, grounding, output rails | `Deliver` |

Retrieval, budget and log come between these stages and are in the other
modules. `MaxAnswer` is the length at which the schema of an answer refuses a
reply, so that an answer always fits the rails. A request that was refused (3xx, 4xx, 5xx) counts as not charged; one
that timed out may be. An error is filed under the code the pipeline finds on
the exception, or `provider_error`.

### FraudWorld

The stages of `generate_tenant` from the honest ledger on: `Generate`,
`InjectFraud`, `InjectPayloads`, `DeriveBudgets`. `InjectFraud` is itself a loop:
`DrawTarget` chooses the targets and assigns each a typology whose pool of
candidates it is in, then `KeepHonest` and the `Rewrite...` actions go over the
ledger in order, with the ids of produced claims in strides of `Stride`, ten in
the code. Amounts are
whole units, an instant is an hour, every random draw is a choice from a small
set. A feature is represented by the set of claims it aggregates: a window that
holds the right claims gives the right counts and sums. `Features` assembles the
training frame of an instant and the frame a model is evaluated on later.

## The runs

| Run | Expectation | What it shows |
|---|---|---|
| `gateway` | pass | `LedgerIdentity`: no interleaving loses or repeats a reservation. `DailyCap`: a date costs at most the budget plus the four discrepancies. `RefusalJustified`: no refusal while there is room |
| `gateway_restart` | violation | a restart grants a fresh budget on the same date |
| `log` | pass | the log implements `AuditLog`, its durable part only grows, a run's lines are in order and single, memory agrees with the file as long as nothing raised |
| `log_torn` | violation | an acknowledged record can be unreadable |
| `pipeline` | pass | order of the timeline, explanation of every call sent, agreement of outcome and gateway, grounding; `ImplementsService`: no path asks the model twice, or refuses a question that was put to it; `EveryRunEnds`: every question let in gets an outcome |
| `pipeline_citation` | violation | a citation's document need not have been retrieved |
| `access` | pass | the local store answers as `model.fga`, and raises on cycles only; a listing of either store is exact when it is made; tuples give what the rows say; a blank scope publishes nothing; the one cap that applies to a department can be found; an answer mixes neither tenants nor versions; part of a batched write gives no more than the whole, and is never completed by a retry |
| `fraud` | pass | each claim has its label beside it, and two share an id only beyond the stride; the legs of a split are under the limit and lose nothing but what the last may not claim; the signals of duplicates and ghost vendors reach the features; payloads and their labels agree; features and training sets contain nothing of the future |
| `fraud_legs` | violation | the legs of a split need not sum to the claim |
| `call` | pass | where stripping leaves anything it is exact and trips the rail no more; of every recognised identifier something is redacted; a question is charged for once at most and its thread sleeps a bounded time |
| `call_card` | violation | a card number can reach the provider whole |
| `call_payload` | violation | a question that is a payload and nothing else goes on as it was asked |

The six violations are disagreements between a statement in the code's own
documentation and what the code does; `PROJECT.json` quotes each.

**Bounds.** `MaxDay`, `MaxRestarts`, `MaxWrites`, `MaxCrashes`, `MaxClaims` are
bounds of the models and not of the code.

* `gateway`: three calls are the fewest with two holding reservations while a
  third is refused; two dates and one restart let each of the four
  discrepancies occur alone and together; costs are zero (no usage reported),
  below and above the estimates. The symmetry of the calls is used, which no
  action or property tells apart.
* `log`: two runs of two records are the fewest in which order within a run and
  interleaving between runs both matter; two crashes make a crash during
  recovery from a crash.
* `pipeline`: two principals of different tenants whose policies number their
  rules alike, a search that must cut its candidates (`K = 1`), replies that do
  not parse, cite what was shown, cite what was not, and cite a rule under
  another document's id; a budget of one call, so that the second run is refused
  or not depending on the interleaving; two dates and a restart. No symmetry is
  used, since the run checks liveness.
* `access`: a tenant of three departments, as a chain or as a fork, and a second
  tenant of one. `WalkBound = 2` stands for the code's 32: two parent edges are
  the longest walk in these trees, as 32 is more than any generated one has; a toggled parent edge closes
  a cycle. Two expenses have six tuples, so that `BatchSize = 2`, for the code's
  100, gives three batches with a boundary inside an expense. Two dates on both
  sides of the switch of versions.
* `fraud`: two honest claims, both targets, of every combination of two users,
  two vendors, two dates and two delays. One amount is far below the limit of 12
  and two are above it, each split into three legs: those of 23 add up to it,
  and of 32 the last is cut. `Stride = 2`, for the code's ten, is less than three,
  so that the third leg of one claim meets the first id of the next. The manager
  joins on the thirtieth, between the two dates. `fraud_legs` has one claim and
  unequal weights. At each of the two instants of training
  some claims and verdicts are there and others still to come.
* `call`: card numbers have three or four digits and identifiers two, for the
  code's 13 to 19 and 12; texts of up to seven characters hold two such
  numbers side by side or overlapping, and the longest exceeds the size limit.
  The words of the injection families overlap, contain one another and can come
  together when what lay between them is cut out; one question holds two findings,
  and some are nothing but a payload. `MaxAnswer = 5` is below the size limit of
  the rails, as in the code.
  Retries are the code's three, with every class of status.

**Fairness.** `PolicyPipeline!FairSpec` assumes weak fairness of each run's
next step once its question was let in: the thread is running, the lock is held
only for arithmetic, the store's client and the provider's have timeouts and
the retries are counted. That the provider's step ends is what `BoundedCall`
shows of the retry loop: at most `MaxRetries` retries, each after at most thirty
seconds. Nothing is assumed of questions arriving, of midnight or of restarts.
The other specifications state no fairness, since nothing in the code promises
that an administrator, a caller or a generator goes on.
`CHECK_DEADLOCK FALSE` is set where a bounded instance ends: all calls have
ended and no date or restart is left, a seed was refused, a world is generated,
a question is answered.

## The proofs

TLAPS proves the following for any sets and bounds that satisfy the named
assumptions.

**Assumptions about the constants.** Amounts, bounds and limits are numbers of
the right sign, texts are sequences, and in addition: `DaysAssumption` (no
question is dated before the corpus or after the sentinel that stands for "no
end"), `WorldsAssumption` (a world is one `build_departments` and `build_users`
can draw), `TuplesAssumption` (the tuples an administrator changes at run time
are of relations and types the rules know, and expenses have distinct ids) and
`DepthAssumption` (no department has more departments above it than the walk's
bound of 32 levels, however many of the changeable tuples are added; a cycle is
allowed). TLC evaluates all of them on the runs' constants.

**Induction.** The library's induction theorems take an operator for a
parameter, which the installed provers cannot instantiate. `Induction` states
what is needed with sets instead: a set of numbers that holds 0 and is closed
under successor holds every number, and a function built step by step exists.
Where a definition recurses over something else, the proofs take the least
fixed point of its step, or the least counterexample.

* **Gateway.** The inductive invariant `IInv` is `TypeOK`, `LedgerIdentity`
  (what `spent` is made of) and five facts: `SpentBound` (`spent` passes the
  budget only by the overruns of its date), `PastCap` (the cap of the accounts
  already closed), `FutureUntouched` (the account of a date not yet reached is
  empty, and `spentOn` is not in the future), `ReservedBefore` (no call holds a
  reservation on a date later than `spentOn`) and `HeldFinite`. The identity
  alone does not give the cap: with `SpentBound` it gives the cap of the open
  account, but a closed one keeps its cap only because `PastCap` recorded it at
  midnight, and a new one can start only because nothing was booked on it
  before. Sums of reservations are cardinalities of token sets, so that adding
  or releasing one is a fact about disjoint finite sets. Results:
  `TypeCorrect`, `LedgerIdentityHolds`, `DailyCapHolds`, `RefusalIsJustified`.
* **Log.** `LogInv` says that a call that has written its line has it in the
  file. Every step keeps the synced prefix (`DurableGrows`), hence every step is
  a step of `AuditLog` or leaves it alone: `LogImplementsAuditLog`,
  `LogIsAppendOnly`. Order within a run (`RunsAreInOrder`) needs in addition
  `Ahead`: what a run is about to append is later than everything of that run
  in the file, since a run writes one record at a time. Agreement of memory and
  file (`BufferIsHonest`) needs `Pending`: the only record a run may have in
  memory and not in the file is the one it is writing. `LogTypeCorrect` is the
  type invariant.
* **Pipeline.** `AnswerInv` relates a run's chunks
  to its listed documents and its citations to its chunks: `AnswersAreGrounded`.
  `OutcomeInv` ties the run's stage to the phase of its call in the gateway
  (`CallMatchesStage`), a sent prompt to a call that was authorised
  (`SentMatchesCall`) and a reason to the way the call ended
  (`ReasonMatchesSent`): `OutcomesMatchCalls`. `TrailInv` says at every stage
  exactly which records are on file (`Written`), with the exception of a run
  that ended in a failed write: `OrderIsKept`, `EveryPromptIsExplained`. These
  invariants together (`ServiceInv`) tell what the gateway holds of a run at
  each of its stages (`CallKnown`), and every step is one of `PolicyService` or
  leaves it alone: `PipelineImplementsService`. A stage alone would not do: that
  a degraded run was never sent follows from its reason and the phase of its
  call, and that it cannot be sent again from both. Each action is a gateway
  action or leaves the gateway's variables alone (`GatewayDriven`), so that
  instantiating the gateway's proofs gives `PipelineTypeCorrect` and
  `ServiceWithinBudget`: the budget theorem of the gateway holds of the service.
* **Authorisation and retrieval.** Every property of `Access` is proved. The
  invariant `AccessInv` says of the local store that it holds what it was told,
  each tuple on the side its relation belongs to, and knows every object a
  listing must look at (`LocalInv`); of the server that it holds the seed and
  the first `n` tuples of the filing, `n` depending on how far a write has come
  (`RemoteInv`, `FiledTo`); of an answer that its chunks come from the rules of
  the world (`AnswerInv`). `TypeCorrect` follows directly. From there:
  * *Rows to tuples to verdicts.* Which tuples a seed holds (`SeedTuples`) and
    what the ids in them identify (`Ids`) give who reads a document
    (`RowsDecide`) and whom the reporting line sees (`LinesView`); an addendum's
    cap or else the parent policy's is on every date the one cap of a department
    and category (`CapsFound`); a document of a scope that names nothing is read
    by nobody (`LeakyUnread`).
  * *The walk.* `_manager_chain` is followed by the levels it may still go up:
    with `i` levels left its answer is sound, and it is cut short only where
    more than `i` departments lie above or some department lies above itself
    (`Sound`, `WalkSound`). With the depth assumption a walk raises on cycles
    only (`RaisesOnCycles`), the store answers as the model file does wherever it
    answers (`LocalAgrees`), and each listing of either store is exact
    (`ListingExact`).
  * *Filing.* `PrefixGivesNoMore`: the first `n` of an expense's tuples give
    nobody a relation that all of them do not. The rules are not monotonic,
    since an owner is excluded from approving; what makes it true is that the
    owner is written before the department. Hence `PartsDeny`. A tuple the
    server has makes every later write of the same list fail: `PartIsFinal`.
  * *Answers.* `OneVersionOneTenantHolds`: the index is the rules of the world
    and nothing else (a malformed row stops the build before anything is
    indexed), an answer's chunks are among those its search could rank on its
    date, and of the versions of one rule the half-open intervals let at most
    one be live on a date (`OneVersion`). It holds whatever is granted while the
    answer is being made.
* **Rails and provider.** Every property of `ModelCall` is proved.
  `CallIsBounded` is about any number of retries and any hints. `TextInv` says
  what the texts of a call are made from, and with it:
  * *Nothing released whole.* Of spans taken from left to right one is taken,
    or is not yet over, wherever some span begins (`TakenCovers`, by the least
    fixed point of the recursion); the windows slid over a run of digits cover
    every place where a card number could begin (`SlideCovers`); so of every
    identifier, or where none is found of every card number, some character is
    replaced (`NothingReleasedWhole`).
  * *Stripping is exact.* Sorted spans are a listing of them (`SortedOrders`);
    merging them one by one keeps the merged ones apart and covers just what
    they cover (`MergeFacts`); cutting the merged ones from last to first leaves
    the characters at the remaining positions, in order (`WithoutFacts`); what
    goes on, where anything is left, does not trip the rail (`ScanLeaves`):
    `StripLeavesTheRest`.

* **Fraud simulator and features.** Every property of `FraudWorld` is proved, for
  any users, vendors, amounts, lags and numbers of claims. The inductive
  invariant `IInv` (TLC found no state of `MCFraudWorld` that violates it) has
  four parts. `PlanInv`: the plan follows the pools, and the sequence number is
  `Stride` for each claim rewritten as fraud so far (`Start`). `RowsInv`: every
  honest claim gone over has its place in the new ledger, where what its
  typology makes of it stands beside the labels it gives (`Placed`), there is
  nothing else in the ledger, and no two rows agree in id and salt of the
  receipt. `GhostsInv`: the new vendors are those of the claims that became
  ghost invoices. `StageInv`: what the stages after the injection made of that
  ledger. None of the properties is inductive: they speak of the finished world,
  and what is true of it rests on where each row came from, which only
  `Placed` remembers. `WorldTypeCorrect` follows directly; beyond it:
  * *Ids and labels.* A produced id of the first `Stride` legs lies within the
    `Stride` numbers after its claim's `Start`, and those of two claims do not
    meet (`Offsets`, `Spaced`), so that ids repeat only where a leg beyond them
    is (`IdsDiffer`): `LabelsBeside`. That no two rows are equal follows from
    the salts, which number the legs, for any number of legs (`KeptOnce`,
    `OnceClaims`).
  * *Splits.* Each share is rounded down, and the clamp to the limit only takes;
    what one leg may not claim is left to the later ones. The clamp to at least
    one can add, but a claim above the limit is worth two of the smallest unit
    for each leg but the last (`Affords`), so the legs add up to the claim, or
    to less when the last of them is as large as a leg may be (`LegsSum`). The
    legs found by id and salt are exactly those the split produced
    (`LegsFound`): `LegsStayUnder`.
  * *Signals.* The two submissions of a receipt are at most 98 days apart when
    the copy is the later and 46 when it is the earlier, within the 365 of the
    windows over receipts; nobody else can claim from a ghost vendor, whose id is
    of its own kind and its own `Start`, and whose row is the only one with the
    id (`OwnOnce`): `SignalsReach`. How many legs another claim has does not
    matter to it.
  * *Payloads.* No rewriting gives a row a payload, so that after the planting
    the rows that have one are those the corpus chose: `PayloadsLabelled`.
  * *Time.* A selection of a ledger keeps the order (`PickedFacts`), and a window
    or a gap only reads rows the selection has kept (`PriorOfPicked`,
    `SinceOfPicked`); a gap that a row of the same instant changes is zero
    (`SinceApart`). Hence `FeaturesCausal`. A label is read from the verdicts
    recorded by the instant alone, hence `TrainingHonest`.

  Further assumptions: `SpendAssumption` and `InjectionAssumption` give the
  ranges the generator draws from (weights of 80 to 120, gaps of 30 to 90 days,
  paddings of 115 to 130 percent, round figures that are positive);
  `VendorsAssumption` and unique ids of vendors say that the catalogue has no
  `ghost` id and none twice. Nothing is assumed of the number of legs, and of
  `Stride` only that it is positive.

**Model-checked only.** Liveness under fairness and `ENABLED` are out of the
prover's reach: `EveryRunEnds` of `pipeline`. The six violations are
counterexamples, found by TLC. Every other property of a run is a theorem.

## Differences found

Six are runs: `gateway_restart`, `log_torn`, `pipeline_citation`,
`fraud_legs`, `call_card`, `call_payload`. Others came to light while reading, and are part of
the models as the code has them:

* A call the provider fails leaves no `LlmRecord`, and a request that ends in an
  error of the log no final record: gateway.py:12-14 and pipeline.py:24-26 say
  otherwise.
* The local store calls `manager_chain`, a relation of `model.fga`, unknown, and
  never lists a `tenant`, for which `check` can say yes. A cyclic chain of
  departments makes `list_objects` raise for nearly everybody, in every tenant,
  since it checks all candidates.
* tuples.py:93-96 says an administrator reads nothing; he gets the `employee`
  tuple like everybody and reads tenant-wide documents. A manager of part of a
  department is manager of the whole department in the store.
* A batched write that failed part way cannot be retried: the server rejects
  what it has (`RetryAfterPartIsRejected`).
* Overlapping identifiers are redacted in part: of two that overlap, the later is
  released from where the earlier ends. rails.py:309-310 says that one identifier
  "is never half-redacted"; `FoundIsTouched` says what is true, that something of
  each is redacted.
* A copy of a receipt may precede its original, and then the original is the one
  that looks like a copy: `SignalsReachFeatures` says that whichever is the later
  finds the other.
* The amount bucket of duplicate_signals.py is a constant, so that its key is
  the vendor.
* pointintime.py:11-12 and 116-118 say that no feature reads a row of the same
  instant. The gap since the last equal receipt does (duplicate_signals.py:56):
  it is zero after a claim of the same receipt and instant that comes before in
  the file, the one exception in `FeaturesAreCausal`.
* Budgets are derived from the spend, fraud included, as 1.15 times the total:
  no budget is ever breached, whereas generator.py:48-50 expects noisy
  departments to breach theirs and generator.py:11-14 calls overruns rare but
  real. This follows from one line and is not stated as a property.
* A split with more than ten legs takes the next claim's ids: `seq` advances by
  ten (fraud.py:336) and the number of legs is not bounded (fraud.py:130-134).
  Then two claims have one id and two labels, whereas fraud.py:252-254 promises
  one label per claim. Under the default limit of 3,000,000 that takes a claim
  above 27.6 million; a training claim of the highest grade has a median of 7
  million and a spread of 0.55, so that a draw reaches it rarely.
  `LabelledInPlace` says just when ids repeat, and `fraud` has worlds where they
  do.
* A 404 whose body is not JSON is filed as `provider_error`.

## Not modelled, and why

* **Metrics**: nothing reads them back. **Logging, settings, rendering**, the
  formatting of `trace.py`, and the texts of documents, receipts and payloads:
  no behaviour depends on them.
* **Embeddings and scores**: numeric; the search may return any best subset.
  Ingestion while questions are answered is left out: the service builds its
  index before it serves.
* **`Money`**: only its tests use it; the pipeline and the generator compute in
  floats and integers of their own. **Rounding of floats**: amounts are whole
  units.
* **Random generators**: every draw is a choice among what can be drawn.
* **Training, evaluation and metrics of the fraud model**: array arithmetic, and
  an entry point that raises `NotImplementedError`.
* **Persistence and merging of worlds**: straight copies to and from files. One
  thing about it is not: an empty table is skipped, so the file of an earlier
  world stays.
* **Providers other than Gemini**: `EchoProvider` returns canned replies,
  `AzureOpenAIProvider` raises. The conversion of schemas for Gemini is a
  rewriting of literals. **`UntrustedText.release`** is not called by the pipeline.
* **Operational scripts and unbuilt services**: sequences of set-up commands, and
  placeholders.

## Plan

Done, in this order: `ModelGateway`; `InteractionLog` with `AuditLog`;
`PolicyPipeline`; `AuthzModel`, `AuthzStore`, `OpenFGAStore`, `World` and their
composition `Access`; `Rails` and `ModelCall`; `Spend`, `FraudInjection`,
`Features` and their composition `FraudWorld`; the proofs above.

Worth doing next:

1. A refinement of `PolicyPipeline`'s free choice of listed documents by `Access`.
2. A refinement of the honest ledger and its rewriting by what each typology
   promises, stated apart from the loop.
