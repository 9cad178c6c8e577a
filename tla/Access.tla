------------------------------- MODULE Access -------------------------------
(***************************************************************************)
(* Permission-aware retrieval, from the rows of the world to the chunks a  *)
(* prompt is built of: build_authz_world.py writes the tuples of every     *)
(* tenant and indexes its rules, an authorisation store answers            *)
(* list_objects, and the retriever (fsa_retrieval/retriever.py, store.py)  *)
(* searches what it returned.                                              *)
(*                                                                         *)
(* Either implementation of the store stands behind the retriever.  With   *)
(* the local one tuples are granted and revoked while a request is between *)
(* its listing and its search; with OpenFGA, expenses are written in       *)
(* batches that can fail.                                                  *)
(***************************************************************************)
EXTENDS World, SequencesExt

CONSTANTS
    WalkBound,
    BatchSize,
    Worlds,      \* worlds the generator can draw, each a function of the tenants
    BadRows,     \* a row build_tuples refuses, or "none"
    Toggles,     \* tuples that are granted and revoked
    Filings,     \* expenses whose tuples are written together
    Askers,      \* principals that ask
    Probed,      \* users whose verdicts are compared
    Days,        \* expense dates
    K            \* chunks asked for

VARIABLES
    world,    \* world[t]: shape, tree and addenda of tenant t
    badRow,   \* the malformed row of the seed
    backend,  \* "local" or "openfga"
    direct, structural, indexed, available,  \* the local store
    remote, list, next, writing,             \* the client and its server
    index,    \* the chunks of the vector store
    stage,    \* the request: "down", "idle", "listed", "answered" or "raised"
    asker,    \* the principal
    day,      \* as_of
    allowed,  \* what list_objects returned
    chunks,   \* the result
    told      \* history: the tuples the store was given and not told to drop

Local == INSTANCE AuthzStore
Remote == INSTANCE OpenFGAStore

store == <<direct, structural, indexed, available>>
client == <<remote, list, next, writing>>
request == <<stage, asker, day, allowed, chunks>>
vars == <<world, badRow, backend, store, client, index, request, told>>

ASSUME AccessAssumption ==
    /\ Local!WalkAssumption
    /\ Remote!BatchAssumption
    /\ K \in Nat \ {0}
    /\ Days \subseteq Int

(* No expense is older than the corpus, whose last version has no end. *)
ASSUME DaysAssumption == \A d \in Days : Start <= d /\ d < Forever

(* A shape of build_departments and build_users, and what they draw. *)
ASSUME WorldsAssumption ==
    \A w \in Worlds : \A t \in DOMAIN w :
        /\ \A field \in {"departments", "maxDepth", "employees", "span"} :
              w[t].shape[field] \in Nat \ {0}
        /\ w[t].tree \in Trees(w[t].shape)
        /\ w[t].addenda \subseteq DOMAIN w[t].tree

----------------------------------------------------------------------------
(* The rows of a world. *)

AllDepartments(w) == UNION {Departments(t, w[t].tree) : t \in DOMAIN w}

AllUsers(w) == UNION {Users(t, w[t].shape, w[t].tree) : t \in DOMAIN w}

AllDocuments(w) == UNION {Documents(t, w[t].addenda) : t \in DOMAIN w}

Seed(w) == BuildTuples(AllDepartments(w), AllUsers(w), AllDocuments(w))

(* A row no generator draws: a role nobody mapped, or a blank scope. *)
Stray == User(1, 1, UserId(1, 0, "stray", 0), None, "Admin", 3)

Leaky == Document(1, "leaky", 0, Blank, Start, Forever)

SeedUsers == AllUsers(world) \cup (IF badRow = "role" THEN {Stray} ELSE {})

SeedDocuments == AllDocuments(world) \cup (IF badRow = "scope" THEN {Leaky} ELSE {})

(* Tuples model.fga admits, none of them about the document that is not    *)
(* published, and expenses with ids of their own.                          *)
ASSUME TuplesAssumption ==
    /\ \A t \in Toggles :
          /\ t = Tuple(t.user, t.relation, t.object)
          /\ TypeOf(t.object) \in Local!KnownTypes
          /\ t.relation \in Local!Structural \cup Defined(TypeOf(t.object))
          /\ t.object # Leaky.id
    /\ Filings \in Seq(Range(Filings))
    /\ \A i \in DOMAIN Filings :
          /\ TypeOf(Filings[i].id) = "expense"
          /\ \A j \in DOMAIN Filings : Filings[i].id = Filings[j].id => i = j

(* The depth bound of the walk is beyond every organisation: no department *)
(* has more departments above it, whatever is granted.                     *)
ASSUME DepthAssumption ==
    \A w \in Worlds :
        LET all == Seed(w) \cup Toggles
        IN \A d \in {t.user : t \in all} \cup {t.object : t \in all} :
              /\ IsFiniteSet(Ancestry(all, d))
              /\ Cardinality(Ancestry(all, d)) <= WalkBound + 1

----------------------------------------------------------------------------
Init ==
    /\ world \in Worlds
    /\ badRow \in BadRows
    /\ backend \in {"local", "openfga"}
    /\ direct = {} /\ structural = {} /\ indexed = {} /\ available = TRUE
    /\ remote = {} /\ list = <<>> /\ next = 0 /\ writing = "idle"
    /\ index = {}
    /\ stage = "down"
    /\ asker = None /\ day = Start /\ allowed = {} /\ chunks = {}
    /\ told = {}

(* build(): tuples, store, ingestion and retriever; a malformed row ends   *)
(* it.  An OpenFGA server holds the same tuples.                           *)
Build ==
    LET tuples == BuildTuples(AllDepartments(world), SeedUsers, SeedDocuments)
    IN /\ stage = "down"
       /\ ~Malformed(SeedUsers, SeedDocuments)
       /\ index' = Rules(SeedDocuments)
       /\ IF backend = "local" THEN Local!Load(tuples) /\ UNCHANGED remote
          ELSE remote' = tuples /\ UNCHANGED store
       /\ told' = tuples
       /\ stage' = "idle"
       /\ UNCHANGED <<world, badRow, backend, list, next, writing, asker, day, allowed, chunks>>

BuildFails ==
    /\ stage = "down"
    /\ Malformed(SeedUsers, SeedDocuments)
    /\ stage' = "failed"
    /\ UNCHANGED <<world, badRow, backend, store, client, index, asker, day, allowed, chunks, told>>

(* What happens between an answer and the end of its request is seen by    *)
(* the next request alone.                                                 *)
Up == stage \in {"idle", "listed"}

(* An administrator grants and revokes; set_available is an outage. *)
Mutate ==
    /\ Up /\ backend = "local"
    /\ \/ \E t \in Toggles \ told : Local!Grant(t) /\ told' = told \cup {t}
       \/ \E t \in Toggles \cap told : Local!Revoke(t) /\ told' = told \ {t}
       \/ Local!SetAvailable(~available) /\ UNCHANGED told
    /\ UNCHANGED <<world, badRow, backend, client, index, request>>

(* The tuples of the expenses created together, in the order of rows. *)
FilingTuples ==
    [i \in 1..(3 * Len(Filings)) |-> ExpenseTuples(Filings[(i - 1) \div 3 + 1])[((i - 1) % 3) + 1]]

File ==
    /\ Up /\ backend = "openfga"
    /\ \/ Remote!Write(FilingTuples)
       \/ Remote!WriteBatch
       \/ Remote!WriteReturns
       \/ Remote!WriteFails
       \/ Remote!AnswerLost
       \/ Remote!WriteRejected
    /\ told' = remote'
    /\ UNCHANGED <<world, badRow, backend, store, index, request>>

----------------------------------------------------------------------------
(* retrieve *)

Begins(p, d, docs, to) ==
    /\ stage = "idle"
    /\ stage' = to
    /\ asker' = p /\ day' = d /\ allowed' = docs
    /\ UNCHANGED <<world, badRow, backend, store, client, index, chunks, told>>

(* list_objects returns; with nothing readable the index is not touched. *)
Retrieve(p, d) ==
    LET docs == IF backend = "local" THEN Local!Listing(p.id, "reader", "policy_document")
                ELSE Remote!RemoteListing(p.id, "reader", "policy_document")
    IN /\ backend = "local" => Local!ListReturns(p.id, "reader", "policy_document")
       /\ Begins(p, d, docs, IF docs = {} THEN "answered" ELSE "listed")

(* list_objects raises and the retriever lets it through; a server may     *)
(* fail any request.                                                       *)
RetrieveRaises(p, d) ==
    /\ backend = "local" => Local!ListRaises(p.id, "reader", "policy_document")
    /\ Begins(p, d, {}, "raised")

(* Mutant: the date is not part of the predicate. *)
SearchableUndated(p, d, docs) ==
    {c \in index : c.tenant = p.tenant /\ c.document \in docs}

(* InMemoryVectorStore.search: tenant, permission and date before a score. *)
Searchable(p, d, docs) ==
    {c \in index : c.tenant = p.tenant /\ c.document \in docs /\ Live(c, d)}

(* The K best, whatever the scores. *)
Best(S) == kSubset(IF Cardinality(S) < K THEN Cardinality(S) ELSE K, S)

(* Mutant: the documents are returned in place of their chunks. *)
SearchDocuments ==
    /\ stage = "listed"
    /\ chunks' = {c.document : c \in Searchable(asker, day, allowed)}
    /\ stage' = "answered"
    /\ UNCHANGED <<world, badRow, backend, store, client, index, asker, day, allowed, told>>

Search ==
    /\ stage = "listed"
    /\ chunks' \in Best(Searchable(asker, day, allowed))
    /\ stage' = "answered"
    /\ UNCHANGED <<world, badRow, backend, store, client, index, asker, day, allowed, told>>

(* The request is over. *)
Return ==
    /\ stage \in {"answered", "raised"}
    /\ stage' = "idle"
    /\ asker' = None /\ day' = Start /\ allowed' = {} /\ chunks' = {}
    /\ UNCHANGED <<world, badRow, backend, store, client, index, told>>

Next ==
    \/ Build
    \/ BuildFails
    \/ Mutate
    \/ File
    \/ \E p \in Askers, d \in Days : Retrieve(p, d)
    \/ \E p \in Askers, d \in Days : RetrieveRaises(p, d)
    \/ Search
    \/ Return

Spec == Init /\ [][Next]_vars

----------------------------------------------------------------------------
(* Everything a question can be about. *)
Probes ==
    {d.id : d \in AllDepartments(world)} \cup {doc.id : doc \in AllDocuments(world)}
    \cup {t.object : t \in Toggles} \cup {TenantId(t) : t \in DOMAIN world}

(* What each variable holds. *)
TypeOK ==
    /\ backend \in {"local", "openfga"}
    /\ \A t \in direct \cup structural \cup remote \cup told :
          DOMAIN t = {"user", "relation", "object"}
    /\ available \in BOOLEAN
    /\ next \in 0..(Len(list) + BatchSize)
    /\ writing \in {"idle", "writing", "ok", "failclosed", "rejected"}
    /\ stage \in {"down", "failed", "idle", "listed", "answered", "raised"}
    /\ allowed \subseteq Probes /\ indexed \subseteq Probes
    /\ chunks \subseteq index

(* The questions are the same whatever request is under way. *)
Probing == stage = "idle" /\ backend = "local" /\ available

(* The parity the local store promises: over the tuples it was given and   *)
(* not told to drop, whatever the order, it says yes where model.fga does  *)
(* and no where model.fga does or has no such relation.                    *)
LocalAgreesWithModel ==
    Probing =>
        \A p \in Probed, o \in Probes, relation \in Local!KnownRelations :
            LET holds == relation \in Defined(TypeOf(o)) /\ Holds(told, p.id, relation, o)
                outcome == Local!Check(p.id, relation, o)
            IN ("yes" \in outcome => holds) /\ ("no" \in outcome => ~holds)

(* A walk is cut only where it could not end: over departments as the      *)
(* generator builds them, a known relation never raises, and what raises   *)
(* is a department that can be reached from itself.                        *)
RaisesOnlyOnCycles ==
    Probing =>
        \A p \in Probed, o \in Probes, relation \in Local!KnownRelations :
            "raise" \in Local!Check(p.id, relation, o) =>
                \E d \in {t.object : t \in told} :
                    \E above \in Subjects(told, "parent", d) : d \in Ancestry(told, above)

(* What a listing returns is what the model gives over the tuples in force *)
(* when it is made: a revocation of any kind of tuple counts at the next   *)
(* query, a document is not lost from the index of its type, and an outage *)
(* is never an empty list.                                                 *)
ListingIsExact ==
    [][stage = "idle" /\ stage' \in {"listed", "answered"} =>
          /\ backend = "local" => available
          /\ allowed' = {o \in Probes : TypeOf(o) = "policy_document"
                                        /\ Reader(told, asker'.id, o)}]_vars

(* The tuples a world is seeded with, before any of them is changed. *)
Fresh == stage = "idle" /\ told = Seed(world)

DepartmentsAbove(t, i) == {d \in DOMAIN world[t].tree :
                              DepartmentId(t, d) \in Ancestry(told, DepartmentId(t, i))}

(* The rows say who reads a document: a tenant-wide one every employee of  *)
(* the tenant, an addendum the employees of the department, the managers   *)
(* of it and of the departments above it, the auditor and finance.  The    *)
(* tuples give neither more nor less.                                      *)
SeedFollowsRows ==
    Fresh =>
        \A u \in AllUsers(world), doc \in AllDocuments(world) :
            Reader(told, u.id, doc.id) <=>
                /\ u.tenant = doc.tenant
                /\ \/ doc.scope = None
                   \/ u.role \in {"auditor", "finance"}
                   \/ u.role = "employee" /\ u.department = doc.scope
                   \/ u.role = "manager" /\ u.department \in Ancestry(told, doc.scope)

(* Everybody in a user's reporting line views the user's department, over  *)
(* department boundaries and through managers of part of a department.     *)
ReportingLineViews ==
    Fresh =>
        \A u \in AllUsers(world) :
            \A m \in ReportingLine(AllUsers(world), u) : DepartmentViewer(told, m, u.department)

(* A document whose scope is not an id is read by nobody: the seed that    *)
(* holds it is refused, never published to the tenant.                     *)
BlankScopeUnread == \A u \in AllUsers(world) : ~Reader(told, u.id, Leaky.id)

(* On every date exactly one cap of a category applies to a department,    *)
(* and an employee or manager of the department finds it: it is among the  *)
(* chunks the search may rank.                                             *)
CapIsRetrievable ==
    Fresh =>
        \A u \in {x \in AllUsers(world) : x.role \in {"employee", "manager"}},
           c \in Categories, d \in Days :
            LET own == {rule \in index : rule.tenant = u.tenant}
                caps == ApplicableCap(own, c, u.department, d)
                docs == {doc.id : doc \in {x \in AllDocuments(world) : Reader(told, u.id, x.id)}}
            IN Cardinality(caps) = 1 /\ caps \subseteq Searchable(u, d, docs)

(* An answer never rests on two versions of one rule, nor on a rule of     *)
(* another tenant, whatever was granted while it was being made.           *)
OneVersionOneTenant ==
    stage = "answered" =>
        \A c, e \in chunks :
            /\ c.tenant = asker.tenant
            /\ c.ref = e.ref /\ c.scope = e.scope => c.document = e.document

(* A partly written expense gives no more than the whole one: nobody may   *)
(* approve or view it, through a prefix of its tuples, who may not in the  *)
(* end.                                                                    *)
PartialFilingDenies ==
    backend = "openfga" /\ stage = "idle" =>
        \A u \in AllUsers(world), i \in DOMAIN Filings, relation \in Defined("expense") :
            Holds(remote, u.id, relation, Filings[i].id) =>
                Holds(remote \cup Remote!Elements(FilingTuples), u.id, relation, Filings[i].id)

(* A write that failed with part of its tuples on the server is never      *)
(* completed by calling it again: the server rejects what it has.          *)
RetryAfterPartIsRejected ==
    [](writing \in {"failclosed", "rejected"} /\ Remote!Elements(FilingTuples) \cap remote # {}
        => [](writing # "ok"))
=============================================================================
