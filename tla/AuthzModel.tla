----------------------------- MODULE AuthzModel -----------------------------
(***************************************************************************)
(* The relationship tuples (fsa_authz/tuples.py) and the authorisation     *)
(* model (infra/openfga/model.fga) as a function of a set of tuples.       *)
(*                                                                         *)
(* An object is a pair of a type and an id, and a tuple says that a        *)
(* subject stands in a relation to an object.  The rules below are those   *)
(* of the model file, with the least fixpoint for the recursive one: they  *)
(* are what an OpenFGA server answers, and what the local store is         *)
(* compared with.                                                          *)
(***************************************************************************)
EXTENDS Integers, FiniteSets, Sequences

Obj(type, id) == <<type, id>>

TypeOf(object) == object[1]

(* A missing parent, scope or manager. *)
None == Obj("none", <<>>)

(* An id that is empty or white space. *)
Blank == Obj("department", <<>>)

Tuple(user, relation, object) ==
    [user |-> user, relation |-> relation, object |-> object]

Roles == {"employee", "manager", "finance", "auditor", "admin"}

----------------------------------------------------------------------------
(* model.fga *)

Subjects(facts, relation, object) ==
    {t.user : t \in {f \in facts : f.relation = relation /\ f.object = object}}

Direct(facts, u, relation, object) == Tuple(u, relation, object) \in facts

ParentEdges(facts) == {f \in facts : f.relation = "parent"}

(* With a department the set holds its parents. *)
Upward(edges, S) == \A e \in edges : e.object \in S => e.user \in S

(* A department and everything above it, cycles included: the least set    *)
(* that holds the department and is closed under parents.                  *)
Ancestry(facts, d) ==
    LET edges == ParentEdges(facts)
        reach == {d} \cup {e.user : e \in edges}
    IN {a \in reach : \A S \in SUBSET reach : d \in S /\ Upward(edges, S) => a \in S}

ManagerChain(facts, u, d) ==
    \E a \in Ancestry(facts, d) : Direct(facts, u, "manager", a)

DepartmentViewer(facts, u, d) == Direct(facts, u, "member", d) \/ ManagerChain(facts, u, d)

FromTenant(facts, u, relation, object) ==
    \E t \in Subjects(facts, "tenant", object) : Direct(facts, u, relation, t)

Approver(facts, u, e) ==
    \E d \in Subjects(facts, "department", e) : Direct(facts, u, "manager", d)

CanApprove(facts, u, e) == Approver(facts, u, e) /\ ~Direct(facts, u, "owner", e)

ExpenseViewer(facts, u, e) ==
    \/ Direct(facts, u, "owner", e)
    \/ Approver(facts, u, e)
    \/ FromTenant(facts, u, "auditor", e)
    \/ FromTenant(facts, u, "finance", e)

Reader(facts, u, doc) ==
    \/ \E d \in Subjects(facts, "scope", doc) : DepartmentViewer(facts, u, d)
    \/ \E t \in Subjects(facts, "tenant_scope", doc) : Direct(facts, u, "employee", t)
    \/ FromTenant(facts, u, "auditor", doc)
    \/ FromTenant(facts, u, "finance", doc)

(* The relations of each type whose subjects can be users; a server        *)
(* rejects a question about any other.                                     *)
Defined(type) ==
    CASE type = "tenant" -> {"employee", "auditor", "finance", "admin"}
      [] type = "department" -> {"member", "manager", "manager_chain", "viewer"}
      [] type = "expense" -> {"owner", "approver", "viewer", "can_approve"}
      [] type = "policy_document" -> {"reader"}

Holds(facts, u, relation, object) ==
    CASE relation = "manager_chain" -> ManagerChain(facts, u, object)
      [] relation = "viewer" /\ TypeOf(object) = "department" -> DepartmentViewer(facts, u, object)
      [] relation = "viewer" /\ TypeOf(object) = "expense" -> ExpenseViewer(facts, u, object)
      [] relation = "approver" -> Approver(facts, u, object)
      [] relation = "can_approve" -> CanApprove(facts, u, object)
      [] relation = "reader" -> Reader(facts, u, object)
      [] OTHER -> Direct(facts, u, relation, object)

----------------------------------------------------------------------------
(* tuples.py *)

(* Mutant: an auditor, a finance controller and an administrator become    *)
(* members of their department as well.                                    *)
RoleTuplesMember(u) ==
    {Tuple(u.id, IF u.role = "manager" THEN "manager" ELSE "member", u.department)}
    \cup (IF u.role \in {"auditor", "finance", "admin"}
          THEN {Tuple(u.id, u.role, u.tenant)} ELSE {})

RoleTuples(u) ==
    CASE u.role = "manager" -> {Tuple(u.id, "manager", u.department)}
      [] u.role = "employee" -> {Tuple(u.id, "member", u.department)}
      [] OTHER -> {Tuple(u.id, u.role, u.tenant)}

(* Mutant: the scope is tested for truth, so that a blank one publishes    *)
(* the document to the tenant.                                             *)
ScopeTupleTruthy(doc) ==
    IF doc.scope \notin {None, Blank} THEN Tuple(doc.scope, "scope", doc.id)
    ELSE Tuple(doc.tenant, "tenant_scope", doc.id)

ScopeTuple(doc) ==
    IF doc.scope # None THEN Tuple(doc.scope, "scope", doc.id)
    ELSE Tuple(doc.tenant, "tenant_scope", doc.id)

(* Mutant: subject and object are swapped. *)
ParentTuplesReversed(children) == {Tuple(d.id, "parent", d.parent) : d \in children}

ParentTuples(children) == {Tuple(d.parent, "parent", d.id) : d \in children}

(* Every user is an employee of the tenant, whatever the role. *)
BuildTuples(departments, users, documents) ==
    {Tuple(d.tenant, "tenant", d.id) : d \in departments}
    \cup ParentTuples({d \in departments : d.parent # None})
    \cup {Tuple(u.id, "employee", u.tenant) : u \in users}
    \cup (UNION {RoleTuples(u) : u \in users})
    \cup {Tuple(doc.tenant, "tenant", doc.id) : doc \in documents}
    \cup {ScopeTuple(doc) : doc \in documents}

(* Rows that build_tuples raises ValidationError on, whatever comes before *)
(* them: a role it does not know and a scope that is not an id.            *)
Malformed(users, documents) ==
    \/ \E u \in users : u.role \notin Roles
    \/ \E doc \in documents : ScopeTuple(doc) = Tuple(Blank, "scope", doc.id)

(* Mutant: the owner is written last. *)
ExpenseTuplesOwnerLast(x) ==
    <<Tuple(x.tenant, "tenant", x.id), Tuple(x.department, "department", x.id),
      Tuple(x.owner, "owner", x.id)>>

ExpenseTuples(x) ==
    <<Tuple(x.tenant, "tenant", x.id), Tuple(x.owner, "owner", x.id),
      Tuple(x.department, "department", x.id)>>
=============================================================================
