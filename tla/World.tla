------------------------------- MODULE World -------------------------------
(***************************************************************************)
(* A tenant's organisation and policy corpus (fsa_sim/world/org.py and     *)
(* policy.py), as the rows build_authz_world.py turns into tuples and      *)
(* retrieval indexes.                                                      *)
(*                                                                         *)
(* What the seeded generator draws is chosen: the tree of departments and  *)
(* which departments have a name with an addendum.  Ids say what they      *)
(* identify, which stands for the sequence numbers that make them unique.  *)
(* A shape is a record of the number of departments and of employees, the  *)
(* depth of the tree and the span of control.                              *)
(***************************************************************************)
EXTENDS AuthzModel

CONSTANTS
    Categories,   \* expense categories
    AddendumCaps, \* the categories an addendum changes
    Start,        \* world_start
    Switch        \* version_switch

ASSUME WorldAssumption ==
    /\ AddendumCaps \subseteq Categories
    /\ "none" \notin Categories
    /\ Start \in Int
    /\ Switch \in Int
    /\ Start < Switch

Forever == Switch + 365

TenantId(t) == Obj("tenant", <<t>>)

DepartmentId(t, i) == Obj("department", <<t, i>>)

UserId(t, i, kind, k) == Obj("user", <<t, i, kind, k>>)

DocumentId(t, kind, i) == Obj("policy_document", <<t, kind, i>>)

----------------------------------------------------------------------------
(* build_departments: a third of the departments are roots, any other      *)
(* hangs under an earlier one that is not at the depth limit.  tree[i] is  *)
(* the parent of department i and 0 for a root.                            *)

DepartmentNames == 12

NDepartments(shape) ==
    IF shape.departments < DepartmentNames THEN shape.departments ELSE DepartmentNames

NRoots(n) == IF n < 3 THEN 1 ELSE (n + 2) \div 3

Depth(tree, i) ==
    LET depth[d \in DOMAIN tree] == IF tree[d] = 0 THEN 1 ELSE depth[tree[d]] + 1
    IN depth[i]

Eligible(tree, shape, i) ==
    LET shallow == {d \in 1..(i - 1) : Depth(tree, d) < shape.maxDepth}
    IN IF shallow = {} THEN 1..(i - 1) ELSE shallow

Trees(shape) ==
    LET n == NDepartments(shape)
    IN {tree \in [1..n -> 0..(n - 1)] :
           /\ \A i \in 1..n : tree[i] < i
           /\ \A i \in 1..n : tree[i] = 0 <=> i <= NRoots(n)
           /\ \A i \in (NRoots(n) + 1)..n : tree[i] \in Eligible(tree, shape, i)}

Departments(t, tree) ==
    {[id |-> DepartmentId(t, i), tenant |-> TenantId(t),
      parent |-> IF tree[i] = 0 THEN None ELSE DepartmentId(t, tree[i])] : i \in DOMAIN tree}

----------------------------------------------------------------------------
(* build_users *)

HeadOf(t, i) == UserId(t, i, "head", 0)

(* Members after the first span report to a manager of their own, who      *)
(* reports to the head.                                                    *)
ChunkManager(t, i, k) == IF k = 0 THEN HeadOf(t, i) ELSE UserId(t, i, "chunk", k)

User(t, i, id, manager, role, grade) ==
    [id |-> id, tenant |-> TenantId(t), department |-> DepartmentId(t, i),
     manager |-> manager, role |-> role, grade |-> grade]

Heads(t, tree) ==
    {User(t, i, HeadOf(t, i), IF tree[i] = 0 THEN None ELSE HeadOf(t, tree[i]), "manager", 5) :
        i \in DOMAIN tree}

(* n_members: the head is one of the employees of a department. *)
NMembers(shape, tree) ==
    LET perDepartment == shape.employees \div Cardinality(DOMAIN tree)
    IN IF perDepartment < 1 THEN 0 ELSE perDepartment - 1

Members(t, shape, tree) ==
    {User(t, i, UserId(t, i, "member", k), ChunkManager(t, i, k \div shape.span), "employee", 1) :
        i \in DOMAIN tree, k \in 0..(NMembers(shape, tree) - 1)}

ChunkManagers(t, shape, tree) ==
    {User(t, i, ChunkManager(t, i, k), HeadOf(t, i), "manager", 4) :
        i \in DOMAIN tree, k \in 1..((NMembers(shape, tree) - 1) \div shape.span)}

(* The tenant-level personas sit in the first department. *)
Personas(t) ==
    {User(t, 1, UserId(t, 0, role, 0), None, role, IF role = "admin" THEN 3 ELSE 4) :
        role \in {"finance", "auditor", "admin"}}

Users(t, shape, tree) ==
    Heads(t, tree) \cup Members(t, shape, tree) \cup ChunkManagers(t, shape, tree) \cup Personas(t)

(* manager_chain: the reporting line above a user, the least set that      *)
(* holds the user's manager and the managers of those in it.               *)
ReportingLine(users, u) ==
    LET managed == {x \in users : x.manager # None}
        managers == {x.manager : x \in managed}
        complete(S) == \A x \in managed : x.id \in {u.id} \cup S => x.manager \in S
    IN {m \in managers : \A S \in SUBSET managers : complete(S) => m \in S}

----------------------------------------------------------------------------
(* build_policy_corpus *)

Document(t, kind, i, scope, from, to) ==
    [id |-> DocumentId(t, kind, i), tenant |-> TenantId(t), scope |-> scope,
     from |-> from, to |-> to]

(* addenda: the departments whose name has an addendum. *)
Documents(t, addenda) ==
    {Document(t, "global", 1, None, Start, Switch), Document(t, "global", 2, None, Switch, Forever)}
    \cup {Document(t, "addendum", i, DepartmentId(t, i), Start, Forever) : i \in addenda}
    \cup {Document(t, kind, 0, None, Start, Forever) : kind \in {"tax", "authority"}}

(* One rule for each category a document caps, and one without a category  *)
(* for the rest of a document's rules.  Both versions of the global policy *)
(* give a rule the same reference.                                         *)
Capped(doc) ==
    CASE doc.id[2][2] = "global" -> Categories \cup {"none"}
      [] doc.id[2][2] = "addendum" -> AddendumCaps
      [] OTHER -> {"none"}

Rules(documents) ==
    UNION {{[ref |-> <<doc.id[2][2], c>>, document |-> doc.id, tenant |-> doc.tenant,
             scope |-> doc.scope, category |-> c, from |-> doc.from, to |-> doc.to] :
                c \in Capped(doc)} : doc \in documents}

(* Mutant: the end of an interval belongs to it. *)
LiveClosed(rule, day) == rule.from <= day /\ day <= rule.to

(* Chunk.is_live and applicable_cap: half-open intervals. *)
Live(rule, day) == rule.from <= day /\ day < rule.to

(* applicable_cap: an addendum of the department beats the global policy.  *)
(* A set; that it has one element when the category is capped is a         *)
(* property of the corpus.                                                 *)
ApplicableCap(rules, category, department, day) ==
    LET live == {r \in rules : r.category = category /\ Live(r, day)}
        scoped == {r \in live : r.scope = department}
    IN IF scoped # {} THEN scoped ELSE {r \in live : r.scope = None}
=============================================================================
