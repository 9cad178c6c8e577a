---------------------------- MODULE Access_proofs ---------------------------
(***************************************************************************)
(* Proofs about Access for all worlds, principals, dates and stores.       *)
(*                                                                         *)
(* The rows of a world and what the ids of them say; the tuples a seed     *)
(* holds, and who reads, manages and views through them; the caps of a     *)
(* tenant; the tuples of a filing; what an answer is made of; the          *)
(* invariant of both stores and the steps that keep it; a filing that      *)
(* stopped part of the way; the local store's walk, by the levels allowed  *)
(* to it, and the verdicts and listings that rest on it.                   *)
(***************************************************************************)
EXTENDS Access, AuthzModel_proofs, FiniteSetTheorems, SequenceTheorems

----------------------------------------------------------------------------
(* Ids say what they identify. *)

LEMMA Ids ==
    /\ \A t, i, u, j : DepartmentId(t, i) = DepartmentId(u, j) => t = u /\ i = j
    /\ \A t, u : TenantId(t) = TenantId(u) => t = u
    /\ \A t, i, kind, k, u, j, class, l :
          UserId(t, i, kind, k) = UserId(u, j, class, l) => t = u /\ i = j /\ kind = class /\ k = l
    /\ \A t, kind, i, u, class, j :
          DocumentId(t, kind, i) = DocumentId(u, class, j) => t = u /\ kind = class /\ i = j
<1>1. ASSUME NEW t, NEW i, NEW u, NEW j, DepartmentId(t, i) = DepartmentId(u, j)
      PROVE  t = u /\ i = j
  <2>1. <<t, i>> = <<u, j>>
    BY <1>1 DEF DepartmentId, Obj
  <2> QED
    BY <2>1
<1>2. ASSUME NEW t, NEW u, TenantId(t) = TenantId(u) PROVE t = u
  <2>1. <<t>> = <<u>>
    BY <1>2 DEF TenantId, Obj
  <2> QED
    BY <2>1
<1>3. ASSUME NEW t, NEW i, NEW kind, NEW k, NEW u, NEW j, NEW class, NEW l,
             UserId(t, i, kind, k) = UserId(u, j, class, l)
      PROVE  t = u /\ i = j /\ kind = class /\ k = l
  <2>1. <<t, i, kind, k>> = <<u, j, class, l>>
    BY <1>3 DEF UserId, Obj
  <2> QED
    BY <2>1
<1>4. ASSUME NEW t, NEW kind, NEW i, NEW u, NEW class, NEW j,
             DocumentId(t, kind, i) = DocumentId(u, class, j)
      PROVE  t = u /\ kind = class /\ i = j
  <2>1. <<t, kind, i>> = <<u, class, j>>
    BY <1>4 DEF DocumentId, Obj
  <2> QED
    BY <2>1
<1> QED
  BY <1>1, <1>2, <1>3, <1>4

LEMMA Types ==
    /\ \A t, i : TypeOf(DepartmentId(t, i)) = "department"
    /\ \A t : TypeOf(TenantId(t)) = "tenant"
    /\ \A t, i, kind, k : TypeOf(UserId(t, i, kind, k)) = "user"
    /\ \A t, kind, i : TypeOf(DocumentId(t, kind, i)) = "policy_document"
    /\ TypeOf(None) = "none"
  BY DEF TypeOf, DepartmentId, TenantId, UserId, DocumentId, None, Obj

(* The tree of a tenant. *)
LEMMA TreeShape ==
    ASSUME NEW w \in Worlds, NEW t \in DOMAIN w
    PROVE  \E n \in Nat \ {0} :
              /\ w[t].tree \in [1..n -> 0..(n - 1)]
              /\ \A i \in 1..n : w[t].tree[i] < i
              /\ w[t].addenda \subseteq 1..n
<1> DEFINE n == NDepartments(w[t].shape)
<1>1. /\ w[t].tree \in Trees(w[t].shape)
      /\ w[t].addenda \subseteq DOMAIN w[t].tree
      /\ w[t].shape["departments"] \in Nat \ {0}
  BY WorldsAssumption
<1>2. n \in Nat \ {0}
  BY <1>1 DEF NDepartments, DepartmentNames
<1>3. /\ w[t].tree \in [1..n -> 0..(n - 1)]
      /\ \A i \in 1..n : w[t].tree[i] < i
  BY <1>1 DEF Trees
<1>4. w[t].addenda \subseteq 1..n
  BY <1>1, <1>3
<1> HIDE DEF n
<1> QED
  BY <1>2, <1>3, <1>4

(* Rows. *)
DepartmentRow(w, d, t, i) ==
    /\ t \in DOMAIN w /\ i \in DOMAIN w[t].tree
    /\ d.id = DepartmentId(t, i) /\ d.tenant = TenantId(t)
    /\ IF w[t].tree[i] = 0 THEN d.parent = None
       ELSE /\ w[t].tree[i] \in DOMAIN w[t].tree
            /\ d.parent = DepartmentId(t, w[t].tree[i])

LEMMA DepartmentRows ==
    ASSUME NEW w \in Worlds
    PROVE  /\ \A d \in AllDepartments(w) : \E t, i : DepartmentRow(w, d, t, i)
           /\ \A t \in DOMAIN w : \A i \in DOMAIN w[t].tree :
                 \E d \in AllDepartments(w) : DepartmentRow(w, d, t, i)
<1>1. ASSUME NEW t \in DOMAIN w, NEW i \in DOMAIN w[t].tree,
             NEW d, d = [id |-> DepartmentId(t, i), tenant |-> TenantId(t),
                         parent |-> IF w[t].tree[i] = 0 THEN None ELSE DepartmentId(t, w[t].tree[i])]
      PROVE  DepartmentRow(w, d, t, i) /\ d \in Departments(t, w[t].tree)
  <2>1. w[t].tree[i] # 0 => w[t].tree[i] \in DOMAIN w[t].tree
    BY TreeShape
  <2> QED
    BY <1>1, <2>1 DEF DepartmentRow, Departments
<1>2. ASSUME NEW d \in AllDepartments(w) PROVE \E t, i : DepartmentRow(w, d, t, i)
  <2>1. PICK t \in DOMAIN w : d \in Departments(t, w[t].tree)
    BY DEF AllDepartments
  <2>2. PICK i \in DOMAIN w[t].tree :
           d = [id |-> DepartmentId(t, i), tenant |-> TenantId(t),
                parent |-> IF w[t].tree[i] = 0 THEN None ELSE DepartmentId(t, w[t].tree[i])]
    BY <2>1 DEF Departments
  <2> QED
    BY <1>1, <2>2
<1>3. ASSUME NEW t \in DOMAIN w, NEW i \in DOMAIN w[t].tree
      PROVE  \E d \in AllDepartments(w) : DepartmentRow(w, d, t, i)
  <2> DEFINE d == [id |-> DepartmentId(t, i), tenant |-> TenantId(t),
                   parent |-> IF w[t].tree[i] = 0 THEN None ELSE DepartmentId(t, w[t].tree[i])]
  <2>1. DepartmentRow(w, d, t, i) /\ d \in Departments(t, w[t].tree)
    BY <1>1
  <2> HIDE DEF d
  <2> QED
    BY <2>1 DEF AllDepartments
<1> QED
  BY <1>2, <1>3

(* What the id of a user says of his role and department. *)
UserRow(w, u, t, i, kind, k) ==
    /\ t \in DOMAIN w /\ i \in DOMAIN w[t].tree
    /\ u.tenant = TenantId(t) /\ u.department = DepartmentId(t, i)
    /\ \/ kind \in {"head", "chunk"} /\ u.id = UserId(t, i, kind, k) /\ u.role = "manager"
       \/ kind = "member" /\ u.id = UserId(t, i, kind, k) /\ u.role = "employee"
       \/ kind \in {"finance", "auditor", "admin"} /\ i = 1 /\ u.id = UserId(t, 0, kind, k)
          /\ u.role = kind

LEMMA UserRows ==
    ASSUME NEW w \in Worlds, NEW u \in AllUsers(w)
    PROVE  \E t, i, kind, k : UserRow(w, u, t, i, kind, k)
<1>1. PICK t \in DOMAIN w : u \in Users(t, w[t].shape, w[t].tree)
  BY DEF AllUsers
<1>2. \A i, id, manager, role, grade :
         LET x == User(t, i, id, manager, role, grade)
         IN /\ x.id = id /\ x.tenant = TenantId(t) /\ x.department = DepartmentId(t, i)
            /\ x.role = role /\ x.manager = manager
  BY DEF User
<1>3. CASE u \in Heads(t, w[t].tree)
  <2>1. PICK i \in DOMAIN w[t].tree :
           u = User(t, i, HeadOf(t, i), IF w[t].tree[i] = 0 THEN None ELSE HeadOf(t, w[t].tree[i]),
                    "manager", 5)
    BY <1>3 DEF Heads
  <2>2. UserRow(w, u, t, i, "head", 0)
    BY <1>2, <2>1 DEF UserRow, HeadOf
  <2> QED
    BY <2>2
<1>4. CASE u \in Members(t, w[t].shape, w[t].tree)
  <2>1. PICK i \in DOMAIN w[t].tree, k \in 0..(NMembers(w[t].shape, w[t].tree) - 1) :
           u = User(t, i, UserId(t, i, "member", k),
                    ChunkManager(t, i, k \div w[t].shape.span), "employee", 1)
    BY <1>4 DEF Members
  <2>2. UserRow(w, u, t, i, "member", k)
    BY <1>2, <2>1 DEF UserRow
  <2> QED
    BY <2>2
<1>5. CASE u \in ChunkManagers(t, w[t].shape, w[t].tree)
  <2>1. PICK i \in DOMAIN w[t].tree,
             k \in 1..((NMembers(w[t].shape, w[t].tree) - 1) \div w[t].shape.span) :
           u = User(t, i, ChunkManager(t, i, k), HeadOf(t, i), "manager", 4)
    BY <1>5 DEF ChunkManagers
  <2>2. ChunkManager(t, i, k) = UserId(t, i, "chunk", k)
    BY DEF ChunkManager
  <2>3. UserRow(w, u, t, i, "chunk", k)
    BY <1>2, <2>1, <2>2 DEF UserRow
  <2> QED
    BY <2>3
<1>6. CASE u \in Personas(t)
  <2>1. PICK role \in {"finance", "auditor", "admin"} :
           u = User(t, 1, UserId(t, 0, role, 0), None, role, IF role = "admin" THEN 3 ELSE 4)
    BY <1>6 DEF Personas
  <2>2. 1 \in DOMAIN w[t].tree
    BY TreeShape
  <2>3. UserRow(w, u, t, 1, role, 0)
    BY <1>2, <2>1, <2>2 DEF UserRow
  <2> QED
    BY <2>3
<1> QED
  BY <1>1, <1>3, <1>4, <1>5, <1>6 DEF Users

(* No two users share an id. *)
LEMMA UserById ==
    ASSUME NEW w \in Worlds, NEW u \in AllUsers(w), NEW v \in AllUsers(w), u.id = v.id
    PROVE  u.tenant = v.tenant /\ u.department = v.department /\ u.role = v.role
<1>1. PICK t, i, kind, k : UserRow(w, u, t, i, kind, k)
  BY UserRows
<1>2. PICK s, j, class, l : UserRow(w, v, s, j, class, l)
  BY UserRows
<1>3. t = s /\ kind = class
  BY <1>1, <1>2, Ids DEF UserRow
<1> QED
  BY <1>1, <1>2, <1>3, Ids DEF UserRow

(* Documents. *)
DocumentRow(w, doc, t, kind, i) ==
    /\ t \in DOMAIN w
    /\ doc.id = DocumentId(t, kind, i) /\ doc.tenant = TenantId(t)
    /\ \/ kind = "global" /\ i = 1 /\ doc.scope = None /\ doc.from = Start /\ doc.to = Switch
       \/ kind = "global" /\ i = 2 /\ doc.scope = None /\ doc.from = Switch /\ doc.to = Forever
       \/ /\ kind = "addendum" /\ i \in DOMAIN w[t].tree /\ i \in w[t].addenda
          /\ doc.scope = DepartmentId(t, i) /\ doc.from = Start /\ doc.to = Forever
       \/ /\ kind \in {"tax", "authority"} /\ i = 0
          /\ doc.scope = None /\ doc.from = Start /\ doc.to = Forever

LEMMA DocumentRows ==
    ASSUME NEW w \in Worlds, NEW doc \in AllDocuments(w)
    PROVE  \E t, kind, i : DocumentRow(w, doc, t, kind, i)
<1>1. PICK t \in DOMAIN w : doc \in Documents(t, w[t].addenda)
  BY DEF AllDocuments
<1>2. \A kind, i, scope, from, to :
         LET d == Document(t, kind, i, scope, from, to)
         IN /\ d.id = DocumentId(t, kind, i) /\ d.tenant = TenantId(t)
            /\ d.scope = scope /\ d.from = from /\ d.to = to
  BY DEF Document
<1>3. w[t].addenda \subseteq DOMAIN w[t].tree
  BY WorldsAssumption
<1>4. CASE doc = Document(t, "global", 1, None, Start, Switch)
  <2>1. DocumentRow(w, doc, t, "global", 1)
    BY <1>2, <1>4 DEF DocumentRow
  <2> QED
    BY <2>1
<1>5. CASE doc = Document(t, "global", 2, None, Switch, Forever)
  <2>1. DocumentRow(w, doc, t, "global", 2)
    BY <1>2, <1>5 DEF DocumentRow
  <2> QED
    BY <2>1
<1>6. ASSUME NEW i \in w[t].addenda,
             doc = Document(t, "addendum", i, DepartmentId(t, i), Start, Forever)
      PROVE  DocumentRow(w, doc, t, "addendum", i)
  BY <1>2, <1>3, <1>6 DEF DocumentRow
<1>7. ASSUME NEW kind \in {"tax", "authority"}, doc = Document(t, kind, 0, None, Start, Forever)
      PROVE  DocumentRow(w, doc, t, kind, 0)
  BY <1>2, <1>7 DEF DocumentRow
<1> QED
  BY <1>1, <1>4, <1>5, <1>6, <1>7 DEF Documents

LEMMA DocumentById ==
    ASSUME NEW w \in Worlds, NEW c \in AllDocuments(w), NEW e \in AllDocuments(w), c.id = e.id
    PROVE  c.tenant = e.tenant /\ c.scope = e.scope /\ c.from = e.from /\ c.to = e.to
<1>1. PICK t, kind, i : DocumentRow(w, c, t, kind, i)
  BY DocumentRows
<1>2. PICK s, class, j : DocumentRow(w, e, s, class, j)
  BY DocumentRows
<1>3. t = s /\ kind = class /\ i = j
  <2>1. DocumentId(t, kind, i) = DocumentId(s, class, j)
    BY <1>1, <1>2 DEF DocumentRow
  <2> QED
    BY <2>1, Ids
<1> QED
  BY <1>1, <1>2, <1>3 DEF DocumentRow

----------------------------------------------------------------------------
(* The tuples of a seed, row by row. *)

LEMMA Tuples ==
    /\ \A a, b, c : LET t == Tuple(a, b, c) IN t.user = a /\ t.relation = b /\ t.object = c
    /\ \A a, b, c, d, e, f : Tuple(a, b, c) = Tuple(d, e, f) <=> a = d /\ b = e /\ c = f
<1>1. \A a, b, c : LET t == Tuple(a, b, c) IN t.user = a /\ t.relation = b /\ t.object = c
  BY DEF Tuple
<1>2. ASSUME NEW a, NEW b, NEW c, NEW d, NEW e, NEW f, Tuple(a, b, c) = Tuple(d, e, f)
      PROVE  a = d /\ b = e /\ c = f
  BY <1>1, <1>2
<1> QED
  BY <1>1, <1>2

LEMMA RoleTuple ==
    ASSUME NEW w \in Worlds, NEW u \in AllUsers(w), NEW x
    PROVE  x \in RoleTuples(u) <=>
              \/ u.role = "manager" /\ x = Tuple(u.id, "manager", u.department)
              \/ u.role = "employee" /\ x = Tuple(u.id, "member", u.department)
              \/ u.role \in {"auditor", "finance", "admin"} /\ x = Tuple(u.id, u.role, u.tenant)
<1>1. u.role \in {"manager", "employee", "auditor", "finance", "admin"}
  BY UserRows DEF UserRow
<1> QED
  BY <1>1 DEF RoleTuples

LEMMA Built ==
    ASSUME NEW departments, NEW users, NEW documents, NEW x
    PROVE  x \in BuildTuples(departments, users, documents) <=>
              \/ \E d \in departments : x = Tuple(d.tenant, "tenant", d.id)
              \/ \E d \in departments : d.parent # None /\ x = Tuple(d.parent, "parent", d.id)
              \/ \E u \in users : x = Tuple(u.id, "employee", u.tenant)
              \/ \E u \in users : x \in RoleTuples(u)
              \/ \E doc \in documents : x = Tuple(doc.tenant, "tenant", doc.id)
              \/ \E doc \in documents : x = ScopeTuple(doc)
<1>1. BuildTuples(departments, users, documents)
         = {Tuple(d.tenant, "tenant", d.id) : d \in departments}
           \cup ParentTuples({d \in departments : d.parent # None})
           \cup {Tuple(u.id, "employee", u.tenant) : u \in users}
           \cup (UNION {RoleTuples(u) : u \in users})
           \cup {Tuple(doc.tenant, "tenant", doc.id) : doc \in documents}
           \cup {ScopeTuple(doc) : doc \in documents}
  BY DEF BuildTuples
<1>2. x \in ParentTuples({d \in departments : d.parent # None}) <=>
         \E d \in departments : d.parent # None /\ x = Tuple(d.parent, "parent", d.id)
  BY DEF ParentTuples
<1> QED
  BY <1>1, <1>2

SeedTuple(w, x) ==
    \/ \E d \in AllDepartments(w) : x = Tuple(d.tenant, "tenant", d.id)
    \/ \E d \in AllDepartments(w) : d.parent # None /\ x = Tuple(d.parent, "parent", d.id)
    \/ \E u \in AllUsers(w) : x = Tuple(u.id, "employee", u.tenant)
    \/ \E u \in AllUsers(w) : u.role = "manager" /\ x = Tuple(u.id, "manager", u.department)
    \/ \E u \in AllUsers(w) : u.role = "employee" /\ x = Tuple(u.id, "member", u.department)
    \/ \E u \in AllUsers(w) : /\ u.role \in {"auditor", "finance", "admin"}
                              /\ x = Tuple(u.id, u.role, u.tenant)
    \/ \E doc \in AllDocuments(w) : x = Tuple(doc.tenant, "tenant", doc.id)
    \/ \E doc \in AllDocuments(w) : doc.scope # None /\ x = Tuple(doc.scope, "scope", doc.id)
    \/ \E doc \in AllDocuments(w) :
          doc.scope = None /\ x = Tuple(doc.tenant, "tenant_scope", doc.id)

LEMMA SeedTuples == ASSUME NEW w \in Worlds, NEW x PROVE x \in Seed(w) <=> SeedTuple(w, x)
<1>1. \A doc : ScopeTuple(doc) = IF doc.scope # None THEN Tuple(doc.scope, "scope", doc.id)
                                 ELSE Tuple(doc.tenant, "tenant_scope", doc.id)
  BY DEF ScopeTuple
<1>2. \A u \in AllUsers(w) : x \in RoleTuples(u) <=>
              \/ u.role = "manager" /\ x = Tuple(u.id, "manager", u.department)
              \/ u.role = "employee" /\ x = Tuple(u.id, "member", u.department)
              \/ u.role \in {"auditor", "finance", "admin"} /\ x = Tuple(u.id, u.role, u.tenant)
  BY RoleTuple
<1>3. x \in Seed(w) <=>
         \/ \E d \in AllDepartments(w) : x = Tuple(d.tenant, "tenant", d.id)
         \/ \E d \in AllDepartments(w) : d.parent # None /\ x = Tuple(d.parent, "parent", d.id)
         \/ \E u \in AllUsers(w) : x = Tuple(u.id, "employee", u.tenant)
         \/ \E u \in AllUsers(w) : x \in RoleTuples(u)
         \/ \E doc \in AllDocuments(w) : x = Tuple(doc.tenant, "tenant", doc.id)
         \/ \E doc \in AllDocuments(w) : x = ScopeTuple(doc)
  BY Built DEF Seed
<1> QED
  BY <1>1, <1>2, <1>3 DEF SeedTuple

(* The user behind an id. *)
LEMMA SeedDirect ==
    ASSUME NEW w \in Worlds, NEW u \in AllUsers(w), NEW o
    PROVE  /\ Direct(Seed(w), u.id, "member", o) <=> u.role = "employee" /\ u.department = o
           /\ Direct(Seed(w), u.id, "manager", o) <=> u.role = "manager" /\ u.department = o
           /\ Direct(Seed(w), u.id, "employee", o) <=> u.tenant = o
           /\ \A role \in {"auditor", "finance", "admin"} :
                 Direct(Seed(w), u.id, role, o) <=> u.role = role /\ u.tenant = o
<1>1. \A v \in AllUsers(w) :
         v.id = u.id => v.role = u.role /\ v.department = u.department /\ v.tenant = u.tenant
  BY UserById
<1>2. Direct(Seed(w), u.id, "member", o) <=> u.role = "employee" /\ u.department = o
  BY <1>1, SeedTuples, Tuples DEF Direct, SeedTuple
<1>3. Direct(Seed(w), u.id, "manager", o) <=> u.role = "manager" /\ u.department = o
  BY <1>1, SeedTuples, Tuples DEF Direct, SeedTuple
<1>4. Direct(Seed(w), u.id, "employee", o) <=> u.tenant = o
  BY <1>1, SeedTuples, Tuples DEF Direct, SeedTuple
<1>5. \A role \in {"auditor", "finance", "admin"} :
                 Direct(Seed(w), u.id, role, o) <=> u.role = role /\ u.tenant = o
  BY <1>1, SeedTuples, Tuples DEF Direct, SeedTuple
<1> QED
  BY <1>2, <1>3, <1>4, <1>5

LEMMA SeedTyped ==
    ASSUME NEW w \in Worlds
    PROVE  /\ \A d \in AllDepartments(w) : TypeOf(d.id) = "department" /\ TypeOf(d.tenant) = "tenant"
           /\ \A u \in AllUsers(w) : /\ TypeOf(u.id) = "user"
                                     /\ TypeOf(u.department) = "department"
                                     /\ TypeOf(u.tenant) = "tenant"
           /\ \A doc \in AllDocuments(w) : TypeOf(doc.id) = "policy_document" /\ TypeOf(doc.tenant) = "tenant"
<1>1. \A d \in AllDepartments(w) : TypeOf(d.id) = "department" /\ TypeOf(d.tenant) = "tenant"
  BY DepartmentRows, Types DEF DepartmentRow
<1>2. \A u \in AllUsers(w) : /\ TypeOf(u.id) = "user"
                             /\ TypeOf(u.department) = "department"
                             /\ TypeOf(u.tenant) = "tenant"
  BY UserRows, Types DEF UserRow
<1>3. \A doc \in AllDocuments(w) : TypeOf(doc.id) = "policy_document" /\ TypeOf(doc.tenant) = "tenant"
  BY DocumentRows, Types DEF DocumentRow
<1> QED
  BY <1>1, <1>2, <1>3

(* What the seed says of a document. *)
LEMMA SeedDocument ==
    ASSUME NEW w \in Worlds, NEW doc \in AllDocuments(w)
    PROVE  /\ Subjects(Seed(w), "tenant", doc.id) = {doc.tenant}
           /\ Subjects(Seed(w), "scope", doc.id) = IF doc.scope = None THEN {} ELSE {doc.scope}
           /\ Subjects(Seed(w), "tenant_scope", doc.id) = IF doc.scope = None THEN {doc.tenant} ELSE {}
<1>1. \A e \in AllDocuments(w) : e.id = doc.id => e.tenant = doc.tenant /\ e.scope = doc.scope
  BY DocumentById
<1>2. \A d \in AllDepartments(w) : d.id # doc.id
  BY SeedTyped
<1>3. \A a : Tuple(a, "tenant", doc.id) \in Seed(w) <=> a = doc.tenant
  BY <1>1, <1>2, SeedTuples, Tuples DEF SeedTuple
<1>4. \A a : Tuple(a, "scope", doc.id) \in Seed(w) <=> doc.scope # None /\ a = doc.scope
  BY <1>1, SeedTuples, Tuples DEF SeedTuple
<1>5. \A a : Tuple(a, "tenant_scope", doc.id) \in Seed(w) <=> doc.scope = None /\ a = doc.tenant
  BY <1>1, SeedTuples, Tuples DEF SeedTuple
<1>6. \A x \in Seed(w) : x = Tuple(x.user, x.relation, x.object)
  BY SeedTuples, Tuples DEF SeedTuple
<1>7. \A r, a : a \in Subjects(Seed(w), r, doc.id) <=> Tuple(a, r, doc.id) \in Seed(w)
  BY <1>6, Tuples DEF Subjects
<1> QED
  BY <1>3, <1>4, <1>5, <1>7

(* The edges of the seed join the departments of a tree. *)
LEMMA SeedEdges ==
    ASSUME NEW w \in Worlds
    PROVE  /\ \A e \in ParentEdges(Seed(w)) :
                 \E t \in DOMAIN w : \E i, j \in DOMAIN w[t].tree :
                    e.object = DepartmentId(t, i) /\ e.user = DepartmentId(t, j) /\ w[t].tree[i] = j
           /\ \A t \in DOMAIN w : \A i \in DOMAIN w[t].tree :
                 w[t].tree[i] # 0 => /\ w[t].tree[i] \in DOMAIN w[t].tree
                                     /\ DepartmentId(t, w[t].tree[i])
                                           \in Subjects(Seed(w), "parent", DepartmentId(t, i))
<1>1. ASSUME NEW e \in ParentEdges(Seed(w))
      PROVE  \E t \in DOMAIN w : \E i, j \in DOMAIN w[t].tree :
                    e.object = DepartmentId(t, i) /\ e.user = DepartmentId(t, j) /\ w[t].tree[i] = j
  <2>1. PICK d \in AllDepartments(w) : d.parent # None /\ e = Tuple(d.parent, "parent", d.id)
    <3>1. e \in Seed(w) /\ e.relation = "parent"
      BY DEF ParentEdges
    <3>2. \A u \in AllUsers(w) : u.role \in {"auditor", "finance", "admin"} => u.role # "parent"
      OBVIOUS
    <3> QED
      BY <3>1, <3>2, SeedTuples, Tuples DEF SeedTuple
  <2>2. PICK t, i : DepartmentRow(w, d, t, i)
    BY DepartmentRows
  <2> QED
    BY <2>1, <2>2, Tuples DEF DepartmentRow
<1>2. ASSUME NEW t \in DOMAIN w, NEW i \in DOMAIN w[t].tree, w[t].tree[i] # 0
      PROVE  /\ w[t].tree[i] \in DOMAIN w[t].tree
             /\ DepartmentId(t, w[t].tree[i]) \in Subjects(Seed(w), "parent", DepartmentId(t, i))
  <2>1. PICK d \in AllDepartments(w) : DepartmentRow(w, d, t, i)
    BY DepartmentRows
  <2>2. d.parent = DepartmentId(t, w[t].tree[i]) /\ w[t].tree[i] \in DOMAIN w[t].tree
        /\ d.id = DepartmentId(t, i)
    BY <1>2, <2>1 DEF DepartmentRow
  <2>3. d.parent # None
    BY <2>2, Types
  <2>4. Tuple(d.parent, "parent", d.id) \in Seed(w)
    BY <2>3, SeedTuples DEF SeedTuple
  <2> QED
    BY <2>2, <2>4, Tuples DEF Subjects
<1> QED
  BY <1>1, <1>2

(* What is above a department of a tenant is of the tenant. *)
LEMMA AboveInTenant ==
    ASSUME NEW w \in Worlds, NEW t, NEW i, NEW a \in Ancestry(Seed(w), DepartmentId(t, i))
    PROVE  \E j : a = DepartmentId(t, j)
<1> DEFINE S == {e \in {a} \cup {DepartmentId(t, i)} \cup {x.user : x \in Seed(w)} :
                    \E j : e = DepartmentId(t, j)}
<1>1. DepartmentId(t, i) \in S
  OBVIOUS
<1>2. Upward(ParentEdges(Seed(w)), S)
  <2> SUFFICES ASSUME NEW e \in ParentEdges(Seed(w)), e.object \in S
               PROVE  e.user \in S
    BY DEF Upward
  <2>1. PICK s \in DOMAIN w : \E k, j \in DOMAIN w[s].tree :
                    e.object = DepartmentId(s, k) /\ e.user = DepartmentId(s, j)
    BY SeedEdges
  <2>2. s = t
    BY <2>1, Ids
  <2>3. e \in Seed(w)
    BY DEF ParentEdges
  <2> QED
    BY <2>1, <2>2, <2>3
<1>3. Ancestry(Seed(w), DepartmentId(t, i)) \subseteq S
  <2> HIDE DEF S
  <2> QED
    BY <1>1, <1>2, AncestryLeast
<1> QED
  BY <1>3

LEMMA SeedReader ==
    ASSUME NEW w \in Worlds, NEW u \in AllUsers(w), NEW doc \in AllDocuments(w)
    PROVE  Reader(Seed(w), u.id, doc.id) <=>
                /\ u.tenant = doc.tenant
                /\ \/ doc.scope = None
                   \/ u.role \in {"auditor", "finance"}
                   \/ u.role = "employee" /\ u.department = doc.scope
                   \/ u.role = "manager" /\ u.department \in Ancestry(Seed(w), doc.scope)
<1> DEFINE facts == Seed(w)
<1>0. /\ \A o : Direct(facts, u.id, "employee", o) <=> u.tenant = o
      /\ \A o : \A role \in {"auditor", "finance"} :
            Direct(facts, u.id, role, o) <=> u.role = role /\ u.tenant = o
  BY SeedDirect
<1>1. \A role \in {"auditor", "finance"} :
         FromTenant(facts, u.id, role, doc.id) <=> u.role = role /\ u.tenant = doc.tenant
  <2>1. Subjects(facts, "tenant", doc.id) = {doc.tenant}
    BY SeedDocument
  <2> HIDE DEF facts
  <2> QED
    BY <2>1, <1>0 DEF FromTenant
<1>2. \A d : DepartmentViewer(facts, u.id, d) <=>
                \/ u.role = "employee" /\ u.department = d
                \/ u.role = "manager" /\ u.department \in Ancestry(facts, d)
  BY SeedDirect DEF DepartmentViewer, ManagerChain
<1>3. CASE doc.scope = None
  <2>1. (\E t \in Subjects(facts, "tenant_scope", doc.id) : Direct(facts, u.id, "employee", t))
            <=> u.tenant = doc.tenant
    <3>1. Subjects(facts, "tenant_scope", doc.id) = {doc.tenant}
      BY <1>3, SeedDocument
    <3> HIDE DEF facts
    <3> QED
      BY <3>1, <1>0
  <2>2. Subjects(facts, "scope", doc.id) = {}
    BY <1>3, SeedDocument
  <2> HIDE DEF facts
  <2>3. Reader(facts, u.id, doc.id) <=> u.tenant = doc.tenant
    BY <1>1, <2>1, <2>2 DEF Reader
  <2> QED
    BY <1>3, <2>3 DEF facts
<1>4. CASE doc.scope # None
  <2>1. Subjects(facts, "tenant_scope", doc.id) = {} /\ Subjects(facts, "scope", doc.id) = {doc.scope}
    BY <1>4, SeedDocument
  <2>2. ASSUME u.department \in Ancestry(facts, doc.scope)
        PROVE  u.tenant = doc.tenant
    <3>1. PICK t, kind, i : DocumentRow(w, doc, t, kind, i)
      BY DocumentRows
    <3>2. doc.scope = DepartmentId(t, i) /\ doc.tenant = TenantId(t)
      BY <1>4, <3>1 DEF DocumentRow
    <3>3. PICK j : u.department = DepartmentId(t, j)
      BY <2>2, <3>2, AboveInTenant
    <3>4. PICK s, k, class, l : UserRow(w, u, s, k, class, l)
      BY UserRows
    <3>5. s = t
      <4>1. DepartmentId(s, k) = DepartmentId(t, j)
        BY <3>3, <3>4 DEF UserRow
      <4> QED
        BY <4>1, Ids
    <3> QED
      BY <3>2, <3>4, <3>5 DEF UserRow
  <2>3. doc.scope \in Ancestry(facts, doc.scope)
    BY AncestryHolds
  <2> HIDE DEF facts
  <2>4. Reader(facts, u.id, doc.id) <=>
           \/ DepartmentViewer(facts, u.id, doc.scope)
           \/ u.role \in {"auditor", "finance"} /\ u.tenant = doc.tenant
    BY <1>1, <2>1 DEF Reader
  <2>5. Reader(facts, u.id, doc.id) <=>
                /\ u.tenant = doc.tenant
                /\ \/ u.role \in {"auditor", "finance"}
                   \/ u.role = "employee" /\ u.department = doc.scope
                   \/ u.role = "manager" /\ u.department \in Ancestry(facts, doc.scope)
    BY <1>2, <2>2, <2>3, <2>4
  <2> QED
    BY <1>4, <2>5 DEF facts
<1> QED
  BY <1>3, <1>4

----------------------------------------------------------------------------
(* Reporting lines. *)

LEMMA Chunk ==
    ASSUME NEW k \in Nat, NEW m \in Nat, NEW s \in Nat \ {0}, k <= m
    PROVE  k \div s \in 0..(m \div s)
<1>1. k \div s <= m \div s
  OBVIOUS
<1>2. k \div s >= 0
  OBVIOUS
<1>3. k \div s \in Int /\ m \div s \in Int
  OBVIOUS
<1> QED
  BY <1>1, <1>2, <1>3

(* A user's manager manages the user's department or its parent. *)
ManagedBy(w, u) ==
    \E v \in AllUsers(w) : /\ v.id = u.manager /\ v.role = "manager"
                           /\ v.department \in Ancestry(Seed(w), u.department)

LEMMA ManagerOf ==
    ASSUME NEW w \in Worlds, NEW u \in AllUsers(w), u.manager # None
    PROVE  ManagedBy(w, u)
<1>1. PICK t \in DOMAIN w : u \in Users(t, w[t].shape, w[t].tree)
  BY DEF AllUsers
<1> DEFINE tree == w[t].tree
           shape == w[t].shape
           n == NMembers(shape, tree)
<1>2. \A i, id, manager, role, grade :
         LET x == User(t, i, id, manager, role, grade)
         IN /\ x.id = id /\ x.tenant = TenantId(t) /\ x.department = DepartmentId(t, i)
            /\ x.role = role /\ x.manager = manager
  BY DEF User
<1>3. Users(t, shape, tree) \subseteq AllUsers(w)
  BY DEF AllUsers
<1>4. ASSUME NEW i \in DOMAIN tree
      PROVE  \E v \in AllUsers(w) : /\ v.id = HeadOf(t, i) /\ v.role = "manager"
                                    /\ v.department = DepartmentId(t, i)
  <2> DEFINE v == User(t, i, HeadOf(t, i), IF tree[i] = 0 THEN None ELSE HeadOf(t, tree[i]),
                       "manager", 5)
  <2>1. v \in Heads(t, tree)
    BY DEF Heads
  <2>2. v \in AllUsers(w)
    BY <2>1, <1>3 DEF Users
  <2>3. v.id = HeadOf(t, i) /\ v.role = "manager" /\ v.department = DepartmentId(t, i)
    BY <1>2
  <2> HIDE DEF v
  <2> QED
    BY <2>2, <2>3
<1>5. ASSUME NEW i \in DOMAIN tree, u.department = DepartmentId(t, i), u.manager = HeadOf(t, i)
      PROVE  ManagedBy(w, u)
  <2>1. u.department \in Ancestry(Seed(w), u.department)
    BY AncestryHolds
  <2> QED
    BY <2>1, <1>4, <1>5 DEF ManagedBy
<1>6. CASE u \in Heads(t, tree)
  <2>1. PICK i \in DOMAIN tree :
           u = User(t, i, HeadOf(t, i), IF tree[i] = 0 THEN None ELSE HeadOf(t, tree[i]), "manager", 5)
    BY <1>6 DEF Heads
  <2>2. /\ tree[i] # 0 /\ u.manager = HeadOf(t, tree[i])
        /\ u.department = DepartmentId(t, i)
    BY <1>2, <2>1
  <2>3. /\ tree[i] \in DOMAIN tree
        /\ DepartmentId(t, tree[i]) \in Subjects(Seed(w), "parent", DepartmentId(t, i))
    BY <2>2, SeedEdges
  <2>4. DepartmentId(t, tree[i]) \in Ancestry(Seed(w), u.department)
    BY <2>2, <2>3, AncestryOfParent
  <2> QED
    BY <2>2, <2>3, <2>4, <1>4 DEF ManagedBy
<1>7. CASE u \in Members(t, shape, tree)
  <2>1. PICK i \in DOMAIN tree, k \in 0..(n - 1) :
           u = User(t, i, UserId(t, i, "member", k), ChunkManager(t, i, k \div shape.span), "employee", 1)
    BY <1>7 DEF Members
  <2>2. u.manager = ChunkManager(t, i, k \div shape.span) /\ u.department = DepartmentId(t, i)
    BY <1>2, <2>1
  <2>3. CASE k \div shape.span = 0
    BY <2>2, <2>3, <1>5 DEF ChunkManager
  <2>4. CASE k \div shape.span # 0
    <3>1. shape["employees"] \in Nat \ {0} /\ shape["span"] \in Nat \ {0}
      BY WorldsAssumption
    <3>2. n - 1 \in Nat
      <4>1. 0..(n - 1) # {}
        BY <2>1
      <4>2. PICK m \in Nat \ {0} : DOMAIN tree = 1..m
        BY TreeShape
      <4>3. Cardinality(DOMAIN tree) = m
        BY <4>2, FS_Interval
      <4>4. shape.employees \div m \in Nat
        BY <3>1
      <4>5. n \in Nat
        BY <4>3, <4>4 DEF NMembers
      <4> QED
        BY <2>1, <4>5
    <3>3. k \div shape.span \in 0..((n - 1) \div shape.span)
      BY <3>1, <3>2, Chunk
    <3> DEFINE c == k \div shape.span
               v == User(t, i, ChunkManager(t, i, c), HeadOf(t, i), "manager", 4)
    <3>4. c \in 1..((n - 1) \div shape.span)
      BY <3>3, <2>4
    <3>5. v \in ChunkManagers(t, shape, tree)
      BY <3>4 DEF ChunkManagers
    <3>6. v \in AllUsers(w)
      BY <3>5, <1>3 DEF Users
    <3>7. v.id = u.manager /\ v.role = "manager" /\ v.department = u.department
      BY <1>2, <2>2
    <3>8. u.department \in Ancestry(Seed(w), u.department)
      BY AncestryHolds
    <3> HIDE DEF v
    <3> QED
      BY <3>6, <3>7, <3>8 DEF ManagedBy
  <2> QED
    BY <2>3, <2>4
<1>8. CASE u \in ChunkManagers(t, shape, tree)
  <2>1. PICK i \in DOMAIN tree, k \in 1..((n - 1) \div shape.span) :
           u = User(t, i, ChunkManager(t, i, k), HeadOf(t, i), "manager", 4)
    BY <1>8 DEF ChunkManagers
  <2> QED
    BY <1>2, <1>5, <2>1
<1>9. CASE u \in Personas(t)
  BY <1>2, <1>9 DEF Personas
<1> QED
  BY <1>1, <1>6, <1>7, <1>8, <1>9 DEF Users

LEMMA LineViews ==
    ASSUME NEW w \in Worlds, NEW u \in AllUsers(w), NEW m \in ReportingLine(AllUsers(w), u)
    PROVE  DepartmentViewer(Seed(w), m, u.department)
<1> DEFINE managed == {x \in AllUsers(w) : x.manager # None}
           managers == {x.manager : x \in managed}
           S == {e \in managers :
                    \E v \in AllUsers(w) : /\ v.id = e /\ v.role = "manager"
                                           /\ v.department \in Ancestry(Seed(w), u.department)}
<1>1. ASSUME NEW x \in managed, x.id \in {u.id} \cup S
      PROVE  x.manager \in S
  <2>1. PICK v \in AllUsers(w) : /\ v.id = x.manager /\ v.role = "manager"
                                 /\ v.department \in Ancestry(Seed(w), x.department)
    BY ManagerOf DEF ManagedBy
  <2>2. x.department \in Ancestry(Seed(w), u.department)
    <3>1. CASE x.id = u.id
      BY <3>1, UserById, AncestryHolds
    <3>2. CASE x.id \in S
      <4>1. PICK y \in AllUsers(w) :
               y.id = x.id /\ y.department \in Ancestry(Seed(w), u.department)
        BY <3>2
      <4> QED
        BY <4>1, UserById
    <3> QED
      BY <1>1, <3>1, <3>2
  <2>3. v.department \in Ancestry(Seed(w), u.department)
    BY <2>1, <2>2, AncestryPasses
  <2> QED
    BY <2>1, <2>3
<1>2. S \in SUBSET managers
  OBVIOUS
<1>3. m \in S
  BY <1>1, <1>2 DEF ReportingLine
<1>4. PICK v \in AllUsers(w) : /\ v.id = m /\ v.role = "manager"
                               /\ v.department \in Ancestry(Seed(w), u.department)
  BY <1>3
<1>5. Direct(Seed(w), m, "manager", v.department)
  BY <1>4, SeedDirect
<1> QED
  BY <1>4, <1>5 DEF DepartmentViewer, ManagerChain

----------------------------------------------------------------------------
(* The caps of a tenant. *)

Cap(t, kind, i, c, scope, from, to) ==
    [ref |-> <<kind, c>>, document |-> DocumentId(t, kind, i), tenant |-> TenantId(t),
     scope |-> scope, category |-> c, from |-> from, to |-> to]

LEMMA CapRules ==
    ASSUME NEW w \in Worlds, NEW t \in DOMAIN w, NEW c \in Categories, NEW r
    PROVE  r \in Rules(AllDocuments(w)) /\ r.tenant = TenantId(t) /\ r.category = c <=>
              \/ r = Cap(t, "global", 1, c, None, Start, Switch)
              \/ r = Cap(t, "global", 2, c, None, Switch, Forever)
              \/ /\ c \in AddendumCaps
                 /\ \E i \in w[t].addenda :
                       r = Cap(t, "addendum", i, c, DepartmentId(t, i), Start, Forever)
<1> DEFINE RuleFor(doc, k) ==
              [ref |-> <<doc.id[2][2], k>>, document |-> doc.id, tenant |-> doc.tenant,
               scope |-> doc.scope, category |-> k, from |-> doc.from, to |-> doc.to]
<1>0. \A x : x \in Rules(AllDocuments(w)) <=>
                \E doc \in AllDocuments(w) : \E k \in Capped(doc) : x = RuleFor(doc, k)
  BY DEF Rules
<1>1. \A kind, i, scope, from, to :
         LET d == Document(t, kind, i, scope, from, to)
         IN /\ d.id[2][2] = kind /\ d.id = DocumentId(t, kind, i)
            /\ d.tenant = TenantId(t)
            /\ d.scope = scope /\ d.from = from /\ d.to = to
  BY DEF Document, DocumentId, Obj
<1>2. \A kind, i, scope, from, to, k :
         RuleFor(Document(t, kind, i, scope, from, to), k) = Cap(t, kind, i, k, scope, from, to)
  BY <1>1 DEF Cap
<1>3. \A kind, i, scope, from, to :
         LET d == Document(t, kind, i, scope, from, to)
         IN Capped(d) = IF kind = "global" THEN Categories \cup {"none"}
                        ELSE IF kind = "addendum" THEN AddendumCaps ELSE {"none"}
  BY <1>1 DEF Capped
<1>4. \A doc, k : RuleFor(doc, k).tenant = doc.tenant /\ RuleFor(doc, k).category = k
  OBVIOUS
<1>5. \A doc : doc \in AllDocuments(w) /\ doc.tenant = TenantId(t) <=>
               doc \in Documents(t, w[t].addenda)
  <2> SUFFICES ASSUME NEW doc
               PROVE  doc \in AllDocuments(w) /\ doc.tenant = TenantId(t) <=>
                      doc \in Documents(t, w[t].addenda)
    OBVIOUS
  <2>1. ASSUME NEW s \in DOMAIN w, doc \in Documents(s, w[s].addenda)
        PROVE  doc.tenant = TenantId(s)
    BY <2>1 DEF Documents, Document
  <2> QED
    BY <2>1, Ids DEF AllDocuments
<1>6. \A k, kind, i, scope, from, to :
         LET r1 == Cap(t, kind, i, k, scope, from, to)
         IN r1.tenant = TenantId(t) /\ r1.category = k
  BY DEF Cap
<1>7. \A doc : doc \in Documents(t, w[t].addenda) <=>
          \/ doc = Document(t, "global", 1, None, Start, Switch)
          \/ doc = Document(t, "global", 2, None, Switch, Forever)
          \/ \E i \in w[t].addenda :
                doc = Document(t, "addendum", i, DepartmentId(t, i), Start, Forever)
          \/ doc = Document(t, "tax", 0, None, Start, Forever)
          \/ doc = Document(t, "authority", 0, None, Start, Forever)
  BY DEF Documents
<1>8. c # "none"
  BY WorldAssumption
<1> HIDE DEF RuleFor
<1>9. ASSUME r \in Rules(AllDocuments(w)), r.tenant = TenantId(t), r.category = c
      PROVE  \/ r = Cap(t, "global", 1, c, None, Start, Switch)
             \/ r = Cap(t, "global", 2, c, None, Switch, Forever)
             \/ /\ c \in AddendumCaps
                /\ \E i \in w[t].addenda :
                      r = Cap(t, "addendum", i, c, DepartmentId(t, i), Start, Forever)
  <2>1. PICK doc \in AllDocuments(w) : c \in Capped(doc) /\ r = RuleFor(doc, c)
    BY <1>0, <1>4, <1>9
  <2>2. doc \in Documents(t, w[t].addenda)
    BY <1>4, <1>5, <1>9, <2>1
  <2> QED
    BY <1>2, <1>3, <1>7, <1>8, <2>1, <2>2
<1>10. ASSUME NEW doc \in Documents(t, w[t].addenda), c \in Capped(doc)
       PROVE  RuleFor(doc, c) \in Rules(AllDocuments(w))
  BY <1>0, <1>5, <1>10
<1>11. ASSUME \/ r = Cap(t, "global", 1, c, None, Start, Switch)
              \/ r = Cap(t, "global", 2, c, None, Switch, Forever)
       PROVE  r \in Rules(AllDocuments(w))
  BY <1>2, <1>3, <1>7, <1>10, <1>11
<1>12. ASSUME c \in AddendumCaps, NEW i \in w[t].addenda,
              r = Cap(t, "addendum", i, c, DepartmentId(t, i), Start, Forever)
       PROVE  r \in Rules(AllDocuments(w))
  BY <1>2, <1>3, <1>7, <1>10, <1>12
<1> QED
  BY <1>6, <1>9, <1>11, <1>12

(* The rules of the tenant of a user. *)
Own(w, u, own) == \A rule : rule \in own <=> rule \in Rules(AllDocuments(w)) /\ rule.tenant = u.tenant

(* One cap applies, and the user may read the document it is in. *)
OneCap(w, u, c, d, own) ==
    \E r : /\ ApplicableCap(own, c, u.department, d) = {r} /\ r \in Rules(AllDocuments(w))
           /\ r.tenant = u.tenant /\ Live(r, d)
           /\ \E doc \in AllDocuments(w) :
                 doc.id = r.document /\ Reader(Seed(w), u.id, doc.id)

LEMMA CapFound ==
    ASSUME NEW w \in Worlds, NEW u \in AllUsers(w), u.role \in {"employee", "manager"},
           NEW c \in Categories, NEW d \in Int, Start <= d, d < Forever,
           NEW own, Own(w, u, own)
    PROVE  OneCap(w, u, c, d, own)
<1> USE DEF Own
<1> DEFINE rules == Rules(AllDocuments(w))
           live == {r \in own : r.category = c /\ Live(r, d)}
           scoped == {r \in live : r.scope = u.department}
           caps == ApplicableCap(own, c, u.department, d)
<1>1. PICK t, i : t \in DOMAIN w /\ u.tenant = TenantId(t) /\ u.department = DepartmentId(t, i)
  BY UserRows DEF UserRow
<1> DEFINE G1 == Cap(t, "global", 1, c, None, Start, Switch)
           G2 == Cap(t, "global", 2, c, None, Switch, Forever)
           Add(j) == Cap(t, "addendum", j, c, DepartmentId(t, j), Start, Forever)
<1>2. \A r : r \in live <=> Live(r, d) /\ \/ r = G1 \/ r = G2
                                          \/ c \in AddendumCaps /\ \E j \in w[t].addenda : r = Add(j)
  <2>1. \A r : r \in live <=> r \in rules /\ r.tenant = TenantId(t) /\ r.category = c /\ Live(r, d)
    BY <1>1
  <2> HIDE DEF live, G1, G2, Add, rules
  <2> QED
    BY <1>1, <2>1, CapRules DEF rules, G1, G2, Add
<1>3. /\ Live(G1, d) <=> d < Switch
      /\ Live(G2, d) <=> ~(d < Switch)
      /\ \A j : Live(Add(j), d)
  BY WorldAssumption DEF Live, Cap, Forever
<1>4. /\ G1.scope = None /\ G2.scope = None
      /\ G1.document = DocumentId(t, "global", 1) /\ G2.document = DocumentId(t, "global", 2)
      /\ \A j : Add(j).scope = DepartmentId(t, j) /\ Add(j).document = DocumentId(t, "addendum", j)
  BY DEF Cap
<1>5. u.department # None /\ \A j : DepartmentId(t, j) # None
  BY <1>1, Types
<1>6. caps = IF scoped # {} THEN scoped ELSE {r \in live : r.scope = None}
  BY DEF ApplicableCap
<1>7. \A kind, j, scope, from, to :
         LET doc == Document(t, kind, j, scope, from, to)
         IN /\ doc.id = DocumentId(t, kind, j) /\ doc.tenant = TenantId(t) /\ doc.scope = scope
  BY DEF Document
<1>8. \A doc \in AllDocuments(w) :
         doc.tenant = u.tenant /\ (doc.scope = None \/ doc.scope = u.department)
            => Reader(Seed(w), u.id, doc.id)
  BY SeedReader, AncestryHolds
<1>9. /\ Document(t, "global", 1, None, Start, Switch) \in AllDocuments(w)
      /\ Document(t, "global", 2, None, Switch, Forever) \in AllDocuments(w)
      /\ \A j \in w[t].addenda :
            Document(t, "addendum", j, DepartmentId(t, j), Start, Forever) \in AllDocuments(w)
  BY <1>1 DEF AllDocuments, Documents
<1> HIDE DEF rules
<1>10. \A r \in live : r \in rules /\ r.tenant = u.tenant /\ Live(r, d)
  BY DEF rules
<1> HIDE DEF live, scoped, caps, G1, G2, Add
<1>11. CASE c \in AddendumCaps /\ i \in w[t].addenda
  <2>1. scoped = {Add(i)}
    <3>1. Add(i) \in scoped
      BY <1>1, <1>2, <1>3, <1>4, <1>11 DEF scoped
    <3>2. ASSUME NEW r \in scoped PROVE r = Add(i)
      BY <1>1, <1>2, <1>4, <1>5, Ids DEF scoped
    <3> QED
      BY <3>1, <3>2
  <2>2. caps = {Add(i)} /\ Add(i) \in live
    BY <1>6, <2>1 DEF scoped
  <2> DEFINE doc == Document(t, "addendum", i, DepartmentId(t, i), Start, Forever)
  <2>3. doc \in AllDocuments(w) /\ doc.id = Add(i).document /\ Reader(Seed(w), u.id, doc.id)
    BY <1>1, <1>4, <1>7, <1>8, <1>9, <1>11
  <2> HIDE DEF doc
  <2> QED
    BY <2>2, <2>3, <1>10 DEF caps, rules, OneCap
<1>12. CASE ~(c \in AddendumCaps /\ i \in w[t].addenda)
  <2>1. scoped = {}
    <3> SUFFICES ASSUME NEW r \in scoped PROVE FALSE
      OBVIOUS
    <3>1. r \in live /\ r.scope = DepartmentId(t, i)
      BY <1>1 DEF scoped
    <3>2. PICK j \in w[t].addenda : c \in AddendumCaps /\ r = Add(j)
      BY <1>2, <1>4, <1>5, <3>1
    <3> QED
      BY <1>4, <1>12, <3>1, <3>2, Ids
  <2>2. \A r : r \in caps <=> r \in live /\ r.scope = None
    BY <1>6, <2>1
  <2>3. \A r : r \in caps <=> r = IF d < Switch THEN G1 ELSE G2
    BY <1>2, <1>3, <1>4, <1>5, <2>2
  <2>4. CASE d < Switch
    <3> DEFINE doc == Document(t, "global", 1, None, Start, Switch)
    <3>1. caps = {G1} /\ G1 \in live
      BY <2>2, <2>3, <2>4
    <3>2. doc \in AllDocuments(w) /\ doc.id = G1.document /\ Reader(Seed(w), u.id, doc.id)
      BY <1>1, <1>4, <1>7, <1>8, <1>9
    <3> HIDE DEF doc
    <3> QED
      BY <3>1, <3>2, <1>10 DEF caps, rules, OneCap
  <2>5. CASE ~(d < Switch)
    <3> DEFINE doc == Document(t, "global", 2, None, Switch, Forever)
    <3>1. caps = {G2} /\ G2 \in live
      BY <2>2, <2>3, <2>5
    <3>2. doc \in AllDocuments(w) /\ doc.id = G2.document /\ Reader(Seed(w), u.id, doc.id)
      BY <1>1, <1>4, <1>7, <1>8, <1>9
    <3> HIDE DEF doc
    <3> QED
      BY <3>1, <3>2, <1>10 DEF caps, rules, OneCap
  <2> QED
    BY <2>4, <2>5
<1> QED
  BY <1>11, <1>12

----------------------------------------------------------------------------
(* The tuples of a filing. *)

(* The j-th tuple is one of the three of an expense. *)
LEMMA FilingTuple ==
    /\ Filings \in Seq(Range(Filings)) /\ Len(Filings) \in Nat /\ DOMAIN Filings = 1..Len(Filings)
    /\ Len(FilingTuples) = 3 * Len(Filings) /\ DOMAIN FilingTuples = 1..Len(FilingTuples)
    /\ \A i \in DOMAIN Filings : \A k \in 1..3 :
          /\ 3 * (i - 1) + k \in DOMAIN FilingTuples
          /\ FilingTuples[3 * (i - 1) + k] = ExpenseTuples(Filings[i])[k]
    /\ \A j \in DOMAIN FilingTuples : \E i \in DOMAIN Filings : \E k \in 1..3 : j = 3 * (i - 1) + k
<1>1. Filings \in Seq(Range(Filings)) /\ Len(Filings) \in Nat /\ DOMAIN Filings = 1..Len(Filings)
  BY TuplesAssumption
<1> DEFINE n == Len(Filings)
<1>2. Len(FilingTuples) = 3 * n /\ DOMAIN FilingTuples = 1..(3 * n)
  <2>1. 3 * n \in Nat
    BY <1>1
  <2> QED
    BY <2>1 DEF FilingTuples
<1>3. ASSUME NEW i \in 1..n, NEW k \in 1..3
      PROVE  /\ 3 * (i - 1) + k \in 1..(3 * n)
             /\ FilingTuples[3 * (i - 1) + k] = ExpenseTuples(Filings[i])[k]
  <2> DEFINE j == 3 * (i - 1) + k
  <2>1. n \in Nat /\ i \in Int /\ k \in Int /\ 1 <= i /\ i <= n /\ 1 <= k /\ k <= 3
    BY <1>1
  <2>2. j \in 1..(3 * n)
    BY <2>1
  <2>3. (j - 1) \div 3 + 1 = i /\ ((j - 1) % 3) + 1 = k
    BY <2>1
  <2>4. FilingTuples[j] = ExpenseTuples(Filings[(j - 1) \div 3 + 1])[((j - 1) % 3) + 1]
    BY <2>2 DEF FilingTuples
  <2> QED
    BY <2>2, <2>3, <2>4
<1>4. ASSUME NEW j \in 1..(3 * n)
      PROVE  \E i \in 1..n : \E k \in 1..3 : j = 3 * (i - 1) + k
  <2>1. n \in Nat /\ j \in Int /\ 1 <= j /\ j <= 3 * n
    BY <1>1
  <2> DEFINE i == (j - 1) \div 3 + 1
             k == ((j - 1) % 3) + 1
  <2>2. i \in 1..n
    BY <2>1
  <2>3. k \in 1..3
    BY <2>1
  <2>4. j = 3 * (i - 1) + k
    BY <2>1
  <2> HIDE DEF i, k
  <2> QED
    BY <2>2, <2>3, <2>4
<1> HIDE DEF n
<1> QED
  BY <1>1, <1>2, <1>3, <1>4 DEF n

(* The three tuples are about the expense and about nothing else. *)
LEMMA ExpenseFiled ==
    ASSUME NEW x
    PROVE  /\ ExpenseTuples(x)[1] = Tuple(x.tenant, "tenant", x.id)
           /\ ExpenseTuples(x)[2] = Tuple(x.owner, "owner", x.id)
           /\ ExpenseTuples(x)[3] = Tuple(x.department, "department", x.id)
           /\ \A k \in 1..3 : /\ ExpenseTuples(x)[k].object = x.id
                              /\ ExpenseTuples(x)[k].relation \in {"tenant", "owner", "department"}
                              /\ \E u, r : ExpenseTuples(x)[k] = Tuple(u, r, x.id)
<1>1. /\ ExpenseTuples(x)[1] = Tuple(x.tenant, "tenant", x.id)
      /\ ExpenseTuples(x)[2] = Tuple(x.owner, "owner", x.id)
      /\ ExpenseTuples(x)[3] = Tuple(x.department, "department", x.id)
  BY DEF ExpenseTuples
<1>2. \A k \in 1..3 : k = 1 \/ k = 2 \/ k = 3
  OBVIOUS
<1> QED
  BY <1>1, <1>2, Tuples

(* What is written once the first n tuples are. *)
Filed(n) == {FilingTuples[j] : j \in 1..n}

LEMMA FiledShape ==
    ASSUME NEW n \in 0..Len(FilingTuples), NEW y \in Filed(n)
    PROVE  /\ TypeOf(y.object) = "expense"
           /\ y.relation \in {"tenant", "owner", "department"}
           /\ \E u, r, o : y = Tuple(u, r, o)
<1>1. PICK j \in 1..n : y = FilingTuples[j]
  BY DEF Filed
<1>2. j \in DOMAIN FilingTuples
  BY FilingTuple
<1>3. PICK i \in DOMAIN Filings, k \in 1..3 : j = 3 * (i - 1) + k
  BY <1>2, FilingTuple
<1>4. y = ExpenseTuples(Filings[i])[k]
  BY <1>1, <1>3, FilingTuple
<1> QED
  BY <1>4, ExpenseFiled, TuplesAssumption

LEMMA FiledAll == Remote!Elements(FilingTuples) = Filed(Len(FilingTuples))
  BY FilingTuple DEF Remote!Elements, Filed

(* No tuple of a seed is about an expense. *)
LEMMA SeedObjects ==
    ASSUME NEW w \in Worlds, NEW y \in Seed(w)
    PROVE  /\ TypeOf(y.object) \in {"tenant", "department", "policy_document"}
           /\ TypeOf(y.object) = "policy_document" => \E doc \in AllDocuments(w) : y.object = doc.id
           /\ y.relation \in {"tenant", "scope", "tenant_scope"} =>
                 \/ \E d \in AllDepartments(w) : y.object = d.id
                 \/ \E doc \in AllDocuments(w) : y.object = doc.id
           /\ \E u, r, o : y = Tuple(u, r, o)
<1>1. SeedTuple(w, y)
  BY SeedTuples
<1>2. /\ \A d \in AllDepartments(w) : TypeOf(d.id) = "department"
      /\ \A u \in AllUsers(w) : TypeOf(u.department) = "department" /\ TypeOf(u.tenant) = "tenant"
      /\ \A doc \in AllDocuments(w) : TypeOf(doc.id) = "policy_document"
  BY SeedTyped
<1>3. \E u, r, o : y = Tuple(u, r, o)
  BY <1>1 DEF SeedTuple
<1>4. /\ TypeOf(y.object) \in {"tenant", "department", "policy_document"}
      /\ TypeOf(y.object) = "policy_document" => \E doc \in AllDocuments(w) : y.object = doc.id
  BY <1>1, <1>2, Tuples DEF SeedTuple
<1>5. y.relation \in {"tenant", "scope", "tenant_scope"} =>
                 \/ \E d \in AllDepartments(w) : y.object = d.id
                 \/ \E doc \in AllDocuments(w) : y.object = doc.id
  BY <1>1, Tuples DEF SeedTuple
<1> QED
  BY <1>3, <1>4, <1>5

(* A batch carries the next tuples of the list. *)
LEMMA BatchFiles ==
    ASSUME NEW n \in Nat, n < Len(FilingTuples), Remote!BatchAssumption
    PROVE  LET m == IF n + BatchSize < Len(FilingTuples) THEN n + BatchSize ELSE Len(FilingTuples)
           IN /\ m \in 1..Len(FilingTuples) /\ n < m
              /\ Remote!Elements(Remote!BatchOf(FilingTuples, n)) = {FilingTuples[j] : j \in (n + 1)..m}
<1> DEFINE m == IF n + BatchSize < Len(FilingTuples) THEN n + BatchSize ELSE Len(FilingTuples)
           s == SubSeq(FilingTuples, n + 1, m)
<1>1. /\ Len(FilingTuples) \in Nat /\ DOMAIN FilingTuples = 1..Len(FilingTuples)
      /\ BatchSize \in Nat \ {0}
  BY FilingTuple DEF Remote!BatchAssumption
<1>2. m \in 1..Len(FilingTuples) /\ n < m
  BY <1>1
<1>3. FilingTuples \in Seq({FilingTuples[j] : j \in DOMAIN FilingTuples})
  <2> DEFINE S == {FilingTuples[j] : j \in DOMAIN FilingTuples}
  <2>1. FilingTuples = [j \in DOMAIN FilingTuples |-> FilingTuples[j]]
    BY DEF FilingTuples
  <2>2. \A j \in DOMAIN FilingTuples : FilingTuples[j] \in S
    OBVIOUS
  <2> HIDE DEF S
  <2>3. FilingTuples \in [1..Len(FilingTuples) -> S]
    BY <1>1, <2>1, <2>2
  <2>4. FilingTuples \in Seq(S)
    BY <1>1, <2>3
  <2> QED
    BY <2>4 DEF S
<1> HIDE DEF m
<1>4. DOMAIN s = 1..(m - n) /\ \A i \in 1..(m - n) : s[i] = FilingTuples[n + i]
  BY <1>1, <1>2, <1>3
<1>5. Remote!BatchOf(FilingTuples, n) = s
  BY DEF Remote!BatchOf, m
<1>6. {s[i] : i \in 1..(m - n)} = {FilingTuples[j] : j \in (n + 1)..m}
  <2>1. ASSUME NEW i \in 1..(m - n)
        PROVE  n + i \in (n + 1)..m /\ s[i] = FilingTuples[n + i]
    BY <1>1, <1>2, <1>4
  <2>2. ASSUME NEW j \in (n + 1)..m
        PROVE  j - n \in 1..(m - n) /\ s[j - n] = FilingTuples[j]
    <3>1. j - n \in 1..(m - n) /\ n + (j - n) = j
      BY <1>1, <1>2
    <3> QED
      BY <3>1, <1>4
  <2> HIDE DEF s
  <2> QED
    BY <2>1, <2>2
<1> HIDE DEF s
<1>7. Remote!Elements(s) = {FilingTuples[j] : j \in (n + 1)..m}
  BY <1>4, <1>6 DEF Remote!Elements
<1> QED
  BY <1>2, <1>5, <1>7 DEF m

----------------------------------------------------------------------------
(* Answers. *)

(* What is indexed is what the generator drew: a seed with a malformed row *)
(* is refused as a whole.                                                  *)
IndexIsSeed == index = {} \/ index = Rules(AllDocuments(world))

(* There are chunks only in an answer, and they were searched for.         *)
ChunksSearched ==
    /\ stage # "answered" => chunks = {}
    /\ chunks \subseteq Searchable(asker, day, allowed)

AnswerInv == IndexIsSeed /\ ChunksSearched /\ day \in Int

LEMMA AnswerInit == Init => AnswerInv
  BY WorldAssumption DEF Init, AnswerInv, IndexIsSeed, ChunksSearched

(* A malformed document or user never gets past Build. *)
LEMMA BuiltFromWorld ==
    ASSUME ~Malformed(SeedUsers, SeedDocuments)
    PROVE  SeedDocuments = AllDocuments(world)
<1>1. SUFFICES ASSUME badRow = "scope" PROVE FALSE
  BY DEF SeedDocuments
<1>2. Leaky \in SeedDocuments
  BY <1>1 DEF SeedDocuments
<1>3. ScopeTuple(Leaky) = Tuple(Blank, "scope", Leaky.id)
  BY DEF ScopeTuple, Leaky, Document, Blank, None, Obj
<1> QED
  BY <1>2, <1>3 DEF Malformed

(* A search returns chunks it may rank. *)
LEMMA BestIsSearchable == ASSUME NEW S, NEW B \in Best(S) PROVE B \subseteq S
  BY DEF Best, kSubset

LEMMA AnswerStep == AnswerInv /\ [Next]_vars => AnswerInv'
<1> SUFFICES ASSUME AnswerInv, [Next]_vars
             PROVE  AnswerInv'
  OBVIOUS
<1> USE DEF AnswerInv
<1>1. CASE Build
  <2>1. index' = Rules(AllDocuments(world')) /\ chunks' = {}
    BY <1>1, BuiltFromWorld DEF Build, ChunksSearched
  <2>2. day' = day
    BY <1>1 DEF Build
  <2> QED
    BY <2>1, <2>2 DEF IndexIsSeed, ChunksSearched
<1>2. CASE BuildFails
  BY <1>2 DEF BuildFails, IndexIsSeed, ChunksSearched
<1>3. CASE Mutate \/ File
  BY <1>3 DEF Mutate, File, request, IndexIsSeed, ChunksSearched, Searchable
<1>4. ASSUME NEW p \in Askers, NEW d \in Days, Retrieve(p, d) \/ RetrieveRaises(p, d)
      PROVE  AnswerInv'
  <2>1. /\ chunks = {} /\ chunks' = {}
        /\ UNCHANGED <<index, world>>
        /\ day' = d /\ d \in Int
    BY <1>4, AccessAssumption DEF Retrieve, RetrieveRaises, Begins, ChunksSearched
  <2> QED
    BY <2>1 DEF IndexIsSeed, ChunksSearched
<1>5. CASE Search
  <2>1. /\ chunks' \subseteq Searchable(asker, day, allowed)
        /\ stage' = "answered"
        /\ UNCHANGED <<index, world, asker, day, allowed>>
    BY <1>5, BestIsSearchable DEF Search
  <2> QED
    BY <2>1 DEF IndexIsSeed, ChunksSearched, Searchable
<1>6. CASE Return
  BY <1>6, WorldAssumption DEF Return, IndexIsSeed, ChunksSearched
<1>7. CASE UNCHANGED vars
  BY <1>7 DEF vars, request, IndexIsSeed, ChunksSearched, Searchable
<1> QED
  BY <1>1, <1>2, <1>3, <1>4, <1>5, <1>6, <1>7 DEF Next

----------------------------------------------------------------------------
(* A rule names its document by the tenant, the kind and the department or *)
(* version.                                                                *)
RuleOf(rule, t, kind, i) ==
    /\ rule.tenant = TenantId(t)
    /\ rule.ref[1] = kind
    /\ rule.document = DocumentId(t, kind, i)
    /\ \/ kind = "global" /\ i = 1 /\ rule.to = Switch
       \/ kind = "global" /\ i = 2 /\ rule.from = Switch
       \/ kind = "addendum" /\ rule.scope = DepartmentId(t, i)
       \/ kind \in {"tax", "authority"} /\ i = 0

LEMMA RuleShape ==
    ASSUME NEW w, NEW rule \in Rules(AllDocuments(w))
    PROVE  \E t, kind, i : RuleOf(rule, t, kind, i)
<1>1. PICK doc \in AllDocuments(w) :
         rule \in {[ref |-> <<doc.id[2][2], c>>, document |-> doc.id,
                    tenant |-> doc.tenant, scope |-> doc.scope, category |-> c,
                    from |-> doc.from, to |-> doc.to] : c \in Capped(doc)}
  BY DEF Rules
<1>2. /\ rule.tenant = doc.tenant
      /\ rule.ref[1] = doc.id[2][2]
      /\ rule.document = doc.id
      /\ rule.scope = doc.scope /\ rule.from = doc.from /\ rule.to = doc.to
  BY <1>1
<1>3. PICK t \in DOMAIN w : doc \in Documents(t, w[t].addenda)
  BY DEF AllDocuments
<1>4. /\ \A kind, i, scope, from, to :
             LET d == Document(t, kind, i, scope, from, to)
             IN /\ d.id[2][2] = kind /\ d.id = DocumentId(t, kind, i)
                /\ d.tenant = TenantId(t)
                /\ d.scope = scope /\ d.from = from /\ d.to = to
  BY DEF Document, DocumentId, Obj
<1>5. CASE doc = Document(t, "global", 1, None, Start, Switch)
  BY <1>2, <1>4, <1>5 DEF RuleOf
<1>6. CASE doc = Document(t, "global", 2, None, Switch, Forever)
  BY <1>2, <1>4, <1>6 DEF RuleOf
<1>7. ASSUME NEW i \in w[t].addenda,
             doc = Document(t, "addendum", i, DepartmentId(t, i), Start, Forever)
      PROVE  RuleOf(rule, t, "addendum", i)
  BY <1>2, <1>4, <1>7 DEF RuleOf
<1>8. ASSUME NEW kind \in {"tax", "authority"},
             doc = Document(t, kind, 0, None, Start, Forever)
      PROVE  RuleOf(rule, t, kind, 0)
  BY <1>2, <1>4, <1>8 DEF RuleOf
<1> QED
  BY <1>3, <1>5, <1>6, <1>7, <1>8 DEF Documents

(* Two rules of one tenant with one reference and one scope, in force on   *)
(* the same day, are of one document: the two versions of the global       *)
(* policy meet on the switch and no day is in both.                        *)
LEMMA OneVersion ==
    ASSUME NEW w, NEW c \in Rules(AllDocuments(w)), NEW e \in Rules(AllDocuments(w)),
           NEW d \in Int, Live(c, d), Live(e, d),
           c.tenant = e.tenant, c.ref = e.ref, c.scope = e.scope
    PROVE  c.document = e.document
<1>1. PICK t, kind, i : RuleOf(c, t, kind, i)
  BY RuleShape
<1>2. PICK u, class, j : RuleOf(e, u, class, j)
  BY RuleShape
<1>3. t = u /\ kind = class
  <2>1. TenantId(t) = TenantId(u) /\ kind = class
    BY <1>1, <1>2 DEF RuleOf
  <2>2. <<t>> = <<u>>
    BY <2>1 DEF TenantId, Obj
  <2> QED
    BY <2>1, <2>2
<1>4. CASE kind = "global"
  <2>1. i = j
    BY <1>1, <1>2, <1>3, <1>4, WorldAssumption DEF RuleOf, Live
  <2> QED
    BY <1>1, <1>2, <1>3, <2>1 DEF RuleOf
<1>5. CASE kind = "addendum"
  <2>1. DepartmentId(t, i) = DepartmentId(t, j)
    BY <1>1, <1>2, <1>3, <1>5 DEF RuleOf
  <2>2. i = j
    BY <2>1 DEF DepartmentId, Obj
  <2> QED
    BY <1>1, <1>2, <1>3, <2>2 DEF RuleOf
<1>6. CASE kind \in {"tax", "authority"}
  BY <1>1, <1>2, <1>3, <1>6 DEF RuleOf
<1> QED
  BY <1>1, <1>4, <1>5, <1>6 DEF RuleOf

(* An answer never rests on two versions of one rule or on a rule of       *)
(* another tenant, in every world the generator can draw, with either      *)
(* store and whatever it answered.                                         *)
THEOREM OneVersionOneTenantHolds == Spec => []OneVersionOneTenant
<1>1. AnswerInv => OneVersionOneTenant
  <2> SUFFICES ASSUME AnswerInv, NEW c \in chunks, NEW e \in chunks
               PROVE  /\ c.tenant = asker.tenant
                      /\ c.ref = e.ref /\ c.scope = e.scope => c.document = e.document
    BY DEF OneVersionOneTenant
  <2>1. /\ c \in index /\ c.tenant = asker.tenant /\ Live(c, day)
        /\ e \in index /\ e.tenant = asker.tenant /\ Live(e, day)
    BY DEF AnswerInv, ChunksSearched, Searchable
  <2>2. index = Rules(AllDocuments(world)) /\ day \in Int
    BY <2>1 DEF AnswerInv, IndexIsSeed
  <2> QED
    BY <2>1, <2>2, OneVersion
<1> QED
  BY <1>1, AnswerInit, AnswerStep, PTL DEF Spec

----------------------------------------------------------------------------
(* The stores. *)

Started == stage \notin {"down", "failed"}

(* Before a world is built, and for ever when it is refused. *)
Empty ==
    /\ direct = {} /\ structural = {} /\ indexed = {} /\ available = TRUE
    /\ remote = {} /\ list = <<>> /\ next = 0 /\ writing = "idle"
    /\ index = {} /\ told = {}

(* The local store holds what it was told, each tuple on its side, and     *)
(* knows the objects a listing has to look at.                             *)
LocalInv ==
    /\ told = direct \cup structural
    /\ told \subseteq Seed(world) \cup Toggles
    /\ \A t \in structural : t.relation \in Local!Structural
    /\ \A t \in direct : t.relation \notin Local!Structural
    /\ \A t \in structural : t.relation \in {"tenant", "scope", "tenant_scope"} => t.object \in indexed
    /\ indexed \subseteq Probes
    /\ available \in BOOLEAN
    /\ remote = {} /\ list = <<>> /\ next = 0 /\ writing = "idle"

(* The server holds the seed and the first n tuples of the filing; a call  *)
(* under way has written them, or begins again after one that failed.      *)
FiledTo(n) ==
    /\ remote = Seed(world) \cup Filed(n)
    /\ writing = "writing" =>
          /\ list = FilingTuples
          /\ \/ n = IF next < Len(FilingTuples) THEN next ELSE Len(FilingTuples)
             \/ next = 0 /\ n > 0

RemoteInv ==
    /\ told = remote
    /\ direct = {} /\ structural = {} /\ indexed = {} /\ available = TRUE
    /\ list \in {<<>>, FilingTuples}
    /\ next \in 0..(Len(list) + BatchSize)
    /\ writing \in {"idle", "writing", "ok", "failclosed", "rejected"}
    /\ \E n \in 0..Len(FilingTuples) : FiledTo(n)

StoreInv ==
    /\ world \in Worlds
    /\ backend \in {"local", "openfga"}
    /\ stage \in {"down", "failed", "idle", "listed", "answered", "raised"}
    /\ ~Started => Empty
    /\ Started => /\ index = Rules(AllDocuments(world))
                  /\ IF backend = "local" THEN LocalInv ELSE RemoteInv
    /\ allowed \subseteq Probes

----------------------------------------------------------------------------
LEMMA StoreInit == Init => StoreInv
  BY DEF Init, StoreInv, Started, Empty

LEMMA ProbesFixed == ASSUME world' = world PROVE Probes' = Probes
  BY DEF Probes, AllDepartments, AllDocuments

LEMMA SeedProbed ==
    ASSUME world \in Worlds, NEW y \in Seed(world),
           y.relation \in {"tenant", "scope", "tenant_scope"} \/ TypeOf(y.object) = "policy_document"
    PROVE  y.object \in Probes
  BY SeedObjects DEF Probes

LEMMA BuildStep == StoreInv /\ Build => StoreInv'
<1> SUFFICES ASSUME StoreInv, Build PROVE StoreInv'
  OBVIOUS
<1>1. /\ ~Malformed(SeedUsers, SeedDocuments) /\ stage = "down" /\ stage' = "idle"
      /\ index' = Rules(SeedDocuments)
      /\ UNCHANGED <<world, backend, list, next, writing, allowed>>
  BY DEF Build
<1>2. SeedDocuments = AllDocuments(world)
  BY <1>1, BuiltFromWorld
<1>3. SeedUsers = AllUsers(world)
  <2>1. SUFFICES ASSUME badRow = "role" PROVE FALSE
    BY DEF SeedUsers
  <2>2. Stray \in SeedUsers /\ Stray.role \notin Roles
    BY <2>1 DEF SeedUsers, Stray, User, Roles
  <2> QED
    BY <1>1, <2>2 DEF Malformed
<1> DEFINE tuples == BuildTuples(AllDepartments(world), SeedUsers, SeedDocuments)
<1>4. tuples = Seed(world)
  BY <1>2, <1>3 DEF Seed
<1>5. /\ told' = tuples
      /\ IF backend = "local" THEN Local!Load(tuples) /\ UNCHANGED remote
         ELSE remote' = tuples /\ UNCHANGED store
  BY DEF Build
<1> HIDE DEF tuples
<1>6. Empty /\ world \in Worlds
  BY <1>1 DEF StoreInv, Started
<1>7. Seed(world)' = Seed(world) /\ Probes' = Probes /\ AllDocuments(world)' = AllDocuments(world)
  BY <1>1, ProbesFixed DEF Seed, AllDocuments, AllUsers, AllDepartments
<1>8. CASE backend = "local"
  <2>1. /\ structural' = {t \in Seed(world) : t.relation \in Local!Structural}
        /\ direct' = {t \in Seed(world) : t.relation \notin Local!Structural}
        /\ indexed' = {t.object : t \in {x \in Seed(world) :
                                    x.relation \in {"tenant", "scope", "tenant_scope"}}}
        /\ available' = TRUE /\ told' = Seed(world) /\ remote' = {}
    BY <1>4, <1>5, <1>6, <1>8 DEF Local!Load, Empty
  <2>2. indexed' \subseteq Probes
    BY <1>6, <2>1, SeedProbed
  <2>3. LocalInv'
    BY <1>1, <1>6, <1>7, <2>1, <2>2 DEF LocalInv, Empty
  <2> QED
    BY <1>1, <1>2, <1>7, <1>8, <2>3 DEF StoreInv, Started
<1>9. CASE backend = "openfga"
  <2>1. told' = Seed(world) /\ remote' = Seed(world) /\ UNCHANGED store
    BY <1>4, <1>5, <1>9
  <2>2. Filed(0) = {} /\ 0 \in 0..Len(FilingTuples)
    BY FilingTuple DEF Filed
  <2>3. FiledTo(0)'
    BY <1>1, <1>6, <1>7, <2>1, <2>2 DEF FiledTo, Empty
  <2>4. RemoteInv'
    BY <1>1, <1>6, <2>1, <2>2, <2>3, AccessAssumption
    DEF RemoteInv, Empty, store, Remote!BatchAssumption
  <2> QED
    BY <1>1, <1>2, <1>7, <1>9, <2>4 DEF StoreInv, Started
<1> QED
  BY <1>8, <1>9 DEF StoreInv

LEMMA MutateStep == StoreInv /\ Mutate => StoreInv'
<1> SUFFICES ASSUME StoreInv, Mutate PROVE StoreInv'
  OBVIOUS
<1>1. /\ Started /\ Started' /\ backend = "local"
      /\ UNCHANGED <<world, backend, remote, list, next, writing, index, stage, allowed>>
  BY DEF Mutate, Up, Started, client, request
<1>2. LocalInv
  BY <1>1 DEF StoreInv
<1>3. Seed(world)' = Seed(world) /\ Probes' = Probes /\ AllDocuments(world)' = AllDocuments(world)
  BY <1>1, ProbesFixed DEF Seed, AllDocuments, AllUsers, AllDepartments
<1>4. ASSUME NEW t \in Toggles \ told, Local!Grant(t), told' = told \cup {t}
      PROVE  LocalInv'
  <2>1. t.object \in Probes
    BY DEF Probes
  <2>2. CASE /\ t.relation \in Local!Structural
             /\ structural' = structural \cup {t} /\ indexed' = indexed \cup {t.object}
             /\ UNCHANGED <<direct, available>>
    BY <1>1, <1>2, <1>3, <1>4, <2>1, <2>2 DEF LocalInv
  <2>3. CASE /\ t.relation \in Local!KnownRelations
             /\ direct' = direct \cup {t}
             /\ UNCHANGED <<structural, indexed, available>>
    <3>1. t.relation \notin Local!Structural
      BY <2>3 DEF Local!Structural, Local!KnownRelations
    <3> QED
      BY <1>1, <1>2, <1>3, <1>4, <2>3, <3>1 DEF LocalInv
  <2> QED
    BY <1>4, <2>2, <2>3 DEF Local!Grant
<1>5. ASSUME NEW t \in Toggles \cap told, Local!Revoke(t), told' = told \ {t}
      PROVE  LocalInv'
  <2>1. CASE /\ t.relation \in Local!Structural
             /\ structural' = structural \ {t}
             /\ UNCHANGED <<direct, indexed, available>>
    BY <1>1, <1>2, <1>3, <1>5, <2>1 DEF LocalInv
  <2>2. CASE /\ t.relation \in Local!KnownRelations
             /\ direct' = direct \ {t}
             /\ UNCHANGED <<structural, indexed, available>>
    <3>1. t.relation \notin Local!Structural
      BY <2>2 DEF Local!Structural, Local!KnownRelations
    <3> QED
      BY <1>1, <1>2, <1>3, <1>5, <2>2, <3>1 DEF LocalInv
  <2> QED
    BY <1>5, <2>1, <2>2 DEF Local!Revoke
<1>6. ASSUME Local!SetAvailable(~available), UNCHANGED told PROVE LocalInv'
  <2>1. UNCHANGED <<direct, structural, indexed, told>> /\ available' = ~available
    BY <1>6 DEF Local!SetAvailable
  <2>2. available' \in BOOLEAN
    BY <2>1
  <2> QED
    BY <1>1, <1>2, <1>3, <2>1, <2>2 DEF LocalInv
<1>7. LocalInv'
  BY <1>4, <1>5, <1>6 DEF Mutate
<1> QED
  BY <1>1, <1>3, <1>7 DEF StoreInv

(* A batch is taken when it continues what is written; a call that begins  *)
(* again with a part on the server has its first batch rejected.           *)
LEMMA BatchStep ==
    ASSUME RemoteInv, world \in Worlds, writing = "writing", next < Len(list),
           Remote!Acceptable(Remote!Batch)
    PROVE  /\ list = FilingTuples
           /\ \E n \in 0..Len(FilingTuples) :
                 /\ n > 0
                 /\ n = IF next + BatchSize < Len(FilingTuples) THEN next + BatchSize ELSE Len(FilingTuples)
                 /\ remote \cup Remote!Elements(Remote!Batch) = Seed(world) \cup Filed(n)
<1>1. PICK n \in 0..Len(FilingTuples) : FiledTo(n)
  BY DEF RemoteInv
<1>2. list = FilingTuples /\ next \in Nat /\ Len(FilingTuples) \in Nat
  BY <1>1, FilingTuple DEF FiledTo, RemoteInv
<1> DEFINE m == IF next + BatchSize < Len(FilingTuples) THEN next + BatchSize ELSE Len(FilingTuples)
<1>3. /\ m \in 1..Len(FilingTuples) /\ next < m
      /\ Remote!Elements(Remote!Batch) = {FilingTuples[j] : j \in (next + 1)..m}
  BY <1>2, BatchFiles, AccessAssumption DEF Remote!Batch
<1> HIDE DEF m
<1>4. n = next
  <2>1. CASE next = 0 /\ n > 0
    <3>1. 1 \in (next + 1)..m /\ 1 \in 1..n
      BY <1>2, <1>3, <2>1
    <3>2. FilingTuples[1] \in Remote!Elements(Remote!Batch)
      BY <1>3, <3>1
    <3>3. FilingTuples[1] \in remote
      BY <1>1, <3>1 DEF FiledTo, Filed
    <3> QED
      BY <3>2, <3>3 DEF Remote!Acceptable
  <2> QED
    BY <1>1, <1>2, <2>1 DEF FiledTo
<1>5. Filed(n) \cup {FilingTuples[j] : j \in (next + 1)..m} = Filed(m)
  <2>1. \A j : j \in 1..m <=> j \in 1..n \/ j \in (next + 1)..m
    BY <1>2, <1>3, <1>4
  <2> QED
    BY <2>1 DEF Filed
<1>6. remote \cup Remote!Elements(Remote!Batch) = Seed(world) \cup Filed(m)
  BY <1>1, <1>3, <1>5 DEF FiledTo
<1> QED
  BY <1>2, <1>3, <1>6 DEF m

LEMMA FileStep == StoreInv /\ File => StoreInv'
<1> SUFFICES ASSUME StoreInv, File PROVE StoreInv'
  OBVIOUS
<1>1. /\ Started /\ Started' /\ backend = "openfga" /\ told' = remote'
      /\ UNCHANGED <<world, backend, direct, structural, indexed, available, index, stage, allowed>>
  BY DEF File, Up, Started, store, request
<1>2. RemoteInv /\ world \in Worlds
  BY <1>1 DEF StoreInv
<1>3. Seed(world)' = Seed(world) /\ Probes' = Probes /\ AllDocuments(world)' = AllDocuments(world)
  BY <1>1, ProbesFixed DEF Seed, AllDocuments, AllUsers, AllDepartments
<1>4. PICK n \in 0..Len(FilingTuples) : FiledTo(n)
  BY <1>2 DEF RemoteInv
<1>5. Len(FilingTuples) \in Nat /\ BatchSize \in Nat \ {0}
  BY FilingTuple, AccessAssumption DEF Remote!BatchAssumption
<1> DEFINE Kept == /\ list' \in {<<>>, FilingTuples}
                   /\ next' \in 0..(Len(list') + BatchSize)
                   /\ writing' \in {"idle", "writing", "ok", "failclosed", "rejected"}
                   /\ \E k \in 0..Len(FilingTuples) : FiledTo(k)'
<1>6. ASSUME Remote!Write(FilingTuples) PROVE Kept
  <2>1. /\ list' = FilingTuples /\ next' = 0 /\ writing' = "writing" /\ remote' = remote
    BY <1>6 DEF Remote!Write
  <2>2. FiledTo(n)'
    BY <1>3, <1>4, <1>5, <2>1 DEF FiledTo
  <2>3. \E k \in 0..Len(FilingTuples) : FiledTo(k)'
    BY <2>2
  <2>4. next' \in 0..(Len(list') + BatchSize)
    BY <1>5, <2>1
  <2> HIDE DEF Kept
  <2> QED
    BY <2>1, <2>3, <2>4 DEF Kept
<1>7. ASSUME Remote!WriteBatch PROVE Kept
  <2>1. /\ writing = "writing" /\ next < Len(list) /\ Remote!Acceptable(Remote!Batch)
        /\ remote' = remote \cup Remote!Elements(Remote!Batch)
        /\ next' = next + BatchSize /\ UNCHANGED <<list, writing>>
    BY <1>7 DEF Remote!WriteBatch
  <2>2. PICK k \in 0..Len(FilingTuples) :
                 /\ k > 0
                 /\ k = IF next + BatchSize < Len(FilingTuples) THEN next + BatchSize ELSE Len(FilingTuples)
                 /\ remote \cup Remote!Elements(Remote!Batch) = Seed(world) \cup Filed(k)
    BY <1>2, <2>1, BatchStep
  <2>3. list = FilingTuples /\ next \in Nat
    BY <1>2, <1>5, <2>1, BatchStep DEF RemoteInv
  <2>4. FiledTo(k)'
    BY <1>3, <2>1, <2>2, <2>3 DEF FiledTo
  <2>5. \E i \in 0..Len(FilingTuples) : FiledTo(i)'
    BY <2>4
  <2>6. next' \in 0..(Len(list') + BatchSize) /\ list' = FilingTuples /\ writing' = "writing"
    BY <1>5, <2>1, <2>3
  <2> HIDE DEF Kept
  <2> QED
    BY <2>5, <2>6 DEF Kept
<1>8. ASSUME Remote!AnswerLost PROVE Kept
  <2>1. /\ writing = "writing" /\ next < Len(list) /\ Remote!Acceptable(Remote!Batch)
        /\ remote' = remote \cup Remote!Elements(Remote!Batch)
        /\ writing' = "failclosed" /\ UNCHANGED <<list, next>>
    BY <1>8 DEF Remote!AnswerLost
  <2>2. PICK k \in 0..Len(FilingTuples) :
                 remote \cup Remote!Elements(Remote!Batch) = Seed(world) \cup Filed(k)
    BY <1>2, <2>1, BatchStep
  <2>3. FiledTo(k)'
    BY <1>3, <2>1, <2>2 DEF FiledTo
  <2>4. \E i \in 0..Len(FilingTuples) : FiledTo(i)'
    BY <2>3
  <2>5. list' \in {<<>>, FilingTuples} /\ next' \in 0..(Len(list') + BatchSize)
    BY <1>2, <2>1 DEF RemoteInv
  <2> HIDE DEF Kept
  <2> QED
    BY <2>1, <2>4, <2>5 DEF Kept
<1>9. ASSUME Remote!WriteReturns \/ Remote!WriteFails \/ Remote!WriteRejected PROVE Kept
  <2>1. /\ writing' \in {"ok", "failclosed", "rejected"} /\ UNCHANGED <<remote, list, next>>
    BY <1>9 DEF Remote!WriteReturns, Remote!WriteFails, Remote!WriteRejected
  <2>2. FiledTo(n)'
    BY <1>3, <1>4, <2>1 DEF FiledTo
  <2>3. \E i \in 0..Len(FilingTuples) : FiledTo(i)'
    BY <2>2
  <2>4. list' \in {<<>>, FilingTuples} /\ next' \in 0..(Len(list') + BatchSize)
    BY <1>2, <2>1 DEF RemoteInv
  <2> HIDE DEF Kept
  <2> QED
    BY <2>1, <2>3, <2>4 DEF Kept
<1> HIDE DEF Kept
<1>10. Kept
  BY <1>6, <1>7, <1>8, <1>9 DEF File
<1>11. RemoteInv'
  BY <1>1, <1>2, <1>10 DEF RemoteInv, Kept
<1> QED
  BY <1>1, <1>3, <1>11 DEF StoreInv

(* Steps that leave the stores alone. *)
LEMMA StoresKept ==
    ASSUME StoreInv, UNCHANGED <<world, backend, store, client, index, told>>,
           stage' \in {"down", "failed", "idle", "listed", "answered", "raised"},
           Started' <=> Started, allowed' \subseteq Probes
    PROVE  StoreInv'
<1>1. Seed(world)' = Seed(world) /\ Probes' = Probes /\ AllDocuments(world)' = AllDocuments(world)
  BY ProbesFixed DEF Seed, AllDocuments, AllUsers, AllDepartments
<1>2. Empty => Empty'
  BY DEF Empty, store, client
<1>3. LocalInv => LocalInv'
  BY <1>1 DEF LocalInv, store, client
<1>4. RemoteInv => RemoteInv'
  <2> SUFFICES ASSUME RemoteInv PROVE RemoteInv'
    OBVIOUS
  <2>1. PICK n \in 0..Len(FilingTuples) : FiledTo(n)
    BY DEF RemoteInv
  <2>2. FiledTo(n)'
    BY <1>1, <2>1 DEF FiledTo, client
  <2>3. \E k \in 0..Len(FilingTuples) : FiledTo(k)'
    BY <2>2
  <2> QED
    BY <2>3 DEF RemoteInv, store, client
<1> QED
  BY <1>1, <1>2, <1>3, <1>4 DEF StoreInv

(* What a listing returns can be asked about. *)
LEMMA ListingProbed ==
    ASSUME StoreInv, Started, NEW u
    PROVE  /\ backend = "local" => Local!Listing(u, "reader", "policy_document") \subseteq Probes
           /\ backend = "openfga" => Remote!RemoteListing(u, "reader", "policy_document") \subseteq Probes
<1>1. CASE backend = "local"
  BY <1>1 DEF StoreInv, LocalInv, Local!Listing, Local!Candidates
<1>2. CASE backend = "openfga"
  <2>1. RemoteInv /\ world \in Worlds
    BY <1>2 DEF StoreInv
  <2>2. PICK n \in 0..Len(FilingTuples) : remote = Seed(world) \cup Filed(n)
    BY <2>1 DEF RemoteInv, FiledTo
  <2>3. ASSUME NEW y \in remote, TypeOf(y.object) = "policy_document"
        PROVE  y.object \in Probes
    <3>1. y \notin Filed(n)
      BY <2>3, FiledShape
    <3> QED
      BY <2>1, <2>2, <2>3, <3>1, SeedProbed
  <2>4. ASSUME NEW o \in Remote!RemoteListing(u, "reader", "policy_document") PROVE o \in Probes
    <3>1. o \in {y.object : y \in remote} /\ Remote!TypeOf(o) = "policy_document"
      BY DEF Remote!RemoteListing
    <3>2. TypeOf(o) = "policy_document"
      BY <3>1 DEF TypeOf, Remote!TypeOf
    <3> QED
      BY <3>1, <3>2, <2>3
  <2> QED
    BY <1>2, <2>4
<1> QED
  BY <1>1, <1>2

LEMMA StoreStep == StoreInv /\ [Next]_vars => StoreInv'
<1> SUFFICES ASSUME StoreInv, [Next]_vars PROVE StoreInv'
  OBVIOUS
<1>1. CASE Build
  BY <1>1, BuildStep
<1>2. CASE BuildFails
  BY <1>2, StoresKept, ProbesFixed DEF BuildFails, Started, StoreInv
<1>3. CASE Mutate
  BY <1>3, MutateStep
<1>4. CASE File
  BY <1>4, FileStep
<1>5. ASSUME NEW p \in Askers, NEW d \in Days, Retrieve(p, d)
      PROVE  StoreInv'
  <2>1. PICK docs, to : /\ docs = IF backend = "local" THEN Local!Listing(p.id, "reader", "policy_document")
                                  ELSE Remote!RemoteListing(p.id, "reader", "policy_document")
                        /\ to \in {"answered", "listed"} /\ Begins(p, d, docs, to)
    BY <1>5 DEF Retrieve
  <2>2. Started /\ Started' /\ stage' = to /\ allowed' = docs
        /\ UNCHANGED <<world, backend, store, client, index, told>>
    BY <2>1 DEF Begins, Started
  <2>3. docs \subseteq Probes
    BY <2>1, <2>2, ListingProbed DEF StoreInv
  <2> QED
    BY <2>1, <2>2, <2>3, StoresKept
<1>6. ASSUME NEW p \in Askers, NEW d \in Days, RetrieveRaises(p, d)
      PROVE  StoreInv'
  BY <1>6, StoresKept DEF RetrieveRaises, Begins, Started
<1>7. CASE Search
  BY <1>7, StoresKept DEF Search, Started, StoreInv
<1>8. CASE Return
  BY <1>8, StoresKept DEF Return, Started
<1>9. CASE UNCHANGED vars
  BY <1>9, StoresKept DEF vars, request, Started, StoreInv
<1> QED
  BY <1>1, <1>2, <1>3, <1>4, <1>5, <1>6, <1>7, <1>8, <1>9 DEF Next

AccessInv == StoreInv /\ AnswerInv

LEMMA AccessInvHolds == Spec => []AccessInv
<1>1. Init => AccessInv
  BY StoreInit, AnswerInit DEF AccessInv
<1>2. AccessInv /\ [Next]_vars => AccessInv'
  BY StoreStep, AnswerStep DEF AccessInv
<1> QED
  BY <1>1, <1>2, PTL DEF Spec

(* Every tuple in force is of the seed, granted or filed. *)
LEMMA ToldFrom ==
    ASSUME StoreInv, NEW y \in told
    PROVE  /\ world \in Worlds
           /\ \/ y \in Seed(world)
              \/ backend = "local" /\ y \in Toggles
              \/ backend = "openfga" /\ \E n \in 0..Len(FilingTuples) : y \in Filed(n)
<1>1. Started /\ world \in Worlds
  BY DEF StoreInv, Empty
<1>2. CASE backend = "local"
  BY <1>1, <1>2 DEF StoreInv, LocalInv
<1>3. CASE backend = "openfga"
  BY <1>1, <1>3 DEF StoreInv, RemoteInv, FiledTo
<1> QED
  BY <1>1, <1>2, <1>3 DEF StoreInv

(* Every variable holds what it is meant to in every reachable state:      *)
(* tuples are tuples, and what is indexed, allowed or returned exists.     *)
THEOREM TypeCorrect == Spec => []TypeOK
<1>1. AccessInv => TypeOK
  <2> SUFFICES ASSUME StoreInv, AnswerInv PROVE TypeOK
    BY DEF AccessInv
  <2>1. ASSUME NEW y \in told PROVE DOMAIN y = {"user", "relation", "object"}
    <3>1. \E u, r, o : y = Tuple(u, r, o)
      <4>1. CASE y \in Seed(world)
        BY <4>1, ToldFrom, SeedObjects
      <4>2. CASE y \in Toggles
        BY <4>2, TuplesAssumption
      <4>3. CASE \E n \in 0..Len(FilingTuples) : y \in Filed(n)
        BY <4>3, FiledShape
      <4> QED
        BY <4>1, <4>2, <4>3, ToldFrom
    <3>2. \A u, r, o : DOMAIN Tuple(u, r, o) = {"user", "relation", "object"}
      BY DEF Tuple
    <3> QED
      BY <3>1, <3>2
  <2>2. direct \cup structural \cup remote \subseteq told
    BY DEF StoreInv, Empty, LocalInv, RemoteInv
  <2>3. available \in BOOLEAN
    BY DEF StoreInv, Empty, LocalInv, RemoteInv
  <2>4. /\ next \in 0..(Len(list) + BatchSize)
        /\ writing \in {"idle", "writing", "ok", "failclosed", "rejected"}
    BY AccessAssumption DEF StoreInv, Empty, LocalInv, RemoteInv, Remote!BatchAssumption
  <2>5. indexed \subseteq Probes
    BY DEF StoreInv, Empty, LocalInv, RemoteInv
  <2>6. chunks \subseteq index
    BY DEF AnswerInv, ChunksSearched, Searchable
  <2>7. /\ backend \in {"local", "openfga"}
        /\ stage \in {"down", "failed", "idle", "listed", "answered", "raised"}
        /\ allowed \subseteq Probes
    BY DEF StoreInv
  <2> QED
    BY <2>1, <2>2, <2>3, <2>4, <2>5, <2>6, <2>7 DEF TypeOK
<1> QED
  BY <1>1, AccessInvHolds, PTL

LEMMA FreshSeed == ASSUME StoreInv, Fresh PROVE world \in Worlds /\ index = Rules(AllDocuments(world))
  BY DEF Fresh, StoreInv, Started

(* The tuples of a seed give each user the documents his rows give him, in *)
(* every world the generator can draw.                                     *)
THEOREM RowsDecide == Spec => []SeedFollowsRows
<1>1. StoreInv => SeedFollowsRows
  BY FreshSeed, SeedReader DEF SeedFollowsRows, Fresh
<1> QED
  BY <1>1, AccessInvHolds, PTL DEF AccessInv

(* Everybody in the reporting line of a user views the user's department:  *)
(* a manager is of the department or of one above it, and what is above it *)
(* is above the user.                                                      *)
THEOREM LinesView == Spec => []ReportingLineViews
<1>1. StoreInv => ReportingLineViews
  BY FreshSeed, LineViews DEF ReportingLineViews, Fresh
<1> QED
  BY <1>1, AccessInvHolds, PTL DEF AccessInv

(* On every date exactly one cap of each category applies to a department  *)
(* and its people find it: the versions of the global policy follow each   *)
(* other without a gap, and an addendum is read where it applies.          *)
THEOREM CapsFound == Spec => []CapIsRetrievable
<1>1. StoreInv => CapIsRetrievable
  <2> SUFFICES ASSUME StoreInv, Fresh,
                      NEW u \in AllUsers(world), u.role \in {"employee", "manager"},
                      NEW c \in Categories, NEW d \in Days
               PROVE  LET own == {rule \in index : rule.tenant = u.tenant}
                          caps == ApplicableCap(own, c, u.department, d)
                          docs == {doc.id : doc \in {x \in AllDocuments(world) : Reader(told, u.id, x.id)}}
                      IN Cardinality(caps) = 1 /\ caps \subseteq Searchable(u, d, docs)
    BY DEF CapIsRetrievable
  <2>1. /\ world \in Worlds /\ index = Rules(AllDocuments(world)) /\ told = Seed(world)
        /\ d \in Int /\ Start <= d /\ d < Forever
    BY FreshSeed, AccessAssumption, DaysAssumption DEF Fresh
  <2> DEFINE own == {rule \in index : rule.tenant = u.tenant}
             caps == ApplicableCap(own, c, u.department, d)
             docs == {doc.id : doc \in {x \in AllDocuments(world) : Reader(told, u.id, x.id)}}
  <2>2. PICK r : /\ caps = {r} /\ r \in index
                 /\ r.tenant = u.tenant /\ Live(r, d)
                 /\ \E doc \in AllDocuments(world) :
                       doc.id = r.document /\ Reader(told, u.id, doc.id)
    <3>1. Own(world, u, own)
      BY <2>1 DEF Own
    <3> HIDE DEF own
    <3>2. OneCap(world, u, c, d, own)
      BY <2>1, <3>1, CapFound
    <3> QED
      BY <2>1, <3>2 DEF OneCap
  <2>3. r \in Searchable(u, d, docs)
    BY <2>2 DEF Searchable
  <2>4. Cardinality({r}) = 1
    BY FS_Singleton
  <2> HIDE DEF caps, docs
  <2>5. Cardinality(caps) = 1 /\ caps \subseteq Searchable(u, d, docs)
    BY <2>2, <2>3, <2>4
  <2> QED
    BY <2>5 DEF caps, docs
<1> QED
  BY <1>1, AccessInvHolds, PTL DEF AccessInv

(* A document without a scope that is an id is read by nobody, whatever is *)
(* granted: no tuple about it is ever in force.                            *)
THEOREM LeakyUnread == Spec => []BlankScopeUnread
<1>1. StoreInv => BlankScopeUnread
  <2> SUFFICES ASSUME StoreInv PROVE BlankScopeUnread
    OBVIOUS
  <2>1. Leaky.id = DocumentId(1, "leaky", 0) /\ TypeOf(Leaky.id) = "policy_document"
    BY Types DEF Leaky, Document
  <2>2. ASSUME NEW y \in told PROVE y.object # Leaky.id
    <3>1. CASE y \in Seed(world)
      <4>1. SUFFICES ASSUME y.object = Leaky.id PROVE FALSE
        OBVIOUS
      <4>2. PICK doc \in AllDocuments(world) : doc.id = Leaky.id
        BY <2>1, <3>1, <4>1, ToldFrom, SeedObjects
      <4>3. PICK t, kind, i : DocumentRow(world, doc, t, kind, i)
        BY ToldFrom, DocumentRows
      <4>4. kind = "leaky"
        <5>1. DocumentId(t, kind, i) = DocumentId(1, "leaky", 0)
          BY <2>1, <4>2, <4>3 DEF DocumentRow
        <5> QED
          BY <5>1, Ids
      <4> QED
        BY <4>3, <4>4 DEF DocumentRow
    <3>2. CASE y \in Toggles
      BY <3>2, TuplesAssumption
    <3>3. CASE \E n \in 0..Len(FilingTuples) : y \in Filed(n)
      BY <2>1, <3>3, FiledShape
    <3> QED
      BY <3>1, <3>2, <3>3, ToldFrom
  <2>3. \A r : Subjects(told, r, Leaky.id) = {}
    BY <2>2 DEF Subjects
  <2> QED
    BY <2>3 DEF BlankScopeUnread, Reader, FromTenant
<1> QED
  BY <1>1, AccessInvHolds, PTL DEF AccessInv

----------------------------------------------------------------------------
(* A filing that stopped part of the way. *)

(* How many tuples of the i-th expense are among the first n. *)
PartOf(i, n) == IF n <= 3 * (i - 1) THEN 0 ELSE IF n >= 3 * i THEN 3 ELSE n - 3 * (i - 1)

LEMMA FiledCarries ==
    ASSUME NEW w \in Worlds, NEW n \in 0..Len(FilingTuples), NEW i \in DOMAIN Filings
    PROVE  /\ PartOf(i, n) \in 0..3
           /\ Unwritten(Seed(w), Filings[i])
           /\ Carries(Seed(w) \cup Filed(n), Seed(w), Filings[i], PartOf(i, n))
<1> DEFINE x == Filings[i]
           k == PartOf(i, n)
<1>1. i \in Nat \ {0} /\ n \in Nat /\ i <= Len(Filings)
  BY FilingTuple
<1>2. k \in 0..3
  BY <1>1 DEF PartOf
<1>3. \A m \in 1..3 : 3 * (i - 1) + m \in 1..n <=> m \in 1..k
  BY <1>1 DEF PartOf
<1>4. TypeOf(x.id) = "expense"
  BY TuplesAssumption
<1>5. Unwritten(Seed(w), x)
  BY <1>4, SeedObjects DEF Unwritten
<1>6. ASSUME NEW y \in Filed(n), y.object = x.id PROVE y \in Written(x, k)
  <2>1. PICK j \in 1..n : y = FilingTuples[j]
    BY DEF Filed
  <2>2. PICK h \in DOMAIN Filings, m \in 1..3 : j = 3 * (h - 1) + m
    <3>1. j \in DOMAIN FilingTuples
      BY FilingTuple
    <3> QED
      BY <3>1, FilingTuple
  <2>3. y = ExpenseTuples(Filings[h])[m]
    BY <2>1, <2>2, FilingTuple
  <2>4. h = i
    BY <1>6, <2>3, ExpenseFiled, TuplesAssumption
  <2>5. m \in 1..k
    BY <1>3, <2>1, <2>2, <2>4
  <2> QED
    BY <2>3, <2>4, <2>5 DEF Written
<1>7. ASSUME NEW y \in Written(x, k) PROVE y \in Filed(n)
  <2>1. PICK m \in 1..k : y = ExpenseTuples(x)[m]
    BY DEF Written
  <2>2. m \in 1..3 /\ 3 * (i - 1) + m \in 1..n
    BY <1>2, <1>3, <2>1
  <2>3. y = FilingTuples[3 * (i - 1) + m]
    BY <2>1, <2>2, FilingTuple
  <2> QED
    BY <2>2, <2>3 DEF Filed
<1>8. \A y \in Filed(n) : y.relation \notin {"manager", "auditor", "finance"}
  BY FiledShape
<1> HIDE DEF x, k
<1>9. Carries(Seed(w) \cup Filed(n), Seed(w), x, k)
  <2> SUFFICES ASSUME NEW y, y.object = x.id \/ y.relation \in {"manager", "auditor", "finance"}
               PROVE  y \in Seed(w) \cup Filed(n) <=> y \in Seed(w) \/ y \in Written(x, k)
    BY DEF Carries
  <2> QED
    BY <1>6, <1>7, <1>8
<1> QED
  BY <1>2, <1>5, <1>9 DEF x, k

(* A filing that failed at any point gives nobody a relation to one of its *)
(* expenses that the whole filing would not give.                          *)
THEOREM PartsDeny == Spec => []PartialFilingDenies
<1>1. StoreInv => PartialFilingDenies
  <2> SUFFICES ASSUME StoreInv, backend = "openfga", stage = "idle",
                      NEW u \in AllUsers(world), NEW i \in DOMAIN Filings,
                      NEW relation \in Defined("expense"),
                      Holds(remote, u.id, relation, Filings[i].id)
               PROVE  Holds(remote \cup Remote!Elements(FilingTuples), u.id, relation, Filings[i].id)
    BY DEF PartialFilingDenies
  <2>1. world \in Worlds /\ RemoteInv
    BY DEF StoreInv, Started
  <2>2. PICK n \in 0..Len(FilingTuples) : remote = Seed(world) \cup Filed(n)
    BY <2>1 DEF RemoteInv, FiledTo
  <2> DEFINE l == Len(FilingTuples)
  <2>3. l \in 0..l /\ l = 3 * Len(Filings) /\ i \in 1..Len(Filings) /\ Len(Filings) \in Nat
    BY FilingTuple
  <2>4. remote \cup Remote!Elements(FilingTuples) = Seed(world) \cup Filed(l)
    <3>1. Filed(n) \subseteq Filed(l)
      BY <2>3 DEF Filed
    <3> QED
      BY <2>2, <3>1, FiledAll
  <2>5. PartOf(i, l) = 3
    <3> HIDE DEF l
    <3> QED
      BY <2>3 DEF PartOf
  <2>6. /\ PartOf(i, n) \in 0..3 /\ Unwritten(Seed(world), Filings[i])
        /\ Carries(remote, Seed(world), Filings[i], PartOf(i, n))
    BY <2>1, <2>2, FiledCarries
  <2>7. Carries(Seed(world) \cup Filed(l), Seed(world), Filings[i], 3)
    BY <2>1, <2>3, <2>5, FiledCarries
  <2> QED
    BY <2>4, <2>6, <2>7, PartHolds
<1> QED
  BY <1>1, AccessInvHolds, PTL DEF AccessInv

(* A part of the filing is on the server and no call can complete it.      *)
Stuck ==
    /\ Started /\ backend = "openfga"
    /\ Remote!Elements(FilingTuples) \cap remote # {}
    /\ \/ writing \in {"failclosed", "rejected"}
       \/ writing = "writing" /\ list = FilingTuples /\ next = 0

(* The first tuple is on the server as soon as any is. *)
LEMMA FirstWritten ==
    ASSUME StoreInv, Started, backend = "openfga", Remote!Elements(FilingTuples) \cap remote # {}
    PROVE  Len(FilingTuples) \in Nat \ {0} /\ FilingTuples[1] \in remote
<1>1. world \in Worlds /\ RemoteInv
  BY DEF StoreInv
<1>2. PICK n \in 0..Len(FilingTuples) : remote = Seed(world) \cup Filed(n)
  BY <1>1 DEF RemoteInv, FiledTo
<1>3. Len(FilingTuples) \in Nat
  BY FilingTuple
<1>4. PICK y \in remote : y \in Filed(Len(FilingTuples))
  BY FiledAll
<1>5. y \notin Seed(world)
  BY <1>1, <1>3, <1>4, FiledShape, SeedObjects
<1>6. y \in Filed(n)
  BY <1>2, <1>4, <1>5
<1>7. n >= 1
  BY <1>3, <1>6 DEF Filed
<1> QED
  BY <1>2, <1>3, <1>7 DEF Filed

LEMMA StuckStep == StoreInv /\ Stuck /\ [Next]_vars => Stuck'
<1> SUFFICES ASSUME StoreInv, Stuck, [Next]_vars PROVE Stuck'
  OBVIOUS
<1>1. Len(FilingTuples) \in Nat \ {0} /\ FilingTuples[1] \in remote
  BY FirstWritten DEF Stuck
<1>2. CASE UNCHANGED <<backend, remote, list, next, writing>> /\ Started'
  BY <1>2 DEF Stuck
<1>3. CASE File
  <2>1. Started' /\ backend' = backend
    BY <1>3 DEF File, Up, Started, request
  <2>2. ~(writing = "writing" /\ Remote!Acceptable(Remote!Batch))
    <3>1. SUFFICES ASSUME writing = "writing", Remote!Acceptable(Remote!Batch) PROVE FALSE
      OBVIOUS
    <3>2. list = FilingTuples /\ next = 0
      BY <3>1 DEF Stuck
    <3> DEFINE m == IF 0 + BatchSize < Len(FilingTuples) THEN 0 + BatchSize ELSE Len(FilingTuples)
    <3>3. /\ m \in 1..Len(FilingTuples)
          /\ Remote!Elements(Remote!Batch) = {FilingTuples[j] : j \in (0 + 1)..m}
      BY <1>1, <3>2, BatchFiles, AccessAssumption DEF Remote!Batch
    <3> HIDE DEF m
    <3>4. FilingTuples[1] \in Remote!Elements(Remote!Batch)
      BY <3>3
    <3> QED
      BY <1>1, <3>1, <3>4 DEF Remote!Acceptable
  <2>3. ~Remote!WriteBatch /\ ~Remote!AnswerLost
    BY <2>2 DEF Remote!WriteBatch, Remote!AnswerLost
  <2>4. ~Remote!WriteReturns
    BY <1>1 DEF Remote!WriteReturns, Stuck
  <2>5. CASE Remote!Write(FilingTuples)
    BY <2>1, <2>5 DEF Remote!Write, Stuck
  <2>6. CASE Remote!WriteFails \/ Remote!WriteRejected
    BY <2>1, <2>6 DEF Remote!WriteFails, Remote!WriteRejected, Stuck
  <2> QED
    BY <1>3, <2>3, <2>4, <2>5, <2>6 DEF File
<1>4. CASE Build \/ BuildFails \/ Mutate
  BY <1>4 DEF Build, BuildFails, Mutate, Stuck, Started
<1>5. CASE \E p \in Askers, d \in Days : Retrieve(p, d) \/ RetrieveRaises(p, d)
  <2>1. UNCHANGED <<backend, remote, list, next, writing>> /\ Started'
    BY <1>5 DEF Retrieve, RetrieveRaises, Begins, client, Started
  <2> QED
    BY <1>2, <2>1
<1>6. CASE Search \/ Return \/ UNCHANGED vars
  <2>1. UNCHANGED <<backend, remote, list, next, writing>> /\ Started'
    BY <1>6 DEF Search, Return, vars, request, client, Started, Stuck
  <2> QED
    BY <1>2, <2>1
<1> QED
  BY <1>3, <1>4, <1>5, <1>6 DEF Next

(* A filing that failed with a part of it on the server is never completed *)
(* by making the call again: every later call begins with the first batch, *)
(* which the server has.                                                   *)
THEOREM PartIsFinal == Spec => RetryAfterPartIsRejected
<1>1. StoreInv /\ writing \in {"failclosed", "rejected"}
        /\ Remote!Elements(FilingTuples) \cap remote # {} => Stuck
  BY DEF Stuck, StoreInv, Empty, LocalInv
<1>2. Stuck => writing # "ok"
  BY DEF Stuck
<1>3. Spec => []StoreInv
  BY AccessInvHolds, PTL DEF AccessInv
<1> QED
  BY <1>1, <1>2, <1>3, StuckStep, PTL DEF Spec, RetryAfterPartIsRejected

----------------------------------------------------------------------------
(* The outcomes of the local store. *)

Outcomes == (SUBSET {"yes", "no", "raise"}) \ {{}}

LEMMA Branches ==
    ASSUME NEW B, B \subseteq Outcomes
    PROVE  /\ Local!AnyOf(B) \in Outcomes
           /\ "yes" \in Local!AnyOf(B) <=> \E b \in B : "yes" \in b
           /\ "no" \in Local!AnyOf(B) <=> \A b \in B : "no" \in b
           /\ "raise" \in Local!AnyOf(B) <=> \E b \in B : "raise" \in b
<1>1. \A y : y \in Local!AnyOf(B) <=> \/ y # "no" /\ \E b \in B : y \in b
                                      \/ y = "no" /\ \A b \in B : "no" \in b
  BY DEF Local!AnyOf
<1>2. Local!AnyOf(B) \in SUBSET {"yes", "no", "raise"}
  BY <1>1 DEF Outcomes
<1>3. Local!AnyOf(B) # {}
  <2>1. CASE \A b \in B : "no" \in b
    BY <1>1, <2>1
  <2>2. ASSUME NEW b \in B, "no" \notin b PROVE Local!AnyOf(B) # {}
    <3>1. PICK y \in b : y # "no"
      BY <2>2 DEF Outcomes
    <3> QED
      BY <1>1, <3>1
  <2> QED
    BY <2>1, <2>2
<1> QED
  BY <1>1, <1>2, <1>3 DEF Outcomes

(* The store's own copies of the operators on tuples. *)
LEMMA LocalNames ==
    /\ \A a, b, c : Local!Tuple(a, b, c) = Tuple(a, b, c)
    /\ \A facts, r, o : Local!Subjects(facts, r, o) = Subjects(facts, r, o)
    /\ \A o : Local!TypeOf(o) = TypeOf(o)
  BY DEF Local!Tuple, Tuple, Local!Subjects, Subjects, Local!TypeOf, TypeOf

(* The two sides of the store are the tuples it was told. *)
LEMMA LocalFacts ==
    ASSUME LocalInv
    PROVE  /\ \A u, r, o : r \notin Local!Structural =>
                 (Local!HasDirect(r, o, u) <=> Direct(told, u, r, o))
           /\ \A o : \A r \in Local!Structural : Local!Held(r, o) = Subjects(told, r, o)
           /\ ParentEdges(structural) = ParentEdges(told)
<1>1. /\ told = direct \cup structural
      /\ \A t \in structural : t.relation \in Local!Structural
      /\ \A t \in direct : t.relation \notin Local!Structural
  BY DEF LocalInv
<1>2. \A u, r, o : r \notin Local!Structural =>
                 (Local!HasDirect(r, o, u) <=> Direct(told, u, r, o))
  BY <1>1, Tuples, LocalNames DEF Local!HasDirect, Direct
<1>3. ASSUME NEW o, NEW r \in Local!Structural
      PROVE  Local!Held(r, o) = Subjects(told, r, o)
  <2>1. Local!Held(r, o) = Subjects(structural, r, o)
    BY LocalNames DEF Local!Held
  <2>2. Subjects(structural, r, o) = Subjects(told, r, o)
    BY <1>1 DEF Subjects
  <2> QED
    BY <2>1, <2>2
<1>4. ParentEdges(structural) = ParentEdges(told)
  BY <1>1 DEF ParentEdges, Local!Structural
<1> QED
  BY <1>2, <1>3, <1>4

(* The departments a walk from d can look at. *)
Walked(d) == {d} \cup UNION {{t.user, t.object} : t \in {f \in structural : f.relation = "parent"}}

(* What the walk finds with each number of levels still allowed. *)
Levelled(u, d, outcome) ==
    /\ DOMAIN outcome = 0..(WalkBound + 1)
    /\ outcome[0] = [x \in Walked(d) |-> {"raise"}]
    /\ \A i \in 1..(WalkBound + 1) :
          outcome[i] = [x \in Walked(d) |->
                           IF Local!Manages(u, x) THEN {"yes"}
                           ELSE Local!AnyOf({outcome[i - 1][p] : p \in Local!Held("parent", x)})]

LEMMA WalkedUp == \A d : \A x \in Walked(d) : Local!Held("parent", x) \subseteq Walked(d)
  BY LocalNames DEF Walked, Local!Held, Subjects

LEMMA WalkLevels ==
    ASSUME NEW u, NEW d
    PROVE  \E outcome : Levelled(u, d, outcome) /\ Local!Walk(u, d) = outcome[WalkBound + 1][d]
<1> DEFINE n == WalkBound + 1
           X == [Walked(d) -> Outcomes]
           one(a) == [x \in Walked(d) |->
                         IF Local!Manages(u, x) THEN {"yes"}
                         ELSE Local!AnyOf({a[p] : p \in Local!Held("parent", x)})]
           start == [x \in Walked(d) |-> {"raise"}]
           step == [i \in 1..n |-> [a \in X |-> one(a)]]
<1>1. n \in Nat /\ n - 1 \in Nat
  BY AccessAssumption DEF Local!WalkAssumption
<1>2. start \in X
  BY DEF Outcomes
<1>3. ASSUME NEW a \in X PROVE one(a) \in X
  <2> SUFFICES ASSUME NEW x \in Walked(d)
               PROVE  (IF Local!Manages(u, x) THEN {"yes"}
                       ELSE Local!AnyOf({a[p] : p \in Local!Held("parent", x)})) \in Outcomes
    OBVIOUS
  <2>1. {a[p] : p \in Local!Held("parent", x)} \subseteq Outcomes
    BY WalkedUp
  <2>2. Local!AnyOf({a[p] : p \in Local!Held("parent", x)}) \in Outcomes
    BY <2>1, Branches
  <2>3. {"yes"} \in Outcomes
    BY DEF Outcomes
  <2> QED
    BY <2>2, <2>3
<1> HIDE DEF n, X, one, start
<1>4. step \in Steps(n, X)
  BY <1>3 DEF Steps
<1>5. PICK g \in [0..n -> X] : g[0] = start /\ \A i \in 1..n : g[i] = step[i][g[i - 1]]
  <2> HIDE DEF step
  <2> QED
    <3>1. PICK g : Stepped(n, X, start, step, g)
      BY <1>1, <1>2, <1>4, StepsExist
    <3> QED
      BY <3>1 DEF Stepped
<1>6. ASSUME NEW i \in 1..n PROVE g[i] = one(g[i - 1])
  <2>1. g[i - 1] \in X
    BY <1>1, <1>5
  <2> QED
    BY <1>5, <2>1
<1> DEFINE body(f) == [left \in 0..n |-> IF left = 0 THEN start ELSE one(f[left - 1])]
           outcome == CHOOSE f : f = body(f)
<1>7. g = body(g)
  BY <1>1, <1>5, <1>6
<1>8. outcome = body(outcome)
  <2> HIDE DEF body
  <2> QED
    BY <1>7
<1>9. Local!Walk(u, d) = outcome[n][d]
  BY DEF Local!Walk, Local!Levels, n, one, start, Walked
<1> HIDE DEF outcome
<1>10. Levelled(u, d, outcome)
  <2>1. DOMAIN outcome = 0..n /\ outcome[0] = start
    BY <1>1, <1>8
  <2>2. ASSUME NEW i \in 1..n PROVE outcome[i] = one(outcome[i - 1])
    BY <1>1, <1>8
  <2> HIDE DEF body
  <2> QED
    BY <2>1, <2>2 DEF Levelled, one, start, n
<1> QED
  BY <1>9, <1>10 DEF n

----------------------------------------------------------------------------
(* The walk, by the levels allowed to it. *)

(* A manager of a department or of one above it. *)
Above(u, x) == \E a \in Ancestry(told, x) : Direct(told, u, "manager", a)

(* Some department can be reached from itself. *)
Cyclic ==
    \E d \in {t.object : t \in told} :
        \E above \in Subjects(told, "parent", d) : d \in Ancestry(told, above)

(* What is found with i levels allowed is right, and a walk that is cut    *)
(* has more than i departments above it unless there is a cycle.           *)
Sound(u, x, i, outcome) ==
    /\ outcome \in Outcomes
    /\ "yes" \in outcome => Above(u, x)
    /\ "no" \in outcome => ~Above(u, x)
    /\ "raise" \in outcome => Cyclic \/ Cardinality(Ancestry(told, x)) > i

LEMMA AboveSplits ==
    ASSUME NEW u, NEW x
    PROVE  Above(u, x) <=> \/ Direct(told, u, "manager", x)
                           \/ \E p \in Subjects(told, "parent", x) : Above(u, p)
<1>1. ASSUME NEW a \in Ancestry(told, x), Direct(told, u, "manager", a), a # x
      PROVE  \E p \in Subjects(told, "parent", x) : Above(u, p)
  BY <1>1, AncestrySplits DEF Above
<1>2. ASSUME NEW p \in Subjects(told, "parent", x), Above(u, p)
      PROVE  Above(u, x)
  BY <1>2, AncestryOfParent, AncestryPasses DEF Above
<1>3. Direct(told, u, "manager", x) => Above(u, x)
  BY AncestryHolds DEF Above
<1> QED
  BY <1>1, <1>2, <1>3 DEF Above

(* Without a cycle a parent has fewer departments above it. *)
LEMMA FewerAbove ==
    ASSUME NEW x, IsFiniteSet(Ancestry(told, x)), NEW p \in Subjects(told, "parent", x)
    PROVE  /\ IsFiniteSet(Ancestry(told, p))
           /\ Cyclic \/ Cardinality(Ancestry(told, p)) < Cardinality(Ancestry(told, x))
<1>1. Ancestry(told, p) \subseteq Ancestry(told, x)
  BY AncestryOfParent, AncestryPasses
<1>2. CASE x \in Ancestry(told, p)
  <2>1. x \in {t.object : t \in told}
    BY DEF Subjects
  <2> QED
    BY <1>1, <1>2, <2>1, FS_Subset DEF Cyclic
<1>3. CASE x \notin Ancestry(told, p)
  <2>1. Ancestry(told, p) \subseteq Ancestry(told, x) \ {x}
    BY <1>1, <1>3
  <2>2. /\ IsFiniteSet(Ancestry(told, x) \ {x})
        /\ Cardinality(Ancestry(told, x) \ {x}) = Cardinality(Ancestry(told, x)) - 1
    BY AncestryHolds, FS_RemoveElement
  <2>3. /\ IsFiniteSet(Ancestry(told, p))
        /\ Cardinality(Ancestry(told, p)) <= Cardinality(Ancestry(told, x) \ {x})
    BY <2>1, <2>2, FS_Subset
  <2>4. Cardinality(Ancestry(told, p)) \in Nat /\ Cardinality(Ancestry(told, x)) \in Nat
    BY <2>3, FS_CardinalityType
  <2> QED
    BY <2>2, <2>3, <2>4
<1> QED
  BY <1>2, <1>3

LEMMA LevelsSound ==
    ASSUME LocalInv, NEW u, NEW d, NEW outcome, Levelled(u, d, outcome),
           \A x \in Walked(d) : IsFiniteSet(Ancestry(told, x))
    PROVE  \A x \in Walked(d) : Sound(u, x, WalkBound + 1, outcome[WalkBound + 1][x])
<1> DEFINE n == WalkBound + 1
           S == {i \in 0..n : \A x \in Walked(d) : Sound(u, x, i, outcome[i][x])}
<1>1. n \in Nat
  BY AccessAssumption DEF Local!WalkAssumption
<1>2. 0 \in S
  <2> SUFFICES ASSUME NEW x \in Walked(d) PROVE Sound(u, x, 0, outcome[0][x])
    BY <1>1
  <2>1. outcome[0][x] = {"raise"}
    BY DEF Levelled
  <2>2. Cardinality(Ancestry(told, x)) \in Nat /\ Cardinality(Ancestry(told, x)) # 0
    BY AncestryHolds, FS_CardinalityType, FS_EmptySet
  <2> QED
    BY <2>1, <2>2 DEF Sound, Outcomes
<1>3. ASSUME NEW i \in 1..n, i - 1 \in S PROVE i \in S
  <2> SUFFICES ASSUME NEW x \in Walked(d) PROVE Sound(u, x, i, outcome[i][x])
    BY <1>1
  <2> DEFINE parents == Subjects(told, "parent", x)
             branches == {outcome[i - 1][p] : p \in parents}
  <2>1. Local!Held("parent", x) = parents /\ parents \subseteq Walked(d)
    BY LocalFacts, WalkedUp DEF Local!Structural
  <2>2. \A p \in parents : Sound(u, p, i - 1, outcome[i - 1][p])
    BY <1>3, <2>1
  <2>3. Local!Manages(u, x) <=> Direct(told, u, "manager", x)
    BY LocalFacts DEF Local!Manages, Local!Structural
  <2>4. outcome[i][x] = IF Direct(told, u, "manager", x) THEN {"yes"} ELSE Local!AnyOf(branches)
    <3>1. outcome[i][x] = IF Local!Manages(u, x) THEN {"yes"}
                          ELSE Local!AnyOf({outcome[i - 1][p] : p \in Local!Held("parent", x)})
      <4>1. outcome[i] = [v \in Walked(d) |->
                             IF Local!Manages(u, v) THEN {"yes"}
                             ELSE Local!AnyOf({outcome[i - 1][p] : p \in Local!Held("parent", v)})]
        BY DEF Levelled
      <4> QED
        BY <4>1
    <3>2. {outcome[i - 1][p] : p \in Local!Held("parent", x)} = branches
      BY <2>1
    <3> HIDE DEF branches
    <3> QED
      BY <2>3, <3>1, <3>2
  <2>5. CASE Direct(told, u, "manager", x)
    BY <2>4, <2>5, AboveSplits DEF Sound, Outcomes
  <2>6. CASE ~Direct(told, u, "manager", x)
    <3>1. branches \subseteq Outcomes
      BY <2>2 DEF Sound
    <3>2. outcome[i][x] \in Outcomes
      BY <2>4, <2>6, <3>1, Branches
    <3>3. "yes" \in outcome[i][x] => Above(u, x)
      <4>1. "yes" \in outcome[i][x] => \E p \in parents : "yes" \in outcome[i - 1][p]
        BY <2>4, <2>6, <3>1, Branches
      <4> QED
        BY <4>1, <2>2, AboveSplits DEF Sound
    <3>4. "no" \in outcome[i][x] => ~Above(u, x)
      <4>1. "no" \in outcome[i][x] => \A p \in parents : "no" \in outcome[i - 1][p]
        BY <2>4, <2>6, <3>1, Branches
      <4> QED
        BY <4>1, <2>2, <2>6, AboveSplits DEF Sound
    <3>5. "raise" \in outcome[i][x] => Cyclic \/ Cardinality(Ancestry(told, x)) > i
      <4> SUFFICES ASSUME "raise" \in outcome[i][x], ~Cyclic
                   PROVE  Cardinality(Ancestry(told, x)) > i
        OBVIOUS
      <4>1. PICK p \in parents : "raise" \in outcome[i - 1][p]
        BY <2>4, <2>6, <3>1, Branches
      <4>2. Cardinality(Ancestry(told, p)) > i - 1
        BY <2>2, <4>1 DEF Sound
      <4>3. /\ IsFiniteSet(Ancestry(told, x)) /\ IsFiniteSet(Ancestry(told, p))
            /\ Cardinality(Ancestry(told, p)) < Cardinality(Ancestry(told, x))
        BY FewerAbove
      <4>4. Cardinality(Ancestry(told, p)) \in Nat /\ Cardinality(Ancestry(told, x)) \in Nat
        BY <4>3, FS_CardinalityType
      <4> QED
        BY <1>1, <4>2, <4>3, <4>4
    <3> QED
      BY <3>2, <3>3, <3>4, <3>5 DEF Sound
  <2> QED
    BY <2>5, <2>6
<1>4. 0..n \subseteq S
  <2> HIDE DEF S
  <2> QED
    BY <1>1, <1>2, <1>3, UpTo
<1>5. n \in S
  <2> HIDE DEF S
  <2> QED
    BY <1>1, <1>4
<1> QED
  BY <1>5

(* However a walk ends, it ends as the model says, and it is not cut       *)
(* unless there is a cycle.                                                *)
LEMMA WalkSound ==
    ASSUME LocalInv, world \in Worlds, NEW u, NEW d
    PROVE  /\ Local!Walk(u, d) \in Outcomes
           /\ "yes" \in Local!Walk(u, d) => ManagerChain(told, u, d)
           /\ "no" \in Local!Walk(u, d) => ~ManagerChain(told, u, d)
           /\ "raise" \in Local!Walk(u, d) => Cyclic
<1> DEFINE all == Seed(world) \cup Toggles
<1>1. told \subseteq all
  BY DEF LocalInv
<1>2. ASSUME NEW x
      PROVE  /\ IsFiniteSet(Ancestry(told, x))
             /\ Cardinality(Ancestry(told, x)) <= WalkBound + 1
  <2>1. WalkBound \in Nat
    BY AccessAssumption DEF Local!WalkAssumption
  <2>2. CASE x \in {t.user : t \in all} \cup {t.object : t \in all}
    <3>1. IsFiniteSet(Ancestry(all, x)) /\ Cardinality(Ancestry(all, x)) <= WalkBound + 1
      BY <2>2, DepthAssumption
    <3>2. Ancestry(told, x) \subseteq Ancestry(all, x)
      BY <1>1, AncestryGrows
    <3>3. /\ IsFiniteSet(Ancestry(told, x))
          /\ Cardinality(Ancestry(told, x)) <= Cardinality(Ancestry(all, x))
      BY <3>1, <3>2, FS_Subset
    <3>4. Cardinality(Ancestry(told, x)) \in Nat /\ Cardinality(Ancestry(all, x)) \in Nat
      BY <3>1, <3>3, FS_CardinalityType
    <3> QED
      BY <2>1, <3>1, <3>3, <3>4
  <2>3. CASE x \notin {t.user : t \in all} \cup {t.object : t \in all}
    <3>1. Upward(ParentEdges(told), {x})
      BY <1>1, <2>3 DEF Upward, ParentEdges
    <3>2. Ancestry(told, x) = {x}
      BY <3>1, AncestryLeast, AncestryHolds
    <3>3. IsFiniteSet({x}) /\ Cardinality({x}) = 1
      BY FS_Singleton
    <3> QED
      BY <2>1, <3>2, <3>3
  <2> QED
    BY <2>2, <2>3
<1>3. PICK outcome : Levelled(u, d, outcome) /\ Local!Walk(u, d) = outcome[WalkBound + 1][d]
  BY WalkLevels
<1>4. d \in Walked(d)
  BY DEF Walked
<1>5. Sound(u, d, WalkBound + 1, Local!Walk(u, d))
  BY <1>2, <1>3, <1>4, LevelsSound
<1>6. ~(Cardinality(Ancestry(told, d)) > WalkBound + 1)
  <2>1. Cardinality(Ancestry(told, d)) \in Nat /\ WalkBound \in Nat
    BY <1>2, FS_CardinalityType, AccessAssumption DEF Local!WalkAssumption
  <2> QED
    BY <1>2, <2>1
<1>7. Above(u, d) <=> ManagerChain(told, u, d)
  BY DEF Above, ManagerChain
<1> QED
  BY <1>5, <1>6, <1>7 DEF Sound

----------------------------------------------------------------------------
(* Verdicts. *)

(* What the store answers is what the model gives, and it does not give up *)
(* without a cycle.                                                        *)
Verdict(outcome, holds) ==
    /\ outcome \in Outcomes
    /\ "yes" \in outcome => holds
    /\ "no" \in outcome => ~holds
    /\ "raise" \in outcome => Cyclic

LEMMA DefinitelySound == ASSUME NEW b, NEW c, b <=> c PROVE Verdict(Local!Definitely(b), c)
  BY DEF Verdict, Local!Definitely, Outcomes

LEMMA OrElseSound ==
    ASSUME NEW a, NEW b, NEW h, NEW k, Verdict(a, h), b <=> k
    PROVE  Verdict(Local!OrElse(a, Local!Definitely(b)), h \/ k)
<1>1. CASE "no" \in a
  <2>1. Local!OrElse(a, Local!Definitely(b)) = (a \ {"no"}) \cup (IF b THEN {"yes"} ELSE {"no"})
    BY <1>1 DEF Local!OrElse, Local!Definitely
  <2>2. CASE b
    <3>1. "yes" \in Local!OrElse(a, Local!Definitely(b)) /\ "no" \notin Local!OrElse(a, Local!Definitely(b))
      BY <2>1, <2>2
    <3>2. Local!OrElse(a, Local!Definitely(b)) \in Outcomes
      BY <2>1, <2>2 DEF Verdict, Outcomes
    <3>3. "raise" \in Local!OrElse(a, Local!Definitely(b)) => Cyclic
      BY <2>1, <2>2 DEF Verdict
    <3> QED
      BY <2>2, <3>1, <3>2, <3>3 DEF Verdict
  <2>3. CASE ~b
    <3>1. Local!OrElse(a, Local!Definitely(b)) = a
      BY <1>1, <2>1, <2>3 DEF Verdict, Outcomes
    <3> QED
      BY <2>3, <3>1 DEF Verdict
  <2> QED
    BY <2>2, <2>3
<1>2. CASE "no" \notin a
  <2>1. Local!OrElse(a, Local!Definitely(b)) = a /\ \E y \in a : y \in {"yes", "raise"}
    BY <1>2 DEF Local!OrElse, Verdict, Outcomes
  <2> QED
    BY <1>2, <2>1 DEF Verdict
<1> QED
  BY <1>1, <1>2

LEMMA ViewerSound ==
    ASSUME LocalInv, world \in Worlds, NEW u, NEW d
    PROVE  Verdict(Local!Viewer(u, d), DepartmentViewer(told, u, d))
<1>1. Local!HasDirect("member", d, u) <=> Direct(told, u, "member", d)
  BY LocalFacts DEF Local!Structural
<1> QED
  BY <1>1, WalkSound DEF Local!Viewer, DepartmentViewer, Verdict, Outcomes

LEMMA TenantSound ==
    ASSUME LocalInv, NEW u, NEW o, NEW relation \in {"auditor", "finance"}
    PROVE  Local!TenantRelation(u, o, relation) <=> FromTenant(told, u, relation, o)
  BY LocalFacts DEF Local!TenantRelation, FromTenant, Local!Structural

LEMMA ReaderSound ==
    ASSUME LocalInv, world \in Worlds, NEW u, NEW o
    PROVE  Verdict(Local!ReaderOutcome(u, o), Reader(told, u, o))
<1> DEFINE scopes == Subjects(told, "scope", o)
           branches == {Local!Viewer(u, d) : d \in scopes}
           h == \E d \in scopes : DepartmentViewer(told, u, d)
           b == \/ \E t \in Local!Held("tenant_scope", o) : Local!HasDirect("employee", t, u)
                \/ Local!TenantRelation(u, o, "auditor")
                \/ Local!TenantRelation(u, o, "finance")
           k == \/ \E t \in Subjects(told, "tenant_scope", o) : Direct(told, u, "employee", t)
                \/ FromTenant(told, u, "auditor", o)
                \/ FromTenant(told, u, "finance", o)
<1>1. \A d : Verdict(Local!Viewer(u, d), DepartmentViewer(told, u, d))
  BY ViewerSound
<1>2. Verdict(Local!AnyOf(branches), h)
  <2>1. branches \subseteq Outcomes
    BY <1>1 DEF Verdict
  <2>2. /\ Local!AnyOf(branches) \in Outcomes
        /\ "yes" \in Local!AnyOf(branches) <=> \E x \in branches : "yes" \in x
        /\ "no" \in Local!AnyOf(branches) <=> \A x \in branches : "no" \in x
        /\ "raise" \in Local!AnyOf(branches) <=> \E x \in branches : "raise" \in x
    <3> HIDE DEF branches
    <3> QED
      BY <2>1, Branches
  <2> QED
    BY <1>1, <2>2 DEF Verdict
<1>3. b <=> k
  <2>1. Local!Held("tenant_scope", o) = Subjects(told, "tenant_scope", o)
    BY LocalFacts DEF Local!Structural
  <2>2. \A t : Local!HasDirect("employee", t, u) <=> Direct(told, u, "employee", t)
    BY LocalFacts DEF Local!Structural
  <2> QED
    BY <2>1, <2>2, TenantSound
<1>4. Local!ReaderOutcome(u, o) = Local!OrElse(Local!AnyOf(branches), Local!Definitely(b))
  <2>1. Local!Held("scope", o) = scopes
    BY LocalFacts DEF Local!Structural
  <2>2. {Local!Viewer(u, d) : d \in Local!Held("scope", o)} = branches
    BY <2>1
  <2> HIDE DEF branches
  <2> QED
    BY <2>2 DEF Local!ReaderOutcome
<1>5. Reader(told, u, o) <=> h \/ k
  BY DEF Reader
<1> HIDE DEF branches, h, b, k
<1>6. Verdict(Local!OrElse(Local!AnyOf(branches), Local!Definitely(b)), h \/ k)
  BY <1>2, <1>3, OrElseSound
<1> QED
  BY <1>4, <1>5, <1>6 DEF Verdict

LEMMA ExpenseSound ==
    ASSUME LocalInv, NEW u, NEW e, TypeOf(e) = "expense", NEW relation \in Local!KnownRelations
    PROVE  Verdict(Local!Definitely(Local!ExpenseVerdict(u, relation, e)),
                   relation \in Defined(TypeOf(e)) /\ Holds(told, u, relation, e))
<1>1. Local!HasDirect("owner", e, u) <=> Direct(told, u, "owner", e)
  BY LocalFacts DEF Local!Structural
<1>2. (\E d \in Local!Held("department", e) : Local!HasDirect("manager", d, u)) <=> Approver(told, u, e)
  BY LocalFacts DEF Local!Structural, Approver
<1>3. \A r \in {"auditor", "finance"} : Local!TenantRelation(u, e, r) <=> FromTenant(told, u, r, e)
  BY TenantSound
<1>4. Defined(TypeOf(e)) = {"owner", "approver", "viewer", "can_approve"}
  BY DEF Defined
<1>5. CASE relation = "owner"
  <2>1. Local!ExpenseVerdict(u, relation, e)
           <=> relation \in Defined(TypeOf(e)) /\ Holds(told, u, relation, e)
    BY <1>1, <1>4, <1>5 DEF Local!ExpenseVerdict, Holds
  <2> QED
    BY <2>1, ZenonT(30) DEF Verdict, Local!Definitely, Outcomes
<1>6. CASE relation = "approver"
  BY <1>2, <1>4, <1>6, DefinitelySound DEF Local!ExpenseVerdict, Holds
<1>7. CASE relation = "can_approve"
  BY <1>1, <1>2, <1>4, <1>7, DefinitelySound DEF Local!ExpenseVerdict, Holds, CanApprove
<1>8. CASE relation = "viewer"
  BY <1>1, <1>2, <1>3, <1>4, <1>8, DefinitelySound DEF Local!ExpenseVerdict, Holds, ExpenseViewer
<1>9. CASE relation \notin {"owner", "approver", "viewer", "can_approve"}
  BY <1>4, <1>9, DefinitelySound DEF Local!ExpenseVerdict
<1> QED
  BY <1>5, <1>6, <1>7, <1>8, <1>9

(* Every tuple in force is one the model admits. *)
LEMMA ToldAdmitted ==
    ASSUME LocalInv, world \in Worlds, NEW y \in told
    PROVE  y.relation \in Local!Structural \cup Defined(TypeOf(y.object))
<1>1. CASE y \in Toggles
  BY <1>1, TuplesAssumption
<1>2. CASE y \in Seed(world)
  <2>1. SeedTuple(world, y)
    BY <1>2, SeedTuples
  <2>2. /\ Defined("department") = {"member", "manager", "manager_chain", "viewer"}
        /\ Defined("tenant") = {"employee", "auditor", "finance", "admin"}
    BY DEF Defined
  <2> QED
    BY <2>1, <2>2, SeedTyped, Tuples DEF SeedTuple, Local!Structural
<1> QED
  BY <1>1, <1>2 DEF LocalInv

LEMMA ProbesTyped == ASSUME world \in Worlds, NEW o \in Probes PROVE TypeOf(o) \in Local!KnownTypes
  BY SeedTyped, Types, TuplesAssumption DEF Probes, Local!KnownTypes

LEMMA CheckSound ==
    ASSUME LocalInv, world \in Worlds, available, NEW u, NEW o \in Probes,
           NEW relation \in Local!KnownRelations
    PROVE  Verdict(Local!Check(u, relation, o),
                   relation \in Defined(TypeOf(o)) /\ Holds(told, u, relation, o))
<1>1. /\ Local!TypeOf(o) = TypeOf(o)
      /\ TypeOf(o) \in {"department", "expense", "policy_document", "tenant"}
  BY LocalNames, ProbesTyped DEF Local!KnownTypes
<1>2. relation \notin Local!Structural
  BY DEF Local!KnownRelations, Local!Structural
<1>3. Local!HasDirect(relation, o, u) <=> Direct(told, u, relation, o)
  BY <1>2, LocalFacts
<1>4. Direct(told, u, relation, o) => relation \in Defined(TypeOf(o))
  BY <1>2, ToldAdmitted, Tuples DEF Direct
<1>5. CASE TypeOf(o) = "department" /\ relation = "viewer"
  <2>1. Local!Check(u, relation, o) = Local!Viewer(u, o)
    BY <1>1, <1>5 DEF Local!Check
  <2>2. relation \in Defined(TypeOf(o)) /\ (Holds(told, u, relation, o) <=> DepartmentViewer(told, u, o))
    BY <1>5 DEF Defined, Holds
  <2> QED
    BY <2>1, <2>2, ViewerSound DEF Verdict
<1>6. CASE \/ TypeOf(o) = "tenant"
           \/ TypeOf(o) = "department" /\ relation # "viewer"
  <2>1. Local!Check(u, relation, o) = Local!Definitely(Local!HasDirect(relation, o, u))
    BY <1>1, <1>6 DEF Local!Check
  <2>2. relation \in Defined(TypeOf(o)) => (Holds(told, u, relation, o) <=> Direct(told, u, relation, o))
    <3>1. relation # "manager_chain"
      BY DEF Local!KnownRelations
    <3> QED
      BY <1>6, <3>1 DEF Defined, Holds
  <2>3. Local!HasDirect(relation, o, u) <=> relation \in Defined(TypeOf(o)) /\ Holds(told, u, relation, o)
    BY <1>3, <1>4, <2>2
  <2>4. Verdict(Local!Definitely(Local!HasDirect(relation, o, u)),
                relation \in Defined(TypeOf(o)) /\ Holds(told, u, relation, o))
    BY <2>3, ZenonT(30) DEF Verdict, Local!Definitely, Outcomes
  <2> QED
    BY <2>1, <2>4
<1>7. CASE TypeOf(o) = "expense"
  <2>1. Local!Check(u, relation, o) = Local!Definitely(Local!ExpenseVerdict(u, relation, o))
    BY <1>1, <1>7 DEF Local!Check
  <2> QED
    BY <1>7, <2>1, ExpenseSound
<1>8. CASE TypeOf(o) = "policy_document" /\ relation = "reader"
  <2>1. Local!Check(u, relation, o) = Local!ReaderOutcome(u, o)
    BY <1>1, <1>8 DEF Local!Check
  <2>2. relation \in Defined(TypeOf(o)) /\ (Holds(told, u, relation, o) <=> Reader(told, u, o))
    BY <1>8 DEF Defined, Holds
  <2> QED
    BY <2>1, <2>2, ReaderSound DEF Verdict
<1>9. CASE TypeOf(o) = "policy_document" /\ relation # "reader"
  <2>1. Local!Check(u, relation, o) = {"no"}
    BY <1>1, <1>9 DEF Local!Check
  <2>2. relation \notin Defined(TypeOf(o))
    BY <1>9 DEF Defined
  <2> QED
    BY <2>1, <2>2 DEF Verdict, Outcomes
<1> QED
  BY <1>1, <1>5, <1>6, <1>7, <1>8, <1>9

(* While the local store is available it answers every question as the     *)
(* model does over the tuples in force, in every world and after any grant *)
(* and revocation, when it answers at all.                                 *)
THEOREM LocalAgrees == Spec => []LocalAgreesWithModel
<1>1. StoreInv => LocalAgreesWithModel
  <2> SUFFICES ASSUME StoreInv, Probing PROVE LocalAgreesWithModel
    BY DEF LocalAgreesWithModel
  <2>1. LocalInv /\ world \in Worlds /\ available
    BY DEF StoreInv, Started, Probing
  <2> QED
    BY <2>1, CheckSound DEF LocalAgreesWithModel, Verdict
<1> QED
  BY <1>1, AccessInvHolds, PTL DEF AccessInv

(* The local store gives up only where a department can be reached from    *)
(* itself: the bound on the walk is never met by an organisation, however  *)
(* the tuples of it are granted and revoked.                               *)
THEOREM RaisesOnCycles == Spec => []RaisesOnlyOnCycles
<1>1. StoreInv => RaisesOnlyOnCycles
  <2> SUFFICES ASSUME StoreInv, Probing PROVE RaisesOnlyOnCycles
    BY DEF RaisesOnlyOnCycles
  <2>1. LocalInv /\ world \in Worlds /\ available
    BY DEF StoreInv, Started, Probing
  <2> QED
    BY <2>1, CheckSound DEF RaisesOnlyOnCycles, Verdict, Cyclic
<1> QED
  BY <1>1, AccessInvHolds, PTL DEF AccessInv

----------------------------------------------------------------------------
(* Listings. *)

(* A reader needs a tuple about the document. *)
LEMMA ReaderTuple ==
    ASSUME NEW facts, NEW u, NEW o, Reader(facts, u, o)
    PROVE  \E y \in facts : y.object = o /\ y.relation \in {"tenant", "scope", "tenant_scope"}
  BY DEF Reader, FromTenant, Subjects

LEMMA LocalListing ==
    ASSUME LocalInv, world \in Worlds, NEW u, Local!ListReturns(u, "reader", "policy_document")
    PROVE  Local!Listing(u, "reader", "policy_document")
              = {o \in Probes : TypeOf(o) = "policy_document" /\ Reader(told, u, o)}
<1>1. available /\ "reader" \in Local!KnownRelations
  BY DEF Local!ListReturns
<1>2. \A o : o \in Local!Candidates("policy_document") <=> o \in indexed /\ TypeOf(o) = "policy_document"
  BY LocalNames DEF Local!Candidates
<1>3. indexed \subseteq Probes
  BY DEF LocalInv
<1>4. ASSUME NEW o \in Probes, TypeOf(o) = "policy_document"
      PROVE  Verdict(Local!Check(u, "reader", o), Reader(told, u, o))
  <2>1. "reader" \in Defined(TypeOf(o)) /\ (Holds(told, u, "reader", o) <=> Reader(told, u, o))
    BY <1>4 DEF Defined, Holds
  <2> QED
    BY <1>1, <2>1, CheckSound DEF Verdict
<1>5. ASSUME NEW o \in Probes, TypeOf(o) = "policy_document", Reader(told, u, o)
      PROVE  o \in indexed
  <2>1. PICK y \in told : y.object = o /\ y.relation \in {"tenant", "scope", "tenant_scope"}
    BY <1>5, ReaderTuple
  <2> QED
    BY <2>1 DEF LocalInv, Local!Structural
<1>6. ASSUME NEW o \in Probes, TypeOf(o) = "policy_document", Reader(told, u, o)
      PROVE  "yes" \in Local!Check(u, "reader", o)
  <2>1. Local!Check(u, "reader", o) # {"raise"}
    BY <1>2, <1>5, <1>6 DEF Local!ListReturns
  <2> QED
    BY <1>4, <1>6, <2>1 DEF Verdict, Outcomes
<1>7. ASSUME NEW o \in Probes, TypeOf(o) = "policy_document", "yes" \in Local!Check(u, "reader", o)
      PROVE  Reader(told, u, o)
  BY <1>4, <1>7 DEF Verdict
<1> QED
  BY <1>2, <1>3, <1>5, <1>6, <1>7 DEF Local!Listing

LEMMA RemoteNames ==
    /\ \A o : Remote!TypeOf(o) = TypeOf(o)
    /\ \A facts, u, o : Remote!Holds(facts, u, "reader", o) <=> Reader(facts, u, o)
<1>1. \A o : Remote!TypeOf(o) = TypeOf(o)
  BY DEF Remote!TypeOf, TypeOf
<1>2. /\ \A facts, r, o : Remote!Subjects(facts, r, o) = Subjects(facts, r, o)
      /\ \A facts, u, r, o : Remote!Direct(facts, u, r, o) = Direct(facts, u, r, o)
      /\ \A facts, d : Remote!Ancestry(facts, d) = Ancestry(facts, d)
  BY DEF Remote!Subjects, Subjects, Remote!Direct, Direct, Remote!Tuple, Tuple,
         Remote!Ancestry, Ancestry, Remote!Upward, Upward, Remote!ParentEdges, ParentEdges
<1>3. \A facts, u, d : Remote!DepartmentViewer(facts, u, d) <=> DepartmentViewer(facts, u, d)
  BY <1>2 DEF Remote!DepartmentViewer, DepartmentViewer, Remote!ManagerChain, ManagerChain
<1>4. \A facts, u, r, o : Remote!FromTenant(facts, u, r, o) <=> FromTenant(facts, u, r, o)
  BY <1>2 DEF Remote!FromTenant, FromTenant
<1>5. \A facts, u, o : Remote!Reader(facts, u, o) <=> Reader(facts, u, o)
  BY <1>2, <1>3, <1>4 DEF Remote!Reader, Reader
<1>6. \A facts, u, o : Remote!Holds(facts, u, "reader", o) <=> Remote!Reader(facts, u, o)
  BY DEF Remote!Holds
<1> QED
  BY <1>1, <1>5, <1>6

LEMMA RemoteListing ==
    ASSUME StoreInv, Started, backend = "openfga", NEW u
    PROVE  Remote!RemoteListing(u, "reader", "policy_document")
              = {o \in Probes : TypeOf(o) = "policy_document" /\ Reader(told, u, o)}
<1>1. told = remote
  BY DEF StoreInv, RemoteInv
<1>2. \A o : o \in Remote!RemoteListing(u, "reader", "policy_document") <=>
               /\ \E y \in told : o = y.object
               /\ TypeOf(o) = "policy_document" /\ Reader(told, u, o)
  BY <1>1, RemoteNames DEF Remote!RemoteListing
<1>3. Remote!RemoteListing(u, "reader", "policy_document") \subseteq Probes
  BY ListingProbed
<1>4. \A o : Reader(told, u, o) => \E y \in told : o = y.object
  BY ReaderTuple
<1> QED
  BY <1>2, <1>3, <1>4

(* A listing gives exactly the documents the model lets the asker read     *)
(* over the tuples in force when it is made, with either store; while the  *)
(* local store is out there is no listing at all.                          *)
THEOREM ListingExact == Spec => ListingIsExact
<1> DEFINE Exact == stage = "idle" /\ stage' \in {"listed", "answered"} =>
                       /\ backend = "local" => available
                       /\ allowed' = {o \in Probes : TypeOf(o) = "policy_document"
                                                     /\ Reader(told, asker'.id, o)}
<1>1. StoreInv /\ [Next]_vars => Exact
  <2> SUFFICES ASSUME StoreInv, [Next]_vars, stage = "idle", stage' \in {"listed", "answered"}
               PROVE  /\ backend = "local" => available
                      /\ allowed' = {o \in Probes : TypeOf(o) = "policy_document"
                                                    /\ Reader(told, asker'.id, o)}
    OBVIOUS
  <2>1. PICK p \in Askers, d \in Days : Retrieve(p, d)
    BY DEF Next, Build, BuildFails, Mutate, File, RetrieveRaises, Begins, Search, Return, vars, request
  <2>2. asker' = p /\ world \in Worlds /\ Started /\ backend \in {"local", "openfga"}
    BY <2>1 DEF Retrieve, Begins, StoreInv, Started
  <2>3. CASE backend = "local"
    <3>1. LocalInv /\ Local!ListReturns(p.id, "reader", "policy_document")
          /\ allowed' = Local!Listing(p.id, "reader", "policy_document")
      BY <2>1, <2>2, <2>3 DEF Retrieve, Begins, StoreInv
    <3>2. available
      BY <3>1 DEF Local!ListReturns
    <3> QED
      BY <2>2, <3>1, <3>2, LocalListing
  <2>4. CASE backend = "openfga"
    <3>1. allowed' = Remote!RemoteListing(p.id, "reader", "policy_document")
      BY <2>1, <2>4 DEF Retrieve, Begins
    <3> QED
      BY <2>2, <2>4, <3>1, RemoteListing
  <2> QED
    BY <2>2, <2>3, <2>4
<1> QED
  BY <1>1, AccessInvHolds, PTL DEF AccessInv, ListingIsExact, Spec

=============================================================================
