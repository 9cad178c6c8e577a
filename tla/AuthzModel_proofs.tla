------------------------- MODULE AuthzModel_proofs -------------------------
(***************************************************************************)
(* Proofs about the authorisation model for every set of tuples.           *)
(***************************************************************************)
EXTENDS AuthzModel, Induction

----------------------------------------------------------------------------
(* What is above a department. *)

LEMMA AncestryHolds == ASSUME NEW facts, NEW d PROVE d \in Ancestry(facts, d)
  BY DEF Ancestry

LEMMA AncestryUp == ASSUME NEW facts, NEW d PROVE Upward(ParentEdges(facts), Ancestry(facts, d))
  BY DEF Ancestry, Upward

LEMMA AncestryLeast ==
    ASSUME NEW facts, NEW d, NEW S, d \in S, Upward(ParentEdges(facts), S)
    PROVE  Ancestry(facts, d) \subseteq S
<1> DEFINE reach == {d} \cup {e.user : e \in ParentEdges(facts)}
           part == S \cap reach
<1>1. part \in SUBSET reach /\ d \in part
  OBVIOUS
<1>2. Upward(ParentEdges(facts), part)
  BY DEF Upward
<1> QED
  BY <1>1, <1>2 DEF Ancestry

(* What is above something above is above. *)
LEMMA AncestryPasses ==
    ASSUME NEW facts, NEW d, NEW a \in Ancestry(facts, d)
    PROVE  Ancestry(facts, a) \subseteq Ancestry(facts, d)
  BY AncestryUp, AncestryLeast

LEMMA AncestryOfParent ==
    ASSUME NEW facts, NEW d, NEW p \in Subjects(facts, "parent", d)
    PROVE  p \in Ancestry(facts, d)
<1>1. PICK e \in ParentEdges(facts) : e.object = d /\ e.user = p
  BY DEF Subjects, ParentEdges
<1> QED
  BY <1>1, AncestryHolds, AncestryUp DEF Upward

(* A department is above itself, and so is what is above its parents. *)
LEMMA AncestrySplits ==
    ASSUME NEW facts, NEW d, NEW a \in Ancestry(facts, d), a # d
    PROVE  \E p \in Subjects(facts, "parent", d) : a \in Ancestry(facts, p)
<1> DEFINE S == {d} \cup UNION {Ancestry(facts, p) : p \in Subjects(facts, "parent", d)}
<1>1. ASSUME NEW e \in ParentEdges(facts), e.object \in S
      PROVE  e.user \in S
  <2>1. CASE e.object = d
    <3>1. e.user \in Subjects(facts, "parent", d)
      BY <2>1 DEF Subjects, ParentEdges
    <3> QED
      BY <3>1, AncestryHolds
  <2>2. CASE e.object # d
    <3>1. PICK p \in Subjects(facts, "parent", d) : e.object \in Ancestry(facts, p)
      BY <1>1, <2>2
    <3>2. e.user \in Ancestry(facts, p)
      BY <3>1, AncestryUp DEF Upward
    <3> QED
      BY <3>2
  <2> QED
    BY <2>1, <2>2
<1>2. Upward(ParentEdges(facts), S)
  BY <1>1 DEF Upward
<1>3. Ancestry(facts, d) \subseteq S
  <2>1. d \in S
    OBVIOUS
  <2> HIDE DEF S
  <2> QED
    BY <2>1, <1>2, AncestryLeast
<1> QED
  BY <1>3

LEMMA AncestryGrows ==
    ASSUME NEW facts, NEW more, facts \subseteq more, NEW d
    PROVE  Ancestry(facts, d) \subseteq Ancestry(more, d)
<1>1. Upward(ParentEdges(facts), Ancestry(more, d))
  BY AncestryUp DEF Upward, ParentEdges
<1> QED
  BY <1>1, AncestryHolds, AncestryLeast

----------------------------------------------------------------------------
(* A partly written expense. *)

(* The tuples of an expense that are on the server after n of them. *)
Written(x, n) == {ExpenseTuples(x)[i] : i \in 1..n}

(* An expense about which nothing has been written.                        *)
Unwritten(facts, x) ==
    /\ TypeOf(x.id) = "expense"
    /\ \A f \in facts : f.object # x.id

LEMMA ExpenseTuple ==
    ASSUME NEW x, NEW n \in 0..3, NEW t
    PROVE  t \in Written(x, n) <=>
              \/ n >= 1 /\ t = Tuple(x.tenant, "tenant", x.id)
              \/ n >= 2 /\ t = Tuple(x.owner, "owner", x.id)
              \/ n = 3 /\ t = Tuple(x.department, "department", x.id)
<1>1. /\ ExpenseTuples(x)[1] = Tuple(x.tenant, "tenant", x.id)
      /\ ExpenseTuples(x)[2] = Tuple(x.owner, "owner", x.id)
      /\ ExpenseTuples(x)[3] = Tuple(x.department, "department", x.id)
  BY DEF ExpenseTuples
<1>2. \A i \in 1..n : i = 1 \/ i = 2 \/ i = 3
  OBVIOUS
<1> QED
  BY <1>1, <1>2 DEF Written

(* What the tuples of an expense say once n of them are written: the       *)
(* expense has an approver only if it has its owner.                       *)
Says(all, facts, x, n, u) ==
    /\ Direct(all, u, "owner", x.id) <=> n >= 2 /\ u = x.owner
    /\ Subjects(all, "tenant", x.id) = IF n >= 1 THEN {x.tenant} ELSE {}
    /\ Subjects(all, "department", x.id) = IF n = 3 THEN {x.department} ELSE {}
    /\ \A relation \in {"manager", "auditor", "finance"} : \A o :
          Direct(all, u, relation, o) <=> Direct(facts, u, relation, o)

(* Of what bears on an expense, all holds just what facts hold and the     *)
(* first n tuples of the expense.                                          *)
Carries(all, facts, x, n) ==
    \A t : t.object = x.id \/ t.relation \in {"manager", "auditor", "finance"} =>
              (t \in all <=> t \in facts \/ t \in Written(x, n))

LEMMA ExpenseFacts ==
    ASSUME NEW facts, NEW x, Unwritten(facts, x), NEW n \in 0..3, NEW u,
           NEW all, Carries(all, facts, x, n)
    PROVE  Says(all, facts, x, n, u)
<1>1. \A t : t.object = x.id \/ t.relation \in {"manager", "auditor", "finance"} =>
         (t \in all <=>
         \/ t \in facts
         \/ n >= 1 /\ t = Tuple(x.tenant, "tenant", x.id)
         \/ n >= 2 /\ t = Tuple(x.owner, "owner", x.id)
         \/ n = 3 /\ t = Tuple(x.department, "department", x.id))
  BY ExpenseTuple DEF Carries
<1>2. \A a, b, c : LET t == Tuple(a, b, c)
                   IN t.user = a /\ t.relation = b /\ t.object = c
  BY DEF Tuple
<1>3. Direct(all, u, "owner", x.id) <=> n >= 2 /\ u = x.owner
  BY <1>1, <1>2 DEF Direct, Unwritten
<1>4. \A t \in all : t.relation = "tenant" /\ t.object = x.id
                        => n >= 1 /\ t.user = x.tenant
  BY <1>1, <1>2 DEF Unwritten
<1>5. \A t \in all : t.relation = "department" /\ t.object = x.id
                        => n = 3 /\ t.user = x.department
  BY <1>1, <1>2 DEF Unwritten
<1>6. n >= 1 => Tuple(x.tenant, "tenant", x.id) \in all
  BY <1>1, <1>2
<1>7. n = 3 => Tuple(x.department, "department", x.id) \in all
  BY <1>1, <1>2
<1>8. Subjects(all, "tenant", x.id) = IF n >= 1 THEN {x.tenant} ELSE {}
  BY <1>2, <1>4, <1>6 DEF Subjects
<1>9. Subjects(all, "department", x.id) = IF n = 3 THEN {x.department} ELSE {}
  BY <1>2, <1>5, <1>7 DEF Subjects
<1>10. \A relation \in {"manager", "auditor", "finance"} : \A o :
          Direct(all, u, relation, o) <=> Direct(facts, u, relation, o)
  BY <1>1, <1>2 DEF Direct
<1> QED
  BY <1>3, <1>8, <1>9, <1>10 DEF Says

(* Whatever holds with a part of the tuples of an expense holds with all.  *)
LEMMA PartHolds ==
    ASSUME NEW facts, NEW x, Unwritten(facts, x), NEW n \in 0..3, NEW u,
           NEW part, Carries(part, facts, x, n),
           NEW whole, Carries(whole, facts, x, 3),
           NEW relation \in Defined("expense"),
           Holds(part, u, relation, x.id)
    PROVE  Holds(whole, u, relation, x.id)
<1>1. Says(part, facts, x, n, u)
  BY ExpenseFacts
<1>2. Says(whole, facts, x, 3, u)
  <2>1. 3 \in 0..3
    OBVIOUS
  <2> QED
    BY <2>1, ExpenseFacts
<1>3. Approver(part, u, x.id) => n = 3 /\ Approver(whole, u, x.id)
  BY <1>1, <1>2 DEF Approver, Says
<1>4. \A rel \in {"auditor", "finance"} :
         FromTenant(part, u, rel, x.id) => FromTenant(whole, u, rel, x.id)
  BY <1>1, <1>2 DEF FromTenant, Says
<1>5. CanApprove(part, u, x.id) => CanApprove(whole, u, x.id)
  BY <1>1, <1>2, <1>3 DEF CanApprove, Says
<1>6. ExpenseViewer(part, u, x.id) => ExpenseViewer(whole, u, x.id)
  BY <1>1, <1>2, <1>3, <1>4 DEF ExpenseViewer, Says
<1>7. relation \in {"owner", "approver", "viewer", "can_approve"}
  BY DEF Defined
<1> QED
  BY <1>1, <1>2, <1>3, <1>5, <1>6, <1>7 DEF Holds, Unwritten, Says

(* However far the writing of an expense has come when it fails, nobody    *)
(* stands in a relation to the expense in which the whole expense would    *)
(* not put him: the owner is written before the department, so that an     *)
(* approver is never read without the owner that excludes him.             *)
THEOREM PrefixGivesNoMore ==
    ASSUME NEW facts, NEW x, Unwritten(facts, x), NEW n \in 0..3, NEW u,
           NEW relation \in Defined("expense"),
           Holds(facts \cup Written(x, n), u, relation, x.id)
    PROVE  Holds(facts \cup Written(x, 3), u, relation, x.id)
<1>1. Carries(facts \cup Written(x, n), facts, x, n)
  BY DEF Carries
<1>2. Carries(facts \cup Written(x, 3), facts, x, 3)
  BY DEF Carries
<1> QED
  BY <1>1, <1>2, PartHolds
=============================================================================
