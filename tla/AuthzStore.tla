----------------------------- MODULE AuthzStore -----------------------------
(***************************************************************************)
(* The in-process store of fsa_authz/local.py: tuples are routed into the  *)
(* direct facts or the structural maps, check evaluates the rules of the   *)
(* model over them with a bounded walk, and list_objects checks every      *)
(* object it has seen in a structural tuple.                               *)
(*                                                                         *)
(* A question has a set of outcomes among "yes", "no" and "raise": sets    *)
(* are iterated in an order that depends on the process's hash seed, and   *)
(* any() stops at the first branch that is true or raises.                 *)
(***************************************************************************)
EXTENDS AuthzModel

CONSTANT WalkBound  \* department levels _manager_chain goes up before it raises

WalkAssumption == WalkBound \in Nat

VARIABLES
    direct,      \* LocalAuthorizationStore._direct
    structural,  \* _parent, _dept_of_expense, _tenant_of, _scope_of_doc, _tenant_scope_of_doc
    indexed,     \* _objects_by_type
    available    \* _available

store == <<direct, structural, indexed, available>>

KnownRelations ==
    {"member", "manager", "viewer", "owner", "approver", "can_approve", "reader",
     "employee", "auditor", "finance", "admin"}

KnownTypes == {"department", "expense", "policy_document", "tenant"}

Structural == {"parent", "department", "tenant", "scope", "tenant_scope"}

----------------------------------------------------------------------------
(* Outcomes. *)

Definitely(b) == IF b THEN {"yes"} ELSE {"no"}

OrElse(a, b) == IF "no" \in a THEN (a \ {"no"}) \cup b ELSE a

(* any() over branches evaluated in some order. *)
AnyOf(branches) ==
    ((UNION branches) \ {"no"}) \cup (IF \A b \in branches : "no" \in b THEN {"no"} ELSE {})

HasDirect(relation, object, u) == Tuple(u, relation, object) \in direct

(* The values a structural map holds for an object. *)
Held(relation, object) == Subjects(structural, relation, object)

(* Mutant: membership is carried down the tree as managership is. *)
ManagesOrMember(u, d) == HasDirect("manager", d, u) \/ HasDirect("member", d, u)

Manages(u, d) == HasDirect("manager", d, u)

(* Mutant: the walk stops one level early. *)
LevelsShort == WalkBound

(* The depths 0..32 at which a department is looked at. *)
Levels == WalkBound + 1

(* _manager_chain with left levels still allowed. *)
Walk(u, d) ==
    LET departments == {d} \cup UNION {{t.user, t.object} : t \in
                            {f \in structural : f.relation = "parent"}}
        outcome[left \in 0..Levels] ==
            IF left = 0 THEN [x \in departments |-> {"raise"}]
            ELSE LET above == outcome[left - 1]
                 IN [x \in departments |->
                        IF Manages(u, x) THEN {"yes"}
                        ELSE AnyOf({above[p] : p \in Held("parent", x)})]
    IN outcome[Levels][d]

Viewer(u, d) == IF HasDirect("member", d, u) THEN {"yes"} ELSE Walk(u, d)

TenantRelation(u, object, relation) ==
    \E t \in Held("tenant", object) : HasDirect(relation, t, u)

ReaderOutcome(u, doc) ==
    OrElse(AnyOf({Viewer(u, d) : d \in Held("scope", doc)}),
           Definitely(\/ \E t \in Held("tenant_scope", doc) : HasDirect("employee", t, u)
                      \/ TenantRelation(u, doc, "auditor")
                      \/ TenantRelation(u, doc, "finance")))

ExpenseVerdict(u, relation, e) ==
    LET isOwner == HasDirect("owner", e, u)
        isApprover == \E d \in Held("department", e) : HasDirect("manager", d, u)
    IN CASE relation = "owner" -> isOwner
         [] relation = "approver" -> isApprover
         [] relation = "can_approve" -> isApprover /\ ~isOwner
         [] relation = "viewer" -> \/ isOwner \/ isApprover
                                   \/ TenantRelation(u, e, "auditor")
                                   \/ TenantRelation(u, e, "finance")
         [] OTHER -> FALSE

(* check.  manager_chain is a relation of the model and not a known one. *)
Check(u, relation, object) ==
    CASE ~available \/ relation \notin KnownRelations -> {"raise"}
      [] TypeOf(object) = "department" ->
            IF relation = "viewer" THEN Viewer(u, object)
            ELSE Definitely(HasDirect(relation, object, u))
      [] TypeOf(object) = "expense" -> Definitely(ExpenseVerdict(u, relation, object))
      [] TypeOf(object) = "policy_document" ->
            IF relation = "reader" THEN ReaderOutcome(u, object) ELSE {"no"}
      [] TypeOf(object) = "tenant" -> Definitely(HasDirect(relation, object, u))
      [] OTHER -> {"no"}

(* list_objects checks every candidate, and raises when one of the checks  *)
(* does.  No check has both "yes" and "no" among its outcomes.             *)
Candidates(type) == {o \in indexed : TypeOf(o) = type}

ListRaises(u, relation, type) ==
    \/ ~available \/ relation \notin KnownRelations \/ type \notin KnownTypes
    \/ \E o \in Candidates(type) : "raise" \in Check(u, relation, o)

ListReturns(u, relation, type) ==
    /\ available /\ relation \in KnownRelations /\ type \in KnownTypes
    /\ \A o \in Candidates(type) : Check(u, relation, o) # {"raise"}

Listing(u, relation, type) == {o \in Candidates(type) : "yes" \in Check(u, relation, o)}

----------------------------------------------------------------------------
(* __init__ with a list of tuples: only three of the structural maps index *)
(* their objects.                                                          *)
Load(tuples) ==
    /\ structural' = {t \in tuples : t.relation \in Structural}
    /\ direct' = {t \in tuples : t.relation \notin Structural}
    /\ indexed' = {t.object : t \in {x \in tuples :
                                x.relation \in {"tenant", "scope", "tenant_scope"}}}
    /\ available' = TRUE

(* _apply(add=True); an unknown relation raises and changes nothing. *)
Grant(t) ==
    /\ \/ /\ t.relation \in Structural
          /\ structural' = structural \cup {t}
          /\ indexed' = indexed \cup {t.object}
          /\ UNCHANGED direct
       \/ /\ t.relation \in KnownRelations
          /\ direct' = direct \cup {t}
          /\ UNCHANGED <<structural, indexed>>
    /\ UNCHANGED available

(* Mutant: only the direct facts are touched, and a revoked scope, parent  *)
(* or tenant tuple stays.                                                  *)
RevokeDirect(t) ==
    /\ t.relation \in Structural \cup KnownRelations
    /\ direct' = direct \ {t}
    /\ UNCHANGED <<structural, indexed, available>>

(* _apply(add=False): the object stays in the index of its type. *)
Revoke(t) ==
    /\ \/ /\ t.relation \in Structural
          /\ structural' = structural \ {t}
          /\ UNCHANGED direct
       \/ /\ t.relation \in KnownRelations
          /\ direct' = direct \ {t}
          /\ UNCHANGED structural
    /\ UNCHANGED <<indexed, available>>

SetAvailable(b) ==
    /\ available' = b
    /\ UNCHANGED <<direct, structural, indexed>>
=============================================================================
