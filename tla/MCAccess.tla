------------------------------ MODULE MCAccess ------------------------------
(***************************************************************************)
(* Access with two tenants.  The first has three departments, each with a  *)
(* head, a manager of part of it and two employees; the third department   *)
(* hangs under the first or the second, and the second or third has an     *)
(* addendum.  The second tenant is one department of one person.           *)
(***************************************************************************)
EXTENDS Access

MCWorlds ==
    LET shape == [departments |-> 3, maxDepth |-> 3, employees |-> 9, span |-> 1]
        small == [departments |-> 1, maxDepth |-> 3, employees |-> 1, span |-> 1]
    IN {[t \in {1, 2} |->
            IF t = 1 THEN [shape |-> shape, tree |-> tree, addenda |-> {tree[3] + 1}]
            ELSE [shape |-> small, tree |-> <<0>>, addenda |-> {1}]] : tree \in Trees(shape)}

Owner == HeadOf(1, 1)

Expense(n, owner) ==
    [id |-> Obj("expense", <<1, n>>), tenant |-> TenantId(1), owner |-> owner,
     department |-> DepartmentId(1, 1)]

(* The head's own expense, a parent edge that closes a cycle, and one      *)
(* tuple of each other kind a request depends on.                          *)
MCToggles ==
    {Tuple(Owner, "owner", Expense(1, Owner).id),
     Tuple(DepartmentId(1, 1), "department", Expense(1, Owner).id),
     Tuple(DepartmentId(1, 3), "parent", DepartmentId(1, 1)),
     Tuple(DepartmentId(1, 3), "scope", DocumentId(1, "addendum", 3)),
     Tuple(TenantId(1), "tenant_scope", DocumentId(1, "global", 2)),
     Tuple(UserId(1, 3, "member", 0), "member", DepartmentId(1, 3))}

MCFilings == <<Expense(1, Owner), Expense(2, UserId(1, 1, "member", 0))>>

Asker(t, id) == [id |-> id, tenant |-> TenantId(t)]

MCAskers == {Asker(1, UserId(1, 3, "member", 0)), Asker(1, UserId(1, 0, "finance", 0))}

MCProbed ==
    MCAskers \cup {Asker(1, HeadOf(1, 1)), Asker(1, UserId(1, 2, "chunk", 1)),
                   Asker(1, UserId(1, 0, "admin", 0)), Asker(2, HeadOf(2, 1))}
=============================================================================
