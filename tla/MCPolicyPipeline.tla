-------------------------- MODULE MCPolicyPipeline --------------------------
(***************************************************************************)
(* PolicyPipeline with two runs of principals of different tenants.  The   *)
(* documents are a global policy of each tenant and a department addendum  *)
(* of the first; both tenants' policies number their rules alike.          *)
(***************************************************************************)
EXTENDS PolicyPipeline

CONSTANTS r1, r2, g1, a1, g2, meals, taxi

At(d, rule) == [document |-> d, rule |-> rule]

MCSearchable ==
    [r \in Runs |-> IF r = r1 THEN {At(g1, meals), At(a1, taxi)} ELSE {At(g2, meals)}]

(* A text that does not parse, a sound citation, one of a rule not shown,  *)
(* and a rule under the id of another document.                            *)
MCReplies ==
    {{}, {At(g1, meals)}, {At(a1, taxi)}, {At(g2, meals), At(a1, taxi)}}
=============================================================================
