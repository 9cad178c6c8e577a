------------------------------ MODULE AuditLog ------------------------------
(***************************************************************************)
(* What an audit log promises, whatever it is made of: an entry that has   *)
(* been stored stays stored, and a writer is told that its entry is safe   *)
(* only when it is.                                                        *)
(***************************************************************************)
CONSTANT Entries

VARIABLES
    stored,   \* entries that no crash can take any more
    promised  \* entries whose writer has been told so

Init == stored = {} /\ promised = {}

(* Entries become safe, in batches of any size. *)
Store ==
    /\ stored \subseteq stored'
    /\ stored' \subseteq Entries
    /\ promised' = promised

(* One writer is told; its entry may become safe in the same step. *)
Promise ==
    /\ stored \subseteq stored'
    /\ stored' \subseteq Entries
    /\ \E e \in stored' : promised' = promised \cup {e}

Next == Store \/ Promise

Spec == Init /\ [][Next]_<<stored, promised>>
=============================================================================
