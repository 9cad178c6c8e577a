---------------------------- MODULE MCFraudWorld ----------------------------
(***************************************************************************)
(* FraudWorld with an employee and the manager, who share a vendor for     *)
(* meals, and a vendor for flights only the manager uses.                  *)
(***************************************************************************)
EXTENDS FraudWorld

Employee == <<"user", "employee">>

Lead == <<"user", "lead">>

MCUsers ==
    <<[id |-> Employee, department |-> "sales", role |-> "employee", manager |-> Lead,
       joined |-> 0, mix |-> {"meals"}],
      [id |-> Lead, department |-> "sales", role |-> "manager", manager |-> None,
       joined |-> 30, mix |-> {"meals", "travel_air"}]>>

MCVendors ==
    {[id |-> <<"vendor", "cafe">>, category |-> "meals", firstSeen |-> -30],
     [id |-> <<"vendor", "airways">>, category |-> "travel_air", firstSeen |-> -400]}

(* A small amount, and two of three legs: one divides without loss, the    *)
(* last leg of the other is cut.                                           *)
MCAmounts == [category \in {"meals", "travel_air"} |-> IF category = "meals" THEN {1} ELSE {23, 32}]

MCGrades == [u \in {Employee, Lead} |-> IF u = Lead THEN 5 ELSE 1]
=============================================================================
