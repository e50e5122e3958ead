----------------------------- MODULE MCAdmission ----------------------------
(* Admission of two requests at a time and one client assertion.           *)
EXTENDS Admission

CONSTANTS r1, r2, a1

MCExpiry == [a \in Assertions |-> 5]
=============================================================================
