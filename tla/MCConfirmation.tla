--------------------------- MODULE MCConfirmation ---------------------------
(* Values for the constants of Confirmation.                                *)
EXTENDS Confirmation, TLC

CONSTANTS t1, t2, p1, p2, p3, p4, r1, r2

\* p1 and p3 are the same picture
Shown == [p \in Pictures |-> IF p = p3 THEN p1 ELSE p]
\* r1 says yes, r2 no; r2 names the first proposal
Decisions == [r \in Replies |-> IF r = r1 THEN "confirm" ELSE "cancel"]
Named     == [r \in Replies |-> IF r = r2 THEN 1 ELSE 0]

=============================================================================
