--------------------------- MODULE MCExpenseWrite ---------------------------
(* Values for the constants of ExpenseWrite: pictures and texts of one user. *)
EXTENDS LedgerPromise, TLC

CONSTANTS m1, m2, m3, i1, i2

\* every message carries the same picture
ResentImage == [m \in Messages |-> i1]
\* m1 and m3 are the same picture, m2 another one (of the same order, say)
TwoImages == [m \in Messages |-> IF m = m2 THEN i2 ELSE i1]
\* m1 and m2 are different pictures, m3 is a text
ImagesAndText == [m \in Messages |-> IF m = m3 THEN NoImage ELSE TwoImages[m]]

=============================================================================
