--------------------------- MODULE MCWriteScenes ---------------------------
(* ExpenseWrite for TLC: two pictures of one order, or one of them and a     *)
(* text, each with two concurrent calls.                                    *)
EXTENDS MCExpenseWrite

\* The messages of the scene.
VARIABLE cast

MCInit == Init /\ cast \in {{m1, m2}, {m1, m3}, {m2, m3}}
MCNext == Next /\ UNCHANGED cast /\ \A w \in Workers : job'[w].msg \in cast \cup {NoMsg}
MCSpec == MCInit /\ [][MCNext]_<<vars, cast>>

\* The calls may be exchanged, and m1 and m2 with their pictures.
WorkerSymmetry == Permutations(Workers)
Exchange == m1 :> m2 @@ m2 :> m1 @@ i1 :> i2 @@ i2 :> i1
TwoImagesSymmetry == WorkerSymmetry \cup {p @@ Exchange : p \in WorkerSymmetry}
============================================================================
