--------------------------- MODULE MCConfirmScenes ---------------------------
(* Confirmation for TLC.  One run plays several scenes, each with a few of  *)
(* the messages and with one or two runs at a time.                         *)
EXTENDS MCConfirmation

VARIABLE scene

\* Two texts; a text and two pictures; a picture sent again; numbered replies;
\* as many pictures as reach the limit; what is written.
Scenes ==
    {[cast |-> {t1, t2, r1},     calls |-> 2, writes |-> FALSE],
     [cast |-> {t1, p1, p2, r1}, calls |-> 1, writes |-> FALSE],
     [cast |-> {p1, p3, r1},     calls |-> 1, writes |-> FALSE],
     [cast |-> {p1, p2, r1, r2}, calls |-> 1, writes |-> FALSE],
     [cast |-> {p1, p2, p4},     calls |-> 1, writes |-> FALSE],
     [cast |-> {p1, r1, r2},     calls |-> 2, writes |-> TRUE]}

MCInit == Init /\ scene \in Scenes
MCNext ==
    /\ Next
    /\ known' \subseteq scene.cast
    /\ Cardinality({c \in Calls : call'[c] # Idle}) <= scene.calls
    /\ UNCHANGED scene

MCSpec == MCInit /\ [][MCNext]_<<vars, scene>>

\* Nothing but Write reads what was written, so the scenes that do not ask about
\* it may tell states apart without it.
Watched == <<scene, inbound, tables, call, history, IF scene.writes THEN writes ELSE <<>>>>

CallSymmetry == Permutations(Calls)
==============================================================================
