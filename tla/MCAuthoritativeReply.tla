------------------------ MODULE MCAuthoritativeReply ------------------------
(* Values for the constants of AuthoritativeReply: each message has a run,   *)
(* m1 and m2 come from the first person, m3 from the second.                *)
EXTENDS AuthoritativeReply, TLC

CONSTANTS r1, r2, r3, m1, m2, m3, d1, d2, p1, p2

Asked == [r \in Runs |-> CASE r = r1 -> m1 [] r = r2 -> m2 [] OTHER -> m3]
Homes == [m \in Messages |-> IF m = m3 THEN d2 ELSE d1]
Owners == [d \in Deliveries |-> IF d = d1 THEN p1 ELSE p2]

\* Sends that are in progress together go to the same delivery, and one payload
\* waits at a time.
MCNext ==
    /\ Next
    /\ \A s, t \in Sends : /\ send'[s] # Idle /\ send'[t] # Idle => send'[s].to = send'[t].to
                           /\ payload'[s] # Idle /\ payload'[t] # Idle => s = t
MCSpec == Init /\ [][MCNext]_vars

\* The sends are alike, and so are the first two messages with their runs.
Alike == {r1 :> r1 @@ r2 :> r2 @@ m1 :> m1 @@ m2 :> m2, r1 :> r2 @@ r2 :> r1 @@ m1 :> m2 @@ m2 :> m1}
ReplySymmetry == {p @@ q : p \in Permutations(Sends), q \in Alike}
=============================================================================
