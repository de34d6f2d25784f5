-------------------------- MODULE GuardSupervisor --------------------------
(***************************************************************************)
(* The guardian that shares the ledger's network and process namespace and  *)
(* runs the tunnel that publishes it.  It verifies the origin over and      *)
(* over; after two successes in a row it starts the publisher, and on any   *)
(* doubt it kills it.  The publisher may exit by itself; its exit reaches   *)
(* the guardian as an event, after it was replaced or forgotten as well.    *)
(*                                                                         *)
(* Everything between two awaits is one step.                               *)
(***************************************************************************)
EXTENDS Integers

CONSTANTS Publishers,   \* processes of the tunnel, an id is reused once its exit was seen
          NoPublisher,
          MaxFaults     \* bound of what the world does: exits, verdicts of the origin, deaths

VARIABLES
    pc,       \* the await of the loop: verify, ready, delay; or ended with the process
    stop,     \* a signal was received
    stable,   \* successes in a row, 2 stands for all that are enough
    holdoff,  \* restartAfter lies ahead
    child,    \* the handle of the publisher
    state,    \* of each publisher: none, running, exited with the event to come
    origin,   \* TRUE while the origin is what the policy says and answers
    saw,      \* the verdicts the running verification can come to
    streak,   \* history: successful verifications since the last failure or exit
    faults

vars == <<pc, stop, stable, holdoff, child, state, origin, saw, streak, faults>>

Running == {p \in Publishers : state[p] = "running"}

(* Types; no publisher runs without its handle being held.                  *)
TypeOK ==
    /\ pc \in {"verify", "ready", "delay", "ended"}
    /\ stop \in BOOLEAN /\ holdoff \in BOOLEAN /\ origin \in BOOLEAN
    /\ stable \in 0 .. 2 /\ streak \in 0 .. 2
    /\ child \in Publishers \cup {NoPublisher}
    /\ state \in [Publishers -> {"none", "running", "exited"}]
    /\ saw \in SUBSET BOOLEAN
    /\ faults \in 0 .. MaxFaults
    /\ Running \subseteq {child}

Boot(good) ==
    /\ pc = "verify" /\ stop = FALSE /\ stable = 0 /\ holdoff = FALSE
    /\ child = NoPublisher /\ state = [p \in Publishers |-> "none"]
    /\ saw = {good} /\ streak = 0

Init == origin \in BOOLEAN /\ faults = 0 /\ Boot(origin)

Fault == faults < MaxFaults /\ faults' = faults + 1

AtMost2(n) == IF n > 2 THEN 2 ELSE n

-----------------------------------------------------------------------------
CloseChild ==
    /\ child' = NoPublisher
    /\ state' = [p \in Publishers |-> IF p = child /\ state[p] = "running" THEN "exited"
                                      ELSE state[p]]

\* Mutant: one success is enough.
EnoughAtOnce(n) == n >= 1
\* Verified twice in a row.
Enough(n) == n >= 2

MayStart == Enough(AtMost2(stable + 1)) /\ child = NoPublisher /\ ~holdoff

StartChild ==
    \E p \in Publishers :
        /\ state[p] = "none"
        /\ state' = [state EXCEPT ![p] = "running"]
        /\ child' = p

\* The loop after a failed check: blocked.
Block ==
    /\ pc' = "delay"
    /\ stable' = 0 /\ streak' = 0
    /\ CloseChild
    /\ UNCHANGED <<stop, holdoff, origin, saw, faults>>

\* Origin and activation are as they must be.  With a publisher its readiness
\* is asked for.
Verified ==
    /\ pc = "verify" /\ TRUE \in saw /\ ~stop
    /\ stable' = AtMost2(stable + 1) /\ streak' = AtMost2(streak + 1)
    /\ IF MayStart THEN StartChild ELSE UNCHANGED <<child, state>>
    /\ pc' = IF child' # NoPublisher THEN "ready" ELSE "delay"
    /\ UNCHANGED <<stop, holdoff, origin, saw, faults>>

\* break, and closeChild on the way out.
VerifiedStopped ==
    /\ pc = "verify" /\ TRUE \in saw /\ stop
    /\ pc' = "ended"
    /\ CloseChild
    /\ UNCHANGED <<stop, stable, holdoff, origin, saw, streak, faults>>

Refuted == pc = "verify" /\ FALSE \in saw /\ Block

\* The activation, the tunnel's binary or its configuration is not as it must be,
\* or the status cannot be written.
Doubt == pc \in {"verify", "ready"} /\ Fault /\ pc' = "delay" /\ stable' = 0 /\ streak' = 0
         /\ CloseChild /\ UNCHANGED <<stop, holdoff, origin, saw>>

\* Ready or not within a second, the loop goes on.
Answered ==
    /\ pc = "ready" /\ pc' = "delay"
    /\ UNCHANGED <<stop, stable, holdoff, child, state, origin, saw, streak, faults>>

Again ==
    /\ pc = "delay"
    /\ IF stop THEN pc' = "ended" /\ UNCHANGED saw /\ CloseChild
       ELSE pc' = "verify" /\ saw' = {origin} /\ UNCHANGED <<child, state>>
    /\ UNCHANGED <<stop, stable, holdoff, origin, streak, faults>>

Signal ==
    /\ pc # "ended" /\ ~stop
    /\ stop' = TRUE
    /\ CloseChild
    /\ UNCHANGED <<pc, stable, holdoff, origin, saw, streak, faults>>

\* Mutant: the handle of the publisher that exited is kept.
ExitSeenKeepsHandle(p) ==
    /\ pc # "ended" /\ state[p] = "exited"
    /\ state' = [state EXCEPT ![p] = "none"]
    /\ UNCHANGED <<pc, stop, stable, holdoff, child, origin, saw, streak, faults>>

\* The exit or error event of a publisher.
ExitSeen(p) ==
    /\ pc # "ended" /\ state[p] = "exited"
    /\ state' = [state EXCEPT ![p] = "none"]
    /\ IF child = p THEN child' = NoPublisher /\ stable' = 0 /\ streak' = 0 /\ holdoff' = TRUE
       ELSE UNCHANGED <<child, stable, streak, holdoff>>
    /\ UNCHANGED <<pc, stop, origin, saw, faults>>

HoldoffEnds ==
    /\ holdoff /\ holdoff' = FALSE
    /\ UNCHANGED <<pc, stop, stable, child, state, origin, saw, streak, faults>>

-----------------------------------------------------------------------------
(* The world.                                                               *)

PublisherExits(p) ==
    /\ state[p] = "running" /\ Fault
    /\ state' = [state EXCEPT ![p] = "exited"]
    /\ UNCHANGED <<pc, stop, stable, holdoff, child, origin, saw, streak>>

OriginTurns ==
    /\ Fault
    /\ origin' = ~origin
    /\ saw' = IF pc = "verify" THEN saw \cup {origin'} ELSE saw
    /\ UNCHANGED <<pc, stop, stable, holdoff, child, state, streak>>

\* The guardian dies and the kernel kills its publisher; Docker starts it anew.
Restart ==
    /\ Fault
    /\ pc' = "verify" /\ stop' = FALSE /\ stable' = 0 /\ holdoff' = FALSE
    /\ child' = NoPublisher /\ state' = [p \in Publishers |-> "none"]
    /\ saw' = {origin} /\ streak' = 0
    /\ UNCHANGED origin

Loop == Verified \/ VerifiedStopped \/ Refuted \/ Answered \/ Again

Next ==
    \/ Loop \/ Doubt \/ Signal \/ HoldoffEnds \/ OriginTurns \/ Restart
    \/ \E p \in Publishers : ExitSeen(p) \/ PublisherExits(p)

Spec == Init /\ [][Next]_vars

\* Every await of the loop ends: the requests have time limits, the delay is a
\* timer.  Events are delivered.
FairSpec == Spec /\ WF_vars(Loop) /\ WF_vars(HoldoffEnds)
                 /\ \A p \in Publishers : WF_vars(ExitSeen(p))

-----------------------------------------------------------------------------
(* Properties.                                                              *)

(* Once a signal was received nothing is published, also when it arrives    *)
(* while the verification that would start the publisher is under way.      *)
StoppedMeansClosed == stop => Running = {}

(* "Only this guardian's exact child": two publishers never run at once.    *)
OnePublisher == \A p, q \in Running : p = q

(* The ledger is published only by a publisher that was started after two   *)
(* successful verifications without a failure or an exit in between, and    *)
(* never beyond a failed one.                                               *)
PublishedOnlyVerified == Running # {} => streak >= 2

(* An origin that stays wrong is not published for good.                    *)
WrongOriginIsClosed == <>[]~origin => <>[](Running = {})

(* A good origin is published again when the faults are over.               *)
GoodOriginIsPublished == <>[](~origin \/ stop \/ Running # {})
=============================================================================
