------------------------------- MODULE MCHost -------------------------------
(***************************************************************************)
(* The Mac host and its operations for TLC: two releases, of which the old *)
(* one is there first.                                                     *)
(***************************************************************************)
EXTENDS HostOperations

CONSTANTS old, new

MCInit == HostInit /\ box["origin"].gen = old
MCSpec == MCInit /\ [][HostNext]_hostVars /\ HostFairness

\* The host reports what is, and goes on without an observation only on the
\* strength of a recent one; one release runs at a time (runtime-controller.mjs,
\* generation-switch.mjs).
OneReleaseRuns == HostTypeOK /\ OneRelease /\ GraceRestsOnASample

\* Containers start under the lock and outside pauses, pauses end only
\* reviewed, and a reported good health was real (production-host.mjs,
\* production-maintenance.mjs, storage-recovery-review.mjs).
HostKeepsItsWord == StartsAreAllowed /\ PausesEndReviewed /\ HealthIsReal
=============================================================================
