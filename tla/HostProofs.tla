----------------------------- MODULE HostProofs -----------------------------
(***************************************************************************)
(* For every number of releases, mishaps and commands: one release runs at  *)
(* a time, containers start and pauses end only when they may, and the host *)
(* reports what is.                                                         *)
(***************************************************************************)
EXTENDS MCHost, TLAPS

-----------------------------------------------------------------------------
(* The steps that are left.                                                 *)

StopStepsOnly == Seq({<<"stop", r>> : r \in Role})

\* A recovery, from its last step to its first; the origin is restarted unless it is ready.
L1 == <<<<"healthy", "all">>>>
L2 == <<<<"ready", "guard">>, <<"healthy", "all">>>>
L3 == <<<<"start", "guard">>, <<"ready", "guard">>, <<"healthy", "all">>>>
L4 == <<<<"inputs", "all">>, <<"start", "guard">>, <<"ready", "guard">>, <<"healthy", "all">>>>
L5 == <<<<"ready", "openclaw">>, <<"inputs", "all">>, <<"start", "guard">>, <<"ready", "guard">>,
        <<"healthy", "all">>>>
L6 == <<<<"start", "openclaw">>, <<"ready", "openclaw">>, <<"inputs", "all">>, <<"start", "guard">>,
        <<"ready", "guard">>, <<"healthy", "all">>>>
L7 == <<<<"ready", "origin">>, <<"start", "openclaw">>, <<"ready", "openclaw">>, <<"inputs", "all">>,
        <<"start", "guard">>, <<"ready", "guard">>, <<"healthy", "all">>>>
L8 == <<<<"start", "origin">>, <<"ready", "origin">>, <<"start", "openclaw">>, <<"ready", "openclaw">>,
        <<"inputs", "all">>, <<"start", "guard">>, <<"ready", "guard">>, <<"healthy", "all">>>>
L9 == <<<<"stop", "origin">>, <<"start", "origin">>, <<"ready", "origin">>, <<"start", "openclaw">>,
        <<"ready", "openclaw">>, <<"inputs", "all">>, <<"start", "guard">>, <<"ready", "guard">>,
        <<"healthy", "all">>>>
R10 == <<<<"stop", "openclaw">>, <<"ready", "origin">>, <<"start", "openclaw">>, <<"ready", "openclaw">>,
         <<"inputs", "all">>, <<"start", "guard">>, <<"ready", "guard">>, <<"healthy", "all">>>>
S10 == <<<<"stop", "openclaw">>, <<"stop", "origin">>, <<"start", "origin">>, <<"ready", "origin">>,
         <<"start", "openclaw">>, <<"ready", "openclaw">>, <<"inputs", "all">>, <<"start", "guard">>,
         <<"ready", "guard">>, <<"healthy", "all">>>>
R11 == <<<<"stop", "guard">>, <<"stop", "openclaw">>, <<"ready", "origin">>, <<"start", "openclaw">>,
         <<"ready", "openclaw">>, <<"inputs", "all">>, <<"start", "guard">>, <<"ready", "guard">>,
         <<"healthy", "all">>>>
S11 == <<<<"stop", "guard">>, <<"stop", "openclaw">>, <<"stop", "origin">>, <<"start", "origin">>,
         <<"ready", "origin">>, <<"start", "openclaw">>, <<"ready", "openclaw">>, <<"inputs", "all">>,
         <<"start", "guard">>, <<"ready", "guard">>, <<"healthy", "all">>>>
L10 == {R10, S10}
L11 == {R11, S11}
BeforeGuard == {L3, L4, L5}
BeforeOpenClaw == {L6, L7, L8, L9}
Recovery == {L1, L2} \cup BeforeGuard \cup BeforeOpenClaw \cup L10 \cup L11

\* What is left of a command.
E4 == <<"guard", "openclaw", "origin", "quiet">>
E3 == <<"openclaw", "origin", "quiet">>
E2 == <<"origin", "quiet">>
E1 == <<"quiet">>
C3 == <<"recheck", "archive", "start-host">>
C2 == <<"archive", "start-host">>
C1 == <<"start-host">>
W6 == <<"retire", "create", "marker", "gate", "plist", "start-host">>
W5 == <<"create", "marker", "gate", "plist", "start-host">>
W4 == <<"marker", "gate", "plist", "start-host">>
W3 == <<"gate", "plist", "start-host">>
W2 == <<"plist", "start-host">>
W1 == <<"start-host">>
A4 == <<"gate", "start-host", "unlock", "await">>
A3 == <<"start-host", "unlock", "await">>
A2 == <<"unlock", "await">>
A1 == <<"await">>
X2 == <<"openclaw", "origin">>
X1 == <<"origin">>
EnterRest == {EnterSteps, E4, E3, E2, E1, <<>>}
ClearRest == {ClearSteps, C3, C2, C1, <<>>}
SwitchRest == {SwitchSteps, W6, W5, W4, W3, W2, W1, <<>>}
ActivateRest == {ActivateSteps, A4, A3, A2, A1, <<>>, LockAndClose, ClosingOrder, X2, X1}
ResumeRest == {ResumeSteps, <<>>}

-----------------------------------------------------------------------------
(* The inductive invariant.                                                 *)

Ages == (0..Grace) \cup {None}
Results == {"none", "another-operation", "disabled", "maintenance", "waiting", "identity", "activation",
            "fault-latched", "low-disk", "grace", "observation-paused", "no-restart", "guard-unready",
            "backoff", "recovering", "healthy", "recovery-failed", "needs-attention"}
HostStates == [at : {"down", "idle", "gated", "locked", "acting"}, gen : Gen \cup {None},
               enabled : BOOLEAN, todo : StopStepsOnly \cup Recovery, guarded : BOOLEAN,
               result : Results, fault : BOOLEAN, paused : BOOLEAN,
               age : Ages, kept : SUBSET Role, backoff : BOOLEAN]
HostIsTyped ==
    /\ host \in HostStates
    /\ host.at = "down" => host = Down
    /\ host.at # "down" => host.gen = job.loaded /\ job.loaded # None

CommandIsTyped ==
    /\ op \in [cmd : {"none", "enter", "resume", "clear", "switch", "activate"},
               from : Gen \cup {None}, to : Gen \cup {None},
               todo : EnterRest \cup ClearRest \cup SwitchRest \cup ActivateRest \cup ResumeRest,
               done : {op.done}, undoing : BOOLEAN]
    /\ op.cmd = "none" => op = NoCommand
    /\ op.cmd # "none" => op.from \in Gen /\ op.to \in Gen /\ (op.cmd # "switch" => op.to = op.from /\ ~op.undoing)

\* What the containers and files say of a release.
Agreed(g) == /\ \A r \in Role : box[r].gen \in {g, None}
             /\ files.gate \in {g, None} /\ files.marker \in {g, None}

\* What launchd has loaded is what the files and the containers say, and
\* nothing runs without it.
LoadedRules ==
    /\ job.loaded # None => Agreed(job.loaded)
    /\ ~Quiet => job.loaded # None

\* A dependant runs beside the running process of the origin, or that process is gone.
ContainersAreTrue ==
    /\ \A r \in Role : /\ box[r].run => box[r].gen # None
                       /\ box[r].ready => box[r].run
    /\ \A r \in Dependants : box[r].run /\ box[r].tie = "old" => ~box["origin"].run

\* A sample that is still good has an age, or a dependant does not run.
SampleHolds ==
    host.age # None /\ host.kept = Role =>
        \/ sampled # None /\ sampled <= host.age
        \/ \E r \in Dependants : ~box[r].run \/ box[r].tie = "lost"

\* How far a recovery has come, and that it was allowed.
RecoveryIsAllowed ==
    host.at = "acting" /\ host.todo \in Recovery =>
        /\ files.marker = None /\ files.fault = None /\ ~host.fault
        /\ host.todo \in L10 \cup BeforeOpenClaw \cup BeforeGuard => ~box["guard"].run
        /\ host.todo \in BeforeOpenClaw => ~box["openclaw"].run
        /\ host.todo \in BeforeGuard => "openclaw" \notin host.kept

Next1(steps) == op.todo # <<>> /\ Head(op.todo) \in steps

EnterIsTrue ==
    op.cmd = "enter" => /\ lock = "operator" /\ op.todo \in EnterRest
                        /\ IdentityValid(op.from)

ResumeIsTrue ==
    op.cmd = "resume" =>
        /\ lock = "operator" /\ op.todo \in ResumeRest
        /\ op.todo # <<>> => CanResume(op.from)

ClearIsTrue ==
    op.cmd = "clear" =>
        /\ lock = "operator" /\ op.todo \in ClearRest /\ Quiet /\ IdentityValid(op.from)
        /\ files.gate = op.from /\ files.marker = op.from
        /\ Next1({"recheck", "archive", "start-host"}) => job.loaded = None

SwitchIsTrue ==
    op.cmd = "switch" =>
        /\ lock = "operator" /\ op.todo \in SwitchRest /\ Quiet
        /\ Next1({"retire", "create", "marker", "gate", "plist", "start-host"}) => job.loaded = None
        /\ Next1({"marker", "gate", "plist", "start-host"}) => Trusted(Target) = Role
        /\ Next1({"gate", "plist", "start-host"}) => files.marker = Target
        /\ Next1({"plist", "start-host"}) => files.gate = Target
        /\ ~op.undoing => /\ Next1({"stop-host"}) => "stop-host" \notin op.done
                          /\ Next1({"start-host"}) => "plist" \in op.done

ActivateIsTrue ==
    op.cmd = "activate" =>
        /\ op.todo \in ActivateRest
        /\ Next1({"plist", "gate", "start-host", "unlock"}) => lock = "operator"
        /\ Next1({"plist", "gate", "start-host"}) =>
              /\ job.loaded = None /\ IdentityValid(op.from)
              /\ files.marker = None
        /\ Next1({"start-host"}) => files.gate = op.from

CommandsAreTrue == EnterIsTrue /\ ResumeIsTrue /\ ClearIsTrue /\ SwitchIsTrue /\ ActivateIsTrue

HostInv ==
    /\ HostTypeOK /\ HostIsTyped /\ CommandIsTyped
    /\ LoadedRules /\ ContainersAreTrue /\ SampleHolds /\ RecoveryIsAllowed
    /\ CommandsAreTrue

-----------------------------------------------------------------------------
(* What is left of a recovery, of a command, and of a sample.               *)

LEMMA RecoveryLists ==
    /\ \A l \in L11 : l # <<>> /\ Head(l) = <<"stop", "guard">> /\ Tail(l) \in L10
    /\ \A l \in L10 : l # <<>> /\ Head(l) = <<"stop", "openclaw">> /\ Tail(l) \in {L7, L9}
    /\ L9 # <<>> /\ Head(L9) = <<"stop", "origin">> /\ Tail(L9) = L8
    /\ L8 # <<>> /\ Head(L8) = <<"start", "origin">> /\ Tail(L8) = L7
    /\ L7 # <<>> /\ Head(L7) = <<"ready", "origin">> /\ Tail(L7) = L6
    /\ L6 # <<>> /\ Head(L6) = <<"start", "openclaw">> /\ Tail(L6) = L5
    /\ L5 # <<>> /\ Head(L5) = <<"ready", "openclaw">> /\ Tail(L5) = L4
    /\ L4 # <<>> /\ Head(L4) = <<"inputs", "all">> /\ Tail(L4) = L3
    /\ L3 # <<>> /\ Head(L3) = <<"start", "guard">> /\ Tail(L3) = L2
    /\ L2 # <<>> /\ Head(L2) = <<"ready", "guard">> /\ Tail(L2) = L1
    /\ L1 # <<>> /\ Head(L1) = <<"healthy", "all">> /\ Tail(L1) = <<>>
<1>1. \A l \in L11 : l # <<>> /\ Head(l) = <<"stop", "guard">> /\ Tail(l) \in L10
  <2>1. R11 # <<>> /\ Head(R11) = <<"stop", "guard">> /\ Tail(R11) = R10
    BY DEF R11, R10
  <2>2. S11 # <<>> /\ Head(S11) = <<"stop", "guard">> /\ Tail(S11) = S10
    BY DEF S11, S10
  <2> QED BY <2>1, <2>2 DEF L11, L10
<1>2. \A l \in L10 : l # <<>> /\ Head(l) = <<"stop", "openclaw">> /\ Tail(l) \in {L7, L9}
  <2>1. R10 # <<>> /\ Head(R10) = <<"stop", "openclaw">> /\ Tail(R10) = L7
    BY DEF R10, L7
  <2>2. S10 # <<>> /\ Head(S10) = <<"stop", "openclaw">> /\ Tail(S10) = L9
    BY DEF S10, L9
  <2> QED BY <2>1, <2>2 DEF L10
<1>3. L9 # <<>> /\ Head(L9) = <<"stop", "origin">> /\ Tail(L9) = L8
  BY DEF L9, L8
<1>4. L8 # <<>> /\ Head(L8) = <<"start", "origin">> /\ Tail(L8) = L7
  BY DEF L8, L7
<1>5. L7 # <<>> /\ Head(L7) = <<"ready", "origin">> /\ Tail(L7) = L6
  BY DEF L7, L6
<1>6. L6 # <<>> /\ Head(L6) = <<"start", "openclaw">> /\ Tail(L6) = L5
  BY DEF L6, L5
<1>7. L5 # <<>> /\ Head(L5) = <<"ready", "openclaw">> /\ Tail(L5) = L4
  BY DEF L5, L4
<1>8. L4 # <<>> /\ Head(L4) = <<"inputs", "all">> /\ Tail(L4) = L3
  BY DEF L4, L3
<1>9. L3 # <<>> /\ Head(L3) = <<"start", "guard">> /\ Tail(L3) = L2
  BY DEF L3, L2
<1>10. L2 # <<>> /\ Head(L2) = <<"ready", "guard">> /\ Tail(L2) = L1
  BY DEF L2, L1
<1>11. L1 # <<>> /\ Head(L1) = <<"healthy", "all">> /\ Tail(L1) = <<>>
  BY DEF L1
<1> QED BY <1>1, <1>2, <1>3, <1>4, <1>5, <1>6, <1>7, <1>8, <1>9, <1>10, <1>11

LEMMA StopsOnly ==
    /\ <<>> \in StopStepsOnly
    /\ \A R : StopSteps(R) \in StopStepsOnly
    /\ \A l \in StopStepsOnly : l # <<>> =>
           /\ Tail(l) \in StopStepsOnly /\ \E r \in Role : Head(l) = <<"stop", r>>
<1>1. <<>> \in StopStepsOnly
  BY DEF StopStepsOnly
<1>2. ASSUME NEW R PROVE StopSteps(R) \in StopStepsOnly
  <2>1. ASSUME NEW r \in Role PROVE StopStep(r, R) \in StopStepsOnly
    <3>1. <<"stop", r>> \in {<<"stop", x>> : x \in Role}
      OBVIOUS
    <3>2. <<<<"stop", r>>>> \in StopStepsOnly
      BY <3>1 DEF StopStepsOnly
    <3> QED BY <1>1, <3>2 DEF StopStep
  <2> QED BY <2>1 DEF StopSteps, StopStepsOnly, Role
<1>3. ASSUME NEW l \in StopStepsOnly, l # <<>>
      PROVE  Tail(l) \in StopStepsOnly /\ \E r \in Role : Head(l) = <<"stop", r>>
  BY <1>3 DEF StopStepsOnly
<1> QED BY <1>1, <1>2, <1>3

LEMMA RecoveryIsNotStops == \A l \in Recovery : l \notin StopStepsOnly /\ l # <<>>
<1>1. \A l \in StopStepsOnly : l # <<>> => Head(l)[1] = "stop"
  BY StopsOnly
<1>2. ASSUME NEW l, l # <<>>, Head(l)[1] # "stop" PROVE l \notin StopStepsOnly
  BY ONLY <1>1, <1>2
<1>3. /\ L1 # <<>> /\ Head(L1) = <<"healthy", "all">> /\ L2 # <<>> /\ Head(L2) = <<"ready", "guard">>
      /\ L3 # <<>> /\ Head(L3) = <<"start", "guard">> /\ L4 # <<>> /\ Head(L4) = <<"inputs", "all">>
  BY RecoveryLists
<1>4. /\ L5 # <<>> /\ Head(L5) = <<"ready", "openclaw">> /\ L6 # <<>> /\ Head(L6) = <<"start", "openclaw">>
      /\ L7 # <<>> /\ Head(L7) = <<"ready", "origin">> /\ L8 # <<>> /\ Head(L8) = <<"start", "origin">>
  BY RecoveryLists
<1>5. \A l \in {L1, L2, L3, L4, L5, L6, L7, L8} : l \notin StopStepsOnly /\ l # <<>>
  BY ONLY <1>2, <1>3, <1>4
<1>6. ASSUME NEW l, l # <<>>, Tail(l) \notin StopStepsOnly PROVE l \notin StopStepsOnly
  BY <1>6, StopsOnly
<1>7. L9 # <<>> /\ Tail(L9) = L8
  BY RecoveryLists
<1>8. L9 \notin StopStepsOnly /\ L9 # <<>>
  BY ONLY <1>5, <1>6, <1>7
<1>9. \A l \in L10 : l # <<>> /\ Tail(l) \in {L7, L9}
  BY RecoveryLists
<1>10. \A l \in L10 : l \notin StopStepsOnly /\ l # <<>>
  BY ONLY <1>5, <1>6, <1>8, <1>9
<1>11. \A l \in L11 : l # <<>> /\ Tail(l) \in L10
  BY RecoveryLists
<1>12. \A l \in L11 : l \notin StopStepsOnly /\ l # <<>>
  BY ONLY <1>6, <1>10, <1>11
<1> QED BY <1>5, <1>8, <1>10, <1>12 DEF Recovery, BeforeGuard, BeforeOpenClaw

LEMMA AfterTheFirst == \A l \in L10 \cup BeforeOpenClaw \cup BeforeGuard : Head(l) # <<"stop", "guard">>
<1>1. \A l \in L10 : Head(l) = <<"stop", "openclaw">>
  BY RecoveryLists
<1>2. /\ Head(L9) = <<"stop", "origin">> /\ Head(L8) = <<"start", "origin">>
      /\ Head(L7) = <<"ready", "origin">> /\ Head(L6) = <<"start", "openclaw">>
  BY RecoveryLists
<1>3. Head(L5) = <<"ready", "openclaw">> /\ Head(L4) = <<"inputs", "all">> /\ Head(L3) = <<"start", "guard">>
  BY RecoveryLists
<1>4. \A l \in L10 : Head(l) # <<"stop", "guard">>
  BY ONLY <1>1
<1>5. \A l \in {L6, L7, L8, L9} : Head(l) # <<"stop", "guard">>
  BY ONLY <1>2
<1>6. \A l \in {L3, L4, L5} : Head(l) # <<"stop", "guard">>
  BY ONLY <1>3
<1> QED BY ONLY <1>4, <1>5, <1>6 DEF BeforeOpenClaw, BeforeGuard

LEMMA RecoveryBegins == RecoverySteps \in L11
  BY DEF RecoverySteps, L11, R11, S11

LEMMA AgedAges ==
    ASSUME NEW n \in Ages, NEW slow \in 0..1
    PROVE  /\ Aged(n, slow) \in Ages
           /\ Aged(n, 0) = n
           /\ Aged(n, slow) = None <=> n = None
  BY HostAssumption DEF Aged, Ages

LEMMA AgedTogether ==
    ASSUME NEW s \in Ages, NEW a \in Ages, NEW slow \in 0..1,
           s # None, a # None, s <= a
    PROVE  Aged(s, slow) # None /\ Aged(s, slow) <= Aged(a, slow)
  BY HostAssumption DEF Aged, Ages

\* The steps of a recovery are of four kinds.
LEMMA RecoverySplits ==
    ASSUME NEW l \in Recovery
    PROVE  \/ l \in L11 \/ l \in L10
           \/ l = L9 \/ l = L8 \/ l = L7 \/ l = L6 \/ l = L5 \/ l = L4 \/ l = L3 \/ l = L2 \/ l = L1
  BY DEF Recovery, BeforeGuard, BeforeOpenClaw

LEMMA CommandTails ==
    /\ EnterSteps # <<>> /\ Head(EnterSteps) = "mark" /\ Tail(EnterSteps) = E4
    /\ E4 # <<>> /\ Head(E4) = "guard" /\ Tail(E4) = E3
    /\ E3 # <<>> /\ Head(E3) = "openclaw" /\ Tail(E3) = E2
    /\ E2 # <<>> /\ Head(E2) = "origin" /\ Tail(E2) = E1
    /\ E1 # <<>> /\ Head(E1) = "quiet" /\ Tail(E1) = <<>>
    /\ ClearSteps # <<>> /\ Head(ClearSteps) = "stop-host" /\ Tail(ClearSteps) = C3
    /\ C3 # <<>> /\ Head(C3) = "recheck" /\ Tail(C3) = C2
    /\ C2 # <<>> /\ Head(C2) = "archive" /\ Tail(C2) = C1
    /\ C1 # <<>> /\ Head(C1) = "start-host" /\ Tail(C1) = <<>>
    /\ SwitchSteps # <<>> /\ Head(SwitchSteps) = "stop-host" /\ Tail(SwitchSteps) = W6
    /\ W6 # <<>> /\ Head(W6) = "retire" /\ Tail(W6) = W5
    /\ W5 # <<>> /\ Head(W5) = "create" /\ Tail(W5) = W4
    /\ W4 # <<>> /\ Head(W4) = "marker" /\ Tail(W4) = W3
    /\ W3 # <<>> /\ Head(W3) = "gate" /\ Tail(W3) = W2
    /\ W2 # <<>> /\ Head(W2) = "plist" /\ Tail(W2) = W1
    /\ W1 # <<>> /\ Head(W1) = "start-host" /\ Tail(W1) = <<>>
    /\ ActivateSteps # <<>> /\ Head(ActivateSteps) = "plist" /\ Tail(ActivateSteps) = A4
    /\ A4 # <<>> /\ Head(A4) = "gate" /\ Tail(A4) = A3
    /\ A3 # <<>> /\ Head(A3) = "start-host" /\ Tail(A3) = A2
    /\ A2 # <<>> /\ Head(A2) = "unlock" /\ Tail(A2) = A1
    /\ A1 # <<>> /\ Head(A1) = "await" /\ Tail(A1) = <<>>
    /\ LockAndClose # <<>> /\ Head(LockAndClose) = "lock" /\ Tail(LockAndClose) = ClosingOrder
    /\ ClosingOrder # <<>> /\ Head(ClosingOrder) = "guard" /\ Tail(ClosingOrder) = X2
    /\ X2 # <<>> /\ Head(X2) = "openclaw" /\ Tail(X2) = X1
    /\ X1 # <<>> /\ Head(X1) = "origin" /\ Tail(X1) = <<>>
    /\ ResumeSteps # <<>> /\ Head(ResumeSteps) = "unmark" /\ Tail(ResumeSteps) = <<>>
<1>1. EnterSteps # <<>> /\ Head(EnterSteps) = "mark" /\ Tail(EnterSteps) = E4
  BY DEF EnterSteps, E4
<1>2. E4 # <<>> /\ Head(E4) = "guard" /\ Tail(E4) = E3
  BY DEF E4, E3
<1>3. E3 # <<>> /\ Head(E3) = "openclaw" /\ Tail(E3) = E2
  BY DEF E3, E2
<1>4. E2 # <<>> /\ Head(E2) = "origin" /\ Tail(E2) = E1
  BY DEF E2, E1
<1>5. E1 # <<>> /\ Head(E1) = "quiet" /\ Tail(E1) = <<>>
  BY DEF E1
<1>6. ClearSteps # <<>> /\ Head(ClearSteps) = "stop-host" /\ Tail(ClearSteps) = C3
  BY DEF ClearSteps, C3
<1>7. C3 # <<>> /\ Head(C3) = "recheck" /\ Tail(C3) = C2
  BY DEF C3, C2
<1>8. C2 # <<>> /\ Head(C2) = "archive" /\ Tail(C2) = C1
  BY DEF C2, C1
<1>9. C1 # <<>> /\ Head(C1) = "start-host" /\ Tail(C1) = <<>>
  BY DEF C1
<1>10. SwitchSteps # <<>> /\ Head(SwitchSteps) = "stop-host" /\ Tail(SwitchSteps) = W6
  BY DEF SwitchSteps, W6
<1>11. W6 # <<>> /\ Head(W6) = "retire" /\ Tail(W6) = W5
  BY DEF W6, W5
<1>12. W5 # <<>> /\ Head(W5) = "create" /\ Tail(W5) = W4
  BY DEF W5, W4
<1>13. W4 # <<>> /\ Head(W4) = "marker" /\ Tail(W4) = W3
  BY DEF W4, W3
<1>14. W3 # <<>> /\ Head(W3) = "gate" /\ Tail(W3) = W2
  BY DEF W3, W2
<1>15. W2 # <<>> /\ Head(W2) = "plist" /\ Tail(W2) = W1
  BY DEF W2, W1
<1>16. W1 # <<>> /\ Head(W1) = "start-host" /\ Tail(W1) = <<>>
  BY DEF W1
<1>17. ActivateSteps # <<>> /\ Head(ActivateSteps) = "plist" /\ Tail(ActivateSteps) = A4
  BY DEF ActivateSteps, A4
<1>18. A4 # <<>> /\ Head(A4) = "gate" /\ Tail(A4) = A3
  BY DEF A4, A3
<1>19. A3 # <<>> /\ Head(A3) = "start-host" /\ Tail(A3) = A2
  BY DEF A3, A2
<1>20. A2 # <<>> /\ Head(A2) = "unlock" /\ Tail(A2) = A1
  BY DEF A2, A1
<1>21. A1 # <<>> /\ Head(A1) = "await" /\ Tail(A1) = <<>>
  BY DEF A1
<1>22. LockAndClose # <<>> /\ Head(LockAndClose) = "lock" /\ Tail(LockAndClose) = ClosingOrder
  BY DEF LockAndClose, ClosingOrder
<1>23. ClosingOrder # <<>> /\ Head(ClosingOrder) = "guard" /\ Tail(ClosingOrder) = X2
  BY DEF ClosingOrder, X2
<1>24. X2 # <<>> /\ Head(X2) = "openclaw" /\ Tail(X2) = X1
  BY DEF X2, X1
<1>25. X1 # <<>> /\ Head(X1) = "origin" /\ Tail(X1) = <<>>
  BY DEF X1
<1>26. ResumeSteps # <<>> /\ Head(ResumeSteps) = "unmark" /\ Tail(ResumeSteps) = <<>>
  BY DEF ResumeSteps
<1> QED
  BY <1>1, <1>2, <1>3, <1>4, <1>5, <1>6, <1>7, <1>8, <1>9, <1>10,
     <1>11, <1>12, <1>13, <1>14, <1>15, <1>16, <1>17, <1>18, <1>19, <1>20,
     <1>21, <1>22, <1>23, <1>24, <1>25, <1>26

LEMMA CommandLists ==
    /\ \A l \in EnterRest : l # <<>> =>
           /\ Tail(l) \in EnterRest
           /\ Head(l) \in {"mark", "guard", "openclaw", "origin", "quiet"}
    /\ \A l \in ResumeRest : l # <<>> => Tail(l) = <<>> /\ Head(l) = "unmark"
    /\ \A l \in ClearRest : l # <<>> =>
           /\ Tail(l) \in ClearRest
           /\ Head(l) \in {"stop-host", "recheck", "archive", "start-host"}
    /\ \A l \in SwitchRest : l # <<>> => Tail(l) \in SwitchRest
<1>1. ASSUME NEW l \in EnterRest, l # <<>>
      PROVE  Tail(l) \in EnterRest /\ Head(l) \in {"mark", "guard", "openclaw", "origin", "quiet"}
  <2>1. CASE l = EnterSteps
    BY <2>1, CommandTails DEF EnterRest
  <2>2. CASE l = E4
    BY <2>2, CommandTails DEF EnterRest
  <2>3. CASE l = E3
    BY <2>3, CommandTails DEF EnterRest
  <2>4. CASE l = E2
    BY <2>4, CommandTails DEF EnterRest
  <2>5. CASE l = E1
    BY <2>5, CommandTails DEF EnterRest
  <2> QED BY <1>1, <2>1, <2>2, <2>3, <2>4, <2>5 DEF EnterRest
<1>2. \A l \in ResumeRest : l # <<>> => Tail(l) = <<>> /\ Head(l) = "unmark"
  <2>1. Tail(ResumeSteps) = <<>> /\ Head(ResumeSteps) = "unmark"
    BY CommandTails
  <2>2. \A l \in ResumeRest : l # <<>> => l = ResumeSteps
    BY DEF ResumeRest
  <2> QED BY ONLY <2>1, <2>2
<1>3. ASSUME NEW l \in ClearRest, l # <<>>
      PROVE  Tail(l) \in ClearRest /\ Head(l) \in {"stop-host", "recheck", "archive", "start-host"}
  <2>1. CASE l = ClearSteps
    BY <2>1, CommandTails DEF ClearRest
  <2>2. CASE l = C3
    BY <2>2, CommandTails DEF ClearRest
  <2>3. CASE l = C2
    BY <2>3, CommandTails DEF ClearRest
  <2>4. CASE l = C1
    BY <2>4, CommandTails DEF ClearRest
  <2> QED BY <1>3, <2>1, <2>2, <2>3, <2>4 DEF ClearRest
<1>4. ASSUME NEW l \in SwitchRest, l # <<>>
      PROVE  Tail(l) \in SwitchRest
  <2>1. CASE l = SwitchSteps
    BY <2>1, CommandTails DEF SwitchRest
  <2>2. CASE l = W6
    BY <2>2, CommandTails DEF SwitchRest
  <2>3. CASE l = W5
    BY <2>3, CommandTails DEF SwitchRest
  <2>4. CASE l = W4
    BY <2>4, CommandTails DEF SwitchRest
  <2>5. CASE l = W3
    BY <2>5, CommandTails DEF SwitchRest
  <2>6. CASE l = W2
    BY <2>6, CommandTails DEF SwitchRest
  <2>7. CASE l = W1
    BY <2>7, CommandTails DEF SwitchRest
  <2> QED BY <1>4, <2>1, <2>2, <2>3, <2>4, <2>5, <2>6, <2>7 DEF SwitchRest
<1> QED BY <1>1, <1>2, <1>3, <1>4

\* What follows each step of a switch and of an activation.
LEMMA SwitchLists ==
    ASSUME NEW l \in SwitchRest, l # <<>>
    PROVE  \/ Head(l) = "stop-host" /\ Head(Tail(l)) = "retire" /\ Tail(l) # <<>>
           \/ Head(l) = "retire" /\ Head(Tail(l)) = "create" /\ Tail(l) # <<>>
           \/ Head(l) = "create" /\ Head(Tail(l)) = "marker" /\ Tail(l) # <<>>
           \/ Head(l) = "marker" /\ Head(Tail(l)) = "gate" /\ Tail(l) # <<>>
           \/ Head(l) = "gate" /\ Head(Tail(l)) = "plist" /\ Tail(l) # <<>>
           \/ Head(l) = "plist" /\ Head(Tail(l)) = "start-host" /\ Tail(l) # <<>>
           \/ Head(l) = "start-host" /\ Tail(l) = <<>>
<1>0. /\ Head(SwitchSteps) = "stop-host" /\ Tail(SwitchSteps) = W6
      /\ W6 # <<>> /\ Head(W6) = "retire" /\ Tail(W6) = W5
      /\ W5 # <<>> /\ Head(W5) = "create" /\ Tail(W5) = W4
      /\ W4 # <<>> /\ Head(W4) = "marker" /\ Tail(W4) = W3
      /\ W3 # <<>> /\ Head(W3) = "gate" /\ Tail(W3) = W2
      /\ W2 # <<>> /\ Head(W2) = "plist" /\ Tail(W2) = W1
      /\ W1 # <<>> /\ Head(W1) = "start-host" /\ Tail(W1) = <<>>
  BY CommandTails
<1>1. CASE l = SwitchSteps
  BY ONLY <1>1, <1>0
<1>2. CASE l = W6
  BY ONLY <1>2, <1>0
<1>3. CASE l = W5
  BY ONLY <1>3, <1>0
<1>4. CASE l = W4
  BY ONLY <1>4, <1>0
<1>5. CASE l = W3
  BY ONLY <1>5, <1>0
<1>6. CASE l = W2
  BY ONLY <1>6, <1>0
<1>7. CASE l = W1
  BY ONLY <1>7, <1>0
<1> QED BY <1>1, <1>2, <1>3, <1>4, <1>5, <1>6, <1>7 DEF SwitchRest

LEMMA ActivateLists ==
    ASSUME NEW l \in ActivateRest, l # <<>>
    PROVE  /\ Tail(l) \in ActivateRest
           /\ \/ Head(l) = "plist" /\ Head(Tail(l)) = "gate" /\ Tail(l) # <<>>
              \/ Head(l) = "gate" /\ Head(Tail(l)) = "start-host" /\ Tail(l) # <<>>
              \/ Head(l) = "start-host" /\ Head(Tail(l)) = "unlock" /\ Tail(l) # <<>>
              \/ Head(l) = "unlock" /\ Head(Tail(l)) = "await" /\ Tail(l) # <<>>
              \/ Head(l) = "await" /\ Tail(l) = <<>>
              \/ Head(l) = "lock" /\ Head(Tail(l)) = "guard" /\ Tail(l) # <<>>
              \/ Head(l) = "guard" /\ Head(Tail(l)) = "openclaw" /\ Tail(l) # <<>>
              \/ Head(l) = "openclaw" /\ Head(Tail(l)) = "origin" /\ Tail(l) # <<>>
              \/ Head(l) = "origin" /\ Tail(l) = <<>>
<1>0. /\ A4 \in ActivateRest /\ A3 \in ActivateRest /\ A2 \in ActivateRest /\ A1 \in ActivateRest
      /\ ClosingOrder \in ActivateRest /\ X2 \in ActivateRest /\ X1 \in ActivateRest /\ <<>> \in ActivateRest
  BY DEF ActivateRest
<1>10. /\ Head(ActivateSteps) = "plist" /\ Tail(ActivateSteps) = A4
       /\ A4 # <<>> /\ Head(A4) = "gate" /\ Tail(A4) = A3
       /\ A3 # <<>> /\ Head(A3) = "start-host" /\ Tail(A3) = A2
       /\ A2 # <<>> /\ Head(A2) = "unlock" /\ Tail(A2) = A1
       /\ A1 # <<>> /\ Head(A1) = "await" /\ Tail(A1) = <<>>
       /\ Head(LockAndClose) = "lock" /\ Tail(LockAndClose) = ClosingOrder
       /\ ClosingOrder # <<>> /\ Head(ClosingOrder) = "guard" /\ Tail(ClosingOrder) = X2
       /\ X2 # <<>> /\ Head(X2) = "openclaw" /\ Tail(X2) = X1
       /\ X1 # <<>> /\ Head(X1) = "origin" /\ Tail(X1) = <<>>
  BY CommandTails
<1>1. CASE l = ActivateSteps
  BY ONLY <1>1, <1>0, <1>10
<1>2. CASE l = A4
  BY ONLY <1>2, <1>0, <1>10
<1>3. CASE l = A3
  BY ONLY <1>3, <1>0, <1>10
<1>4. CASE l = A2
  BY ONLY <1>4, <1>0, <1>10
<1>5. CASE l = A1
  BY ONLY <1>5, <1>0, <1>10
<1>6. CASE l = LockAndClose
  BY ONLY <1>6, <1>0, <1>10
<1>7. CASE l = ClosingOrder
  BY ONLY <1>7, <1>0, <1>10
<1>8. CASE l = X2
  BY ONLY <1>8, <1>0, <1>10
<1>9. CASE l = X1
  BY ONLY <1>9, <1>0, <1>10
<1> QED BY <1>1, <1>2, <1>3, <1>4, <1>5, <1>6, <1>7, <1>8, <1>9 DEF ActivateRest

-----------------------------------------------------------------------------
(* A step that is none of a command's leaves what the commands have reached. *)

LEMMA CommandsKept ==
    ASSUME CommandIsTyped, CommandsAreTrue, UNCHANGED <<op, job, files>>,
           lock = "operator" => lock' = "operator",
           \A r \in Role : box'[r].gen = box[r].gen,
           Quiet => Quiet'
    PROVE  CommandIsTyped' /\ CommandsAreTrue'
<1>1. CommandIsTyped'
  BY DEF CommandIsTyped
<1>2. \A g : Trusted(g)' = Trusted(g)
  BY DEF Trusted
<1>3. \A g : IdentityValid(g)' = IdentityValid(g) /\ CanResume(g)' = CanResume(g)
  BY <1>2 DEF IdentityValid, CanResume
<1>4. \A S : Next1(S)' = Next1(S)
  BY DEF Next1
<1>5. Target' = Target
  BY DEF Target
<1>6. EnterIsTrue' /\ ResumeIsTrue'
  BY <1>3 DEF CommandsAreTrue, EnterIsTrue, ResumeIsTrue
<1>7. ClearIsTrue'
  BY <1>3, <1>4 DEF CommandsAreTrue, ClearIsTrue
<1>8. SwitchIsTrue'
  BY <1>2, <1>4, <1>5 DEF CommandsAreTrue, SwitchIsTrue
<1>9. ActivateIsTrue'
  BY <1>3, <1>4 DEF CommandsAreTrue, ActivateIsTrue
<1> QED BY <1>1, <1>6, <1>7, <1>8, <1>9 DEF CommandsAreTrue

LEMMA NoCommandWorks ==
    ASSUME CommandIsTyped, CommandsAreTrue, UNCHANGED op, lock # "operator"
    PROVE  CommandIsTyped' /\ CommandsAreTrue'
<1>1. CommandIsTyped'
  BY DEF CommandIsTyped
<1>2. op.cmd \notin {"enter", "resume", "clear", "switch"}
  BY DEF CommandsAreTrue, EnterIsTrue, ResumeIsTrue, ClearIsTrue, SwitchIsTrue
<1>3. EnterIsTrue' /\ ResumeIsTrue' /\ ClearIsTrue' /\ SwitchIsTrue'
  BY <1>2 DEF EnterIsTrue, ResumeIsTrue, ClearIsTrue, SwitchIsTrue
<1>4. op.cmd = "activate" => op.todo \in ActivateRest /\ ~Next1({"plist", "gate", "start-host", "unlock"})
  BY DEF CommandsAreTrue, ActivateIsTrue
<1>5. ActivateIsTrue'
  BY <1>4 DEF ActivateIsTrue, Next1
<1> QED BY <1>1, <1>3, <1>5 DEF CommandsAreTrue

-----------------------------------------------------------------------------
(* The host's own steps.                                                    *)

\* A host that works under its lock disturbs no command.
LEMMA HostWorks ==
    ASSUME HostInv, lock = "host", UNCHANGED <<lock, job, op, commands>>,
           host' \in HostStates, host'.at = "acting", host'.gen = host.gen, host.gen \in Gen,
           files' \in Files, box' \in [Role -> Container], sampled' \in Ages, mishaps' \in 0..MaxMishaps,
           LoadedRules', ContainersAreTrue', SampleHolds', RecoveryIsAllowed'
    PROVE  HostInv'
<1>1. lock # "operator" /\ lock' # "operator"
  OBVIOUS
<1>2. CommandIsTyped' /\ CommandsAreTrue'
  BY <1>1, NoCommandWorks DEF HostInv
<1>3. host.at \in {"locked", "acting"} /\ host.at # "down"
  BY DEF HostInv, HostTypeOK
<1>4. HostIsTyped'
  BY <1>3 DEF HostInv, HostIsTyped
<1>5. host'.kept \subseteq Role /\ host'.age \in Ages
  BY DEF HostStates
<1>6. HostTypeOK'
  BY <1>1, <1>3, <1>5 DEF HostInv, HostTypeOK, Ages
<1> QED BY <1>2, <1>4, <1>6 DEF HostInv

\* A decision leaves the containers and the selection, and what it plans is a
\* stop or an allowed recovery.
LEMMA HostDecides ==
    ASSUME HostInv, Deciding, UNCHANGED box,
           host' \in HostStates, host'.at = "acting", host'.gen = host.gen,
           files' \in Files, files'.gate = files.gate, files'.marker = files.marker,
           sampled' \in Ages, mishaps' \in 0..MaxMishaps, SampleHolds',
           \/ host'.todo \in StopStepsOnly
           \/ /\ host'.todo \in L11 /\ files'.marker = None /\ files'.fault = None /\ ~host'.fault
    PROVE  HostInv'
<1>1. lock = "host" /\ host.at = "locked" /\ UNCHANGED <<lock, job, op, commands>>
  BY DEF Deciding, HostInv, HostTypeOK
<1>2. host.gen \in Gen
  BY <1>1 DEF HostInv, HostIsTyped, HostTypeOK
<1>3. box' \in [Role -> Container]
  BY DEF HostInv, HostTypeOK
<1>4. LoadedRules'
  BY <1>1 DEF HostInv, LoadedRules, Agreed, Quiet
<1>5. ContainersAreTrue'
  BY DEF HostInv, ContainersAreTrue
<1>6. RecoveryIsAllowed'
  <2>1. CASE host'.todo \in StopStepsOnly
    <3>1. host'.todo \notin Recovery
      BY <2>1, RecoveryIsNotStops
    <3> QED BY <3>1 DEF RecoveryIsAllowed
  <2>2. CASE /\ host'.todo \in L11 /\ files'.marker = None /\ files'.fault = None /\ ~host'.fault
    <3>1. host'.todo \notin L10 \cup BeforeOpenClaw \cup BeforeGuard
      <4>1. Head(host'.todo) = <<"stop", "guard">>
        BY <2>2, RecoveryLists
      <4> QED BY ONLY <4>1, AfterTheFirst
    <3> QED BY <2>2, <3>1 DEF RecoveryIsAllowed
  <2> QED BY <2>1, <2>2
<1> QED BY <1>1, <1>2, <1>3, <1>4, <1>5, <1>6, HostWorks

\* A step of the host that touches nothing but itself, its lock and the clock.
LEMMA HostAlone ==
    ASSUME HostInv, UNCHANGED <<files, job, box, op, commands>>,
           host' \in HostStates, sampled' \in Ages, mishaps' \in 0..MaxMishaps,
           host'.at = "down" => host' = Down,
           host'.at # "down" => host'.gen = job.loaded /\ job.loaded # None,
           lock' \in {None, "host", "operator", "dead"},
           lock' = "host" <=> host'.at \in {"locked", "acting"},
           lock' = "operator" <=> lock = "operator",
           SampleHolds',
           host'.at = "acting" => /\ host.at = "acting"
                                  /\ UNCHANGED <<host.todo, host.fault, host.kept>>
    PROVE  HostInv'
<1>1. CommandIsTyped' /\ CommandsAreTrue'
  <2>1. (\A r \in Role : box'[r].gen = box[r].gen) /\ (Quiet => Quiet')
    BY DEF Quiet
  <2> QED BY <2>1, CommandsKept DEF HostInv
<1>2. HostIsTyped'
  BY DEF HostIsTyped
<1>3. host'.kept \subseteq Role /\ host'.age \in Ages
       /\ host'.at \in {"down", "idle", "gated", "locked", "acting"}
  BY DEF HostStates
<1>4. HostTypeOK'
  BY <1>3 DEF HostInv, HostTypeOK, Ages
<1>5. LoadedRules'
  BY DEF HostInv, LoadedRules, Agreed, Quiet
<1>6. ContainersAreTrue'
  BY DEF HostInv, ContainersAreTrue
<1>7. RecoveryIsAllowed'
  BY DEF HostInv, RecoveryIsAllowed
<1> QED BY <1>1, <1>2, <1>4, <1>5, <1>6, <1>7 DEF HostInv

LEMMA DownIsAState == Down \in HostStates /\ Down.at = "down" /\ Down.age = None
  BY StopsOnly DEF Down, HostStates, Ages, Results

LEMMA HostFields ==
    ASSUME HostInv
    PROVE  /\ host \in HostStates /\ host.at \in {"down", "idle", "gated", "locked", "acting"}
           /\ host.at # "down" => host.gen = job.loaded /\ job.loaded # None /\ host.gen \in Gen
           /\ lock \in {None, "host", "operator", "dead"} /\ None \notin {"host", "operator", "dead"}
           /\ lock = "host" <=> host.at \in {"locked", "acting"}
           /\ sampled \in Ages /\ host.age \in Ages /\ mishaps \in 0..MaxMishaps
  BY HostAssumption DEF HostInv, HostIsTyped, HostTypeOK, Ages

LEMMA HostStartsHolds == ASSUME HostInv, HostStarts PROVE HostInv'
<1>1. /\ host' \in HostStates /\ host'.at = "idle" /\ host'.gen = job.loaded /\ host'.age = None
  <2> DEFINE fault == files.fault # None
  <2>1. host' = [Down EXCEPT !.at = "idle", !.gen = job.loaded, !.fault = fault]
    BY DEF HostStarts
  <2>2. job.loaded \in Gen \cup {None} /\ fault \in BOOLEAN
    BY DEF HostInv, HostTypeOK
  <2> HIDE DEF fault
  <2> QED BY <2>1, <2>2, DownIsAState DEF HostStates
<1>2. host.at = "down" /\ job.loaded # None
      /\ UNCHANGED <<lock, files, job, box, op, sampled, mishaps, commands>>
  BY DEF HostStarts
<1>3. SampleHolds'
  BY <1>1 DEF SampleHolds
<1> QED BY <1>1, <1>2, <1>3, HostFields, HostAlone

LEMMA ReadGateHolds == ASSUME HostInv, ReadGate PROVE HostInv'
<1>1. /\ host' \in HostStates /\ host'.at = "gated" /\ host'.gen = host.gen
      /\ UNCHANGED <<host.age, host.kept>>
  BY HostFields DEF ReadGate, HostStates
<1>2. host.at = "idle" /\ UNCHANGED <<lock, files, job, box, op, sampled, mishaps, commands>>
  BY DEF ReadGate
<1>3. SampleHolds'
  BY <1>1, <1>2 DEF SampleHolds, HostInv
<1> QED BY <1>1, <1>2, <1>3, HostFields, HostAlone

LEMMA TakeLockHolds == ASSUME HostInv, TakeLock PROVE HostInv'
<1>1. /\ host' \in HostStates /\ host'.gen = host.gen /\ UNCHANGED <<host.age, host.kept>>
      /\ \/ lock = None /\ lock' = "host" /\ host'.at = "locked"
         \/ lock' = lock /\ host'.at = "idle"
  <2>1. CASE lock = None
    <3>1. lock' = "host" /\ host' = [host EXCEPT !.at = "locked"]
      BY <2>1 DEF TakeLock
    <3> QED BY <2>1, <3>1, HostFields DEF HostStates
  <2>2. CASE lock # None
    <3>1. lock' = lock /\ host' = [host EXCEPT !.at = "idle", !.result = "another-operation"]
      BY <2>2 DEF TakeLock
    <3> QED BY <3>1, HostFields DEF HostStates, Results
  <2> QED BY <2>1, <2>2
<1>2. host.at = "gated" /\ UNCHANGED <<files, job, box, op, sampled, mishaps, commands>>
  BY DEF TakeLock
<1>3. SampleHolds'
  BY <1>1, <1>2 DEF SampleHolds, HostInv
<1> QED BY <1>1, <1>2, <1>3, HostFields, HostAlone

LEMMA HostUnlocksHolds == ASSUME HostInv, HostUnlocks PROVE HostInv'
<1>1. /\ host' \in HostStates /\ host'.at = "idle" /\ host'.gen = host.gen
      /\ UNCHANGED <<host.age, host.kept>>
  BY HostFields DEF HostUnlocks, HostStates
<1>2. host.at = "acting" /\ lock' = None /\ UNCHANGED <<files, job, box, op, sampled, mishaps, commands>>
  BY DEF HostUnlocks
<1>3. SampleHolds'
  BY <1>1, <1>2 DEF SampleHolds, HostInv
<1> QED BY <1>1, <1>2, <1>3, HostFields, HostAlone

LEMMA BackoffEndsHolds == ASSUME HostInv, BackoffEnds PROVE HostInv'
<1>1. /\ host' \in HostStates
      /\ UNCHANGED <<host.at, host.gen, host.todo, host.fault, host.age, host.kept>>
  BY HostFields DEF BackoffEnds, HostStates
<1>2. host.backoff /\ UNCHANGED <<lock, files, job, box, op, sampled, mishaps, commands>>
  BY DEF BackoffEnds
<1>3. host.at # "down"
  BY <1>2 DEF HostInv, HostIsTyped, Down
<1>4. SampleHolds'
  BY <1>1, <1>2 DEF SampleHolds, HostInv
<1> QED BY <1>1, <1>2, <1>3, <1>4, HostFields, HostAlone

LEMMA Older ==
    ASSUME HostInv, NEW slow \in 0..1, sampled' = Aged(sampled, slow), host'.age = Aged(host.age, slow),
           UNCHANGED <<box, host.kept>>
    PROVE  SampleHolds'
<1>1. sampled \in Ages /\ host.age \in Ages
  BY HostFields
<1>2. host'.age # None => host.age # None
  BY <1>1, AgedAges
<1>3. sampled # None /\ host.age # None /\ sampled <= host.age =>
          sampled' # None /\ sampled' <= host'.age
  BY <1>1, AgedTogether
<1> QED BY <1>2, <1>3 DEF HostInv, SampleHolds

LEMMA PassesHolds == ASSUME HostInv, Passes PROVE HostInv'
<1>1. Aged(host.age, 1) \in Ages /\ Aged(sampled, 1) \in Ages
  BY HostFields, AgedAges
<1>2. /\ host' \in HostStates /\ host'.age = Aged(host.age, 1)
      /\ UNCHANGED <<host.at, host.gen, host.todo, host.fault, host.kept>>
  BY <1>1, HostFields DEF Passes, HostStates
<1>3. sampled' = Aged(sampled, 1) /\ UNCHANGED <<lock, files, job, box, op, mishaps, commands>>
  BY DEF Passes
<1>4. SampleHolds'
  BY <1>2, <1>3, Older
<1>5. host.at = "down" => host' = Down
  <2>1. SUFFICES ASSUME host.at = "down" PROVE host' = Down
    OBVIOUS
  <2>2. host = Down /\ Aged(host.age, 1) = None
    BY <2>1 DEF HostInv, HostIsTyped, Down, Aged
  <2> QED BY <2>2 DEF Passes, Down
<1> QED BY <1>1, <1>2, <1>3, <1>4, <1>5, HostFields, HostAlone

LEMMA HostKilledHolds == ASSUME HostInv, HostKilled PROVE HostInv'
<1>1. /\ host.at # "down" /\ host' = Down /\ lock' = IF lock = "host" THEN "dead" ELSE lock
      /\ mishaps' \in 0..MaxMishaps /\ UNCHANGED <<files, job, box, op, sampled, commands>>
  BY HostFields, HostAssumption DEF HostKilled, Spoilt
<1>2. SampleHolds'
  BY <1>1, DownIsAState DEF SampleHolds
<1> QED BY <1>1, <1>2, HostFields, DownIsAState, HostAlone

-----------------------------------------------------------------------------
(* The decisions.                                                           *)

LEMMA ResolvedState ==
    ASSUME NEW h \in HostStates, NEW result \in Results, NEW todo \in StopStepsOnly \cup Recovery,
           Resolved(h, result, todo)
    PROVE  /\ host' \in HostStates /\ host'.at = "acting" /\ host'.gen = h.gen /\ host'.todo = todo
           /\ host'.fault = h.fault /\ host'.age = h.age /\ host'.kept = h.kept
           /\ host'.result = result
  BY DEF Resolved, HostStates

LEMMA AwakeState ==
    ASSUME HostInv
    PROVE  /\ Awake \in HostStates /\ Awake.gen = host.gen /\ Awake.age = host.age
           /\ Awake.kept = host.kept /\ (Awake.fault <=> host.fault \/ files.fault # None)
<1>1. host \in HostStates /\ (host.fault \/ files.fault # None) \in BOOLEAN
  BY HostFields DEF HostStates
<1> QED BY <1>1 DEF Awake, HostStates

LEMMA ForgetfulState ==
    ASSUME NEW h \in HostStates
    PROVE  /\ Forgetful(h) \in HostStates /\ Forgetful(h).gen = h.gen /\ Forgetful(h).fault = h.fault
           /\ Forgetful(h).age = None
  BY DEF Forgetful, HostStates, Ages

LEMMA SettledState ==
    ASSUME NEW h \in HostStates, NEW slow \in 0..1
    PROVE  /\ Settled(h, slow) \in HostStates
           /\ Settled(h, slow).gen = h.gen /\ Settled(h, slow).fault = h.fault
           /\ \/ Settled(h, slow).age = None
              \/ Settled(h, slow).age = Aged(h.age, slow) /\ Settled(h, slow).kept = h.kept
           /\ ~Sound => Settled(h, slow).age = None
<1> DEFINE later == [h EXCEPT !.age = Aged(@, slow)]
<1>1. Aged(h.age, slow) \in Ages
  BY AgedAges DEF HostStates
<1>2. /\ later \in HostStates /\ later.gen = h.gen /\ later.fault = h.fault
      /\ later.age = Aged(h.age, slow) /\ later.kept = h.kept
  BY <1>1 DEF HostStates
<1>3. /\ Forgetful(later) \in HostStates /\ Forgetful(later).gen = h.gen
      /\ Forgetful(later).fault = h.fault /\ Forgetful(later).age = None
  BY <1>2, ForgetfulState
<1>4. Settled(h, slow) = IF Sound THEN later ELSE Forgetful(later)
  BY DEF Settled
<1> HIDE DEF later
<1>5. CASE Sound
  BY <1>2, <1>4, <1>5
<1>6. CASE ~Sound
  BY <1>3, <1>4, <1>6
<1> QED BY <1>5, <1>6

LEMMA RecoverState ==
    ASSUME NEW h \in HostStates, Recover(h)
    PROVE  /\ host' \in HostStates /\ host'.at = "acting" /\ host'.gen = h.gen
           /\ host'.fault = h.fault /\ host'.age = h.age /\ host'.kept = h.kept
           /\ host'.todo = <<>> \/ host'.todo \in L11
<1>1. /\ <<>> \in StopStepsOnly \cup Recovery /\ RecoverySteps \in StopStepsOnly \cup Recovery
      /\ "guard-unready" \in Results /\ "backoff" \in Results /\ "recovering" \in Results
  BY StopsOnly, RecoveryBegins DEF Recovery, Results
<1>2. CASE Resolved(h, "guard-unready", <<>>)
  BY <1>1, <1>2, ResolvedState
<1>3. CASE Resolved(h, "backoff", <<>>)
  BY <1>1, <1>3, ResolvedState
<1>4. CASE Resolved([h EXCEPT !.backoff = TRUE], "recovering", RecoverySteps)
  <2> DEFINE b == [h EXCEPT !.backoff = TRUE]
  <2>1. b \in HostStates /\ b.gen = h.gen /\ b.fault = h.fault /\ b.age = h.age /\ b.kept = h.kept
    BY DEF HostStates
  <2>2. Resolved(b, "recovering", RecoverySteps)
    BY <1>4
  <2> HIDE DEF b
  <2> QED BY <1>1, <2>1, <2>2, ResolvedState, RecoveryBegins
<1> QED BY <1>2, <1>3, <1>4 DEF Recover

LEMMA Looked ==
    ASSUME HostInv, NEW slow \in 0..1, NEW bad \in BOOLEAN, Looks(bad, slow)
    PROVE  sampled' = Aged(sampled, slow) /\ sampled' \in Ages /\ mishaps' \in 0..MaxMishaps
<1>1. sampled' = Aged(sampled, slow)
  BY DEF Looks
<1>2. mishaps' = mishaps \/ (mishaps < MaxMishaps /\ mishaps' = mishaps + 1)
  BY DEF Looks, Spoilt, Fine
<1> QED BY <1>1, <1>2, HostFields, AgedAges, HostAssumption

LEMMA DecidingFields ==
    ASSUME HostInv, Deciding
    PROVE  host \in HostStates /\ host.gen \in Gen /\ files \in Files /\ UNCHANGED box
  BY HostFields DEF Deciding, HostInv, HostTypeOK

LEMMA Unsampled ==
    ASSUME HostInv, UNCHANGED <<box, sampled>>, host'.age = host.age, host'.kept = host.kept
    PROVE  SampleHolds'
  BY DEF HostInv, SampleHolds

LEMMA WithoutAge == ASSUME host'.age = None PROVE SampleHolds'
  BY DEF SampleHolds

LEMMA DisabledHolds == ASSUME HostInv, Disabled PROVE HostInv'
<1>1. Deciding /\ UNCHANGED <<files, sampled>>
  BY DEF Disabled
<1>2. PICK up \in BOOLEAN :
         /\ IF up THEN Fine ELSE Spoilt
         /\ Resolved(host, "disabled", IF up THEN StopSteps(Trusted(host.gen)) ELSE <<>>)
  BY DEF Disabled
<1>3. (IF up THEN StopSteps(Trusted(host.gen)) ELSE <<>>) \in StopStepsOnly /\ "disabled" \in Results
  BY StopsOnly DEF Results
<1>4. /\ host' \in HostStates /\ host'.at = "acting" /\ host'.gen = host.gen
      /\ host'.todo \in StopStepsOnly /\ host'.age = host.age /\ host'.kept = host.kept
  BY <1>1, <1>2, <1>3, DecidingFields, ResolvedState
<1>5. mishaps' \in 0..MaxMishaps
  BY <1>2, HostFields, HostAssumption DEF Fine, Spoilt
<1>6. SampleHolds'
  BY <1>1, <1>4, DecidingFields, Unsampled
<1> QED BY <1>1, <1>4, <1>5, <1>6, DecidingFields, HostFields, HostDecides

LEMMA InMaintenanceHolds == ASSUME HostInv, InMaintenance PROVE HostInv'
<1>1. Deciding /\ UNCHANGED <<files, sampled, mishaps>> /\ Resolved(host, "maintenance", <<>>)
  BY DEF InMaintenance
<1>2. <<>> \in StopStepsOnly /\ "maintenance" \in Results
  BY StopsOnly DEF Results
<1>3. /\ host' \in HostStates /\ host'.at = "acting" /\ host'.gen = host.gen
      /\ host'.todo \in StopStepsOnly /\ host'.age = host.age /\ host'.kept = host.kept
  BY <1>1, <1>2, DecidingFields, ResolvedState
<1>4. SampleHolds'
  BY <1>1, <1>3, DecidingFields, Unsampled
<1> QED BY <1>1, <1>3, <1>4, DecidingFields, HostFields, HostDecides

LEMMA DockerAwayHolds == ASSUME HostInv, DockerAway PROVE HostInv'
<1>1. Deciding /\ UNCHANGED files /\ Looks(TRUE, 0) /\ Resolved(Awake, "waiting", <<>>)
  BY DEF DockerAway, Controls
<1>2. <<>> \in StopStepsOnly /\ "waiting" \in Results
  BY StopsOnly DEF Results
<1>3. /\ host' \in HostStates /\ host'.at = "acting" /\ host'.gen = host.gen
      /\ host'.todo \in StopStepsOnly /\ host'.age = host.age /\ host'.kept = host.kept
  BY <1>1, <1>2, AwakeState, ResolvedState
<1>4. sampled' = Aged(sampled, 0) /\ sampled' \in Ages /\ mishaps' \in 0..MaxMishaps
  <2>1. 0 \in 0..1 /\ TRUE \in BOOLEAN
    OBVIOUS
  <2> QED BY <1>1, <2>1, Looked
<1>5. SampleHolds'
  BY <1>1, <1>3, <1>4, DecidingFields, HostFields, AgedAges, Unsampled
<1> QED BY <1>1, <1>3, <1>4, <1>5, DecidingFields, HostDecides

LEMMA IdentityNeedsAttentionHolds == ASSUME HostInv, IdentityNeedsAttention PROVE HostInv'
<1>1. Deciding /\ UNCHANGED files
  BY DEF IdentityNeedsAttention, Controls
<1>2. PICK failed \in BOOLEAN, seen \in {{}, Trusted(host.gen)} :
         /\ Looks(failed, 0)
         /\ Resolved(Forgetful(Awake), "identity", StopSteps(seen \cap Dependants))
  BY DEF IdentityNeedsAttention
<1>3. StopSteps(seen \cap Dependants) \in StopStepsOnly /\ "identity" \in Results
  BY StopsOnly DEF Results
<1>4. /\ Forgetful(Awake) \in HostStates /\ Forgetful(Awake).gen = host.gen /\ Forgetful(Awake).age = None
  BY AwakeState, ForgetfulState
<1>5. /\ host' \in HostStates /\ host'.at = "acting" /\ host'.gen = host.gen
      /\ host'.todo \in StopStepsOnly /\ host'.age = None
  BY <1>2, <1>3, <1>4, ResolvedState
<1>6. sampled' \in Ages /\ mishaps' \in 0..MaxMishaps
  BY <1>2, Looked
<1> QED BY <1>1, <1>5, <1>6, WithoutAge, DecidingFields, HostDecides

LEMMA ActivationNeedsAttentionHolds == ASSUME HostInv, ActivationNeedsAttention PROVE HostInv'
<1>1. Deciding /\ UNCHANGED files
  BY DEF ActivationNeedsAttention, Controls
<1>2. PICK slow \in 0..1 :
         /\ Looks(TRUE, slow)
         /\ Resolved([Awake EXCEPT !.age = Aged(@, slow)], "activation", StopSteps(Dependants))
  BY DEF ActivationNeedsAttention
<1> DEFINE h == [Awake EXCEPT !.age = Aged(@, slow)]
<1>3. StopSteps(Dependants) \in StopStepsOnly /\ "activation" \in Results
  BY StopsOnly DEF Results
<1>4. Aged(host.age, slow) \in Ages
  BY HostFields, AgedAges
<1>5. h \in HostStates /\ h.gen = host.gen /\ h.age = Aged(host.age, slow) /\ h.kept = host.kept
  BY <1>4, AwakeState DEF HostStates
<1>6. Resolved(h, "activation", StopSteps(Dependants))
  BY <1>2
<1> HIDE DEF h
<1>7. /\ host' \in HostStates /\ host'.at = "acting" /\ host'.gen = host.gen
      /\ host'.todo \in StopStepsOnly /\ host'.age = Aged(host.age, slow) /\ host'.kept = host.kept
  BY <1>3, <1>5, <1>6, ResolvedState
<1>8. sampled' = Aged(sampled, slow) /\ sampled' \in Ages /\ mishaps' \in 0..MaxMishaps
  BY <1>2, Looked
<1>9. SampleHolds'
  BY <1>1, <1>7, <1>8, DecidingFields, Older
<1> QED BY <1>1, <1>7, <1>8, <1>9, DecidingFields, HostDecides

LEMMA StorageStopsHolds == ASSUME HostInv, StorageStops PROVE HostInv'
<1>1. PICK disk \in {"none", "fault", "stop", "hold"}, written \in BOOLEAN, slow \in 0..1 :
         LET fault == Awake.fault \/ disk = "fault" IN
         /\ Allowed(disk # "none", slow)
         /\ files' = IF disk = "fault" /\ written THEN [files EXCEPT !.fault = host.gen] ELSE files
         /\ Resolved([Awake EXCEPT !.fault = fault, !.paused = TRUE, !.age = Aged(@, slow)],
                     IF fault THEN "fault-latched" ELSE "low-disk", StopSteps(Role))
  BY DEF StorageStops
<1>2. Deciding /\ Looks(disk # "none", slow)
  BY <1>1 DEF Allowed, Controls
<1> DEFINE fault == Awake.fault \/ disk = "fault"
           h == [Awake EXCEPT !.fault = fault, !.paused = TRUE, !.age = Aged(@, slow)]
           result == IF fault THEN "fault-latched" ELSE "low-disk"
<1>3. StopSteps(Role) \in StopStepsOnly /\ result \in Results
  BY StopsOnly DEF Results
<1>4. Aged(host.age, slow) \in Ages
  BY HostFields, AgedAges
<1>5. fault \in BOOLEAN
  BY AwakeState DEF HostStates
<1>6. Resolved(h, result, StopSteps(Role))
  BY <1>1
<1> HIDE DEF fault
<1>7. h \in HostStates /\ h.gen = host.gen /\ h.age = Aged(host.age, slow) /\ h.kept = host.kept
  BY <1>4, <1>5, AwakeState DEF HostStates
<1> HIDE DEF h, result
<1>8. /\ host' \in HostStates /\ host'.at = "acting" /\ host'.gen = host.gen
      /\ host'.todo \in StopStepsOnly /\ host'.age = Aged(host.age, slow) /\ host'.kept = host.kept
  BY <1>3, <1>6, <1>7, ResolvedState
<1>9. sampled' = Aged(sampled, slow) /\ sampled' \in Ages /\ mishaps' \in 0..MaxMishaps
  <2>1. (disk # "none") \in BOOLEAN
    OBVIOUS
  <2> QED BY <1>2, <2>1, Looked
<1>10. files' \in Files /\ files'.gate = files.gate /\ files'.marker = files.marker
  <2>1. host.gen \in Gen /\ files \in Files
    BY <1>2, DecidingFields
  <2> QED BY <1>1, <2>1 DEF Files
<1>11. SampleHolds'
  BY <1>2, <1>8, <1>9, DecidingFields, Older
<1> QED BY <1>2, <1>8, <1>9, <1>10, <1>11, DecidingFields, HostDecides

LEMMA StorageUnavailableHolds == ASSUME HostInv, StorageUnavailable PROVE HostInv'
<1>1. PICK slow \in 0..1 :
         /\ Allowed(TRUE, slow)
         /\ \/ Resolved([Awake EXCEPT !.age = Aged(host.age, slow)], "grace", <<>>)
            \/ Resolved([Forgetful(Awake) EXCEPT !.paused = TRUE], "observation-paused", StopSteps(Role))
         /\ UNCHANGED files
  BY DEF StorageUnavailable
<1>2. Deciding /\ Looks(TRUE, slow) /\ UNCHANGED files
  BY <1>1 DEF Allowed, Controls
<1>3. sampled' = Aged(sampled, slow) /\ sampled' \in Ages /\ mishaps' \in 0..MaxMishaps
  BY <1>2, Looked
<1>4. CASE Resolved([Awake EXCEPT !.age = Aged(host.age, slow)], "grace", <<>>)
  <2> DEFINE h == [Awake EXCEPT !.age = Aged(host.age, slow)]
  <2>1. <<>> \in StopStepsOnly /\ "grace" \in Results
    BY StopsOnly DEF Results
  <2>2. Aged(host.age, slow) \in Ages
    BY HostFields, AgedAges
  <2>3. h \in HostStates /\ h.gen = host.gen /\ h.age = Aged(host.age, slow) /\ h.kept = host.kept
    BY <2>2, AwakeState DEF HostStates
  <2>4. Resolved(h, "grace", <<>>)
    BY <1>4
  <2> HIDE DEF h
  <2>5. /\ host' \in HostStates /\ host'.at = "acting" /\ host'.gen = host.gen
        /\ host'.todo \in StopStepsOnly /\ host'.age = Aged(host.age, slow) /\ host'.kept = host.kept
    BY <2>1, <2>3, <2>4, ResolvedState
  <2>6. SampleHolds'
    BY <1>2, <1>3, <2>5, DecidingFields, Older
  <2> QED BY <1>2, <1>3, <2>5, <2>6, DecidingFields, HostDecides
<1>5. CASE Resolved([Forgetful(Awake) EXCEPT !.paused = TRUE], "observation-paused", StopSteps(Role))
  <2> DEFINE h == [Forgetful(Awake) EXCEPT !.paused = TRUE]
  <2>1. StopSteps(Role) \in StopStepsOnly /\ "observation-paused" \in Results
    BY StopsOnly DEF Results
  <2>2. /\ Forgetful(Awake) \in HostStates /\ Forgetful(Awake).gen = host.gen
        /\ Forgetful(Awake).age = None
    BY AwakeState, ForgetfulState
  <2>3. h \in HostStates /\ h.gen = host.gen /\ h.age = None
    BY <2>2 DEF HostStates
  <2>4. Resolved(h, "observation-paused", StopSteps(Role))
    BY <1>5
  <2> HIDE DEF h
  <2>5. /\ host' \in HostStates /\ host'.at = "acting" /\ host'.gen = host.gen
        /\ host'.todo \in StopStepsOnly /\ host'.age = None
    BY <2>1, <2>3, <2>4, ResolvedState
  <2> QED BY <1>2, <1>3, <2>5, WithoutAge, DecidingFields, HostDecides
<1> QED BY <1>1, <1>4, <1>5

LEMMA LowDiskHolds == ASSUME HostInv, LowDisk PROVE HostInv'
<1>1. /\ Deciding /\ UNCHANGED files /\ ~Awake.fault /\ files.marker = None
      /\ \E slow \in 0..1 :
           /\ Looks(TRUE, slow)
           /\ \/ Resolved([Settled(Awake, slow) EXCEPT !.paused = FALSE], "healthy", <<>>)
              \/ Resolved(Settled(Awake, slow), "no-restart", <<>>)
              \/ Recover(Settled(Awake, slow))
  BY DEF LowDisk, Allowed, Controls
<1>2. PICK slow \in 0..1 :
         /\ Looks(TRUE, slow)
         /\ \/ Resolved([Settled(Awake, slow) EXCEPT !.paused = FALSE], "healthy", <<>>)
            \/ Resolved(Settled(Awake, slow), "no-restart", <<>>)
            \/ Recover(Settled(Awake, slow))
  BY <1>1
<1>3. sampled' = Aged(sampled, slow) /\ sampled' \in Ages /\ mishaps' \in 0..MaxMishaps
  BY <1>2, Looked
<1> DEFINE h == Settled(Awake, slow)
           q == [h EXCEPT !.paused = FALSE]
<1>4. /\ h \in HostStates /\ h.gen = host.gen /\ ~h.fault
      /\ h.age = None \/ (h.age = Aged(host.age, slow) /\ h.kept = host.kept)
  BY <1>1, AwakeState, SettledState
<1>5. \/ Resolved(q, "healthy", <<>>) \/ Resolved(h, "no-restart", <<>>) \/ Recover(h)
  BY <1>2
<1> HIDE DEF h
<1>6. q \in HostStates /\ q.gen = h.gen /\ q.age = h.age /\ q.kept = h.kept /\ q.fault = h.fault
  BY <1>4 DEF HostStates
<1> HIDE DEF q
<1>7. <<>> \in StopStepsOnly /\ "healthy" \in Results /\ "no-restart" \in Results
  BY StopsOnly DEF Results
<1>8. /\ host' \in HostStates /\ host'.at = "acting" /\ host'.gen = host.gen /\ ~host'.fault
      /\ host'.todo \in StopStepsOnly \/ host'.todo \in L11
      /\ host'.age = None \/ (host'.age = Aged(host.age, slow) /\ host'.kept = host.kept)
  <2>1. CASE Resolved(q, "healthy", <<>>)
    BY <2>1, <1>4, <1>6, <1>7, ResolvedState
  <2>2. CASE Resolved(h, "no-restart", <<>>)
    BY <2>2, <1>4, <1>7, ResolvedState
  <2>3. CASE Recover(h)
    BY <2>3, <1>4, <1>7, RecoverState
  <2> QED BY <1>5, <2>1, <2>2, <2>3
<1>9. SampleHolds'
  <2>1. CASE host'.age = None
    BY <2>1, WithoutAge
  <2>2. CASE host'.age = Aged(host.age, slow) /\ host'.kept = host.kept
    BY <1>1, <1>3, <2>2, DecidingFields, Older
  <2> QED BY <1>8, <2>1, <2>2
<1>10. files'.fault = None /\ files'.marker = None
  BY <1>1, AwakeState
<1> QED BY <1>1, <1>3, <1>8, <1>9, <1>10, DecidingFields, HostDecides

LEMMA StorageGoodHolds == ASSUME HostInv, StorageGood PROVE HostInv'
<1>1. /\ Deciding /\ UNCHANGED files /\ ~Awake.fault /\ files.marker = None
      /\ \E slow \in 0..1 :
           /\ Spoilt \/ Fine
           /\ sampled' = IF Sound THEN slow ELSE Aged(sampled, slow)
           /\ IF Sound THEN Resolved(Remembered([Awake EXCEPT !.paused = FALSE], slow), "healthy", <<>>)
              ELSE Recover(Settled(Awake, slow))
  BY DEF StorageGood, Controls
<1>2. PICK slow \in 0..1 :
         /\ Spoilt \/ Fine
         /\ sampled' = IF Sound THEN slow ELSE Aged(sampled, slow)
         /\ IF Sound THEN Resolved(Remembered([Awake EXCEPT !.paused = FALSE], slow), "healthy", <<>>)
            ELSE Recover(Settled(Awake, slow))
  BY <1>1
<1>3. mishaps' \in 0..MaxMishaps
  BY <1>2, HostFields, HostAssumption DEF Spoilt, Fine
<1>4. files'.fault = None /\ files'.marker = None
  BY <1>1, AwakeState
<1>5. slow \in Ages /\ slow # None
  BY HostAssumption DEF Ages
<1>6. <<>> \in StopStepsOnly /\ "healthy" \in Results
  BY StopsOnly DEF Results
<1>7. CASE Sound
  <2> DEFINE h == Remembered([Awake EXCEPT !.paused = FALSE], slow)
  <2>1. h \in HostStates /\ h.gen = host.gen /\ ~h.fault /\ h.age = slow
    BY <1>1, <1>5, AwakeState DEF HostStates, Remembered
  <2>2. Resolved(h, "healthy", <<>>) /\ sampled' = slow
    BY <1>2, <1>7
  <2> HIDE DEF h
  <2>3. /\ host' \in HostStates /\ host'.at = "acting" /\ host'.gen = host.gen
        /\ host'.todo \in StopStepsOnly /\ host'.age = slow
    BY <1>6, <2>1, <2>2, ResolvedState
  <2>4. SampleHolds'
    <3>1. sampled' # None /\ sampled' <= host'.age
      BY <1>5, <2>2, <2>3
    <3> QED BY <3>1 DEF SampleHolds
  <2> QED BY <1>1, <1>3, <1>5, <2>2, <2>3, <2>4, DecidingFields, HostDecides
<1>8. CASE ~Sound
  <2> DEFINE h == Settled(Awake, slow)
  <2>1. h \in HostStates /\ h.gen = host.gen /\ ~h.fault /\ h.age = None
    BY <1>1, <1>8, AwakeState, SettledState
  <2>2. Recover(h) /\ sampled' = Aged(sampled, slow)
    BY <1>2, <1>8
  <2> HIDE DEF h
  <2>3. /\ host' \in HostStates /\ host'.at = "acting" /\ host'.gen = host.gen /\ ~host'.fault
        /\ host'.todo \in StopStepsOnly \/ host'.todo \in L11
        /\ host'.age = None
    BY <1>6, <2>1, <2>2, RecoverState
  <2>4. sampled' \in Ages
    BY <2>2, HostFields, AgedAges
  <2> QED BY <1>1, <1>3, <1>4, <2>3, <2>4, WithoutAge, DecidingFields, HostDecides
<1> QED BY <1>7, <1>8

-----------------------------------------------------------------------------
(* The steps of a decision.                                                 *)

\* The head of a recovery tells how far it has come.
LEMMA RecoveryKinds ==
    ASSUME NEW l \in Recovery
    PROVE  \/ l \in L11 /\ Head(l) = <<"stop", "guard">> /\ Tail(l) \in L10
           \/ l \in L10 /\ Head(l) = <<"stop", "openclaw">> /\ Tail(l) \in BeforeOpenClaw
           \/ /\ l \in BeforeOpenClaw /\ Tail(l) \in BeforeOpenClaw
              /\ Head(l) \in {<<"stop", "origin">>, <<"start", "origin">>, <<"ready", "origin">>}
           \/ l \in BeforeOpenClaw /\ Head(l) = <<"start", "openclaw">> /\ Tail(l) \in BeforeGuard
           \/ /\ l \in BeforeGuard /\ Tail(l) \in BeforeGuard
              /\ Head(l) \in {<<"ready", "openclaw">>, <<"inputs", "all">>}
           \/ l \in BeforeGuard /\ Head(l) = <<"start", "guard">> /\ Tail(l) = L2
           \/ l = L2 /\ Head(l) = <<"ready", "guard">> /\ Tail(l) = L1
           \/ l = L1 /\ Head(l) = <<"healthy", "all">> /\ Tail(l) = <<>>
<1>1. CASE l \in L11
  BY <1>1, RecoveryLists
<1>2. CASE l \in L10
  BY <1>2, RecoveryLists DEF BeforeOpenClaw
<1>3. CASE l = L9 \/ l = L8 \/ l = L7
  BY <1>3, RecoveryLists DEF BeforeOpenClaw
<1>4. CASE l = L6
  BY <1>4, RecoveryLists DEF BeforeOpenClaw, BeforeGuard
<1>5. CASE l = L5 \/ l = L4
  BY <1>5, RecoveryLists DEF BeforeGuard
<1>6. CASE l = L3
  BY <1>6, RecoveryLists DEF BeforeGuard
<1>7. CASE l = L2 \/ l = L1
  BY <1>7, RecoveryLists
<1> QED BY <1>1, <1>2, <1>3, <1>4, <1>5, <1>6, <1>7, RecoverySplits

LEMMA RecoveryHeads ==
    /\ \A l \in L10 : Head(l) = <<"stop", "openclaw">>
    /\ \A l \in BeforeOpenClaw :
          Head(l) \in {<<"stop", "origin">>, <<"start", "origin">>, <<"ready", "origin">>, <<"start", "openclaw">>}
    /\ \A l \in BeforeGuard :
          Head(l) \in {<<"ready", "openclaw">>, <<"inputs", "all">>, <<"start", "guard">>}
    /\ Head(L2) = <<"ready", "guard">> /\ Head(L1) = <<"healthy", "all">>
  BY RecoveryLists DEF BeforeOpenClaw, BeforeGuard

\* No list is of two kinds.
LEMMA KindsDiffer ==
    /\ \A l \in L10 : l \notin BeforeOpenClaw \cup BeforeGuard
    /\ \A l \in BeforeOpenClaw : l \notin L10 \cup BeforeGuard
    /\ \A l \in BeforeGuard : l \notin L10 \cup BeforeOpenClaw
    /\ L2 \notin L10 \cup BeforeOpenClaw \cup BeforeGuard
    /\ L1 \notin L10 \cup BeforeOpenClaw \cup BeforeGuard
<1>1. \A l \in L10 : l \notin BeforeOpenClaw /\ l \notin BeforeGuard
  BY RecoveryHeads
<1>2. \A l \in BeforeOpenClaw : l \notin BeforeGuard
  BY RecoveryHeads
<1>3. L2 \notin L10 /\ L2 \notin BeforeOpenClaw /\ L2 \notin BeforeGuard
  BY RecoveryHeads
<1>4. L1 \notin L10 /\ L1 \notin BeforeOpenClaw /\ L1 \notin BeforeGuard
  BY RecoveryHeads
<1> QED BY <1>1, <1>2, <1>3, <1>4

LEMMA RecoveryGoesOn ==
    ASSUME HostInv, host.at = "acting", host.todo \in Recovery, host'.todo = Tail(host.todo),
           UNCHANGED files, host'.fault = host.fault, host'.kept \subseteq host.kept,
           \A r \in Dependants : box'[r].run => box[r].run \/ Head(host.todo) = <<"start", r>>,
           \A r \in Dependants : Head(host.todo) = <<"stop", r>> => ~box'[r].run,
           Head(host.todo) = <<"start", "openclaw">> => "openclaw" \notin host'.kept
    PROVE  RecoveryIsAllowed'
<1>1. /\ files'.marker = None /\ files'.fault = None /\ ~host'.fault
      /\ host.todo \in L10 \cup BeforeOpenClaw \cup BeforeGuard => ~box["guard"].run
      /\ host.todo \in BeforeOpenClaw => ~box["openclaw"].run
      /\ host.todo \in BeforeGuard => "openclaw" \notin host.kept
  BY DEF HostInv, RecoveryIsAllowed
<1>2. "guard" \in Dependants /\ "openclaw" \in Dependants
  BY DEF Dependants
<1> DEFINE Claim == /\ host'.todo \in L10 \cup BeforeOpenClaw \cup BeforeGuard => ~box'["guard"].run
                    /\ host'.todo \in BeforeOpenClaw => ~box'["openclaw"].run
                    /\ host'.todo \in BeforeGuard => "openclaw" \notin host'.kept
<1> SUFFICES Claim
  BY <1>1 DEF RecoveryIsAllowed
<1>3. CASE Head(host.todo) = <<"stop", "guard">> /\ Tail(host.todo) \in L10
  BY <1>2, <1>3, KindsDiffer
<1>4. CASE /\ host.todo \in L10 /\ Head(host.todo) = <<"stop", "openclaw">>
           /\ Tail(host.todo) \in BeforeOpenClaw
  <2>1. ~box'["guard"].run /\ ~box'["openclaw"].run
    BY <1>1, <1>2, <1>4
  <2> QED BY <1>4, <2>1, KindsDiffer
<1>5. CASE /\ host.todo \in BeforeOpenClaw /\ Tail(host.todo) \in BeforeOpenClaw
           /\ Head(host.todo) \in {<<"stop", "origin">>, <<"start", "origin">>, <<"ready", "origin">>}
  <2>1. ~box'["guard"].run /\ ~box'["openclaw"].run
    BY <1>1, <1>2, <1>5
  <2> QED BY <1>5, <2>1, KindsDiffer
<1>6. CASE /\ host.todo \in BeforeOpenClaw /\ Head(host.todo) = <<"start", "openclaw">>
           /\ Tail(host.todo) \in BeforeGuard
  <2>1. ~box'["guard"].run
    BY <1>1, <1>2, <1>6
  <2> QED BY <1>6, <2>1, KindsDiffer
<1>7. CASE /\ host.todo \in BeforeGuard /\ Tail(host.todo) \in BeforeGuard
           /\ Head(host.todo) \in {<<"ready", "openclaw">>, <<"inputs", "all">>}
  <2>1. ~box'["guard"].run /\ "openclaw" \notin host'.kept
    BY <1>1, <1>2, <1>7
  <2> QED BY <1>7, <2>1, KindsDiffer
<1>8. CASE Tail(host.todo) = L2 \/ Tail(host.todo) = L1
  BY <1>8, KindsDiffer
<1>9. CASE Tail(host.todo) = <<>>
  <2>1. <<>> \notin Recovery
    BY StopsOnly, RecoveryIsNotStops
  <2> QED BY <1>9, <2>1 DEF Recovery
<1> QED BY <1>3, <1>4, <1>5, <1>6, <1>7, <1>8, <1>9, RecoveryKinds

LEMMA ActingFields ==
    ASSUME HostInv, host.at = "acting"
    PROVE  /\ lock = "host" /\ host.gen \in Gen /\ host.gen = job.loaded
           /\ host \in HostStates /\ host.todo \in StopStepsOnly \cup Recovery
           /\ files \in Files /\ box \in [Role -> Container]
           /\ sampled \in Ages /\ mishaps \in 0..MaxMishaps
  BY HostFields DEF HostInv, HostTypeOK, HostStates

LEMMA RecoveryTails == \A l \in Recovery : l # <<>> /\ Tail(l) \in Recovery \cup {<<>>}
<1>1. TAKE l \in Recovery
<1>2. l # <<>>
  BY RecoveryIsNotStops
<1>3. Tail(l) \in L10 \cup BeforeOpenClaw \cup BeforeGuard \cup {L1, L2} \cup {<<>>}
  BY RecoveryKinds
<1> QED BY <1>2, <1>3 DEF Recovery

LEMMA Advancing ==
    ASSUME NEW h \in HostStates, h.todo # <<>>, Advance(h)
    PROVE  /\ host' \in HostStates /\ host'.at = h.at /\ host'.gen = h.gen /\ host'.todo = Tail(h.todo)
           /\ host'.fault = h.fault /\ host'.age = h.age /\ host'.kept = h.kept
           /\ host'.result = h.result
<1>1. h.todo \in StopStepsOnly \cup Recovery
  BY DEF HostStates
<1>2. Tail(h.todo) \in StopStepsOnly \cup Recovery
  BY <1>1, StopsOnly, RecoveryTails
<1> DEFINE was == h.guarded \/ (h.result = "recovering" /\ h.todo[1] = <<"stop", "openclaw">>)
<1>3. was \in BOOLEAN
  OBVIOUS
<1>4. host' = [h EXCEPT !.todo = Tail(h.todo), !.guarded = was]
  BY DEF Advance
<1> HIDE DEF was
<1> QED BY <1>2, <1>3, <1>4 DEF HostStates

LEMMA Failing ==
    ASSUME HostInv, host.at = "acting", NEW b, StepFails(b)
    PROVE  /\ box' = b /\ host' \in HostStates /\ host'.at = "acting" /\ host'.gen = host.gen
           /\ host'.todo \in StopStepsOnly /\ host'.fault = host.fault
           /\ host'.age = host.age /\ host'.kept = host.kept
           /\ host'.result # "healthy"
<1>1. box' = b /\ host \in HostStates
  BY ActingFields DEF StepFails
<1>2. CASE host.guarded
  <2>1. PICK seen \in BOOLEAN : host' =
          [host EXCEPT !.guarded = FALSE, !.result = "recovery-failed",
                       !.todo = IF seen THEN StopSteps({r \in Dependants : b[r].gen = host.gen}) ELSE <<>>]
    BY <1>2 DEF StepFails
  <2> DEFINE todo == IF seen THEN StopSteps({r \in Dependants : b[r].gen = host.gen}) ELSE <<>>
  <2>2. todo \in StopStepsOnly /\ "recovery-failed" \in Results
    BY StopsOnly DEF Results
  <2>3. host' = [host EXCEPT !.guarded = FALSE, !.result = "recovery-failed", !.todo = todo]
    BY <2>1
  <2> HIDE DEF todo
  <2> QED BY <1>1, <2>2, <2>3 DEF HostStates
<1>3. CASE ~host.guarded
  <2>1. host' = [host EXCEPT !.todo = <<>>, !.result = "needs-attention"]
    BY <1>3 DEF StepFails
  <2>2. <<>> \in StopStepsOnly /\ "needs-attention" \in Results
    BY StopsOnly DEF Results
  <2> QED BY <1>1, <2>1, <2>2 DEF HostStates
<1> QED BY <1>2, <1>3

\* Containers that only stop or turn ready take nothing away from what is known of them.
LEMMA NoneStarts ==
    ASSUME HostInv, UNCHANGED <<files, job>>,
           \A r \in Role : /\ box'[r].gen = box[r].gen /\ box'[r].tie = box[r].tie
                           /\ box'[r].run => box[r].run
                           /\ box'[r].ready => box'[r].run
    PROVE  LoadedRules' /\ ContainersAreTrue' /\ (Quiet => Quiet')
<1>1. Quiet => Quiet'
  BY DEF Quiet
<1>2. LoadedRules'
  BY <1>1 DEF HostInv, LoadedRules, Agreed
<1>3. ContainersAreTrue'
  BY DEF HostInv, ContainersAreTrue, Dependants, Role
<1> QED BY <1>1, <1>2, <1>3

LEMMA NoneStartsSample ==
    ASSUME HostInv, UNCHANGED sampled, host'.age = host.age, host'.kept \subseteq host.kept,
           \A r \in Role : /\ box'[r].tie = box[r].tie
                           /\ box'[r].run => box[r].run
    PROVE  SampleHolds'
<1>1. host.kept \subseteq Role
  BY HostFields DEF HostStates
<1> QED BY <1>1 DEF HostInv, SampleHolds, Dependants, Role

LEMMA StoppedBox ==
    ASSUME HostInv, NEW r \in Role, NEW b \in {box, Stopped(r)}
    PROVE  /\ b \in [Role -> Container]
           /\ \A x \in Role : /\ b[x].gen = box[x].gen /\ b[x].tie = box[x].tie
                              /\ b[x].run => box[x].run
                              /\ b[x].ready => b[x].run
           /\ b = Stopped(r) => ~b[r].run
<1>1. box \in [Role -> Container] /\ \A x \in Role : box[x].ready => box[x].run
  BY DEF HostInv, HostTypeOK, ContainersAreTrue
<1>2. CASE b = box
  <2>1. Stopped(r)[r].run = FALSE
    BY <1>1 DEF Stopped, Container
  <2> QED BY <1>1, <1>2, <2>1
<1>3. CASE b = Stopped(r)
  BY <1>1, <1>3 DEF Stopped, Container
<1> QED BY <1>2, <1>3

LEMMA StopsHead ==
    ASSUME HostInv, host.at = "acting", host.todo # <<>>
    PROVE  \/ host.todo \in Recovery
           \/ host.todo \in StopStepsOnly /\ \E r \in Role : Head(host.todo) = <<"stop", r>>
  BY ActingFields, StopsOnly

LEMMA HostStopsHolds == ASSUME HostInv, HostStops PROVE HostInv'
<1>1. /\ host.at = "acting" /\ host.todo # <<>> /\ Head(host.todo)[1] = "stop"
      /\ UNCHANGED <<lock, files, job, op, sampled, commands>>
  BY DEF HostStops, Step
<1> DEFINE r == Head(host.todo)[2]
<1>2. r \in Role /\ Head(host.todo) = <<"stop", r>>
  <2>1. CASE host.todo \in Recovery
    BY <1>1, <2>1, RecoveryKinds DEF Role
  <2>2. CASE \E x \in Role : Head(host.todo) = <<"stop", x>>
    BY <2>2
  <2> QED BY <1>1, <2>1, <2>2, StopsHead
<1>3. \/ box' = Stopped(r) /\ Advance(host) /\ Fine
      \/ Spoilt /\ \E b \in {box, Stopped(r)} : StepFails(b)
      \/ StepFails(box) /\ Fine
  BY DEF HostStops, Here
<1> HIDE DEF r
<1>4. mishaps' \in 0..MaxMishaps
  BY <1>3, HostFields, HostAssumption DEF Spoilt, Fine
<1>5. ASSUME NEW b \in {box, Stopped(r)}, box' = b, host'.age = host.age, host'.kept = host.kept
      PROVE  /\ box' \in [Role -> Container] /\ LoadedRules' /\ ContainersAreTrue' /\ SampleHolds'
             /\ \A x \in Role : box'[x].run => box[x].run
             /\ b = Stopped(r) => ~box'[r].run
  <2>1. /\ b \in [Role -> Container]
        /\ \A x \in Role : /\ b[x].gen = box[x].gen /\ b[x].tie = box[x].tie
                           /\ b[x].run => box[x].run
                           /\ b[x].ready => b[x].run
        /\ b = Stopped(r) => ~b[r].run
    BY <1>2, StoppedBox
  <2>2. LoadedRules' /\ ContainersAreTrue'
    BY <1>1, <1>5, <2>1, NoneStarts
  <2>3. SampleHolds'
    BY <1>1, <1>5, <2>1, NoneStartsSample
  <2> QED BY <1>5, <2>1, <2>2, <2>3
<1>6. CASE box' = Stopped(r) /\ Advance(host)
  <2>1. /\ host' \in HostStates /\ host'.at = "acting" /\ host'.gen = host.gen
        /\ host'.todo = Tail(host.todo) /\ host'.fault = host.fault
        /\ host'.age = host.age /\ host'.kept = host.kept
    BY <1>1, <1>6, ActingFields, Advancing
  <2>2. /\ box' \in [Role -> Container] /\ LoadedRules' /\ ContainersAreTrue' /\ SampleHolds'
        /\ \A x \in Role : box'[x].run => box[x].run
        /\ ~box'[r].run
    BY <1>5, <1>6, <2>1
  <2>3. RecoveryIsAllowed'
    <3>1. CASE host.todo \in Recovery
      <4>1. \A x \in Dependants : box'[x].run => box[x].run \/ Head(host.todo) = <<"start", x>>
        BY <2>2 DEF Dependants, Role
      <4>2. \A x \in Dependants : Head(host.todo) = <<"stop", x>> => ~box'[x].run
        BY <1>2, <2>2
      <4>3. Head(host.todo) # <<"start", "openclaw">>
        BY <1>2
      <4> QED BY <1>1, <2>1, <3>1, <4>1, <4>2, <4>3, RecoveryGoesOn
    <3>2. CASE host.todo \in StopStepsOnly
      <4>1. host'.todo \notin Recovery
        BY <1>1, <2>1, <3>2, StopsOnly, RecoveryIsNotStops
      <4> QED BY <4>1 DEF RecoveryIsAllowed
    <3> QED BY <1>1, <3>1, <3>2, ActingFields
  <2> QED BY <1>1, <1>4, <2>1, <2>2, <2>3, ActingFields, HostWorks
<1>7. CASE \E b \in {box, Stopped(r)} : StepFails(b)
  <2>1. PICK b \in {box, Stopped(r)} : StepFails(b)
    BY <1>7
  <2>2. /\ box' = b /\ host' \in HostStates /\ host'.at = "acting" /\ host'.gen = host.gen
        /\ host'.todo \in StopStepsOnly /\ host'.age = host.age /\ host'.kept = host.kept
    BY <1>1, <2>1, Failing
  <2>3. box' \in [Role -> Container] /\ LoadedRules' /\ ContainersAreTrue' /\ SampleHolds'
    BY <1>5, <2>2
  <2>4. RecoveryIsAllowed'
    BY <2>2, RecoveryIsNotStops DEF RecoveryIsAllowed
  <2> QED BY <1>1, <1>4, <2>2, <2>3, <2>4, ActingFields, HostWorks
<1> QED BY <1>3, <1>6, <1>7

LEMMA HostChecksHolds == ASSUME HostInv, HostChecks PROVE HostInv'
<1>1. /\ host.at = "acting" /\ host.todo # <<>> /\ Head(host.todo)[1] \in {"ready", "inputs", "healthy"}
      /\ UNCHANGED <<lock, files, job, op, sampled, commands>>
  BY DEF HostChecks, Step
<1>2. /\ UNCHANGED box
      /\ Spoilt \/ Fine
      /\ \/ Advance(host)
         \/ StepFails(box)
         \/ host' = [host EXCEPT !.todo = <<>>, !.paused = FALSE, !.result = "healthy"]
  BY DEF HostChecks, StepFails, Fine
<1>3. mishaps' \in 0..MaxMishaps
  BY <1>2, HostFields, HostAssumption DEF Spoilt, Fine
<1>4. box' \in [Role -> Container] /\ LoadedRules' /\ ContainersAreTrue'
  <2>1. \A r \in Role : box[r].ready => box[r].run
    BY DEF HostInv, ContainersAreTrue
  <2> QED BY <1>1, <1>2, <2>1, NoneStarts, ActingFields
<1>5. host.todo \in Recovery
  <2>1. ASSUME NEW r \in Role, Head(host.todo) = <<"stop", r>> PROVE FALSE
    BY <1>1, <2>1
  <2> QED BY <1>1, <2>1, StopsHead
<1>6. CASE Advance(host)
  <2>1. /\ host' \in HostStates /\ host'.at = "acting" /\ host'.gen = host.gen
        /\ host'.todo = Tail(host.todo) /\ host'.fault = host.fault
        /\ host'.age = host.age /\ host'.kept = host.kept
    BY <1>1, <1>6, ActingFields, Advancing
  <2>2. SampleHolds'
    BY <1>1, <1>2, <2>1, Unsampled
  <2>3. \A x \in Dependants : /\ Head(host.todo) # <<"stop", x>>
                              /\ Head(host.todo) # <<"start", "openclaw">>
    BY <1>1
  <2>4. RecoveryIsAllowed'
    BY <1>1, <1>2, <1>5, <2>1, <2>3, RecoveryGoesOn DEF Dependants
  <2> QED BY <1>1, <1>3, <1>4, <2>1, <2>2, <2>4, ActingFields, HostWorks
<1>7. CASE \/ StepFails(box)
           \/ host' = [host EXCEPT !.todo = <<>>, !.paused = FALSE, !.result = "healthy"]
  <2>1. /\ host' \in HostStates /\ host'.at = "acting" /\ host'.gen = host.gen
        /\ host'.todo \in StopStepsOnly /\ host'.age = host.age /\ host'.kept = host.kept
    <3>1. CASE StepFails(box)
      BY <1>1, <3>1, Failing
    <3>2. CASE host' = [host EXCEPT !.todo = <<>>, !.paused = FALSE, !.result = "healthy"]
      BY <1>1, <3>2, StopsOnly, ActingFields DEF HostStates, Results
    <3> QED BY <1>7, <3>1, <3>2
  <2>2. SampleHolds'
    BY <1>1, <1>2, <2>1, Unsampled
  <2>3. RecoveryIsAllowed'
    BY <2>1, RecoveryIsNotStops DEF RecoveryIsAllowed
  <2> QED BY <1>1, <1>3, <1>4, <2>1, <2>2, <2>3, ActingFields, HostWorks
<1> QED BY <1>2, <1>6, <1>7

\* What a start makes of the containers, in a recovery that may start this one.
LEMMA StartedBox ==
    ASSUME HostInv, host.at = "acting", host.todo \in Recovery, NEW r \in Role,
           Head(host.todo) = <<"start", r>>, NEW replaced \in BOOLEAN, NEW b,
           b = Started(r, host.gen, replaced), box' = b, UNCHANGED <<files, job>>
    PROVE  /\ b \in [Role -> Container] /\ LoadedRules' /\ ContainersAreTrue'
           /\ \A x \in Role \ {r} : b[x].run = box[x].run
           /\ r = "origin" => ~box["guard"].run /\ ~box["openclaw"].run
           /\ r = "openclaw" => ~box["guard"].run
           /\ r = "guard" => "openclaw" \notin host.kept
<1>1. /\ host.gen \in Gen /\ host.gen = job.loaded /\ box \in [Role -> Container]
  BY ActingFields
<1>2. /\ r = "origin" => ~box["guard"].run /\ ~box["openclaw"].run
      /\ r = "openclaw" => ~box["guard"].run
      /\ r = "guard" => "openclaw" \notin host.kept
  <2>1. /\ host.todo \in L10 \cup BeforeOpenClaw \cup BeforeGuard => ~box["guard"].run
        /\ host.todo \in BeforeOpenClaw => ~box["openclaw"].run
        /\ host.todo \in BeforeGuard => "openclaw" \notin host.kept
    BY DEF HostInv, RecoveryIsAllowed
  <2>2. /\ r \in {"origin", "openclaw"} => host.todo \in BeforeOpenClaw
        /\ r = "guard" => host.todo \in BeforeGuard
    BY RecoveryKinds
  <2> QED BY <2>1, <2>2
<1>3. /\ \A x \in Role : box[x].run => box[x].gen # None
      /\ \A x \in Role : box[x].ready => box[x].run
      /\ \A x \in Dependants : box[x].run /\ box[x].tie = "old" => ~box["origin"].run
      /\ \A x \in Role : box[x].gen \in {job.loaded, None}
      /\ files.gate \in {job.loaded, None} /\ files.marker \in {job.loaded, None}
      /\ job.loaded # None
  BY <1>1, HostAssumption DEF HostInv, ContainersAreTrue, LoadedRules, Agreed
<1>4. CASE r = "origin"
  <2>1. b = [x \in Role |-> IF x = "origin" THEN [box[x] EXCEPT !.gen = host.gen, !.run = TRUE, !.ready = FALSE]
                   ELSE [box[x] EXCEPT !.tie = IF replaced THEN "lost" ELSE IF @ = "live" THEN "old" ELSE @]]
    BY <1>4 DEF Started
  <2>2. /\ b["origin"].gen = host.gen /\ b["origin"].run = TRUE /\ b["origin"].ready = FALSE
        /\ b["origin"] \in Container
    BY <1>1, <2>1 DEF Container, Role
  <2>3. ASSUME NEW x \in Role \ {r}
        PROVE  b[x].gen = box[x].gen /\ b[x].run = box[x].run /\ b[x].ready = box[x].ready
               /\ b[x] \in Container
    <3>1. b[x] = [box[x] EXCEPT !.tie = IF replaced THEN "lost" ELSE IF @ = "live" THEN "old" ELSE @]
      BY <1>4, <2>1
    <3> DEFINE t == IF replaced THEN "lost" ELSE IF box[x].tie = "live" THEN "old" ELSE box[x].tie
    <3>2. box[x] \in Container
      BY <1>1
    <3>3. t \in {"live", "old", "lost"}
      BY <3>2 DEF Container
    <3>4. b[x] = [box[x] EXCEPT !.tie = t]
      BY <3>1, Zenon
    <3> HIDE DEF t
    <3> QED BY <3>2, <3>3, <3>4 DEF Container
  <2>4. b \in [Role -> Container]
    <3>1. \A x \in Role : b[x] \in Container
      BY <1>4, <2>2, <2>3
    <3> QED BY <2>1, <3>1
  <2>5. LoadedRules'
    <3>1. \A x \in Role : b[x].gen \in {job.loaded, None}
      BY <1>1, <1>3, <1>4, <2>2, <2>3
    <3> QED BY <1>3, <3>1 DEF LoadedRules, Agreed
  <2>6. ContainersAreTrue'
    <3>1. \A x \in Role : (b[x].run => b[x].gen # None) /\ (b[x].ready => b[x].run)
      BY <1>1, <1>3, <1>4, <2>2, <2>3
    <3>2. \A x \in Dependants : ~b[x].run
      BY <1>2, <1>4, <2>3 DEF Dependants, Role
    <3> QED BY <3>1, <3>2 DEF ContainersAreTrue
  <2> QED BY <1>2, <2>3, <2>4, <2>5, <2>6
<1>5. CASE r # "origin"
  <2> DEFINE c == [gen |-> host.gen, run |-> TRUE, ready |-> FALSE,
                   tie |-> IF box["origin"].run THEN "live" ELSE "old"]
  <2>1. b = [box EXCEPT ![r] = c]
    BY <1>5 DEF Started
  <2>2. /\ c \in Container /\ c.gen = host.gen /\ c.run = TRUE /\ c.ready = FALSE
        /\ c.tie = "old" => ~box["origin"].run
    BY <1>1 DEF Container
  <2> HIDE DEF c
  <2>3. b \in [Role -> Container] /\ b[r] = c /\ \A x \in Role \ {r} : b[x] = box[x]
    BY <1>1, <2>1, <2>2
  <2>4. LoadedRules'
    <3>1. \A x \in Role : b[x].gen \in {job.loaded, None}
      BY <1>1, <1>3, <2>2, <2>3
    <3> QED BY <1>3, <3>1 DEF LoadedRules, Agreed
  <2>5. ContainersAreTrue'
    <3>1. \A x \in Role : (b[x].run => b[x].gen # None) /\ (b[x].ready => b[x].run)
      BY <1>1, <1>3, <2>2, <2>3
    <3>2. b["origin"] = box["origin"]
      BY <1>5, <2>3 DEF Role
    <3>3. \A x \in Dependants : b[x].run /\ b[x].tie = "old" => ~b["origin"].run
      BY <1>3, <2>2, <2>3, <3>2 DEF Dependants, Role
    <3> QED BY <3>1, <3>3 DEF ContainersAreTrue
  <2> QED BY <1>2, <2>3, <2>4, <2>5
<1> QED BY <1>4, <1>5

LEMMA HostStartsContainerHolds == ASSUME HostInv, HostStartsContainer PROVE HostInv'
<1>1. /\ host.at = "acting" /\ host.todo # <<>> /\ Head(host.todo)[1] = "start"
      /\ UNCHANGED <<lock, files, job, op, commands>>
      /\ sampled' = IF box' = box THEN sampled ELSE None
  BY DEF HostStartsContainer, Step
<1> DEFINE r == Head(host.todo)[2]
<1>2. host.todo \in Recovery /\ r \in Role /\ Head(host.todo) = <<"start", r>>
  <2>1. ASSUME NEW x \in Role, Head(host.todo) = <<"stop", x>> PROVE FALSE
    BY <1>1, <2>1
  <2>2. host.todo \in Recovery
    <3>1. host.todo \in Recovery \/ \E x \in Role : Head(host.todo) = <<"stop", x>>
      BY <1>1, StopsHead, Zenon
    <3> QED BY ONLY <2>1, <3>1
  <2> QED BY <1>1, <2>2, RecoveryKinds DEF Role
<1>3. PICK replaced \in BOOLEAN :
         LET b == Started(r, host.gen, replaced)
             same == r = "origin" /\ box[r].gen # None /\ ~replaced
         IN /\ Spoilt \/ Fine
            /\ \/ box' = b /\ Advance([host EXCEPT !.kept = IF same THEN @ ELSE @ \ {r}])
               \/ StepFails(box) \/ StepFails(b)
  BY DEF HostStartsContainer, Here, StepFails
<1> DEFINE same == r = "origin" /\ box[r].gen # None /\ ~replaced
           b == Started(r, host.gen, replaced)
           kept == IF same THEN host.kept ELSE host.kept \ {r}
           h == [host EXCEPT !.kept = kept]
<1>4. /\ Spoilt \/ Fine
      /\ \/ box' = b /\ Advance(h)
         \/ StepFails(box) \/ StepFails(b)
  BY <1>3
<1>5. mishaps' \in 0..MaxMishaps
  BY <1>4, HostFields, HostAssumption DEF Spoilt, Fine
<1>6. sampled' \in Ages
  BY <1>1, ActingFields DEF Ages
<1>7. /\ h \in HostStates /\ h.at = "acting" /\ h.gen = host.gen /\ h.todo = host.todo
      /\ h.fault = host.fault /\ h.age = host.age /\ h.kept = kept /\ kept \subseteq host.kept
      /\ (kept = host.kept /\ r = "origin") \/ r \notin kept
  <2>1. kept \subseteq host.kept /\ ((kept = host.kept /\ r = "origin") \/ r \notin kept)
    OBVIOUS
  <2>2. host \in HostStates
    BY <1>1, ActingFields
  <2> HIDE DEF kept
  <2>3. kept \in SUBSET Role
    BY <2>1, <2>2 DEF HostStates
  <2> QED BY <1>1, <2>1, <2>2, <2>3 DEF HostStates
<1> HIDE DEF h, kept, b, same
<1>8. ASSUME box' = b
      PROVE  /\ box' \in [Role -> Container] /\ LoadedRules' /\ ContainersAreTrue'
             /\ \A x \in Role \ {r} : box'[x].run = box[x].run
             /\ r = "origin" => ~box["guard"].run /\ ~box["openclaw"].run
             /\ r = "openclaw" => ~box["guard"].run
             /\ r = "guard" => "openclaw" \notin host.kept
  BY <1>1, <1>2, <1>3, <1>8, StartedBox DEF b
<1>9. CASE box' = b /\ Advance(h)
  <2>1. /\ host' \in HostStates /\ host'.at = "acting" /\ host'.gen = host.gen
        /\ host'.todo = Tail(host.todo) /\ host'.fault = host.fault
        /\ host'.age = host.age /\ host'.kept = kept
    BY <1>1, <1>7, <1>9, Advancing
  <2>2. SampleHolds'
    <3>1. CASE r \in host'.kept
      <4>1. r = "origin" /\ ~box'["guard"].run
        BY <1>7, <1>8, <1>9, <2>1, <3>1 DEF Role
      <4> QED BY <4>1 DEF SampleHolds, Dependants
    <3>2. CASE r \notin host'.kept
      BY <1>2, <3>2 DEF SampleHolds
    <3> QED BY <3>1, <3>2
  <2>3. RecoveryIsAllowed'
    <3>1. \A x \in Dependants : box'[x].run => box[x].run \/ Head(host.todo) = <<"start", x>>
      BY <1>2, <1>8, <1>9 DEF Dependants, Role
    <3>2. \A x \in Dependants : Head(host.todo) # <<"stop", x>>
      BY <1>2
    <3>3. Head(host.todo) = <<"start", "openclaw">> => "openclaw" \notin host'.kept
      BY <1>1, <1>7, <2>1
    <3> QED BY <1>1, <1>2, <1>7, <2>1, <3>1, <3>2, <3>3, RecoveryGoesOn
  <2> QED BY <1>1, <1>5, <1>6, <1>8, <1>9, <2>1, <2>2, <2>3, ActingFields, HostWorks
<1>10. ASSUME NEW d \in {box, b}, StepFails(d) PROVE HostInv'
  <2>1. /\ box' = d /\ host' \in HostStates /\ host'.at = "acting" /\ host'.gen = host.gen
        /\ host'.todo \in StopStepsOnly /\ host'.age = host.age /\ host'.kept = host.kept
    BY <1>1, <1>10, Failing
  <2>2. RecoveryIsAllowed'
    BY <2>1, RecoveryIsNotStops DEF RecoveryIsAllowed
  <2>3. CASE box' = box
    <3>1. box' \in [Role -> Container] /\ LoadedRules' /\ ContainersAreTrue'
      <4>1. \A x \in Role : box[x].ready => box[x].run
        BY DEF HostInv, ContainersAreTrue
      <4> QED BY <1>1, <2>3, <4>1, NoneStarts, ActingFields
    <3>2. SampleHolds'
      BY <1>1, <2>1, <2>3, Unsampled
    <3> QED BY <1>1, <1>5, <1>6, <2>1, <2>2, <3>1, <3>2, ActingFields, HostWorks
  <2>4. CASE box' = b
    <3>1. SampleHolds'
      <4>1. CASE r = "guard"
        <5>1. "openclaw" \notin host'.kept
          BY <1>8, <2>1, <2>4, <4>1
        <5> QED BY <5>1 DEF SampleHolds, Role
      <4>2. CASE r # "guard"
        <5>1. ~box'["guard"].run
          BY <1>2, <1>8, <2>4, <4>2 DEF Role
        <5> QED BY <5>1 DEF SampleHolds, Dependants
      <4> QED BY <4>1, <4>2
    <3> QED BY <1>1, <1>5, <1>6, <1>8, <2>1, <2>2, <2>4, <3>1, ActingFields, HostWorks
  <2> QED BY <2>1, <2>3, <2>4
<1> QED BY <1>4, <1>9, <1>10

-----------------------------------------------------------------------------
(* The containers on their own.                                             *)

LEMMA BoxAlone ==
    ASSUME HostInv, UNCHANGED <<lock, files, job, host, op, sampled, commands>>,
           box' \in [Role -> Container], mishaps' \in 0..MaxMishaps,
           \A r \in Role : /\ box'[r].gen = box[r].gen /\ box'[r].tie = box[r].tie
                           /\ box'[r].run => box[r].run
                           /\ box'[r].ready => box'[r].run
    PROVE  HostInv'
<1>1. HostTypeOK' /\ HostIsTyped'
  BY DEF HostInv, HostTypeOK, HostIsTyped
<1>2. LoadedRules' /\ ContainersAreTrue' /\ (Quiet => Quiet')
  BY NoneStarts
<1>3. CommandIsTyped' /\ CommandsAreTrue'
  BY <1>2, CommandsKept DEF HostInv
<1>4. SampleHolds'
  BY NoneStartsSample
<1>5. RecoveryIsAllowed'
  <2>1. (box'["guard"].run => box["guard"].run) /\ (box'["openclaw"].run => box["openclaw"].run)
    BY DEF Role
  <2> QED BY <2>1 DEF HostInv, RecoveryIsAllowed
<1> QED BY <1>1, <1>2, <1>3, <1>4, <1>5 DEF HostInv

LEMMA BoxFields ==
    ASSUME HostInv
    PROVE  /\ box \in [Role -> Container]
           /\ \A r \in Role : (box[r].ready => box[r].run) /\ (box[r].run => box[r].gen # None)
  BY DEF HostInv, HostTypeOK, ContainersAreTrue

LEMMA TurnsReadyHolds == ASSUME HostInv, NEW r \in Role, TurnsReady(r) PROVE HostInv'
<1>1. /\ box[r].run /\ box' = [box EXCEPT ![r].ready = TRUE]
      /\ UNCHANGED <<lock, files, job, host, op, sampled, mishaps, commands>>
  BY DEF TurnsReady
<1>2. /\ box' \in [Role -> Container]
      /\ \A x \in Role : /\ box'[x].gen = box[x].gen /\ box'[x].tie = box[x].tie
                         /\ box'[x].run => box[x].run
                         /\ box'[x].ready => box'[x].run
  BY <1>1, BoxFields DEF Container
<1> QED BY <1>1, <1>2, HostFields, BoxAlone

LEMMA FaltersHolds == ASSUME HostInv, NEW r \in Role, Falters(r) PROVE HostInv'
<1>1. /\ box' = Stopped(r) \/ box' = [box EXCEPT ![r].ready = FALSE]
      /\ Spoilt /\ UNCHANGED <<lock, files, job, host, op, sampled, commands>>
  BY DEF Falters
<1>2. mishaps' \in 0..MaxMishaps
  BY <1>1, HostFields, HostAssumption DEF Spoilt
<1>3. /\ box' \in [Role -> Container]
      /\ \A x \in Role : /\ box'[x].gen = box[x].gen /\ box'[x].tie = box[x].tie
                         /\ box'[x].run => box[x].run
                         /\ box'[x].ready => box'[x].run
  <2>1. CASE box' = Stopped(r)
    BY <2>1, StoppedBox
  <2>2. CASE box' = [box EXCEPT ![r].ready = FALSE]
    BY <2>2, BoxFields DEF Container
  <2> QED BY <1>1, <2>1, <2>2
<1> QED BY <1>1, <1>2, <1>3, BoxAlone

LEMMA RemovedHolds == ASSUME HostInv, NEW r \in Role, Removed(r) PROVE HostInv'
<1>1. /\ op.cmd = "none" /\ Spoilt /\ sampled' = None
      /\ box' = [x \in Role |-> IF x = r THEN Absent
                                ELSE IF r = "origin" THEN [box[x] EXCEPT !.tie = "lost"] ELSE box[x]]
      /\ UNCHANGED <<lock, files, job, host, op, commands>>
  BY DEF Removed
<1>2. mishaps' \in 0..MaxMishaps
  BY <1>1, HostFields, HostAssumption DEF Spoilt
<1>3. box'[r] = Absent /\ Absent \in Container /\ Absent.gen = None /\ ~Absent.run /\ ~Absent.ready
  BY <1>1 DEF Absent, Container
<1>4. ASSUME NEW x \in Role \ {r}
      PROVE  /\ box'[x] \in Container /\ box'[x].gen = box[x].gen
             /\ box'[x].run = box[x].run /\ box'[x].ready = box[x].ready
             /\ r = "origin" => box'[x].tie = "lost"
             /\ r # "origin" => box'[x] = box[x]
  <2>1. box[x] \in Container
    BY BoxFields
  <2>2. CASE r = "origin"
    <3>1. box'[x] = [box[x] EXCEPT !.tie = "lost"]
      BY <1>1, <2>2
    <3> QED BY <2>1, <2>2, <3>1 DEF Container
  <2>3. CASE r # "origin"
    BY <1>1, <2>1, <2>3
  <2> QED BY <2>2, <2>3
<1>5. box' \in [Role -> Container]
  <2>1. \A x \in Role : box'[x] \in Container
    BY <1>3, <1>4
  <2> QED BY <1>1, <2>1
<1>6. HostTypeOK' /\ HostIsTyped'
  BY <1>1, <1>2, <1>5 DEF HostInv, HostTypeOK, HostIsTyped
<1>7. CommandIsTyped' /\ CommandsAreTrue'
  <2>1. CommandIsTyped'
    BY <1>1 DEF HostInv, CommandIsTyped
  <2> QED BY <1>1, <2>1 DEF CommandsAreTrue, EnterIsTrue, ResumeIsTrue, ClearIsTrue, SwitchIsTrue, ActivateIsTrue
<1>8. LoadedRules'
  <2>1. Quiet => Quiet'
    BY <1>3, <1>4 DEF Quiet
  <2>2. \A x \in Role : box'[x].gen \in {box[x].gen, None}
    BY <1>3, <1>4
  <2> QED BY <1>1, <2>1, <2>2 DEF HostInv, LoadedRules, Agreed
<1>9. ContainersAreTrue'
  <2>1. \A x \in Role : (box'[x].run => box'[x].gen # None) /\ (box'[x].ready => box'[x].run)
    BY <1>3, <1>4, BoxFields
  <2>2. ASSUME NEW x \in Dependants, box'[x].run, box'[x].tie = "old" PROVE ~box'["origin"].run
    <3>1. x # r /\ r # "origin"
      BY <1>3, <1>4, <2>2 DEF Dependants, Role
    <3>2. box'[x] = box[x] /\ box'["origin"] = box["origin"]
      BY <1>4, <3>1 DEF Dependants, Role
    <3> QED BY <2>2, <3>2 DEF HostInv, ContainersAreTrue
  <2> QED BY <2>1, <2>2 DEF ContainersAreTrue
<1>10. SampleHolds'
  <2>1. CASE r = "origin"
    <3>1. box'["guard"].tie = "lost"
      BY <1>4, <2>1 DEF Role
    <3> QED BY <3>1 DEF SampleHolds, Dependants
  <2>2. CASE r # "origin"
    BY <1>3, <2>2 DEF SampleHolds, Dependants, Role
  <2> QED BY <2>1, <2>2
<1>11. RecoveryIsAllowed'
  <2>1. (box'["guard"].run => box["guard"].run) /\ (box'["openclaw"].run => box["openclaw"].run)
    BY <1>3, <1>4 DEF Role
  <2> QED BY <1>1, <2>1 DEF HostInv, RecoveryIsAllowed
<1> QED BY <1>6, <1>7, <1>8, <1>9, <1>10, <1>11 DEF HostInv

-----------------------------------------------------------------------------
(* The commands begin.                                                      *)

AllRest == EnterRest \cup ClearRest \cup SwitchRest \cup ActivateRest \cup ResumeRest

LEMMA NotOthers ==
    ASSUME op'.cmd \in {"none", "enter", "resume", "clear", "switch", "activate"}
    PROVE  /\ op'.cmd # "enter" => EnterIsTrue'
           /\ op'.cmd # "resume" => ResumeIsTrue'
           /\ op'.cmd # "clear" => ClearIsTrue'
           /\ op'.cmd # "switch" => SwitchIsTrue'
           /\ op'.cmd # "activate" => ActivateIsTrue'
  BY DEF EnterIsTrue, ResumeIsTrue, ClearIsTrue, SwitchIsTrue, ActivateIsTrue

\* A step that changes neither the containers nor what the files say of releases.
LEMMA OnlyTheCommand ==
    ASSUME HostInv, UNCHANGED <<files, job, box, host, sampled>>,
           lock' = lock \/ lock = None \/ lock = "operator", lock' \in {None, "operator", "dead"} \/ lock' = lock,
           lock' = "operator" => op'.cmd # "none",
           mishaps' \in 0..MaxMishaps, commands' \in 0..MaxCommands,
           CommandIsTyped', CommandsAreTrue'
    PROVE  HostInv'
<1>1. HostTypeOK'
  BY HostFields DEF HostInv, HostTypeOK
<1>2. HostIsTyped' /\ LoadedRules' /\ ContainersAreTrue' /\ SampleHolds' /\ RecoveryIsAllowed'
  BY DEF HostInv, HostIsTyped, LoadedRules, Agreed, Quiet, ContainersAreTrue, SampleHolds, RecoveryIsAllowed
<1> QED BY <1>1, <1>2 DEF HostInv

LEMMA CommandBegins ==
    ASSUME HostInv, NEW g \in Gen, NEW h \in Gen, NEW can \in BOOLEAN,
           NEW cmd \in {"enter", "resume", "clear", "switch", "activate"}, NEW steps \in AllRest,
           Command(cmd, g, h, can, steps), cmd # "switch" => h = g
    PROVE  /\ can /\ lock' = "operator" /\ UNCHANGED <<files, job, box, host, sampled>>
           /\ op'.cmd = cmd /\ op'.from = g /\ op'.to = h /\ op'.todo = steps
           /\ op'.done = {} /\ ~op'.undoing
           /\ CommandsAreTrue' => HostInv'
<1>1. /\ op.cmd = "none" /\ commands < MaxCommands /\ lock = None /\ can
      /\ lock' = "operator" /\ commands' = commands + 1
      /\ op' = [NoCommand EXCEPT !.cmd = cmd, !.from = g, !.to = h, !.todo = steps]
      /\ UNCHANGED <<files, job, box, host, sampled, mishaps>>
  BY DEF Command
<1>2. op' = [cmd |-> cmd, from |-> g, to |-> h, todo |-> steps, done |-> {}, undoing |-> FALSE]
  BY <1>1 DEF NoCommand
<1>3. CommandIsTyped'
  BY <1>2 DEF CommandIsTyped, AllRest
<1>4. mishaps' \in 0..MaxMishaps /\ commands' \in 0..MaxCommands
  BY <1>1, HostAssumption DEF HostInv, HostTypeOK
<1>5. CommandsAreTrue' => HostInv'
  BY <1>1, <1>2, <1>3, <1>4, OnlyTheCommand
<1>6. /\ op'.cmd = cmd /\ op'.from = g /\ op'.to = h /\ op'.todo = steps
      /\ op'.done = {} /\ ~op'.undoing
  BY <1>2
<1>7. can /\ lock' = "operator" /\ UNCHANGED <<files, job, box, host, sampled>>
  BY <1>1
<1> QED BY <1>5, <1>6, <1>7

LEMMA EnterHolds == ASSUME HostInv, NEW g \in Gen, Enter(g) PROVE HostInv'
<1>1. EnterSteps \in AllRest /\ CanEnter(g) \in BOOLEAN
  BY DEF AllRest, EnterRest, CanEnter, IdentityValid
<1>2. /\ CanEnter(g) /\ lock' = "operator" /\ UNCHANGED <<files, job, box, host, sampled>>
      /\ op'.cmd = "enter" /\ op'.from = g /\ op'.todo = EnterSteps
      /\ CommandsAreTrue' => HostInv'
  BY <1>1, CommandBegins DEF Enter
<1>3. IdentityValid(g)'
  BY <1>2 DEF CanEnter, IdentityValid, Trusted
<1>4. EnterIsTrue'
  BY <1>2, <1>3 DEF EnterIsTrue, EnterRest
<1>5. CommandsAreTrue'
  BY <1>2, <1>4, NotOthers DEF CommandsAreTrue
<1> QED BY <1>2, <1>5

LEMMA ResumeHolds == ASSUME HostInv, NEW g \in Gen, Resume(g) PROVE HostInv'
<1>1. ResumeSteps \in AllRest /\ CanResume(g) \in BOOLEAN
  BY DEF AllRest, ResumeRest, CanResume, IdentityValid
<1>2. /\ CanResume(g) /\ lock' = "operator" /\ UNCHANGED <<files, job, box, host, sampled>>
      /\ op'.cmd = "resume" /\ op'.from = g /\ op'.todo = ResumeSteps
      /\ CommandsAreTrue' => HostInv'
  BY <1>1, CommandBegins DEF Resume
<1>3. CanResume(g)'
  BY <1>2 DEF CanResume, IdentityValid, Trusted
<1>4. ResumeIsTrue'
  BY <1>2, <1>3 DEF ResumeIsTrue, ResumeRest
<1>5. CommandsAreTrue'
  BY <1>2, <1>4, NotOthers DEF CommandsAreTrue
<1> QED BY <1>2, <1>5

LEMMA ClearHolds == ASSUME HostInv, NEW g \in Gen, Clear(g) PROVE HostInv'
<1>1. ClearSteps \in AllRest /\ CanClear(g) \in BOOLEAN
  BY DEF AllRest, ClearRest, CanClear, Still, IdentityValid
<1>2. /\ CanClear(g) /\ lock' = "operator" /\ UNCHANGED <<files, job, box, host, sampled>>
      /\ op'.cmd = "clear" /\ op'.from = g /\ op'.todo = ClearSteps
      /\ CommandsAreTrue' => HostInv'
  BY <1>1, CommandBegins DEF Clear
<1>3. IdentityValid(g)' /\ Quiet' /\ files'.gate = g /\ files'.marker = g
  BY <1>2 DEF CanClear, Still, IdentityValid, Trusted, Quiet
<1>4. ~Next1({"recheck", "archive", "start-host"})'
  BY <1>2, CommandTails DEF Next1
<1>5. ClearIsTrue'
  BY <1>2, <1>3, <1>4 DEF ClearIsTrue, ClearRest
<1>6. CommandsAreTrue'
  BY <1>2, <1>5, NotOthers DEF CommandsAreTrue
<1> QED BY <1>2, <1>6

LEMMA SwitchHolds == ASSUME HostInv, NEW g \in Gen, NEW h \in Gen, Switch(g, h) PROVE HostInv'
<1>1. SwitchSteps \in AllRest /\ CanSwitch(g) \in BOOLEAN
  BY DEF AllRest, SwitchRest, CanSwitch, Still, IdentityValid
<1>2. /\ CanSwitch(g) /\ lock' = "operator" /\ UNCHANGED <<files, job, box, host, sampled>>
      /\ op'.cmd = "switch" /\ op'.todo = SwitchSteps /\ op'.done = {}
      /\ CommandsAreTrue' => HostInv'
  BY <1>1, CommandBegins DEF Switch
<1>3. Quiet'
  BY <1>2 DEF CanSwitch, Still, Quiet
<1>4. ASSUME NEW S, "stop-host" \notin S PROVE ~Next1(S)'
  <2>1. Head(SwitchSteps) = "stop-host"
    BY CommandTails
  <2>2. Head(op'.todo) \notin S
    BY <1>2, <1>4, <2>1
  <2> QED BY <2>2 DEF Next1
<1>5. SwitchIsTrue'
  <2>1. /\ ~Next1({"retire", "create", "marker", "gate", "plist", "start-host"})'
        /\ ~Next1({"marker", "gate", "plist", "start-host"})'
        /\ ~Next1({"gate", "plist", "start-host"})' /\ ~Next1({"plist", "start-host"})'
        /\ ~Next1({"start-host"})'
    BY <1>4
  <2> QED BY <1>2, <1>3, <2>1 DEF SwitchIsTrue, SwitchRest
<1>6. CommandsAreTrue'
  BY <1>2, <1>5, NotOthers DEF CommandsAreTrue
<1> QED BY <1>2, <1>6

LEMMA ActivateHolds == ASSUME HostInv, NEW g \in Gen, Activate(g) PROVE HostInv'
<1>1. ActivateSteps \in AllRest /\ CanActivate(g) \in BOOLEAN
  BY DEF AllRest, ActivateRest, CanActivate, Still, IdentityValid
<1>2. /\ CanActivate(g) /\ lock' = "operator" /\ UNCHANGED <<files, job, box, host, sampled>>
      /\ op'.cmd = "activate" /\ op'.from = g /\ op'.todo = ActivateSteps
      /\ CommandsAreTrue' => HostInv'
  BY <1>1, CommandBegins DEF Activate
<1>3. IdentityValid(g)' /\ job'.loaded = None /\ files'.marker = None
  BY <1>2 DEF CanActivate, Still, IdentityValid, Trusted
<1>4. ~Next1({"start-host"})'
  BY <1>2, CommandTails DEF Next1
<1>5. ActivateIsTrue'
  BY <1>2, <1>3, <1>4 DEF ActivateIsTrue, ActivateRest
<1>6. CommandsAreTrue'
  BY <1>2, <1>5, NotOthers DEF CommandsAreTrue
<1> QED BY <1>2, <1>6

-----------------------------------------------------------------------------
(* The commands go on.                                                      *)

\* A step of a command that starts no container.
LEMMA OperatorWorks ==
    ASSUME HostInv, UNCHANGED <<lock, sampled, commands>>, op'.cmd # "none",
           host' = host \/ (host' = Down /\ host.at \in {"idle", "down"}),
           files' \in Files, job' \in [plist : Gen \cup {None}, loaded : Gen \cup {None}],
           box' \in [Role -> Container], mishaps' \in 0..MaxMishaps,
           host'.at # "down" => job'.loaded = job.loaded,
           lock = "operator" \/ (files'.marker = files.marker /\ files'.fault = files.fault),
           \A r \in Role : /\ box'[r].run => box[r].run /\ box'[r].tie = box[r].tie /\ box'[r].gen = box[r].gen
                           /\ box'[r].ready => box'[r].run,
           LoadedRules', CommandIsTyped', CommandsAreTrue'
    PROVE  HostInv'
<1>1. /\ host' \in HostStates
      /\ host'.at = host.at \/ (host.at \in {"idle", "down"} /\ host'.at = "down")
      /\ host'.at # "down" => host' = host
  BY HostFields, DownIsAState
<1>2. host'.at \in {"locked", "acting"} <=> host.at \in {"locked", "acting"}
  BY <1>1
<1>3. host'.kept \subseteq Role /\ host'.age \in Ages
      /\ host'.at \in {"down", "idle", "gated", "locked", "acting"}
  <2>1. ASSUME NEW h \in HostStates
        PROVE  h.kept \subseteq Role /\ h.age \in Ages /\ h.at \in {"down", "idle", "gated", "locked", "acting"}
    BY DEF HostStates
  <2> QED BY <1>1, <2>1
<1>4. HostTypeOK'
  BY <1>2, <1>3 DEF HostInv, HostTypeOK, Ages
<1>5. HostIsTyped'
  BY <1>1, DownIsAState DEF HostInv, HostIsTyped
<1>6. ContainersAreTrue'
  <2>1. \A r \in Role : box'[r].run => box'[r].gen # None
    BY BoxFields
  <2>2. ASSUME NEW r \in Dependants, box'[r].run, box'[r].tie = "old" PROVE ~box'["origin"].run
    BY <2>2 DEF HostInv, ContainersAreTrue, Dependants, Role
  <2> QED BY <2>1, <2>2 DEF ContainersAreTrue
<1>7. SampleHolds'
  <2>1. CASE host' = Down
    BY <2>1, DownIsAState DEF SampleHolds
  <2>2. CASE host' = host
    <3>1. ASSUME NEW r \in Dependants, ~box[r].run \/ box[r].tie = "lost"
          PROVE  ~box'[r].run \/ box'[r].tie = "lost"
      BY <3>1 DEF Dependants, Role
    <3> QED BY <2>2, <3>1 DEF HostInv, SampleHolds
  <2> QED BY <2>1, <2>2
<1>8. RecoveryIsAllowed'
  <2>1. (box'["guard"].run => box["guard"].run) /\ (box'["openclaw"].run => box["openclaw"].run)
    BY DEF Role
  <2>2. CASE host'.at = "acting"
    <3>1. lock # "operator" /\ host' = host
      BY <1>1, <2>2, HostFields
    <3> QED BY <2>1, <3>1 DEF HostInv, RecoveryIsAllowed
  <2> QED BY <2>2 DEF RecoveryIsAllowed
<1> QED BY <1>4, <1>5, <1>6, <1>7, <1>8 DEF HostInv

LEMMA CommandFields ==
    ASSUME HostInv, op.todo # <<>>
    PROVE  /\ op.cmd \in {"enter", "resume", "clear", "switch", "activate"}
           /\ op.from \in Gen /\ op.to \in Gen /\ op.todo \in AllRest /\ op.undoing \in BOOLEAN
           /\ op.cmd # "switch" => Target = op.from
           /\ Target \in Gen /\ None \notin Gen
<1>1. op.cmd # "none"
  BY DEF HostInv, CommandIsTyped, NoCommand
<1>2. /\ op.cmd \in {"enter", "resume", "clear", "switch", "activate"}
      /\ op.from \in Gen /\ op.to \in Gen /\ op.todo \in AllRest /\ op.undoing \in BOOLEAN
      /\ op.cmd # "switch" => op.to = op.from
  BY <1>1 DEF HostInv, CommandIsTyped, AllRest
<1> QED BY <1>2, HostAssumption DEF Target

LEMMA Proceeds ==
    ASSUME HostInv, op.todo # <<>>, Proceed
    PROVE  /\ op'.cmd = op.cmd /\ op'.from = op.from /\ op'.to = op.to /\ op'.undoing = op.undoing
           /\ op'.todo = Tail(op.todo) /\ op'.done = op.done \cup {Head(op.todo)}
           /\ Target' = Target /\ CommandIsTyped' /\ op'.cmd # "none"
<1>1. op' = [op EXCEPT !.todo = Tail(op.todo), !.done = op.done \cup {Head(op.todo)}]
  BY DEF Proceed
<1>2. op \in [cmd : {"none", "enter", "resume", "clear", "switch", "activate"},
              from : Gen \cup {None}, to : Gen \cup {None}, todo : AllRest,
              done : {op.done}, undoing : BOOLEAN]
  BY DEF HostInv, CommandIsTyped, AllRest
<1>3. /\ op'.cmd = op.cmd /\ op'.from = op.from /\ op'.to = op.to /\ op'.undoing = op.undoing
      /\ op'.todo = Tail(op.todo) /\ op'.done = op.done \cup {Head(op.todo)}
  BY <1>1, <1>2
<1>4. Tail(op.todo) \in AllRest
  <2>1. <<>> \in AllRest
    BY DEF AllRest, EnterRest
  <2> QED BY <1>2, <2>1, CommandLists, ActivateLists DEF AllRest
<1>5. op' \in [cmd : {"none", "enter", "resume", "clear", "switch", "activate"},
               from : Gen \cup {None}, to : Gen \cup {None}, todo : AllRest,
               done : {op'.done}, undoing : BOOLEAN]
  BY <1>1, <1>2, <1>4
<1>6. CommandIsTyped'
  <2>1. op.cmd # "none" /\ op.from \in Gen /\ op.to \in Gen
        /\ (op.cmd # "switch" => op.to = op.from /\ ~op.undoing)
    BY CommandFields DEF HostInv, CommandIsTyped
  <2> QED BY <1>3, <1>5, <2>1 DEF CommandIsTyped, AllRest
<1> QED BY <1>3, <1>6, CommandFields DEF Target

\* Which commands take a step.
LEMMA StepOf ==
    ASSUME HostInv, op.todo # <<>>
    PROVE  /\ op.cmd = "enter" => Head(op.todo) \in {"mark", "guard", "openclaw", "origin", "quiet"}
           /\ op.cmd = "resume" => Head(op.todo) = "unmark"
           /\ op.cmd = "clear" => Head(op.todo) \in {"stop-host", "recheck", "archive", "start-host"}
           /\ op.cmd = "switch" => Head(op.todo) \in {"stop-host", "retire", "create", "marker", "gate",
                                                      "plist", "start-host"}
           /\ op.cmd = "activate" => Head(op.todo) \in {"plist", "gate", "start-host", "unlock", "await",
                                                        "lock", "guard", "openclaw", "origin"}
<1>1. op.cmd = "enter" => op.todo \in EnterRest
  BY DEF HostInv, CommandsAreTrue, EnterIsTrue
<1>2. op.cmd = "resume" => op.todo \in ResumeRest
  BY DEF HostInv, CommandsAreTrue, ResumeIsTrue
<1>3. op.cmd = "clear" => op.todo \in ClearRest
  BY DEF HostInv, CommandsAreTrue, ClearIsTrue
<1>4. op.cmd = "switch" => op.todo \in SwitchRest
  BY DEF HostInv, CommandsAreTrue, SwitchIsTrue
<1>5. op.cmd = "activate" => op.todo \in ActivateRest
  BY DEF HostInv, CommandsAreTrue, ActivateIsTrue
<1>6. op.cmd = "switch" => Head(op.todo) \in {"stop-host", "retire", "create", "marker", "gate",
                                              "plist", "start-host"}
  BY <1>4, SwitchLists
<1>7. op.cmd = "activate" => Head(op.todo) \in {"plist", "gate", "start-host", "unlock", "await",
                                                "lock", "guard", "openclaw", "origin"}
  BY <1>5, ActivateLists
<1> QED BY <1>1, <1>2, <1>3, <1>6, <1>7, CommandLists

\* What a command may rely on at each of its steps.
LEMMA Reached ==
    ASSUME HostInv, op.todo # <<>>
    PROVE  /\ op.cmd = "enter" => lock = "operator" /\ IdentityValid(op.from)
           /\ op.cmd = "resume" => lock = "operator" /\ CanResume(op.from)
           /\ op.cmd = "clear" => /\ lock = "operator" /\ Quiet /\ IdentityValid(op.from)
                                  /\ files.gate = op.from /\ files.marker = op.from
                                  /\ Head(op.todo) # "stop-host" => job.loaded = None
           /\ op.cmd = "switch" =>
                  /\ lock = "operator" /\ Quiet
                  /\ Head(op.todo) # "stop-host" => job.loaded = None
                  /\ Head(op.todo) \in {"marker", "gate", "plist", "start-host"} => Trusted(Target) = Role
                  /\ Head(op.todo) \in {"gate", "plist", "start-host"} => files.marker = Target
                  /\ Head(op.todo) \in {"plist", "start-host"} => files.gate = Target
                  /\ ~op.undoing /\ Head(op.todo) = "stop-host" => "stop-host" \notin op.done
                  /\ ~op.undoing /\ Head(op.todo) = "start-host" => "plist" \in op.done
           /\ op.cmd = "activate" =>
                  /\ Head(op.todo) \in {"plist", "gate", "start-host", "unlock"} => lock = "operator"
                  /\ Head(op.todo) \in {"plist", "gate", "start-host"} =>
                        job.loaded = None /\ IdentityValid(op.from) /\ files.marker = None
                  /\ Head(op.todo) = "start-host" => files.gate = op.from
<1>1. op.cmd = "enter" => lock = "operator" /\ IdentityValid(op.from)
  BY DEF HostInv, CommandsAreTrue, EnterIsTrue
<1>2. op.cmd = "resume" => lock = "operator" /\ CanResume(op.from)
  BY DEF HostInv, CommandsAreTrue, ResumeIsTrue
<1>3. op.cmd = "clear" => /\ lock = "operator" /\ Quiet /\ IdentityValid(op.from)
                          /\ files.gate = op.from /\ files.marker = op.from
                          /\ Head(op.todo) # "stop-host" => job.loaded = None
  BY StepOf DEF HostInv, CommandsAreTrue, ClearIsTrue, Next1
<1>4. op.cmd = "switch" =>
                  /\ lock = "operator" /\ Quiet
                  /\ Head(op.todo) # "stop-host" => job.loaded = None
                  /\ Head(op.todo) \in {"marker", "gate", "plist", "start-host"} => Trusted(Target) = Role
                  /\ Head(op.todo) \in {"gate", "plist", "start-host"} => files.marker = Target
                  /\ Head(op.todo) \in {"plist", "start-host"} => files.gate = Target
                  /\ ~op.undoing /\ Head(op.todo) = "stop-host" => "stop-host" \notin op.done
                  /\ ~op.undoing /\ Head(op.todo) = "start-host" => "plist" \in op.done
  BY StepOf DEF HostInv, CommandsAreTrue, SwitchIsTrue, Next1
<1>5. op.cmd = "activate" =>
                  /\ Head(op.todo) \in {"plist", "gate", "start-host", "unlock"} => lock = "operator"
                  /\ Head(op.todo) \in {"plist", "gate", "start-host"} =>
                        job.loaded = None /\ IdentityValid(op.from) /\ files.marker = None
                  /\ Head(op.todo) = "start-host" => files.gate = op.from
  BY DEF HostInv, CommandsAreTrue, ActivateIsTrue, Next1
<1> QED BY <1>1, <1>2, <1>3, <1>4, <1>5

LEMMA EnterGoesOn ==
    ASSUME HostInv, op.todo # <<>>, op.cmd = "enter", Proceed, UNCHANGED lock,
           \A r \in Role : box'[r].gen = box[r].gen
    PROVE  CommandsAreTrue'
<1>1. op'.cmd = "enter" /\ op'.from = op.from /\ op'.todo = Tail(op.todo)
  BY Proceeds
<1>2. lock' = "operator" /\ IdentityValid(op.from)
  BY Reached
<1>3. IdentityValid(op.from)'
  BY <1>1, <1>2 DEF IdentityValid, Trusted
<1>4. op'.todo \in EnterRest
  BY <1>1, CommandLists DEF HostInv, CommandsAreTrue, EnterIsTrue
<1>5. EnterIsTrue'
  BY <1>1, <1>2, <1>3, <1>4 DEF EnterIsTrue
<1> QED BY <1>1, <1>5, NotOthers DEF CommandsAreTrue

LEMMA ResumeGoesOn ==
    ASSUME HostInv, op.todo # <<>>, op.cmd = "resume", Proceed, UNCHANGED lock
    PROVE  CommandsAreTrue'
<1>1. op'.cmd = "resume" /\ op'.from = op.from /\ op'.todo = Tail(op.todo)
  BY Proceeds
<1>2. lock' = "operator" /\ op'.todo = <<>>
  BY <1>1, Reached, CommandLists DEF HostInv, CommandsAreTrue, ResumeIsTrue
<1>3. ResumeIsTrue'
  BY <1>1, <1>2 DEF ResumeIsTrue, ResumeRest
<1> QED BY <1>1, <1>3, NotOthers DEF CommandsAreTrue

LEMMA ClearGoesOn ==
    ASSUME HostInv, op.todo # <<>>, op.cmd = "clear", Proceed, UNCHANGED <<lock, box>>,
           files'.gate = files.gate, files'.marker = files.marker,
           Head(op.todo) # "start-host" => job'.loaded = None
    PROVE  CommandsAreTrue'
<1>1. op'.cmd = "clear" /\ op'.from = op.from /\ op'.todo = Tail(op.todo)
  BY Proceeds
<1>2. /\ lock' = "operator" /\ Quiet /\ IdentityValid(op.from)
      /\ files.gate = op.from /\ files.marker = op.from
  BY Reached
<1>3. IdentityValid(op.from)' /\ Quiet'
  BY <1>1, <1>2 DEF IdentityValid, Trusted, Quiet
<1>4. op.todo \in ClearRest
  BY DEF HostInv, CommandsAreTrue, ClearIsTrue
<1>5. op'.todo \in ClearRest
  BY <1>1, <1>4, CommandLists
<1>6. Next1({"recheck", "archive", "start-host"})' => job'.loaded = None
  <2>1. Head(op.todo) = "start-host" => Tail(op.todo) = <<>>
    <3>1. /\ Head(ClearSteps) = "stop-host" /\ Head(C3) = "recheck" /\ Head(C2) = "archive"
          /\ Tail(C1) = <<>>
      BY CommandTails
    <3>2. op.todo \in {ClearSteps, C3, C2, C1}
      BY <1>4 DEF ClearRest
    <3> QED BY ONLY <3>1, <3>2
  <2> QED BY <1>1, <2>1 DEF Next1
<1>7. ClearIsTrue'
  BY <1>1, <1>2, <1>3, <1>5, <1>6 DEF ClearIsTrue
<1> QED BY <1>1, <1>7, NotOthers DEF CommandsAreTrue

LEMMA SwitchGoesOn ==
    ASSUME HostInv, op.todo # <<>>, op.cmd = "switch", Proceed, UNCHANGED lock, Quiet',
           Head(op.todo) # "start-host" => job'.loaded = None,
           Head(op.todo) \in {"create", "marker", "gate", "plist"} => (\A r \in Role : box'[r].gen = Target),
           Head(op.todo) \in {"marker", "gate", "plist"} => files'.marker = Target,
           Head(op.todo) \in {"gate", "plist"} => files'.gate = Target
    PROVE  CommandsAreTrue'
<1>1. /\ op'.cmd = "switch" /\ op'.todo = Tail(op.todo) /\ op'.undoing = op.undoing
      /\ op'.done = op.done \cup {Head(op.todo)} /\ Target' = Target
  BY Proceeds
<1>2. lock' = "operator"
  BY Reached
<1>3. op.todo \in SwitchRest
  BY DEF HostInv, CommandsAreTrue, SwitchIsTrue
<1>4. op'.todo \in SwitchRest
  BY <1>1, <1>3, CommandLists
<1>5. ASSUME op'.todo # <<>>
      PROVE  /\ Head(op.todo) # "start-host" /\ Head(op'.todo) # "stop-host"
             /\ Head(op'.todo) \in {"marker", "gate", "plist", "start-host"} =>
                    Head(op.todo) \in {"create", "marker", "gate", "plist"}
             /\ Head(op'.todo) \in {"gate", "plist", "start-host"} =>
                    Head(op.todo) \in {"marker", "gate", "plist"}
             /\ Head(op'.todo) \in {"plist", "start-host"} => Head(op.todo) \in {"gate", "plist"}
             /\ Head(op'.todo) = "start-host" => Head(op.todo) = "plist"
  BY <1>1, <1>3, <1>5, SwitchLists
<1>6. Next1({"retire", "create", "marker", "gate", "plist", "start-host"})' => job'.loaded = None
  BY <1>5 DEF Next1
<1>7. Next1({"marker", "gate", "plist", "start-host"})' => (Trusted(Target) = Role)'
  BY <1>1, <1>5 DEF Next1, Trusted
<1>8. Next1({"gate", "plist", "start-host"})' => files'.marker = Target'
  BY <1>1, <1>5 DEF Next1
<1>9. Next1({"plist", "start-host"})' => files'.gate = Target'
  BY <1>1, <1>5 DEF Next1
<1>10. ~Next1({"stop-host"})' /\ (Next1({"start-host"})' => "plist" \in op'.done)
  BY <1>1, <1>5 DEF Next1
<1>11. SwitchIsTrue'
  BY <1>1, <1>2, <1>4, <1>6, <1>7, <1>8, <1>9, <1>10 DEF SwitchIsTrue
<1> QED BY <1>1, <1>11, NotOthers DEF CommandsAreTrue

LEMMA ActivateGoesOn ==
    ASSUME HostInv, op.todo # <<>>, op.cmd = "activate", Proceed,
           Head(op.todo) \in {"plist", "gate", "start-host"} => lock' = lock,
           Head(op.todo) \in {"plist", "gate"} =>
               /\ job'.loaded = job.loaded /\ files'.marker = files.marker
               /\ \A r \in Role : box'[r].gen = box[r].gen,
           Head(op.todo) = "gate" => files'.gate = Target
    PROVE  CommandsAreTrue'
<1>1. op'.cmd = "activate" /\ op'.from = op.from /\ op'.todo = Tail(op.todo)
  BY Proceeds
<1>2. op.todo \in ActivateRest
  BY DEF HostInv, CommandsAreTrue, ActivateIsTrue
<1>3. op'.todo \in ActivateRest
  BY <1>1, <1>2, ActivateLists
<1>4. /\ Head(op.todo) \in {"plist", "gate", "start-host", "unlock"} => lock = "operator"
      /\ Head(op.todo) \in {"plist", "gate", "start-host"} =>
            job.loaded = None /\ IdentityValid(op.from) /\ files.marker = None
      /\ Target = op.from
  BY Reached, CommandFields
<1>5. ASSUME op'.todo # <<>>
      PROVE  /\ Head(op'.todo) # "plist"
             /\ Head(op'.todo) = "gate" => Head(op.todo) = "plist"
             /\ Head(op'.todo) = "start-host" => Head(op.todo) = "gate"
             /\ Head(op'.todo) = "unlock" => Head(op.todo) = "start-host"
  BY <1>1, <1>2, <1>5, ActivateLists
<1>6. Next1({"plist", "gate", "start-host", "unlock"})' => lock' = "operator"
  BY <1>4, <1>5 DEF Next1
<1>7. Next1({"plist", "gate", "start-host"})' =>
          job'.loaded = None /\ IdentityValid(op.from)' /\ files'.marker = None
  BY <1>1, <1>4, <1>5 DEF Next1, IdentityValid, Trusted
<1>8. Next1({"start-host"})' => files'.gate = op'.from
  BY <1>1, <1>4, <1>5 DEF Next1
<1>9. ActivateIsTrue'
  BY <1>1, <1>3, <1>6, <1>7, <1>8 DEF ActivateIsTrue
<1> QED BY <1>1, <1>9, NotOthers DEF CommandsAreTrue

-----------------------------------------------------------------------------
(* The steps of the commands.                                               *)

LEMMA StateFields ==
    ASSUME HostInv
    PROVE  /\ files \in Files /\ job \in [plist : Gen \cup {None}, loaded : Gen \cup {None}]
           /\ box \in [Role -> Container] /\ mishaps \in 0..MaxMishaps
           /\ job.loaded # None => Agreed(job.loaded)
           /\ job.loaded = None => Quiet /\ host.at = "down"
  BY DEF HostInv, HostTypeOK, LoadedRules, HostIsTyped

LEMMA SetMarkerHolds == ASSUME HostInv, SetMarker PROVE HostInv'
<1>1. /\ op.todo # <<>> /\ Head(op.todo) \in {"mark", "marker"} /\ Proceed
      /\ files' = [files EXCEPT !.marker = Target]
      /\ UNCHANGED <<lock, job, box, host, mishaps, sampled, commands>>
  BY DEF SetMarker, At, Alone
<1>2. op.cmd \in {"enter", "switch"}
  BY <1>1, StepOf, CommandFields
<1>3. lock = "operator" /\ Target \in Gen
  BY <1>1, <1>2, Reached, CommandFields
<1>4. files' \in Files /\ files'.marker = Target /\ files'.gate = files.gate
  BY <1>1, <1>3, StateFields DEF Files
<1>5. LoadedRules'
  <2>1. CASE job.loaded = None
    BY <1>1, <2>1, StateFields DEF LoadedRules, Quiet
  <2>2. CASE job.loaded # None
    <3>1. op.cmd = "enter"
      BY <1>1, <1>2, <2>2, StepOf, Reached
    <3>2. IdentityValid(op.from) /\ Target = op.from
      BY <1>1, <3>1, Reached, CommandFields
    <3>3. job.loaded = op.from
      <4>1. box["origin"].gen = op.from /\ box["origin"].gen \in {job.loaded, None} /\ op.from \in Gen
        BY <1>1, <2>2, <3>2, StateFields, CommandFields DEF IdentityValid, Trusted, Role, Agreed
      <4> QED BY <4>1, HostAssumption
    <3> QED BY <1>1, <1>4, <2>2, <3>2, <3>3, StateFields DEF LoadedRules, Agreed
  <2> QED BY <2>1, <2>2
<1>6. CommandsAreTrue'
  <2>1. CASE op.cmd = "enter"
    BY <1>1, <2>1, EnterGoesOn
  <2>2. CASE op.cmd = "switch"
    <3>1. Head(op.todo) = "marker"
      BY <1>1, <2>2, StepOf
    <3>2. Quiet' /\ job'.loaded = None /\ Trusted(Target) = Role
      BY <1>1, <2>2, <3>1, Reached DEF Quiet
    <3>3. \A r \in Role : box'[r].gen = Target
      BY <1>1, <3>2 DEF Trusted
    <3> QED BY <1>1, <1>4, <2>2, <3>1, <3>2, <3>3, SwitchGoesOn
  <2> QED BY <1>2, <2>1, <2>2
<1>7. op'.cmd # "none" /\ CommandIsTyped'
  BY <1>1, Proceeds
<1> QED BY <1>1, <1>3, <1>4, <1>5, <1>6, <1>7, StateFields, BoxFields, OperatorWorks

LEMMA SetGateHolds == ASSUME HostInv, SetGate PROVE HostInv'
<1>1. /\ op.todo # <<>> /\ Head(op.todo) = "gate" /\ Proceed
      /\ files' = [files EXCEPT !.gate = Target]
      /\ UNCHANGED <<lock, job, box, host, mishaps, sampled, commands>>
  BY DEF SetGate, At, Alone
<1>2. op.cmd \in {"switch", "activate"}
  BY <1>1, StepOf, CommandFields
<1>3. lock = "operator" /\ Target \in Gen /\ job.loaded = None
  BY <1>1, <1>2, Reached, CommandFields
<1>4. files' \in Files /\ files'.gate = Target /\ files'.marker = files.marker
  BY <1>1, <1>3, StateFields DEF Files
<1>5. LoadedRules'
  BY <1>1, <1>3, StateFields DEF LoadedRules, Quiet
<1>6. CommandsAreTrue'
  <2>1. CASE op.cmd = "activate"
    BY <1>1, <1>4, <2>1, ActivateGoesOn
  <2>2. CASE op.cmd = "switch"
    <3>1. Quiet' /\ files.marker = Target /\ Trusted(Target) = Role
      BY <1>1, <2>2, Reached DEF Quiet
    <3>2. \A r \in Role : box'[r].gen = Target
      BY <1>1, <3>1 DEF Trusted
    <3> QED BY <1>1, <1>3, <1>4, <2>2, <3>1, <3>2, SwitchGoesOn
  <2> QED BY <1>2, <2>1, <2>2
<1>7. op'.cmd # "none" /\ CommandIsTyped'
  BY <1>1, Proceeds
<1> QED BY <1>1, <1>3, <1>4, <1>5, <1>6, <1>7, StateFields, BoxFields, OperatorWorks

LEMMA SetPlistHolds == ASSUME HostInv, SetPlist PROVE HostInv'
<1>1. /\ op.todo # <<>> /\ Head(op.todo) = "plist" /\ Proceed
      /\ job' = [job EXCEPT !.plist = Target]
      /\ UNCHANGED <<lock, files, box, host, mishaps, sampled, commands>>
  BY DEF SetPlist, At, Alone
<1>2. op.cmd \in {"switch", "activate"}
  BY <1>1, StepOf, CommandFields
<1>3. lock = "operator" /\ Target \in Gen /\ job.loaded = None
  BY <1>1, <1>2, Reached, CommandFields
<1>4. job' \in [plist : Gen \cup {None}, loaded : Gen \cup {None}] /\ job'.loaded = None
  BY <1>1, <1>3, StateFields
<1>5. LoadedRules'
  BY <1>1, <1>3, <1>4, StateFields DEF LoadedRules, Quiet
<1>6. CommandsAreTrue'
  <2>1. CASE op.cmd = "activate"
    BY <1>1, <1>3, <1>4, <2>1, ActivateGoesOn
  <2>2. CASE op.cmd = "switch"
    <3>1. Quiet' /\ files.marker = Target /\ files.gate = Target /\ Trusted(Target) = Role
      BY <1>1, <2>2, Reached DEF Quiet
    <3>2. \A r \in Role : box'[r].gen = Target
      BY <1>1, <3>1 DEF Trusted
    <3> QED BY <1>1, <1>3, <1>4, <2>2, <3>1, <3>2, SwitchGoesOn
  <2> QED BY <1>2, <2>1, <2>2
<1>7. op'.cmd # "none" /\ CommandIsTyped'
  BY <1>1, Proceeds
<1> QED BY <1>1, <1>3, <1>4, <1>5, <1>6, <1>7, StateFields, BoxFields, OperatorWorks

LEMMA CommandStopsHolds == ASSUME HostInv, CommandStops PROVE HostInv'
<1>1. PICK r \in Role : /\ op.todo # <<>> /\ Head(op.todo) = r /\ Proceed
                        /\ box' = Stopped(r) \/ box' = box
                        /\ UNCHANGED <<lock, files, job, host, mishaps, sampled, commands>>
  BY DEF CommandStops, At, Alone
<1>2. op.cmd \in {"enter", "activate"}
  BY <1>1, StepOf, CommandFields DEF Role
<1>3. /\ box' \in [Role -> Container]
      /\ \A x \in Role : /\ box'[x].gen = box[x].gen /\ box'[x].tie = box[x].tie
                         /\ box'[x].run => box[x].run
                         /\ box'[x].ready => box'[x].run
  BY <1>1, StoppedBox
<1>4. LoadedRules'
  BY <1>1, <1>3, NoneStarts
<1>5. CommandsAreTrue'
  <2>1. CASE op.cmd = "enter"
    BY <1>1, <1>3, <2>1, EnterGoesOn
  <2>2. CASE op.cmd = "activate"
    BY <1>1, <2>2, ActivateGoesOn DEF Role
  <2> QED BY <1>2, <2>1, <2>2
<1>6. op'.cmd # "none" /\ CommandIsTyped'
  BY <1>1, Proceeds
<1> QED BY <1>1, <1>3, <1>4, <1>5, <1>6, StateFields, HostFields, OperatorWorks

LEMMA CommandVerifiesHolds == ASSUME HostInv, CommandVerifies PROVE HostInv'
<1>1. /\ op.todo # <<>> /\ Head(op.todo) \in {"quiet", "recheck"} /\ Proceed
      /\ UNCHANGED <<lock, files, job, box, host, mishaps, sampled, commands>>
  BY DEF CommandVerifies, At, Alone
<1>2. op.cmd \in {"enter", "clear"}
  BY <1>1, StepOf, CommandFields
<1>3. CommandsAreTrue'
  <2>1. CASE op.cmd = "enter"
    BY <1>1, <2>1, EnterGoesOn
  <2>2. CASE op.cmd = "clear"
    BY <1>1, <2>2, Reached, ClearGoesOn, StepOf
  <2> QED BY <1>2, <2>1, <2>2
<1>4. op'.cmd # "none" /\ CommandIsTyped'
  BY <1>1, Proceeds
<1>5. LoadedRules'
  BY <1>1 DEF HostInv, LoadedRules, Agreed, Quiet
<1> QED BY <1>1, <1>3, <1>4, <1>5, StateFields, BoxFields, OperatorWorks

LEMMA RemoveMarkerHolds == ASSUME HostInv, RemoveMarker PROVE HostInv'
<1>1. /\ op.todo # <<>> /\ Head(op.todo) = "unmark" /\ Proceed
      /\ files' = [files EXCEPT !.marker = None]
      /\ UNCHANGED <<lock, job, box, host, mishaps, sampled, commands>>
  BY DEF RemoveMarker, At, Alone
<1>2. op.cmd = "resume" /\ lock = "operator"
  BY <1>1, StepOf, CommandFields, Reached
<1>3. files' \in Files /\ files'.marker = None /\ files'.gate = files.gate
  BY <1>1, StateFields DEF Files
<1>4. CommandsAreTrue'
  BY <1>1, <1>2, ResumeGoesOn
<1>5. LoadedRules'
  BY <1>1, <1>3 DEF HostInv, LoadedRules, Agreed, Quiet
<1>6. op'.cmd # "none" /\ CommandIsTyped'
  BY <1>1, Proceeds
<1> QED BY <1>1, <1>2, <1>3, <1>4, <1>5, <1>6, StateFields, BoxFields, OperatorWorks

LEMMA ArchiveFaultHolds == ASSUME HostInv, ArchiveFault PROVE HostInv'
<1>1. /\ op.todo # <<>> /\ Head(op.todo) = "archive" /\ Proceed
      /\ files' = [files EXCEPT !.fault = None]
      /\ UNCHANGED <<lock, job, box, host, mishaps, sampled, commands>>
  BY DEF ArchiveFault, At, Alone
<1>2. op.cmd = "clear" /\ lock = "operator" /\ job.loaded = None
  BY <1>1, StepOf, CommandFields, Reached
<1>3. files' \in Files /\ files'.marker = files.marker /\ files'.gate = files.gate
  BY <1>1, StateFields DEF Files
<1>4. CommandsAreTrue'
  BY <1>1, <1>2, <1>3, ClearGoesOn
<1>5. LoadedRules'
  BY <1>1, <1>2, StateFields DEF LoadedRules, Quiet
<1>6. op'.cmd # "none" /\ CommandIsTyped'
  BY <1>1, Proceeds
<1> QED BY <1>1, <1>2, <1>3, <1>4, <1>5, <1>6, StateFields, BoxFields, OperatorWorks

LEMMA StopHostHolds == ASSUME HostInv, StopHost PROVE HostInv'
<1>1. /\ op.todo # <<>> /\ Head(op.todo) = "stop-host" /\ Proceed
      /\ host.at \in {"idle", "down"} /\ host' = Down /\ job' = [job EXCEPT !.loaded = None]
      /\ UNCHANGED <<lock, files, box, mishaps, sampled, commands>>
  BY DEF StopHost, At, Alone, HostMayLeave
<1>2. op.cmd \in {"clear", "switch"}
  BY <1>1, StepOf, CommandFields
<1>3. lock = "operator" /\ Quiet
  BY <1>1, <1>2, Reached
<1>4. job' \in [plist : Gen \cup {None}, loaded : Gen \cup {None}] /\ job'.loaded = None
  BY <1>1, StateFields
<1>5. Quiet' /\ LoadedRules'
  BY <1>1, <1>3, <1>4 DEF LoadedRules, Quiet
<1>6. CommandsAreTrue'
  <2>1. CASE op.cmd = "clear"
    BY <1>1, <1>4, <2>1, ClearGoesOn
  <2>2. CASE op.cmd = "switch"
    BY <1>1, <1>4, <1>5, <2>2, SwitchGoesOn
  <2> QED BY <1>2, <2>1, <2>2
<1>7. op'.cmd # "none" /\ CommandIsTyped'
  BY <1>1, Proceeds
<1>8. host'.at = "down"
  BY <1>1, DownIsAState
<1> QED BY <1>1, <1>3, <1>4, <1>5, <1>6, <1>7, <1>8, StateFields, BoxFields, OperatorWorks

\* Whichever command loads the host's job, the files and the containers name its release.
LEMMA LoadingIsRight ==
    ASSUME HostInv, op.todo # <<>>, Head(op.todo) = "start-host"
    PROVE  /\ lock = "operator" /\ job.loaded = None /\ Quiet /\ Agreed(Target) /\ Target \in Gen
<1>1. op.cmd \in {"clear", "switch", "activate"}
  BY StepOf, CommandFields
<1>2. lock = "operator" /\ job.loaded = None
  BY <1>1, Reached
<1>3. Target \in Gen /\ (op.cmd # "switch" => Target = op.from)
  BY CommandFields
<1>4. CASE op.cmd = "clear"
  BY <1>2, <1>3, <1>4, Reached, StateFields DEF Agreed, IdentityValid, Trusted
<1>5. CASE op.cmd = "switch"
  BY <1>2, <1>3, <1>5, Reached, StateFields DEF Agreed, Trusted
<1>6. CASE op.cmd = "activate"
  BY <1>2, <1>3, <1>6, Reached, StateFields DEF Agreed, IdentityValid, Trusted
<1> QED BY <1>1, <1>4, <1>5, <1>6

LEMMA StartHostHolds == ASSUME HostInv, StartHost PROVE HostInv'
<1>1. /\ op.todo # <<>> /\ Head(op.todo) = "start-host" /\ Proceed
      /\ job' = [job EXCEPT !.loaded = Target]
      /\ UNCHANGED <<lock, files, box, host, mishaps, sampled, commands>>
  BY DEF StartHost, At, Alone
<1>2. lock = "operator" /\ job.loaded = None /\ Quiet /\ Agreed(Target) /\ Target \in Gen
  BY <1>1, LoadingIsRight
<1>3. job' \in [plist : Gen \cup {None}, loaded : Gen \cup {None}] /\ job'.loaded = Target
  BY <1>1, <1>2, StateFields
<1>4. Quiet' /\ LoadedRules'
  BY <1>1, <1>2, <1>3 DEF LoadedRules, Quiet, Agreed
<1>5. CommandsAreTrue'
  <2>1. CASE op.cmd = "clear"
    BY <1>1, <2>1, ClearGoesOn
  <2>2. CASE op.cmd = "switch"
    BY <1>1, <1>4, <2>2, SwitchGoesOn
  <2>3. CASE op.cmd = "activate"
    BY <1>1, <2>3, ActivateGoesOn
  <2> QED BY <1>1, <2>1, <2>2, <2>3, StepOf, CommandFields
<1>6. op'.cmd # "none" /\ CommandIsTyped'
  BY <1>1, Proceeds
<1>7. host'.at = "down"
  BY <1>1, <1>2, StateFields
<1> QED BY <1>1, <1>2, <1>3, <1>4, <1>5, <1>6, <1>7, StateFields, BoxFields, OperatorWorks

LEMMA RetireHolds == ASSUME HostInv, Retire PROVE HostInv'
<1>1. /\ op.todo # <<>> /\ Head(op.todo) = "retire" /\ Proceed
      /\ box' = [r \in Role |-> Absent]
      /\ UNCHANGED <<lock, files, job, host, mishaps, sampled, commands>>
  BY DEF Retire, At, Alone
<1>2. op.cmd = "switch"
  BY <1>1, StepOf, CommandFields
<1>3. lock = "operator" /\ job.loaded = None
  BY <1>1, <1>2, Reached
<1>4. box' \in [Role -> Container] /\ \A r \in Role : ~box'[r].run /\ ~box'[r].ready
  BY <1>1 DEF Absent, Container
<1>5. Quiet' /\ LoadedRules'
  BY <1>1, <1>3, <1>4 DEF LoadedRules, Quiet
<1>6. CommandsAreTrue'
  BY <1>1, <1>2, <1>3, <1>5, SwitchGoesOn
<1>7. op'.cmd # "none" /\ CommandIsTyped'
  BY <1>1, Proceeds
<1> QED BY <1>1, <1>3, <1>4, <1>5, <1>6, <1>7, StateFields, OperatorWorks

LEMMA CreateStoppedHolds == ASSUME HostInv, CreateStopped PROVE HostInv'
<1>1. /\ op.todo # <<>> /\ Head(op.todo) = "create" /\ Proceed
      /\ box' = [r \in Role |-> Created(Target)]
      /\ UNCHANGED <<lock, files, job, host, mishaps, sampled, commands>>
  BY DEF CreateStopped, At, Alone
<1>2. op.cmd = "switch" /\ Target \in Gen
  BY <1>1, StepOf, CommandFields
<1>3. lock = "operator" /\ job.loaded = None
  BY <1>1, <1>2, Reached
<1>4. /\ box' \in [Role -> Container]
      /\ \A r \in Role : ~box'[r].run /\ ~box'[r].ready /\ box'[r].gen = Target
  BY <1>1, <1>2 DEF Created, Container
<1>5. Quiet' /\ LoadedRules'
  BY <1>1, <1>3, <1>4 DEF LoadedRules, Quiet
<1>6. CommandsAreTrue'
  BY <1>1, <1>2, <1>3, <1>4, <1>5, SwitchGoesOn
<1>7. op'.cmd # "none" /\ CommandIsTyped'
  BY <1>1, Proceeds
<1> QED BY <1>1, <1>3, <1>4, <1>5, <1>6, <1>7, StateFields, OperatorWorks

LEMMA LockStepsHold == ASSUME HostInv, Unlock \/ Await \/ LockAgain PROVE HostInv'
<1>1. /\ op.todo # <<>> /\ Head(op.todo) \in {"unlock", "await", "lock"} /\ Proceed
      /\ \/ Head(op.todo) = "unlock" /\ lock' = None
         \/ lock' = lock
         \/ lock = None /\ lock' = "operator"
      /\ UNCHANGED <<files, job, box, host, mishaps, sampled, commands>>
  BY DEF Unlock, Await, LockAgain, At, Alone
<1>2. op.cmd = "activate" /\ (Head(op.todo) = "unlock" => lock = "operator")
  BY <1>1, StepOf, CommandFields, Reached
<1>3. CommandsAreTrue'
  BY <1>1, <1>2, ActivateGoesOn
<1>4. op'.cmd # "none" /\ CommandIsTyped'
  BY <1>1, Proceeds
<1>5. /\ lock' = lock \/ lock = None \/ lock = "operator"
      /\ lock' \in {None, "operator", "dead"} \/ lock' = lock
  BY <1>1, <1>2
<1>6. mishaps' \in 0..MaxMishaps /\ commands' \in 0..MaxCommands
  BY <1>1 DEF HostInv, HostTypeOK
<1> QED BY <1>1, <1>3, <1>4, <1>5, <1>6, OnlyTheCommand

LEMMA CommandLeavesHolds == ASSUME HostInv, CommandEnds \/ CommandKilled PROVE HostInv'
<1>1. /\ op' = NoCommand /\ UNCHANGED <<files, job, box, host, sampled, commands>>
      /\ lock' = lock \/ (lock = "operator" /\ lock' \in {None, "dead"})
      /\ mishaps' = mishaps \/ Spoilt
      /\ lock' # "operator"
  BY HostFields DEF CommandEnds, CommandKilled
<1>2. mishaps' \in 0..MaxMishaps /\ commands' \in 0..MaxCommands
  BY <1>1, HostFields, HostAssumption DEF Spoilt, HostInv, HostTypeOK
<1>3. op'.cmd = "none"
  BY <1>1 DEF NoCommand
<1>4. CommandIsTyped'
  BY <1>1, <1>3 DEF CommandIsTyped, NoCommand, EnterRest
<1>5. CommandsAreTrue'
  BY <1>3 DEF CommandsAreTrue, EnterIsTrue, ResumeIsTrue, ClearIsTrue, SwitchIsTrue, ActivateIsTrue
<1>6. /\ lock' = lock \/ lock = None \/ lock = "operator"
      /\ lock' \in {None, "operator", "dead"} \/ lock' = lock
  BY <1>1
<1> QED BY <1>1, <1>2, <1>3, <1>4, <1>5, <1>6, OnlyTheCommand

\* What a failing step may have done, and what the command makes of it.
LEMMA HalfDone ==
    ASSUME HostInv, CommandFails
    PROVE  /\ op.todo # <<>> /\ UNCHANGED <<lock, sampled, commands>> /\ mishaps' \in 0..MaxMishaps
           /\ host' = IF job.loaded # None /\ job'.loaded = None THEN Down ELSE host
           /\ \/ UNCHANGED <<job, box>>
              \/ /\ Head(op.todo) = "stop-host" /\ host.at \in {"idle", "down"}
                 /\ job' = [job EXCEPT !.loaded = None] /\ UNCHANGED box
              \/ /\ Head(op.todo) = "start-host"
                 /\ job' = [job EXCEPT !.loaded = Target] /\ UNCHANGED box
              \/ /\ Head(op.todo) = "retire"
                 /\ box' = [box EXCEPT !["guard"] = Absent] /\ UNCHANGED job
              \/ /\ Head(op.todo) = "create"
                 /\ box' = [box EXCEPT !["origin"] = Created(Target)] /\ UNCHANGED job
<1>1. /\ op.todo # <<>> /\ UNCHANGED <<lock, sampled, commands>>
      /\ Spoilt \/ Fine
      /\ \E e \in Effects(Head(op.todo)) :
           /\ job' = e[1] /\ box' = e[2]
           /\ host' = IF job.loaded # None /\ job'.loaded = None THEN Down ELSE host
  BY DEF CommandFails
<1>2. mishaps' \in 0..MaxMishaps
  BY <1>1, StateFields, HostAssumption DEF Spoilt, Fine
<1>3. PICK e \in Effects(Head(op.todo)) : job' = e[1] /\ box' = e[2]
  BY <1>1
<1>4. \/ e = <<job, box>>
      \/ /\ Head(op.todo) = "stop-host" /\ HostMayLeave
         /\ e = <<[job EXCEPT !.loaded = None], box>>
      \/ /\ Head(op.todo) = "start-host"
         /\ e = <<[job EXCEPT !.loaded = Target], box>>
      \/ /\ Head(op.todo) = "retire"
         /\ e = <<job, [box EXCEPT !["guard"] = Absent]>>
      \/ /\ Head(op.todo) = "create"
         /\ e = <<job, [box EXCEPT !["origin"] = Created(Target)]>>
  BY <1>3 DEF Effects
<1>5. HostMayLeave => host.at \in {"idle", "down"}
  BY DEF HostMayLeave
<1>6. \/ UNCHANGED <<job, box>>
      \/ /\ Head(op.todo) = "stop-host" /\ host.at \in {"idle", "down"}
         /\ job' = [job EXCEPT !.loaded = None] /\ UNCHANGED box
      \/ /\ Head(op.todo) = "start-host"
         /\ job' = [job EXCEPT !.loaded = Target] /\ UNCHANGED box
      \/ /\ Head(op.todo) = "retire"
         /\ box' = [box EXCEPT !["guard"] = Absent] /\ UNCHANGED job
      \/ /\ Head(op.todo) = "create"
         /\ box' = [box EXCEPT !["origin"] = Created(Target)] /\ UNCHANGED job
  <2>1. ASSUME NEW j, NEW b, e = <<j, b>> PROVE job' = j /\ box' = b
    BY <1>3, <2>1
  <2>2. CASE e = <<job, box>>
    BY <2>1, <2>2
  <2>3. CASE Head(op.todo) = "stop-host" /\ HostMayLeave /\ e = <<[job EXCEPT !.loaded = None], box>>
    BY <1>5, <2>1, <2>3
  <2>4. CASE Head(op.todo) = "start-host" /\ e = <<[job EXCEPT !.loaded = Target], box>>
    BY <2>1, <2>4
  <2>5. CASE Head(op.todo) = "retire" /\ e = <<job, [box EXCEPT !["guard"] = Absent]>>
    BY <2>1, <2>5
  <2>6. CASE Head(op.todo) = "create" /\ e = <<job, [box EXCEPT !["origin"] = Created(Target)]>>
    BY <2>1, <2>6
  <2> QED BY <1>4, <2>2, <2>3, <2>4, <2>5, <2>6
<1> QED BY <1>1, <1>2, <1>6

LEMMA GivesUp ==
    ASSUME HostInv, op.todo # <<>>, AfterFailure
    PROVE  /\ op'.cmd = op.cmd /\ op'.from = op.from /\ op'.to = op.to
           /\ op'.cmd # "none" /\ CommandIsTyped'
           /\ files' \in Files /\ files'.marker = files.marker /\ files'.fault = files.fault
           /\ files'.gate = files.gate \/ (op.cmd = "activate" /\ files'.gate \in {files.gate, None})
           /\ \/ op'.todo = <<>>
              \/ /\ op.cmd = "switch" /\ ~op.undoing /\ "stop-host" \in op.done /\ op'.undoing
                 /\ op'.todo = IF "plist" \in op.done THEN SwitchSteps ELSE W6
              \/ op.cmd = "activate" /\ op'.todo \in {LockAndClose, ClosingOrder}
<1>1. op \in [cmd : {"none", "enter", "resume", "clear", "switch", "activate"},
              from : Gen \cup {None}, to : Gen \cup {None}, todo : AllRest,
              done : {op.done}, undoing : BOOLEAN]
  BY DEF HostInv, CommandIsTyped, AllRest
<1>2. /\ op.cmd # "none" /\ op.from \in Gen /\ op.to \in Gen
      /\ op.cmd # "switch" => op.to = op.from /\ ~op.undoing
  BY CommandFields DEF HostInv, CommandIsTyped
<1>3. files \in Files
  BY StateFields
<1>4. /\ <<>> \in AllRest /\ SwitchSteps \in AllRest /\ W6 \in AllRest
      /\ LockAndClose \in AllRest /\ ClosingOrder \in AllRest
  BY DEF AllRest, SwitchRest, ActivateRest
<1>5. CASE op.cmd = "switch" /\ ~op.undoing /\ "stop-host" \in op.done
  <2> DEFINE todo == IF "plist" \in op.done THEN SwitchSteps ELSE W6
  <2>1. UndoSteps = todo
    <3>1. Tail(SwitchSteps) = W6
      BY CommandTails
    <3> QED BY <3>1 DEF UndoSteps
  <2>2. op' = [op EXCEPT !.undoing = TRUE, !.todo = todo] /\ UNCHANGED files
    BY <1>5, <2>1 DEF AfterFailure
  <2>3. todo \in AllRest
    BY <1>4
  <2> HIDE DEF todo
  <2>4. /\ op' \in [cmd : {"none", "enter", "resume", "clear", "switch", "activate"},
                    from : Gen \cup {None}, to : Gen \cup {None}, todo : AllRest,
                    done : {op'.done}, undoing : BOOLEAN]
        /\ op'.cmd = op.cmd /\ op'.from = op.from /\ op'.to = op.to /\ op'.todo = todo /\ op'.undoing
    BY <1>1, <2>2, <2>3
  <2>5. CommandIsTyped'
    BY <1>2, <1>5, <2>4 DEF CommandIsTyped, AllRest
  <2> QED BY <1>2, <1>3, <1>5, <2>2, <2>4, <2>5 DEF todo
<1>6. CASE op.cmd = "activate" /\ "gate" \in op.done /\ "gate-removed" \notin op.done
  <2> DEFINE todo == IF "unlock" \in op.done THEN LockAndClose ELSE ClosingOrder
             gate == IF files.gate = op.from THEN None ELSE files.gate
  <2>1. /\ op' = [op EXCEPT !.done = op.done \cup {"gate-removed"}, !.todo = todo]
        /\ files' = [files EXCEPT !.gate = gate]
    BY <1>6 DEF AfterFailure
  <2>2. todo \in AllRest /\ todo \in {LockAndClose, ClosingOrder}
    BY <1>4
  <2>3. gate \in {files.gate, None}
    OBVIOUS
  <2> HIDE DEF todo, gate
  <2>4. /\ op' \in [cmd : {"none", "enter", "resume", "clear", "switch", "activate"},
                    from : Gen \cup {None}, to : Gen \cup {None}, todo : AllRest,
                    done : {op'.done}, undoing : BOOLEAN]
        /\ op'.cmd = op.cmd /\ op'.from = op.from /\ op'.to = op.to /\ op'.todo = todo
        /\ op'.undoing = op.undoing
    BY <1>1, <2>1, <2>2
  <2>5. CommandIsTyped'
    BY <1>2, <1>6, <2>4 DEF CommandIsTyped, AllRest
  <2>6. files' \in Files /\ files'.marker = files.marker /\ files'.fault = files.fault /\ files'.gate = gate
    BY <1>3, <2>1, <2>3 DEF Files
  <2> QED BY <1>2, <1>6, <2>2, <2>3, <2>4, <2>5, <2>6
<1>7. CASE op' = [op EXCEPT !.todo = <<>>] /\ UNCHANGED files
  <2>1. /\ op' \in [cmd : {"none", "enter", "resume", "clear", "switch", "activate"},
                    from : Gen \cup {None}, to : Gen \cup {None}, todo : AllRest,
                    done : {op'.done}, undoing : BOOLEAN]
        /\ op'.cmd = op.cmd /\ op'.from = op.from /\ op'.to = op.to /\ op'.todo = <<>>
        /\ op'.undoing = op.undoing
    BY <1>1, <1>4, <1>7
  <2>2. CommandIsTyped'
    BY <1>2, <2>1 DEF CommandIsTyped, AllRest
  <2> QED BY <1>2, <1>3, <1>7, <2>1, <2>2
<1> QED BY <1>5, <1>6, <1>7 DEF AfterFailure

LEMMA CommandFailsHolds == ASSUME HostInv, CommandFails PROVE HostInv'
<1>1. /\ op.todo # <<>> /\ UNCHANGED <<lock, sampled, commands>> /\ mishaps' \in 0..MaxMishaps
      /\ host' = IF job.loaded # None /\ job'.loaded = None THEN Down ELSE host
  BY HalfDone
<1>2. AfterFailure
  BY DEF CommandFails
<1>3. /\ op'.cmd = op.cmd /\ op'.from = op.from /\ op'.cmd # "none" /\ CommandIsTyped'
      /\ files' \in Files /\ files'.marker = files.marker /\ files'.fault = files.fault
      /\ files'.gate = files.gate \/ (op.cmd = "activate" /\ files'.gate \in {files.gate, None})
      /\ \/ op'.todo = <<>>
         \/ /\ op.cmd = "switch" /\ ~op.undoing /\ "stop-host" \in op.done /\ op'.undoing
            /\ op'.todo = IF "plist" \in op.done THEN SwitchSteps ELSE W6
         \/ op.cmd = "activate" /\ op'.todo \in {LockAndClose, ClosingOrder}
  BY <1>1, <1>2, GivesUp
<1>4. files'.gate \in {files.gate, None}
  BY <1>3
<1> DEFINE Same == UNCHANGED <<job, box>>
           Unloaded == /\ Head(op.todo) = "stop-host" /\ host.at \in {"idle", "down"}
                       /\ job' = [job EXCEPT !.loaded = None] /\ UNCHANGED box
           Loaded == /\ Head(op.todo) = "start-host"
                     /\ job' = [job EXCEPT !.loaded = Target] /\ UNCHANGED box
           Retired == /\ Head(op.todo) = "retire"
                      /\ box' = [box EXCEPT !["guard"] = Absent] /\ UNCHANGED job
           Made == /\ Head(op.todo) = "create"
                   /\ box' = [box EXCEPT !["origin"] = Created(Target)] /\ UNCHANGED job
<1>5. Same \/ Unloaded \/ Loaded \/ Retired \/ Made
  BY HalfDone
<1> DEFINE Placed == /\ job' \in [plist : Gen \cup {None}, loaded : Gen \cup {None}]
                     /\ box' \in [Role -> Container]
                     /\ host' = host \/ (host' = Down /\ host.at \in {"idle", "down"})
                     /\ host'.at # "down" => job'.loaded = job.loaded
                     /\ \A r \in Role : /\ box'[r].run => box[r].run /\ box'[r].tie = box[r].tie
                                                          /\ box'[r].gen = box[r].gen
                                        /\ box'[r].ready => box'[r].run
                     /\ LoadedRules'
                     /\ Quiet => Quiet'
                     /\ op.cmd # "switch" => UNCHANGED box
                     /\ op.cmd = "switch" /\ Head(op.todo) \notin {"stop-host", "start-host"} => job'.loaded = None
<1>6. ASSUME Same PROVE Placed
  <2>1. LoadedRules'
    BY <1>3, <1>4, <1>6 DEF HostInv, LoadedRules, Agreed, Quiet
  <2>2. Quiet => Quiet'
    BY <1>6 DEF Quiet
  <2>3. op.cmd = "switch" /\ Head(op.todo) \notin {"stop-host", "start-host"} => job'.loaded = None
    BY <1>1, <1>6, Reached
  <2>4. host' = host
    BY <1>1, <1>6
  <2> QED BY <1>6, <2>1, <2>2, <2>3, <2>4, StateFields, BoxFields
<1>7. ASSUME Unloaded PROVE Placed
  <2>1. op.cmd \in {"clear", "switch"}
    BY <1>1, <1>7, StepOf, CommandFields
  <2>2. Quiet
    BY <1>1, <2>1, Reached
  <2>3. job' \in [plist : Gen \cup {None}, loaded : Gen \cup {None}] /\ job'.loaded = None
    BY <1>7, StateFields
  <2>4. Quiet'
    BY <1>7, <2>2 DEF Quiet
  <2>5. LoadedRules'
    BY <2>3, <2>4 DEF LoadedRules
  <2>6. host'.at # "down" => job'.loaded = job.loaded
    BY <1>1, <2>3, DownIsAState
  <2>7. host' = host \/ (host' = Down /\ host.at \in {"idle", "down"})
    BY <1>1, <1>7
  <2> QED BY <1>7, <2>3, <2>4, <2>5, <2>6, <2>7, StateFields, BoxFields
<1>8. ASSUME Loaded PROVE Placed
  <2>1. job.loaded = None /\ Quiet /\ Agreed(Target) /\ Target \in Gen
    BY <1>1, <1>8, LoadingIsRight
  <2>2. job' \in [plist : Gen \cup {None}, loaded : Gen \cup {None}] /\ job'.loaded = Target
    BY <1>8, <2>1, StateFields
  <2>3. Quiet'
    BY <1>8, <2>1 DEF Quiet
  <2>4. LoadedRules'
    BY <1>3, <1>4, <1>8, <2>1, <2>2, <2>3 DEF LoadedRules, Agreed
  <2>5. host' = host /\ host'.at = "down"
    BY <1>1, <2>1, StateFields
  <2> QED BY <1>8, <2>2, <2>3, <2>4, <2>5, StateFields, BoxFields
<1>9. ASSUME Retired \/ Made PROVE Placed
  <2>1. op.cmd = "switch"
    BY <1>1, <1>9, StepOf, CommandFields
  <2>2. job.loaded = None /\ Quiet /\ Target \in Gen
    BY <1>1, <1>9, <2>1, Reached, CommandFields
  <2>3. /\ Absent \in Container /\ ~Absent.run /\ ~Absent.ready
        /\ Created(Target) \in Container /\ ~Created(Target).run /\ ~Created(Target).ready
    BY <2>2 DEF Absent, Created, Container
  <2>4. /\ box' \in [Role -> Container]
        /\ \A r \in Role : /\ box'[r].run => box[r].run /\ box'[r].tie = box[r].tie
                                             /\ box'[r].gen = box[r].gen
                           /\ box'[r].ready => box'[r].run
    <3>1. ASSUME NEW x \in Role, NEW c \in Container, ~c.run, ~c.ready, box' = [box EXCEPT ![x] = c]
          PROVE  /\ box' \in [Role -> Container]
                 /\ \A r \in Role : /\ box'[r].run => box[r].run /\ box'[r].tie = box[r].tie
                                                      /\ box'[r].gen = box[r].gen
                                    /\ box'[r].ready => box'[r].run
      BY <3>1, BoxFields
    <3>2. "guard" \in Role /\ "origin" \in Role
      BY DEF Role
    <3>3. CASE Retired
      BY <2>3, <3>1, <3>2, <3>3
    <3>4. CASE Made
      BY <2>3, <3>1, <3>2, <3>4
    <3> QED BY <1>9, <3>3, <3>4
  <2>5. Quiet'
    BY <2>2, <2>4 DEF Quiet
  <2>6. LoadedRules'
    BY <1>9, <2>2, <2>5 DEF LoadedRules
  <2>7. host' = host /\ job'.loaded = None
    BY <1>1, <1>9, <2>2
  <2> QED BY <1>9, <2>1, <2>2, <2>4, <2>5, <2>6, <2>7, StateFields
<1>10. Placed
  BY <1>5, <1>6, <1>7, <1>8, <1>9
<1> HIDE DEF Same, Unloaded, Loaded, Retired, Made
<1>11. CommandsAreTrue'
  <2>1. ASSUME NEW S, op'.todo = <<>> PROVE ~Next1(S)'
    BY <2>1 DEF Next1
  <2>2. CASE op.cmd = "enter"
    <3>1. lock = "operator" /\ IdentityValid(op.from) /\ op'.todo = <<>>
      BY <1>1, <1>3, <2>2, Reached
    <3>2. IdentityValid(op.from)'
      BY <1>3, <1>10, <2>2, <3>1 DEF IdentityValid, Trusted
    <3>3. EnterIsTrue'
      BY <1>1, <3>1, <3>2 DEF EnterIsTrue, EnterRest
    <3> QED BY <1>3, <2>2, <3>3, NotOthers DEF CommandsAreTrue
  <2>3. CASE op.cmd = "resume"
    <3>1. lock = "operator" /\ op'.todo = <<>>
      BY <1>1, <1>3, <2>3, Reached
    <3>2. ResumeIsTrue'
      BY <1>1, <3>1 DEF ResumeIsTrue, ResumeRest
    <3> QED BY <1>3, <2>3, <3>2, NotOthers DEF CommandsAreTrue
  <2>4. CASE op.cmd = "clear"
    <3>1. /\ lock = "operator" /\ IdentityValid(op.from) /\ op'.todo = <<>> /\ Quiet
          /\ files.gate = op.from /\ files.marker = op.from
      BY <1>1, <1>3, <2>4, Reached
    <3>2. IdentityValid(op.from)' /\ Quiet'
      BY <1>3, <1>10, <2>4, <3>1 DEF IdentityValid, Trusted
    <3>3. files'.gate = op'.from /\ files'.marker = op'.from
      BY <1>3, <2>4, <3>1
    <3>4. ClearIsTrue'
      BY <1>1, <2>1, <3>1, <3>2, <3>3 DEF ClearIsTrue, ClearRest
    <3> QED BY <1>3, <2>4, <3>4, NotOthers DEF CommandsAreTrue
  <2>5. CASE op.cmd = "switch"
    <3>1. lock' = "operator" /\ Quiet'
      BY <1>1, <1>10, <2>5, Reached
    <3>2. CASE op'.todo = <<>>
      <4>1. SwitchIsTrue'
        BY <2>1, <3>1, <3>2 DEF SwitchIsTrue, SwitchRest
      <4> QED BY <1>3, <2>5, <4>1, NotOthers DEF CommandsAreTrue
    <3>3. CASE /\ ~op.undoing /\ "stop-host" \in op.done /\ op'.undoing
               /\ op'.todo = IF "plist" \in op.done THEN SwitchSteps ELSE W6
      <4>1. op'.todo \in {SwitchSteps, W6} /\ op'.todo \in SwitchRest
        BY <3>3 DEF SwitchRest
      <4>2. /\ ~Next1({"marker", "gate", "plist", "start-host"})' /\ ~Next1({"gate", "plist", "start-host"})'
            /\ ~Next1({"plist", "start-host"})'
        BY <4>1, CommandTails DEF Next1
      <4>3. Next1({"retire", "create", "marker", "gate", "plist", "start-host"})' => job'.loaded = None
        <5>1. CASE "plist" \in op.done
          <6>1. Head(SwitchSteps) = "stop-host"
            BY CommandTails
          <6>2. Head(op'.todo) = "stop-host"
            BY <3>3, <5>1, <6>1
          <6> QED BY <6>2 DEF Next1
        <5>2. CASE "plist" \notin op.done
          <6>1. Head(op.todo) \notin {"stop-host", "start-host"}
            BY <1>1, <2>5, <3>3, <5>2, Reached
          <6> QED BY <1>10, <2>5, <6>1
        <5> QED BY <5>1, <5>2
      <4>4. SwitchIsTrue'
        BY <3>1, <3>3, <4>1, <4>2, <4>3 DEF SwitchIsTrue
      <4> QED BY <1>3, <2>5, <4>4, NotOthers DEF CommandsAreTrue
    <3> QED BY <1>3, <2>5, <3>2, <3>3
  <2>6. CASE op.cmd = "activate"
    <3>1. op'.todo \in {<<>>, LockAndClose, ClosingOrder}
      BY <1>3, <2>6
    <3>2. /\ ~Next1({"plist", "gate", "start-host", "unlock"})' /\ ~Next1({"plist", "gate", "start-host"})'
          /\ ~Next1({"start-host"})'
      BY <3>1, CommandTails DEF Next1
    <3>3. ActivateIsTrue'
      BY <3>1, <3>2 DEF ActivateIsTrue, ActivateRest
    <3> QED BY <1>3, <2>6, <3>3, NotOthers DEF CommandsAreTrue
  <2> QED BY <1>1, <2>2, <2>3, <2>4, <2>5, <2>6, CommandFields
<1> QED BY <1>1, <1>3, <1>10, <1>11, OperatorWorks

-----------------------------------------------------------------------------
(* The invariant.                                                           *)

LEMMA HostBegins == HostInit => HostInv
<1> SUFFICES ASSUME HostInit PROVE HostInv
  OBVIOUS
<1>1. /\ lock = None /\ host = Down /\ op = NoCommand /\ sampled = None /\ mishaps = 0 /\ commands = 0
  BY DEF HostInit
<1>2. PICK g \in Gen :
         \/ /\ files = [gate |-> None, marker |-> None, fault |-> None]
            /\ job = [plist |-> None, loaded |-> None]
            /\ box = [r \in Role |-> Created(g)]
         \/ /\ files = [gate |-> g, marker |-> None, fault |-> None]
            /\ job = [plist |-> g, loaded |-> g]
            /\ box = [r \in Role |-> [gen |-> g, run |-> TRUE, ready |-> TRUE, tie |-> "live"]]
         \/ \E f \in {g, None} :
            /\ files = [gate |-> g, marker |-> g, fault |-> f]
            /\ job = [plist |-> g, loaded |-> g]
            /\ box = [r \in Role |-> [Created(g) EXCEPT !.tie = "live"]]
  BY DEF HostInit
<1>3. op.cmd = "none" /\ op.todo = <<>>
  BY <1>1 DEF NoCommand
<1>4. CommandIsTyped
  BY <1>1, <1>3 DEF CommandIsTyped, NoCommand, EnterRest
<1>5. CommandsAreTrue
  BY <1>3 DEF CommandsAreTrue, EnterIsTrue, ResumeIsTrue, ClearIsTrue, SwitchIsTrue, ActivateIsTrue
<1>6. host \in HostStates /\ host.at = "down" /\ host.age = None /\ host.kept = {}
  BY <1>1, DownIsAState DEF Down
<1>7. HostIsTyped
  BY <1>1, <1>6 DEF HostIsTyped
<1>8. SampleHolds /\ RecoveryIsAllowed
  BY <1>6 DEF SampleHolds, RecoveryIsAllowed
<1>9. mishaps \in 0..MaxMishaps /\ commands \in 0..MaxCommands
  BY <1>1, HostAssumption
<1>10. /\ files \in Files /\ job \in [plist : Gen \cup {None}, loaded : Gen \cup {None}]
       /\ box \in [Role -> Container]
       /\ \A r \in Role : /\ box[r].gen = g /\ (box[r].ready => box[r].run)
                          /\ box[r].run => box[r].tie # "old" /\ job.loaded # None
       /\ files.gate \in {g, None} /\ files.marker \in {g, None} /\ job.loaded \in {g, None}
  <2>1. CASE /\ files = [gate |-> None, marker |-> None, fault |-> None]
             /\ job = [plist |-> None, loaded |-> None]
             /\ box = [r \in Role |-> Created(g)]
    BY <2>1 DEF Files, Container, Created
  <2>2. CASE /\ files = [gate |-> g, marker |-> None, fault |-> None]
             /\ job = [plist |-> g, loaded |-> g]
             /\ box = [r \in Role |-> [gen |-> g, run |-> TRUE, ready |-> TRUE, tie |-> "live"]]
    BY <2>2, HostAssumption DEF Files, Container
  <2>3. CASE \E f \in {g, None} :
             /\ files = [gate |-> g, marker |-> g, fault |-> f]
             /\ job = [plist |-> g, loaded |-> g]
             /\ box = [r \in Role |-> [Created(g) EXCEPT !.tie = "live"]]
    <3>1. PICK f \in {g, None} : files = [gate |-> g, marker |-> g, fault |-> f]
      BY <2>3
    <3>2. job = [plist |-> g, loaded |-> g] /\ box = [r \in Role |-> [Created(g) EXCEPT !.tie = "live"]]
      BY <2>3
    <3>3. ASSUME NEW r \in Role
          PROVE  box[r] = [gen |-> g, run |-> FALSE, ready |-> FALSE, tie |-> "live"]
      BY <3>2 DEF Created
    <3>4. box \in [Role -> Container]
      BY <3>2, <3>3 DEF Container
    <3>5. files \in Files /\ files.gate = g /\ files.marker = g
      BY <3>1 DEF Files
    <3>6. job \in [plist : Gen \cup {None}, loaded : Gen \cup {None}] /\ job.loaded = g /\ g # None
      BY <3>2, HostAssumption
    <3> QED BY <3>3, <3>4, <3>5, <3>6
  <2> QED BY <1>2, <2>1, <2>2, <2>3
<1>11. HostTypeOK
  BY <1>1, <1>6, <1>9, <1>10, HostAssumption DEF HostTypeOK
<1>12. LoadedRules
  BY <1>10 DEF LoadedRules, Agreed, Quiet
<1>13. ContainersAreTrue
  BY <1>10, HostAssumption DEF ContainersAreTrue, Dependants, Role
<1> QED BY <1>4, <1>5, <1>7, <1>8, <1>11, <1>12, <1>13 DEF HostInv

LEMMA HostGoesOn == ASSUME HostInv, HostNext PROVE HostInv'
<1>1. CASE HostSteps
  BY <1>1, HostStartsHolds, ReadGateHolds, TakeLockHolds, DisabledHolds, InMaintenanceHolds, DockerAwayHolds,
     IdentityNeedsAttentionHolds, ActivationNeedsAttentionHolds, StorageStopsHolds, StorageUnavailableHolds,
     LowDiskHolds, StorageGoodHolds, HostStopsHolds, HostStartsContainerHolds, HostChecksHolds,
     HostUnlocksHolds DEF HostSteps
<1>2. CASE CommandSteps
  BY <1>2, SetMarkerHolds, SetGateHolds, SetPlistHolds, CommandStopsHolds, CommandVerifiesHolds,
     RemoveMarkerHolds, ArchiveFaultHolds, StopHostHolds, StartHostHolds, RetireHolds, CreateStoppedHolds,
     LockStepsHold, CommandFailsHolds, CommandLeavesHolds DEF CommandSteps
<1>3. CASE HostKilled \/ CommandKilled \/ BackoffEnds \/ Passes
  BY <1>3, HostKilledHolds, CommandLeavesHolds, BackoffEndsHolds, PassesHolds
<1>4. CASE \E r \in Role : TurnsReady(r) \/ Falters(r) \/ Removed(r)
  BY <1>4, TurnsReadyHolds, FaltersHolds, RemovedHolds
<1>5. CASE \E g, h \in Gen : Enter(g) \/ Resume(g) \/ Clear(g) \/ Switch(g, h) \/ Activate(g)
  BY <1>5, EnterHolds, ResumeHolds, ClearHolds, SwitchHolds, ActivateHolds
<1> QED BY <1>1, <1>2, <1>3, <1>4, <1>5 DEF HostNext

LEMMA HostStutters == ASSUME HostInv, UNCHANGED hostVars PROVE HostInv'
<1>1. UNCHANGED <<lock, files, job, box, host, op, sampled, mishaps, commands>>
  BY DEF hostVars
<1>2. HostTypeOK' /\ HostIsTyped'
  BY <1>1 DEF HostInv, HostTypeOK, HostIsTyped
<1>3. CommandIsTyped' /\ CommandsAreTrue'
  <2>1. (\A r \in Role : box'[r].gen = box[r].gen) /\ (Quiet => Quiet')
    BY <1>1 DEF Quiet
  <2> QED BY <1>1, <2>1, CommandsKept DEF HostInv
<1>4. LoadedRules' /\ ContainersAreTrue' /\ SampleHolds' /\ RecoveryIsAllowed'
  BY <1>1 DEF HostInv, LoadedRules, Agreed, Quiet, ContainersAreTrue, SampleHolds, RecoveryIsAllowed
<1> QED BY <1>2, <1>3, <1>4 DEF HostInv

\* The lock keeps host and commands apart at every step, so that what a decision
\* or a command found when it began still holds at each step it takes
\* (operation-lock.mjs, production-host.mjs, switch-managed-host.mjs).
THEOREM HostInvariance == MCSpec => []HostInv
<1>1. MCInit => HostInv
  BY HostBegins DEF MCInit
<1>2. HostInv /\ [HostNext]_hostVars => HostInv'
  BY HostGoesOn, HostStutters
<1> QED BY <1>1, <1>2, PTL DEF MCSpec

\* One release runs at a time, the one its gate and its marker name, and without
\* an observation the services go on only on a sample of these very containers
\* that is younger than the grace period (runtime-controller.mjs,
\* generation-switch.mjs).
THEOREM OneReleaseHolds == MCSpec => []OneReleaseRuns
<1>1. HostInv => OneReleaseRuns
  <2> SUFFICES ASSUME HostInv PROVE OneReleaseRuns
    OBVIOUS
  <2>1. HostTypeOK
    BY DEF HostInv
  <2>2. OneRelease
    <3>1. ASSUME NEW r \in Role, NEW q \in Role, box[r].run
          PROVE  /\ box[q].gen \in {box[r].gen, None}
                 /\ files.gate \in {box[r].gen, None} /\ files.marker \in {box[r].gen, None}
      <4>1. job.loaded # None
        BY <3>1 DEF HostInv, LoadedRules, Quiet
      <4>2. Agreed(job.loaded) /\ box[r].gen # None
        BY <3>1, <4>1, BoxFields DEF HostInv, LoadedRules
      <4> QED BY <4>2 DEF Agreed
    <3> QED BY <3>1 DEF OneRelease
  <2>3. GraceRestsOnASample
    <3>1. Sound => \A r \in Dependants : box[r].run /\ box[r].tie # "lost"
      BY BoxFields DEF Sound, Healthy, NamespaceValid, Dependants, Role
    <3> QED BY <3>1 DEF HostInv, SampleHolds, GraceRestsOnASample
  <2> QED BY <2>1, <2>2, <2>3 DEF OneReleaseRuns
<1> QED BY <1>1, HostInvariance, PTL

-----------------------------------------------------------------------------
(* What no step does.                                                       *)

LEMMA OnlyTheHostStarts ==
    ASSUME HostInv, HostNext, ~HostStartsContainer, NEW r \in Role, box'[r].run
    PROVE  box[r].run
<1>1. CASE UNCHANGED box
  BY <1>1
<1>2. CASE HostStops
  <2> DEFINE x == Here
  <2>1. box' \in {box, Stopped(x)}
    BY <1>2 DEF HostStops, StepFails
  <2> HIDE DEF x
  <2> QED BY <2>1, BoxFields DEF Stopped, Container
<1>3. CASE HostChecks
  BY <1>3 DEF HostChecks, StepFails
<1>4. CASE \E x \in Role : TurnsReady(x) \/ Falters(x)
  BY <1>4, BoxFields DEF TurnsReady, Falters, Stopped, Container
<1>5. CASE \E x \in Role : Removed(x)
  <2>1. PICK x \in Role : box' = [y \in Role |-> IF y = x THEN Absent
                                   ELSE IF x = "origin" THEN [box[y] EXCEPT !.tie = "lost"] ELSE box[y]]
    BY <1>5 DEF Removed
  <2>2. box[r] \in Container
    BY BoxFields
  <2>3. CASE r = x
    BY <2>1, <2>3 DEF Absent
  <2>4. CASE r # x /\ x = "origin"
    <3>1. box'[r] = [box[r] EXCEPT !.tie = "lost"]
      BY <2>1, <2>4
    <3> QED BY <2>2, <3>1 DEF Container
  <2>5. CASE r # x /\ x # "origin"
    BY <2>1, <2>5
  <2> QED BY <2>3, <2>4, <2>5
<1>6. CASE CommandStops
  <2>1. PICK x \in Role : box' \in {box, Stopped(x)}
    BY <1>6 DEF CommandStops
  <2> QED BY <2>1, BoxFields DEF Stopped, Container
<1>7. CASE Retire \/ CreateStopped
  BY <1>7 DEF Retire, CreateStopped, Absent, Created
<1>8. CASE CommandFails
  <2>1. box' \in {box, [box EXCEPT !["guard"] = Absent], [box EXCEPT !["origin"] = Created(Target)]}
    BY <1>8, HalfDone
  <2>2. ~Absent.run /\ ~Created(Target).run
    BY DEF Absent, Created
  <2> QED BY <2>1, <2>2, BoxFields
<1>9. CASE HostStarts \/ ReadGate \/ TakeLock \/ HostUnlocks \/ HostKilled \/ BackoffEnds \/ Passes
  BY <1>9 DEF HostStarts, ReadGate, TakeLock, HostUnlocks, HostKilled, BackoffEnds, Passes
<1>10. CASE \/ Disabled \/ InMaintenance \/ DockerAway \/ IdentityNeedsAttention
            \/ ActivationNeedsAttention \/ StorageStops \/ StorageUnavailable \/ LowDisk \/ StorageGood
  BY <1>10 DEF Disabled, InMaintenance, DockerAway, IdentityNeedsAttention, ActivationNeedsAttention,
     StorageStops, StorageUnavailable, LowDisk, StorageGood, Allowed, Controls, Deciding
<1>11. CASE \/ SetMarker \/ SetGate \/ SetPlist \/ CommandVerifies \/ RemoveMarker \/ ArchiveFault
            \/ StopHost \/ StartHost \/ Unlock \/ Await \/ LockAgain \/ CommandEnds \/ CommandKilled
  BY <1>11 DEF SetMarker, SetGate, SetPlist, CommandVerifies, RemoveMarker, ArchiveFault, StopHost,
     StartHost, Unlock, Await, LockAgain, CommandEnds, CommandKilled, Alone
<1>12. CASE \E g, h \in Gen : Enter(g) \/ Resume(g) \/ Clear(g) \/ Switch(g, h) \/ Activate(g)
  BY <1>12 DEF Enter, Resume, Clear, Switch, Activate, Command
<1> QED
  BY <1>1, <1>2, <1>3, <1>4, <1>5, <1>6, <1>7, <1>8, <1>9, <1>10, <1>11, <1>12
     DEF HostNext, HostSteps, CommandSteps

LEMMA AllowedStart ==
    ASSUME HostInv, HostNext, NEW r \in Role, ~box[r].run, box'[r].run
    PROVE  /\ lock = "host" /\ files.marker = None /\ files.fault = None /\ ~host.fault
           /\ r \in Dependants => box["origin"].gen = host.gen
<1>1. HostStartsContainer
  BY OnlyTheHostStarts
<1>2. host.at = "acting" /\ host.todo # <<>> /\ Head(host.todo)[1] = "start"
  BY <1>1 DEF HostStartsContainer, Step
<1>3. host.todo \in Recovery
  <2>1. ASSUME NEW x \in Role, Head(host.todo) = <<"stop", x>> PROVE FALSE
    BY <1>2, <2>1
  <2> QED BY <1>2, <2>1, StopsHead
<1>4. files.marker = None /\ files.fault = None /\ ~host.fault /\ lock = "host" /\ host.gen = job.loaded
  BY <1>2, <1>3, ActingFields DEF HostInv, RecoveryIsAllowed
<1>5. CASE Here \in Dependants
  <2>1. box' # box
    OBVIOUS
  <2>2. box["origin"].gen # None \/ IdentityValid(host.gen)
    BY <1>1, <1>5, <2>1 DEF HostStartsContainer, StepFails
  <2>3. box["origin"].gen \in {host.gen, None}
    BY <1>4, HostFields, <1>2 DEF HostInv, LoadedRules, Agreed, Role
  <2>4. IdentityValid(host.gen) => box["origin"].gen = host.gen
    BY DEF IdentityValid, Trusted, Role
  <2> QED BY <1>4, <2>2, <2>3, <2>4
<1>6. CASE Here \notin Dependants
  <2>1. Here = "origin"
    BY <1>2, <1>3, <1>6, RecoveryKinds DEF Here, Dependants
  <2>2. PICK replaced \in BOOLEAN : box' = Started("origin", host.gen, replaced) \/ box' = box
    BY <1>1, <2>1 DEF HostStartsContainer, StepFails
  <2>3. ASSUME r # "origin" PROVE FALSE
    <3>1. box' = Started("origin", host.gen, replaced)
      BY <2>2
    <3>2. box'[r] = [box[r] EXCEPT !.tie = IF replaced THEN "lost" ELSE IF @ = "live" THEN "old" ELSE @]
      BY <2>3, <3>1 DEF Started
    <3>3. box[r] \in Container
      BY BoxFields
    <3>4. box'[r].run = box[r].run
      BY <3>2, <3>3 DEF Container
    <3> QED BY <3>4
  <2> QED BY <1>4, <2>3 DEF Dependants
<1> QED BY <1>5, <1>6

LEMMA PausesStay ==
    ASSUME HostInv, HostNext, ~RemoveMarker, ~ArchiveFault
    PROVE  /\ files'.marker = None => files.marker = None
           /\ files'.fault = None => files.fault = None
<1>1. CASE UNCHANGED files
  BY <1>1
<1>2. CASE StorageStops
  <2>1. files' = files \/ files' = [files EXCEPT !.fault = host.gen]
    BY <1>2 DEF StorageStops
  <2>2. host.gen \in Gen /\ files \in Files
    BY <1>2, DecidingFields DEF StorageStops, Allowed, Controls
  <2>3. host.gen # None
    BY <2>2, HostAssumption
  <2> QED BY <2>1, <2>2, <2>3 DEF Files
<1>3. CASE SetMarker
  <2>1. files' = [files EXCEPT !.marker = Target] /\ files \in Files /\ op.todo # <<>>
    BY <1>3, StateFields DEF SetMarker, At
  <2>2. Target # None
    BY <2>1, CommandFields
  <2> QED BY <2>1, <2>2 DEF Files
<1>4. CASE SetGate
  <2>1. files' = [files EXCEPT !.gate = Target] /\ files \in Files
    BY <1>4, StateFields DEF SetGate
  <2> QED BY <2>1 DEF Files
<1>5. CASE CommandFails
  <2>1. AfterFailure /\ op.todo # <<>>
    BY <1>5 DEF CommandFails
  <2> QED BY <2>1, GivesUp
<1>6. CASE \/ HostStarts \/ ReadGate \/ TakeLock \/ HostUnlocks \/ HostKilled \/ BackoffEnds \/ Passes
           \/ HostStops \/ HostStartsContainer \/ HostChecks
  BY <1>6 DEF HostStarts, ReadGate, TakeLock, HostUnlocks, HostKilled, BackoffEnds, Passes,
     HostStops, HostStartsContainer, HostChecks
<1>7. CASE \/ Disabled \/ InMaintenance \/ DockerAway \/ IdentityNeedsAttention
           \/ ActivationNeedsAttention \/ StorageUnavailable \/ LowDisk \/ StorageGood
  BY <1>7 DEF Disabled, InMaintenance, DockerAway, IdentityNeedsAttention, ActivationNeedsAttention,
     StorageUnavailable, LowDisk, StorageGood
<1>8. CASE \/ SetPlist \/ CommandStops \/ CommandVerifies \/ StopHost \/ StartHost \/ Retire \/ CreateStopped
           \/ Unlock \/ Await \/ LockAgain \/ CommandEnds \/ CommandKilled
  BY <1>8 DEF SetPlist, CommandStops, CommandVerifies, StopHost, StartHost, Retire, CreateStopped,
     Unlock, Await, LockAgain, CommandEnds, CommandKilled, Alone
<1>9. CASE \E x \in Role : TurnsReady(x) \/ Falters(x) \/ Removed(x)
  BY <1>9 DEF TurnsReady, Falters, Removed
<1>10. CASE \E g, h \in Gen : Enter(g) \/ Resume(g) \/ Clear(g) \/ Switch(g, h) \/ Activate(g)
  BY <1>10 DEF Enter, Resume, Clear, Switch, Activate, Command
<1> QED
  BY <1>1, <1>2, <1>3, <1>4, <1>5, <1>6, <1>7, <1>8, <1>9, <1>10 DEF HostNext, HostSteps, CommandSteps

LEMMA ReviewedEnd ==
    ASSUME HostInv, HostNext
    PROVE  /\ files.marker # None /\ files'.marker = None =>
                 files.gate = files.marker /\ files.fault = None /\ Trusted(files.marker) = Role
           /\ files.fault # None /\ files'.fault = None =>
                 files.marker # None /\ Quiet /\ host = Down /\ job.loaded = None
<1>1. CASE RemoveMarker
  <2>1. op.todo # <<>> /\ Head(op.todo) = "unmark" /\ files' = [files EXCEPT !.marker = None]
    BY <1>1 DEF RemoveMarker, At
  <2>2. CanResume(op.from)
    BY <2>1, StepOf, CommandFields, Reached
  <2>3. files.fault = None /\ files.gate = files.marker /\ files.marker = op.from
    BY <2>2 DEF CanResume
  <2> QED BY <2>2, <2>3 DEF CanResume, IdentityValid
<1>2. CASE ArchiveFault
  <2>1. op.todo # <<>> /\ Head(op.todo) = "archive" /\ files' = [files EXCEPT !.fault = None] /\ files \in Files
    BY <1>2, StateFields DEF ArchiveFault, At
  <2>2. op.cmd = "clear"
    BY <2>1, StepOf, CommandFields
  <2>3. files.marker = op.from /\ Quiet /\ job.loaded = None /\ op.from # None
    BY <2>1, <2>2, Reached, CommandFields
  <2>4. host = Down
    BY <2>3 DEF HostInv, HostIsTyped
  <2>5. files'.marker = files.marker
    BY <2>1 DEF Files
  <2> QED BY <2>3, <2>4, <2>5
<1>3. CASE ~RemoveMarker /\ ~ArchiveFault
  BY <1>3, PausesStay
<1> QED BY <1>1, <1>2, <1>3

LEMMA SoundIsReal ==
    ASSUME HostInv, Sound
    PROVE  \A r \in Role : box[r].ready /\ (r \in Dependants => box[r].tie = "live")
<1>1. \A r \in Role : box[r].ready /\ box[r].run
  BY BoxFields DEF Sound, Healthy
<1>2. ASSUME NEW r \in Dependants PROVE box[r].tie = "live"
  <2>1. r \in Role /\ "origin" \in Role
    BY DEF Dependants, Role
  <2>2. box[r].tie # "lost"
    BY DEF Sound, NamespaceValid
  <2>3. box[r].tie # "old"
    BY <1>1, <2>1 DEF HostInv, ContainersAreTrue
  <2>4. box[r] \in Container
    BY <2>1, BoxFields
  <2> QED BY <2>2, <2>3, <2>4 DEF Container
<1> QED BY <1>1, <1>2

LEMMA ResolvedResult ==
    ASSUME NEW h, "result" \in DOMAIN h, NEW result, NEW todo, Resolved(h, result, todo)
    PROVE  host'.result = result
  BY DEF Resolved

LEMMA WakingDomains ==
    ASSUME HostInv
    PROVE  /\ "result" \in DOMAIN host /\ "result" \in DOMAIN Awake /\ "result" \in DOMAIN Forgetful(Awake)
           /\ \A slow \in 0..1 : "result" \in DOMAIN Settled(Awake, slow)
<1>1. "result" \in DOMAIN host
  BY HostFields DEF HostStates
<1>2. "result" \in DOMAIN Awake
  BY <1>1 DEF Awake
<1>3. "result" \in DOMAIN Forgetful(Awake)
  BY <1>2 DEF Forgetful
<1>4. ASSUME NEW slow \in 0..1 PROVE "result" \in DOMAIN Settled(Awake, slow)
  <2> DEFINE later == [Awake EXCEPT !.age = Aged(@, slow)]
  <2>1. "result" \in DOMAIN later
    BY <1>2
  <2>2. Settled(Awake, slow) = IF Sound THEN later ELSE Forgetful(later)
    BY DEF Settled
  <2> HIDE DEF later
  <2> QED BY <2>1, <2>2 DEF Forgetful
<1> QED BY <1>1, <1>2, <1>3, <1>4

LEMMA RecoveriesAreUnwell ==
    ASSUME NEW h, "result" \in DOMAIN h, Recover(h)
    PROVE  host'.result # "healthy"
<1>1. CASE Resolved(h, "guard-unready", <<>>)
  BY <1>1, ResolvedResult
<1>2. CASE Resolved(h, "backoff", <<>>)
  BY <1>2, ResolvedResult
<1>3. CASE Resolved([h EXCEPT !.backoff = TRUE], "recovering", RecoverySteps)
  <2> DEFINE b == [h EXCEPT !.backoff = TRUE]
  <2>1. "result" \in DOMAIN b /\ Resolved(b, "recovering", RecoverySteps)
    BY <1>3
  <2> HIDE DEF b
  <2>2. host'.result = "recovering"
    BY <2>1, ResolvedResult
  <2> QED BY <2>2
<1> QED BY <1>1, <1>2, <1>3 DEF Recover

LEMMA UnwellDecisions ==
    ASSUME HostInv,
           \/ Disabled \/ InMaintenance \/ DockerAway \/ IdentityNeedsAttention
           \/ ActivationNeedsAttention \/ StorageStops \/ StorageUnavailable
    PROVE  host'.result # "healthy"
<1>1. CASE Disabled
  <2>1. PICK todo : Resolved(host, "disabled", todo)
    BY <1>1 DEF Disabled
  <2> QED BY <2>1, WakingDomains, ResolvedResult
<1>2. CASE InMaintenance
  <2>1. host'.result = "maintenance"
    BY <1>2, WakingDomains, ResolvedResult DEF InMaintenance
  <2> QED BY <2>1
<1>3. CASE DockerAway
  <2>1. host'.result = "waiting"
    BY <1>3, WakingDomains, ResolvedResult DEF DockerAway
  <2> QED BY <2>1
<1>4. CASE IdentityNeedsAttention
  <2>1. PICK todo : Resolved(Forgetful(Awake), "identity", todo)
    BY <1>4 DEF IdentityNeedsAttention
  <2>2. host'.result = "identity"
    BY <2>1, WakingDomains, ResolvedResult
  <2> QED BY <2>2
<1>5. CASE ActivationNeedsAttention
  <2>1. PICK slow \in 0..1 : Resolved([Awake EXCEPT !.age = Aged(@, slow)], "activation", StopSteps(Dependants))
    BY <1>5 DEF ActivationNeedsAttention
  <2> DEFINE h == [Awake EXCEPT !.age = Aged(@, slow)]
  <2>2. "result" \in DOMAIN h /\ Resolved(h, "activation", StopSteps(Dependants))
    BY <2>1, WakingDomains
  <2> HIDE DEF h
  <2>3. host'.result = "activation"
    BY <2>2, ResolvedResult
  <2> QED BY <2>3
<1>6. CASE StorageStops
  <2>1. PICK slow \in 0..1, fault \in {TRUE, Awake.fault} :
           Resolved([Awake EXCEPT !.fault = fault, !.paused = TRUE, !.age = Aged(@, slow)],
                    IF fault THEN "fault-latched" ELSE "low-disk", StopSteps(Role))
    <3>1. PICK disk \in {"none", "fault", "stop", "hold"}, slow \in 0..1 :
             Resolved([Awake EXCEPT !.fault = Awake.fault \/ disk = "fault", !.paused = TRUE, !.age = Aged(@, slow)],
                      IF Awake.fault \/ disk = "fault" THEN "fault-latched" ELSE "low-disk", StopSteps(Role))
      BY <1>6 DEF StorageStops
    <3>2. Awake.fault \in BOOLEAN
      BY AwakeState DEF HostStates
    <3>3. (Awake.fault \/ disk = "fault") \in {TRUE, Awake.fault}
      BY <3>2
    <3> QED BY <3>1, <3>3
  <2> DEFINE h == [Awake EXCEPT !.fault = fault, !.paused = TRUE, !.age = Aged(@, slow)]
             word == IF fault THEN "fault-latched" ELSE "low-disk"
  <2>2. "result" \in DOMAIN h /\ Resolved(h, word, StopSteps(Role)) /\ word # "healthy"
    BY <2>1, WakingDomains
  <2> HIDE DEF h, word
  <2> QED BY <2>2, ResolvedResult
<1>7. CASE StorageUnavailable
  <2>1. PICK slow \in 0..1 :
           \/ Resolved([Awake EXCEPT !.age = Aged(host.age, slow)], "grace", <<>>)
           \/ Resolved([Forgetful(Awake) EXCEPT !.paused = TRUE], "observation-paused", StopSteps(Role))
    BY <1>7 DEF StorageUnavailable
  <2> DEFINE h == [Awake EXCEPT !.age = Aged(host.age, slow)]
             k == [Forgetful(Awake) EXCEPT !.paused = TRUE]
  <2>2. "result" \in DOMAIN h /\ "result" \in DOMAIN k
    BY WakingDomains
  <2>3. Resolved(h, "grace", <<>>) \/ Resolved(k, "observation-paused", StopSteps(Role))
    BY <2>1
  <2> HIDE DEF h, k
  <2>4. host'.result \in {"grace", "observation-paused"}
    BY <2>2, <2>3, ResolvedResult
  <2> QED BY <2>4
<1> QED BY <1>1, <1>2, <1>3, <1>4, <1>5, <1>6, <1>7

LEMMA GoodDecisions ==
    ASSUME HostInv, LowDisk \/ StorageGood, host'.result = "healthy"
    PROVE  Sound
<1> SUFFICES ASSUME ~Sound PROVE FALSE
  OBVIOUS
<1>1. CASE LowDisk
  <2>1. PICK slow \in 0..1 :
           Resolved(Settled(Awake, slow), "no-restart", <<>>) \/ Recover(Settled(Awake, slow))
    BY <1>1 DEF LowDisk
  <2>2. "result" \in DOMAIN Settled(Awake, slow)
    BY WakingDomains
  <2> DEFINE h == Settled(Awake, slow)
  <2> HIDE DEF h
  <2>3. "result" \in DOMAIN h /\ (Resolved(h, "no-restart", <<>>) \/ Recover(h))
    BY <2>1, <2>2 DEF h
  <2>4. CASE Resolved(h, "no-restart", <<>>)
    <3>1. host'.result = "no-restart"
      BY <2>3, <2>4, ResolvedResult
    <3> QED BY <3>1
  <2>5. CASE Recover(h)
    BY <2>3, <2>5, RecoveriesAreUnwell
  <2> QED BY <2>3, <2>4, <2>5
<1>2. CASE StorageGood
  <2>1. PICK slow \in 0..1 : Recover(Settled(Awake, slow))
    BY <1>2 DEF StorageGood
  <2>2. "result" \in DOMAIN Settled(Awake, slow)
    BY WakingDomains
  <2> QED BY <2>1, <2>2, RecoveriesAreUnwell
<1> QED BY <1>1, <1>2

LEMMA StepsReport ==
    ASSUME HostInv, HostStops \/ HostStartsContainer \/ HostChecks,
           host'.result = "healthy", host.result # "healthy"
    PROVE  Sound
<1> SUFFICES ASSUME ~Sound PROVE FALSE
  OBVIOUS
<1>1. host.at = "acting" /\ host.todo # <<>>
  BY DEF HostStops, HostStartsContainer, HostChecks, Step
<1>2. host \in HostStates
  BY <1>1, ActingFields
<1>3. ASSUME NEW b, StepFails(b) PROVE FALSE
  BY <1>1, <1>3, Failing
<1>4. ASSUME Advance(host) PROVE FALSE
  BY <1>1, <1>2, <1>4, Advancing
<1>5. ASSUME NEW kept \in SUBSET Role, Advance([host EXCEPT !.kept = kept]) PROVE FALSE
  <2> DEFINE h == [host EXCEPT !.kept = kept]
  <2>1. h \in HostStates /\ h.todo = host.todo /\ h.result = host.result
    BY <1>2 DEF HostStates
  <2>2. Advance(h)
    BY <1>5
  <2> HIDE DEF h
  <2>3. host'.result = host.result
    BY <1>1, <2>1, <2>2, Advancing
  <2> QED BY <2>3
<1>6. CASE HostStops
  BY <1>3, <1>4, <1>6 DEF HostStops
<1>7. CASE HostStartsContainer
  <2>1. PICK kept \in {host.kept, host.kept \ {Here}} :
           Advance([host EXCEPT !.kept = kept]) \/ \E b : StepFails(b)
    BY <1>7 DEF HostStartsContainer
  <2>2. kept \in SUBSET Role
    BY <1>2 DEF HostStates
  <2> QED BY <1>3, <1>5, <2>1, <2>2
<1>8. CASE HostChecks
  BY <1>3, <1>4, <1>8 DEF HostChecks
<1> QED BY <1>6, <1>7, <1>8

LEMMA PraiseIsReal ==
    ASSUME HostInv, HostNext, host'.result = "healthy", host.result # "healthy"
    PROVE  \A r \in Role : box[r].ready /\ (r \in Dependants => box[r].tie = "live")
<1> SUFFICES Sound
  BY SoundIsReal
<1>1. host \in HostStates /\ "result" \in DOMAIN host
  BY HostFields, WakingDomains
<1>2. ASSUME UNCHANGED host PROVE FALSE
  BY <1>2
<1>3. ASSUME host' = Down PROVE FALSE
  BY <1>3 DEF Down
<1>4. CASE HostStarts \/ HostKilled \/ StopHost
  <2>1. CASE HostStarts
    <3>1. host'.result = "none"
      BY <2>1 DEF HostStarts, Down
    <3> QED BY <3>1
  <2>2. CASE HostKilled \/ StopHost
    BY <1>3, <2>2 DEF HostKilled, StopHost
  <2> QED BY <1>4, <2>1, <2>2
<1>5. CASE ReadGate \/ HostUnlocks \/ BackoffEnds
  <2>1. host'.result = host.result
    BY <1>1, <1>5 DEF ReadGate, HostUnlocks, BackoffEnds
  <2> QED BY <2>1
<1>6. CASE TakeLock
  <2>1. host'.result = host.result \/ host'.result = "another-operation"
    BY <1>1, <1>6 DEF TakeLock
  <2> QED BY <2>1
<1>7. CASE Passes
  <2>1. host'.result = host.result
    BY <1>1, <1>7 DEF Passes
  <2> QED BY <2>1
<1>8. CASE \/ Disabled \/ InMaintenance \/ DockerAway \/ IdentityNeedsAttention
           \/ ActivationNeedsAttention \/ StorageStops \/ StorageUnavailable
  BY <1>8, UnwellDecisions
<1>9. CASE LowDisk \/ StorageGood
  BY <1>9, GoodDecisions
<1>10. CASE HostStops \/ HostStartsContainer \/ HostChecks
  BY <1>10, StepsReport
<1>11. CASE \E x \in Role : TurnsReady(x) \/ Falters(x) \/ Removed(x)
  BY <1>2, <1>11 DEF TurnsReady, Falters, Removed
<1>12. CASE CommandFails
  BY <1>2, <1>3, <1>12 DEF CommandFails
<1>13. CASE \/ SetMarker \/ SetGate \/ SetPlist \/ CommandStops \/ CommandVerifies \/ RemoveMarker
            \/ ArchiveFault \/ StartHost \/ Retire \/ CreateStopped
            \/ Unlock \/ Await \/ LockAgain \/ CommandEnds \/ CommandKilled
  BY <1>2, <1>13 DEF SetMarker, SetGate, SetPlist, CommandStops, CommandVerifies, RemoveMarker, ArchiveFault,
     StartHost, Retire, CreateStopped, Unlock, Await, LockAgain, CommandEnds, CommandKilled, Alone
<1>14. CASE \E g, h \in Gen : Enter(g) \/ Resume(g) \/ Clear(g) \/ Switch(g, h) \/ Activate(g)
  BY <1>2, <1>14 DEF Enter, Resume, Clear, Switch, Activate, Command
<1> QED
  BY <1>4, <1>5, <1>6, <1>7, <1>8, <1>9, <1>10, <1>11, <1>12, <1>13, <1>14
     DEF HostNext, HostSteps, CommandSteps

\* Containers start under the lock and outside pauses, pauses end only
\* reviewed, and a reported good health was real (production-host.mjs,
\* production-maintenance.mjs, storage-recovery-review.mjs).
THEOREM HostKeepsTheWord == MCSpec => HostKeepsItsWord
<1> DEFINE S == \A r \in Role : ~box[r].run /\ box'[r].run =>
                   /\ lock = "host" /\ files.marker = None /\ files.fault = None /\ ~host.fault
                   /\ r \in Dependants => box["origin"].gen = host.gen
           P == /\ files.marker # None /\ files'.marker = None =>
                     files.gate = files.marker /\ files.fault = None /\ Trusted(files.marker) = Role
                /\ files.fault # None /\ files'.fault = None =>
                     files.marker # None /\ Quiet /\ host = Down /\ job.loaded = None
           H == host'.result = "healthy" /\ host.result # "healthy" =>
                   \A r \in Role : box[r].ready /\ (r \in Dependants => box[r].tie = "live")
<1>1. HostInv /\ [HostNext]_hostVars => [S]_hostVars
  BY AllowedStart
<1>2. HostInv /\ [HostNext]_hostVars => [P]_hostVars
  BY ReviewedEnd
<1>3. HostInv /\ [HostNext]_hostVars => [H]_hostVars
  BY PraiseIsReal
<1> QED BY <1>1, <1>2, <1>3, HostInvariance, PTL
        DEF MCSpec, HostKeepsItsWord, StartsAreAllowed, PausesEndReviewed, HealthIsReal
=============================================================================
