-------------------------- MODULE CredentialUpdate --------------------------
(***************************************************************************)
(* The replacement of a credential while the services are in maintenance:  *)
(* the two ledger tokens (scripts/mac/rotate-ledger-tokens.mjs and         *)
(* ledger-token-operation.mjs with deploy/docker/ledger-token-rotation.mjs *)
(* and import-ledger-tokens.mjs), the WeChat and the tunnel credential     *)
(* (single-credential-operation.mjs) and the model authorization           *)
(* (import-model-authorization.mjs).                                       *)
(*                                                                         *)
(* A command on the host holds the operation lock and runs a helper        *)
(* container that writes the volume; each may end at any point, and the    *)
(* helper may outlive the command.  Backups, hashes and audits are the     *)
(* equality of volume states.  A behaviour is about one kind of update.    *)
(***************************************************************************)
EXTENDS Naturals, FiniteSets

CONSTANTS None,
          MaxFaults,     \* failures of helpers, clients, commands and the machine
          MaxReviews,    \* reviews prepared or edited
          MaxEpochs      \* times maintenance is entered

VARIABLES
    kind,        \* "ledger", "weixin", "tunnel" or "model"
    volume,      \* what is stored, with the rotation marker and temporary files
    desk,        \* the operator's files: review, started and saved records, maintenance marker
    held,        \* the operation lock: "free", "command", or "dead" after its owner was killed
    attempt,     \* the running command
    helper,      \* the helper container
    gateway,     \* "off" in maintenance, else "starting" or "up"
    faults

credentialVars == <<kind, volume, desk, held, attempt, helper, gateway, faults>>

Kinds == {"ledger", "weixin", "tunnel", "model"}
Parts == IF kind = "ledger" THEN {"http", "mcp"} ELSE {"credential"}
NoAttempt == [act |-> "none", at |-> "none", edits |-> 0]
NoHelper == [at |-> "none", mode |-> "none", waited |-> FALSE]

AllAre(v) == \A p \in Parts : volume.saved[p] = v
\* What entrypoint.mjs and the preflight look for: nothing of a rotation is left over.
RotationComplete == kind = "ledger" => ~volume.marker /\ volume.pending = {}

\* What an audit sees of the volumes, all of them or without what one update writes.
Audited(v, except) == CASE except = "nothing" -> v
                        [] except = "tunnel"  -> <<v.other, v.pending>>
                        [] except \in {"rotation", "openclaw"} -> v.other
\* It is refused while anything that runs uses a volume; else it equals that of the backup.
Unused == gateway = "off" /\ helper = NoHelper
AuditedAsBackup(except) ==
    Unused /\ Audited(volume, except) = Audited(desk.review.backup, except)
AsBackedUp == AuditedAsBackup("nothing")

Fault == faults < MaxFaults /\ faults' = faults + 1
OwnRecord == {s \in desk.started : s.binding = desk.review.binding}

---------------------------------------------------------------------------
\* The operator: a review of a state that equals its backup, and its approval.

Drafted(binding) ==
    /\ held = "free" /\ Unused /\ desk.prepared < MaxReviews /\ ~AllAre("new")
    /\ desk' = [desk EXCEPT !.prepared = @ + 1, !.edits = 0, !.fresh = FALSE,
                            !.review = [epoch |-> desk.epoch, backup |-> volume,
                                        binding |-> binding]]
    /\ UNCHANGED <<kind, volume, held, attempt, helper, gateway, faults>>

LedgerPrepares == kind = "ledger" /\ RotationComplete /\ Drafted(volume.other)
\* The time at which a new login was saved is part of what is bound.
WeixinPrepares == kind = "weixin" /\ Drafted(desk.prepared + 1)
TunnelPrepares == kind = "tunnel" /\ Drafted(0)
ModelPrepares  == kind = "model" /\ ~desk.stageLocked /\ Drafted(volume.other)
Prepare == LedgerPrepares \/ WeixinPrepares \/ TunnelPrepares \/ ModelPrepares

Approve ==
    /\ desk.review # None /\ ~desk.fresh /\ desk.edits < MaxReviews
    /\ desk' = [desk EXCEPT !.edits = @ + 1, !.fresh = TRUE]
    /\ UNCHANGED <<kind, volume, held, attempt, helper, gateway, faults>>

ReviewExpires ==
    /\ desk.fresh /\ Fault
    /\ desk' = [desk EXCEPT !.fresh = FALSE]
    /\ UNCHANGED <<kind, volume, held, attempt, helper, gateway>>

---------------------------------------------------------------------------
\* The command checks its review, and the records of what it began before.

Begun(act, at) == /\ held' = "command"
                  /\ attempt' = [act |-> act, at |-> at, edits |-> desk.edits]
                  /\ UNCHANGED <<kind, volume, helper, gateway, faults>>

\* The lock, the maintenance of now, and nothing that runs.
LedgerContext == held = "free" /\ desk.review # None /\ desk.review.epoch = desk.epoch
SingleContext == held = "free" /\ Unused /\ desk.review # None /\ desk.review.epoch = desk.epoch
ModelContext  == LedgerContext /\ ~desk.stageLocked

LedgerReviewHolds == desk.fresh /\ AuditedAsBackup("rotation")
SingleReviewHolds == desk.edits > 0 /\ AuditedAsBackup(IF kind = "weixin" THEN "openclaw" ELSE "tunnel")

BeginApplyLedger ==
    /\ kind = "ledger" /\ LedgerContext /\ LedgerReviewHolds /\ AsBackedUp
    /\ Begun("apply", "reviewed") /\ UNCHANGED desk
BeginApplySingle ==
    /\ kind \in {"weixin", "tunnel"} /\ SingleContext /\ SingleReviewHolds
    /\ desk.fresh /\ AsBackedUp
    /\ Begun("apply", "reviewed") /\ UNCHANGED desk
\* It keeps no record of what it began: its review is read once.
BeginApplyModel ==
    /\ kind = "model" /\ ModelContext /\ AsBackedUp /\ desk.fresh
    /\ Begun("apply", "started") /\ desk' = [desk EXCEPT !.stageLocked = TRUE]

BeginResumeLedger ==
    /\ kind = "ledger" /\ LedgerContext /\ LedgerReviewHolds
    /\ \E s \in OwnRecord : s.epoch = desk.epoch
    /\ Begun("resume", "started") /\ UNCHANGED desk
\* The review was fresh when this very operation started.
BeginResumeSingle ==
    /\ kind \in {"weixin", "tunnel"} /\ SingleContext /\ SingleReviewHolds
    /\ \E s \in OwnRecord : s.epoch = desk.epoch /\ s.edits = desk.edits
    /\ Begun("resume", "started") /\ UNCHANGED desk
BeginApply == BeginApplyLedger \/ BeginApplySingle \/ BeginApplyModel
BeginResume == BeginResumeLedger \/ BeginResumeSingle

\* The record is created, never replaced: one operation for each reviewed plan.
SaveStarted ==
    /\ attempt.at = "reviewed" /\ OwnRecord = {}
    /\ desk' = [desk EXCEPT !.started = @ \cup {[binding |-> desk.review.binding,
                                                epoch |-> desk.epoch, edits |-> desk.edits]}]
    /\ attempt' = [attempt EXCEPT !.at = "started"]
    /\ UNCHANGED <<kind, volume, held, helper, gateway, faults>>

---------------------------------------------------------------------------
\* The command runs its helper and records what the helper says.

Unedited == attempt.edits = desk.edits
LedgerMayGo == Unedited /\ AuditedAsBackup("rotation")
\* One file is written again only from the exact state of the backup.
SingleMayGo == Unedited /\ SingleReviewHolds /\ (attempt.act = "apply" => AsBackedUp)
ModelMayGo  == AsBackedUp
MayGo == CASE kind = "ledger" -> LedgerMayGo [] kind = "model" -> ModelMayGo [] OTHER -> SingleMayGo

Runs(mode) == helper' = [at |-> "check", mode |-> mode, waited |-> TRUE]
RunHelper ==
    /\ attempt.at = "started" /\ MayGo
    /\ Runs(IF kind \in {"weixin", "tunnel"} /\ ~AsBackedUp THEN "verify-saved"
            ELSE IF kind = "ledger" THEN attempt.act ELSE "apply")
    /\ attempt' = [attempt EXCEPT !.at = "running"]
    /\ UNCHANGED <<kind, volume, desk, held, gateway, faults>>

\* One that has been saved already stops the ledger's command; of one file it is
\* equal and may stay.
LedgerMaySave == AuditedAsBackup("rotation") /\ desk.review.binding \notin desk.receipts
SingleMaySave == Unedited /\ SingleReviewHolds
ModelMaySave  == Unused
MaySave == CASE kind = "ledger" -> LedgerMaySave [] kind = "model" -> ModelMaySave [] OTHER -> SingleMaySave

\* The model's command removes the lock of its stage, however it ends.
Released == IF kind = "model" THEN [desk EXCEPT !.stageLocked = FALSE] ELSE desk
SaveReceipt ==
    /\ attempt.at = "saved" /\ MaySave
    /\ desk' = [Released EXCEPT !.receipts = @ \cup {desk.review.binding}]
    /\ held' = "free" /\ attempt' = NoAttempt
    /\ UNCHANGED <<kind, volume, helper, gateway, faults>>

\* The ledger's command stops its own helper before it lets go of the lock, if
\* Docker answers; the others leave theirs alone.
HelperAfter == IF kind = "ledger" THEN NoHelper ELSE helper
Blocked == \/ attempt.at = "reviewed" /\ OwnRecord # {}
           \/ attempt.at = "started" /\ ~MayGo
           \/ attempt.at = "saved" /\ ~MaySave
           \/ attempt.at = "failed"
CommandStops ==
    /\ \/ Blocked /\ helper' = HelperAfter /\ UNCHANGED faults
       \/ attempt.at \in {"reviewed", "started", "saved", "failed"} /\ Fault /\ UNCHANGED helper
    /\ held' = "free" /\ attempt' = NoAttempt /\ desk' = Released
    /\ UNCHANGED <<kind, volume, gateway>>

\* A killed command leaves its locks; its helper may go on.
CommandKilled ==
    /\ attempt # NoAttempt /\ Fault
    /\ held' = "dead" /\ attempt' = NoAttempt
    /\ helper' \in {[helper EXCEPT !.waited = FALSE], NoHelper}
    /\ UNCHANGED <<kind, volume, desk, gateway>>
LockRemovedByHand ==
    /\ held = "dead"
    /\ held' = "free" /\ desk' = Released
    /\ UNCHANGED <<kind, volume, attempt, helper, gateway, faults>>

---------------------------------------------------------------------------
\* The helper looks at the volume.

Ends(result) == /\ helper' = NoHelper
                /\ attempt' = IF helper.waited THEN [attempt EXCEPT !.at = result] ELSE attempt
Goes(step) == helper' = [helper EXCEPT !.at = step] /\ UNCHANGED attempt

OthersKept == volume.other = desk.review.backup.other
\* The file of the account is new only in its token, and no other file is there.
WeixinOthersKept == OthersKept /\ volume.pending = desk.review.backup.pending
AsPlanned == volume = desk.review.backup

\* No marker under a resume: either everything was saved or nothing was written yet.
LedgerMode == IF helper.mode = "resume" /\ ~volume.marker
              THEN IF AllAre("new") /\ volume.pending = {} /\ OthersKept THEN "verify-saved" ELSE "apply"
              ELSE helper.mode
LedgerPlanHolds == CASE LedgerMode = "verify-saved" -> OthersKept /\ RotationComplete
                     [] LedgerMode = "resume"       -> OthersKept /\ volume.marker
                     [] LedgerMode = "apply"        -> RotationComplete /\ AsPlanned
LedgerChecks ==
    /\ kind = "ledger"
    /\ IF ~LedgerPlanHolds THEN Ends("failed")
       ELSE Goes(CASE LedgerMode = "verify-saved" -> "report" [] LedgerMode = "resume" -> "write"
                   [] LedgerMode = "apply" -> "mark")

WeixinSaved == AllAre("new") /\ WeixinOthersKept
WeixinPlanHolds == AllAre("old") /\ WeixinOthersKept
WeixinChecks ==
    /\ kind = "weixin"
    /\ IF helper.mode = "verify-saved" THEN IF WeixinSaved THEN Goes("report") ELSE Ends("failed")
       ELSE IF WeixinPlanHolds THEN Goes("write") ELSE Ends("failed")
TunnelChecks ==
    /\ kind = "tunnel"
    /\ IF helper.mode = "verify-saved" THEN IF AllAre("new") THEN Goes("report") ELSE Ends("failed")
       ELSE IF AllAre("old") THEN Goes("write") ELSE Ends("failed")
\* Bound to the stage, the profile and everything next to it.
ModelChecks == kind = "model" /\ IF AsPlanned THEN Goes("write") ELSE Ends("failed")

HelperChecks == /\ helper.at = "check"
                /\ LedgerChecks \/ WeixinChecks \/ TunnelChecks \/ ModelChecks
                /\ UNCHANGED <<kind, volume, desk, held, gateway, faults>>

---------------------------------------------------------------------------
\* The helper writes.

\* The marker is durable before either token changes.
HelperMarks ==
    /\ helper.at = "mark"
    /\ volume' = [volume EXCEPT !.marker = TRUE] /\ Goes("write")
    /\ UNCHANGED <<kind, desk, held, gateway, faults>>

NextPart == IF kind # "ledger" THEN "credential"
            ELSE IF volume.saved["http"] = "old" THEN "http" ELSE "mcp"
\* The new token next to the old one, after what an earlier attempt left is gone.
LedgerWrites == /\ kind = "ledger"
                /\ volume' = IF volume.pending \subseteq {NextPart}
                             THEN [volume EXCEPT !.pending = {NextPart}]
                             ELSE [volume EXCEPT !.pending = {}]
\* A file with a name of its own.
WeixinWrites == kind = "weixin" /\ volume' = [volume EXCEPT !.pending = @ \cup {NextPart}]
TunnelWrites == kind = "tunnel" /\ volume' = [volume EXCEPT !.pending = @ \cup {NextPart}]
\* The official writer keeps its books elsewhere.
ModelWrites  == kind = "model" /\ UNCHANGED volume
HelperWrites ==
    /\ helper.at = "write" /\ ~AllAre("new")
    /\ LedgerWrites \/ WeixinWrites \/ TunnelWrites \/ ModelWrites
    /\ Goes("replace")
    /\ UNCHANGED <<kind, desk, held, gateway, faults>>

Replaced == [volume EXCEPT !.saved[NextPart] = "new", !.pending = @ \ {NextPart}]
HelperReplaces ==
    /\ helper.at = "replace"
    /\ volume' = Replaced /\ Goes("write")
    /\ UNCHANGED <<kind, desk, held, gateway, faults>>

\* Everything else is compared before the marker goes, or before success is told.
LedgerCloses == kind = "ledger" /\ OthersKept
WeixinCloses == kind = "weixin" /\ WeixinOthersKept
ModelCloses  == kind = "model" /\ OthersKept
HelperClosesEarly ==
    /\ helper.at = "write" /\ \E p \in Parts : volume.saved[p] = "new"
    /\ IF LedgerCloses \/ WeixinCloses \/ kind = "tunnel" \/ ModelCloses
       THEN volume' = [volume EXCEPT !.marker = FALSE] /\ Goes("write")
       ELSE UNCHANGED volume /\ Ends("failed")
    /\ UNCHANGED <<kind, desk, held, gateway, faults>>
HelperCloses ==
    /\ helper.at = "write" /\ AllAre("new")
    /\ IF LedgerCloses \/ WeixinCloses \/ kind = "tunnel" \/ ModelCloses
       THEN /\ volume' = IF kind = "ledger" THEN [volume EXCEPT !.marker = FALSE, !.pending = {}] ELSE volume
            /\ Goes("report")
       ELSE UNCHANGED volume /\ Ends("failed")
    /\ UNCHANGED <<kind, desk, held, gateway, faults>>

HelperReports == /\ helper.at = "report" /\ Ends("saved")
                 /\ UNCHANGED <<kind, volume, desk, held, gateway, faults>>

\* An error removes the temporary file of one credential; the marker of a
\* rotation and its files stay.
Cleaned == IF kind = "ledger" THEN volume ELSE [volume EXCEPT !.pending = @ \ Parts]
HelperErrs ==
    /\ helper.at \in {"check", "mark", "write", "replace"} /\ Fault
    /\ volume' = Cleaned /\ Ends("failed")
    /\ UNCHANGED <<kind, desk, held, gateway>>
\* Nobody removes the file that a killed helper had a name of its own for.
HelperKilled ==
    /\ helper # NoHelper /\ Fault /\ Ends("failed")
    /\ volume' = IF kind # "ledger" /\ volume.pending # {}
                 THEN [volume EXCEPT !.pending = {"stray"}] ELSE volume
    /\ UNCHANGED <<kind, desk, held, gateway>>
\* The Docker client gives up while the container goes on.
ClientTimesOut ==
    /\ helper.waited /\ Fault
    /\ helper' = [helper EXCEPT !.waited = FALSE]
    /\ attempt' = [attempt EXCEPT !.at = "failed"]
    /\ UNCHANGED <<kind, volume, desk, held, gateway>>

---------------------------------------------------------------------------
\* The services, when maintenance is left and entered again.

LeaveMaintenance ==
    /\ held = "free" /\ gateway = "off" /\ RotationComplete
    /\ gateway' = "starting"
    /\ UNCHANGED <<kind, volume, desk, held, attempt, helper, faults>>
EnterMaintenance ==
    /\ held = "free" /\ gateway # "off" /\ desk.epoch < MaxEpochs
    /\ gateway' = "off" /\ desk' = [desk EXCEPT !.epoch = @ + 1]
    /\ UNCHANGED <<kind, volume, held, attempt, helper, faults>>

\* Mutant: nobody looks for leftovers of a rotation at the start.
EntryPointTrusts == TRUE
\* The entry point refuses a rotation that is incomplete, at the start and every second.
EntryPointAllows == RotationComplete
GatewayStarts ==
    /\ gateway = "starting" /\ EntryPointAllows
    /\ gateway' = "up"
    /\ UNCHANGED <<kind, volume, desk, held, attempt, helper, faults>>
GatewayKilled ==
    /\ gateway = "up" /\ ~RotationComplete
    /\ gateway' = "starting"
    /\ UNCHANGED <<kind, volume, desk, held, attempt, helper, faults>>
GatewayWrites ==
    /\ gateway = "up" /\ volume.other < MaxEpochs
    /\ volume' = [volume EXCEPT !.other = @ + 1]
    /\ UNCHANGED <<kind, desk, held, attempt, helper, gateway, faults>>

---------------------------------------------------------------------------
CredentialInit ==
    /\ kind \in Kinds
    /\ volume = [saved |-> [p \in Parts |-> "old"], marker |-> FALSE, pending |-> {}, other |-> 0]
    /\ desk = [epoch |-> 1, prepared |-> 0, review |-> None, edits |-> 0, fresh |-> FALSE,
               started |-> {}, receipts |-> {}, stageLocked |-> FALSE]
    /\ held = "free" /\ attempt = NoAttempt /\ helper = NoHelper /\ gateway = "off" /\ faults = 0

CommandSteps == SaveStarted \/ RunHelper \/ SaveReceipt \/ CommandStops
HelperSteps == HelperChecks \/ HelperMarks \/ HelperWrites \/ HelperReplaces \/ HelperCloses \/ HelperReports

CredentialNext ==
    \/ Prepare \/ Approve \/ ReviewExpires \/ BeginApply \/ BeginResume
    \/ CommandSteps \/ CommandKilled \/ LockRemovedByHand
    \/ HelperSteps \/ HelperErrs \/ HelperKilled \/ ClientTimesOut
    \/ LeaveMaintenance \/ EnterMaintenance \/ GatewayStarts \/ GatewayKilled \/ GatewayWrites

---------------------------------------------------------------------------
Volumes == [saved : [Parts -> {"old", "new"}], marker : BOOLEAN,
            pending : SUBSET (Parts \cup {"stray"}), other : 0..MaxEpochs]
Reviews == [epoch : Nat, backup : Volumes, binding : Nat]
Desks == [epoch : Nat, prepared : Nat, review : Reviews \cup {None}, edits : Nat, fresh : BOOLEAN,
          started : SUBSET [binding : Nat, epoch : Nat, edits : Nat], receipts : SUBSET Nat,
          stageLocked : BOOLEAN]

CredentialTypeOK ==
    /\ kind \in Kinds
    /\ volume \in Volumes /\ (volume.marker => kind = "ledger")
    /\ desk \in Desks
    /\ attempt \in [act : {"none", "apply", "resume"}, edits : Nat,
                    at : {"none", "reviewed", "started", "running", "saved", "failed"}]
    /\ helper \in [at : {"none", "check", "mark", "write", "replace", "report"}, waited : BOOLEAN,
                   mode : {"none", "apply", "resume", "verify-saved"}]
    /\ held \in {"free", "command", "dead"}
    /\ held = "command" <=> attempt # NoAttempt
    /\ helper.waited <=> attempt.at = "running"
    /\ gateway \in {"off", "starting", "up"} /\ faults \in 0..MaxFaults

\* The ledger's tokens are of one pair, or a marker says that they are not; and
\* a file that can be finished later was recorded before it was touched.
CredentialsAreGuarded ==
    /\ kind = "ledger" /\ ~volume.marker => volume.pending = {} /\ (AllAre("old") \/ AllAre("new"))
    /\ kind # "model" /\ ~(AllAre("old") /\ ~volume.marker) => desk.started # {}

\* The gateway starts on one pair, and a saved record is written only of new
\* credentials next to the unrelated state of the backup, with no writer left.
CredentialRecordsAreTrue ==
    [][/\ gateway # "up" /\ gateway' = "up" => AllAre("old") \/ AllAre("new")
       /\ desk'.receipts # desk.receipts =>
              /\ AllAre("new") /\ ~volume.marker /\ helper = NoHelper
              /\ volume.pending = desk.review.backup.pending
              /\ volume.other = desk.review.backup.other]_credentialVars

\* An operator who keeps approving and resuming in the same maintenance gets a
\* rotation of the ledger's tokens to its end, wherever it was interrupted.
ResumingEnds ==
    LET going == /\ kind = "ledger" /\ gateway = "off" /\ faults = MaxFaults
                 /\ desk.review # None /\ desk.review.epoch = desk.epoch
                 /\ \E s \in OwnRecord : s.epoch = desk.epoch
    IN  <>[]going => <>(desk.receipts # {})
=============================================================================
