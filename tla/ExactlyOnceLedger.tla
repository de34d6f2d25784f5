------------------------- MODULE ExactlyOnceLedger -------------------------
(***************************************************************************)
(* What the write pipeline promises, without saying how: every message     *)
(* gets at most one ledger entry, two messages that carry the same picture *)
(* never have entries at the same time, and the report kept for a message  *)
(* never contradicts its entry.                                            *)
(***************************************************************************)
CONSTANTS Messages, Images, NoImage, ImageOf

VARIABLES entry,    \* the fate of the message's single request to the ledger
          report    \* what the receipt of the message says

absVars == <<entry, report>>

AbsTypeOK ==
    /\ entry \in [Messages -> {"none", "sent", "refused", "live", "deleted"}]
    /\ report \in [Messages -> {"none", "pending", "created", "failed", "unknown"}]

AbsInit ==
    /\ entry = [m \in Messages |-> "none"]
    /\ report = [m \in Messages |-> "none"]

Rivals(m) == {n \in Messages \ {m} : ImageOf[m] # NoImage /\ ImageOf[n] = ImageOf[m]}

Accept(m) ==
    /\ report[m] = "none"
    /\ report' = [report EXCEPT ![m] = "pending"]
    /\ UNCHANGED entry

Send(m) ==
    /\ report[m] = "pending" /\ entry[m] = "none"
    /\ \A n \in Rivals(m) : entry[n] \notin {"sent", "live"}
    /\ entry' = [entry EXCEPT ![m] = "sent"]
    /\ UNCHANGED report

Settle(m, fate) ==
    /\ entry[m] = "sent" /\ fate \in {"live", "refused"}
    /\ entry' = [entry EXCEPT ![m] = fate]
    /\ UNCHANGED report

Delete(m) ==
    /\ entry[m] = "live"
    /\ entry' = [entry EXCEPT ![m] = "deleted"]
    /\ UNCHANGED report

Truthful(m, says) ==
    \/ says = "created" /\ entry[m] \in {"live", "deleted"}
    \/ says = "failed" /\ entry[m] = "none"
    \/ says = "unknown" /\ entry[m] # "none"

Report(m, says) ==
    /\ report[m] = "pending" /\ Truthful(m, says)
    /\ report' = [report EXCEPT ![m] = says]
    /\ UNCHANGED entry

AbsNext ==
    \E m \in Messages :
        \/ Accept(m) \/ Send(m) \/ Delete(m)
        \/ \E fate \in {"live", "refused"} : Settle(m, fate)
        \/ \E says \in {"created", "failed", "unknown"} : Report(m, says)

AbsSpec == AbsInit /\ [][AbsNext]_absVars
=============================================================================
