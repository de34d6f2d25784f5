---------------------------- MODULE LedgerPromise ----------------------------
(***************************************************************************)
(* The write pipeline seen by the user and the ledger's owner: what became  *)
(* of each message's single expense.  ExactlyOnceLedger states it; here it  *)
(* is read off the receipts and the posts of ExpenseWrite.                  *)
(***************************************************************************)
EXTENDS ExpenseWrite

PostOf(m) == {p.id : p \in {q \in posts : q.msg = m}}

Fate(ids) ==
    IF ids = {} THEN "none"
    ELSE IF ids \cap inflight # {} THEN "sent"
    ELSE IF ids \cap live # {} THEN "live"
    ELSE IF ids \cap deleted # {} THEN "deleted"
    ELSE "refused"

EntryOf == [m \in Messages |-> Fate(PostOf(m))]

Promise == INSTANCE ExactlyOnceLedger WITH entry <- EntryOf, report <- status

(* The write pipeline implements the exactly-once ledger: claims, posts,    *)
(* answers, crashes and deletions are its steps (writeExpense).             *)
ImplementsExactlyOnce == Promise!AbsSpec
=============================================================================
