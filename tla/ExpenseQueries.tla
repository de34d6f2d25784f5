--------------------------- MODULE ExpenseQueries ---------------------------
(***************************************************************************)
(* The read-only questions: a tool call asks the ledger several questions,  *)
(* one request after the other, while the owner may change the ledger on    *)
(* its web page and any request may fail or bring an answer that is not the *)
(* ledger's.  The lists of accounts and categories and the quotes are asked  *)
(* for at most once per call.  A page of the history tool is one request    *)
(* of its own.                                                              *)
(*                                                                         *)
(* An expense is <<row, account>>: what it is and where it was found.  Its   *)
(* sequence number is ten times its time and a serial number.  The filter by *)
(* keyword is the server's; that ranges and arguments are valid was checked  *)
(* before.                                                                  *)
(***************************************************************************)
EXTENDS Integers, SequencesExt, FiniteSetsExt

CONSTANTS
    Account, CurrencyOf, GroupOf,   \* groups: "legacy", "multicurrency"
    Row, SequenceOf, AmountOf, CategoryOf,
    Scripts,        \* the calls: sequences of questions
    QuoteSets,      \* the currencies a quotation may have
    OddAnswers,     \* sequences of expenses that a broken answer may hold
    Top,            \* expenses a summary lists (3)
    MaxChanges,     \* bound of what the owner changes
    None, Failed, NotAsked

VARIABLES
    ledger,         \* the account each expense is in, or None
    open,           \* accounts that are not hidden
    categories,     \* categories that are not hidden
    changes,
    script, at,     \* the call and what it waits for
    lists,          \* accounts, categories and quotes as they were answered
    pages,          \* the answers to the current question
    results,
    truth,          \* history: what each question should have found, None when
                    \* the server answered wrongly
    seen            \* history: what the current question should find

owner == <<ledger, open, categories, changes>>
call == <<script, at, lists, pages, results, truth, seen>>
qvars == <<owner, call>>

Item == Row \X (Account \cup {None})
TimeOf(item) == SequenceOf[item[1]] \div 10
NoLists == [accounts |-> NotAsked, categories |-> NotAsked, rates |-> NotAsked]

QueriesInit ==
    /\ ledger \in [Row -> Account] /\ open = Account /\ categories = {CategoryOf[r] : r \in Row}
    /\ changes = 0
    /\ script = <<>> /\ at = "idle" /\ lists = NoLists
    /\ pages = <<>> /\ results = <<>> /\ truth = <<>> /\ seen = {}

-----------------------------------------------------------------------------
(* The owner.                                                               *)

Changed == changes < MaxChanges /\ changes' = changes + 1

OwnerMoves(r, a) ==
    /\ Changed /\ ledger[r] # a
    /\ ledger' = [ledger EXCEPT ![r] = a]
    /\ UNCHANGED <<open, categories, call>>

OwnerHidesOrShows(a) ==
    /\ Changed
    /\ open' = SymDiff(open, {a})
    /\ UNCHANGED <<ledger, categories, call>>

OwnerHidesCategory(c) ==
    /\ Changed /\ c \in categories
    /\ categories' = categories \ {c}
    /\ UNCHANGED <<ledger, open, call>>

-----------------------------------------------------------------------------
(* The course of a call.                                                    *)

Question == script[Len(results) + 1]
StartOf(q) == CASE q.kind = "page" -> "page"
                [] q.kind = "exchange" /\ q.from # q.to -> "rates"
                [] q.kind = "exchange" /\ q.from = q.to -> "same"
                [] OTHER -> "accounts"

Ask(qs) ==
    /\ at \in {"idle", "answered"}
    /\ script' = qs /\ at' = StartOf(qs[1])
    /\ lists' = NoLists /\ results' = <<>> /\ truth' = <<>>
    /\ UNCHANGED <<owner, pages, seen>>

\* A question has its answer, and the next one begins.
Answer(result, found) ==
    /\ results' = Append(results, result)
    /\ truth' = Append(truth, found)
    /\ at' = IF Len(results) + 1 < Len(script) THEN StartOf(script[Len(results) + 2]) ELSE "answered"
    /\ pages' = <<>> /\ seen' = {}

Fails == Answer([status |-> "failed"], None)

\* A promise that was made once is awaited by every later question, also when
\* it was rejected.
Awaited(list, answers) ==
    IF lists[list] = NotAsked THEN answers \cup {Failed} ELSE {lists[list]}

\* scopedExpenseAccounts refuses what is ambiguous or empty.
IsScope(accounts) ==
    LET group(g) == {a \in accounts : GroupOf[a] = g}
    IN /\ Cardinality(group("legacy")) <= 1
       /\ \A a, b \in group("multicurrency") : CurrencyOf[a] = CurrencyOf[b] => a = b
       /\ \A a \in group("legacy") : CurrencyOf[a] = "SGD"
       /\ accounts # {}

InCurrency(accounts, q) == {a \in accounts : q.currency = None \/ CurrencyOf[a] = q.currency}
Selected == InCurrency(lists.accounts, Question)

AccountsKnown ==
    /\ at = "accounts"
    /\ \E known \in Awaited("accounts", IF IsScope(open) THEN {open} ELSE {}) :
        /\ lists' = [lists EXCEPT !.accounts = known]
        /\ IF known = Failed \/ InCurrency(known, Question) = {}
           THEN Fails
           ELSE at' = "categories" /\ UNCHANGED <<pages, results, truth, seen>>
    /\ UNCHANGED <<owner, script>>

\* A summary of one category needs it on the list.
CategoriesKnown ==
    /\ at = "categories"
    /\ \E known \in Awaited("categories", {categories}) :
        /\ lists' = [lists EXCEPT !.categories = known]
        /\ IF known = Failed \/ (Question.category # None /\ Question.category \notin known)
           THEN Fails
           ELSE /\ at' = (IF Question.kind = "summary" THEN "rows" ELSE "pages")
                /\ UNCHANGED <<pages, results, truth, seen>>
    /\ UNCHANGED <<owner, script>>

-----------------------------------------------------------------------------
(* What the server answers.  An odd answer is one of OddAnswers.            *)

InTime(item, q) == TimeOf(item) \in q.start .. q.end

Matching(accounts, q) ==
    {x \in Row \X accounts : /\ ledger[x[1]] = x[2] /\ InTime(x, q)
                             /\ q.amount = None \/ AmountOf[x[1]] = q.amount
                             /\ q.category = None \/ CategoryOf[x[1]] = q.category}

Newest(items) == SetToSortSeq(items, LAMBDA x, y : SequenceOf[x[1]] > SequenceOf[y[1]])

\* The page after a page of n, or None when nothing is left.
Continuation(items, n) ==
    IF Cardinality(items) > n THEN SequenceOf[Newest(items)[n + 1][1]] ELSE None

-----------------------------------------------------------------------------
(* Summaries: one list of everything in the selected accounts.              *)

\* An answer for a single account may leave the account out.
RowsFit(items, accounts, q) ==
    \A i \in DOMAIN items :
        /\ items[i][2] \in accounts \/ (items[i][2] = None /\ Cardinality(accounts) = 1)
        /\ InTime(items[i], q)

\* The rows, with the only account filled in.
Scoped(items, accounts) ==
    [i \in DOMAIN items |-> IF Cardinality(accounts) = 1 THEN <<items[i][1], CHOOSE a \in accounts : TRUE>>
                                                         ELSE items[i]]

RowsAnswered(items, found) ==
    /\ at = "rows"
    /\ IF RowsFit(items, Selected, Question)
       THEN /\ pages' = Scoped(items, Selected)
            /\ seen' = found
            /\ at' = "convert"
            /\ UNCHANGED <<results, truth>>
       ELSE Fails
    /\ UNCHANGED <<owner, script, lists>>

GroupsOf(items) == {CurrencyOf[items[i][2]] : i \in DOMAIN items}

\* aggregateExpenseSummary, for the rows of one currency.
Total(items, c) ==
    MapThenSumSet(LAMBDA i : AmountOf[items[i][1]],
                  {i \in DOMAIN items : CurrencyOf[items[i][2]] = c})
Largest(items, c) ==
    LET larger(x, y) == \/ AmountOf[x[1]] > AmountOf[y[1]]
                        \/ AmountOf[x[1]] = AmountOf[y[1]] /\ TimeOf(x) > TimeOf(y)
        sorted == SortSeq(SelectSeq(items, LAMBDA x : CurrencyOf[x[2]] = c), larger)
    IN SubSeq(sorted, 1, Min({Top, Len(sorted)}))

\* Without targets, foreign money is converted into Singapore dollars.
Targets(q, groups) ==
    CASE q.targets # None -> q.targets
      [] q.targets = None /\ groups \ {"SGD"} # {} -> {"SGD"}
      [] OTHER -> {}

\* A target has a total when every currency has its quotes.
Convertible(groups, t, rates) ==
    groups \ {t} = {} \/ (rates # Failed /\ t \in rates /\ groups \ {t} \subseteq rates)

NeedsRates(groups, targets) == \E t \in targets : groups \ {t} # {}

Summarised ==
    /\ at = "convert"
    /\ LET groups == GroupsOf(pages)
           targets == Targets(Question, groups)
       IN \E rates \in IF NeedsRates(groups, targets) THEN Awaited("rates", QuoteSets) ELSE {lists.rates} :
            /\ lists' = [lists EXCEPT !.rates = rates]
            /\ LET whole == {t \in targets : Convertible(groups, t, rates)}
               IN Answer([status |-> IF whole = targets THEN "ok" ELSE "partial",
                          totals |-> [c \in groups |-> Total(pages, c)],
                          largest |-> [c \in groups |-> Largest(pages, c)],
                          whole |-> whole, rates |-> rates], seen)
    /\ UNCHANGED <<owner, script>>

-----------------------------------------------------------------------------
(* Pages: the newest expenses of some accounts, one more than are shown.    *)

\* The accounts asked together: a search asks one by one, in the list's order.
AskedTogether ==
    IF Question.kind = "find" THEN {SetToSeq(Selected)[Len(pages) + 1]} ELSE Selected

\* Before the next page stands an older expense than on this one.
PageFits(items, next, accounts, q) ==
    /\ Len(items) <= q.limit + 1
    /\ items = <<>> => next = None
    /\ \A i, j \in DOMAIN items : items[i][1] = items[j][1] => i = j
    /\ \A i \in DOMAIN items : /\ items[i][2] \in accounts /\ InTime(items[i], q)
                               /\ q.amount = None \/ AmountOf[items[i][1]] = q.amount
    /\ next # None => /\ \A i \in DOMAIN items : next < SequenceOf[items[i][1]]
                      /\ next \div 10 \in q.start .. q.end

\* Mutant: only what the server says, not the expense that was asked for beyond.
PageContinues(items, next, limit) == next # None
PageHasMore(items, next, limit) == Len(items) > limit \/ next # None

Page(items, next, limit) ==
    LET sorted == Newest(Range(items))
    IN [items |-> SubSeq(sorted, 1, Min({limit, Len(sorted)})), more |-> PageHasMore(items, next, limit)]

\* Pages are merged by time; at the same second the earlier page comes first.
Merged(ps, limit) ==
    LET all == FlattenSeq([i \in DOMAIN ps |-> ps[i].items])
        order == SortSeq([i \in DOMAIN all |-> i],
                    LAMBDA i, j : \/ TimeOf(all[i]) > TimeOf(all[j])
                                  \/ TimeOf(all[i]) = TimeOf(all[j]) /\ i < j)
        shown == SubSeq(order, 1, Min({limit, Len(all)}))
    IN [status |-> "ok", shown |-> [i \in DOMAIN shown |-> all[shown[i]]],
        more |-> Len(all) > limit \/ \E i \in DOMAIN ps : ps[i].more]

PageAnswered(items, next, found) ==
    /\ at = "pages"
    /\ LET q == Question
           known == IF None \in {found, seen} THEN None ELSE seen \cup found
           ps == Append(pages, Page(items, next, q.limit))
       IN IF ~PageFits(items, next, AskedTogether, q)
          THEN Fails
          ELSE IF q.kind = "find" /\ Len(ps) < Cardinality(Selected)
          THEN pages' = ps /\ seen' = known /\ UNCHANGED <<at, results, truth>>
          ELSE Answer(Merged(ps, q.limit), known)
    /\ UNCHANGED <<owner, script, lists>>

\* The request fails or runs out of time.
RequestFails ==
    /\ at \in {"rows", "pages", "page"}
    /\ Fails
    /\ UNCHANGED <<owner, script, lists>>

-----------------------------------------------------------------------------
(* Exchange rates.                                                          *)

Exchanged ==
    /\ \/ at = "same" /\ lists' = lists /\ Answer([status |-> "ok"], {})
       \/ at = "rates" /\ \E rates \in Awaited("rates", QuoteSets) :
            /\ lists' = [lists EXCEPT !.rates = rates]
            /\ IF rates # Failed /\ {Question.from, Question.to} \subseteq rates
               THEN Answer([status |-> "ok"], {})
               ELSE Fails
    /\ UNCHANGED <<owner, script>>

-----------------------------------------------------------------------------
(* The history tool: page n of the legacy account's expenses, as an MCP     *)
(* server lays it out (expense-history.mjs).                                *)

Legacy == CHOOSE a \in Account : GroupOf[a] = "legacy"
PagesOf(total, count) == (total + count - 1) \div count
OnPage(total, q) == Max({0, Min({q.limit, total - (q.number - 1) * q.limit})})

HistoryPageFits(items, total, last, q) ==
    /\ total > 0 => last = PagesOf(total, q.limit) /\ q.number <= last
    /\ total = 0 => q.number = 1 /\ last <= 1
    /\ Len(items) = OnPage(total, q)
    /\ \A i \in DOMAIN items : items[i][2] = Legacy /\ InTime(items[i], q)
    /\ \A i, j \in DOMAIN items : i < j => TimeOf(items[i]) >= TimeOf(items[j])

HistoryPageAnswered(items, total, last, found) ==
    /\ at = "page"
    /\ IF HistoryPageFits(items, total, last, Question)
       THEN Answer([status |-> "ok", shown |-> items, more |-> last > Question.number], found)
       ELSE Fails
    /\ UNCHANGED <<owner, script, lists>>

-----------------------------------------------------------------------------
(* The server, asked now.                                                   *)

LedgerAnswers ==
    LET q == Question
        found == Matching(CASE at = "rows" -> Selected [] at = "pages" -> AskedTogether
                            [] at = "page" -> {Legacy}, q)
        part(from, to) == SubSeq(Newest(found), from, Min({to, Cardinality(found)}))
        total == Cardinality(found)
    IN CASE at = "rows"  -> RowsAnswered(Newest(found), found)
         [] at = "pages" -> PageAnswered(part(1, q.limit + 1), Continuation(found, q.limit + 1), found)
         [] at = "page"  -> HistoryPageAnswered(part((q.number - 1) * q.limit + 1, q.number * q.limit),
                                total, PagesOf(total, q.limit), found)

OddAnswer(items) ==
    \/ RowsAnswered(items, None)
    \/ \E next \in {None} \cup Range(SequenceOf) : PageAnswered(items, next, None)
    \/ \E total \in 0 .. 3, last \in 0 .. 2 : HistoryPageAnswered(items, total, last, None)

QueriesNext ==
    \/ \E r \in Row, a \in Account \cup {None} : OwnerMoves(r, a)
    \/ \E a \in Account : OwnerHidesOrShows(a)
    \/ \E c \in categories : OwnerHidesCategory(c)
    \/ \E qs \in Scripts : Ask(qs)
    \/ AccountsKnown \/ CategoriesKnown \/ Summarised \/ Exchanged \/ RequestFails
    \/ at \in {"rows", "pages", "page"} /\ LedgerAnswers
    \/ \E items \in OddAnswers : OddAnswer(items)

-----------------------------------------------------------------------------
(* Properties.                                                              *)

\* The n newest of a set, in order, after those that were skipped.
AreNewest(shown, found, skipped, n) ==
    LET newer(i) == {x \in found : TimeOf(x) > TimeOf(shown[i])}
        atLeast(i) == {x \in found : TimeOf(x) >= TimeOf(shown[i])}
    IN /\ Len(shown) = Max({0, Min({n, Cardinality(found) - skipped})})
       /\ Range(shown) \subseteq found
       /\ \A i, j \in DOMAIN shown : i # j => shown[i] # shown[j]
       /\ \A i \in DOMAIN shown : skipped + i \in Cardinality(newer(i)) + 1 .. Cardinality(atLeast(i))

InTheCurrency(found, c) == {x \in found : CurrencyOf[x[2]] = c}

TrueSummary(r, q, found) ==
    LET currencies == {CurrencyOf[x[2]] : x \in found}
        wanted == IF q.targets = None THEN IF currencies \ {"SGD"} = {} THEN {} ELSE {"SGD"} ELSE q.targets
    IN /\ r.totals = [c \in currencies |-> MapThenSumSet(LAMBDA x : AmountOf[x[1]], InTheCurrency(found, c))]
       /\ \A c \in currencies :
            LET mine == InTheCurrency(found, c)
            IN /\ Len(r.largest[c]) = Min({Top, Cardinality(mine)})
               /\ \A x \in mine \ Range(r.largest[c]), y \in Range(r.largest[c]) :
                      y \in mine /\ AmountOf[x[1]] <= AmountOf[y[1]]
       /\ \A t \in r.whole, c \in currencies : c # t => {c, t} \subseteq r.rates
       /\ r.status = "ok" => r.whole = wanted

\* Nothing is shown that was not asked for, whatever the server says.
InScope(r, q) ==
    /\ q.kind # "summary" => Len(r.shown) <= q.limit
    /\ LET items == Range(r.shown)
       IN q.kind # "summary" =>
            \A x \in items : /\ InTime(x, q)
                             /\ q.amount = None \/ AmountOf[x[1]] = q.amount
                             /\ x[2] \in (IF q.kind = "page" THEN {Legacy} ELSE InCurrency(lists.accounts, q))
    /\ q.kind = "summary" =>
            \A c \in DOMAIN r.largest : \A x \in Range(r.largest[c]) :
                InTime(x, q) /\ x[2] \in InCurrency(lists.accounts, q)

(* What a question is told as found is what the ledger held when it was     *)
(* asked: exact totals, the newest expenses, and "more" exactly when there  *)
(* is more; a total in one currency leaves no other out; nothing outside    *)
(* the question is shown, and a question that was not answered says so      *)
(* (bookkeeping-queries.mjs, adapter.mjs, expense-history.mjs).             *)
AnswersAreTrue ==
    \A i \in DOMAIN results :
        LET r == results[i]
            q == script[i]
            found == truth[i]
        IN r.status # "failed" =>
            CASE q.kind = "exchange" -> q.from # q.to => {q.from, q.to} \subseteq lists.rates
              [] q.kind # "exchange" /\ found = None -> InScope(r, q)
              [] q.kind = "summary" /\ found # None -> TrueSummary(r, q, found)
              [] q.kind \in {"find", "history"} /\ found # None ->
                    AreNewest(r.shown, found, 0, q.limit) /\ (r.more <=> Cardinality(found) > q.limit)
              [] q.kind = "page" /\ found # None ->
                    /\ AreNewest(r.shown, found, (q.number - 1) * q.limit, q.limit)
                    /\ r.more <=> Cardinality(found) > q.number * q.limit
=============================================================================
