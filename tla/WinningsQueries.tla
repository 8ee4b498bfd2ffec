--------------------------- MODULE WinningsQueries ---------------------------
(***************************************************************************)
(* The queries over winnings and their payments: the where and order-by of *)
(* WinningsRepository, the wallet totals, and what a withdrawal would take.*)
(* A row is a winning with its payments in the order of their creation:    *)
(* [winner, type, category, external, created, pays], each payment         *)
(* [account, installment, status, version], every amount being one.        *)
(* Columns that no condition and no order looks at are left out.           *)
(***************************************************************************)
EXTENDS Integers, FiniteSets, Sequences, SequencesExt

CONSTANTS
  DayLength,     \* ticks of the clock in a day
  Week,          \* the days of last7days: 7
  Month          \* the days of last30days: 30

ASSUME QueriesAssumption ==
  DayLength \in Nat \ {0} /\ Week \in Nat \ {0} /\ Month \in Nat \ {0}

\* winnings_category, in the order of the database type.
CategoryOrder == <<"ENGAGEMENT_PAYMENT", "CONTEST_PAYMENT", "TAAS_PAYMENT", "TASK_PAYMENT">>

DefaultLimit == 10

Day(t) == t \div DayLength

\* generateFilterDate: the named windows end today.
NamedWindow(f, now, d) ==
  /\ f.date = {"last7days"} => d \in (Day(now) - (Week - 1)) .. Day(now)
  /\ f.date = {"last30days"} => d \in (Day(now) - (Month - 1)) .. Day(now)

\* generateFilterDateRange: whole days, each end optional.
CustomRange(f, d) ==
  /\ \A first \in f.dateFrom : first <= d
  /\ \A last \in f.dateTo : d <= last

\* resolveCreatedAtFilter: a range that is given wins over a named window.
CreatedInRange(f, now, t) ==
  IF f.dateFrom \cup f.dateTo # {} THEN CustomRange(f, Day(t)) ELSE NamedWindow(f, now, Day(t))

\* The first of winnerId, winnerIds and externalIds that is given is the one that counts.
Winners(f) == IF f.winnerId # {} THEN {f.winnerId} ELSE f.winnerIds
Externals(f) == IF Winners(f) = {} THEN f.externalIds ELSE {}

\* `category` wins over `categories`, and an empty list is no filter.
AsksCategory(f, row) ==
  IF f.category # {} THEN row.category \in f.category
  ELSE UNION f.categories # {} => row.category \in UNION f.categories

\* One and the same first-installment payment has the status and the account.
AsksPayment(f, row) ==
  \E i \in DOMAIN row.pays :
    LET p == row.pays[i]
    IN  /\ p.installment = 1
        /\ UNION f.status # {} => p.status \in UNION f.status
        /\ \A accounts \in f.billingAccounts : p.account \in accounts

\* getWinningsQueryFilters, with the billing accounts that searchWinnings adds.
Matches(f, row, now) ==
  /\ \A ids \in Winners(f) : row.winner \in ids
  /\ \A ids \in Externals(f) : row.external \in ids
  /\ AsksCategory(f, row)
  /\ f.type # {} => row.type \in f.type
  /\ AsksPayment(f, row)
  /\ CreatedInRange(f, now, row.created)

\* The winnings of the table rows that a search with filters f finds.
Matching(f, rows, now) == {w \in DOMAIN rows : Matches(f, rows[w], now)}

\* getOrderByWithWinnerId: the newest first, or by the column asked for; then by external
\* id when the search was by external ids.  The key of a row, to be sorted upwards.
SortKey(f, row) ==
  LET rank == CHOOSE i \in DOMAIN CategoryOrder : CategoryOrder[i] = row.category
  IN  CASE f.sortBy = {} -> -row.created
        [] f.sortBy = {"category"} /\ f.sortOrder = "asc" -> rank
        [] f.sortBy = {"category"} /\ f.sortOrder = "desc" -> -rank

Before(f, v, w) ==
  \/ SortKey(f, v) < SortKey(f, w)
  \/ SortKey(f, v) = SortKey(f, w) /\ Externals(f) # {} /\ v.external < w.external

\* The orders the database may return the rows S in: it breaks ties as it likes, and each
\* query anew.
Orders(f, rows, S) ==
  {s \in SetToSeqs(S) :
     \A i, j \in DOMAIN s : i < j => ~Before(f, rows[s[j]], rows[s[i]])}

\* skip and take.
Take(s, offset, limit) == SubSeq(s, offset + 1, IF offset + limit < Len(s) THEN offset + limit ELSE Len(s))

Limit(f) == IF f.limit = {} THEN DefaultLimit ELSE CHOOSE n \in f.limit : TRUE
Offset(f) == IF f.offset = {} THEN 0 ELSE CHOOSE n \in f.offset : TRUE

\* fetchWinnings of the challenge payments: no condition on the payments.
OfChallenge(rows, challenge, winner) ==
  {w \in DOMAIN rows : /\ rows[w].external = challenge
                       /\ rows[w].type \in {"PAYMENT", "POINTS"}
                       /\ winner # {} => rows[w].winner \in winner}

-----------------------------------------------------------------------------
(***************************************************************************)
(* The wallet and the withdrawal.                                          *)
(***************************************************************************)

\* Wrong form: of two payments at the same version neither counts.
WalletPaymentsUniqueVersion(row) ==
  {i \in DOMAIN row.pays :
     /\ row.pays[i].status \in {"OWED", "ON_HOLD", "CREDITED"}
     /\ row.pays[i].installment = 1
     /\ \A j \in DOMAIN row.pays \ {i} : row.pays[j].version < row.pays[i].version}

\* The payments of a row that the wallet adds up: open ones of the first installment, and
\* of these the ones at the highest version of any payment of the winning.
WalletPayments(row) ==
  {i \in DOMAIN row.pays :
     /\ row.pays[i].status \in {"OWED", "ON_HOLD", "CREDITED"}
     /\ row.pays[i].installment = 1
     /\ \A j \in DOMAIN row.pays : row.pays[j].version <= row.pays[i].version}

\* getWinningsTotalsByWinnerID: the payments behind the balance of one type.
WalletBalance(rows, member, type) ==
  UNION {{w} \X WalletPayments(rows[w]) :
           w \in {v \in DOMAIN rows : rows[v].winner = member /\ rows[v].type = type}}

\* The payments getReleasableWinningsForUserId would release, once their release date has
\* come, in US dollars and with no date_paid.
Withdrawable(rows, member) ==
  UNION {{w} \X {i \in DOMAIN rows[w].pays :
                   rows[w].pays[i].installment = 1 /\ rows[w].pays[i].status = "OWED"} :
           w \in {v \in DOMAIN rows : rows[v].winner = member /\ rows[v].type = "PAYMENT"}}
=============================================================================
