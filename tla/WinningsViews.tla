---------------------------- MODULE WinningsViews ----------------------------
(***************************************************************************)
(* The endpoints that read winnings: the admin search, export, payment     *)
(* details and audits, the machine and by-external-id lists, the member's  *)
(* own list and wallet, and the challenge payments.  One request runs, and *)
(* between any two of its queries and remote calls other requests create   *)
(* winnings and edit payments, and the clock moves on.                     *)
(*                                                                         *)
(* A list is a sequence of winnings; what of a row is shown is left out.   *)
(***************************************************************************)
EXTENDS Access, WinningsQueries, Functions

CONSTANTS
  Catalog,       \* each winning that may be created: [winner, type, category, external,
                 \* pays], a payment being [account, installment]
  Requests,      \* the requests: [route, token, f, target]
  AccountSets,   \* what the billing account service may answer for the caller
  Statuses,      \* the payment statuses in use
  BatchSize,     \* EXPORT_BATCH_SIZE
  MaxClock,      \* bound of the model: the clock stops here
  MaxVersion     \* bound of the model: a payment is not edited at this version

FilterFields == {"winnerId", "winnerIds", "externalIds", "category", "categories", "type", "status",
                 "billingAccounts", "date", "dateFrom", "dateTo", "sortBy", "sortOrder",
                 "limit", "offset"}

\* What the validation of a search lets through; the category stands for every column that
\* winnings may be sorted by.
IsFilters(f) ==
  /\ DOMAIN f = FilterFields
  /\ f.sortBy \in {{}, {"category"}} /\ f.sortOrder \in {"asc", "desc"}
  /\ f.limit \cup f.offset \subseteq Nat

ASSUME ViewsAssumption ==
  /\ BatchSize \in Nat \ {0} /\ MaxClock \in Nat /\ MaxVersion \in Nat \ {0}
  /\ "OWED" \in Statuses
  /\ \A w \in DOMAIN Catalog :
       /\ Catalog[w].category \in Range(CategoryOrder) /\ Catalog[w].external \in Int
       /\ IsFiniteSet(DOMAIN Catalog[w].pays)
  /\ \A q \in Requests :
       q.route \in DOMAIN Route /\ q.token.roles \in Seq(STRING) /\ IsFilters(q.f)

VARIABLES
  rows,          \* the winnings and payment tables
  clock,         \* the time
  call,          \* the request: the filters it asked for and as they are so far, what it
                 \* has read, its answer
  kept,          \* the winnings that matched at the first query and ever since
  entered,       \* the winnings that began to match after the first query
  left           \* the winnings that ceased to match after the first query

watch == <<kept, entered, left>>
viewVars == <<rows, clock, call, kept, entered, left>>

AllWinnings == DOMAIN Catalog

\* before the request arrives; moment, found, total and accounts are optional fields
NoCall == [pc |-> "idle"]

Steps == {"filter", "verify", "open", "own", "reconcile", "lookup", "page", "more",
          "setup", "done"}
Answers == {"pending", "success", "error", "400", "401", "403", "404", "500"}

Calls ==
  [route : DOMAIN Route, token : {q.token : q \in Requests}, target : {q.target : q \in Requests},
   pc : Steps, answer : Answers, wide : BOOLEAN, offset : Nat, moment : SUBSET Nat]

ViewsTypeOK ==
  /\ DOMAIN rows \subseteq AllWinnings
  /\ \A w \in DOMAIN rows :
       /\ rows[w].created \in 0 .. clock
       /\ \A i \in DOMAIN rows[w].pays :
            rows[w].pays[i].status \in Statuses \cup {"ON_HOLD"} /\ rows[w].pays[i].version \in 1 .. MaxVersion
  /\ clock \in 0 .. MaxClock
  /\ kept \cup entered \cup left \subseteq DOMAIN rows
  /\ call # NoCall =>
       /\ [k \in {"route", "token", "target", "pc", "answer", "wide", "offset", "moment"} |-> call[k]] \in Calls
       /\ \A s \in call.found : ToSet(s) \subseteq DOMAIN rows
       /\ Cardinality(call.found) <= 1 /\ call.total \subseteq Nat

ViewsInit ==
  /\ rows = << >>
  /\ clock = 0
  /\ call = NoCall
  /\ kept = {} /\ entered = {} /\ left = {}

-----------------------------------------------------------------------------
(***************************************************************************)
(* The other requests, and time.                                           *)
(***************************************************************************)

Reading == call # NoCall /\ call.pc = "more"
Finished == call # NoCall /\ call.pc = "done"

\* A search resolves its named date window once, for both of its queries; a batch of an
\* export when the batch is read.
MomentAt(now) == IF call.moment = {} THEN now ELSE CHOOSE t \in call.moment : TRUE
Moment == MomentAt(clock)

\* What a change of the table or of the day does to the match of a search that runs.
Observe(newRows, now) ==
  IF Reading
    THEN LET was == Matching(call.f, rows, Moment)
             is == Matching(call.f, newRows, MomentAt(now))
         IN  /\ kept' = kept \cap is
             /\ entered' = entered \cup (is \ was)
             /\ left' = left \cup (was \ is)
    ELSE UNCHANGED watch

\* The insert of a winning and of its payments.
Create(w) ==
  /\ ~Finished
  /\ w \notin DOMAIN rows
  /\ LET c == Catalog[w]
         row == [winner |-> c.winner, type |-> c.type, category |-> c.category,
                 external |-> c.external, created |-> clock,
                 pays |-> [i \in DOMAIN c.pays |->
                             [account |-> c.pays[i].account, installment |-> c.pays[i].installment,
                              status |-> "OWED", version |-> 1]]]
     IN  /\ rows' = [v \in DOMAIN rows \cup {w} |-> IF v = w THEN row ELSE rows[v]]
         /\ Observe(rows', clock)
  /\ UNCHANGED <<clock, call>>

\* An admin's edit or a step of a payout: another status and the next version.
Edit(w, i, s) ==
  /\ ~Finished
  /\ w \in DOMAIN rows /\ i \in DOMAIN rows[w].pays
  /\ rows[w].pays[i].status # s /\ rows[w].pays[i].version < MaxVersion
  /\ rows' = [rows EXCEPT ![w].pays[i].status = s, ![w].pays[i].version = @ + 1]
  /\ Observe(rows', clock)
  /\ UNCHANGED <<clock, call>>

Tick ==
  /\ ~Finished
  /\ clock < MaxClock
  /\ clock' = clock + 1
  /\ Observe(rows, clock')
  /\ UNCHANGED <<rows, call>>

-----------------------------------------------------------------------------
(***************************************************************************)
(* The request.                                                            *)
(***************************************************************************)

Roles == TokenValidator(call.token).roles
Caller == TokenValidator(call.token).id

At(route, pc) == call # NoCall /\ call.route \in route /\ call.pc = pc

Answer(a) == call' = [call EXCEPT !.pc = "done", !.answer = a]

\* listChallengePayments looks nothing up for a machine or a privileged role.
SeesWholeChallenge(token) ==
  LET req == TokenValidator(token) IN IsMachine(req) \/ Privileged(req.roles)

FirstStep(q) ==
  CASE q.route \in {"search", "export"} -> "filter"
    [] q.route \in {"details", "audit", "payoutaudit"} -> "verify"
    [] q.route = "user" -> "own"
    [] q.route = "challenge" -> IF SeesWholeChallenge(q.token) THEN "page" ELSE "lookup"
    [] q.route \in {"list", "external", "wallet"} -> "page"

\* The middleware and the guards; keys: the key server answers.
Arrive(q, keys) ==
  /\ call = NoCall
  /\ LET verdict == IF TokenRejected(q.token, keys) THEN "401"
                    ELSE Guards(Route[q.route], TokenValidator(q.token))
     IN  call' = [route |-> q.route, token |-> q.token, asked |-> q.f, f |-> q.f,
                  target |-> q.target,
                  pc |-> IF verdict = "pass" THEN FirstStep(q) ELSE "done",
                  answer |-> IF verdict = "pass" THEN "pending" ELSE verdict,
                  accounts |-> {}, wide |-> FALSE, offset |-> 0, moment |-> {},
                  found |-> {}, total |-> {}]
  /\ UNCHANGED <<rows, clock, kept, entered, left>>

\* What the billing account service may answer: it is asked only for a caller whose roles
\* need it.
LookedUp == IF NeedsAccounts(Roles) THEN AccountSets ELSE {{}}

\* accessControlService.applyFilters before a search or an export.  An export drops the
\* page that was asked for.
Narrow(accounts) ==
  /\ At({"search", "export"}, "filter")
  /\ accounts \in LookedUp
  /\ LET asked == IF call.route = "export" THEN [call.f EXCEPT !.limit = {}, !.offset = {}] ELSE call.f
     IN  call' = [call EXCEPT !.pc = "page", !.accounts = {accounts},
                              !.f = ApplyFilters(Roles, asked, accounts)]
  /\ UNCHANGED <<rows, clock, kept, entered, left>>

\* The billing account service fails.
NarrowFails ==
  /\ At({"search", "export"}, "filter") /\ NeedsAccounts(Roles)
  /\ Answer("500")
  /\ UNCHANGED <<rows, clock, kept, entered, left>>

\* The checks of the member's own list.
CheckOwn ==
  /\ At({"user"}, "own")
  /\ CASE call.f.externalIds # {} -> Answer("400")
       [] call.f.externalIds = {} /\ call.f.winnerId # Caller -> Answer("403")
       [] call.f.externalIds = {} /\ call.f.winnerId = Caller ->
            call' = [call EXCEPT !.pc = "reconcile"]
  /\ UNCHANGED <<rows, clock, kept, entered, left>>

\* reconcileUserPayments: the member's open payments are released or held, as the payout
\* set-up says (see PayoutSetup), and keep their versions.
ReconcileOwn(to) ==
  /\ At({"user"}, "reconcile")
  /\ LET Toggled(p) == IF p.status \in {"OWED", "ON_HOLD"} THEN [p EXCEPT !.status = to] ELSE p
     IN  rows' = [w \in DOMAIN rows |->
                    IF rows[w].winner \notin Caller THEN rows[w]
                    ELSE [rows[w] EXCEPT !.pays = [i \in DOMAIN @ |-> Toggled(@[i])]]]
  /\ call' = [call EXCEPT !.pc = "page"]
  /\ UNCHANGED <<clock, kept, entered, left>>

ReconcileFails ==
  /\ At({"user"}, "reconcile")
  /\ Answer("error")
  /\ UNCHANGED <<rows, clock, kept, entered, left>>

\* The first query of a search fixes what there is to be found.
Watch ==
  IF call.pc = "page"
    THEN kept' = Matching(call.f, rows, Moment) /\ UNCHANGED <<entered, left>>
    ELSE UNCHANGED watch

Searches == {"search", "user", "list"}

\* The page and the count are queries of their own, sent together.
ReadPage(s) ==
  /\ \E pc \in {"page", "more"} : At(Searches, pc)
  /\ call.found = {}
  /\ LET page == Take(s, Offset(call.f), Limit(call.f))
     IN  call' = [call EXCEPT !.found = {page}, !.moment = {Moment},
                              !.pc = IF call.total = {} THEN "more" ELSE "done",
                              !.answer = IF call.total = {} THEN "pending" ELSE "success"]
  /\ Watch
  /\ UNCHANGED <<rows, clock>>

\* Wrong form: the total counts what other billing accounts have, too.
ReadCountUnscoped ==
  /\ \E pc \in {"page", "more"} : At(Searches, pc)
  /\ call.total = {}
  /\ LET f == [call.f EXCEPT !.billingAccounts = {}]
     IN  call' = [call EXCEPT !.total = {Cardinality(Matching(f, rows, Moment))}, !.moment = {Moment},
                              !.pc = IF call.found = {} THEN "more" ELSE "done",
                              !.answer = IF call.found = {} THEN "pending" ELSE "success"]
  /\ Watch
  /\ UNCHANGED <<rows, clock>>

ReadCount ==
  /\ \E pc \in {"page", "more"} : At(Searches, pc)
  /\ call.total = {}
  /\ call' = [call EXCEPT !.total = {Cardinality(Matching(call.f, rows, Moment))},
                          !.moment = {Moment},
                          !.pc = IF call.found = {} THEN "more" ELSE "done",
                          !.answer = IF call.found = {} THEN "pending" ELSE "success"]
  /\ Watch
  /\ UNCHANGED <<rows, clock>>

\* Wrong form: a full batch ends the export.
ReadBatchOnce(s) ==
  /\ \E pc \in {"page", "more"} : At({"export"}, pc)
  /\ LET batch == Take(s, call.offset, BatchSize)
         file == (IF call.found = {} THEN << >> ELSE CHOOSE x \in call.found : TRUE) \o batch
         last == Len(batch) <= BatchSize
     IN  call' = [call EXCEPT !.found = {file}, !.offset = @ + BatchSize,
                              !.pc = IF last THEN "done" ELSE "more",
                              !.answer = IF last THEN "success" ELSE "pending"]
  /\ Watch
  /\ UNCHANGED <<rows, clock>>

\* One turn of the export's loop: the batch at the offset, the last when it is short.  The
\* handles looked up for the file never fail it.
ReadBatch(s) ==
  /\ \E pc \in {"page", "more"} : At({"export"}, pc)
  /\ LET batch == Take(s, call.offset, BatchSize)
         file == (IF call.found = {} THEN << >> ELSE CHOOSE x \in call.found : TRUE) \o batch
         last == Len(batch) < BatchSize
     IN  call' = [call EXCEPT !.found = {file}, !.offset = @ + BatchSize,
                              !.pc = IF last THEN "done" ELSE "more",
                              !.answer = IF last THEN "success" ELSE "pending"]
  /\ Watch
  /\ UNCHANGED <<rows, clock>>

\* A query of a search fails: searchWinnings answers an error and no data.  The admin
\* search then says success all the same, the machine list reads the missing data.
QueryFails ==
  /\ \E pc \in {"page", "more"} : At(Searches \cup {"export", "external", "challenge", "wallet"}, pc)
  /\ call' = [call EXCEPT
       !.pc = "done", !.found = {}, !.total = {},
       !.answer = CASE call.route = "search" -> "success"
                    [] call.route \in {"user", "external", "wallet"} -> "error"
                    [] call.route \in {"export", "list", "challenge"} -> "500"]
  /\ UNCHANGED <<rows, clock, kept, entered, left>>

\* getWinningsByExternalId: all rows of one external id, the newest first.
ReadExternal(s) ==
  /\ At({"external"}, "page")
  /\ call' = [call EXCEPT !.pc = "done", !.found = {s}, !.answer = "success"]
  /\ UNCHANGED <<rows, clock, kept, entered, left>>

\* The caller's resources of the challenge: "wide" when one of them is of a role with full
\* write access or a copilot's or manager's; a failed look-up counts as none.
LookUpResources(answer) ==
  /\ At({"challenge"}, "lookup")
  /\ call' = [call EXCEPT !.pc = "page", !.wide = (answer = "wide")]
  /\ UNCHANGED <<rows, clock, kept, entered, left>>

\* Whose winnings of the challenge are listed: {} is everybody's.
WinnerFilter ==
  IF SeesWholeChallenge(call.token) \/ call.wide THEN {} ELSE Caller

ReadChallenge(s) ==
  /\ At({"challenge"}, "page")
  /\ call' = [call EXCEPT !.pc = "done", !.found = {s}, !.answer = "success"]
  /\ UNCHANGED <<rows, clock, kept, entered, left>>

\* getWalletDetails: the totals, then the set-up of the payout, which asks Trolley.
ReadTotals ==
  /\ At({"wallet"}, "page")
  /\ call' = [call EXCEPT !.pc = "setup",
        !.total = {Cardinality(UNION {WalletBalance(rows, m, "PAYMENT") : m \in Caller})}]
  /\ UNCHANGED <<rows, clock, kept, entered, left>>

ReadSetup(ok) ==
  /\ At({"wallet"}, "setup")
  /\ call' = [call EXCEPT !.pc = "done", !.answer = IF ok THEN "success" ELSE "error",
                          !.total = IF ok THEN @ ELSE {}]
  /\ UNCHANGED <<rows, clock, kept, entered, left>>

\* The row of the winning that the request names.
Target == {rows[w] : w \in {call.target} \cap DOMAIN rows}

Opens == {"details", "audit", "payoutaudit"}

\* verifyUserAccessToWinning: whatever goes wrong is a 401.
Verify(accounts) ==
  /\ At(Opens, "verify")
  /\ accounts \in LookedUp
  /\ IF MayOpen(Roles, Target, accounts)
       THEN call' = [call EXCEPT !.pc = "open", !.accounts = {accounts}]
       ELSE Answer("401")
  /\ UNCHANGED <<rows, clock, kept, entered, left>>

VerifyFails ==
  /\ At(Opens, "verify")
  /\ Answer("401")
  /\ UNCHANGED <<rows, clock, kept, entered, left>>

\* The details need the winning; the audits of no winning are empty lists.  What other
\* services add to the details is optional.
Open ==
  /\ At(Opens, "open")
  /\ IF call.route = "details" /\ Target = {} THEN Answer("404")
     ELSE call' = [call EXCEPT !.pc = "done", !.answer = "success",
                     !.found = {IF Target = {} THEN << >> ELSE <<call.target>>}]
  /\ UNCHANGED <<rows, clock, kept, entered, left>>

OpenFails ==
  /\ At(Opens, "open")
  /\ Answer(IF call.route = "details" THEN "500" ELSE "error")
  /\ UNCHANGED <<rows, clock, kept, entered, left>>

-----------------------------------------------------------------------------
\* The orders in which the database may return what the request's next query finds.
SearchOrders ==
  IF call # NoCall /\ call.pc \in {"page", "more"} /\ call.route \notin {"challenge", "wallet"}
    THEN Orders(call.f, rows, Matching(call.f, rows, Moment)) ELSE {}
ChallengeOrders ==
  IF At({"challenge"}, "page")
    THEN Orders(call.f, rows, OfChallenge(rows, call.target, WinnerFilter)) ELSE {}

ViewsNext ==
  \/ \E w \in AllWinnings : Create(w)
  \/ \E w \in DOMAIN rows : \E i \in DOMAIN rows[w].pays, s \in Statuses : Edit(w, i, s)
  \/ Tick
  \/ \E q \in Requests, keys \in BOOLEAN : Arrive(q, keys)
  \/ \E accounts \in AccountSets \cup {{}} : Narrow(accounts) \/ Verify(accounts)
  \/ \E to \in {"OWED", "ON_HOLD"} : ReconcileOwn(to)
  \/ \E ok \in BOOLEAN : ReadSetup(ok)
  \/ \E answer \in {"wide", "none", "failed"} : LookUpResources(answer)
  \/ \E s \in SearchOrders : ReadPage(s) \/ ReadBatch(s) \/ ReadExternal(s)
  \/ \E s \in ChallengeOrders : ReadChallenge(s)
  \/ NarrowFails \/ CheckOwn \/ ReconcileFails \/ ReadCount \/ QueryFails \/ ReadTotals \/ VerifyFails \/ Open \/ OpenFails

ViewsSpec == ViewsInit /\ [][ViewsNext]_viewVars

-----------------------------------------------------------------------------
(***************************************************************************)
(* Properties.                                                             *)
(***************************************************************************)

Answered(routes) ==
  Finished /\ call.route \in routes /\ call.answer = "success" /\ call.found # {}

\* The list of an answered request, once it is there.
Found == CHOOSE s \in call.found : TRUE

Untied(S) ==
  \A v, w \in S : v # w => Before(call.f, rows[v], rows[w]) \/ Before(call.f, rows[w], rows[v])

\* The export reads its batches by offset, so winnings that begin or cease to match while
\* it runs shift the later ones.  Only they may: when the sort keys differ, a winning that
\* matched all the time is missing only if one sorted before it ceased to match, and is
\* there twice only if one sorted before it began to; and when nothing changed, the file
\* has as many lines as there were matches.
ExportFaithful ==
  Answered({"export"}) =>
    /\ entered \cup left = {} => Len(Found) = Cardinality(kept)
    /\ Untied(kept \cup entered \cup left) =>
         /\ \A w \in kept \ ToSet(Found) : \E v \in left : Before(call.f, rows[v], rows[w])
         /\ \A i, j \in DOMAIN Found :
              i < j /\ Found[i] = Found[j] =>
                \E v \in entered : Before(call.f, rows[v], rows[Found[i]])

\* A page and its total are read by two queries at two moments: each of them counts the
\* winnings that matched all the while, neither counts one that never matched, and the
\* page has the length that the total announces when nothing changed in between.
PageAndTotalAgree ==
  Answered(Searches) /\ call.total # {} =>
    /\ ToSet(Found) \subseteq kept \cup entered \cup left
    /\ IsInjective(Found)
    /\ \A n \in call.total :
         /\ Cardinality(kept) <= n /\ n <= Cardinality(kept \cup entered \cup left)
         /\ entered \cup left = {} =>
              Len(Found) = IF n <= Offset(call.f) THEN 0
                           ELSE IF n - Offset(call.f) < Limit(call.f) THEN n - Offset(call.f)
                           ELSE Limit(call.f)

CategoryScope(role) ==
  CASE role = "Payment Approver" -> ApproverCategories
    [] role = "Wipro TaaS Admin" -> {"TAAS_PAYMENT"}

\* The filters that narrow a search and the check of a single winning are code of their
\* own and agree: whatever the filters asked for, a search or an export lists no winning
\* outside the caller's categories, and each one listed could be opened with the same
\* billing accounts, unless the caller has both category-scoped roles (nothing passes
\* both) or the winning is billed to several accounts (a search wants one of them, the
\* check all).
ScopedListing ==
  Answered({"search", "export"}) =>
    LET scoped == ScopedRoles(Roles) \cap {"Payment Approver", "Wipro TaaS Admin"}
    IN  \A w \in ToSet(Found) :
          /\ scoped # {} => rows[w].category \in UNION {CategoryScope(r) : r \in scoped}
          /\ \/ Cardinality(scoped) = 2
             \/ Cardinality({rows[w].pays[i].account : i \in DOMAIN rows[w].pays}) > 1
             \/ \A accounts \in call.accounts : MayOpen(Roles, {rows[w]}, accounts)

\* What the caller asked for and may open with the same billing accounts.
Wanted ==
  {w \in DOMAIN rows :
     /\ Matches(call.asked, rows[w], Moment)
     /\ \A accounts \in call.accounts : MayOpen(Roles, {rows[w]}, accounts)}

\* The other half of ScopedListing: the narrowed filters, rewritten role by role, hide
\* nothing that the caller asked for and may open.  It matched from the first query on or
\* began to later, and an export has it unless a winning sorted before it ceased to match.
\* Only an approver who gives `category` and `categories` at once may miss something: the
\* query prefers the first, the approver's filter the second.
ListingComplete ==
  /\ Answered({"search", "export"})
  /\ "Payment Approver" \in ScopedRoles(Roles) =>
       call.asked.category = {} \/ UNION call.asked.categories = {}
  =>
    /\ Wanted \subseteq kept \cup entered
    /\ call.route = "export" /\ Untied(kept \cup entered \cup left) =>
         \A w \in Wanted \ (entered \cup ToSet(Found)) :
           \E v \in left : Before(call.f, rows[v], rows[w])

\* Through every endpoint, whatever its filters: somebody else's winning is shown only to
\* a token that was made for this API, and as the controllers document the endpoints: the
\* machine list, the list by external id and a challenge to a machine that reads payments,
\* a challenge also to one that creates them; the admin's endpoints to the payment roles,
\* the list by external id to the roles its description names, a challenge to who manages
\* it and to a privileged role.  A member's own list and wallet are in none of these cases.
\* A machine that only creates payments is let into the machine list too, beyond its
\* description: see ListNeedsReadScope.
OthersWinningsNeedARole ==
  Answered(DOMAIN Route) =>
    \A w \in ToSet(Found) :
      rows[w].winner # call.token.sub =>
        LET Holds(roles) == ToSet(call.token.roles) \cap roles # {}
        IN  /\ call.token.bearer /\ call.token.genuine /\ call.token.audience
            /\ \/ /\ call.route \in {"list", "external", "challenge"}
                  /\ "read:payments" \in call.token.scopes
               \/ /\ call.route \in {"list", "challenge"}
                  /\ "create:payments" \in call.token.scopes
               \/ /\ call.route \in {"search", "details", "export", "audit", "payoutaudit"}
                  /\ Holds({"Payment Admin", "Payment BA Admin", "Payment Approver",
                            "Wipro TaaS Admin", "Payment Editor", "Payment Viewer"})
               \/ /\ call.route = "external"
                  /\ Holds({"Administrator", "Talent Manager", "Project Manager", "Payment Admin"})
               \/ /\ call.route = "challenge"
                  /\ \/ call.wide
                     \/ Holds({"Administrator", "Payment Admin", "Payment Editor", "Payment Viewer"})

\* src/src/api/winnings/winnings.controller.ts:91 says of the machine list 'User must have
\* "read:payments" scope to access.'; the decorator at line 88 admits "create:payments" too.
ListNeedsReadScope ==
  Answered({"list"}) => "read:payments" \in call.token.scopes

\* The wallet's balance and the withdrawal select payments by queries of their own: what a
\* withdrawal would release is in the balance, except for a payment that a later version
\* of another payment of its winning hides from the balance.
WalletShowsWithdrawable ==
  \A m \in {rows[w].winner : w \in DOMAIN rows} :
    \A p \in Withdrawable(rows, m) \ WalletBalance(rows, m, "PAYMENT") :
      \E j \in DOMAIN rows[p[1]].pays :
        rows[p[1]].pays[j].version > rows[p[1]].pays[p[2]].version
=============================================================================
