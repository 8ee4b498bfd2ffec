------------------------------ MODULE MCPortal ------------------------------
(***************************************************************************)
(* The two sides of the payments portal, the winnings that are read and    *)
(* the recipients that are linked, on small instances in one run.  They    *)
(* share no variable, so each is explored from where the other began.      *)
(***************************************************************************)
EXTENDS WinningsViews, Recipients, TLC

\* WINNINGS: one billed to two accounts, one to a single account, points.
Pay(billed, installment) == [account |-> billed, installment |-> installment]
Winning(winner, type, category, external, pays) ==
  [winner |-> winner, type |-> type, category |-> category, external |-> external, pays |-> pays]

SmallCatalog ==
  [w \in 1 .. 3 |->
     CASE w = 1 -> Winning("m", "PAYMENT", "TASK_PAYMENT", 1, <<Pay("a", 1), Pay("b", 1)>>)
       [] w = 2 -> Winning("n", "PAYMENT", "TAAS_PAYMENT", 2, <<Pay("a", 1)>>)
       [] w = 3 -> Winning("m", "POINTS", "CONTEST_PAYMENT", 1, <<Pay("b", 1)>>)]

NoFilter ==
  [winnerId |-> {}, winnerIds |-> {}, externalIds |-> {}, category |-> {}, categories |-> {},
   type |-> {}, status |-> {}, billingAccounts |-> {}, date |-> {}, dateFrom |-> {}, dateTo |-> {},
   sortBy |-> {}, sortOrder |-> "desc", limit |-> {}, offset |-> {}]

Token(sub, roles, scopes) ==
  [bearer |-> TRUE, genuine |-> TRUE, audience |-> TRUE, email |-> TRUE,
   sub |-> sub, roles |-> roles, scopes |-> scopes]

Admin == Token("x", <<"Payment Admin">>, {})
Member == Token("m", <<"Topcoder User">>, {})
Machine == Token("x", << >>, {"create:payments"})

Ask(route, token, f) == [route |-> route, token |-> token, f |-> f, target |-> 1]

\* Searches of administrators whose view is narrowed, and of some who see everything.
ScopedSearches ==
  {Ask("search", Token("x", roles, {}), f) :
     roles \in {<<"Payment Approver">>, <<"Wipro TaaS Admin", "Payment Approver">>,
                <<"Payment Approver", "Wipro TaaS Admin">>,
                <<"Payment Admin", "Payment Approver">>, <<"Payment BA Admin">>},
     f \in {NoFilter, [NoFilter EXCEPT !.category = {"TAAS_PAYMENT"}]}}

\* An approver who names categories, and one who names another category as well.
ChosenCategories ==
  {Ask(route, Token("x", <<"Payment Approver">>, {}), f) :
     route \in {"search", "export"},
     f \in {[NoFilter EXCEPT !.categories = {{"TASK_PAYMENT", "TAAS_PAYMENT"}}],
            [NoFilter EXCEPT !.categories = {{"ENGAGEMENT_PAYMENT"}}, !.category = {"TASK_PAYMENT"}]}}

Pages ==
  {Ask("search", Admin, f) :
     f \in {[NoFilter EXCEPT !.limit = {1}, !.offset = {1}, !.sortBy = {"category"}, !.sortOrder = "asc"],
            [NoFilter EXCEPT !.limit = {2}, !.status = {{"OWED"}}, !.date = {"last7days"}],
            [NoFilter EXCEPT !.dateFrom = {1}, !.dateTo = {1}, !.winnerIds = {{"m"}}]}}

Exports ==
  {Ask("export", Admin, f) :
     f \in {NoFilter, [NoFilter EXCEPT !.status = {{"OWED"}}],
            [NoFilter EXCEPT !.externalIds = {{1}}, !.sortBy = {"category"}]}}
    \cup {Ask("export", Token("x", <<"Payment BA Admin">>, {}), NoFilter)}

Openings ==
  {Ask(route, Token("x", roles, {}), NoFilter) :
     route \in {"details", "audit", "payoutaudit"},
     roles \in {<<"Payment Approver">>, <<"Payment BA Admin">>}}

Others ==
  {Ask("list", Machine, [NoFilter EXCEPT !.winnerId = {"m"}]),
   Ask("list", Member, NoFilter),
   Ask("external", Token("x", << >>, {"read:payments"}), [NoFilter EXCEPT !.externalIds = {{1}}]),
   Ask("external", Machine, [NoFilter EXCEPT !.externalIds = {{1}}]),
   Ask("external", Token("x", <<"Talent Manager">>, {}), [NoFilter EXCEPT !.externalIds = {{1}}]),
   Ask("challenge", Member, NoFilter), Ask("challenge", Admin, NoFilter),
   Ask("challenge", Token("x", <<"Topcoder User", "Administrator">>, {}), NoFilter),
   Ask("challenge", [Token("n", <<"Topcoder User">>, {}) EXCEPT !.email = FALSE], NoFilter),
   Ask("challenge", Token("n", <<"Topcoder User">>, {}), NoFilter),
   Ask("user", Member, [NoFilter EXCEPT !.winnerId = {"m"}]),
   Ask("user", Member, [NoFilter EXCEPT !.winnerId = {"n"}]),
   Ask("user", Member, [NoFilter EXCEPT !.winnerId = {"m"}, !.externalIds = {{1}}]),
   Ask("wallet", Member, NoFilter),
   Ask("search", [Admin EXCEPT !.audience = FALSE], NoFilter),
   Ask("search", [Admin EXCEPT !.genuine = FALSE], NoFilter),
   Ask("search", [Admin EXCEPT !.bearer = FALSE], NoFilter),
   Ask("list", [Machine EXCEPT !.audience = FALSE], NoFilter)}

SmallRequests ==
  ScopedSearches \cup ChosenCategories \cup Pages \cup Exports \cup Openings \cup Others

SmallAccountSets == {{"a"}, {"a", "b"}}

portalVars == <<viewVars, linkVars>>

\* The addresses are interchangeable but for the refused one, and so are the ids: one way
\* to give them out stands for all.
PortalInit ==
  /\ ViewsInit /\ LinkInit
  /\ email = [m \in Members |-> IF m = "m" THEN "e1" ELSE "e2"]
  /\ \A i \in Ids \ {1} : recipient[i] = Absent

\* Nothing of the links has happened, and no recipient is there from before: the views
\* start beside one state of the links only.
LinksBegin ==
  /\ \A i \in Ids : recipient[i] = Absent
  /\ \A c \in LinkCalls : ask[c] = Unasked
  /\ moved = {}

PortalNext ==
  \/ LinksBegin /\ ViewsNext /\ UNCHANGED linkVars
  \/ ViewsInit /\ LinkNext /\ UNCHANGED viewVars

PortalSpec == PortalInit /\ [][PortalNext]_portalVars
=============================================================================
