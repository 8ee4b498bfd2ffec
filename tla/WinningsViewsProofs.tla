------------------------- MODULE WinningsViewsProofs -------------------------
(***************************************************************************)
(* Theorems about WinningsViews, for every choice of its constants: the    *)
(* types, who is shown whose winnings, and what the lists may miss or      *)
(* repeat of a table that changes while they are read.                     *)
(***************************************************************************)
EXTENDS WinningsViews, FiniteSetTheorems, WellFoundedInduction, TLAPS

CallFields == {"route", "token", "asked", "f", "target", "pc", "answer", "accounts", "wide", "offset",
               "moment", "found", "total"}
PayFields == {"account", "installment", "status", "version"}

\* A row is its winning of the catalog; only the status and the version of its payments
\* change.
IsRowOf(row, w) ==
  /\ DOMAIN row = {"winner", "type", "category", "external", "created", "pays"}
  /\ row.winner = Catalog[w].winner /\ row.category = Catalog[w].category
  /\ row.external = Catalog[w].external
  /\ row.created \in 0 .. clock
  /\ DOMAIN row.pays = DOMAIN Catalog[w].pays
  /\ \A i \in DOMAIN row.pays :
       /\ DOMAIN row.pays[i] = PayFields
       /\ row.pays[i].account = Catalog[w].pays[i].account
       /\ row.pays[i].status \in Statuses \cup {"ON_HOLD"}
       /\ row.pays[i].version \in 1 .. MaxVersion

RowsInv ==
  /\ clock \in 0 .. MaxClock
  /\ DOMAIN rows \subseteq AllWinnings /\ IsFiniteSet(DOMAIN rows)
  /\ \A w \in DOMAIN rows : IsRowOf(rows[w], w)
  /\ kept \cup entered \cup left \subseteq DOMAIN rows

CallInv ==
  call # NoCall =>
    /\ DOMAIN call = CallFields
    /\ call.route \in DOMAIN Route
    /\ call.token \in {q.token : q \in Requests} /\ call.target \in {q.target : q \in Requests}
    /\ call.pc \in Steps /\ call.answer \in Answers
    /\ call.wide \in BOOLEAN /\ call.offset \in Nat
    /\ IsFilters(call.asked) /\ IsFilters(call.f)
    /\ call.moment = {} \/ \E t \in Nat : call.moment = {t}
    /\ call.found = {} \/ \E s \in Seq(DOMAIN rows) : call.found = {s}
    /\ call.total = {} \/ \E n \in Nat : call.total = {n}

\* The type invariant, with the shape of the rows and of the filters.
TypeInv == RowsInv /\ CallInv

-----------------------------------------------------------------------------
(***************************************************************************)
(* Induction, as a fact about sets of numbers; the recursive definition of *)
(* applyFilters has its values by it.                                      *)
(***************************************************************************)

NatOrder == {p \in Nat \X Nat : p[1] < p[2]}

\* A set that has 0, and with a number the next one, has every number.
LEMMA NatInSet ==
  ASSUME NEW S, 0 \in S, \A n \in Nat : n \in S => n + 1 \in S
  PROVE  Nat \subseteq S
  <1> DEFINE T == Nat \ S
  <1> SUFFICES ASSUME T # {} PROVE FALSE
    OBVIOUS
  <1>1. IsWellFoundedOn(NatOrder, Nat)
    BY NatLessThanWellFounded DEF OpToRel, NatOrder
  <1>2. PICK n \in T : \A m \in T : <<m, n>> \notin NatOrder
    BY <1>1, WFMin
  <1>3. n # 0 /\ n - 1 \in Nat
    OBVIOUS
  <1>4. n - 1 \in S
    <2>1. <<n - 1, n>> \in NatOrder
      BY <1>3 DEF NatOrder
    <2> QED BY <1>2, <1>3, <2>1
  <1> QED BY <1>3, <1>4

\* The members of a sequence.
LEMMA MembersOfSeq ==
  ASSUME NEW S, NEW s \in Seq(S)
  PROVE  ToSet(s) \subseteq S /\ \A w \in ToSet(s) : \E i \in 1 .. Len(s) : s[i] = w
  BY DEF ToSet

\* The filters after each role of the claim.
LEMMA ApplyFiltersRoleByRole ==
  ASSUME NEW Names, NEW roles \in Seq(Names), NEW f, NEW accounts
  PROVE  \E out : /\ out[0] = f
                  /\ \A i \in 1 .. Len(roles) :
                       out[i] = ApplyFilter(roles[i], out[i - 1], roles, accounts)
                  /\ ApplyFilters(roles, f, accounts) = out[Len(roles)]
  <1> DEFINE L == Len(roles)
             F(r, g) == ApplyFilter(r, g, roles, accounts)
             Upto(g, n) == /\ DOMAIN g = 0 .. n /\ g[0] = f
                           /\ \A i \in 1 .. n : g[i] = F(roles[i], g[i - 1])
             S == {n \in Nat : \E g : Upto(g, n)}
             Rec(g) == g = [i \in 0 .. L |-> IF i = 0 THEN f ELSE F(roles[i], g[i - 1])]
  <1>1. L \in Nat
    OBVIOUS
  <1> HIDE DEF F, L
  <1>2. 0 \in S
    <2>1. Upto([i \in 0 .. 0 |-> f], 0)
      OBVIOUS
    <2> QED BY <2>1
  <1>3. ASSUME NEW n \in Nat, n \in S PROVE n + 1 \in S
    <2>1. PICK g : Upto(g, n)
      BY <1>3
    <2> DEFINE h == [i \in 0 .. n + 1 |-> IF i = n + 1 THEN F(roles[n + 1], g[n]) ELSE g[i]]
    <2>2. \A i \in 0 .. n : h[i] = g[i]
      OBVIOUS
    <2>3. h[n + 1] = F(roles[n + 1], h[n]) /\ DOMAIN h = 0 .. n + 1
      OBVIOUS
    <2> HIDE DEF h
    <2>4. ASSUME NEW i \in 1 .. n + 1 PROVE h[i] = F(roles[i], h[i - 1])
      <3>1. CASE i = n + 1
        BY <2>3, <3>1
      <3>2. CASE i \in 1 .. n
        BY <2>1, <2>2, <3>2
      <3> QED BY <3>1, <3>2
    <2>5. h[0] = f
      BY <2>1, <2>2
    <2>6. Upto(h, n + 1)
      BY <2>3, <2>4, <2>5
    <2> QED BY <2>6
  <1>4. PICK g : Upto(g, L)
    <2>1. Nat \subseteq S
      BY <1>2, <1>3, NatInSet
    <2> QED BY <1>1, <2>1
  <1> DEFINE h == [i \in 0 .. L |-> g[i]]
  <1>5. Rec(h)
    <2>1. ASSUME NEW i \in 0 .. L
          PROVE  h[i] = IF i = 0 THEN f ELSE F(roles[i], h[i - 1])
      BY <1>1, <1>4
    <2> HIDE DEF h
    <2>2. h = [i \in 0 .. L |-> h[i]]
      BY DEF h
    <2> QED BY <2>1, <2>2
  <1> HIDE DEF h
  <1> DEFINE out == CHOOSE x : Rec(x)
  <1>6. Rec(out)
    BY <1>5
  <1>7. ApplyFilters(roles, f, accounts) = out[L]
    BY DEF ApplyFilters, F, L
  <1> HIDE DEF out
  <1>8. out[0] = f /\ \A i \in 1 .. L : out[i] = F(roles[i], out[i - 1])
    BY <1>1, <1>6
  <1> QED BY <1>7, <1>8 DEF F, L

\* The filters that a category-scoped role leaves: `category` is the one of Wipro TaaS, or
\* it is gone and `categories` has some of the approver's.
InScope(f, roles) ==
  \/ f.category = {"TAAS_PAYMENT"} /\ "Wipro TaaS Admin" \in ScopedRoles(roles)
  \/ /\ f.category = {} /\ UNION f.categories # {}
     /\ UNION f.categories \subseteq ApproverCategories
     /\ "Payment Approver" \in ScopedRoles(roles)

\* The filters that a Payment BA Admin leaves.
BilledTo(f, accounts) == f.billingAccounts = {accounts}

BillingRoles(roles) == ScopedRoles(roles) \cap {"Payment BA Admin"}
CategoryRoles(roles) == ScopedRoles(roles) \cap {"Payment Approver", "Wipro TaaS Admin"}

\* The filters that narrow for role r and later ones stay narrow.
LEMMA ApplyFilterNarrows ==
  ASSUME NEW roles, NEW f, NEW accounts, NEW r, IsFilters(f),
         NEW g, g = ApplyFilter(r, f, roles, accounts)
  PROVE  /\ IsFilters(g)
         /\ r \in CategoryRoles(roles) \/ InScope(f, roles) => InScope(g, roles)
         /\ \/ r \in BillingRoles(roles)
            \/ BilledTo(f, accounts)
            => BilledTo(g, accounts)
  <1> USE DEF IsFilters, FilterFields, BilledTo, BillingRoles
  <1>1. CASE r \notin ScopedRoles(roles)
    <2>1. g = f
      BY <1>1 DEF ApplyFilter
    <2> QED BY <1>1, <2>1 DEF CategoryRoles
  <1>2. CASE r \in ScopedRoles(roles) /\ r = "Payment Approver"
    <2>1. g = ApproverFilter(f)
      BY <1>2 DEF ApplyFilter
    <2>2. /\ DOMAIN g = FilterFields /\ g.category = {}
          /\ \A k \in FilterFields \ {"category", "categories"} : g[k] = f[k]
          /\ \E c \in SUBSET ApproverCategories : c # {} /\ g.categories = {c}
      BY <2>1 DEF ApproverFilter, ApproverCategories
    <2>3. InScope(g, roles)
      BY <1>2, <2>2 DEF InScope
    <2> QED BY <1>2, <2>2, <2>3
  <1>3. CASE r \in ScopedRoles(roles) /\ r = "Wipro TaaS Admin"
    <2>1. g = WiproFilter(f)
      BY <1>3 DEF ApplyFilter
    <2> QED BY <1>3, <2>1 DEF WiproFilter, InScope
  <1>4. CASE r \in ScopedRoles(roles) /\ r = "Payment BA Admin"
    <2>1. g = BillingFilter(f, accounts)
      BY <1>4 DEF ApplyFilter
    <2> QED BY <1>4, <2>1 DEF BillingFilter, InScope, CategoryRoles
  <1> QED BY <1>1, <1>2, <1>3, <1>4 DEF ScopedRoles

\* Whatever the order of the roles: the filters are in scope at the end, and ask for the
\* billing accounts of the caller.
LEMMA ApplyFiltersNarrows ==
  ASSUME NEW Names, NEW roles \in Seq(Names), NEW f, NEW accounts, IsFilters(f)
  PROVE  LET g == ApplyFilters(roles, f, accounts)
         IN  /\ IsFilters(g)
             /\ CategoryRoles(roles) # {} => InScope(g, roles)
             /\ "Payment BA Admin" \in ScopedRoles(roles) => BilledTo(g, accounts)
  <1>1. PICK out : /\ out[0] = f
                   /\ \A i \in 1 .. Len(roles) :
                        out[i] = ApplyFilter(roles[i], out[i - 1], roles, accounts)
                   /\ ApplyFilters(roles, f, accounts) = out[Len(roles)]
    BY ApplyFiltersRoleByRole
  <1> DEFINE L == Len(roles)
             After(n) ==
               /\ IsFilters(out[n])
               /\ (\E i \in 1 .. n : roles[i] \in CategoryRoles(roles)) => InScope(out[n], roles)
               /\ (\E i \in 1 .. n : roles[i] \in BillingRoles(roles))
                    => BilledTo(out[n], accounts)
             S == {n \in Nat : n <= L => After(n)}
  <1>2. L \in Nat
    OBVIOUS
  <1>3. After(0)
    BY <1>1
  <1>4. ASSUME NEW n \in Nat, n + 1 \in 1 .. Len(roles), After(n) PROVE After(n + 1)
    <2>1. out[n + 1] = ApplyFilter(roles[n + 1], out[n], roles, accounts)
      <3>1. (n + 1) - 1 = n
        OBVIOUS
      <3> QED BY <1>1, <1>4, <3>1
    <2>2. /\ IsFilters(out[n + 1])
          /\ roles[n + 1] \in CategoryRoles(roles) \/ InScope(out[n], roles) => InScope(out[n + 1], roles)
          /\ \/ roles[n + 1] \in BillingRoles(roles)
             \/ BilledTo(out[n], accounts)
             => BilledTo(out[n + 1], accounts)
      <3>1. IsFilters(out[n])
        BY <1>4
      <3> HIDE DEF After
      <3> QED BY <2>1, <3>1, ApplyFilterNarrows
    <2>3. \A i \in 1 .. n + 1 : i = n + 1 \/ i \in 1 .. n
      OBVIOUS
    <2> QED BY <1>4, <2>2, <2>3
  <1> HIDE DEF After, L
  <1>5. After(L)
    <2>1. 0 \in S
      BY <1>3
    <2>2. ASSUME NEW n \in Nat, n \in S PROVE n + 1 \in S
      <3>1. n + 1 <= L => n <= L /\ n + 1 \in 1 .. L
        BY <1>2
      <3> QED BY <1>4, <2>2, <3>1 DEF L
    <2>3. Nat \subseteq S
      BY <2>1, <2>2, NatInSet
    <2> QED BY <1>2, <2>3
  <1>6. \A r \in ScopedRoles(roles) : \E i \in 1 .. L : roles[i] = r
    BY MembersOfSeq DEF ScopedRoles, L
  <1> QED BY <1>1, <1>5, <1>6 DEF CategoryRoles, BillingRoles, After, L

\* An approver asked for one of `category` and `categories` only.
OneCategoryFilter(f, roles) ==
  "Payment Approver" \in ScopedRoles(roles) => f.category = {} \/ UNION f.categories = {}

\* What matches and may be opened still matches after a role's provider.
LEMMA ApplyFilterKeeps ==
  ASSUME NEW roles, NEW f, NEW accounts, NEW r, IsFilters(f), NEW row, NEW now,
         Matches(f, row, now), MayOpen(roles, {row}, accounts), OneCategoryFilter(f, roles),
         NEW g, g = ApplyFilter(r, f, roles, accounts)
  PROVE  Matches(g, row, now) /\ OneCategoryFilter(g, roles)
  <1> DEFINE Rest == FilterFields \ {"category", "categories", "billingAccounts"}
             Others == /\ \A ids \in Winners(f) : row.winner \in ids
                       /\ \A ids \in Externals(f) : row.external \in ids
                       /\ f.type # {} => row.type \in f.type
                       /\ CreatedInRange(f, now, row.created)
  <1>1. ASSUME "Payment Approver" \in ScopedRoles(roles) PROVE row.category \in ApproverCategories
    <2>1. ApproverMayOpen({row})
      BY <1>1 DEF MayOpen
    <2> QED BY <2>1 DEF ApproverMayOpen
  <1>2. ASSUME "Wipro TaaS Admin" \in ScopedRoles(roles) PROVE row.category = "TAAS_PAYMENT"
    <2>1. WiproMayOpen({row})
      BY <1>2 DEF MayOpen
    <2> QED BY <2>1 DEF WiproMayOpen
  <1>3. ASSUME "Payment BA Admin" \in ScopedRoles(roles)
        PROVE  \A i \in DOMAIN row.pays : row.pays[i].account \in accounts
    <2>1. BillingMayOpen({row}, accounts)
      BY <1>3 DEF MayOpen
    <2> QED BY <2>1 DEF BillingMayOpen
  <1>4. Others /\ AsksCategory(f, row) /\ AsksPayment(f, row)
    BY DEF Matches
  <1>5. ASSUME \A k \in Rest : g[k] = f[k], AsksCategory(g, row), AsksPayment(g, row)
        PROVE  Matches(g, row, now)
    <2>1. /\ g.winnerId = f.winnerId /\ g.winnerIds = f.winnerIds /\ g.externalIds = f.externalIds
          /\ g.type = f.type /\ g.date = f.date /\ g.dateFrom = f.dateFrom /\ g.dateTo = f.dateTo
      BY <1>5 DEF FilterFields
    <2>2. /\ Winners(g) = Winners(f) /\ Externals(g) = Externals(f)
          /\ CreatedInRange(g, now, row.created) <=> CreatedInRange(f, now, row.created)
      BY <2>1 DEF Winners, Externals, CreatedInRange, CustomRange, NamedWindow
    <2> QED BY <1>4, <1>5, <2>1, <2>2 DEF Matches
  <1> HIDE DEF Others
  <1>6. CASE r \notin ScopedRoles(roles)
    BY <1>6 DEF ApplyFilter
  <1>7. CASE r \in ScopedRoles(roles) /\ r = "Payment Approver"
    <2>1. g = ApproverFilter(f)
      BY <1>7 DEF ApplyFilter
    <2> DEFINE asked == ApproverCategories \cap IF f.categories # {} THEN UNION f.categories ELSE f.category
    <2>2. /\ \A k \in Rest \cup {"billingAccounts"} : g[k] = f[k]
          /\ g.category = {} /\ g.categories = {IF asked # {} THEN asked ELSE ApproverCategories}
      BY <2>1 DEF ApproverFilter, IsFilters, FilterFields
    <2>3. asked # {} => row.category \in asked
      BY <1>1, <1>4, <1>7 DEF AsksCategory, OneCategoryFilter
    <2>4. AsksCategory(g, row)
      <3> HIDE DEF asked
      <3> QED BY <1>1, <1>7, <2>2, <2>3 DEF AsksCategory
    <2>5. AsksPayment(g, row)
      <3>1. g.status = f.status /\ g.billingAccounts = f.billingAccounts
        BY <2>2 DEF FilterFields
      <3> QED BY <1>4, <3>1 DEF AsksPayment
    <2> QED BY <1>5, <2>2, <2>4, <2>5 DEF OneCategoryFilter
  <1>8. CASE r \in ScopedRoles(roles) /\ r = "Wipro TaaS Admin"
    <2>1. g = WiproFilter(f)
      BY <1>8 DEF ApplyFilter
    <2>2. /\ \A k \in Rest \cup {"billingAccounts"} : g[k] = f[k]
          /\ g.category = {"TAAS_PAYMENT"}
      BY <2>1 DEF WiproFilter, IsFilters, FilterFields
    <2>3. AsksCategory(g, row)
      BY <1>2, <1>8, <2>2 DEF AsksCategory
    <2>4. AsksPayment(g, row)
      <3>1. g.status = f.status /\ g.billingAccounts = f.billingAccounts
        BY <2>2 DEF FilterFields
      <3> QED BY <1>4, <3>1 DEF AsksPayment
    <2>5. "Payment Approver" \notin ScopedRoles(roles)
      BY <1>1, <1>2, <1>8 DEF ApproverCategories
    <2> QED BY <1>5, <2>2, <2>3, <2>4, <2>5 DEF OneCategoryFilter
  <1>9. CASE r \in ScopedRoles(roles) /\ r = "Payment BA Admin"
    <2>1. g = BillingFilter(f, accounts)
      BY <1>9 DEF ApplyFilter
    <2>2. /\ \A k \in Rest \cup {"category", "categories"} : g[k] = f[k]
          /\ g.billingAccounts = {accounts}
      BY <2>1 DEF BillingFilter, IsFilters, FilterFields
    <2>3. g.category = f.category /\ g.categories = f.categories /\ g.status = f.status
      BY <2>2 DEF FilterFields
    <2>4. AsksCategory(g, row)
      BY <1>4, <2>3 DEF AsksCategory
    <2>5. AsksPayment(g, row)
      BY <1>3, <1>4, <1>9, <2>2, <2>3 DEF AsksPayment
    <2> QED BY <1>5, <2>2, <2>3, <2>4, <2>5 DEF OneCategoryFilter
  <1> QED BY <1>6, <1>7, <1>8, <1>9 DEF ScopedRoles

\* Whatever the order of the roles: what matches and may be opened still matches at the end.
LEMMA ApplyFiltersKeeps ==
  ASSUME NEW Names, NEW roles \in Seq(Names), NEW f, NEW accounts, IsFilters(f), NEW row, NEW now,
         Matches(f, row, now), MayOpen(roles, {row}, accounts), OneCategoryFilter(f, roles)
  PROVE  Matches(ApplyFilters(roles, f, accounts), row, now)
  <1>1. PICK out : /\ out[0] = f
                   /\ \A i \in 1 .. Len(roles) :
                        out[i] = ApplyFilter(roles[i], out[i - 1], roles, accounts)
                   /\ ApplyFilters(roles, f, accounts) = out[Len(roles)]
    BY ApplyFiltersRoleByRole
  <1> DEFINE L == Len(roles)
             After(n) == /\ IsFilters(out[n]) /\ Matches(out[n], row, now)
                         /\ OneCategoryFilter(out[n], roles)
             S == {n \in Nat : n <= L => After(n)}
  <1>2. L \in Nat
    OBVIOUS
  <1>3. After(0)
    BY <1>1
  <1>4. ASSUME NEW n \in Nat, n + 1 \in 1 .. Len(roles), After(n) PROVE After(n + 1)
    <2>1. out[n + 1] = ApplyFilter(roles[n + 1], out[n], roles, accounts)
      <3>1. (n + 1) - 1 = n
        OBVIOUS
      <3> QED BY <1>1, <1>4, <3>1
    <2>2. IsFilters(out[n]) /\ Matches(out[n], row, now) /\ OneCategoryFilter(out[n], roles)
      BY <1>4
    <2> HIDE DEF After
    <2>3. /\ IsFilters(out[n + 1]) /\ Matches(out[n + 1], row, now)
          /\ OneCategoryFilter(out[n + 1], roles)
      BY <2>1, <2>2, ApplyFilterNarrows, ApplyFilterKeeps
    <2> QED BY <2>3 DEF After
  <1> HIDE DEF After, L
  <1>5. After(L)
    <2>1. 0 \in S
      BY <1>3
    <2>2. ASSUME NEW n \in Nat, n \in S PROVE n + 1 \in S
      <3>1. n + 1 <= L => n <= L /\ n + 1 \in 1 .. L
        BY <1>2
      <3> QED BY <1>4, <2>2, <3>1 DEF L
    <2>3. Nat \subseteq S
      BY <2>1, <2>2, NatInSet
    <2> QED BY <1>2, <2>3
  <1> QED BY <1>1, <1>5 DEF After, L

\* The initial states have their types.
LEMMA InitType == ViewsInit => TypeInv
  BY ViewsAssumption, FS_EmptySet DEF ViewsInit, TypeInv, RowsInv, CallInv, NoCall, ViewsAssumption

\* The type invariant of the runs follows.
LEMMA TypeInvImplies == TypeInv => ViewsTypeOK
  <1> SUFFICES ASSUME TypeInv PROVE ViewsTypeOK
    OBVIOUS
  <1>1. ASSUME call # NoCall
        PROVE  [k \in {"route", "token", "target", "pc", "answer", "wide", "offset", "moment"} |-> call[k]] \in Calls
    BY <1>1 DEF TypeInv, CallInv, Calls
  <1>2. ASSUME call # NoCall
        PROVE  /\ \A s \in call.found : ToSet(s) \subseteq DOMAIN rows
               /\ Cardinality(call.found) <= 1 /\ call.total \subseteq Nat
    <2>1. call.found = {} \/ \E s \in Seq(DOMAIN rows) : call.found = {s}
      BY <1>2 DEF TypeInv, CallInv
    <2>2. Cardinality(call.found) <= 1
      <3>1. CASE call.found = {}
        BY <3>1, FS_EmptySet
      <3>2. ASSUME NEW s, call.found = {s} PROVE Cardinality(call.found) <= 1
        <4>1. Cardinality({s}) = 1
          BY FS_Singleton
        <4> QED BY <3>2, <4>1
      <3> QED BY <2>1, <3>1, <3>2
    <2>3. ASSUME NEW s \in call.found PROVE ToSet(s) \subseteq DOMAIN rows
      <3>1. s \in Seq(DOMAIN rows)
        BY <2>1
      <3> QED BY <3>1, MembersOfSeq
    <2> QED BY <1>2, <2>2, <2>3 DEF TypeInv, CallInv
  <1> QED BY <1>1, <1>2 DEF TypeInv, RowsInv, IsRowOf, ViewsTypeOK

-----------------------------------------------------------------------------
(***************************************************************************)
(* What the steps do to the rows.                                          *)
(***************************************************************************)

\* What the lists sort and scope by is never written again, and no row is removed.
RowsGrow ==
  /\ clock' \in 0 .. MaxClock /\ clock <= clock'
  /\ DOMAIN rows \subseteq DOMAIN rows'
  /\ DOMAIN rows' \subseteq AllWinnings /\ IsFiniteSet(DOMAIN rows')
  /\ \A w \in DOMAIN rows' : IsRowOf(rows[w], w)'
  /\ \A w \in DOMAIN rows : rows'[w].created = rows[w].created

\* The insert of a winning.
LEMMA CreateRows == ASSUME TypeInv, NEW w \in AllWinnings, Create(w) PROVE RowsGrow
  <1> DEFINE row == [winner |-> Catalog[w].winner, type |-> Catalog[w].type,
                     category |-> Catalog[w].category, external |-> Catalog[w].external,
                     created |-> clock,
                     pays |-> [i \in DOMAIN Catalog[w].pays |->
                                 [account |-> Catalog[w].pays[i].account,
                                  installment |-> Catalog[w].pays[i].installment,
                                  status |-> "OWED", version |-> 1]]]
  <1>1. /\ rows' = [v \in DOMAIN rows \cup {w} |-> IF v = w THEN row ELSE rows[v]]
        /\ clock' = clock /\ w \notin DOMAIN rows
    BY DEF Create
  <1>2. IsRowOf(row, w)
    BY ViewsAssumption DEF ViewsAssumption, IsRowOf, PayFields, TypeInv, RowsInv
  <1>3. IsFiniteSet(DOMAIN rows')
    BY <1>1, FS_AddElement DEF TypeInv, RowsInv
  <1>4. \A v \in DOMAIN rows' : IsRowOf(rows'[v], v)
    BY <1>1, <1>2 DEF TypeInv, RowsInv
  <1>5. \A v \in DOMAIN rows' : IsRowOf(rows[v], v)'
    <2>1. clock' = clock
      BY <1>1
    <2> QED BY <1>4, <2>1 DEF IsRowOf
  <1> HIDE DEF row
  <1> QED BY <1>1, <1>3, <1>5 DEF RowsGrow, TypeInv, RowsInv

\* An edit of a payment.
LEMMA EditRows ==
  ASSUME TypeInv, NEW w \in DOMAIN rows, NEW i \in DOMAIN rows[w].pays, NEW s \in Statuses,
         Edit(w, i, s)
  PROVE  RowsGrow
  <1>1. /\ rows' = [rows EXCEPT ![w].pays[i].status = s, ![w].pays[i].version = @ + 1]
        /\ clock' = clock /\ rows[w].pays[i].version < MaxVersion
    BY DEF Edit
  <1>2. IsRowOf(rows[w], w)
    BY DEF TypeInv, RowsInv
  <1>3. IsRowOf(rows'[w], w)
    <2>1. /\ DOMAIN rows'[w] = DOMAIN rows[w]
          /\ rows'[w].winner = rows[w].winner /\ rows'[w].category = rows[w].category
          /\ rows'[w].external = rows[w].external /\ rows'[w].created = rows[w].created
          /\ DOMAIN rows'[w].pays = DOMAIN rows[w].pays
      BY <1>1, <1>2 DEF IsRowOf
    <2>2. \A j \in DOMAIN rows[w].pays : j # i => rows'[w].pays[j] = rows[w].pays[j]
      BY <1>1, <1>2 DEF IsRowOf
    <2>3. DOMAIN rows[w].pays[i] = PayFields
      BY <1>2 DEF IsRowOf
    <2>4. /\ DOMAIN rows'[w].pays[i] = PayFields
          /\ rows'[w].pays[i].account = rows[w].pays[i].account
          /\ rows'[w].pays[i].status = s
          /\ rows'[w].pays[i].version = rows[w].pays[i].version + 1
      BY <1>1, <1>2, <2>3 DEF IsRowOf, PayFields
    <2>5. rows'[w].pays[i].version \in 1 .. MaxVersion
      BY <1>1, <1>2, <2>4, ViewsAssumption DEF ViewsAssumption, IsRowOf
    <2> QED BY <1>2, <2>1, <2>2, <2>4, <2>5 DEF IsRowOf
  <1>4. rows'[w].created = rows[w].created
    BY <1>1, <1>2 DEF IsRowOf
  <1>5. \A v \in DOMAIN rows' \ {w} : rows'[v] = rows[v]
    BY <1>1
  <1>6. DOMAIN rows' = DOMAIN rows
    BY <1>1
  <1>7. \A v \in DOMAIN rows' : IsRowOf(rows'[v], v)
    BY <1>3, <1>5, <1>6 DEF TypeInv, RowsInv
  <1>8. \A v \in DOMAIN rows' : IsRowOf(rows[v], v)'
    <2>1. clock' = clock
      BY <1>1
    <2> QED BY <1>7, <2>1 DEF IsRowOf
  <1>9. clock' \in 0 .. MaxClock /\ clock <= clock'
    BY <1>1, ViewsAssumption DEF ViewsAssumption, TypeInv, RowsInv
  <1> QED BY <1>4, <1>5, <1>6, <1>8, <1>9 DEF RowsGrow, TypeInv, RowsInv

\* The reconciliation of a member's payments.
LEMMA ReconcileRows ==
  ASSUME TypeInv, NEW to \in {"OWED", "ON_HOLD"}, ReconcileOwn(to)
  PROVE  RowsGrow
  <1> DEFINE Toggled(p) == IF p.status \in {"OWED", "ON_HOLD"} THEN [p EXCEPT !.status = to] ELSE p
             New(w) == IF rows[w].winner \notin Caller THEN rows[w]
                       ELSE [rows[w] EXCEPT !.pays = [i \in DOMAIN @ |-> Toggled(@[i])]]
  <1>1. rows' = [w \in DOMAIN rows |-> New(w)] /\ clock' = clock
    BY DEF ReconcileOwn
  <1>2. ASSUME NEW w \in DOMAIN rows
        PROVE  IsRowOf(New(w), w) /\ New(w).created = rows[w].created
    <2>1. IsRowOf(rows[w], w)
      BY DEF TypeInv, RowsInv
    <2>2. CASE rows[w].winner \notin Caller
      BY <2>1, <2>2
    <2>3. CASE rows[w].winner \in Caller
      <3>1. New(w) = [rows[w] EXCEPT !.pays = [i \in DOMAIN rows[w].pays |-> Toggled(rows[w].pays[i])]]
        BY <2>3
      <3>2. ASSUME NEW i \in DOMAIN rows[w].pays
            PROVE  /\ DOMAIN Toggled(rows[w].pays[i]) = PayFields
                   /\ Toggled(rows[w].pays[i]).account = rows[w].pays[i].account
                   /\ Toggled(rows[w].pays[i]).status \in Statuses \cup {"ON_HOLD"}
                   /\ Toggled(rows[w].pays[i]).version = rows[w].pays[i].version
        BY <2>1, ViewsAssumption DEF IsRowOf, PayFields, ViewsAssumption
      <3> HIDE DEF Toggled, New
      <3>3. /\ New(w).winner = rows[w].winner /\ New(w).category = rows[w].category
            /\ New(w).external = rows[w].external /\ New(w).created = rows[w].created
            /\ DOMAIN New(w) = DOMAIN rows[w]
            /\ New(w).pays = [i \in DOMAIN rows[w].pays |-> Toggled(rows[w].pays[i])]
        BY <2>1, <3>1 DEF IsRowOf
      <3> QED BY <2>1, <3>2, <3>3 DEF IsRowOf
    <2> QED BY <2>2, <2>3
  <1> HIDE DEF New
  <1>3. DOMAIN rows' = DOMAIN rows /\ \A w \in DOMAIN rows : rows'[w] = New(w)
    BY <1>1
  <1>4. \A v \in DOMAIN rows' : IsRowOf(rows[v], v)'
    BY <1>1, <1>2, <1>3 DEF IsRowOf
  <1>5. clock' \in 0 .. MaxClock /\ clock <= clock'
    BY <1>1, ViewsAssumption DEF ViewsAssumption, TypeInv, RowsInv
  <1> QED BY <1>2, <1>3, <1>4, <1>5 DEF RowsGrow, TypeInv, RowsInv

\* Nothing is written.
LEMMA StillRows == ASSUME TypeInv, rows' = rows, clock' = clock PROVE RowsGrow
  <1>1. \A v \in DOMAIN rows' : IsRowOf(rows[v], v)'
    BY DEF TypeInv, RowsInv, IsRowOf
  <1> QED BY <1>1, ViewsAssumption DEF ViewsAssumption, RowsGrow, TypeInv, RowsInv

\* The clock moves on.
LEMMA TickRows == ASSUME TypeInv, Tick PROVE RowsGrow
  <1>1. rows' = rows /\ clock' = clock + 1 /\ clock < MaxClock /\ clock \in Nat /\ MaxClock \in Nat
    BY ViewsAssumption DEF Tick, ViewsAssumption, TypeInv, RowsInv
  <1>2. \A v \in DOMAIN rows' : IsRowOf(rows[v], v)'
    BY <1>1 DEF TypeInv, RowsInv, IsRowOf
  <1> QED BY <1>1, <1>2 DEF RowsGrow, TypeInv, RowsInv

\* The steps of the request that read and do not write.
ReadStep ==
  \/ \E q \in Requests, keys \in BOOLEAN : Arrive(q, keys)
  \/ \E accounts \in AccountSets \cup {{}} : Narrow(accounts) \/ Verify(accounts)
  \/ \E ok \in BOOLEAN : ReadSetup(ok)
  \/ \E answer \in {"wide", "none", "failed"} : LookUpResources(answer)
  \/ \E s \in SearchOrders : ReadPage(s) \/ ReadBatch(s) \/ ReadExternal(s)
  \/ \E s \in ChallengeOrders : ReadChallenge(s)
  \/ NarrowFails \/ CheckOwn \/ ReconcileFails \/ ReadCount \/ QueryFails \/ ReadTotals
  \/ VerifyFails \/ Open \/ OpenFails

\* The steps of the others, and time.
OtherStep ==
  \/ \E w \in AllWinnings : Create(w)
  \/ \E w \in DOMAIN rows : \E i \in DOMAIN rows[w].pays, s \in Statuses : Edit(w, i, s)
  \/ Tick

\* A step is one of the others', one that reads, or the reconciliation.
LEMMA Steps3 ==
  ViewsNext <=> OtherStep \/ ReadStep \/ \E to \in {"OWED", "ON_HOLD"} : ReconcileOwn(to)
  BY DEF ViewsNext, OtherStep, ReadStep

\* The steps that read leave the table as it is.
LEMMA ReadStepStill == ReadStep => UNCHANGED <<rows, clock>>
  BY DEF ReadStep, Arrive, Narrow, Verify, ReadSetup, LookUpResources, ReadPage, ReadBatch,
         ReadExternal, ReadChallenge, NarrowFails, CheckOwn, ReconcileFails, ReadCount, QueryFails,
         ReadTotals, VerifyFails, Open, OpenFails

\* Every step keeps what the lists go by.
LEMMA RowSteps == ASSUME TypeInv, [ViewsNext]_viewVars PROVE RowsGrow
  <1>1. CASE OtherStep
    BY <1>1, CreateRows, EditRows, TickRows DEF OtherStep
  <1>2. CASE ReadStep \/ UNCHANGED viewVars
    BY <1>2, ReadStepStill, StillRows DEF viewVars
  <1> QED BY <1>1, <1>2, Steps3, ReconcileRows

-----------------------------------------------------------------------------
(***************************************************************************)
(* What the steps do to the watch.                                         *)
(***************************************************************************)

\* The steps of the others, when a search is under way.
LEMMA ObserveSteps ==
  ASSUME OtherStep
  PROVE  /\ call' = call /\ ~Finished
         /\ ~Reading => UNCHANGED watch
         /\ Reading => LET was == Matching(call.f, rows, Moment)
                           is == Matching(call.f, rows', MomentAt(clock'))
                       IN  /\ kept' = kept \cap is
                           /\ entered' = entered \cup (is \ was)
                           /\ left' = left \cup (was \ is)
  <1>1. ASSUME NEW w \in AllWinnings, Create(w)
        PROVE  call' = call /\ clock' = clock /\ ~Finished /\ Observe(rows', clock)
    BY <1>1 DEF Create
  <1>2. ASSUME NEW w \in DOMAIN rows, NEW i \in DOMAIN rows[w].pays, NEW s \in Statuses, Edit(w, i, s)
        PROVE  call' = call /\ clock' = clock /\ ~Finished /\ Observe(rows', clock)
    BY <1>2 DEF Edit
  <1>3. ASSUME Tick
        PROVE  call' = call /\ rows' = rows /\ ~Finished /\ Observe(rows, clock')
    BY <1>3 DEF Tick
  <1>4. call' = call /\ ~Finished /\ Observe(rows', clock')
    BY <1>1, <1>2, <1>3 DEF OtherStep
  <1> QED BY <1>4 DEF Observe, watch

\* The moment whose date window a search goes by.
LEMMA MomentType ==
  ASSUME TypeInv, call # NoCall
  PROVE  Moment \in Nat
  <1>1. clock \in Nat
    BY ViewsAssumption DEF TypeInv, RowsInv, ViewsAssumption
  <1>2. call.moment = {} \/ \E t \in Nat : call.moment = {t}
    BY DEF TypeInv, CallInv
  <1> QED BY <1>1, <1>2 DEF Moment, MomentAt

\* It stays when the clock does, whether or not the request fixes it.
LEMMA MomentStays ==
  ASSUME clock' = clock, call'.moment = call.moment \/ call'.moment = {Moment}
  PROVE  Moment' = Moment
  <1>1. Moment' = IF call'.moment = {} THEN clock ELSE CHOOSE t \in call'.moment : TRUE
    BY DEF Moment, MomentAt
  <1>2. CASE call'.moment = call.moment
    <2>1. CASE call.moment = {}
      BY <1>1, <1>2, <2>1 DEF Moment, MomentAt
    <2>2. CASE call.moment # {}
      <3>1. Moment = CHOOSE t \in call.moment : TRUE
        BY <2>2 DEF Moment, MomentAt
      <3>2. Moment' = CHOOSE t \in call.moment : TRUE
        BY <1>1, <1>2, <2>2
      <3> QED BY <3>1, <3>2
    <2> QED BY <2>1, <2>2
  <1>3. CASE call'.moment = {Moment}
    <2> DEFINE m == Moment
    <2>1. call'.moment = {m} /\ {m} # {}
      BY <1>3
    <2> HIDE DEF m
    <2>2. (CHOOSE t \in {m} : TRUE) \in {m}
      OBVIOUS
    <2>3. (CHOOSE t \in call'.moment : TRUE) = m
      BY <2>1, <2>2, Zenon
    <2>4. Moment' = m
      BY <1>1, <2>1, <2>3, Zenon
    <2> QED BY <2>4 DEF m
  <1> QED BY <1>2, <1>3

\* The steps of the request, but for the queries of a search, have none to watch.
LEMMA QuietSteps ==
  ASSUME ReadStep
  PROVE  \/ UNCHANGED watch
         \/ call.pc = "page" /\ kept' = Matching(call.f, rows, Moment) /\ UNCHANGED <<entered, left>>
  BY DEF ReadStep, Arrive, Narrow, Verify, ReadSetup, LookUpResources, ReadPage, ReadBatch,
         ReadExternal, ReadChallenge, NarrowFails, CheckOwn, ReconcileFails, ReadCount, QueryFails,
         ReadTotals, VerifyFails, Open, OpenFails, Watch, watch

\* The rows that match are rows of the table.
LEMMA MatchingRows == \A f, table, now : Matching(f, table, now) \subseteq DOMAIN table
  BY DEF Matching

\* The rows and the watch keep their types.
LEMMA RowsInvStep == ASSUME TypeInv, [ViewsNext]_viewVars PROVE RowsInv'
  <1>1. RowsGrow
    BY RowSteps
  <1>2. (kept \cup entered \cup left)' \subseteq DOMAIN rows'
    <2>1. kept \cup entered \cup left \subseteq DOMAIN rows /\ DOMAIN rows \subseteq DOMAIN rows'
      BY <1>1 DEF TypeInv, RowsInv, RowsGrow
    <2>2. CASE OtherStep
      BY <2>1, <2>2, ObserveSteps, MatchingRows DEF watch
    <2>3. CASE ReadStep
      BY <2>1, <2>3, QuietSteps, MatchingRows DEF watch
    <2>4. ASSUME NEW to \in {"OWED", "ON_HOLD"}, ReconcileOwn(to) PROVE UNCHANGED watch
      BY <2>4 DEF ReconcileOwn, watch
    <2>5. CASE UNCHANGED viewVars
      BY <2>1, <2>5 DEF viewVars
    <2> QED BY <2>1, <2>2, <2>3, <2>4, <2>5, Steps3 DEF watch
  <1> QED BY <1>1, <1>2 DEF RowsGrow, RowsInv

-----------------------------------------------------------------------------
(***************************************************************************)
(* Lists: the orders of a finite set, and pages of them.                   *)
(***************************************************************************)

\* The empty list has any type.
LEMMA EmptySeq == \A S : << >> \in Seq(S)
  OBVIOUS

\* A sequence of some rows is one of more rows.
LEMMA SeqGrows == ASSUME NEW S, NEW T, S \subseteq T, NEW s \in Seq(S) PROVE s \in Seq(T)
  OBVIOUS

\* What the database returns lists the rows it found, each of them once.
LEMMA OrdersList ==
  ASSUME NEW f, NEW table, NEW S, IsFiniteSet(S), NEW s \in Orders(f, table, S)
  PROVE  /\ s \in Seq(S) /\ Len(s) = Cardinality(S) /\ Cardinality(S) \in Nat
         /\ \A i, j \in 1 .. Len(s) : i # j => s[i] # s[j]
         /\ \A i, j \in 1 .. Len(s) : i < j => ~Before(f, table[s[j]], table[s[i]])
         /\ \A w \in S : \E i \in 1 .. Len(s) : s[i] = w
  <1>1. Cardinality(S) \in Nat
    BY FS_CardinalityType
  <1>2. /\ s \in [1 .. Cardinality(S) -> S]
        /\ \A i, j \in 1 .. Cardinality(S) : i # j => s[i] # s[j]
    BY DEF Orders, SetToSeqs
  <1>3. s \in Seq(S) /\ Len(s) = Cardinality(S) /\ DOMAIN s = 1 .. Cardinality(S)
    BY <1>1, <1>2
  <1>4. \A i, j \in DOMAIN s : i < j => ~Before(f, table[s[j]], table[s[i]])
    BY DEF Orders
  <1>5. \A w \in S : \E i \in 1 .. Cardinality(S) : s[i] = w
    <2>1. s \in Injection(1 .. Cardinality(S), S)
      BY <1>2 DEF Injection, IsInjective
    <2>2. IsFiniteSet(1 .. Cardinality(S)) /\ Cardinality(1 .. Cardinality(S)) = Cardinality(S)
      BY <1>1, FS_Interval
    <2>3. s \in Surjection(1 .. Cardinality(S), S)
      BY <2>1, <2>2, FS_Injection
    <2> QED BY <2>3 DEF Surjection
  <1> QED BY <1>1, <1>2, <1>3, <1>4, <1>5

\* How many of n rows are on a page.
TakeLength(n, offset, limit) ==
  IF n <= offset THEN 0 ELSE IF n - offset < limit THEN n - offset ELSE limit

\* A page of a list: some of its rows, each once, as many as are left of them.
LEMMA TakeList ==
  ASSUME NEW S, NEW s \in Seq(S), \A i, j \in 1 .. Len(s) : i # j => s[i] # s[j],
         NEW offset \in Nat, NEW limit \in Nat
  PROVE  LET page == Take(s, offset, limit)
         IN  /\ page \in Seq(S)
             /\ Len(page) = TakeLength(Len(s), offset, limit)
             /\ \A i \in 1 .. Len(page) : offset + i \in 1 .. Len(s) /\ page[i] = s[offset + i]
             /\ \A i, j \in 1 .. Len(page) : i # j => page[i] # page[j]
  <1> DEFINE end == IF offset + limit < Len(s) THEN offset + limit ELSE Len(s)
             page == SubSeq(s, offset + 1, end)
  <1>1. Take(s, offset, limit) = page
    BY DEF Take
  <1>2. Len(s) \in Nat /\ end \in Nat /\ end <= Len(s)
    OBVIOUS
  <1>3. Len(page) = IF Len(s) <= offset THEN 0
                    ELSE IF Len(s) - offset < limit THEN Len(s) - offset ELSE limit
    BY <1>2
  <1>4. ASSUME NEW i \in 1 .. Len(page)
        PROVE  offset + i \in 1 .. Len(s) /\ page[i] = s[offset + i]
    BY <1>2, <1>3
  <1>5. page \in Seq(S)
    BY <1>2
  <1>6. \A i, j \in 1 .. Len(page) : i # j => offset + i # offset + j
    BY <1>3
  <1>7. Len(page) = TakeLength(Len(s), offset, limit)
    BY <1>3 DEF TakeLength
  <1> HIDE DEF page
  <1>8. Len(Take(s, offset, limit)) = TakeLength(Len(s), offset, limit)
    BY <1>1, <1>7, Zenon
  <1>9. ASSUME NEW i \in 1 .. Len(page), NEW j \in 1 .. Len(page), i # j
        PROVE  page[i] # page[j]
    <2>1. /\ offset + i \in 1 .. Len(s) /\ page[i] = s[offset + i]
          /\ offset + j \in 1 .. Len(s) /\ page[j] = s[offset + j]
      BY <1>4
    <2>2. offset + i # offset + j
      BY <1>6, <1>9
    <2> QED BY <2>1, <2>2, Zenon
  <1>10. Len(page) = TakeLength(Len(s), offset, limit)
    BY <1>7
  <1> QED BY <1>1, <1>4, <1>5, <1>9, <1>10, Zenon

\* The rows of a page.
LEMMA RowsOfPage ==
  ASSUME NEW S, NEW s \in Seq(S), NEW offset \in Nat, NEW limit \in Nat,
         \A i, j \in 1 .. Len(s) : i # j => s[i] # s[j]
  PROVE  ToSet(Take(s, offset, limit)) \subseteq S
  BY TakeList, MembersOfSeq

\* The page that is asked for has a size and a place.
LEMMA LimitType == ASSUME NEW f, IsFilters(f) PROVE Limit(f) \in Nat /\ Offset(f) \in Nat
  BY DEF IsFilters, Limit, Offset, DefaultLimit

\* What the next query of a search may answer.
LEMMA SearchOrdersList ==
  ASSUME TypeInv, NEW s \in SearchOrders
  PROVE  LET M == Matching(call.f, rows, Moment)
         IN  /\ call # NoCall /\ call.pc \in {"page", "more"}
             /\ IsFiniteSet(M) /\ M \subseteq DOMAIN rows
             /\ s \in Orders(call.f, rows, M)
             /\ s \in Seq(M) /\ s \in Seq(DOMAIN rows)
             /\ \A i, j \in 1 .. Len(s) : i # j => s[i] # s[j]
  <1> DEFINE M == Matching(call.f, rows, Moment)
  <1>1. M \subseteq DOMAIN rows /\ IsFiniteSet(M)
    BY MatchingRows, FS_Subset DEF TypeInv, RowsInv
  <1>2. call # NoCall /\ call.pc \in {"page", "more"} /\ s \in Orders(call.f, rows, M)
    BY DEF SearchOrders
  <1> HIDE DEF M
  <1>3. /\ s \in Seq(M)
        /\ \A i, j \in 1 .. Len(s) : i # j => s[i] # s[j]
    BY <1>1, <1>2, OrdersList
  <1>4. s \in Seq(DOMAIN rows)
    BY <1>1, <1>3, SeqGrows
  <1> QED BY <1>1, <1>2, <1>3, <1>4 DEF M

\* What the query for a challenge may answer.
LEMMA ChallengeOrdersList ==
  ASSUME TypeInv, NEW s \in ChallengeOrders
  PROVE  /\ s \in Seq(OfChallenge(rows, call.target, WinnerFilter))
         /\ s \in Seq(DOMAIN rows)
  <1> DEFINE M == OfChallenge(rows, call.target, WinnerFilter)
  <1>1. M \subseteq DOMAIN rows
    BY DEF OfChallenge
  <1>2. IsFiniteSet(M)
    BY <1>1, FS_Subset DEF TypeInv, RowsInv
  <1>3. s \in Orders(call.f, rows, M)
    BY DEF ChallengeOrders
  <1> HIDE DEF M
  <1>4. s \in Seq(M)
    BY <1>2, <1>3, OrdersList
  <1> QED BY <1>1, <1>4, SeqGrows DEF M

-----------------------------------------------------------------------------
(***************************************************************************)
(* The type invariant.                                                     *)
(***************************************************************************)

\* The call when only its rows may have changed.
LEMMA CallStill == ASSUME TypeInv, RowsGrow, call' = call PROVE CallInv'
  <1> SUFFICES ASSUME call # NoCall PROVE CallInv'
    BY DEF CallInv
  <1>1. ASSUME NEW s \in Seq(DOMAIN rows) PROVE s \in Seq(DOMAIN rows')
    BY SeqGrows DEF RowsGrow
  <1> QED BY <1>1 DEF TypeInv, CallInv

\* The request arrives.
LEMMA ArriveType ==
  ASSUME TypeInv, NEW q \in Requests, NEW keys \in BOOLEAN, Arrive(q, keys)
  PROVE  CallInv'
  <1> DEFINE verdict == IF TokenRejected(q.token, keys) THEN "401"
                        ELSE Guards(Route[q.route], TokenValidator(q.token))
             pc == IF verdict = "pass" THEN FirstStep(q) ELSE "done"
             answer == IF verdict = "pass" THEN "pending" ELSE verdict
  <1>1. call' = [route |-> q.route, token |-> q.token, asked |-> q.f, f |-> q.f, target |-> q.target,
                 pc |-> pc, answer |-> answer,
                 accounts |-> {}, wide |-> FALSE, offset |-> 0, moment |-> {},
                 found |-> {}, total |-> {}]
    BY DEF Arrive
  <1>2. verdict \in {"pass", "401", "403"}
    BY DEF Guards, AuthGuard, RolesGuard
  <1>3. q.route \in DOMAIN Route
    BY ViewsAssumption DEF ViewsAssumption
  <1>4. FirstStep(q) \in Steps
    BY <1>3 DEF FirstStep, Steps, Route
  <1>5. pc \in Steps /\ answer \in Answers
    BY <1>2, <1>4 DEF Steps, Answers
  <1>6. IsFilters(q.f)
    BY ViewsAssumption DEF ViewsAssumption
  <1> HIDE DEF verdict, pc, answer
  <1> QED BY <1>1, <1>3, <1>5, <1>6 DEF CallInv, CallFields

\* The roles that count are those of the token, or none.
LEMMA RolesType == ASSUME TypeInv, call # NoCall PROVE Roles \in Seq(STRING)
  <1>1. PICK q \in Requests : call.token = q.token
    BY DEF TypeInv, CallInv
  <1>2. call.token.roles \in Seq(STRING)
    BY <1>1, ViewsAssumption DEF ViewsAssumption
  <1>3. Roles \in {call.token.roles, << >>}
    BY DEF Roles, TokenValidator, Anonymous
  <1> QED BY <1>2, <1>3, EmptySeq, Zenon

\* The filters are narrowed.
LEMMA NarrowType ==
  ASSUME TypeInv, NEW accounts \in AccountSets \cup {{}}, Narrow(accounts)
  PROVE  CallInv'
  <1> DEFINE asked == IF call.route = "export" THEN [call.f EXCEPT !.limit = {}, !.offset = {}] ELSE call.f
             g == ApplyFilters(Roles, asked, accounts)
  <1>1. /\ call # NoCall /\ rows' = rows
        /\ call' = [call EXCEPT !.pc = "page", !.accounts = {accounts}, !.f = g]
    BY DEF Narrow, At
  <1>2. IsFilters(asked)
    BY <1>1 DEF TypeInv, CallInv, IsFilters, FilterFields
  <1>3. IsFilters(g)
    BY <1>1, <1>2, RolesType, ApplyFiltersNarrows
  <1> HIDE DEF g
  <1> QED BY <1>1, <1>3 DEF TypeInv, CallInv, CallFields, Steps

\* A page is read.
LEMMA ReadPageType ==
  ASSUME TypeInv, NEW s \in SearchOrders, ReadPage(s)
  PROVE  CallInv'
  <1> DEFINE page == Take(s, Offset(call.f), Limit(call.f))
  <1>1. call # NoCall /\ s \in Seq(DOMAIN rows) /\ \A i, j \in 1 .. Len(s) : i # j => s[i] # s[j]
    BY SearchOrdersList
  <1>2. Limit(call.f) \in Nat /\ Offset(call.f) \in Nat
    BY <1>1, LimitType DEF TypeInv, CallInv
  <1>3. page \in Seq(DOMAIN rows)
    BY <1>1, <1>2, TakeList
  <1>4. /\ rows' = rows
        /\ call' = [call EXCEPT !.found = {page}, !.moment = {Moment},
                                !.pc = IF call.total = {} THEN "more" ELSE "done",
                                !.answer = IF call.total = {} THEN "pending" ELSE "success"]
    BY DEF ReadPage
  <1>5. Moment \in Nat
    BY <1>1, MomentType
  <1> HIDE DEF page
  <1> QED BY <1>1, <1>3, <1>4, <1>5 DEF TypeInv, CallInv, CallFields, Steps, Answers

\* The matches are counted.
LEMMA ReadCountType == ASSUME TypeInv, ReadCount PROVE CallInv'
  <1> DEFINE n == Cardinality(Matching(call.f, rows, Moment))
  <1>1. call # NoCall
    BY DEF ReadCount, At
  <1>2. n \in Nat
    BY MatchingRows, FS_Subset, FS_CardinalityType DEF TypeInv, RowsInv
  <1>3. /\ rows' = rows
        /\ call' = [call EXCEPT !.total = {n}, !.moment = {Moment},
                                !.pc = IF call.found = {} THEN "more" ELSE "done",
                                !.answer = IF call.found = {} THEN "pending" ELSE "success"]
    BY DEF ReadCount
  <1>4. Moment \in Nat
    BY <1>1, MomentType
  <1> HIDE DEF n
  <1> QED BY <1>1, <1>2, <1>3, <1>4 DEF TypeInv, CallInv, CallFields, Steps, Answers

\* The lines of an export so far.
FileSoFar == IF call.found = {} THEN << >> ELSE CHOOSE x \in call.found : TRUE

\* The lines so far are rows.
LEMMA FileType ==
  ASSUME TypeInv, call # NoCall
  PROVE  FileSoFar \in Seq(DOMAIN rows) /\ (call.found # {} => call.found = {FileSoFar})
  <1>1. CASE call.found = {}
    BY <1>1 DEF FileSoFar
  <1>2. ASSUME NEW s \in Seq(DOMAIN rows), call.found = {s} PROVE FileSoFar = s
    BY <1>2 DEF FileSoFar
  <1>3. call.found = {} \/ \E s \in Seq(DOMAIN rows) : call.found = {s}
    BY DEF TypeInv, CallInv
  <1> QED BY <1>1, <1>2, <1>3

\* A batch of an export is read.
LEMMA ReadBatchStep ==
  ASSUME TypeInv, NEW s \in SearchOrders, ReadBatch(s)
  PROVE  LET batch == Take(s, call.offset, BatchSize)
             last == Len(batch) < BatchSize
         IN  /\ call # NoCall /\ call.route = "export" /\ rows' = rows /\ clock' = clock
             /\ call' = [call EXCEPT !.found = {FileSoFar \o batch}, !.offset = @ + BatchSize,
                                     !.pc = IF last THEN "done" ELSE "more",
                                     !.answer = IF last THEN "success" ELSE "pending"]
             /\ batch \in Seq(DOMAIN rows) /\ FileSoFar \o batch \in Seq(DOMAIN rows)
             /\ call.offset \in Nat /\ BatchSize \in Nat \ {0}
  <1> DEFINE batch == Take(s, call.offset, BatchSize)
             last == Len(batch) < BatchSize
  <1>1. /\ call # NoCall /\ call.route = "export" /\ rows' = rows /\ clock' = clock
        /\ call' = [call EXCEPT !.found = {FileSoFar \o batch}, !.offset = @ + BatchSize,
                                !.pc = IF last THEN "done" ELSE "more",
                                !.answer = IF last THEN "success" ELSE "pending"]
    BY DEF ReadBatch, At, FileSoFar
  <1>2. s \in Seq(DOMAIN rows) /\ \A i, j \in 1 .. Len(s) : i # j => s[i] # s[j]
    BY SearchOrdersList
  <1>3. call.offset \in Nat /\ BatchSize \in Nat \ {0}
    BY <1>1, ViewsAssumption DEF TypeInv, CallInv, ViewsAssumption
  <1>4. batch \in Seq(DOMAIN rows)
    BY <1>2, <1>3, TakeList
  <1> HIDE DEF batch
  <1>5. FileSoFar \o batch \in Seq(DOMAIN rows)
    BY <1>1, <1>4, FileType
  <1> QED BY <1>1, <1>3, <1>4, <1>5 DEF batch

\* The batch has its type.
LEMMA ReadBatchType == ASSUME TypeInv, NEW s \in SearchOrders, ReadBatch(s) PROVE CallInv'
  <1> DEFINE batch == Take(s, call.offset, BatchSize)
             last == Len(batch) < BatchSize
             file == FileSoFar \o batch
  <1>1. /\ call # NoCall /\ rows' = rows
        /\ call' = [call EXCEPT !.found = {file}, !.offset = @ + BatchSize,
                                !.pc = IF last THEN "done" ELSE "more",
                                !.answer = IF last THEN "success" ELSE "pending"]
        /\ file \in Seq(DOMAIN rows)
        /\ call.offset \in Nat /\ BatchSize \in Nat
    BY ReadBatchStep
  <1> HIDE DEF file, last
  <1> QED BY <1>1 DEF TypeInv, CallInv, CallFields, Steps, Answers

\* The payments behind a balance can be counted.
LEMMA BalanceCounts ==
  ASSUME TypeInv
  PROVE  Cardinality(UNION {WalletBalance(rows, m, "PAYMENT") : m \in Caller}) \in Nat
  <1> DEFINE D == {DOMAIN rows[w].pays : w \in DOMAIN rows}
             B == UNION {WalletBalance(rows, m, "PAYMENT") : m \in Caller}
             f == [w \in DOMAIN rows |-> DOMAIN rows[w].pays]
  <1>1. IsFiniteSet(DOMAIN rows)
    BY DEF TypeInv, RowsInv
  <1>2. f \in Surjection(DOMAIN rows, D)
    BY DEF Surjection
  <1>3. IsFiniteSet(D)
    BY <1>1, <1>2, FS_Surjection
  <1>4. ASSUME NEW w \in DOMAIN rows PROVE IsFiniteSet(DOMAIN rows[w].pays)
    <2>1. DOMAIN rows[w].pays = DOMAIN Catalog[w].pays /\ w \in DOMAIN Catalog
      BY DEF TypeInv, RowsInv, IsRowOf, AllWinnings
    <2> QED BY <2>1, ViewsAssumption DEF ViewsAssumption
  <1> DEFINE U == UNION D
             R == DOMAIN rows
  <1>5. IsFiniteSet(R) /\ IsFiniteSet(U)
    <2>1. \A d \in D : IsFiniteSet(d)
      BY <1>4
    <2> HIDE DEF D
    <2> QED BY <1>1, <1>3, <2>1, FS_UNION
  <1>6. ASSUME NEW p \in B PROVE p \in R \X U
    <2>1. PICK m \in Caller : p \in WalletBalance(rows, m, "PAYMENT")
      OBVIOUS
    <2>2. PICK w \in R : p \in {w} \X WalletPayments(rows[w])
      BY <2>1 DEF WalletBalance
    <2>3. WalletPayments(rows[w]) \subseteq U
      BY DEF WalletPayments
    <2> HIDE DEF R, U
    <2>4. p = <<p[1], p[2]>> /\ p[1] = w /\ p[2] \in WalletPayments(rows[w])
      BY <2>2
    <2> QED BY <2>3, <2>4
  <1> HIDE DEF R, U
  <1>8. IsFiniteSet(R \X U)
    BY <1>5, FS_Product
  <1> HIDE DEF B, D
  <1>7. IsFiniteSet(B)
    BY <1>6, <1>8, FS_Subset
  <1> QED BY <1>7, FS_CardinalityType DEF B

\* The other steps of the request.
LEMMA OtherReadsType ==
  ASSUME TypeInv, ReadStep,
         ~\E q \in Requests, keys \in BOOLEAN : Arrive(q, keys),
         ~\E accounts \in AccountSets \cup {{}} : Narrow(accounts),
         ~\E s \in SearchOrders : ReadPage(s) \/ ReadBatch(s), ~ReadCount
  PROVE  CallInv'
  <1> USE DEF TypeInv, CallInv, CallFields, Steps, Answers, Answer, At
  <1>1. ASSUME NEW accounts \in AccountSets \cup {{}}, Verify(accounts) PROVE CallInv'
    BY <1>1 DEF Verify
  <1>2. ASSUME NEW ok \in BOOLEAN, ReadSetup(ok) PROVE CallInv'
    BY <1>2 DEF ReadSetup
  <1>3. ASSUME NEW answer \in {"wide", "none", "failed"}, LookUpResources(answer) PROVE CallInv'
    BY <1>3 DEF LookUpResources
  <1>4. ASSUME NEW s \in SearchOrders, ReadExternal(s) PROVE CallInv'
    BY <1>4, SearchOrdersList DEF ReadExternal
  <1>5. ASSUME NEW s \in ChallengeOrders, ReadChallenge(s) PROVE CallInv'
    BY <1>5, ChallengeOrdersList DEF ReadChallenge
  <1>6. ASSUME NarrowFails \/ ReconcileFails \/ VerifyFails \/ OpenFails PROVE CallInv'
    BY <1>6 DEF NarrowFails, ReconcileFails, VerifyFails, OpenFails
  <1>7. CASE CheckOwn
    BY <1>7 DEF CheckOwn
  <1>8. CASE QueryFails
    BY <1>8 DEF QueryFails, Searches
  <1>9. ASSUME ReadTotals PROVE CallInv'
    <2> DEFINE n == Cardinality(UNION {WalletBalance(rows, m, "PAYMENT") : m \in Caller})
    <2>1. n \in Nat
      BY BalanceCounts
    <2> HIDE DEF n
    <2> QED BY <1>9, <2>1 DEF ReadTotals, n
  <1>10. CASE Open
    <2>1. Target # {} => <<call.target>> \in Seq(DOMAIN rows)
      BY DEF Target
    <2>2. CASE call.route = "details" /\ Target = {}
      BY <1>10, <2>2 DEF Open
    <2>3. CASE ~(call.route = "details" /\ Target = {})
      <3> DEFINE file == IF Target = {} THEN << >> ELSE <<call.target>>
      <3>1. file \in Seq(DOMAIN rows)
        BY <2>1, EmptySeq, Zenon
      <3>2. /\ call # NoCall /\ rows' = rows
            /\ call' = [call EXCEPT !.pc = "done", !.answer = "success", !.found = {file}]
        BY <1>10, <2>3 DEF Open
      <3> HIDE DEF file
      <3> QED BY <3>1, <3>2
    <2> QED BY <2>2, <2>3
  <1> QED BY <1>1, <1>2, <1>3, <1>4, <1>5, <1>6, <1>7, <1>8, <1>9, <1>10 DEF ReadStep

\* Every step keeps the types.
LEMMA TypeStep == ASSUME TypeInv, [ViewsNext]_viewVars PROVE TypeInv'
  <1>1. RowsInv' /\ RowsGrow
    BY RowsInvStep, RowSteps
  <1>2. ASSUME OtherStep \/ UNCHANGED viewVars PROVE CallInv'
    BY <1>1, <1>2, ObserveSteps, CallStill DEF viewVars
  <1>3. ASSUME ReadStep PROVE CallInv'
    BY <1>3, ArriveType, NarrowType, ReadPageType, ReadBatchType, ReadCountType, OtherReadsType
  <1>4. ASSUME NEW to \in {"OWED", "ON_HOLD"}, ReconcileOwn(to) PROVE CallInv'
    <2>1. /\ call # NoCall /\ call' = [call EXCEPT !.pc = "page"]
          /\ DOMAIN rows' = DOMAIN rows
      BY <1>4 DEF ReconcileOwn, At
    <2> QED BY <2>1 DEF TypeInv, CallInv, CallFields, Steps
  <1> QED BY <1>1, <1>2, <1>3, <1>4, Steps3 DEF TypeInv

\* The type invariant holds, whatever the catalog, the requests and the batch size.
THEOREM TypeInvCorrect == ViewsSpec => []TypeInv
  BY InitType, TypeStep, PTL DEF ViewsSpec

\* The types that the run checks.
THEOREM TypeCorrect == ViewsSpec => []ViewsTypeOK
  BY TypeInvCorrect, TypeInvImplies, PTL

-----------------------------------------------------------------------------
(***************************************************************************)
(* The wallet.                                                             *)
(***************************************************************************)

\* What a withdrawal would release is in the balance, unless a payment at a later version
\* hides it: two queries of their own agree on every table that can arise.
THEOREM WalletShowsWithdrawableHolds == ViewsSpec => []WalletShowsWithdrawable
  <1>1. TypeInv => WalletShowsWithdrawable
    <2> SUFFICES ASSUME TypeInv, NEW m, NEW p \in Withdrawable(rows, m),
                        p \notin WalletBalance(rows, m, "PAYMENT")
                 PROVE  \E j \in DOMAIN rows[p[1]].pays :
                          rows[p[1]].pays[j].version > rows[p[1]].pays[p[2]].version
      BY DEF WalletShowsWithdrawable
    <2> DEFINE open(w) == {i \in DOMAIN rows[w].pays :
                             rows[w].pays[i].installment = 1 /\ rows[w].pays[i].status = "OWED"}
    <2>1. PICK w \in DOMAIN rows : /\ rows[w].winner = m /\ rows[w].type = "PAYMENT"
                                   /\ p \in {w} \X open(w)
      BY DEF Withdrawable
    <2> HIDE DEF open
    <2>2. p = <<p[1], p[2]>> /\ p[1] = w /\ p[2] \in open(w)
      BY <2>1
    <2>3. p[2] \notin WalletPayments(rows[w])
      <3> SUFFICES ASSUME p[2] \in WalletPayments(rows[w]) PROVE FALSE
        OBVIOUS
      <3>1. p \in {w} \X WalletPayments(rows[w])
        BY <2>2
      <3>2. {w} \X WalletPayments(rows[w]) \subseteq WalletBalance(rows, m, "PAYMENT")
        BY <2>1 DEF WalletBalance
      <3> QED BY <3>1, <3>2
    <2>4. PICK j \in DOMAIN rows[w].pays : ~(rows[w].pays[j].version <= rows[w].pays[p[2]].version)
      BY <2>2, <2>3 DEF WalletPayments, open
    <2>5. \A i \in DOMAIN rows[w].pays : rows[w].pays[i].version \in Nat
      BY DEF TypeInv, RowsInv, IsRowOf
    <2> QED BY <2>2, <2>4, <2>5 DEF open
  <1> QED BY <1>1, TypeInvCorrect, PTL

-----------------------------------------------------------------------------
(***************************************************************************)
(* Before its first query, a request has read nothing.                     *)
(***************************************************************************)

Before1st(c) == c = NoCall \/ c.pc \notin {"more", "done"}

FreshInv ==
  Before1st(call) =>
    /\ kept = {} /\ entered = {} /\ left = {}
    /\ call # NoCall => /\ call.found = {} /\ call.offset = 0
                        /\ call.pc # "setup" => call.total = {}

\* It holds before the first step.
LEMMA InitFresh == ViewsInit => FreshInv
  BY DEF ViewsInit, FreshInv

\* Every step keeps it: the first query of a search makes the watch, and later ones do not
\* come back before it.
LEMMA FreshStep == ASSUME TypeInv, FreshInv, [ViewsNext]_viewVars PROVE FreshInv'
  <1>1. CASE OtherStep
    BY <1>1, ObserveSteps DEF FreshInv, Before1st, Reading, watch
  <1>2. CASE UNCHANGED viewVars
    BY <1>2 DEF FreshInv, Before1st, viewVars
  <1>3. ASSUME NEW to \in {"OWED", "ON_HOLD"}, ReconcileOwn(to) PROVE FreshInv'
    BY <1>3 DEF FreshInv, Before1st, ReconcileOwn, At, TypeInv, CallInv, CallFields
  <1> USE DEF FreshInv, Before1st, At, TypeInv, CallInv, CallFields, Answer
  <1>4. ASSUME NEW q \in Requests, NEW keys \in BOOLEAN, Arrive(q, keys) PROVE FreshInv'
    BY <1>4 DEF Arrive, NoCall
  <1>5. ASSUME NEW accounts \in AccountSets \cup {{}}, Narrow(accounts) \/ Verify(accounts) PROVE FreshInv'
    BY <1>5 DEF Narrow, Verify, Opens
  <1>6. ASSUME NEW ok \in BOOLEAN, ReadSetup(ok) PROVE FreshInv'
    BY <1>6 DEF ReadSetup
  <1>7. ASSUME NEW answer \in {"wide", "none", "failed"}, LookUpResources(answer) PROVE FreshInv'
    BY <1>7 DEF LookUpResources
  <1>8. ASSUME NEW s \in SearchOrders, ReadPage(s) \/ ReadBatch(s) \/ ReadExternal(s) PROVE FreshInv'
    <2>1. call'.pc \in {"more", "done"}
      BY <1>8 DEF ReadPage, ReadBatch, ReadExternal
    <2> QED BY <2>1 DEF NoCall
  <1>9. ASSUME NEW s \in ChallengeOrders, ReadChallenge(s) PROVE FreshInv'
    BY <1>9 DEF ReadChallenge
  <1>10. ASSUME NarrowFails \/ ReconcileFails \/ ReadCount \/ QueryFails PROVE FreshInv'
    <2>1. call'.pc \in {"more", "done"}
      BY <1>10 DEF NarrowFails, ReconcileFails, ReadCount, QueryFails
    <2> QED BY <2>1 DEF NoCall
  <1>11. ASSUME ReadTotals \/ VerifyFails \/ Open \/ OpenFails PROVE FreshInv'
    BY <1>11 DEF ReadTotals, VerifyFails, Open, OpenFails
  <1>12. ASSUME CheckOwn PROVE FreshInv'
    BY <1>12 DEF CheckOwn
  <1>13. CASE ReadStep
    BY <1>4, <1>5, <1>6, <1>7, <1>8, <1>9, <1>10, <1>11, <1>12, <1>13 DEF ReadStep
  <1> QED BY <1>1, <1>2, <1>3, <1>13, Steps3

-----------------------------------------------------------------------------
(***************************************************************************)
(* Who is shown whose winnings.                                            *)
(***************************************************************************)

\* The endpoints: only the machine's takes no role.
LEMMA RouteKinds ==
  \A n \in DOMAIN Route :
    /\ Route[n].m2m \in BOOLEAN
    /\ Route[n].roles = {} => Route[n].m2m
  <1> SUFFICES ASSUME NEW n \in DOMAIN Route
               PROVE  /\ Route[n].m2m \in BOOLEAN
                      /\ Route[n].roles = {} => Route[n].m2m
    OBVIOUS
  <1>1. CASE n \in {"search", "details", "export", "audit", "payoutaudit"}
    <2>1. Route[n] = AdminRoute
      BY <1>1 DEF Route, SearchRoute, DetailsRoute, ExportRoute, AuditRoute, AuditPayoutRoute
    <2>2. /\ AdminRoute.m2m = FALSE /\ AdminRoute.roles # {}
      BY DEF AdminRoute, AdminViewers
    <2> QED BY <2>1, <2>2
  <1>2. CASE n = "list"
    BY <1>2 DEF Route, ListRoute
  <1>3. CASE n = "external"
    BY <1>3 DEF Route, ExternalRoute
  <1>4. CASE n = "challenge"
    BY <1>4 DEF Route, ChallengeRoute
  <1>5. CASE n = "user"
    BY <1>5 DEF Route, UserRoute
  <1>6. CASE n = "wallet"
    BY <1>6 DEF Route, WalletRoute
  <1> QED BY <1>1, <1>2, <1>3, <1>4, <1>5, <1>6 DEF Route

\* What the two guards let pass: a token made for this API, of a machine with a scope of
\* the endpoint or of a user with a role of it.
LEMMA GuardsPass ==
  ASSUME NEW n \in DOMAIN Route, NEW token, Guards(Route[n], TokenValidator(token)) = "pass"
  PROVE  /\ token.bearer /\ token.audience
         /\ \/ token.scopes \cap Route[n].scopes # {}
            \/ ToSet(token.roles) \cap Route[n].roles # {}
         /\ token.scopes # {} => token.scopes \cap Route[n].scopes # {}
  <1> DEFINE req == TokenValidator(token)
             route == Route[n]
  <1>1. AuthGuard(route, req) = "pass" /\ RolesGuard(route, req) = "pass"
    BY DEF Guards
  <1>2. token.bearer /\ token.audience
    <2> SUFFICES ASSUME ~(token.bearer /\ token.audience) PROVE FALSE
      OBVIOUS
    <2>1. req = Anonymous
      BY DEF TokenValidator
    <2>2. ~req.verified /\ ~req.email /\ req.scopes = {}
      BY <2>1 DEF Anonymous
    <2> HIDE DEF req, route
    <2>3. route.m2m \in BOOLEAN
      BY RouteKinds DEF route
    <2> QED BY <1>1, <2>2, <2>3 DEF AuthGuard, IsMachine
  <1>3. req.scopes = token.scopes /\ req.roles = token.roles /\ req.verified
    BY <1>2 DEF TokenValidator
  <1>4. route.m2m \in BOOLEAN /\ (route.roles = {} => route.m2m)
    BY RouteKinds
  <1> HIDE DEF req, route
  <1>5. ASSUME req.scopes # {} PROVE token.scopes \cap Route[n].scopes # {}
    <2> SUFFICES ASSUME req.scopes \cap route.scopes = {} PROVE FALSE
      BY <1>3 DEF route
    <2>1. IsMachine(req)
      BY <1>5 DEF IsMachine
    <2>2. AuthGuard(route, req) = "403"
      BY <1>3, <1>4, <2>1 DEF AuthGuard
    <2> QED BY <1>1, <2>2
  <1>6. ASSUME req.scopes = {} PROVE ToSet(token.roles) \cap Route[n].roles # {}
    <2>1. ~IsMachine(req)
      BY <1>6 DEF IsMachine
    <2>2. ~route.m2m
      BY <1>1, <1>4, <2>1 DEF AuthGuard
    <2>3. ToSet(req.roles) \cap route.roles # {}
      BY <1>1, <1>4, <2>1, <2>2 DEF RolesGuard
    <2> QED BY <1>3, <2>3 DEF route
  <1> QED BY <1>2, <1>3, <1>5, <1>6

\* After its arrival a request stays the same request, until it is answered.
LEMMA SameRequest ==
  ASSUME TypeInv, ReadStep, ~\E q \in Requests, keys \in BOOLEAN : Arrive(q, keys)
  PROVE  /\ call # NoCall /\ call.pc # "done" /\ call' # NoCall /\ DOMAIN call' = DOMAIN call
         /\ call'.route = call.route /\ call'.token = call.token /\ call'.target = call.target
         /\ call'.asked = call.asked
         /\ (~\E accounts \in AccountSets \cup {{}} : Narrow(accounts)) => call'.f = call.f
         /\ ~At({"challenge"}, "lookup") => call'.wide = call.wide
  <1> DEFINE Same == /\ call # NoCall /\ call.pc # "done" /\ call' # NoCall /\ DOMAIN call' = DOMAIN call
                     /\ call'.route = call.route /\ call'.token = call.token
                     /\ call'.target = call.target /\ call'.asked = call.asked
             Kept(s) == call'.f = call.f /\ (s => call'.wide = call.wide)
  <1>1. ASSUME call # NoCall, NEW e, DOMAIN call = CallFields, DOMAIN e = CallFields PROVE e # NoCall
    BY <1>1 DEF NoCall, CallFields
  <1> USE DEF At, TypeInv, CallInv, CallFields, Answer
  <1>2. ASSUME NEW accounts \in AccountSets \cup {{}}, Narrow(accounts)
        PROVE  Same /\ call'.wide = call.wide
    BY <1>2 DEF Narrow, NoCall
  <1>3. ASSUME NEW accounts \in AccountSets \cup {{}}, Verify(accounts) PROVE Same /\ Kept(TRUE)
    <2>1. CASE MayOpen(Roles, Target, accounts)
      BY <1>3, <2>1 DEF Verify, NoCall
    <2>2. CASE ~MayOpen(Roles, Target, accounts)
      BY <1>3, <2>2 DEF Verify, NoCall
    <2> QED BY <2>1, <2>2
  <1>4. ASSUME NEW ok \in BOOLEAN, ReadSetup(ok) PROVE Same /\ Kept(TRUE)
    BY <1>4 DEF ReadSetup, NoCall
  <1>5. ASSUME NEW answer \in {"wide", "none", "failed"}, LookUpResources(answer)
        PROVE  Same /\ Kept(FALSE) /\ At({"challenge"}, "lookup")
    BY <1>5 DEF LookUpResources, NoCall
  <1>6. ASSUME NEW s \in SearchOrders, ReadPage(s) \/ ReadBatch(s) \/ ReadExternal(s)
        PROVE  Same /\ Kept(TRUE)
    BY <1>6 DEF ReadPage, ReadBatch, ReadExternal, NoCall
  <1>7. ASSUME NEW s \in ChallengeOrders, ReadChallenge(s) PROVE Same /\ Kept(TRUE)
    BY <1>7 DEF ReadChallenge, NoCall
  <1>8. ASSUME NarrowFails \/ CheckOwn \/ ReconcileFails \/ ReadCount PROVE Same /\ Kept(TRUE)
    BY <1>8 DEF NarrowFails, CheckOwn, ReconcileFails, ReadCount, NoCall
  <1>10. ASSUME QueryFails PROVE Same /\ Kept(TRUE)
    BY <1>10 DEF QueryFails, Searches, NoCall
  <1>9. ASSUME ReadTotals \/ VerifyFails \/ Open \/ OpenFails PROVE Same /\ Kept(TRUE)
    BY <1>9 DEF ReadTotals, VerifyFails, Open, OpenFails, NoCall
  <1> QED BY <1>2, <1>3, <1>4, <1>5, <1>6, <1>7, <1>8, <1>9, <1>10 DEF ReadStep

\* What a step may do to what was found.
LEMMA FoundChanges ==
  ASSUME TypeInv, ReadStep, ~\E q \in Requests, keys \in BOOLEAN : Arrive(q, keys)
  PROVE  \/ call'.found = call.found \/ call'.found = {}
         \/ \E s \in SearchOrders : ReadPage(s) \/ ReadBatch(s) \/ ReadExternal(s)
         \/ \E s \in ChallengeOrders : ReadChallenge(s)
         \/ Open
  <1> USE DEF At, TypeInv, CallInv, CallFields, Answer
  <1>1. ASSUME NEW accounts \in AccountSets \cup {{}}, Narrow(accounts) \/ Verify(accounts)
        PROVE  call'.found = call.found
    BY <1>1 DEF Narrow, Verify
  <1>2. ASSUME NEW ok \in BOOLEAN, ReadSetup(ok) PROVE call'.found = call.found
    BY <1>2 DEF ReadSetup
  <1>3. ASSUME NEW answer \in {"wide", "none", "failed"}, LookUpResources(answer)
        PROVE  call'.found = call.found
    BY <1>3 DEF LookUpResources
  <1>4. ASSUME NarrowFails \/ CheckOwn \/ ReconcileFails \/ ReadCount \/ ReadTotals
        PROVE  call'.found = call.found
    BY <1>4 DEF NarrowFails, CheckOwn, ReconcileFails, ReadCount, ReadTotals
  <1>5. ASSUME VerifyFails \/ OpenFails PROVE call'.found = call.found
    BY <1>5 DEF VerifyFails, OpenFails
  <1>6. ASSUME QueryFails PROVE call'.found = {}
    BY <1>6 DEF QueryFails
  <1> QED BY <1>1, <1>2, <1>3, <1>4, <1>5, <1>6 DEF ReadStep

\* A request that has not been refused.
Running(c) == c # NoCall /\ (c.pc # "done" \/ c.answer = "success")

\* Its caller is shown the caller's own winnings only.
OwnOnly ==
  \/ call.route = "user"
  \/ call.route = "challenge" /\ ~call.wide /\ ~SeesWholeChallenge(call.token)

\* A request that has not been refused has passed the guards; the member's list has asked
\* for the member's winnings, and what was found for who may see no others is the caller's.
AccessInv ==
  Running(call) =>
    /\ call.token.bearer => call.token.genuine
    /\ Guards(Route[call.route], TokenValidator(call.token)) = "pass"
    /\ call.route = "user" /\ call.pc # "own" => call.f.winnerId = {call.token.sub}
    /\ OwnOnly => \A s \in call.found : \A w \in ToSet(s) : Catalog[w].winner = call.token.sub
    /\ call.route = "wallet" => call.found = {}

\* It holds before the first step.
LEMMA InitAccess == ViewsInit => AccessInv
  BY DEF ViewsInit, AccessInv, Running

\* The caller of a running request is the subject of its token.
LEMMA CallerIsSubject ==
  ASSUME TypeInv, AccessInv, Running(call)
  PROVE  call.token.bearer /\ call.token.audience /\ Caller = {call.token.sub}
  <1>1. call.token.bearer /\ call.token.audience
    BY GuardsPass DEF AccessInv, Running, TypeInv, CallInv
  <1> QED BY <1>1 DEF Caller, TokenValidator

\* The list of the member finds the member's winnings.
LEMMA OwnMatches ==
  ASSUME TypeInv, NEW f, NEW sub, NEW now, f.winnerId = {sub}, NEW w \in Matching(f, rows, now)
  PROVE  Catalog[w].winner = sub
  <1>1. w \in DOMAIN rows /\ Matches(f, rows[w], now)
    BY DEF Matching
  <1>2. rows[w].winner \in {sub}
    BY <1>1 DEF Matches, Winners
  <1> QED BY <1>1, <1>2 DEF TypeInv, RowsInv, IsRowOf

\* Every step keeps it.
LEMMA AccessStep ==
  ASSUME TypeInv, FreshInv, AccessInv, [ViewsNext]_viewVars
  PROVE  AccessInv'
  <1>1. CASE OtherStep \/ UNCHANGED viewVars
    <2>1. call' = call
      BY <1>1, ObserveSteps DEF viewVars
    <2> QED BY <2>1 DEF AccessInv, Running, OwnOnly
  <1>2. ASSUME NEW to \in {"OWED", "ON_HOLD"}, ReconcileOwn(to) PROVE AccessInv'
    BY <1>2 DEF AccessInv, Running, OwnOnly, ReconcileOwn, At, TypeInv, CallInv, CallFields
  <1>3. ASSUME NEW q \in Requests, NEW keys \in BOOLEAN, Arrive(q, keys) PROVE AccessInv'
    <2> DEFINE verdict == IF TokenRejected(q.token, keys) THEN "401"
                          ELSE Guards(Route[q.route], TokenValidator(q.token))
    <2>1. /\ call'.route = q.route /\ call'.token = q.token /\ call'.found = {}
          /\ call'.pc = IF verdict = "pass" THEN FirstStep(q) ELSE "done"
          /\ call'.answer = IF verdict = "pass" THEN "pending" ELSE verdict
      BY <1>3 DEF Arrive
    <2>2. verdict \in {"pass", "401", "403"}
      BY DEF Guards, AuthGuard, RolesGuard
    <2>3. CASE verdict # "pass"
      BY <2>1, <2>2, <2>3 DEF AccessInv, Running
    <2>4. CASE verdict = "pass"
      <3>1. ~TokenRejected(q.token, keys) /\ Guards(Route[q.route], TokenValidator(q.token)) = "pass"
        BY <2>4
      <3>2. q.token.bearer => q.token.genuine
        BY <3>1 DEF TokenRejected
      <3>3. q.route = "user" => call'.pc = "own"
        BY <2>1, <2>4 DEF FirstStep
      <3> HIDE DEF verdict
      <3> QED BY <2>1, <3>1, <3>2, <3>3 DEF AccessInv, OwnOnly
    <2> QED BY <2>3, <2>4
  <1>4. ASSUME ReadStep, ~\E q \in Requests, keys \in BOOLEAN : Arrive(q, keys) PROVE AccessInv'
    <2> SUFFICES ASSUME Running(call') PROVE AccessInv'
      BY DEF AccessInv
    <2>1. /\ call # NoCall /\ call.pc # "done" /\ Running(call)
          /\ call'.route = call.route /\ call'.token = call.token
          /\ (~\E accounts \in AccountSets \cup {{}} : Narrow(accounts)) => call'.f = call.f
          /\ ~At({"challenge"}, "lookup") => call'.wide = call.wide
      BY <1>4, SameRequest DEF Running
    <2>2. Caller = {call.token.sub}
      BY <2>1, CallerIsSubject
    <2>3. call.route = "user" /\ call'.pc # "own" => call'.f.winnerId = {call.token.sub}
      <3> SUFFICES ASSUME call.route = "user", call'.pc # "own" PROVE call'.f.winnerId = {call.token.sub}
        OBVIOUS
      <3>1. call'.f = call.f
        BY <2>1 DEF Narrow, At
      <3>2. CASE call.pc # "own"
        BY <2>1, <3>1, <3>2 DEF AccessInv
      <3>3. CASE call.pc = "own"
        <4>1. CheckOwn
          BY <1>4, <3>3 DEF ReadStep, Narrow, Verify, ReadSetup, LookUpResources, ReadPage, ReadBatch,
             ReadExternal, ReadChallenge, NarrowFails, ReconcileFails, ReadCount, QueryFails,
             ReadTotals, VerifyFails, Open, OpenFails, At
        <4> QED BY <2>1, <2>2, <3>1, <4>1 DEF CheckOwn, Answer, Running, At, TypeInv, CallInv, CallFields
      <3> QED BY <3>2, <3>3
    <2>4. call.route = "wallet" => call'.found = {}
      <3> SUFFICES ASSUME call.route = "wallet" PROVE call'.found = {}
        OBVIOUS
      <3>1. call.found = {}
        BY <2>1 DEF AccessInv
      <3>2. /\ ~\E s \in SearchOrders : ReadPage(s) \/ ReadBatch(s) \/ ReadExternal(s)
            /\ ~\E s \in ChallengeOrders : ReadChallenge(s)
            /\ ~Open
        BY DEF ReadPage, ReadBatch, ReadExternal, ReadChallenge, Open, At, Searches, Opens
      <3> QED BY <1>4, <3>1, <3>2, FoundChanges
    <2>5. ASSUME OwnOnly', NEW s \in call'.found, NEW w \in ToSet(s)
          PROVE  Catalog[w].winner = call.token.sub
      <3>1. CASE call'.found = call.found
        <4>1. CASE At({"challenge"}, "lookup")
          BY <2>5, <3>1, <4>1 DEF FreshInv, Before1st, At
        <4>2. CASE ~At({"challenge"}, "lookup")
          BY <2>1, <2>5, <3>1, <4>2 DEF AccessInv, OwnOnly
        <4> QED BY <4>1, <4>2
      <3>2. CASE \E t \in SearchOrders : ReadPage(t) \/ ReadBatch(t) \/ ReadExternal(t)
        <4>1. PICK t \in SearchOrders : ReadPage(t)
          BY <2>1, <2>5, <3>2 DEF OwnOnly, ReadBatch, ReadExternal, At
        <4>2. call.f.winnerId = {call.token.sub}
          BY <2>1, <2>5, <4>1 DEF AccessInv, OwnOnly, ReadPage, At, Searches
        <4>3. s = Take(t, Offset(call.f), Limit(call.f))
          BY <2>1, <2>5, <4>1 DEF ReadPage, TypeInv, CallInv, CallFields
        <4>4. w \in Matching(call.f, rows, Moment)
          BY <2>1, <2>5, <4>3, LimitType, SearchOrdersList, RowsOfPage DEF TypeInv, CallInv
        <4> QED BY <4>2, <4>4, OwnMatches
      <3>3. CASE \E t \in ChallengeOrders : ReadChallenge(t)
        <4>1. PICK t \in ChallengeOrders : ReadChallenge(t)
          BY <3>3
        <4>2. s = t
          BY <2>1, <2>5, <4>1 DEF ReadChallenge, TypeInv, CallInv, CallFields
        <4>3. call.route = "challenge" /\ ~call.wide /\ ~SeesWholeChallenge(call.token)
          BY <2>1, <2>5, <4>1 DEF OwnOnly, ReadChallenge, At
        <4>4. WinnerFilter = {call.token.sub}
          BY <2>2, <4>3 DEF WinnerFilter
        <4>5. w \in OfChallenge(rows, call.target, WinnerFilter)
          BY <2>5, <4>2, ChallengeOrdersList, MembersOfSeq
        <4>6. w \in DOMAIN rows /\ rows[w].winner \in {call.token.sub}
          BY <4>4, <4>5 DEF OfChallenge
        <4> QED BY <4>6 DEF TypeInv, RowsInv, IsRowOf
      <3>4. CASE Open
        BY <2>1, <2>5, <3>4 DEF Open, OwnOnly, At, Opens
      <3> QED BY <1>4, <2>5, <3>1, <3>2, <3>3, <3>4, FoundChanges
    <2> QED BY <2>1, <2>3, <2>4, <2>5 DEF AccessInv
  <1> QED BY <1>1, <1>2, <1>3, <1>4, Steps3

\* The invariants of the request, together.
THEOREM RequestInvCorrect == ViewsSpec => [](TypeInv /\ FreshInv /\ AccessInv)
  BY InitType, TypeStep, InitFresh, FreshStep, InitAccess, AccessStep, PTL DEF ViewsSpec

\* Who is let into the endpoints: the scopes and the roles of each.
LEMMA RouteLists ==
  /\ Route["list"].scopes = {"read:payments", "create:payments"} /\ Route["list"].roles = {}
  /\ Route["external"].scopes = {"read:payments"}
  /\ Route["external"].roles = {"Administrator", "Talent Manager", "Project Manager", "Payment Admin"}
  /\ \A n \in {"search", "details", "export", "audit", "payoutaudit"} :
       Route[n].scopes = {} /\ Route[n].roles = AdminViewers
  <1>1. Route["list"] = ListRoute /\ Route["external"] = ExternalRoute
    BY DEF Route
  <1>2. ASSUME NEW n \in {"search", "details", "export", "audit", "payoutaudit"}
        PROVE  Route[n] = AdminRoute
    BY <1>2 DEF Route, SearchRoute, DetailsRoute, ExportRoute, AuditRoute, AuditPayoutRoute
  <1>3. ListRoute.scopes = {"read:payments", "create:payments"} /\ ListRoute.roles = {}
    BY DEF ListRoute
  <1>4. ExternalRoute.scopes = {"read:payments"}
    BY DEF ExternalRoute
  <1>5. ExternalRoute.roles = {"Administrator", "Talent Manager", "Project Manager", "Payment Admin"}
    BY DEF ExternalRoute
  <1>6. AdminRoute.scopes = {} /\ AdminRoute.roles = AdminViewers
    BY DEF AdminRoute
  <1> QED BY <1>1, <1>2, <1>3, <1>4, <1>5, <1>6

\* Nobody is shown the winnings of others without a scope or a role for it: for every set
\* of requests and tokens, through every endpoint, however the table changes meanwhile.
THEOREM OthersWinningsNeedARoleHolds == ViewsSpec => []OthersWinningsNeedARole
  <1>1. TypeInv /\ AccessInv => OthersWinningsNeedARole
    <2> DEFINE Holds(roles) == ToSet(call.token.roles) \cap roles # {}
               ByScope ==
                 \/ call.route \in {"list", "external", "challenge"} /\ "read:payments" \in call.token.scopes
                 \/ call.route \in {"list", "challenge"} /\ "create:payments" \in call.token.scopes
               ByRole ==
                 \/ /\ call.route \in {"search", "details", "export", "audit", "payoutaudit"}
                    /\ Holds({"Payment Admin", "Payment BA Admin", "Payment Approver",
                              "Wipro TaaS Admin", "Payment Editor", "Payment Viewer"})
                 \/ /\ call.route = "external"
                    /\ Holds({"Administrator", "Talent Manager", "Project Manager", "Payment Admin"})
               ByChallenge ==
                 /\ call.route = "challenge"
                 /\ \/ call.wide
                    \/ Holds({"Administrator", "Payment Admin", "Payment Editor", "Payment Viewer"})
    <2> SUFFICES ASSUME TypeInv, AccessInv, Answered(DOMAIN Route), NEW w \in ToSet(Found),
                        rows[w].winner # call.token.sub
                 PROVE  /\ call.token.bearer /\ call.token.genuine /\ call.token.audience
                        /\ ByScope \/ ByRole \/ ByChallenge
      BY DEF OthersWinningsNeedARole
    <2>1. /\ call # NoCall /\ Running(call) /\ call.route \in DOMAIN Route
          /\ call.found # {} /\ Found \in call.found
      BY DEF Answered, Finished, Running, Found
    <2>2. call.token.bearer /\ call.token.audience /\ call.token.genuine
      BY <2>1, CallerIsSubject DEF AccessInv
    <2>3. \/ call.token.scopes \cap Route[call.route].scopes # {}
          \/ ToSet(call.token.roles) \cap Route[call.route].roles # {}
      BY <2>1, GuardsPass DEF AccessInv
    <2>4. w \in DOMAIN rows /\ Catalog[w].winner = rows[w].winner
      <3>1. Found \in Seq(DOMAIN rows)
        BY <2>1 DEF TypeInv, CallInv
      <3>2. w \in DOMAIN rows
        BY <3>1, MembersOfSeq
      <3> QED BY <3>2 DEF TypeInv, RowsInv, IsRowOf
    <2>5. ~OwnOnly
      BY <2>1, <2>4 DEF AccessInv
    <2>6. call.route \notin {"user", "wallet"}
      BY <2>1, <2>5 DEF AccessInv, OwnOnly
    <2>7. ASSUME call.route = "challenge" PROVE ByScope \/ ByChallenge
      <3>1. call.wide \/ SeesWholeChallenge(call.token)
        BY <2>5, <2>7 DEF OwnOnly
      <3>2. TokenValidator(call.token).scopes = call.token.scopes /\ TokenValidator(call.token).roles = call.token.roles
        BY <2>2 DEF TokenValidator
      <3>3. call.token.scopes # {} => call.token.scopes \cap Route[call.route].scopes # {}
        BY <2>1, GuardsPass DEF AccessInv
      <3>4. ASSUME IsMachine(TokenValidator(call.token)) PROVE ByScope
        <4>1. call.token.scopes # {}
          BY <3>2, <3>4 DEF IsMachine
        <4>2. Route[call.route].scopes = {"read:payments", "create:payments"}
          <5>1. Route[call.route] = ChallengeRoute
            BY <2>7 DEF Route
          <5>2. ChallengeRoute.scopes = {"read:payments", "create:payments"}
            BY DEF ChallengeRoute
          <5> QED BY <5>1, <5>2
        <4>3. call.token.scopes \cap {"read:payments", "create:payments"} # {}
          BY <3>3, <4>1, <4>2
        <4> QED BY <2>7, <4>3
      <3>5. ASSUME Privileged(call.token.roles) PROVE ByChallenge
        BY <2>7, <3>5 DEF Privileged
      <3>6. ASSUME call.wide PROVE ByChallenge
        BY <2>7, <3>6
      <3>7. call.wide \/ IsMachine(TokenValidator(call.token)) \/ Privileged(call.token.roles)
        BY <3>1, <3>2 DEF SeesWholeChallenge
      <3> QED BY <3>4, <3>5, <3>6, <3>7
    <2>8. ASSUME call.route = "list" PROVE ByScope
      <3>1. call.token.scopes \cap {"read:payments", "create:payments"} # {}
        BY <2>3, <2>8, RouteLists
      <3> QED BY <2>8, <3>1
    <2>9. ASSUME call.route = "external" PROVE ByScope \/ ByRole
      <3>1. \/ call.token.scopes \cap {"read:payments"} # {}
            \/ Holds({"Administrator", "Talent Manager", "Project Manager", "Payment Admin"})
        <4> HIDE DEF ByScope, ByRole, ByChallenge
        <4>1. /\ Route[call.route].scopes = {"read:payments"}
              /\ Route[call.route].roles =
                   {"Administrator", "Talent Manager", "Project Manager", "Payment Admin"}
          BY <2>9, RouteLists, Zenon
        <4> QED BY <2>3, <4>1, Zenon
      <3> QED BY <2>9, <3>1
    <2>10. ASSUME call.route \in {"search", "details", "export", "audit", "payoutaudit"}
           PROVE  ByRole
      <3>1. Route[call.route].scopes = {} /\ Route[call.route].roles = AdminViewers
        BY <2>10, RouteLists, Zenon
      <3>2. ToSet(call.token.roles) \cap AdminViewers # {}
        BY <2>3, <3>1
      <3> QED BY <2>10, <3>2 DEF AdminViewers
    <2>11. \/ call.route \in {"list", "external", "challenge"}
           \/ call.route \in {"search", "details", "export", "audit", "payoutaudit"}
      BY <2>1, <2>6 DEF Route
    <2> HIDE DEF ByScope, ByRole, ByChallenge
    <2> QED BY <2>2, <2>7, <2>8, <2>9, <2>10, <2>11
  <1> QED BY <1>1, RequestInvCorrect, PTL

-----------------------------------------------------------------------------
(***************************************************************************)
(* The watch of a search, and pages and totals.                            *)
(***************************************************************************)

MatchesNow == Matching(call.f, rows, Moment)

\* While a search reads, what matches is what matched all the time and what entered.
WatchInv ==
  Reading =>
    /\ call.route \in Searches \cup {"export"}
    /\ kept \subseteq MatchesNow /\ MatchesNow \subseteq kept \cup entered

\* It holds before the first step.
LEMMA InitWatch == ViewsInit => WatchInv
  BY DEF ViewsInit, WatchInv, Reading

\* What matches, after a step of the others.
LEMMA OtherMatches ==
  ASSUME OtherStep, Reading
  PROVE  /\ kept' = kept \cap MatchesNow'
         /\ entered' = entered \cup (MatchesNow' \ MatchesNow)
         /\ left' = left \cup (MatchesNow \ MatchesNow')
  <1>1. MatchesNow' = Matching(call.f, rows', MomentAt(clock'))
    BY ObserveSteps DEF MatchesNow, Moment, MomentAt
  <1> QED BY <1>1, ObserveSteps DEF MatchesNow

\* A request that reads on has read a page, a count or a batch, or waits.
LEMMA ReadsOn ==
  ASSUME TypeInv, ReadStep, Reading'
  PROVE  \/ \E s \in SearchOrders : ReadPage(s)
         \/ \E s \in SearchOrders : ReadBatch(s)
         \/ ReadCount
  <1> USE DEF At, TypeInv, CallInv, CallFields, Answer, Reading
  <1>1. ASSUME NEW q \in Requests, NEW keys \in BOOLEAN, Arrive(q, keys) PROVE ~Reading'
    <2>1. FirstStep(q) # "more"
      BY ViewsAssumption DEF ViewsAssumption, FirstStep, Route
    <2> QED BY <1>1, <2>1 DEF Arrive
  <1>2. ASSUME NEW accounts \in AccountSets \cup {{}}, Narrow(accounts) \/ Verify(accounts) PROVE ~Reading'
    BY <1>2 DEF Narrow, Verify
  <1>3. ASSUME NEW ok \in BOOLEAN, ReadSetup(ok) PROVE ~Reading'
    BY <1>3 DEF ReadSetup
  <1>4. ASSUME NEW answer \in {"wide", "none", "failed"}, LookUpResources(answer) PROVE ~Reading'
    BY <1>4 DEF LookUpResources
  <1>5. ASSUME NEW s \in SearchOrders, ReadExternal(s) PROVE ~Reading'
    BY <1>5 DEF ReadExternal
  <1>6. ASSUME NEW s \in ChallengeOrders, ReadChallenge(s) PROVE ~Reading'
    BY <1>6 DEF ReadChallenge
  <1>7. ASSUME NarrowFails \/ CheckOwn \/ ReconcileFails \/ QueryFails PROVE ~Reading'
    BY <1>7 DEF NarrowFails, CheckOwn, ReconcileFails, QueryFails
  <1>8. ASSUME ReadTotals \/ VerifyFails \/ Open \/ OpenFails PROVE ~Reading'
    BY <1>8 DEF ReadTotals, VerifyFails, Open, OpenFails
  <1> QED BY <1>1, <1>2, <1>3, <1>4, <1>5, <1>6, <1>7, <1>8 DEF ReadStep

\* The queries of a search: who sends them, and the watch they start or leave.
LEMMA QuerySteps ==
  ASSUME TypeInv, FreshInv,
         \/ \E s \in SearchOrders : ReadPage(s) \/ ReadBatch(s)
         \/ ReadCount
  PROVE  /\ call # NoCall /\ call.route \in Searches \cup {"export"} /\ call'.route = call.route
         /\ call'.f = call.f /\ MatchesNow' = MatchesNow
         /\ \/ Reading /\ UNCHANGED watch
            \/ /\ Before1st(call) /\ kept' = MatchesNow /\ entered' = {} /\ left' = {}
               /\ call.found = {} /\ call.total = {} /\ call.offset = 0
  <1>1. /\ call # NoCall /\ call.route \in Searches \cup {"export"} /\ call.pc \in {"page", "more"}
        /\ Watch /\ UNCHANGED <<rows, clock>>
    BY DEF ReadPage, ReadBatch, ReadCount, At
  <1>2. call'.route = call.route /\ call'.f = call.f
    BY <1>1 DEF ReadPage, ReadBatch, ReadCount, TypeInv, CallInv, CallFields
  <1>3. call'.moment = call.moment \/ call'.moment = {Moment}
    BY <1>1 DEF ReadPage, ReadBatch, ReadCount, TypeInv, CallInv, CallFields
  <1>4. Moment' = Moment
    BY <1>1, <1>3, MomentStays
  <1> QED BY <1>1, <1>2, <1>4 DEF Watch, MatchesNow, Reading, Before1st, FreshInv, watch

\* Every step keeps it.
LEMMA WatchStep ==
  ASSUME TypeInv, FreshInv, WatchInv, [ViewsNext]_viewVars
  PROVE  WatchInv'
  <1>1. CASE OtherStep
    <2> SUFFICES ASSUME Reading' PROVE WatchInv'
      BY DEF WatchInv
    <2>1. call' = call /\ Reading
      BY <1>1, ObserveSteps DEF Reading
    <2> QED BY <1>1, <2>1, OtherMatches DEF WatchInv
  <1>2. CASE UNCHANGED viewVars
    BY <1>2 DEF viewVars, WatchInv, Reading, MatchesNow, Moment, MomentAt
  <1>3. ASSUME NEW to \in {"OWED", "ON_HOLD"}, ReconcileOwn(to) PROVE WatchInv'
    BY <1>3 DEF ReconcileOwn, At, WatchInv, Reading, TypeInv, CallInv, CallFields
  <1>4. CASE ReadStep
    <2> SUFFICES ASSUME Reading' PROVE WatchInv'
      BY DEF WatchInv
    <2> QED BY <1>4, ReadsOn, QuerySteps DEF WatchInv, watch
  <1> QED BY <1>1, <1>2, <1>3, <1>4, Steps3

\* The length of a page of n rows.
PageLength(n) == TakeLength(n, Offset(call.f), Limit(call.f))

\* A page of the rows S.
IsPageOf(s, S) ==
  /\ ToSet(s) \subseteq S /\ Len(s) = PageLength(Cardinality(S))
  /\ \A i, j \in 1 .. Len(s) : i # j => s[i] # s[j]

\* The rows that the first query of a search may have seen.
SeenFirst(F) == F \subseteq DOMAIN rows /\ kept \subseteq F /\ F \subseteq kept \cup left

\* A search that reads on has its page or its total, of what the first query saw.
HalfInv ==
  Reading /\ call.route \in Searches =>
    /\ call.total = {} <=> call.found # {}
    /\ \E F \in SUBSET DOMAIN rows :
         /\ SeenFirst(F)
         /\ \A n \in call.total : n = Cardinality(F)
         /\ \A s \in call.found : IsPageOf(s, F)

\* It holds before the first step.
LEMMA InitHalf == ViewsInit => HalfInv /\ PageAndTotalAgree
  BY DEF ViewsInit, HalfInv, PageAndTotalAgree, Reading, Answered, Finished

\* The page that a query reads is one of what matches.
LEMMA ReadPageReads ==
  ASSUME TypeInv, NEW s \in SearchOrders, ReadPage(s)
  PROVE  LET page == Take(s, Offset(call.f), Limit(call.f))
         IN  /\ call # NoCall /\ call.route \in Searches /\ call.found = {} /\ call'.found = {page}
             /\ call'.total = call.total /\ IsPageOf(page, MatchesNow) /\ page \in Seq(DOMAIN rows)
             /\ call'.pc = IF call.total = {} THEN "more" ELSE "done"
  <1> DEFINE page == Take(s, Offset(call.f), Limit(call.f))
  <1>1. /\ call # NoCall /\ call.route \in Searches /\ call.found = {} /\ call'.found = {page}
        /\ call'.total = call.total /\ call'.pc = IF call.total = {} THEN "more" ELSE "done"
    BY DEF ReadPage, At, TypeInv, CallInv, CallFields
  <1>2. Limit(call.f) \in Nat /\ Offset(call.f) \in Nat
    BY <1>1, LimitType DEF TypeInv, CallInv
  <1>3. /\ IsFiniteSet(MatchesNow) /\ s \in Orders(call.f, rows, MatchesNow)
        /\ s \in Seq(MatchesNow) /\ s \in Seq(DOMAIN rows)
        /\ \A i, j \in 1 .. Len(s) : i # j => s[i] # s[j]
    BY SearchOrdersList DEF MatchesNow
  <1>4. Len(s) = Cardinality(MatchesNow)
    BY <1>3, OrdersList
  <1>5. ToSet(page) \subseteq MatchesNow
    BY <1>2, <1>3, RowsOfPage
  <1>6. /\ page \in Seq(DOMAIN rows)
        /\ Len(page) = TakeLength(Len(s), Offset(call.f), Limit(call.f))
        /\ \A i, j \in 1 .. Len(page) : i # j => page[i] # page[j]
    <2>1. page \in Seq(DOMAIN rows)
      BY <1>2, <1>3, TakeList
    <2>2. Len(page) = TakeLength(Len(s), Offset(call.f), Limit(call.f))
      BY <1>2, <1>3, TakeList
    <2>3. \A i, j \in 1 .. Len(page) : i # j => page[i] # page[j]
      BY <1>2, <1>3, TakeList
    <2> QED BY <2>1, <2>2, <2>3
  <1> HIDE DEF page
  <1>7. IsPageOf(page, MatchesNow)
    BY <1>4, <1>5, <1>6 DEF IsPageOf, PageLength
  <1> QED BY <1>1, <1>6, <1>7 DEF page

\* The count that a query reads.
LEMMA ReadCountReads ==
  ASSUME TypeInv, ReadCount
  PROVE  /\ call # NoCall /\ call.route \in Searches /\ call.total = {}
         /\ call'.total = {Cardinality(MatchesNow)} /\ call'.found = call.found
         /\ call'.pc = IF call.found = {} THEN "more" ELSE "done"
  BY DEF ReadCount, At, TypeInv, CallInv, CallFields, MatchesNow

\* The first query of a search, or a step of the others between its two queries.
LEMMA HalfStep ==
  ASSUME TypeInv, FreshInv, WatchInv, HalfInv, [ViewsNext]_viewVars
  PROVE  HalfInv'
  <1> SUFFICES ASSUME Reading', call'.route \in Searches PROVE HalfInv'
    BY DEF HalfInv
  <1> DEFINE Half(F) == /\ SeenFirst(F)
                        /\ \A n \in call.total : n = Cardinality(F)
                        /\ \A s \in call.found : IsPageOf(s, F)
  <1>1. CASE OtherStep
    <2>1. call' = call /\ Reading
      BY <1>1, ObserveSteps DEF Reading
    <2>2. PICK F \in SUBSET DOMAIN rows : Half(F)
      BY <2>1 DEF HalfInv
    <2>3. DOMAIN rows \subseteq DOMAIN rows'
      BY <1>1, Steps3, RowSteps DEF RowsGrow
    <2>4. SeenFirst(F)'
      BY <1>1, <2>1, <2>2, <2>3, OtherMatches DEF SeenFirst, WatchInv
    <2>5. Half(F)'
      BY <2>1, <2>2, <2>4 DEF IsPageOf, PageLength
    <2>6. F \in SUBSET DOMAIN rows'
      BY <2>3
    <2> HIDE DEF Half
    <2> QED BY <2>1, <2>5, <2>6 DEF HalfInv, Half
  <1>2. CASE UNCHANGED viewVars
    BY <1>2 DEF viewVars, HalfInv, Reading, SeenFirst, IsPageOf, PageLength
  <1>3. ASSUME NEW to \in {"OWED", "ON_HOLD"} PROVE ~ReconcileOwn(to)
    BY DEF ReconcileOwn, At, Reading, TypeInv, CallInv, CallFields
  <1>4. CASE ReadStep
    <2>1. (\E s \in SearchOrders : ReadPage(s)) \/ ReadCount
      <3>1. ASSUME NEW s \in SearchOrders PROVE ~ReadBatch(s)
        BY ReadBatchStep DEF TypeInv, CallInv, CallFields, Searches
      <3> QED BY <1>4, <3>1, ReadsOn
    <2>2. /\ call # NoCall /\ call'.f = call.f
          /\ \/ Reading /\ UNCHANGED watch
             \/ /\ kept' = MatchesNow /\ left' = {}
                /\ call.found = {} /\ call.total = {}
      BY <2>1, QuerySteps
    <2>3. call.total = {} /\ call.found = {}
      BY <2>1, ReadPageReads, ReadCountReads DEF Reading
    <2>4. ~Reading
      BY <2>1, <2>3, ReadPageReads, ReadCountReads DEF HalfInv, Reading
    <2>5. rows' = rows /\ MatchesNow' = MatchesNow /\ MatchesNow \in SUBSET DOMAIN rows
      BY <1>4, <2>1, QuerySteps, ReadStepStill, MatchingRows DEF MatchesNow
    <2>6. \A n \in call'.total : n = Cardinality(MatchesNow)
      BY <2>1, <2>3, ReadPageReads, ReadCountReads
    <2>7. \A s \in call'.found : IsPageOf(s, MatchesNow)
      BY <2>1, <2>3, ReadPageReads, ReadCountReads
    <2>8. call'.total = {} <=> call'.found # {}
      BY <2>1, <2>3, ReadPageReads, ReadCountReads
    <2>9. \A s \in call'.found : IsPageOf(s, MatchesNow)'
      BY <2>2, <2>5, <2>7 DEF IsPageOf, PageLength
    <2>10. SeenFirst(MatchesNow)'
      BY <2>2, <2>4, <2>5 DEF SeenFirst
    <2> QED BY <2>5, <2>6, <2>8, <2>9, <2>10 DEF HalfInv
  <1> QED BY <1>1, <1>2, <1>3, <1>4, Steps3

\* What the answer of a search says of its page and its total.
PageAgrees(s, n) ==
  /\ ToSet(s) \subseteq kept \cup entered \cup left
  /\ IsInjective(s)
  /\ Cardinality(kept) <= n /\ n <= Cardinality(kept \cup entered \cup left)
  /\ entered \cup left = {} => Len(s) = PageLength(n)

\* A page of the rows M and the count of the rows F agree, when both had what matched all
\* the time and neither what never matched.
LEMMA PageAndTotal ==
  ASSUME TypeInv, NEW M, NEW F, kept \subseteq M, M \subseteq kept \cup entered \cup left,
         kept \subseteq F, F \subseteq kept \cup entered \cup left,
         NEW s \in Seq(DOMAIN rows), IsPageOf(s, M)
  PROVE  PageAgrees(s, Cardinality(F))
  <1> DEFINE W == kept \cup entered \cup left
  <1>1. IsFiniteSet(W) /\ W \subseteq DOMAIN rows
    BY FS_Subset DEF TypeInv, RowsInv
  <1>2. ToSet(s) \subseteq W /\ IsInjective(s)
    BY DEF IsPageOf, IsInjective
  <1>3. F \subseteq W /\ kept \subseteq F
    OBVIOUS
  <1>4. entered \cup left = {} => F = M
    OBVIOUS
  <1> HIDE DEF W
  <1>5. IsFiniteSet(F) /\ Cardinality(F) <= Cardinality(W)
    BY <1>1, <1>3, FS_Subset
  <1>6. Cardinality(kept) <= Cardinality(F)
    BY <1>3, <1>5, FS_Subset
  <1>7. entered \cup left = {} => Len(s) = PageLength(Cardinality(F))
    BY <1>4 DEF IsPageOf
  <1> QED BY <1>2, <1>5, <1>6, <1>7 DEF PageAgrees, W

\* Only a page and a count together answer a search with data.
LEMMA SearchAnswers ==
  ASSUME TypeInv, ReadStep, Answered(Searches)', call'.total # {}
  PROVE  (\E s \in SearchOrders : ReadPage(s)) \/ ReadCount
  <1> USE DEF At, TypeInv, CallInv, CallFields, Answer, Answered, Finished, Searches
  <1>1. ASSUME NEW q \in Requests, NEW keys \in BOOLEAN PROVE ~Arrive(q, keys)
    BY DEF Arrive
  <1>2. ASSUME NEW accounts \in AccountSets \cup {{}} PROVE ~Narrow(accounts) /\ ~Verify(accounts)
    BY DEF Narrow, Verify, Opens
  <1>3. ASSUME NEW ok \in BOOLEAN PROVE ~ReadSetup(ok)
    BY DEF ReadSetup
  <1>4. ASSUME NEW answer \in {"wide", "none", "failed"} PROVE ~LookUpResources(answer)
    BY DEF LookUpResources
  <1>5. ASSUME NEW s \in SearchOrders PROVE ~ReadBatch(s) /\ ~ReadExternal(s)
    BY DEF ReadBatch, ReadExternal
  <1>6. ASSUME NEW s \in ChallengeOrders PROVE ~ReadChallenge(s)
    BY DEF ReadChallenge
  <1>7. ~NarrowFails /\ ~CheckOwn /\ ~ReconcileFails /\ ~QueryFails
    BY DEF NarrowFails, CheckOwn, ReconcileFails, QueryFails
  <1>8. ~ReadTotals /\ ~VerifyFails /\ ~Open /\ ~OpenFails
    BY DEF ReadTotals, VerifyFails, Open, OpenFails, Opens
  <1> QED BY <1>1, <1>2, <1>3, <1>4, <1>5, <1>6, <1>7, <1>8 DEF ReadStep

\* Every step keeps it: the second of the two queries finishes the search.
LEMMA PageStep ==
  ASSUME TypeInv, FreshInv, WatchInv, HalfInv, PageAndTotalAgree, [ViewsNext]_viewVars
  PROVE  PageAndTotalAgree'
  <1> SUFFICES ASSUME Answered(Searches)', call'.total # {} PROVE PageAndTotalAgree'
    BY DEF PageAndTotalAgree
  <1>1. CASE OtherStep
    BY <1>1, ObserveSteps DEF Answered, Finished
  <1>2. CASE UNCHANGED viewVars
    BY <1>2 DEF viewVars, PageAndTotalAgree, Answered, Finished, Found
  <1>3. ASSUME NEW to \in {"OWED", "ON_HOLD"} PROVE ~ReconcileOwn(to)
    BY DEF ReconcileOwn, At, Answered, Finished, TypeInv, CallInv, CallFields
  <1>4. CASE ReadStep
    <2>1. (\E s \in SearchOrders : ReadPage(s)) \/ ReadCount
      BY <1>4, SearchAnswers
    <2>2. call'.pc = "done" /\ call'.f = call.f
      BY <2>1, QuerySteps DEF Answered, Finished
    <2>3. call.total # {} \/ call.found # {}
      BY <2>1, <2>2, ReadPageReads, ReadCountReads
    <2>4. Reading /\ UNCHANGED watch
      BY <2>1, <2>3, QuerySteps
    <2>5. call.route \in Searches
      BY <2>1, ReadPageReads, ReadCountReads
    <2>6. PICK F \in SUBSET DOMAIN rows :
             /\ SeenFirst(F)
             /\ \A n \in call.total : n = Cardinality(F)
             /\ \A s \in call.found : IsPageOf(s, F)
      BY <2>4, <2>5 DEF HalfInv
    <2>7. /\ kept \subseteq F /\ F \subseteq kept \cup entered \cup left
          /\ kept \subseteq MatchesNow /\ MatchesNow \subseteq kept \cup entered \cup left
      BY <2>4, <2>6 DEF SeenFirst, WatchInv
    <2>8. \E s \in Seq(DOMAIN rows), n \in Nat :
            call'.found = {s} /\ call'.total = {n} /\ PageAgrees(s, n)
      <3>1. CASE ReadCount
        <4>1. PICK s \in Seq(DOMAIN rows) : call.found = {s}
          BY <2>3, <3>1, ReadCountReads DEF TypeInv, CallInv
        <4>2. call'.found = {s} /\ call'.total = {Cardinality(MatchesNow)}
          BY <3>1, <4>1, ReadCountReads
        <4>3. PageAgrees(s, Cardinality(MatchesNow))
          BY <2>6, <2>7, <4>1, PageAndTotal
        <4>4. Cardinality(MatchesNow) \in Nat
          <5>1. IsFiniteSet(MatchesNow)
            BY MatchingRows, FS_Subset DEF MatchesNow, TypeInv, RowsInv
          <5> QED BY <5>1, FS_CardinalityType
        <4> QED BY <4>2, <4>3, <4>4
      <3>2. ASSUME NEW t \in SearchOrders, ReadPage(t)
            PROVE  \E s \in Seq(DOMAIN rows), n \in Nat :
                     call'.found = {s} /\ call'.total = {n} /\ PageAgrees(s, n)
        <4>1. PICK n \in Nat : call.total = {n}
          BY <2>3, <3>2, ReadPageReads DEF TypeInv, CallInv
        <4>2. PICK s \in Seq(DOMAIN rows) :
                call'.found = {s} /\ call'.total = call.total /\ IsPageOf(s, MatchesNow)
          BY <3>2, ReadPageReads
        <4>3. n = Cardinality(F)
          BY <2>6, <4>1
        <4>4. PageAgrees(s, n)
          BY <2>7, <4>2, <4>3, PageAndTotal
        <4> QED BY <4>1, <4>2, <4>4
      <3> QED BY <2>1, <3>1, <3>2
    <2>9. PICK s \in Seq(DOMAIN rows), n \in Nat :
            call'.found = {s} /\ call'.total = {n} /\ PageAgrees(s, n)
      BY <2>8
    <2>10. Found' = s
      BY <2>9 DEF Found
    <2> QED BY <2>2, <2>4, <2>9, <2>10 DEF PageAndTotalAgree, PageAgrees, PageLength, TakeLength, watch
  <1> QED BY <1>1, <1>2, <1>3, <1>4, Steps3

\* A page and its total, for every table, filter and interleaving of the other requests
\* with the two queries.
THEOREM PageAndTotalAgreeHolds == ViewsSpec => []PageAndTotalAgree
  BY InitType, TypeStep, InitFresh, FreshStep, InitWatch, WatchStep, InitHalf, HalfStep, PageStep,
     PTL DEF ViewsSpec

-----------------------------------------------------------------------------
(***************************************************************************)
(* What the category-scoped roles and the billing accounts leave of a      *)
(* search or an export.                                                    *)
(***************************************************************************)

\* A winning that may be listed for the roles and for what the billing account service has
\* answered.
Listed(w, roles, answers) ==
  /\ CategoryRoles(roles) # {} =>
       Catalog[w].category \in UNION {CategoryScope(r) : r \in CategoryRoles(roles)}
  /\ BillingRoles(roles) # {} =>
       \A accounts \in answers : \E i \in DOMAIN Catalog[w].pays : Catalog[w].pays[i].account \in accounts

\* The filters of a search or an export after Narrow, and what they have found.
ScopeInv ==
  Running(call) /\ call.route \in {"search", "export"} /\ call.pc # "filter" =>
    /\ CategoryRoles(Roles) # {} => InScope(call.f, Roles)
    /\ BillingRoles(Roles) # {} => \A accounts \in call.accounts : BilledTo(call.f, accounts)
    /\ \A s \in call.found : \A w \in ToSet(s) : Listed(w, Roles, call.accounts)

\* It holds before the first step.
LEMMA InitScope == ViewsInit => ScopeInv
  BY DEF ViewsInit, ScopeInv, Running

\* What the filters in scope find may be listed.
LEMMA ScopedMatches ==
  ASSUME TypeInv, NEW f, NEW roles, NEW answers,
         CategoryRoles(roles) # {} => InScope(f, roles),
         BillingRoles(roles) # {} => \A accounts \in answers : BilledTo(f, accounts),
         NEW now, NEW w \in Matching(f, rows, now)
  PROVE  Listed(w, roles, answers)
  <1>1. w \in DOMAIN rows /\ AsksCategory(f, rows[w]) /\ AsksPayment(f, rows[w])
    BY DEF Matching, Matches
  <1>2. IsRowOf(rows[w], w)
    BY <1>1 DEF TypeInv, RowsInv
  <1>3. ASSUME CategoryRoles(roles) # {}
        PROVE  Catalog[w].category \in UNION {CategoryScope(r) : r \in CategoryRoles(roles)}
    <2>1. CASE f.category = {"TAAS_PAYMENT"} /\ "Wipro TaaS Admin" \in ScopedRoles(roles)
      <3>1. rows[w].category = "TAAS_PAYMENT" /\ "Wipro TaaS Admin" \in CategoryRoles(roles)
        BY <1>1, <2>1 DEF AsksCategory, CategoryRoles
      <3>2. CategoryScope("Wipro TaaS Admin") = {"TAAS_PAYMENT"}
        BY DEF CategoryScope
      <3> QED BY <1>2, <3>1, <3>2 DEF IsRowOf
    <2>2. CASE /\ f.category = {} /\ UNION f.categories # {}
               /\ UNION f.categories \subseteq ApproverCategories
               /\ "Payment Approver" \in ScopedRoles(roles)
      <3>1. rows[w].category \in ApproverCategories /\ "Payment Approver" \in CategoryRoles(roles)
        BY <1>1, <2>2 DEF AsksCategory, CategoryRoles
      <3>2. CategoryScope("Payment Approver") = ApproverCategories
        BY DEF CategoryScope
      <3> QED BY <1>2, <3>1, <3>2 DEF IsRowOf
    <2> QED BY <1>3, <2>1, <2>2 DEF InScope
  <1>4. ASSUME BillingRoles(roles) # {}, NEW accounts \in answers
        PROVE  \E i \in DOMAIN Catalog[w].pays : Catalog[w].pays[i].account \in accounts
    <2>1. f.billingAccounts = {accounts}
      BY <1>4 DEF BilledTo
    <2>2. \E i \in DOMAIN rows[w].pays : rows[w].pays[i].account \in accounts
      BY <1>1, <2>1 DEF AsksPayment
    <2> QED BY <1>2, <2>2 DEF IsRowOf
  <1> QED BY <1>3, <1>4 DEF Listed

\* The roles of a caller whose request has its type.
LEMMA RolesSame == ASSUME call' # NoCall, call # NoCall, call'.token = call.token PROVE Roles' = Roles
  BY DEF Roles

\* After Narrow the filters are in scope.
LEMMA NarrowScopes ==
  ASSUME TypeInv, FreshInv, NEW accounts, Narrow(accounts)
  PROVE  /\ CategoryRoles(Roles) # {} => InScope(call'.f, Roles)
         /\ BillingRoles(Roles) # {} => BilledTo(call'.f, accounts)
         /\ call'.accounts = {accounts} /\ call'.found = {}
         /\ call'.token = call.token
  <1> DEFINE asked == IF call.route = "export" THEN [call.f EXCEPT !.limit = {}, !.offset = {}]
                      ELSE call.f
             g == ApplyFilters(Roles, asked, accounts)
  <1>1. call # NoCall /\ call.pc = "filter"
    BY DEF Narrow, At
  <1>2. IsFilters(asked)
    BY <1>1 DEF TypeInv, CallInv, IsFilters, FilterFields
  <1>3. /\ call' = [call EXCEPT !.pc = "page", !.accounts = {accounts}, !.f = g]
    BY DEF Narrow
  <1> HIDE DEF asked
  <1>4. /\ CategoryRoles(Roles) # {} => InScope(g, Roles)
        /\ "Payment BA Admin" \in ScopedRoles(Roles) => BilledTo(g, accounts)
    BY <1>1, <1>2, RolesType, ApplyFiltersNarrows
  <1> HIDE DEF g
  <1>5. call'.f = g /\ call'.accounts = {accounts} /\ call'.found = call.found /\ call'.token = call.token
    BY <1>1, <1>3 DEF TypeInv, CallInv, CallFields
  <1>6. call.found = {}
    BY <1>1 DEF FreshInv, Before1st
  <1> QED BY <1>4, <1>5, <1>6 DEF BillingRoles

\* The accounts of a search or an export stay those that Narrow has got.
LEMMA AccountsStay ==
  ASSUME TypeInv, ReadStep, call # NoCall, call.route \in {"search", "export"},
         ~\E accounts \in AccountSets \cup {{}} : Narrow(accounts)
  PROVE  call'.accounts = call.accounts
  <1> USE DEF At, TypeInv, CallInv, CallFields, Answer
  <1>1. ASSUME NEW q \in Requests, NEW keys \in BOOLEAN PROVE ~Arrive(q, keys)
    BY DEF Arrive
  <1>2. ASSUME NEW accounts \in AccountSets \cup {{}} PROVE ~Verify(accounts)
    BY DEF Verify, Opens
  <1>3. ASSUME NEW ok \in BOOLEAN PROVE ~ReadSetup(ok)
    BY DEF ReadSetup
  <1>4. ASSUME NEW answer \in {"wide", "none", "failed"} PROVE ~LookUpResources(answer)
    BY DEF LookUpResources
  <1>5. ASSUME NEW s \in SearchOrders, ReadPage(s) \/ ReadBatch(s) \/ ReadExternal(s)
        PROVE  call'.accounts = call.accounts
    BY <1>5 DEF ReadPage, ReadBatch, ReadExternal
  <1>6. ASSUME NEW s \in ChallengeOrders PROVE ~ReadChallenge(s)
    BY DEF ReadChallenge
  <1>7. ASSUME NarrowFails \/ CheckOwn \/ ReconcileFails \/ ReadCount \/ QueryFails
        PROVE  call'.accounts = call.accounts
    BY <1>7 DEF NarrowFails, CheckOwn, ReconcileFails, ReadCount, QueryFails
  <1>8. ~ReadTotals /\ ~VerifyFails /\ ~Open /\ ~OpenFails
    BY DEF ReadTotals, VerifyFails, Open, OpenFails, Opens
  <1> QED BY <1>1, <1>2, <1>3, <1>4, <1>5, <1>6, <1>7, <1>8 DEF ReadStep

\* From the filters on there is no way but through Narrow.
LEMMA OutOfFilter ==
  ASSUME TypeInv, ReadStep, call # NoCall, call.route \in {"search", "export"}, call.pc = "filter",
         ~\E accounts \in AccountSets \cup {{}} : Narrow(accounts)
  PROVE  ~Running(call)'
  <1> USE DEF At, TypeInv, CallInv, CallFields
  <1>1. NarrowFails
    BY DEF ReadStep, Arrive, Verify, ReadSetup, LookUpResources, ReadPage, ReadBatch, ReadExternal,
           ReadChallenge, CheckOwn, ReconcileFails, ReadCount, QueryFails, ReadTotals, VerifyFails,
           Open, OpenFails
  <1> QED BY <1>1 DEF NarrowFails, Answer, Running

\* Every step keeps it.
LEMMA ScopeStep ==
  ASSUME TypeInv, FreshInv, ScopeInv, [ViewsNext]_viewVars
  PROVE  ScopeInv'
  <1>1. CASE OtherStep \/ UNCHANGED viewVars
    <2>1. call' = call
      BY <1>1, ObserveSteps DEF viewVars
    <2> QED BY <2>1 DEF ScopeInv, Running, Roles
  <1>2. ASSUME NEW to \in {"OWED", "ON_HOLD"}, ReconcileOwn(to) PROVE ScopeInv'
    BY <1>2 DEF ReconcileOwn, At, ScopeInv, TypeInv, CallInv, CallFields
  <1>3. ASSUME NEW q \in Requests, NEW keys \in BOOLEAN, Arrive(q, keys) PROVE ScopeInv'
    <2> SUFFICES ASSUME Running(call)', call'.route \in {"search", "export"}, call'.pc # "filter"
                 PROVE  FALSE
      BY DEF ScopeInv
    <2> DEFINE verdict == IF TokenRejected(q.token, keys) THEN "401"
                          ELSE Guards(Route[q.route], TokenValidator(q.token))
    <2>1. /\ call'.route = q.route
          /\ call'.pc = IF verdict = "pass" THEN FirstStep(q) ELSE "done"
          /\ call'.answer = IF verdict = "pass" THEN "pending" ELSE verdict
      BY <1>3 DEF Arrive
    <2>2. verdict \in {"pass", "401", "403"}
      BY DEF Guards, AuthGuard, RolesGuard
    <2> HIDE DEF verdict
    <2>3. verdict = "pass" => call'.pc = "filter"
      BY <2>1 DEF FirstStep
    <2> QED BY <2>1, <2>2, <2>3 DEF Running
  <1>4. ASSUME ReadStep, ~\E q \in Requests, keys \in BOOLEAN : Arrive(q, keys) PROVE ScopeInv'
    <2> SUFFICES ASSUME Running(call)', call'.route \in {"search", "export"}, call'.pc # "filter"
                 PROVE  ScopeInv'
      BY DEF ScopeInv
    <2>1. /\ call # NoCall /\ call.pc # "done" /\ Running(call) /\ call.route = call'.route
          /\ call' # NoCall /\ Roles' = Roles
          /\ (~\E accounts \in AccountSets \cup {{}} : Narrow(accounts)) => call'.f = call.f
      BY <1>4, SameRequest, RolesSame DEF Running
    <2>2. ASSUME NEW accounts \in AccountSets \cup {{}}, Narrow(accounts) PROVE ScopeInv'
      BY <2>1, <2>2, NarrowScopes DEF ScopeInv
    <2>3. ASSUME ~\E accounts \in AccountSets \cup {{}} : Narrow(accounts) PROVE ScopeInv'
      <3>1. call.pc # "filter"
        BY <1>4, <2>1, <2>3, OutOfFilter
      <3>2. call'.accounts = call.accounts /\ call'.f = call.f
        BY <1>4, <2>1, <2>3, AccountsStay
      <3>3. /\ CategoryRoles(Roles) # {} => InScope(call.f, Roles)
            /\ BillingRoles(Roles) # {} => \A accounts \in call.accounts : BilledTo(call.f, accounts)
            /\ \A s \in call.found : \A w \in ToSet(s) : Listed(w, Roles, call.accounts)
        BY <2>1, <3>1 DEF ScopeInv
      <3>4. ASSUME NEW s \in call'.found, NEW w \in ToSet(s) PROVE Listed(w, Roles, call.accounts)
        <4>1. CASE w \in Matching(call.f, rows, Moment)
          BY <3>3, <4>1, ScopedMatches
        <4>2. CASE call'.found = call.found
          BY <3>3, <3>4, <4>2
        <4>3. ASSUME NEW t \in SearchOrders, ReadPage(t) PROVE w \in Matching(call.f, rows, Moment)
          <5>1. s = Take(t, Offset(call.f), Limit(call.f))
            BY <3>4, <4>3 DEF ReadPage, TypeInv, CallInv, CallFields
          <5> QED BY <2>1, <3>4, <5>1, LimitType, SearchOrdersList, RowsOfPage DEF TypeInv, CallInv
        <4>4. ASSUME NEW t \in SearchOrders, ReadBatch(t)
              PROVE  w \in Matching(call.f, rows, Moment) \/ w \in UNION {ToSet(x) : x \in call.found}
          <5> DEFINE batch == Take(t, call.offset, BatchSize)
          <5>1. /\ call' = [call EXCEPT !.found = {FileSoFar \o batch}, !.offset = @ + BatchSize,
                               !.pc = IF Len(batch) < BatchSize THEN "done" ELSE "more",
                               !.answer = IF Len(batch) < BatchSize THEN "success" ELSE "pending"]
                /\ batch \in Seq(DOMAIN rows)
                /\ call.offset \in Nat /\ BatchSize \in Nat
            BY <4>4, ReadBatchStep
          <5>2. ToSet(batch) \subseteq Matching(call.f, rows, Moment)
            BY <5>1, SearchOrdersList, RowsOfPage
          <5>3. FileSoFar \in Seq(DOMAIN rows) /\ (call.found # {} => call.found = {FileSoFar})
            BY <2>1, FileType
          <5>4. call.found = {} => FileSoFar = << >>
            BY DEF FileSoFar
          <5> HIDE DEF batch
          <5>5. s = FileSoFar \o batch
            BY <3>4, <5>1 DEF TypeInv, CallInv, CallFields
          <5>6. w \in ToSet(FileSoFar) \cup ToSet(batch)
            BY <3>4, <5>1, <5>3, <5>5 DEF ToSet
          <5>7. call.found = {} => ToSet(FileSoFar) = {}
            BY <5>4 DEF ToSet
          <5> QED BY <5>2, <5>3, <5>6, <5>7
        <4>5. ASSUME NEW t \in SearchOrders PROVE ~ReadExternal(t)
          BY <2>1 DEF ReadExternal, At
        <4>6. ~Open /\ ~\E t \in ChallengeOrders : ReadChallenge(t)
          BY <2>1 DEF Open, Opens, ReadChallenge, At
        <4>7. CASE \E t \in SearchOrders : ReadBatch(t)
          BY <3>3, <4>1, <4>4, <4>7
        <4> QED BY <1>4, <3>4, <4>1, <4>2, <4>3, <4>5, <4>6, <4>7, FoundChanges
      <3> QED BY <2>1, <3>2, <3>3, <3>4 DEF ScopeInv
    <2> QED BY <2>2, <2>3
  <1> QED BY <1>1, <1>2, <1>3, <1>4, Steps3

\* Two members are two.
LEMMA TwoMembers ==
  ASSUME NEW x, NEW y, x # y
  PROVE  IsFiniteSet({x, y}) /\ Cardinality({x, y}) = 2
  <1> DEFINE X == {x}
  <1>1. IsFiniteSet(X) /\ Cardinality(X) = 1
    BY FS_Singleton
  <1>2. y \notin X /\ {x, y} = X \cup {y}
    OBVIOUS
  <1> HIDE DEF X
  <1> QED BY <1>1, <1>2, FS_AddElement

\* A set with two members has not at most one.
LEMMA AtMostOne ==
  ASSUME NEW A, IsFiniteSet(A), ~Cardinality(A) > 1, NEW x \in A, NEW y \in A
  PROVE  x = y
  <1> SUFFICES ASSUME x # y PROVE FALSE
    OBVIOUS
  <1>2. Cardinality({x, y}) = 2
    BY TwoMembers
  <1>3. {x, y} \subseteq A
    OBVIOUS
  <1>4. 2 <= Cardinality(A) /\ Cardinality(A) \in Nat
    BY <1>2, <1>3, FS_Subset, FS_CardinalityType
  <1> QED BY <1>4

\* A winning that is listed could be opened, but for the two exceptions.
LEMMA ListedOpens ==
  ASSUME TypeInv, NEW w \in DOMAIN rows, NEW roles, NEW answers, Listed(w, roles, answers),
         Cardinality(CategoryRoles(roles)) # 2,
         ~Cardinality({rows[w].pays[i].account : i \in DOMAIN rows[w].pays}) > 1,
         NEW accounts \in answers
  PROVE  MayOpen(roles, {rows[w]}, accounts)
  <1> DEFINE A == {rows[w].pays[i].account : i \in DOMAIN rows[w].pays}
  <1>1. /\ rows[w].category = Catalog[w].category
        /\ DOMAIN rows[w].pays = DOMAIN Catalog[w].pays /\ IsFiniteSet(DOMAIN rows[w].pays)
        /\ \A i \in DOMAIN rows[w].pays : rows[w].pays[i].account = Catalog[w].pays[i].account
    BY ViewsAssumption DEF TypeInv, RowsInv, IsRowOf, AllWinnings, ViewsAssumption
  <1>2. ~("Payment Approver" \in ScopedRoles(roles) /\ "Wipro TaaS Admin" \in ScopedRoles(roles))
    <2> SUFFICES ASSUME "Payment Approver" \in ScopedRoles(roles), "Wipro TaaS Admin" \in ScopedRoles(roles)
                 PROVE  FALSE
      OBVIOUS
    <2>1. CategoryRoles(roles) = {"Payment Approver", "Wipro TaaS Admin"}
      BY DEF CategoryRoles
    <2>2. "Payment Approver" # "Wipro TaaS Admin"
      OBVIOUS
    <2> QED BY <2>1, <2>2, TwoMembers
  <1>3. ASSUME "Payment Approver" \in ScopedRoles(roles) PROVE ApproverMayOpen({rows[w]})
    <2>1. CategoryRoles(roles) = {"Payment Approver"}
      BY <1>2, <1>3 DEF CategoryRoles
    <2>2. CategoryScope("Payment Approver") = ApproverCategories
      BY DEF CategoryScope
    <2> QED BY <1>1, <2>1, <2>2 DEF Listed, ApproverMayOpen
  <1>4. ASSUME "Wipro TaaS Admin" \in ScopedRoles(roles) PROVE WiproMayOpen({rows[w]})
    <2>1. CategoryRoles(roles) = {"Wipro TaaS Admin"}
      BY <1>2, <1>4 DEF CategoryRoles
    <2>2. CategoryScope("Wipro TaaS Admin") = {"TAAS_PAYMENT"}
      BY DEF CategoryScope
    <2> QED BY <1>1, <2>1, <2>2 DEF Listed, WiproMayOpen
  <1>5. ASSUME "Payment BA Admin" \in ScopedRoles(roles) PROVE BillingMayOpen({rows[w]}, accounts)
    <2>1. BillingRoles(roles) # {}
      BY <1>5 DEF BillingRoles
    <2>2. PICK i \in DOMAIN rows[w].pays : rows[w].pays[i].account \in accounts
      BY <1>1, <2>1 DEF Listed
    <2>3. IsFiniteSet(A)
      <3> DEFINE g == [k \in DOMAIN rows[w].pays |-> rows[w].pays[k].account]
      <3>1. g \in Surjection(DOMAIN rows[w].pays, A)
        BY DEF Surjection
      <3> QED BY <1>1, <3>1, FS_Surjection
    <2>4. \A j \in DOMAIN rows[w].pays : rows[w].pays[j].account \in A
      OBVIOUS
    <2> HIDE DEF A
    <2>5. ASSUME NEW j \in DOMAIN rows[w].pays PROVE rows[w].pays[j].account = rows[w].pays[i].account
      <3>1. ~Cardinality(A) > 1
        BY DEF A
      <3> QED BY <2>3, <2>4, <3>1, AtMostOne
    <2> QED BY <2>2, <2>5 DEF BillingMayOpen
  <1>6. \A r \in ScopedRoles(roles) : r \in {"Payment Approver", "Wipro TaaS Admin", "Payment BA Admin"}
    BY DEF ScopedRoles
  <1> QED BY <1>3, <1>4, <1>5, <1>6 DEF MayOpen

\* No search and no export lists what its caller's roles may not see, for every claim of
\* roles, every filter asked for and every answer of the billing account service.
THEOREM ScopedListingHolds == ViewsSpec => []ScopedListing
  <1>1. TypeInv /\ ScopeInv => ScopedListing
    <2> SUFFICES ASSUME TypeInv, ScopeInv, Answered({"search", "export"}), NEW w \in ToSet(Found)
                 PROVE  LET scoped == ScopedRoles(Roles) \cap {"Payment Approver", "Wipro TaaS Admin"}
                        IN  /\ scoped # {} => rows[w].category \in UNION {CategoryScope(r) : r \in scoped}
                            /\ \/ Cardinality(scoped) = 2
                               \/ Cardinality({rows[w].pays[i].account : i \in DOMAIN rows[w].pays}) > 1
                               \/ \A accounts \in call.accounts : MayOpen(Roles, {rows[w]}, accounts)
      BY DEF ScopedListing
    <2>1. /\ call # NoCall /\ Running(call) /\ call.route \in {"search", "export"} /\ call.pc # "filter"
          /\ call.found # {} /\ Found \in call.found
      BY DEF Answered, Finished, Running, Found
    <2>2. Listed(w, Roles, call.accounts)
      BY <2>1 DEF ScopeInv
    <2>3. w \in DOMAIN rows
      <3>1. Found \in Seq(DOMAIN rows)
        BY <2>1 DEF TypeInv, CallInv
      <3> QED BY <3>1, MembersOfSeq
    <2>4. rows[w].category = Catalog[w].category
      BY <2>3 DEF TypeInv, RowsInv, IsRowOf
    <2>5. CategoryRoles(Roles) # {} =>
            rows[w].category \in UNION {CategoryScope(r) : r \in CategoryRoles(Roles)}
      BY <2>2, <2>4 DEF Listed
    <2>6. \/ Cardinality(CategoryRoles(Roles)) = 2
          \/ Cardinality({rows[w].pays[i].account : i \in DOMAIN rows[w].pays}) > 1
          \/ \A accounts \in call.accounts : MayOpen(Roles, {rows[w]}, accounts)
      BY <2>2, <2>3, ListedOpens
    <2> QED BY <2>5, <2>6 DEF CategoryRoles
  <1> QED BY <1>1, InitType, TypeStep, InitFresh, FreshStep, InitScope, ScopeStep, PTL DEF ViewsSpec

-----------------------------------------------------------------------------
(***************************************************************************)
(* The export.  R is the order of the rows as pairs, M the rows that match *)
(* now; of the rows watched, K matched all the time, E entered, L left.    *)
(***************************************************************************)

\* How many rows of M are before w.
Rank(R, M, w) == Cardinality({v \in M : <<v, w>> \in R})

\* The sort keys of S differ.
Ordered(R, S) == \A v, w \in S : v # w => <<v, w>> \in R \/ <<w, v>> \in R

\* s lists M, each row once, in the order R.
Lists(s, M, R) ==
  /\ s \in Seq(M) /\ IsFiniteSet(M)
  /\ \A i, j \in 1 .. Len(s) : i # j => s[i] # s[j]
  /\ \A i, j \in 1 .. Len(s) : i < j => <<s[j], s[i]>> \notin R
  /\ \A w \in M : \E i \in 1 .. Len(s) : s[i] = w

\* A file of n lines so far: a row that is missing is not yet due, or one before it left; a
\* row that is there is not due again, unless one before it entered.
FileOk(file, n, K, E, L, M, R) ==
  /\ \A w \in K \ ToSet(file) : (\E v \in L : <<v, w>> \in R) \/ n <= Rank(R, M, w)
  /\ \A w \in ToSet(file) : (\E v \in E : <<v, w>> \in R) \/ Rank(R, M, w) < n
  /\ \A i, j \in 1 .. Len(file) :
       i < j /\ file[i] = file[j] => \E v \in E : <<v, file[i]>> \in R

\* A rank is a number.
LEMMA RankType ==
  ASSUME NEW R, NEW M, NEW w, IsFiniteSet(M)
  PROVE  Rank(R, M, w) \in Nat /\ IsFiniteSet({v \in M : <<v, w>> \in R})
  <1> DEFINE S == {v \in M : <<v, w>> \in R}
  <1>1. S \subseteq M
    OBVIOUS
  <1> HIDE DEF S
  <1>2. IsFiniteSet(S) /\ Cardinality(S) \in Nat
    BY <1>1, FS_Subset, FS_CardinalityType
  <1> QED BY <1>2 DEF S, Rank

\* The first n numbers are n.
LEMMA FirstNumbers == ASSUME NEW n \in Nat PROVE IsFiniteSet(1 .. n) /\ Cardinality(1 .. n) = n
  BY FS_Interval

\* More rows that are before w make a higher rank.
LEMMA RankGrows ==
  ASSUME NEW R, NEW R2, NEW M, NEW M2, NEW w, IsFiniteSet(M), IsFiniteSet(M2),
         \A v \in M : <<v, w>> \in R => v \in M2 /\ <<v, w>> \in R2
  PROVE  Rank(R, M, w) <= Rank(R2, M2, w)
  <1> DEFINE S == {v \in M : <<v, w>> \in R}
             S2 == {v \in M2 : <<v, w>> \in R2}
  <1>1. S \subseteq S2
    OBVIOUS
  <1>2. IsFiniteSet(S2)
    BY RankType
  <1> HIDE DEF S, S2
  <1>3. Cardinality(S) <= Cardinality(S2)
    BY <1>1, <1>2, FS_Subset
  <1> QED BY <1>3 DEF Rank, S, S2

\* The row at place p of an ordered list has p - 1 rows before it.
LEMMA PlaceIsRank ==
  ASSUME NEW M, NEW R, NEW s, Lists(s, M, R), Ordered(R, M), \A v \in M : <<v, v>> \notin R,
         NEW p \in 1 .. Len(s)
  PROVE  Rank(R, M, s[p]) = p - 1
  <1> DEFINE S == {v \in M : <<v, s[p]>> \in R}
             g == [i \in 1 .. p - 1 |-> s[i]]
  <1>1. Len(s) \in Nat /\ p \in Nat /\ p - 1 \in Nat /\ \A i \in 1 .. Len(s) : s[i] \in M
    BY DEF Lists
  <1>2. \A i \in 1 .. p - 1 : i \in 1 .. Len(s) /\ i < p /\ i # p
    BY <1>1
  <1>3. ASSUME NEW i \in 1 .. p - 1 PROVE s[i] \in S
    <2>1. s[i] \in M /\ s[p] \in M /\ s[i] # s[p] /\ <<s[p], s[i]>> \notin R
      BY <1>1, <1>2 DEF Lists
    <2> QED BY <2>1 DEF Ordered
  <1>4. ASSUME NEW v \in S PROVE \E i \in 1 .. p - 1 : g[i] = v
    <2>1. PICK i \in 1 .. Len(s) : s[i] = v
      BY DEF Lists
    <2>2. i # p
      BY <1>1, <2>1
    <2>3. ~(p < i)
      BY <2>1 DEF Lists
    <2>4. i \in 1 .. p - 1
      BY <1>1, <2>2, <2>3
    <2> QED BY <2>1, <2>4
  <1>5. g \in Bijection(1 .. p - 1, S)
    <2>1. g \in Surjection(1 .. p - 1, S)
      BY <1>3, <1>4 DEF Surjection
    <2>2. \A i, j \in 1 .. p - 1 : g[i] = g[j] => i = j
      BY <1>2 DEF Lists
    <2> QED BY <2>1, <2>2 DEF Bijection, Injection, IsInjective, Surjection
  <1>6. IsFiniteSet(1 .. p - 1) /\ Cardinality(1 .. p - 1) = p - 1
    BY <1>1, FirstNumbers
  <1> HIDE DEF S, g
  <1>7. Cardinality(S) = p - 1
    <2> DEFINE P == 1 .. p - 1
    <2>1. ExistsBijection(P, S)
      BY <1>5 DEF ExistsBijection
    <2>2. IsFiniteSet(P) /\ Cardinality(P) = p - 1
      BY <1>6
    <2> HIDE DEF P
    <2> QED BY <2>1, <2>2, FS_Bijection
  <1> QED BY <1>7 DEF Rank, S

\* What a step of the others does to the watch and to the order of the rows D.
Moved(D, K, E, L, M, R, K2, E2, L2, M2, R2) ==
  /\ IsFiniteSet(M) /\ IsFiniteSet(M2)
  /\ K2 \subseteq K /\ E \subseteq E2 /\ L \subseteq L2
  /\ M2 \subseteq M \cup E2 /\ M \subseteq M2 \cup L2
  /\ K \cup E \cup L \cup M \subseteq D
  /\ \A v, w \in D : <<v, w>> \in R <=> <<v, w>> \in R2

\* It keeps a file as good as it was.
LEMMA FileOther ==
  ASSUME NEW D, NEW file \in Seq(D), NEW n \in Nat, NEW K, NEW E, NEW L, NEW M, NEW R,
         NEW K2, NEW E2, NEW L2, NEW M2, NEW R2, FileOk(file, n, K, E, L, M, R),
         Moved(D, K, E, L, M, R, K2, E2, L2, M2, R2)
  PROVE  FileOk(file, n, K2, E2, L2, M2, R2)
  <1>0. ToSet(file) \subseteq D /\ \A i \in 1 .. Len(file) : file[i] \in ToSet(file)
    BY MembersOfSeq DEF ToSet
  <1> USE DEF Moved
  <1>1. ASSUME NEW w \in K2 \ ToSet(file), ~\E v \in L2 : <<v, w>> \in R2
        PROVE  n <= Rank(R2, M2, w)
    <2>1. n <= Rank(R, M, w)
      BY <1>1 DEF FileOk
    <2>2. \A v \in M : <<v, w>> \in R => v \in M2 /\ <<v, w>> \in R2
      BY <1>0, <1>1
    <2>3. Rank(R, M, w) <= Rank(R2, M2, w)
      BY <2>2, RankGrows
    <2>4. Rank(R, M, w) \in Nat /\ Rank(R2, M2, w) \in Nat
      BY RankType
    <2> QED BY <2>1, <2>3, <2>4
  <1>2. ASSUME NEW w \in ToSet(file), ~\E v \in E2 : <<v, w>> \in R2
        PROVE  Rank(R2, M2, w) < n
    <2>1. Rank(R, M, w) < n
      BY <1>0, <1>2 DEF FileOk
    <2>2. \A v \in M2 : <<v, w>> \in R2 => v \in M /\ <<v, w>> \in R
      <3>1. w \in D /\ M2 \subseteq M \cup E2
        BY <1>0, <1>2
      <3> QED BY <1>2, <3>1
    <2>3. Rank(R2, M2, w) <= Rank(R, M, w)
      BY <2>2, RankGrows
    <2>4. Rank(R, M, w) \in Nat /\ Rank(R2, M2, w) \in Nat
      BY RankType
    <2> QED BY <2>1, <2>3, <2>4
  <1>3. \A i, j \in 1 .. Len(file) :
          i < j /\ file[i] = file[j] => \E v \in E2 : <<v, file[i]>> \in R2
    BY <1>0 DEF FileOk
  <1> QED BY <1>1, <1>2, <1>3 DEF FileOk

\* The lines of a file with one more batch.
LEMMA AppendedLines ==
  ASSUME NEW D, NEW file \in Seq(D), NEW batch \in Seq(D)
  PROVE  /\ Len(file \o batch) = Len(file) + Len(batch)
         /\ ToSet(file \o batch) = ToSet(file) \cup ToSet(batch)
         /\ \A i \in 1 .. Len(file) + Len(batch) :
              (file \o batch)[i] = IF i <= Len(file) THEN file[i] ELSE batch[i - Len(file)]
  <1>1. Len(file) \in Nat /\ Len(batch) \in Nat /\ Len(file \o batch) = Len(file) + Len(batch)
    OBVIOUS
  <1>2. \A i \in 1 .. Len(file) + Len(batch) :
          (file \o batch)[i] = IF i <= Len(file) THEN file[i] ELSE batch[i - Len(file)]
    OBVIOUS
  <1>3. ASSUME NEW w \in ToSet(file) PROVE w \in ToSet(file \o batch)
    BY <1>1, <1>2 DEF ToSet
  <1>4. ASSUME NEW w \in ToSet(batch) PROVE w \in ToSet(file \o batch)
    <2>1. PICK i \in 1 .. Len(batch) : batch[i] = w
      BY DEF ToSet
    <2>2. i + Len(file) \in 1 .. Len(file) + Len(batch) /\ (file \o batch)[i + Len(file)] = w
      BY <1>1, <1>2, <2>1
    <2> QED BY <1>1, <2>2 DEF ToSet
  <1>5. ToSet(file \o batch) \subseteq ToSet(file) \cup ToSet(batch)
    BY <1>1, <1>2 DEF ToSet
  <1> QED BY <1>1, <1>2, <1>3, <1>4, <1>5

\* A file of rows of D, and the list s that its next batch of b lines is taken from.
AtBatch(D, file, K, E, L, M, R, s, b) ==
  /\ K \subseteq M /\ M \subseteq D
  /\ Lists(s, M, R) /\ Ordered(R, M) /\ \A v \in M : <<v, v>> \notin R
  /\ FileOk(file, Len(file), K, E, L, M, R)

\* A batch keeps a file good, and the last one completes it.
LEMMA FileBatch ==
  ASSUME NEW D, NEW file \in Seq(D), NEW K, NEW E, NEW L, NEW M, NEW R, NEW s, NEW b \in Nat \ {0},
         AtBatch(D, file, K, E, L, M, R, s, b)
  PROVE  LET batch == Take(s, Len(file), b)
         IN  /\ FileOk(file \o batch, Len(file) + b, K, E, L, M, R)
             /\ Len(batch) < b =>
                  \A w \in K \ ToSet(file \o batch) : \E v \in L : <<v, w>> \in R
  <1> DEFINE n == Len(file)
             batch == Take(s, n, b)
             longer == file \o batch
  <1>0. /\ K \subseteq M /\ M \subseteq D
        /\ Lists(s, M, R) /\ Ordered(R, M) /\ \A v \in M : <<v, v>> \notin R
        /\ FileOk(file, Len(file), K, E, L, M, R)
    BY DEF AtBatch
  <1>1. /\ n \in Nat /\ Len(s) \in Nat /\ s \in Seq(M) /\ s \in Seq(D) /\ b \in Nat
        /\ \A i, j \in 1 .. Len(s) : i # j => s[i] # s[j]
    BY <1>0, SeqGrows DEF Lists
  <1> HIDE DEF n
  <1>2. /\ batch \in Seq(D)
        /\ Len(batch) = IF Len(s) <= n THEN 0 ELSE IF Len(s) - n < b THEN Len(s) - n ELSE b
        /\ \A i \in 1 .. Len(batch) : n + i \in 1 .. Len(s) /\ batch[i] = s[n + i]
        /\ \A i, j \in 1 .. Len(batch) : i # j => batch[i] # batch[j]
    <2>1. batch \in Seq(D)
      BY <1>1, TakeList
    <2>2. Len(batch) = TakeLength(Len(s), n, b)
      BY <1>1, TakeList
    <2>3. \A i \in 1 .. Len(batch) : n + i \in 1 .. Len(s) /\ batch[i] = s[n + i]
      BY <1>1, TakeList
    <2>4. \A i, j \in 1 .. Len(batch) : i # j => batch[i] # batch[j]
      BY <1>1, TakeList
    <2> QED BY <2>1, <2>2, <2>3, <2>4 DEF TakeLength
  <1>3. \A p \in 1 .. Len(s) : Rank(R, M, s[p]) = p - 1
    BY <1>0, PlaceIsRank
  <1> HIDE DEF batch
  <1>4. Len(batch) \in Nat /\ Len(batch) <= b
    BY <1>1, <1>2
  <1>5. /\ Len(longer) = n + Len(batch) /\ ToSet(longer) = ToSet(file) \cup ToSet(batch)
        /\ \A i \in 1 .. n + Len(batch) : longer[i] = IF i <= n THEN file[i] ELSE batch[i - n]
    BY <1>2, AppendedLines DEF n
  <1> HIDE DEF longer
  <1>6. /\ \A w \in K \ ToSet(file) : (\E v \in L : <<v, w>> \in R) \/ n <= Rank(R, M, w)
        /\ \A w \in ToSet(file) : (\E v \in E : <<v, w>> \in R) \/ Rank(R, M, w) < n
        /\ \A i, j \in 1 .. n : i < j /\ file[i] = file[j] => \E v \in E : <<v, file[i]>> \in R
    BY <1>0 DEF FileOk, n
  \* A row of the batch is at a place from n + 1 on.
  <1>7. ASSUME NEW w \in ToSet(batch) PROVE n <= Rank(R, M, w) /\ Rank(R, M, w) < n + b
    <2>1. PICK i \in 1 .. Len(batch) : batch[i] = w
      BY <1>2, MembersOfSeq
    <2>2. Rank(R, M, w) = (n + i) - 1
      BY <1>2, <1>3, <2>1
    <2> QED BY <1>1, <1>4, <2>1, <2>2
  <1>8. \A i \in 1 .. Len(batch) : batch[i] \in ToSet(batch)
    BY <1>2 DEF ToSet
  <1>9. ASSUME NEW w \in K \ ToSet(longer), ~\E v \in L : <<v, w>> \in R
        PROVE  n + b <= Rank(R, M, w) /\ ~(Len(batch) < b)
    <2>1. n <= Rank(R, M, w) /\ w \notin ToSet(batch)
      BY <1>5, <1>6, <1>9
    <2>2. PICK p \in 1 .. Len(s) : s[p] = w
      BY <1>0, <1>9 DEF Lists
    <2>3. Rank(R, M, w) = p - 1
      BY <1>3, <2>2
    <2>4. p >= n + 1
      BY <1>1, <2>1, <2>2, <2>3
    <2>5. ~(p <= n + Len(batch))
      <3> SUFFICES ASSUME p <= n + Len(batch) PROVE FALSE
        OBVIOUS
      <3>1. p - n \in 1 .. Len(batch) /\ n + (p - n) = p
        BY <1>1, <1>4, <2>4
      <3>2. batch[p - n] = w
        BY <1>2, <2>2, <3>1
      <3> QED BY <1>8, <2>1, <3>1, <3>2
    <2>6. p <= Len(s)
      OBVIOUS
    <2>7. Len(batch) = b
      BY <1>1, <1>2, <2>4, <2>5, <2>6
    <2> QED BY <1>1, <2>3, <2>5, <2>7
  <1>10. ASSUME NEW w \in ToSet(longer), ~\E v \in E : <<v, w>> \in R PROVE Rank(R, M, w) < n + b
    <2>1. CASE w \in ToSet(batch)
      BY <1>7, <2>1
    <2>2. CASE w \in ToSet(file)
      <3>1. Rank(R, M, w) < n /\ Rank(R, M, w) \in Nat
        BY <1>6, <1>10, <2>2, <1>0, RankType DEF Lists
      <3> QED BY <1>1, <3>1
    <2> QED BY <1>5, <1>10, <2>1, <2>2
  <1>11. ASSUME NEW i \in 1 .. Len(longer), NEW j \in 1 .. Len(longer), i < j, longer[i] = longer[j],
                ~\E v \in E : <<v, longer[i]>> \in R
         PROVE  FALSE
    <2>1. i \in 1 .. n + Len(batch) /\ j \in 1 .. n + Len(batch)
      BY <1>5
    <2>2. CASE j <= n
      <3>1. i \in 1 .. n /\ j \in 1 .. n /\ longer[i] = file[i] /\ longer[j] = file[j]
        BY <1>1, <1>4, <1>5, <1>11, <2>1, <2>2
      <3> QED BY <1>6, <1>11, <3>1
    <2>3. CASE i <= n /\ j > n
      <3>1. longer[i] = file[i] /\ longer[j] = batch[j - n] /\ i \in 1 .. n /\ j - n \in 1 .. Len(batch)
        BY <1>1, <1>4, <1>5, <2>1, <2>3
      <3>2. file[i] \in ToSet(file)
        BY <3>1 DEF ToSet, n
      <3>3. Rank(R, M, file[i]) < n
        BY <1>6, <1>11, <3>1, <3>2
      <3>4. file[i] = batch[j - n] /\ batch[j - n] \in ToSet(batch)
        BY <1>8, <1>11, <3>1
      <3>5. n <= Rank(R, M, file[i]) /\ Rank(R, M, file[i]) \in Nat
        BY <1>7, <3>4, <1>0, RankType DEF Lists
      <3> QED BY <1>1, <3>3, <3>5
    <2>4. CASE i > n
      <3>1. /\ longer[i] = batch[i - n] /\ longer[j] = batch[j - n]
            /\ i - n \in 1 .. Len(batch) /\ j - n \in 1 .. Len(batch) /\ i - n # j - n
        BY <1>1, <1>4, <1>5, <1>11, <2>1, <2>4
      <3> QED BY <1>2, <1>11, <3>1
    <2> QED BY <1>1, <1>4, <2>1, <2>2, <2>3, <2>4
  <1>12. FileOk(longer, n + b, K, E, L, M, R)
    BY <1>9, <1>10, <1>11 DEF FileOk
  <1> QED BY <1>9, <1>12 DEF longer, batch, n

-----------------------------------------------------------------------------
\* The order of the rows of the table, as pairs.
Ahead(f) == {p \in (DOMAIN rows) \X (DOMAIN rows) : Before(f, rows[p[1]], rows[p[2]])}

Watched == kept \cup entered \cup left

\* An export under way has the lines of its batches so far, every one full.
ExportInv ==
  Reading /\ call.route = "export" =>
    /\ call.found # {}
    /\ Len(FileSoFar) = call.offset
    /\ entered \cup left = {} => call.offset <= Cardinality(kept)
    /\ Untied(Watched) =>
         FileOk(FileSoFar, call.offset, kept, entered, left, MatchesNow, Ahead(call.f))

\* It holds before the first step.
LEMMA InitExport == ViewsInit => ExportInv /\ ExportFaithful
  BY DEF ViewsInit, ExportInv, ExportFaithful, Reading, Answered, Finished

\* The pairs, spelled out.
LEMMA AheadPairs ==
  ASSUME NEW f, NEW v \in DOMAIN rows, NEW w \in DOMAIN rows
  PROVE  <<v, w>> \in Ahead(f) <=> Before(f, rows[v], rows[w])
  BY DEF Ahead

\* The pairs after a step.
LEMMA AheadPairsNext ==
  ASSUME NEW v \in DOMAIN rows', NEW w \in DOMAIN rows'
  PROVE  <<v, w>> \in Ahead(call.f)' <=> Before(call'.f, rows'[v], rows'[w])
  BY DEF Ahead

\* The key of a row is a number.
LEMMA SortKeyType ==
  ASSUME TypeInv, NEW f, IsFilters(f), NEW w \in DOMAIN rows
  PROVE  SortKey(f, rows[w]) \in Int /\ rows[w].external \in Int
  <1>1. /\ rows[w].category \in Range(CategoryOrder) /\ rows[w].external \in Int
        /\ rows[w].created \in Nat
    BY ViewsAssumption DEF TypeInv, RowsInv, IsRowOf, AllWinnings, ViewsAssumption
  <1> DEFINE rank == CHOOSE i \in DOMAIN CategoryOrder : CategoryOrder[i] = rows[w].category
  <1>2. \E i \in DOMAIN CategoryOrder : CategoryOrder[i] = rows[w].category
    BY <1>1 DEF Range
  <1>3. DOMAIN CategoryOrder = 1 .. 4
    BY DEF CategoryOrder
  <1>4. rank \in Int
    BY <1>2, <1>3
  <1> HIDE DEF rank
  <1>5. SortKey(f, rows[w]) \in {-rows[w].created, rank, -rank}
    BY DEF SortKey, IsFilters, rank
  <1> QED BY <1>1, <1>4, <1>5

\* No row is before itself.
LEMMA NotBeforeItself ==
  ASSUME TypeInv, NEW f, IsFilters(f), NEW w \in DOMAIN rows
  PROVE  ~Before(f, rows[w], rows[w])
  <1>1. SortKey(f, rows[w]) \in Int /\ rows[w].external \in Int
    BY SortKeyType
  <1> QED BY <1>1 DEF Before

\* The order of two rows never changes.
LEMMA BeforeStays ==
  ASSUME TypeInv, RowsGrow, NEW f, NEW v \in DOMAIN rows, NEW w \in DOMAIN rows
  PROVE  /\ Before(f, rows[v], rows[w]) <=> Before(f, rows'[v], rows'[w])
         /\ v \in DOMAIN rows' /\ w \in DOMAIN rows'
  <1>1. ASSUME NEW x \in DOMAIN rows
        PROVE  /\ rows'[x].created = rows[x].created /\ rows'[x].category = rows[x].category
               /\ rows'[x].external = rows[x].external
    <2>1. IsRowOf(rows[x], x) /\ IsRowOf(rows[x], x)'
      BY DEF TypeInv, RowsInv, RowsGrow
    <2> QED BY <2>1 DEF IsRowOf, RowsGrow
  <1>2. SortKey(f, rows[v]) = SortKey(f, rows'[v]) /\ SortKey(f, rows[w]) = SortKey(f, rows'[w])
    BY <1>1 DEF SortKey
  <1> QED BY <1>1, <1>2 DEF Before, RowsGrow

\* What the order and the sort keys of the watched rows are after a step.
LEMMA OrderStays ==
  ASSUME TypeInv, RowsGrow, call' = call \/ call'.f = call.f
  PROVE  /\ \A v, w \in DOMAIN rows : <<v, w>> \in Ahead(call.f) <=> <<v, w>> \in Ahead(call.f)'
         /\ \A S, T : S \subseteq T /\ S \subseteq DOMAIN rows /\ Untied(T)' => Untied(S)
  <1>0. call'.f = call.f
    OBVIOUS
  <1>1. ASSUME NEW v \in DOMAIN rows, NEW w \in DOMAIN rows
        PROVE  <<v, w>> \in Ahead(call.f) <=> <<v, w>> \in Ahead(call.f)'
    <2>1. /\ Before(call.f, rows[v], rows[w]) <=> Before(call.f, rows'[v], rows'[w])
          /\ v \in DOMAIN rows' /\ w \in DOMAIN rows'
      BY BeforeStays
    <2>2. <<v, w>> \in Ahead(call.f) <=> Before(call.f, rows[v], rows[w])
      BY AheadPairs
    <2>3. <<v, w>> \in Ahead(call.f)' <=> Before(call'.f, rows'[v], rows'[w])
      BY <2>1, AheadPairsNext
    <2> QED BY <1>0, <2>1, <2>2, <2>3
  <1>2. ASSUME NEW S, NEW T, S \subseteq T, S \subseteq DOMAIN rows, Untied(T)' PROVE Untied(S)
    BY <1>0, <1>2, BeforeStays DEF Untied
  <1> QED BY <1>1, <1>2

\* The rows that match are finitely many.
LEMMA MatchesFinite ==
  ASSUME TypeInv
  PROVE  IsFiniteSet(MatchesNow) /\ MatchesNow \subseteq DOMAIN rows
  BY MatchingRows, FS_Subset DEF MatchesNow, TypeInv, RowsInv

\* The others' steps keep an export under way as it should be.
LEMMA ExportOther ==
  ASSUME TypeInv, TypeInv', WatchInv, ExportInv, OtherStep, RowsGrow
  PROVE  ExportInv'
  <1> SUFFICES ASSUME Reading', call'.route = "export" PROVE ExportInv'
    BY DEF ExportInv
  <1>1. call' = call /\ Reading /\ call # NoCall
    BY ObserveSteps DEF Reading
  <1>2. /\ kept' = kept \cap MatchesNow'
        /\ entered' = entered \cup (MatchesNow' \ MatchesNow)
        /\ left' = left \cup (MatchesNow \ MatchesNow')
    BY <1>1, OtherMatches
  <1>3. kept \subseteq MatchesNow /\ MatchesNow \subseteq kept \cup entered
    BY <1>1 DEF WatchInv
  <1>4. /\ IsFiniteSet(MatchesNow) /\ IsFiniteSet(MatchesNow')
        /\ MatchesNow \subseteq DOMAIN rows /\ kept \cup entered \cup left \subseteq DOMAIN rows
    <2>1. IsFiniteSet(MatchesNow) /\ MatchesNow \subseteq DOMAIN rows
      BY MatchesFinite
    <2>2. IsFiniteSet(MatchesNow')
      <3>1. MatchesNow' \subseteq DOMAIN rows' /\ IsFiniteSet(DOMAIN rows')
        BY MatchingRows DEF MatchesNow, TypeInv, RowsInv
      <3> QED BY <3>1, FS_Subset
    <2> QED BY <2>1, <2>2 DEF TypeInv, RowsInv
  <1>5. FileSoFar' = FileSoFar /\ FileSoFar \in Seq(DOMAIN rows) /\ call.offset \in Nat
    BY <1>1, FileType DEF FileSoFar, TypeInv, CallInv
  <1>6. (entered \cup left)' = {} => kept' = kept /\ entered \cup left = {}
    BY <1>2, <1>3
  <1>7. Untied(Watched)' => Untied(Watched)
    <2>1. Watched \subseteq Watched' /\ Watched \subseteq DOMAIN rows
      BY <1>2, <1>3, <1>4 DEF Watched
    <2>2. \A S, T : S \subseteq T /\ S \subseteq DOMAIN rows /\ Untied(T)' => Untied(S)
      BY <1>1, OrderStays
    <2> QED BY <2>1, <2>2 DEF Untied
  <1>8. ASSUME Untied(Watched)'
        PROVE  FileOk(FileSoFar, call.offset, kept, entered, left, MatchesNow, Ahead(call.f))'
    <2>1. FileOk(FileSoFar, call.offset, kept, entered, left, MatchesNow, Ahead(call.f))
      BY <1>1, <1>7, <1>8 DEF ExportInv
    <2>2. \A v, w \in DOMAIN rows : <<v, w>> \in Ahead(call.f) <=> <<v, w>> \in Ahead(call.f)'
      BY <1>1, OrderStays
    <2> DEFINE D == DOMAIN rows
               R == Ahead(call.f)
               R2 == Ahead(call.f)'
               file == FileSoFar
               K2 == kept'
               E2 == entered'
               L2 == left'
               M2 == MatchesNow'
    <2>3. Moved(D, kept, entered, left, MatchesNow, R, K2, E2, L2, M2, R2)
      BY <1>2, <1>4, <2>2 DEF Moved
    <2>4. file \in Seq(D) /\ call.offset \in Nat
      BY <1>5
    <2> HIDE DEF D, R, R2, file, K2, E2, L2, M2
    <2>8. FileOk(file, call.offset, kept, entered, left, MatchesNow, R)
      BY <2>1 DEF file, R
    <2>9. FileOk(file, call.offset, K2, E2, L2, M2, R2)
      BY <2>3, <2>4, <2>8, FileOther
    <2>10. FileOk(FileSoFar', call'.offset, kept', entered', left', MatchesNow', Ahead(call.f)')
      BY <1>1, <1>5, <2>9 DEF file, K2, E2, L2, M2, R2
    <2> QED BY <2>10
  <1> QED BY <1>1, <1>5, <1>6, <1>8 DEF ExportInv

\* The file and the watch as the next batch of an export finds them.
BatchReady(K, E, L) ==
  /\ K \subseteq MatchesNow /\ MatchesNow \subseteq K \cup E
  /\ Len(FileSoFar) = call.offset
  /\ E \cup L = {} => call.offset <= Cardinality(K)
  /\ Untied(K \cup E \cup L) =>
       FileOk(FileSoFar, Len(FileSoFar), K, E, L, MatchesNow, Ahead(call.f))

\* Every batch finds them so, the first one as well.
LEMMA BatchIsReady ==
  ASSUME TypeInv, FreshInv, WatchInv, ExportInv, NEW s \in SearchOrders, ReadBatch(s)
  PROVE  BatchReady(kept', entered', left') /\ call'.f = call.f /\ MatchesNow' = MatchesNow
  <1>1. call # NoCall /\ call.route = "export"
    BY ReadBatchStep
  <1>2. /\ call'.f = call.f /\ MatchesNow' = MatchesNow
        /\ \/ Reading /\ UNCHANGED watch
           \/ /\ Before1st(call) /\ kept' = MatchesNow /\ entered' = {} /\ left' = {}
              /\ call.found = {} /\ call.total = {} /\ call.offset = 0
    BY QuerySteps
  <1>3. CASE Reading /\ UNCHANGED watch
    <2>1. kept' = kept /\ entered' = entered /\ left' = left
      BY <1>3 DEF watch
    <2>2. BatchReady(kept, entered, left)
      BY <1>1, <1>3 DEF BatchReady, WatchInv, ExportInv, Watched
    <2> QED BY <1>2, <2>1, <2>2
  <1>4. CASE /\ kept' = MatchesNow /\ entered' = {} /\ left' = {}
             /\ call.found = {} /\ call.offset = 0
    <2> DEFINE M == MatchesNow
               R == Ahead(call.f)
    <2>1. FileSoFar = << >> /\ Len(FileSoFar) = 0 /\ ToSet(FileSoFar) = {}
      BY <1>4 DEF FileSoFar, ToSet
    <2>2. IsFiniteSet(M) /\ Cardinality(M) \in Nat
      BY MatchesFinite, FS_CardinalityType
    <2> HIDE DEF M, R
    <2>3. \A w \in M : 0 <= Rank(R, M, w)
      <3> SUFFICES ASSUME NEW w \in M PROVE 0 <= Rank(R, M, w)
        OBVIOUS
      <3>1. Rank(R, M, w) \in Nat
        BY <2>2, RankType
      <3> QED BY <3>1
    <2>4. FileOk(FileSoFar, 0, M, {}, {}, M, R)
      BY <2>1, <2>3 DEF FileOk
    <2>5. BatchReady(M, {}, {})
      BY <1>4, <2>1, <2>2, <2>4 DEF BatchReady, M, R
    <2> QED BY <1>2, <1>4, <2>5 DEF M
  <1> QED BY <1>2, <1>3, <1>4

\* A batch that finds a file and a watch so adds its lines to them.
LEMMA BatchAdds ==
  ASSUME TypeInv, NEW s \in SearchOrders, ReadBatch(s),
         NEW K, NEW E, NEW L, BatchReady(K, E, L)
  PROVE  LET batch == Take(s, call.offset, BatchSize)
             file == FileSoFar \o batch
             full == ~(Len(batch) < BatchSize)
         IN  /\ full => Len(file) = call.offset + BatchSize
             /\ E \cup L = {} => IF full THEN call.offset + BatchSize <= Cardinality(K)
                                 ELSE Len(file) = Cardinality(K)
             /\ Untied(K \cup E \cup L) =>
                  /\ FileOk(file, call.offset + BatchSize, K, E, L, MatchesNow, Ahead(call.f))
                  /\ ~full => \A w \in K \ ToSet(file) : \E v \in L : <<v, w>> \in Ahead(call.f)
  <1> DEFINE n == call.offset
             D == DOMAIN rows
             M == MatchesNow
             R == Ahead(call.f)
             batch == Take(s, n, BatchSize)
             file == FileSoFar \o batch
  <1>1. /\ call # NoCall /\ n \in Nat /\ BatchSize \in Nat \ {0}
        /\ batch \in Seq(D)
    BY ReadBatchStep
  <1>2. FileSoFar \in Seq(D) /\ Len(FileSoFar) = n
    BY <1>1, FileType DEF BatchReady
  <1>3. /\ IsFiniteSet(M) /\ M \subseteq D /\ s \in Orders(call.f, rows, M)
        /\ IsFilters(call.f)
    BY <1>1, SearchOrdersList DEF MatchesNow, TypeInv, CallInv
  <1>4. /\ s \in Seq(M) /\ Len(s) = Cardinality(M) /\ Cardinality(M) \in Nat
        /\ \A i, j \in 1 .. Len(s) : i # j => s[i] # s[j]
        /\ \A i, j \in 1 .. Len(s) : i < j => ~Before(call.f, rows[s[j]], rows[s[i]])
        /\ \A w \in M : \E i \in 1 .. Len(s) : s[i] = w
    BY <1>3, OrdersList
  <1>5. Lists(s, M, R)
    <2>1. ASSUME NEW i \in 1 .. Len(s), NEW j \in 1 .. Len(s), i < j PROVE <<s[j], s[i]>> \notin R
      <3>1. s[i] \in DOMAIN rows /\ s[j] \in DOMAIN rows
        BY <1>3, <1>4
      <3>2. ~Before(call.f, rows[s[j]], rows[s[i]])
        BY <1>4, <2>1
      <3> QED BY <3>1, <3>2, AheadPairs
    <2> HIDE DEF R, M
    <2> QED BY <1>3, <1>4, <2>1 DEF Lists
  <1>6. \A v \in M : <<v, v>> \notin R
    BY <1>3, NotBeforeItself, AheadPairs
  <1>7. ASSUME Untied(K \cup E \cup L) PROVE Ordered(R, M)
    <2> SUFFICES ASSUME NEW v \in M, NEW w \in M, v # w PROVE <<v, w>> \in R \/ <<w, v>> \in R
      BY DEF Ordered
    <2>1. Before(call.f, rows[v], rows[w]) \/ Before(call.f, rows[w], rows[v])
      BY <1>7 DEF Untied, BatchReady
    <2>2. v \in DOMAIN rows /\ w \in DOMAIN rows
      BY <1>3
    <2> QED BY <2>1, <2>2, AheadPairs
  <1>8. Len(batch) = TakeLength(Len(s), n, BatchSize)
    <2>1. s \in Seq(D)
      BY <1>3, <1>4, SeqGrows
    <2> HIDE DEF D, n
    <2> QED BY <1>1, <1>4, <2>1, TakeList
  <1> HIDE DEF n, D, M, R, batch
  <1>9. Len(file) = n + Len(batch)
    BY <1>1, <1>2, AppendedLines
  <1> HIDE DEF file
  <1>10. Len(batch) \in Nat /\ Len(batch) <= BatchSize
    BY <1>1, <1>4, <1>8 DEF TakeLength
  <1>11. ASSUME E \cup L = {}
         PROVE  IF Len(batch) < BatchSize THEN Len(file) = Cardinality(K)
                ELSE n + BatchSize <= Cardinality(K)
    <2>1. K = M /\ n <= Cardinality(M)
      <3>1. K \subseteq M /\ M \subseteq K \cup E /\ E = {} /\ n <= Cardinality(K)
        BY <1>11 DEF BatchReady, M, n
      <3>2. K = M
        BY <3>1
      <3> QED BY <3>1, <3>2
    <2> QED BY <1>1, <1>4, <1>8, <1>9, <2>1 DEF TakeLength
  <1>12. ASSUME Untied(K \cup E \cup L)
         PROVE  /\ FileOk(file, n + BatchSize, K, E, L, M, R)
                /\ Len(batch) < BatchSize =>
                     \A w \in K \ ToSet(file) : \E v \in L : <<v, w>> \in R
    <2>1. FileOk(FileSoFar, Len(FileSoFar), K, E, L, M, R) /\ K \subseteq M
      BY <1>12 DEF BatchReady, M, R
    <2>2. Ordered(R, M)
      BY <1>7, <1>12
    <2>3. batch = Take(s, Len(FileSoFar), BatchSize)
      BY <1>2 DEF batch
    <2>4. LET rest == Take(s, Len(FileSoFar), BatchSize)
          IN  /\ FileOk(FileSoFar \o rest, Len(FileSoFar) + BatchSize, K, E, L, M, R)
              /\ Len(rest) < BatchSize =>
                   \A w \in K \ ToSet(FileSoFar \o rest) : \E v \in L : <<v, w>> \in R
      <3>1. AtBatch(D, FileSoFar, K, E, L, M, R, s, BatchSize)
        BY <1>1, <1>2, <1>3, <1>5, <1>6, <2>1, <2>2 DEF AtBatch
      <3> QED BY <1>1, <1>2, <3>1, FileBatch
    <2> QED BY <1>2, <2>3, <2>4 DEF file
  <1> QED BY <1>1, <1>9, <1>10, <1>11, <1>12 DEF n, D, M, R, batch, file

\* Only a batch answers an export.
LEMMA ExportAnswers ==
  ASSUME TypeInv, ReadStep, Answered({"export"})'
  PROVE  \E s \in SearchOrders : ReadBatch(s)
  <1> USE DEF At, TypeInv, CallInv, CallFields, Answer, Answered, Finished, Searches
  <1>1. ASSUME NEW q \in Requests, NEW keys \in BOOLEAN PROVE ~Arrive(q, keys)
    BY DEF Arrive
  <1>2. ASSUME NEW accounts \in AccountSets \cup {{}} PROVE ~Narrow(accounts) /\ ~Verify(accounts)
    BY DEF Narrow, Verify, Opens
  <1>3. ASSUME NEW ok \in BOOLEAN PROVE ~ReadSetup(ok)
    BY DEF ReadSetup
  <1>4. ASSUME NEW answer \in {"wide", "none", "failed"} PROVE ~LookUpResources(answer)
    BY DEF LookUpResources
  <1>5. ASSUME NEW s \in SearchOrders PROVE ~ReadPage(s) /\ ~ReadExternal(s)
    BY DEF ReadPage, ReadExternal
  <1>6. ASSUME NEW s \in ChallengeOrders PROVE ~ReadChallenge(s)
    BY DEF ReadChallenge
  <1>7. ~NarrowFails /\ ~CheckOwn /\ ~ReconcileFails /\ ~ReadCount /\ ~QueryFails
    BY DEF NarrowFails, CheckOwn, ReconcileFails, ReadCount, QueryFails
  <1>8. ~ReadTotals /\ ~VerifyFails /\ ~Open /\ ~OpenFails
    BY DEF ReadTotals, VerifyFails, Open, OpenFails, Opens
  <1> QED BY <1>1, <1>2, <1>3, <1>4, <1>5, <1>6, <1>7, <1>8 DEF ReadStep

\* A batch keeps the invariant of the export, and the last one makes the file faithful.
LEMMA ExportBatch ==
  ASSUME TypeInv, FreshInv, WatchInv, ExportInv, NEW s \in SearchOrders, ReadBatch(s)
  PROVE  ExportInv' /\ ExportFaithful'
  <1> DEFINE n == call.offset
             K == kept'
             E == entered'
             L == left'
             M == MatchesNow
             R == Ahead(call.f)
             batch == Take(s, n, BatchSize)
             file == FileSoFar \o batch
             full == ~(Len(batch) < BatchSize)
  <1>1. /\ call # NoCall /\ call.route = "export" /\ rows' = rows /\ clock' = clock
        /\ call' = [call EXCEPT !.found = {file}, !.offset = @ + BatchSize,
                                !.pc = IF ~full THEN "done" ELSE "more",
                                !.answer = IF ~full THEN "success" ELSE "pending"]
        /\ file \in Seq(DOMAIN rows)
    BY ReadBatchStep
  <1>2. BatchReady(K, E, L) /\ call'.f = call.f /\ MatchesNow' = M
    BY BatchIsReady
  <1>3. /\ full => Len(file) = n + BatchSize
        /\ E \cup L = {} => IF full THEN n + BatchSize <= Cardinality(K)
                            ELSE Len(file) = Cardinality(K)
        /\ Untied(K \cup E \cup L) =>
             /\ FileOk(file, n + BatchSize, K, E, L, M, R)
             /\ ~full => \A w \in K \ ToSet(file) : \E v \in L : <<v, w>> \in R
    <2> HIDE DEF K, E, L
    <2> QED BY <1>2, BatchAdds
  <1> HIDE DEF batch, file, full
  <1>4. /\ call' # NoCall /\ call'.found = {file} /\ call'.offset = n + BatchSize
        /\ call'.pc = IF ~full THEN "done" ELSE "more"
        /\ FileSoFar' = file /\ Found' = file
    <2>1. /\ call' # NoCall /\ call'.found = {file} /\ call'.offset = n + BatchSize
          /\ call'.pc = IF ~full THEN "done" ELSE "more"
      BY <1>1 DEF TypeInv, CallInv, CallFields, NoCall
    <2> QED BY <2>1 DEF FileSoFar, Found
  <1>5. R' = R
    BY <1>1, <1>2 DEF Ahead
  <1>6. Untied(Watched)' <=> Untied(K \cup E \cup L)
    BY <1>1, <1>2 DEF Untied, Watched
  <1>7. CASE full
    <2>1. FileOk(file, n + BatchSize, K, E, L, M, R) =>
          FileOk(FileSoFar, call.offset, kept, entered, left, MatchesNow, Ahead(call.f))'
      <3>1. FileOk(file, n + BatchSize, K, E, L, M, R) =>
            FileOk(FileSoFar', call'.offset, kept', entered', left', MatchesNow', Ahead(call.f)')
        BY <1>2, <1>4, <1>5
      <3> QED BY <3>1
    <2>2. ExportInv'
      BY <1>3, <1>4, <1>6, <1>7, <2>1 DEF ExportInv, Reading
    <2>3. ExportFaithful'
      BY <1>4, <1>7 DEF ExportFaithful, Answered, Finished
    <2> QED BY <2>2, <2>3
  <1>8. CASE ~full
    <2>1. ExportInv'
      BY <1>4, <1>8 DEF ExportInv, Reading
    <2>2. DOMAIN file = 1 .. Len(file)
      BY <1>1
    <2>3. E \cup L = {} => Len(file) = Cardinality(K)
      BY <1>3, <1>8
    <2>4. ASSUME Untied(Watched)'
          PROVE  /\ \A w \in K \ ToSet(file) : \E v \in L : Before(call.f, rows[v], rows[w])
                 /\ \A i, j \in DOMAIN file :
                      i < j /\ file[i] = file[j] => \E v \in E : Before(call.f, rows[v], rows[file[i]])
      <3>1. /\ FileOk(file, n + BatchSize, K, E, L, M, R)
            /\ \A w \in K \ ToSet(file) : \E v \in L : <<v, w>> \in R
        BY <1>3, <1>6, <1>8, <2>4
      <3>2. \A v, w : <<v, w>> \in R => Before(call.f, rows[v], rows[w])
        BY DEF Ahead
      <3> HIDE DEF K, E, L, M, R
      <3>3. \A w \in K \ ToSet(file) : \E v \in L : Before(call.f, rows[v], rows[w])
        BY <3>1, <3>2
      <3>4. \A i, j \in DOMAIN file :
              i < j /\ file[i] = file[j] => \E v \in E : Before(call.f, rows[v], rows[file[i]])
        BY <2>2, <3>1, <3>2 DEF FileOk
      <3> QED BY <3>3, <3>4
    <2>5. ExportFaithful'
      BY <1>1, <1>2, <1>4, <2>3, <2>4 DEF ExportFaithful, Watched
    <2> QED BY <2>1, <2>5
  <1> QED BY <1>7, <1>8

\* Every step keeps both.
LEMMA ExportStep ==
  ASSUME TypeInv, TypeInv', FreshInv, WatchInv, ExportInv, ExportFaithful, [ViewsNext]_viewVars
  PROVE  ExportInv' /\ ExportFaithful'
  <1>1. CASE OtherStep
    <2>1. RowsGrow
      BY RowSteps
    <2>2. ExportFaithful'
      BY <1>1, ObserveSteps DEF ExportFaithful, Answered, Finished
    <2> QED BY <1>1, <2>1, <2>2, ExportOther
  <1>2. CASE UNCHANGED viewVars
    <2>1. ExportInv'
      <3>1. /\ rows' = rows /\ clock' = clock /\ call' = call
            /\ kept' = kept /\ entered' = entered /\ left' = left
        BY <1>2 DEF viewVars
      <3>2. /\ FileSoFar' = FileSoFar /\ MatchesNow' = MatchesNow /\ Ahead(call.f)' = Ahead(call.f)
            /\ Reading' <=> Reading
        BY <3>1 DEF FileSoFar, MatchesNow, Moment, MomentAt, Ahead, Reading
      <3>3. Untied(Watched)' <=> Untied(Watched)
        BY <3>1 DEF Untied, Watched
      <3>4. FileOk(FileSoFar, call.offset, kept, entered, left, MatchesNow, Ahead(call.f)) =>
            FileOk(FileSoFar, call.offset, kept, entered, left, MatchesNow, Ahead(call.f))'
        <4>1. FileOk(FileSoFar, call.offset, kept, entered, left, MatchesNow, Ahead(call.f)) =>
              FileOk(FileSoFar', call'.offset, kept', entered', left', MatchesNow', Ahead(call.f)')
          BY <3>1, <3>2
        <4> QED BY <4>1
      <3> QED BY <3>1, <3>2, <3>3, <3>4 DEF ExportInv
    <2>2. ExportFaithful'
      BY <1>2 DEF viewVars, ExportFaithful, Answered, Finished, Found, Untied
    <2> QED BY <2>1, <2>2
  <1>3. ASSUME NEW to \in {"OWED", "ON_HOLD"}, ReconcileOwn(to) PROVE ExportInv' /\ ExportFaithful'
    <2>1. call' # NoCall /\ call'.pc = "page"
      BY <1>3 DEF ReconcileOwn, At, TypeInv, CallInv, CallFields, NoCall
    <2> QED BY <2>1 DEF ExportInv, ExportFaithful, Reading, Answered, Finished
  <1>4. CASE ReadStep
    <2>1. CASE \E s \in SearchOrders : ReadBatch(s)
      BY <2>1, ExportBatch
    <2>2. CASE ~\E s \in SearchOrders : ReadBatch(s)
      <3>1. ExportFaithful'
        BY <1>4, <2>2, ExportAnswers DEF ExportFaithful
      <3>2. ~(Reading' /\ call'.route = "export")
        <4>1. ASSUME Reading', NEW s \in SearchOrders, ReadPage(s) PROVE call'.route # "export"
          BY <4>1, QuerySteps, ReadPageReads DEF Searches
        <4>2. ASSUME Reading', ReadCount PROVE call'.route # "export"
          BY <4>2, QuerySteps, ReadCountReads DEF Searches
        <4> QED BY <1>4, <2>2, <4>1, <4>2, ReadsOn
      <3> QED BY <3>1, <3>2 DEF ExportInv
    <2> QED BY <2>1, <2>2
  <1> QED BY <1>1, <1>2, <1>3, <1>4, Steps3

\* The export, for every table, filter and batch size, and however the table changes
\* between its batches.
THEOREM ExportFaithfulHolds == ViewsSpec => []ExportFaithful
  BY InitType, TypeStep, InitFresh, FreshStep, InitWatch, WatchStep, InitExport, ExportStep,
     PTL DEF ViewsSpec

-----------------------------------------------------------------------------
(***************************************************************************)
(* What a narrowed search or export must list: all that its caller asked   *)
(* for and may open.                                                       *)
(***************************************************************************)

\* The filters that Narrow starts from.
WithoutPage(c) ==
  IF c.route = "export" THEN [c.asked EXCEPT !.limit = {}, !.offset = {}] ELSE c.asked

\* The filters of a search or an export are those asked for, and after Narrow what the roles
\* have made of them; when it is answered, what matches has matched all the time or entered.
NarrowedInv ==
  Running(call) /\ call.route \in {"search", "export"} =>
    /\ call.pc = "filter" => call.f = call.asked
    /\ call.pc # "filter" =>
         \E accounts \in AccountSets \cup {{}} :
           /\ call.accounts = {accounts}
           /\ call.f = ApplyFilters(Roles, WithoutPage(call), accounts)
    /\ Answered({"search", "export"}) => MatchesNow \subseteq kept \cup entered

\* It holds before the first step.
LEMMA InitNarrowed == ViewsInit => NarrowedInv /\ ListingComplete
  BY DEF ViewsInit, NarrowedInv, Running, ListingComplete, Answered, Finished

\* Only a query answers a search or an export with data.
LEMMA ListingAnswers ==
  ASSUME TypeInv, ReadStep, Answered({"search", "export"})'
  PROVE  (\E s \in SearchOrders : ReadPage(s) \/ ReadBatch(s)) \/ ReadCount
  <1> USE DEF At, TypeInv, CallInv, CallFields, Answer, Answered, Finished, Searches
  <1>1. ASSUME NEW q \in Requests, NEW keys \in BOOLEAN PROVE ~Arrive(q, keys)
    BY DEF Arrive
  <1>2. ASSUME NEW accounts \in AccountSets \cup {{}} PROVE ~Narrow(accounts) /\ ~Verify(accounts)
    BY DEF Narrow, Verify, Opens
  <1>3. ASSUME NEW ok \in BOOLEAN PROVE ~ReadSetup(ok)
    BY DEF ReadSetup
  <1>4. ASSUME NEW answer \in {"wide", "none", "failed"} PROVE ~LookUpResources(answer)
    BY DEF LookUpResources
  <1>5. ASSUME NEW s \in SearchOrders PROVE ~ReadExternal(s)
    BY DEF ReadExternal
  <1>6. ASSUME NEW s \in ChallengeOrders PROVE ~ReadChallenge(s)
    BY DEF ReadChallenge
  <1>7. ~NarrowFails /\ ~CheckOwn /\ ~ReconcileFails /\ ~QueryFails
    BY DEF NarrowFails, CheckOwn, ReconcileFails, QueryFails
  <1>8. ~ReadTotals /\ ~VerifyFails /\ ~Open /\ ~OpenFails
    BY DEF ReadTotals, VerifyFails, Open, OpenFails, Opens
  <1> QED BY <1>1, <1>2, <1>3, <1>4, <1>5, <1>6, <1>7, <1>8 DEF ReadStep

\* Narrow makes the filters from those asked for.
LEMMA NarrowMakes ==
  ASSUME TypeInv, NarrowedInv, NEW accounts, Narrow(accounts)
  PROVE  /\ call'.accounts = {accounts} /\ call'.pc = "page" /\ Roles' = Roles
         /\ call'.f = ApplyFilters(Roles, WithoutPage(call'), accounts)
  <1> DEFINE asked == IF call.route = "export" THEN [call.f EXCEPT !.limit = {}, !.offset = {}]
                      ELSE call.f
             g == ApplyFilters(Roles, asked, accounts)
  <1>1. /\ call # NoCall /\ call.pc = "filter" /\ call.route \in {"search", "export"}
        /\ call' = [call EXCEPT !.pc = "page", !.accounts = {accounts}, !.f = g]
    BY DEF Narrow, At
  <1>2. call.f = call.asked
    BY <1>1 DEF NarrowedInv, Running
  <1>3. asked = WithoutPage(call)
    BY <1>2 DEF WithoutPage
  <1> HIDE DEF g
  <1>4. /\ call'.accounts = {accounts} /\ call'.pc = "page" /\ call'.f = g
        /\ call'.route = call.route /\ call'.asked = call.asked /\ call'.token = call.token
    BY <1>1 DEF TypeInv, CallInv, CallFields
  <1>5. WithoutPage(call') = WithoutPage(call) /\ Roles' = Roles
    BY <1>4 DEF WithoutPage, Roles
  <1> QED BY <1>3, <1>4, <1>5 DEF g

\* Nothing leads back to the filters.
LEMMA StaysNarrowed ==
  ASSUME TypeInv, ReadStep, call # NoCall, call.route \in {"search", "export"}, call.pc # "filter",
         ~\E q \in Requests, keys \in BOOLEAN : Arrive(q, keys),
         ~\E accounts \in AccountSets \cup {{}} : Narrow(accounts)
  PROVE  call'.pc # "filter"
  <1> USE DEF At, TypeInv, CallInv, CallFields, Answer
  <1>1. ASSUME NEW accounts \in AccountSets \cup {{}} PROVE ~Verify(accounts)
    BY DEF Verify, Opens
  <1>2. ASSUME NEW ok \in BOOLEAN PROVE ~ReadSetup(ok)
    BY DEF ReadSetup
  <1>3. ASSUME NEW answer \in {"wide", "none", "failed"} PROVE ~LookUpResources(answer)
    BY DEF LookUpResources
  <1>4. ASSUME NEW s \in SearchOrders, ReadPage(s) \/ ReadBatch(s) \/ ReadExternal(s)
        PROVE  call'.pc # "filter"
    BY <1>4 DEF ReadPage, ReadBatch, ReadExternal
  <1>5. ASSUME NEW s \in ChallengeOrders PROVE ~ReadChallenge(s)
    BY DEF ReadChallenge
  <1>6. ASSUME NarrowFails \/ ReconcileFails \/ ReadCount \/ QueryFails PROVE call'.pc # "filter"
    BY <1>6 DEF NarrowFails, ReconcileFails, ReadCount, QueryFails
  <1>7. ~CheckOwn /\ ~ReadTotals /\ ~VerifyFails /\ ~Open /\ ~OpenFails
    BY DEF CheckOwn, ReadTotals, VerifyFails, Open, OpenFails, Opens
  <1> QED BY <1>1, <1>2, <1>3, <1>4, <1>5, <1>6, <1>7 DEF ReadStep

\* Every step keeps the invariant.
LEMMA NarrowedStep ==
  ASSUME TypeInv, FreshInv, WatchInv, NarrowedInv, [ViewsNext]_viewVars
  PROVE  NarrowedInv'
  <1>1. CASE UNCHANGED viewVars
    BY <1>1 DEF viewVars, NarrowedInv, Running, Roles, Answered, Finished, MatchesNow, Moment, MomentAt
  <1>2. CASE OtherStep
    <2>1. call' = call /\ ~Answered({"search", "export"})'
      BY <1>2, ObserveSteps DEF Answered, Finished
    <2>2. Roles' = Roles
      BY <2>1 DEF Roles
    <2> QED BY <2>1, <2>2 DEF NarrowedInv, Running
  <1>3. ASSUME NEW to \in {"OWED", "ON_HOLD"}, ReconcileOwn(to) PROVE NarrowedInv'
    BY <1>3 DEF ReconcileOwn, At, NarrowedInv, TypeInv, CallInv, CallFields
  <1>4. ASSUME NEW q \in Requests, NEW keys \in BOOLEAN, Arrive(q, keys) PROVE NarrowedInv'
    <2> SUFFICES ASSUME Running(call)', call'.route \in {"search", "export"} PROVE NarrowedInv'
      BY DEF NarrowedInv
    <2> DEFINE verdict == IF TokenRejected(q.token, keys) THEN "401"
                          ELSE Guards(Route[q.route], TokenValidator(q.token))
    <2>1. /\ call'.route = q.route /\ call'.f = call'.asked
          /\ call'.pc = IF verdict = "pass" THEN FirstStep(q) ELSE "done"
          /\ call'.answer = IF verdict = "pass" THEN "pending" ELSE verdict
      BY <1>4 DEF Arrive
    <2>2. verdict \in {"pass", "401", "403"}
      BY DEF Guards, AuthGuard, RolesGuard
    <2> HIDE DEF verdict
    <2>3. call'.pc = "filter"
      BY <2>1, <2>2 DEF FirstStep, Running
    <2> QED BY <2>1, <2>3 DEF NarrowedInv, Answered, Finished
  <1>5. ASSUME ReadStep, ~\E q \in Requests, keys \in BOOLEAN : Arrive(q, keys) PROVE NarrowedInv'
    <2> SUFFICES ASSUME Running(call)', call'.route \in {"search", "export"} PROVE NarrowedInv'
      BY DEF NarrowedInv
    <2>1. /\ call # NoCall /\ call.pc # "done" /\ Running(call) /\ call.route = call'.route
          /\ call' # NoCall /\ Roles' = Roles /\ call'.asked = call.asked
          /\ (~\E accounts \in AccountSets \cup {{}} : Narrow(accounts)) => call'.f = call.f
      BY <1>5, SameRequest, RolesSame DEF Running
    <2>2. ASSUME NEW accounts \in AccountSets \cup {{}}, Narrow(accounts) PROVE NarrowedInv'
      <3>1. call'.pc = "page" /\ ~Answered({"search", "export"})'
        BY <2>2, NarrowMakes DEF Answered, Finished
      <3>2. /\ call'.accounts = {accounts}
            /\ call'.f = ApplyFilters(Roles, WithoutPage(call'), accounts)
        BY <2>2, NarrowMakes
      <3> QED BY <2>1, <3>1, <3>2 DEF NarrowedInv
    <2>3. ASSUME ~\E accounts \in AccountSets \cup {{}} : Narrow(accounts) PROVE NarrowedInv'
      <3>1. call.pc # "filter"
        BY <1>5, <2>1, <2>3, OutOfFilter
      <3>2. call'.accounts = call.accounts /\ call'.f = call.f
        BY <1>5, <2>1, <2>3, AccountsStay
      <3>3. WithoutPage(call') = WithoutPage(call)
        BY <2>1 DEF WithoutPage
      <3>4. PICK accounts \in AccountSets \cup {{}} :
              /\ call.accounts = {accounts}
              /\ call.f = ApplyFilters(Roles, WithoutPage(call), accounts)
        BY <2>1, <3>1 DEF NarrowedInv
      <3>5. call'.accounts = {accounts} /\ call'.f = ApplyFilters(Roles, WithoutPage(call'), accounts)
        BY <3>2, <3>3, <3>4
      <3>6. call'.pc # "filter"
        BY <1>5, <2>1, <2>3, <3>1, StaysNarrowed
      <3>7. ASSUME Answered({"search", "export"})' PROVE MatchesNow' \subseteq kept' \cup entered'
        <4>1. (\E s \in SearchOrders : ReadPage(s) \/ ReadBatch(s)) \/ ReadCount
          BY <1>5, <3>7, ListingAnswers
        <4> QED BY <4>1, QuerySteps DEF WatchInv, watch
      <3> QED BY <2>1, <3>5, <3>6, <3>7 DEF NarrowedInv
    <2> QED BY <2>2, <2>3
  <1> QED BY <1>1, <1>2, <1>3, <1>4, <1>5, Steps3

\* What its caller asked for and may open matches the narrowed filters.
LEMMA WantedMatches ==
  ASSUME TypeInv, NarrowedInv, Answered({"search", "export"}),
         OneCategoryFilter(call.asked, Roles)
  PROVE  Wanted \subseteq MatchesNow
  <1>1. call # NoCall /\ call.pc = "done" /\ Running(call) /\ call.route \in {"search", "export"}
    BY DEF Answered, Finished, Running
  <1>2. PICK accounts \in AccountSets \cup {{}} :
          call.accounts = {accounts} /\ call.f = ApplyFilters(Roles, WithoutPage(call), accounts)
    BY <1>1 DEF NarrowedInv
  <1> DEFINE from == WithoutPage(call)
  <1>3. IsFilters(call.asked)
    BY <1>1 DEF TypeInv, CallInv
  <1>4. /\ IsFilters(from) /\ from.category = call.asked.category
        /\ from.categories = call.asked.categories
        /\ \A row, now : Matches(call.asked, row, now) => Matches(from, row, now)
    BY <1>3 DEF WithoutPage, IsFilters, FilterFields, Matches, Winners, Externals, AsksCategory,
            AsksPayment, CreatedInRange, CustomRange, NamedWindow
  <1>5. OneCategoryFilter(from, Roles) /\ Roles \in Seq(STRING)
    BY <1>1, <1>4, RolesType DEF OneCategoryFilter
  <1>6. ASSUME NEW w \in Wanted PROVE w \in MatchesNow
    <2>1. /\ w \in DOMAIN rows /\ Matches(call.asked, rows[w], Moment)
          /\ MayOpen(Roles, {rows[w]}, accounts)
      BY <1>2 DEF Wanted
    <2>2. Matches(from, rows[w], Moment)
      BY <1>4, <2>1
    <2> HIDE DEF from
    <2>3. Matches(ApplyFilters(Roles, from, accounts), rows[w], Moment)
      BY <1>4, <1>5, <2>1, <2>2, ApplyFiltersKeeps
    <2> QED BY <1>2, <2>1, <2>3 DEF MatchesNow, Matching, from
  <1> QED BY <1>6

\* What the roles make of the filters never hides a winning that the caller asked for and may
\* open, for every claim of roles in any order, every filter and every answer of the billing
\* account service, while the table changes.
THEOREM ListingCompleteHolds == ViewsSpec => []ListingComplete
  <1>1. TypeInv /\ NarrowedInv /\ ExportFaithful => ListingComplete
    <2> SUFFICES ASSUME TypeInv, NarrowedInv, ExportFaithful, Answered({"search", "export"}),
                        OneCategoryFilter(call.asked, Roles)
                 PROVE  /\ Wanted \subseteq kept \cup entered
                        /\ call.route = "export" /\ Untied(kept \cup entered \cup left) =>
                             \A w \in Wanted \ (entered \cup ToSet(Found)) :
                               \E v \in left : Before(call.f, rows[v], rows[w])
      BY DEF ListingComplete, OneCategoryFilter
    <2>1. Wanted \subseteq kept \cup entered
      <3>1. MatchesNow \subseteq kept \cup entered
        BY DEF NarrowedInv, Answered, Finished, Running
      <3> QED BY <3>1, WantedMatches
    <2>2. ASSUME call.route = "export", Untied(kept \cup entered \cup left)
          PROVE  \A w \in kept \ ToSet(Found) : \E v \in left : Before(call.f, rows[v], rows[w])
      BY <2>2 DEF ExportFaithful, Answered
    <2> QED BY <2>1, <2>2
  <1>2. ViewsSpec => [](TypeInv /\ NarrowedInv)
    BY InitType, TypeStep, InitFresh, FreshStep, InitWatch, WatchStep, InitNarrowed, NarrowedStep,
       PTL DEF ViewsSpec
  <1> QED BY <1>1, <1>2, ExportFaithfulHolds, PTL
=============================================================================
