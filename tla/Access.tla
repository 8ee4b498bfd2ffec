------------------------------- MODULE Access -------------------------------
(***************************************************************************)
(* Who may call an endpoint, and what of the winnings the caller may see:  *)
(* the token middleware, the two guards, the read endpoints' decorators,   *)
(* and the access-control providers that narrow a search and check a       *)
(* single winning by the caller's roles.  Pure definitions; WinningsViews  *)
(* is the state machine that uses them.                                    *)
(*                                                                         *)
(* An optional field is the set of its value: {} when it is undefined,     *)
(* {v} when it is v.  Scopes are compared as they are.  The spelling of    *)
(* roles is left out: RolesGuard trims and lower-cases them, and a role    *)
(* claim is a list of the bare names below.  Of such a list extractRoles   *)
(* of the challenge payments, which only lower-cases, reads the same.      *)
(***************************************************************************)
EXTENDS Naturals, Sequences, SequencesExt

Scopes == {"read:payments", "create:payments"}

\* The roles of the read endpoints that see every winning, or see theirs by category
\* or by billing account.
AdminViewers == {"Payment Admin", "Payment BA Admin", "Payment Approver",
                 "Wipro TaaS Admin", "Payment Editor", "Payment Viewer"}

-----------------------------------------------------------------------------
(***************************************************************************)
(* Tokens.  A token has: bearer (an Authorization: Bearer header is there),*)
(* genuine (it names a key of the key server, has its signature and has    *)
(* not expired), audience (aud is the one configured for its kind), scopes *)
(* (of its scope claim; a token with a scope claim is a machine's), roles  *)
(* (of its role claims, in their order), email, and sub (the user id).     *)
(***************************************************************************)

\* The request as the middleware leaves it when nothing of the token is used.
Anonymous == [verified |-> FALSE, scopes |-> {}, roles |-> <<>>, email |-> FALSE, id |-> {}]

\* The middleware throws (401): no signing key, or jwt.verify fails.
TokenRejected(token, keys) == token.bearer /\ ~(keys /\ token.genuine)

\* Wrong form: any genuine token leaves its claims in the request.
TokenValidatorAnyAudience(token) ==
  IF token.bearer
    THEN [verified |-> TRUE, scopes |-> token.scopes, roles |-> token.roles,
          email |-> token.email, id |-> {token.sub}]
    ELSE Anonymous

\* Only a token made for this API leaves its claims in the request.
TokenValidator(token) ==
  IF token.bearer /\ token.audience
    THEN [verified |-> TRUE, scopes |-> token.scopes, roles |-> token.roles,
          email |-> token.email, id |-> {token.sub}]
    ELSE Anonymous

IsMachine(req) == req.scopes # {}

\* AuthGuard: "pass", or the status of the refusal.
AuthGuard(route, req) ==
  CASE route.m2m /\ ~(req.verified /\ IsMachine(req)) -> "401"
    [] route.m2m /\ req.verified /\ IsMachine(req) ->
         IF req.scopes \cap route.scopes # {} THEN "pass" ELSE "403"
    [] ~route.m2m /\ ~IsMachine(req) ->
         IF req.email /\ req.verified THEN "pass" ELSE "403"
    [] ~route.m2m /\ IsMachine(req) ->
         IF ~req.verified THEN "401"
         ELSE IF req.scopes \cap route.scopes # {} THEN "pass" ELSE "403"

\* RolesGuard.  A machine needs no role.
RolesGuard(route, req) ==
  IF route.roles = {} \/ (IsMachine(req) /\ req.verified) \/ ToSet(req.roles) \cap route.roles # {}
    THEN "pass" ELSE "403"

\* Both guards, in the order they are registered.
Guards(route, req) ==
  IF AuthGuard(route, req) # "pass" THEN AuthGuard(route, req) ELSE RolesGuard(route, req)

-----------------------------------------------------------------------------
(***************************************************************************)
(* The endpoints that read winnings: needs a machine token (m2m), takes a  *)
(* machine token with one of these scopes, takes a user with one of these  *)
(* roles.                                                                  *)
(***************************************************************************)

AdminRoute == [m2m |-> FALSE, scopes |-> {}, roles |-> AdminViewers]

SearchRoute == AdminRoute
DetailsRoute == AdminRoute
ExportRoute == AdminRoute
AuditRoute == AdminRoute
AuditPayoutRoute == AdminRoute

ListRoute == [m2m |-> TRUE, scopes |-> {"read:payments", "create:payments"}, roles |-> {}]

ExternalRoute ==
  [m2m |-> FALSE, scopes |-> {"read:payments"},
   roles |-> {"Administrator", "Talent Manager", "Project Manager", "Payment Admin"}]

ChallengeRoute ==
  [m2m |-> FALSE, scopes |-> {"read:payments", "create:payments"},
   roles |-> {"Payment Admin", "Payment Editor", "Payment Viewer", "Topcoder User"}]

UserRoute == [m2m |-> FALSE, scopes |-> {}, roles |-> {"Topcoder User"}]

WalletRoute ==
  [m2m |-> FALSE, scopes |-> {},
   roles |-> {"Payment Admin", "Wipro TaaS Admin", "Payment Editor", "Payment Viewer",
              "Topcoder User"}]

Route ==
  [search |-> SearchRoute, details |-> DetailsRoute, export |-> ExportRoute,
   audit |-> AuditRoute, payoutaudit |-> AuditPayoutRoute, list |-> ListRoute,
   external |-> ExternalRoute, challenge |-> ChallengeRoute, user |-> UserRoute,
   wallet |-> WalletRoute]

-----------------------------------------------------------------------------
(***************************************************************************)
(* The access-control providers.  applyFilters rewrites the search filters *)
(* role by role; verifyAccess checks one winning for every role.           *)
(***************************************************************************)

ApproverCategories == {"ENGAGEMENT_PAYMENT", "TASK_PAYMENT"}

\* The two category-scoped roles stand back when their holder is a Payment Admin too.
ShouldSkip(role, roles) ==
  /\ role \in {"Payment Approver", "Wipro TaaS Admin"}
  /\ "Payment Admin" \in ToSet(roles)

\* The scoped roles that count for a caller.
ScopedRoles(roles) ==
  {r \in ToSet(roles) \cap {"Payment Approver", "Wipro TaaS Admin", "Payment BA Admin"} :
     ~ShouldSkip(r, roles)}

\* Wrong form: the single category that was asked for stays in the filters.
ApproverFilterKeepsCategory(f) ==
  LET asked == ApproverCategories \cap IF f.categories # {} THEN UNION f.categories ELSE f.category
  IN  [f EXCEPT !.categories = {IF asked # {} THEN asked ELSE ApproverCategories}]

\* What was asked for of the allowed categories, or all of them; `category` is taken
\* out, because the query would prefer it.
ApproverFilter(f) ==
  LET asked == ApproverCategories \cap IF f.categories # {} THEN UNION f.categories ELSE f.category
  IN  [f EXCEPT !.category = {},
                !.categories = {IF asked # {} THEN asked ELSE ApproverCategories}]

WiproFilter(f) == [f EXCEPT !.category = {"TAAS_PAYMENT"}]

BillingFilter(f, accounts) == [f EXCEPT !.billingAccounts = {accounts}]

\* Wrong form: the category-scoped roles narrow the search of a Payment Admin as well.
ApplyFilterNeverSkips(r, out, roles, accounts) ==
  CASE r = "Payment Approver" -> ApproverFilter(out)
    [] r = "Wipro TaaS Admin" -> WiproFilter(out)
    [] r = "Payment BA Admin" -> BillingFilter(out, accounts)
    [] r \notin {"Payment Approver", "Wipro TaaS Admin", "Payment BA Admin"} -> out

\* What the provider of one role makes of the filters; accounts is what the billing account
\* service answers for the caller.
ApplyFilter(r, out, roles, accounts) ==
  CASE r \notin ScopedRoles(roles) -> out
    [] r = "Payment Approver" /\ r \in ScopedRoles(roles) -> ApproverFilter(out)
    [] r = "Wipro TaaS Admin" /\ r \in ScopedRoles(roles) -> WiproFilter(out)
    [] r = "Payment BA Admin" /\ r \in ScopedRoles(roles) -> BillingFilter(out, accounts)

\* applyFilters, in the order of the role claim: the filters after its first i roles.
ApplyFilters(roles, f, accounts) ==
  LET out[i \in 0 .. Len(roles)] ==
        IF i = 0 THEN f ELSE ApplyFilter(roles[i], out[i - 1], roles, accounts)
  IN  out[Len(roles)]

\* One of the caller's roles needs the billing account service.
NeedsAccounts(roles) == "Payment BA Admin" \in ToSet(roles)

\* verifyAccessToResource of each provider.  W is the set of the row that has the
\* winning's id: {} when there is none, and then nobody is refused.
ApproverMayOpen(W) == \A row \in W : row.category \in ApproverCategories
WiproMayOpen(W) == \A row \in W : row.category = "TAAS_PAYMENT"
BillingMayOpen(W, accounts) ==
  \A row \in W : \A i \in DOMAIN row.pays : row.pays[i].account \in accounts

\* verifyAccess: every scoped role of the caller has to agree.
MayOpen(roles, W, accounts) ==
  \A r \in ScopedRoles(roles) :
    CASE r = "Payment Approver" -> ApproverMayOpen(W)
      [] r = "Wipro TaaS Admin" -> WiproMayOpen(W)
      [] r = "Payment BA Admin" -> BillingMayOpen(W, accounts)

\* hasPrivilegedRole of the challenge payments.
Privileged(roles) ==
  ToSet(roles) \cap {"Payment Admin", "Payment Editor", "Payment Viewer", "Administrator"} # {}
=============================================================================
