------------------------------ MODULE Recipients ------------------------------
(***************************************************************************)
(* Linking a member to a Trolley recipient: GET /trolley/portal-link finds *)
(* the member's recipient in the database, or adopts one at Trolley by its *)
(* e-mail or creates one there, and stores it; only then is the portal's   *)
(* address answered, with which the member adds an account at Trolley.     *)
(* The webhook of the account finds the member by the stored recipient.    *)
(*                                                                         *)
(* Every action is one remote call or database transaction: requests of a  *)
(* member overlap, any of them may break off, and Trolley's recipients     *)
(* outlive what has become of the request.  Trolley's search is taken to   *)
(* find a recipient that has the e-mail whenever there is one.             *)
(***************************************************************************)
EXTENDS Naturals, FiniteSets

CONSTANTS
  Members,
  Emails,
  Refused,      \* the e-mail addresses that get no portal link
  Ids,          \* ids of Trolley recipients, given out in their order
  LinkCalls     \* requests of a portal link, in the order they come

ASSUME RecipientsAssumption ==
  /\ Refused \subseteq Emails
  /\ Ids \subseteq Nat \ {0} /\ LinkCalls \subseteq Nat
  /\ "nobody" \notin Members

VARIABLES
  email,        \* the e-mail in each member's token
  recipient,    \* the recipients at Trolley, with how each came to be there
  link,         \* trolley_recipient: the trolley_id of a member
  method,       \* members with a row in user_payment_methods
  connected,    \* of these, the ones whose status is CONNECTED
  account,      \* recipients with an account at Trolley
  news,         \* recipients whose account event is on its way
  ask,          \* each request
  given,        \* the links that were answered: <<member, id>>
  overlapped,   \* members with two requests under way at once (history)
  early,        \* recipients whose account event came before they were linked (history)
  moved         \* members whose e-mail address has changed (history)

linkVars == <<email, recipient, link, method, connected, account, news, ask, given,
              overlapped, early, moved>>
trolleyVars == <<recipient, account, news>>
dbVars == <<link, method, connected>>
history == <<given, overlapped, early, moved>>

NoOne == "nobody"
NoId == 0
Absent == [by |-> "nobody"]
Unasked == [pc |-> "idle"]

Recipients == [email : Emails, ref : Members \cup {NoOne}, by : {"earlier", "request"}]
LinkRequests == [pc : {"find", "search", "refer", "create", "store", "given", "failed"},
                 m : Members, email : Emails, id : Ids \cup {NoId}]
AskStates == {Unasked} \cup LinkRequests

LinkTypeOK ==
  /\ email \in [Members -> Emails]
  /\ recipient \in [Ids -> Recipients \cup {Absent}]
  /\ link \in [Members -> Ids \cup {NoId}]
  /\ connected \subseteq method /\ method \subseteq Members
  /\ \A m \in Members : link[m] # NoId => m \in method
  /\ news \subseteq account /\ account \subseteq Ids
  /\ ask \in [LinkCalls -> AskStates]
  /\ given \subseteq Members \X Ids
  /\ overlapped \cup moved \subseteq Members /\ early \subseteq Ids

\* No member is linked.  There may be a recipient at Trolley from before, with an
\* account and with somebody's e-mail, but with no member of ours as its reference.
LinkInit ==
  /\ email \in {f \in [Members -> Emails \ Refused] : \A m, n \in Members : m # n => f[m] # f[n]}
  /\ \E old \in {{}} \cup {{i} : i \in Ids}, e \in Emails :
       recipient = [i \in Ids |-> IF i \in old THEN [email |-> e, ref |-> NoOne, by |-> "earlier"]
                                               ELSE Absent]
  /\ link = [m \in Members |-> NoId]
  /\ method = {} /\ connected = {} /\ account = {} /\ news = {}
  /\ ask = [c \in LinkCalls |-> Unasked]
  /\ given = {} /\ overlapped = {} /\ early = {} /\ moved = {}

-----------------------------------------------------------------------------
UnderWay(c) == ask[c].pc \notin {"idle", "given", "failed"}

GoesTo(c, pc) == ask' = [ask EXCEPT ![c].pc = pc]

\* getPortalUrlForUser: some addresses are refused before anything is looked up.
AskForLink(c, m) ==
  /\ ask[c] = Unasked /\ \A b \in LinkCalls : b < c => ask[b] # Unasked
  /\ email[m] \notin Refused
  /\ ask' = [ask EXCEPT ![c] = [pc |-> "find", m |-> m, email |-> email[m], id |-> NoId]]
  /\ overlapped' = IF \E b \in LinkCalls : UnderWay(b) /\ ask[b].m = m
                     THEN overlapped \cup {m} ELSE overlapped
  /\ UNCHANGED <<trolleyVars, dbVars, email, given, early, moved>>

\* The portal's address is built and answered, with the recipient's id.
GiveLink(c, id) ==
  /\ ask' = [ask EXCEPT ![c].pc = "given", ![c].id = id]
  /\ given' = given \cup {<<ask[c].m, id>>}

\* getPayeeRecipient.
FindLink(c) ==
  /\ ask[c].pc = "find"
  /\ IF link[ask[c].m] # NoId
       THEN GiveLink(c, link[ask[c].m])
       ELSE GoesTo(c, "search") /\ UNCHANGED given
  /\ UNCHANGED <<trolleyVars, dbVars, email, overlapped, early, moved>>

WithEmail(e) == {i \in Ids : recipient[i] # Absent /\ recipient[i].email = e}

\* Wrong form: only a recipient that has the member as its reference is adopted.
SearchByReference(c) ==
  /\ ask[c].pc = "search"
  /\ LET found == {i \in WithEmail(ask[c].email) : recipient[i].ref = ask[c].m /\ recipient[i].by = "earlier"}
     IN  \/ found = {} /\ GoesTo(c, "create")
         \/ \E i \in found : ask' = [ask EXCEPT ![c].id = i, ![c].pc = "store"]
  /\ UNCHANGED <<trolleyVars, dbVars, email, history>>

\* findOrCreateTrolleyRecipient, the search: one recipient of those with the e-mail.
SearchRecipient(c) ==
  /\ ask[c].pc = "search"
  /\ LET found == WithEmail(ask[c].email)
     IN  \/ found = {} /\ GoesTo(c, "create")
         \/ \E i \in found :
              ask' = [ask EXCEPT ![c].id = i,
                                 ![c].pc = IF recipient[i].ref # ask[c].m THEN "refer" ELSE "store"]
  /\ UNCHANGED <<trolleyVars, dbVars, email, history>>

\* The recipient that was found gets the member's id as its reference.
Refer(c) ==
  /\ ask[c].pc = "refer"
  /\ recipient' = [recipient EXCEPT ![ask[c].id].ref = ask[c].m]
  /\ GoesTo(c, "store")
  /\ UNCHANGED <<dbVars, account, news, email, history>>

NextId(i) == recipient[i] = Absent /\ \A j \in Ids : j < i => recipient[j] # Absent

\* Wrong form: the link is answered as soon as Trolley has the recipient.
CreateAndAnswer(c) ==
  /\ ask[c].pc = "create"
  /\ \E i \in Ids :
       /\ NextId(i)
       /\ recipient' = [recipient EXCEPT ![i] = [email |-> ask[c].email, ref |-> ask[c].m, by |-> "request"]]
       /\ ask' = [ask EXCEPT ![c].id = i, ![c].pc = "store"]
       /\ given' = given \cup {<<ask[c].m, i>>}
  /\ UNCHANGED <<dbVars, account, news, email, overlapped, early, moved>>

\* The create, with what the member service knows of the member.  When the e-mail is taken
\* by now, Trolley may take the recipient or refuse it (LinkFails).
CreateRecipient(c) ==
  /\ ask[c].pc = "create"
  /\ \E i \in Ids :
       /\ NextId(i)
       /\ recipient' = [recipient EXCEPT ![i] = [email |-> ask[c].email, ref |-> ask[c].m, by |-> "request"]]
       /\ ask' = [ask EXCEPT ![c].id = i, ![c].pc = "store"]
  /\ UNCHANGED <<dbVars, account, news, email, history>>

\* Wrong form: a member's earlier recipient is replaced.
StoreLatest(c) ==
  /\ ask[c].pc = "store"
  /\ \A n \in Members : link[n] # ask[c].id
  /\ method' = method \cup {ask[c].m}
  /\ link' = [link EXCEPT ![ask[c].m] = ask[c].id]
  /\ GiveLink(c, ask[c].id)
  /\ UNCHANGED <<trolleyVars, connected, email, overlapped, early, moved>>

\* createPayeeRecipient, the transaction: the member's payment method is found or created,
\* and the recipient stored.  Each member and each trolley_id has one row: the insert of
\* another throws (LinkFails).
StoreLink(c) ==
  /\ ask[c].pc = "store"
  /\ link[ask[c].m] = NoId /\ \A n \in Members : link[n] # ask[c].id
  /\ method' = method \cup {ask[c].m}
  /\ link' = [link EXCEPT ![ask[c].m] = ask[c].id]
  /\ GiveLink(c, ask[c].id)
  /\ UNCHANGED <<trolleyVars, connected, email, overlapped, early, moved>>

\* An await throws or the instance crashes.
LinkFails(c) ==
  /\ UnderWay(c)
  /\ GoesTo(c, "failed")
  /\ UNCHANGED <<trolleyVars, dbVars, email, history>>

-----------------------------------------------------------------------------
(***************************************************************************)
(* Outside: the portal, the member's e-mail address, and the webhook.      *)
(***************************************************************************)

\* The portal is opened with the e-mail and the reference of the member it was given to,
\* whichever recipient has both.  A recipient from before may have an account anyhow.
MayAddAccount(i) ==
  /\ recipient[i] # Absent /\ i \notin account
  /\ \/ recipient[i].by = "earlier"
     \/ \E g \in given : recipient[i].ref = g[1] /\ recipient[i].email = email[g[1]]

AddAccount(i) ==
  /\ MayAddAccount(i)
  /\ account' = account \cup {i} /\ news' = news \cup {i}
  /\ UNCHANGED <<recipient, dbVars, email, ask, history>>

\* handleCreatedOrUpdate of a primary account: nothing happens when the recipient is not
\* stored.
HandleAccount(i) ==
  /\ i \in news
  /\ news' = news \ {i}
  /\ connected' = connected \cup {m \in Members : link[m] = i}
  /\ early' = IF \E m \in Members : link[m] = i THEN early ELSE early \cup {i}
  /\ UNCHANGED <<recipient, account, link, method, email, ask, given, overlapped, moved>>

\* A member gets an address that nobody has now (bound of the model: once).
ChangeEmail(m, e) ==
  /\ m \notin moved
  /\ \A n \in Members : email[n] # e
  /\ email' = [email EXCEPT ![m] = e]
  /\ moved' = moved \cup {m}
  /\ UNCHANGED <<trolleyVars, dbVars, ask, given, overlapped, early>>

LinkStep(c) ==
  \/ FindLink(c) \/ SearchRecipient(c) \/ Refer(c) \/ CreateRecipient(c) \/ StoreLink(c)
  \/ LinkFails(c)

LinkNext ==
  \/ \E c \in LinkCalls : LinkStep(c) \/ \E m \in Members : AskForLink(c, m)
  \/ \E i \in Ids : AddAccount(i) \/ HandleAccount(i)
  \/ \E m \in Members, e \in Emails : ChangeEmail(m, e)

LinkSpec == LinkInit /\ [][LinkNext]_linkVars

-----------------------------------------------------------------------------
(***************************************************************************)
(* Properties.                                                             *)
(***************************************************************************)

Made(m) == {i \in Ids : recipient[i] # Absent /\ recipient[i].by = "request" /\ recipient[i].ref = m}

\* A request that breaks off after the create leaves a recipient that the next one adopts:
\* a member has two recipients made here only if two requests overlapped or the e-mail
\* address changed in between.
OneRecipientUnlessOverlap ==
  \A m \in Members : Cardinality(Made(m)) > 1 => m \in overlapped \cup moved

\* Every link that was ever answered is the member's one and only stored recipient, and
\* the recipient's reference stays the member's unless the member has left the address,
\* and with it the recipient, to somebody else.
GivenLinkIsFinal ==
  \A g \in given :
    /\ link[g[1]] = g[2]
    /\ recipient[g[2]].ref # g[1] => g[1] \in moved

\* An account that a member added behind a link reaches the payment method once its event
\* was handled: it is missed only if the event came before the recipient was stored, which
\* takes a recipient from before, or went to a second recipient of the member.
AccountsReachTheMember ==
  \A m \in Members : \A i \in account \ news :
    recipient[i].ref = m /\ m \notin connected /\ (\E g \in given : g[1] = m) =>
      \/ i \in early /\ recipient[i].by = "earlier"
      \/ m \in overlapped \cup moved

-----------------------------------------------------------------------------
(***************************************************************************)
(* Strengthenings that are inductive (see RecipientsProofs).               *)
(***************************************************************************)

Asked(c) == ask[c] # Unasked

\* Member m has asked for a link while having the address; or has it now.
AskedWith(m, e) == \E c \in LinkCalls : Asked(c) /\ ask[c].m = m /\ ask[c].email = e
Had(m, e) == email[m] = e \/ AskedWith(m, e)

\* No two members have the same address, and two have had it only by moving: the one away
\* from it, the other to it.
AddressInv ==
  /\ \A m, n \in Members : m # n => email[m] # email[n]
  /\ \A m \in Members, e \in Emails : Had(m, e) /\ m \notin moved => e = email[m]
  /\ \A m, n \in Members, e \in Emails :
       m # n /\ Had(m, e) /\ Had(n, e) => m \in moved

\* Whom a recipient refers to has asked with its address.
ReferenceInv ==
  \A i \in Ids : recipient[i] # Absent =>
    /\ recipient[i].by = "request" => recipient[i].ref \in Members
    /\ recipient[i].ref \in Members => AskedWith(recipient[i].ref, recipient[i].email)

\* What a request has found, made or stored is a recipient with an address of its member,
\* and refers to the member unless the member has moved.
FoundInv ==
  /\ \A c \in LinkCalls : ask[c].pc \in {"refer", "store"} =>
       /\ ask[c].id \in Ids /\ recipient[ask[c].id] # Absent
       /\ recipient[ask[c].id].email = ask[c].email
       /\ ask[c].pc = "store" =>
            recipient[ask[c].id].ref = ask[c].m \/ ask[c].m \in moved
  /\ \A m \in Members : link[m] # NoId =>
       /\ recipient[link[m]] # Absent
       /\ AskedWith(m, recipient[link[m]].email)
       /\ recipient[link[m]].ref = m \/ m \in moved

\* A recipient is stored for one member, and links are answered for stored ones.
StoredInv ==
  /\ \A m, n \in Members : link[m] = link[n] /\ link[m] # NoId => m = n
  /\ \A g \in given : link[g[1]] = g[2]

\* Two requests of a member at once have been noticed.
OverlapInv ==
  \A b, c \in LinkCalls :
    UnderWay(b) /\ UnderWay(c) /\ b # c /\ ask[b].m = ask[c].m => ask[b].m \in overlapped

\* For a member whose requests never overlapped and who never moved, the search decides:
\* there is one recipient with the address, and none when one is about to be created.
Plain(m) == m \notin overlapped \cup moved
SearchInv ==
  \A m \in Members : Plain(m) =>
    /\ \A i, j \in WithEmail(email[m]) : i = j
    /\ \A c \in LinkCalls : ask[c].pc = "create" /\ ask[c].m = m => WithEmail(email[m]) = {}

\* Where the events of accounts went: to the member who has the recipient, or nowhere.
AccountInv ==
  /\ \A i \in account : recipient[i] # Absent
  /\ early \subseteq account
  /\ \A i \in account \ news : i \in early \/ \E m \in connected : link[m] = i
  /\ \A i \in account : recipient[i].by = "request" =>
       (\E m \in Members : link[m] = i) \/ ~Plain(recipient[i].ref)
  /\ \A i \in early : recipient[i].by = "request" => ~Plain(recipient[i].ref)

LinkInv == /\ AddressInv /\ ReferenceInv /\ FoundInv /\ StoredInv /\ OverlapInv
           /\ SearchInv /\ AccountInv
=============================================================================
