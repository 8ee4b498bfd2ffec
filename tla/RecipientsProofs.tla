-------------------------- MODULE RecipientsProofs --------------------------
(***************************************************************************)
(* Theorems about Recipients, for every choice of its constants.           *)
(***************************************************************************)
EXTENDS Recipients, FiniteSetTheorems, TLAPS

\* A request that is under way, or was, is a record of LinkRequests.
LEMMA RequestType ==
  ASSUME LinkTypeOK, NEW c \in LinkCalls
  PROVE  /\ ask[c] = Unasked \/ ask[c] \in LinkRequests
         /\ ask[c].pc # "idle" => ask[c] # Unasked /\ ask[c] \in LinkRequests
         /\ ask[c] \in LinkRequests => ask[c] # Unasked
  BY DEF LinkTypeOK, AskStates, Unasked, LinkRequests

\* The initial states have their types.
LEMMA LinkInitType == LinkInit => LinkTypeOK
  <1> SUFFICES ASSUME LinkInit PROVE LinkTypeOK
    OBVIOUS
  <1>1. recipient \in [Ids -> Recipients \cup {Absent}]
    <2>1. PICK old \in {{}} \cup {{i} : i \in Ids}, e \in Emails :
            recipient = [i \in Ids |-> IF i \in old
                                         THEN [email |-> e, ref |-> NoOne, by |-> "earlier"]
                                         ELSE Absent]
      BY DEF LinkInit
    <2>2. [email |-> e, ref |-> NoOne, by |-> "earlier"] \in Recipients
      BY DEF Recipients
    <2> QED BY <2>1, <2>2
  <1>2. email \in [Members -> Emails]
    BY DEF LinkInit
  <1>3. /\ link \in [Members -> Ids \cup {NoId}]
        /\ ask \in [LinkCalls -> AskStates]
    BY DEF LinkInit, AskStates
  <1> QED BY <1>1, <1>2, <1>3 DEF LinkInit, LinkTypeOK

\* A request that moves on, with or without a recipient, stays a request.
LEMMA MovesOn ==
  ASSUME LinkTypeOK, NEW c \in LinkCalls, ask[c].pc # "idle",
         NEW p \in {"find", "search", "refer", "create", "store", "given", "failed"},
         NEW i \in Ids \cup {NoId}
  PROVE  /\ [ask EXCEPT ![c].pc = p] \in [LinkCalls -> AskStates]
         /\ [ask EXCEPT ![c].pc = p, ![c].id = i] \in [LinkCalls -> AskStates]
         /\ [ask EXCEPT ![c].id = i, ![c].pc = p] \in [LinkCalls -> AskStates]
  <1>1. ask[c] \in LinkRequests /\ ask \in [LinkCalls -> AskStates]
    BY RequestType DEF LinkTypeOK
  <1>2. /\ [ask[c] EXCEPT !.pc = p] \in LinkRequests
        /\ [ask[c] EXCEPT !.pc = p, !.id = i] \in LinkRequests
        /\ [ask[c] EXCEPT !.id = i, !.pc = p] \in LinkRequests
    BY <1>1 DEF LinkRequests
  <1> QED BY <1>1, <1>2 DEF AskStates

\* Every step keeps the types.
LEMMA LinkTypeStep == ASSUME LinkTypeOK, [LinkNext]_linkVars PROVE LinkTypeOK'
  <1> USE DEF trolleyVars, dbVars, history
  <1>1. CASE UNCHANGED linkVars
    BY <1>1 DEF LinkTypeOK, linkVars
  <1>2. ASSUME NEW c \in LinkCalls, NEW m \in Members, AskForLink(c, m) PROVE LinkTypeOK'
    <2>1. [pc |-> "find", m |-> m, email |-> email[m], id |-> NoId] \in LinkRequests
      BY DEF LinkTypeOK, LinkRequests
    <2>2. ask' \in [LinkCalls -> AskStates]
      BY <1>2, <2>1 DEF LinkTypeOK, AskForLink, AskStates
    <2> QED BY <1>2, <2>2 DEF LinkTypeOK, AskForLink
  <1>3. ASSUME NEW c \in LinkCalls, LinkStep(c) PROVE LinkTypeOK'
    <2>0. ASSUME ask[c].pc # "idle" PROVE ask[c] \in LinkRequests
      BY <2>0, RequestType
    <2>1. CASE FindLink(c)
      <3>0. ask[c].m \in Members /\ link[ask[c].m] \in Ids \cup {NoId}
        BY <2>1, <2>0 DEF FindLink, LinkTypeOK, LinkRequests
      <3>1. ask' \in [LinkCalls -> AskStates]
        <4>1. CASE ask' = [ask EXCEPT ![c].pc = "search"]
          BY <2>1, <4>1, MovesOn DEF FindLink
        <4>2. CASE ask' = [ask EXCEPT ![c].pc = "given", ![c].id = link[ask[c].m]]
          BY <2>1, <3>0, <4>2, MovesOn DEF FindLink
        <4> QED BY <2>1, <4>1, <4>2 DEF FindLink, GiveLink, GoesTo
      <3>2. given' \subseteq Members \X Ids
        BY <2>1, <3>0 DEF FindLink, GiveLink, LinkTypeOK, NoId
      <3> QED BY <2>1, <3>1, <3>2 DEF LinkTypeOK, FindLink
    <2>2. CASE SearchRecipient(c)
      <3>1. ask' \in [LinkCalls -> AskStates]
        <4>1. CASE ask' = [ask EXCEPT ![c].pc = "create"]
          BY <2>2, <4>1, MovesOn DEF SearchRecipient
        <4>2. ASSUME NEW i \in Ids, NEW p \in {"refer", "store"},
                     ask' = [ask EXCEPT ![c].id = i, ![c].pc = p]
              PROVE  ask' \in [LinkCalls -> AskStates]
          BY <2>2, <4>2, MovesOn DEF SearchRecipient
        <4> QED BY <2>2, <4>1, <4>2 DEF SearchRecipient, GoesTo, WithEmail
      <3> QED BY <2>2, <3>1 DEF LinkTypeOK, SearchRecipient
    <2>3. CASE Refer(c)
      <3>1. ask' \in [LinkCalls -> AskStates]
        BY <2>3, MovesOn DEF Refer, GoesTo
      <3>2. recipient' \in [Ids -> Recipients \cup {Absent}]
        <4>1. ask[c].m \in Members
          BY <2>3, <2>0 DEF Refer, LinkRequests
        <4>2. \A r \in Recipients : [r EXCEPT !.ref = ask[c].m] \in Recipients
          BY <4>1 DEF Recipients
        <4>3. [Absent EXCEPT !.ref = ask[c].m] = Absent
          BY DEF Absent
        <4> QED BY <2>3, <4>2, <4>3 DEF LinkTypeOK, Refer
      <3> QED BY <2>3, <3>1, <3>2 DEF LinkTypeOK, Refer
    <2>4. CASE CreateRecipient(c)
      <3>1. PICK i \in Ids :
              /\ recipient' = [recipient EXCEPT ![i] = [email |-> ask[c].email, ref |-> ask[c].m,
                                                        by |-> "request"]]
              /\ ask' = [ask EXCEPT ![c].id = i, ![c].pc = "store"]
        BY <2>4 DEF CreateRecipient
      <3>2. ask' \in [LinkCalls -> AskStates]
        BY <2>4, <3>1, MovesOn DEF CreateRecipient
      <3>3. [email |-> ask[c].email, ref |-> ask[c].m, by |-> "request"] \in Recipients
        BY <2>4, <2>0 DEF CreateRecipient, LinkRequests, Recipients
      <3>4. recipient' \in [Ids -> Recipients \cup {Absent}]
        BY <3>1, <3>3 DEF LinkTypeOK
      <3> QED BY <2>4, <3>2, <3>4 DEF LinkTypeOK, CreateRecipient
    <2>5. CASE StoreLink(c)
      <3>0. ask[c] \in LinkRequests /\ ask[c].m \in Members /\ ask[c].id \in Ids \cup {NoId}
        BY <2>5, <2>0 DEF StoreLink, LinkRequests
      <3>1. ask' \in [LinkCalls -> AskStates]
        BY <2>5, <3>0, MovesOn DEF StoreLink, GiveLink
      <3>2. link' \in [Members -> Ids \cup {NoId}] /\ method' \subseteq Members
        BY <2>5, <3>0 DEF StoreLink, LinkTypeOK
      <3>3. given' \subseteq Members \X Ids
        BY <2>5, <3>0 DEF StoreLink, GiveLink, LinkTypeOK, NoId
      <3> QED BY <2>5, <3>1, <3>2, <3>3 DEF LinkTypeOK, StoreLink
    <2>6. CASE LinkFails(c)
      <3>1. ask' \in [LinkCalls -> AskStates]
        BY <2>6, MovesOn DEF LinkFails, UnderWay, GoesTo
      <3> QED BY <2>6, <3>1 DEF LinkTypeOK, LinkFails
    <2> QED BY <1>3, <2>1, <2>2, <2>3, <2>4, <2>5, <2>6 DEF LinkStep
  <1>4. ASSUME NEW i \in Ids, AddAccount(i) PROVE LinkTypeOK'
    BY <1>4 DEF LinkTypeOK, AddAccount
  <1>5. ASSUME NEW i \in Ids, HandleAccount(i) PROVE LinkTypeOK'
    <2>1. i # NoId
      BY RecipientsAssumption DEF RecipientsAssumption, NoId
    <2> QED BY <1>5, <2>1 DEF LinkTypeOK, HandleAccount
  <1>6. ASSUME NEW m \in Members, NEW e \in Emails, ChangeEmail(m, e) PROVE LinkTypeOK'
    BY <1>6 DEF LinkTypeOK, ChangeEmail
  <1> QED BY <1>1, <1>2, <1>3, <1>4, <1>5, <1>6 DEF LinkNext

\* The types hold in every reachable state.
THEOREM LinkTypeCorrect == LinkSpec => []LinkTypeOK
  BY LinkInitType, LinkTypeStep, PTL DEF LinkSpec

-----------------------------------------------------------------------------
(***************************************************************************)
(* What a step can do to a request, a recipient and a stored link.         *)
(***************************************************************************)

\* A request changes only by its own steps.
LEMMA AskSteps ==
  ASSUME LinkTypeOK, [LinkNext]_linkVars, NEW c \in LinkCalls
  PROVE  ask'[c] = ask[c] \/ LinkStep(c) \/ \E m \in Members : AskForLink(c, m)
  <1> USE DEF LinkTypeOK
  <1>1. CASE UNCHANGED ask
    BY <1>1
  <1>2. ASSUME NEW b \in LinkCalls, b # c,
               LinkStep(b) \/ \E m \in Members : AskForLink(b, m)
        PROVE  ask'[c] = ask[c]
    BY <1>2 DEF LinkStep, AskForLink, FindLink, SearchRecipient, Refer, CreateRecipient,
                StoreLink, LinkFails, GiveLink, GoesTo
  <1> QED
    BY <1>1, <1>2 DEF LinkNext, linkVars, AddAccount, HandleAccount, ChangeEmail, history

\* What a request does when it moves on.
LEMMA LinkSteps ==
  ASSUME LinkTypeOK, NEW c \in LinkCalls, LinkStep(c)
  PROVE  /\ UnderWay(c) /\ Asked(c) /\ Asked(c)'
         /\ ask[c] \in LinkRequests
         /\ ask'[c].m = ask[c].m /\ ask'[c].email = ask[c].email
         /\ ask'[c].pc # "find"
         /\ ask'[c].pc = "create" => SearchRecipient(c) /\ WithEmail(ask[c].email) = {}
         /\ ask'[c].pc = "refer" => SearchRecipient(c) /\ ask'[c].id \in WithEmail(ask[c].email)
         /\ ask'[c].pc = "store" =>
              \/ CreateRecipient(c)
              \/ Refer(c) /\ ask'[c].id = ask[c].id
              \/ /\ SearchRecipient(c) /\ ask'[c].id \in WithEmail(ask[c].email)
                 /\ recipient[ask'[c].id].ref = ask[c].m
  <1>0. ask[c] \in LinkRequests /\ Asked(c) /\ UnderWay(c)
    <2>1. ask[c].pc \notin {"idle", "given", "failed"}
      BY DEF LinkStep, FindLink, SearchRecipient, Refer, CreateRecipient, StoreLink,
             LinkFails, UnderWay
    <2> QED BY <2>1, RequestType DEF Asked, UnderWay
  <1> USE <1>0 DEF LinkTypeOK, Asked, LinkRequests, Unasked
  <1>1. CASE FindLink(c)
    <2>1. \/ ask'[c] = [ask[c] EXCEPT !.pc = "search"]
          \/ ask'[c] = [ask[c] EXCEPT !.pc = "given", !.id = link[ask[c].m]]
      BY <1>1 DEF FindLink, GiveLink, GoesTo
    <2> QED BY <2>1
  <1>2. CASE SearchRecipient(c)
    <2>1. \/ WithEmail(ask[c].email) = {} /\ ask'[c] = [ask[c] EXCEPT !.pc = "create"]
          \/ \E i \in WithEmail(ask[c].email), p \in {"refer", "store"} :
               /\ ask'[c] = [ask[c] EXCEPT !.id = i, !.pc = p]
               /\ p = "store" => recipient[i].ref = ask[c].m
      BY <1>2 DEF SearchRecipient, GoesTo
    <2>2. CASE WithEmail(ask[c].email) = {} /\ ask'[c] = [ask[c] EXCEPT !.pc = "create"]
      BY <1>2, <2>2
    <2>3. ASSUME NEW i \in WithEmail(ask[c].email), NEW p \in {"refer", "store"},
                 ask'[c] = [ask[c] EXCEPT !.id = i, !.pc = p],
                 p = "store" => recipient[i].ref = ask[c].m
          PROVE  /\ ask'[c].m = ask[c].m /\ ask'[c].email = ask[c].email
                 /\ ask'[c].id = i /\ ask'[c].pc = p
      BY <2>3
    <2> QED BY <1>2, <2>1, <2>2, <2>3
  <1>3. CASE Refer(c)
    <2>1. ask'[c] = [ask[c] EXCEPT !.pc = "store"]
      BY <1>3 DEF Refer, GoesTo
    <2> QED BY <1>3, <2>1
  <1>4. CASE CreateRecipient(c)
    <2>1. PICK i \in Ids : ask'[c] = [ask[c] EXCEPT !.id = i, !.pc = "store"]
      BY <1>4 DEF CreateRecipient
    <2> QED BY <1>4, <2>1
  <1>5. CASE StoreLink(c)
    <2>1. ask'[c] = [ask[c] EXCEPT !.pc = "given", !.id = ask[c].id]
      BY <1>5 DEF StoreLink, GiveLink
    <2> QED BY <2>1
  <1>6. CASE LinkFails(c)
    <2>1. ask'[c] = [ask[c] EXCEPT !.pc = "failed"]
      BY <1>6 DEF LinkFails, GoesTo
    <2> QED BY <2>1
  <1> QED BY <1>1, <1>2, <1>3, <1>4, <1>5, <1>6 DEF LinkStep

\* A new request carries the address that its member has now.
LEMMA AskForSteps ==
  ASSUME LinkTypeOK, NEW c \in LinkCalls, NEW m \in Members, AskForLink(c, m)
  PROVE  /\ ~Asked(c) /\ Asked(c)' /\ UnderWay(c)'
         /\ ask'[c].pc = "find" /\ ask'[c].m = m /\ ask'[c].email = email[m]
         /\ UNCHANGED <<email, moved, recipient, link, given>>
  BY DEF LinkTypeOK, AskForLink, Asked, Unasked, UnderWay, trolleyVars, dbVars

\* Whom a request is about, and with which address, is settled when it is made.
LEMMA AskKept ==
  ASSUME LinkTypeOK, [LinkNext]_linkVars, NEW c \in LinkCalls, Asked(c)
  PROVE  Asked(c)' /\ ask'[c].m = ask[c].m /\ ask'[c].email = ask[c].email
  <1>1. CASE ask'[c] = ask[c]
    BY <1>1 DEF Asked
  <1> QED BY <1>1, AskSteps, LinkSteps, AskForSteps

\* So are the addresses a member has asked with.
LEMMA AskedWithKept ==
  ASSUME LinkTypeOK, [LinkNext]_linkVars, NEW m, NEW e, AskedWith(m, e)
  PROVE  AskedWith(m, e)'
  BY AskKept DEF AskedWith

\* A recipient changes only when a request gives it its member as the reference, or
\* makes it.
LEMMA RecipientSteps ==
  ASSUME LinkTypeOK, [LinkNext]_linkVars, NEW i \in Ids
  PROVE  \/ recipient'[i] = recipient[i]
         \/ \E c \in LinkCalls : /\ Refer(c) /\ ask[c].id = i
                                 /\ recipient'[i] = [recipient[i] EXCEPT !.ref = ask[c].m]
         \/ \E c \in LinkCalls : /\ CreateRecipient(c) /\ recipient[i] = Absent
                                 /\ recipient'[i] = [email |-> ask[c].email, ref |-> ask[c].m,
                                                     by |-> "request"]
  <1> USE DEF LinkTypeOK
  <1>1. CASE UNCHANGED recipient
    BY <1>1
  <1>2. ASSUME NEW c \in LinkCalls, Refer(c)
        PROVE  \/ recipient'[i] = recipient[i]
               \/ ask[c].id = i /\ recipient'[i] = [recipient[i] EXCEPT !.ref = ask[c].m]
    BY <1>2 DEF Refer
  <1>3. ASSUME NEW c \in LinkCalls, CreateRecipient(c)
        PROVE  \/ recipient'[i] = recipient[i]
               \/ /\ recipient[i] = Absent
                  /\ recipient'[i] = [email |-> ask[c].email, ref |-> ask[c].m, by |-> "request"]
    BY <1>3 DEF CreateRecipient, NextId
  <1> QED
    BY <1>1, <1>2, <1>3
       DEF LinkNext, linkVars, LinkStep, AskForLink, FindLink, SearchRecipient, StoreLink,
           LinkFails, AddAccount, HandleAccount, ChangeEmail, trolleyVars

\* Recipients stay, with their address and origin; a reference that changes becomes the
\* member of a request that was about to refer it.
LEMMA RecipientKept ==
  ASSUME LinkTypeOK, [LinkNext]_linkVars, NEW i \in Ids, recipient[i] # Absent
  PROVE  /\ recipient[i] \in Recipients /\ recipient'[i] # Absent
         /\ recipient'[i].email = recipient[i].email /\ recipient'[i].by = recipient[i].by
         /\ \/ recipient'[i].ref = recipient[i].ref
            \/ \E c \in LinkCalls : /\ ask[c].pc = "refer" /\ ask[c].id = i
                                    /\ recipient'[i].ref = ask[c].m
  <1>1. recipient[i] \in Recipients
    BY DEF LinkTypeOK
  <1>2. CASE recipient'[i] = recipient[i]
    BY <1>1, <1>2
  <1>3. ASSUME NEW c \in LinkCalls, Refer(c), ask[c].id = i,
               recipient'[i] = [recipient[i] EXCEPT !.ref = ask[c].m]
        PROVE  /\ recipient'[i] # Absent
               /\ recipient'[i].email = recipient[i].email
               /\ recipient'[i].by = recipient[i].by
               /\ recipient'[i].ref = ask[c].m /\ ask[c].pc = "refer"
    <2>1. recipient[i].by # "nobody"
      BY <1>1 DEF Recipients
    <2> QED BY <1>1, <1>3, <2>1 DEF Recipients, Absent, Refer
  <1> QED BY <1>1, <1>2, <1>3, RecipientSteps

\* What was stored and answered stays; a new link is the recipient of a request that
\* stores it.
LEMMA StoreSteps ==
  ASSUME LinkTypeOK, [LinkNext]_linkVars
  PROVE  /\ \/ UNCHANGED link
            \/ \E c \in LinkCalls :
                 /\ StoreLink(c) /\ link[ask[c].m] = NoId /\ UNCHANGED recipient
                 /\ ask[c] \in LinkRequests /\ ask[c].id \in Ids
                 /\ link' = [link EXCEPT ![ask[c].m] = ask[c].id]
         /\ \A m \in Members : link[m] # NoId => link'[m] = link[m]
         /\ moved \subseteq moved' /\ overlapped \subseteq overlapped'
         /\ given \subseteq given' /\ early \subseteq early' /\ connected \subseteq connected'
  <1>1. \/ UNCHANGED link
        \/ \E c \in LinkCalls :
             /\ StoreLink(c) /\ link[ask[c].m] = NoId /\ UNCHANGED recipient
             /\ ask[c] \in LinkRequests /\ link' = [link EXCEPT ![ask[c].m] = ask[c].id]
    BY LinkSteps
       DEF LinkNext, linkVars, LinkStep, AskForLink, FindLink, SearchRecipient, Refer,
           CreateRecipient, StoreLink, LinkFails, AddAccount, HandleAccount, ChangeEmail,
           dbVars, trolleyVars
  <1>2. ASSUME NEW c \in LinkCalls, StoreLink(c), ask[c] \in LinkRequests
        PROVE  ask[c].id \in Ids \/ link' = link
    BY <1>2 DEF StoreLink, LinkRequests, LinkTypeOK
  <1>3. \A m \in Members : link[m] # NoId => link'[m] = link[m]
    BY <1>1 DEF LinkTypeOK
  <1>4. /\ moved \subseteq moved' /\ overlapped \subseteq overlapped'
        /\ given \subseteq given' /\ early \subseteq early' /\ connected \subseteq connected'
    BY DEF LinkNext, linkVars, LinkStep, AskForLink, FindLink, SearchRecipient, Refer,
           CreateRecipient, StoreLink, LinkFails, AddAccount, HandleAccount, ChangeEmail,
           GiveLink, dbVars, trolleyVars, history
  <1> QED BY <1>1, <1>2, <1>3, <1>4

-----------------------------------------------------------------------------
(***************************************************************************)
(* The inductive invariant, part by part.                                  *)
(***************************************************************************)

\* Addresses change only to ones nobody has.
LEMMA EmailSteps ==
  ASSUME LinkTypeOK, [LinkNext]_linkVars
  PROVE  \/ UNCHANGED <<email, moved>>
         \/ \E m \in Members, e \in Emails : ChangeEmail(m, e)
  BY DEF LinkNext, linkVars, LinkStep, AskForLink, FindLink, SearchRecipient, Refer,
         CreateRecipient, StoreLink, LinkFails, AddAccount, HandleAccount, history

\* A member comes to have an address by moving to it.
LEMMA HadSteps ==
  ASSUME LinkTypeOK, [LinkNext]_linkVars, NEW m \in Members, NEW e \in Emails, Had(m, e)'
  PROVE  Had(m, e) \/ ChangeEmail(m, e)
  <1>1. CASE email'[m] = e
    <2>1. ASSUME NEW n \in Members, NEW f \in Emails, ChangeEmail(n, f)
          PROVE  email[m] = e \/ (n = m /\ f = e)
      BY <1>1, <2>1 DEF ChangeEmail, LinkTypeOK
    <2> QED BY <1>1, <2>1, EmailSteps DEF Had
  <1>2. CASE AskedWith(m, e)'
    <2>1. PICK c \in LinkCalls : Asked(c)' /\ ask'[c].m = m /\ ask'[c].email = e
      BY <1>2 DEF AskedWith
    <2>2. CASE Asked(c)
      BY <2>1, <2>2, AskKept DEF Had, AskedWith
    <2>3. CASE ~Asked(c)
      BY <2>1, <2>3, AskSteps, LinkSteps, AskForSteps DEF Had, Asked
    <2> QED BY <2>2, <2>3
  <1> QED BY <1>1, <1>2 DEF Had

\* Every step keeps AddressInv.
LEMMA AddressStep ==
  ASSUME LinkTypeOK, AddressInv, [LinkNext]_linkVars
  PROVE  AddressInv'
  <1>1. ASSUME NEW m \in Members, NEW n \in Members, m # n PROVE email'[m] # email'[n]
    <2>1. ASSUME NEW k \in Members, NEW e \in Emails, ChangeEmail(k, e)
          PROVE  email'[m] # email'[n]
      BY <1>1, <2>1 DEF ChangeEmail, LinkTypeOK, AddressInv
    <2> QED BY <1>1, <2>1, EmailSteps DEF AddressInv
  <1>2. ASSUME NEW m \in Members, NEW e \in Emails, Had(m, e)', m \notin moved'
        PROVE  e = email'[m]
    <2>1. m \notin moved /\ email'[m] = email[m] /\ ~ChangeEmail(m, e)
      BY <1>2, EmailSteps DEF ChangeEmail, LinkTypeOK
    <2> QED BY <1>2, <2>1, HadSteps DEF AddressInv
  <1>3. ASSUME NEW m \in Members, NEW n \in Members, NEW e \in Emails, m # n,
               Had(m, e)', Had(n, e)'
        PROVE  m \in moved'
    <2>1. moved \subseteq moved'
      BY StoreSteps
    <2>2. CASE ChangeEmail(m, e)
      BY <2>2 DEF ChangeEmail
    <2>3. CASE Had(m, e) /\ ChangeEmail(n, e)
      BY <2>1, <2>3 DEF ChangeEmail, AddressInv
    <2>4. CASE Had(m, e) /\ Had(n, e)
      BY <1>3, <2>1, <2>4 DEF AddressInv
    <2> QED BY <1>3, <2>2, <2>3, <2>4, HadSteps
  <1> QED BY <1>1, <1>2, <1>3 DEF AddressInv

\* A request asked with the address it carries.
LEMMA RequestAskedWith ==
  ASSUME LinkTypeOK, NEW c \in LinkCalls, Asked(c)
  PROVE  /\ ask[c] \in LinkRequests /\ ask[c].m \in Members /\ ask[c].email \in Emails
         /\ AskedWith(ask[c].m, ask[c].email)
  BY RequestType DEF Asked, AskedWith, LinkRequests

\* When a recipient gets another member as its reference, both have moved.
LEMMA ReferenceMoves ==
  ASSUME LinkTypeOK, AddressInv, FoundInv, [LinkNext]_linkVars,
         NEW i \in Ids, recipient[i] # Absent, NEW m \in Members,
         Had(m, recipient[i].email), recipient'[i].ref # recipient[i].ref,
         recipient'[i].ref # m
  PROVE  m \in moved /\ recipient'[i].ref \in moved
  <1>1. PICK c \in LinkCalls : /\ ask[c].pc = "refer" /\ ask[c].id = i
                               /\ recipient'[i].ref = ask[c].m
    BY RecipientKept
  <1>2. Asked(c)
    BY <1>1, RequestType DEF Asked
  <1>3. recipient[i].email = ask[c].email
    BY <1>1 DEF FoundInv
  <1>4. ask[c].m \in Members /\ ask[c].email \in Emails /\ Had(ask[c].m, ask[c].email)
    BY <1>2, RequestAskedWith DEF Had
  <1> QED BY <1>1, <1>3, <1>4 DEF AddressInv

\* Every step keeps ReferenceInv.
LEMMA ReferenceStep ==
  ASSUME LinkTypeOK, AddressInv, ReferenceInv, FoundInv, [LinkNext]_linkVars
  PROVE  ReferenceInv'
  <1>1. ASSUME NEW c \in LinkCalls, Asked(c)
        PROVE  ask[c].m \in Members /\ \A m, e : ask[c].m = m /\ ask[c].email = e => AskedWith(m, e)'
    BY <1>1, RequestAskedWith, AskedWithKept
  <1>2. ASSUME NEW i \in Ids, recipient'[i] # Absent, NEW m, NEW e,
               recipient'[i].ref = m, recipient'[i].email = e
        PROVE  /\ recipient'[i].by = "request" => m \in Members
               /\ m \in Members => AskedWith(m, e)'
    <2>1. CASE recipient[i] = Absent
      <3>1. PICK c \in LinkCalls :
              /\ CreateRecipient(c)
              /\ recipient'[i] = [email |-> ask[c].email, ref |-> ask[c].m, by |-> "request"]
        <4>1. ASSUME NEW c \in LinkCalls, Refer(c), ask[c].id = i PROVE FALSE
          BY <2>1, <4>1 DEF Refer, FoundInv
        <4> QED BY <1>2, <2>1, <4>1, RecipientSteps
      <3>2. Asked(c)
        BY <3>1, LinkSteps DEF LinkStep
      <3> QED BY <1>1, <1>2, <3>1, <3>2
    <2>2. CASE recipient[i] # Absent /\ recipient'[i].ref = recipient[i].ref
      <3>1. /\ recipient[i].ref = m /\ recipient[i].email = e
            /\ recipient'[i].by = recipient[i].by
        BY <1>2, <2>2, RecipientKept
      <3>2. /\ recipient[i].by = "request" => m \in Members
            /\ m \in Members => AskedWith(m, e)
        BY <2>2, <3>1 DEF ReferenceInv
      <3> QED BY <3>1, <3>2, AskedWithKept
    <2>3. CASE recipient[i] # Absent /\ recipient'[i].ref # recipient[i].ref
      <3>1. PICK c \in LinkCalls : /\ ask[c].pc = "refer" /\ ask[c].id = i
                                   /\ recipient'[i].ref = ask[c].m
        BY <2>3, RecipientKept
      <3>2. Asked(c)
        BY <3>1, RequestType DEF Asked
      <3>3. recipient'[i].email = ask[c].email
        BY <2>3, <3>1, RecipientKept DEF FoundInv
      <3> QED BY <1>1, <1>2, <3>1, <3>2, <3>3
    <2> QED BY <2>1, <2>2, <2>3
  <1>3. ASSUME NEW i \in Ids, recipient'[i] # Absent
        PROVE  /\ recipient'[i].by = "request" => recipient'[i].ref \in Members
               /\ recipient'[i].ref \in Members =>
                    \E c \in LinkCalls : /\ Asked(c)' /\ ask'[c].m = recipient'[i].ref
                                         /\ ask'[c].email = recipient'[i].email
    BY <1>2, <1>3 DEF AskedWith
  <1> QED BY <1>3 DEF ReferenceInv, AskedWith

\* A recipient that refers to a member with its address, or whose member has moved, goes
\* on so.
LEMMA ReferredKept ==
  ASSUME LinkTypeOK, AddressInv, FoundInv, [LinkNext]_linkVars,
         NEW i \in Ids, recipient[i] # Absent, NEW m \in Members,
         Had(m, recipient[i].email), recipient[i].ref = m \/ m \in moved
  PROVE  recipient'[i].ref = m \/ m \in moved'
  <1>1. moved \subseteq moved'
    BY StoreSteps
  <1>2. CASE recipient'[i].ref = recipient[i].ref
    BY <1>1, <1>2
  <1>3. CASE recipient'[i].ref # recipient[i].ref
    BY <1>1, <1>3, ReferenceMoves
  <1> QED BY <1>2, <1>3

\* Every step keeps FoundInv.
LEMMA FoundStep ==
  ASSUME LinkTypeOK, AddressInv, ReferenceInv, FoundInv, [LinkNext]_linkVars
  PROVE  FoundInv'
  <1>0. moved \subseteq moved'
    BY StoreSteps
  <1>1. ASSUME NEW c \in LinkCalls, ask'[c].pc \in {"refer", "store"}
        PROVE  /\ ask'[c].id \in Ids /\ recipient'[ask'[c].id] # Absent
               /\ recipient'[ask'[c].id].email = ask'[c].email
               /\ ask'[c].pc = "store" =>
                    recipient'[ask'[c].id].ref = ask'[c].m \/ ask'[c].m \in moved'
    <2>1. CASE ask'[c] = ask[c]
      <3> DEFINE i == ask[c].id
      <3>1. /\ i \in Ids /\ recipient[i] # Absent /\ recipient[i].email = ask[c].email
            /\ ask[c].pc = "store" => recipient[i].ref = ask[c].m \/ ask[c].m \in moved
        BY <1>1, <2>1 DEF FoundInv
      <3>2. recipient'[i] # Absent /\ recipient'[i].email = ask[c].email
        BY <3>1, RecipientKept
      <3>3. Asked(c)
        BY <1>1, <2>1, RequestType DEF Asked
      <3>4. ask[c].m \in Members /\ Had(ask[c].m, recipient[i].email)
        BY <3>1, <3>3, RequestAskedWith DEF Had
      <3>5. ask[c].pc = "store" => recipient'[i].ref = ask[c].m \/ ask[c].m \in moved'
        BY <3>1, <3>4, ReferredKept
      <3> QED BY <2>1, <3>1, <3>2, <3>5
    <2>2. CASE LinkStep(c)
      <3> USE DEF LinkTypeOK
      <3>1. ask'[c].m = ask[c].m /\ ask'[c].email = ask[c].email /\ ask[c] \in LinkRequests
        BY <2>2, LinkSteps
      <3>2. CASE SearchRecipient(c)
        <4>1. /\ ask'[c].id \in WithEmail(ask[c].email)
              /\ ask'[c].pc = "store" => recipient[ask'[c].id].ref = ask[c].m
          BY <1>1, <2>2, <3>2, LinkSteps DEF SearchRecipient, CreateRecipient, Refer
        <4>2. UNCHANGED recipient
          BY <3>2 DEF SearchRecipient, trolleyVars
        <4> QED BY <3>1, <4>1, <4>2 DEF WithEmail
      <3>3. CASE Refer(c)
        <4>1. /\ ask[c].id \in Ids /\ recipient[ask[c].id] # Absent
              /\ recipient[ask[c].id].email = ask[c].email
          BY <3>3 DEF Refer, FoundInv
        <4>2. ask'[c].id = ask[c].id
          BY <1>1, <2>2, <3>3, LinkSteps DEF SearchRecipient, CreateRecipient, Refer
        <4>3. recipient[ask[c].id] \in Recipients
          BY <4>1
        <4>4. recipient'[ask[c].id].ref = ask[c].m
          BY <3>3, <4>1, <4>3 DEF Refer, Recipients
        <4> QED BY <3>1, <4>1, <4>2, <4>4, RecipientKept
      <3>4. CASE CreateRecipient(c)
        <4>1. PICK i \in Ids :
                /\ recipient' = [recipient EXCEPT ![i] = [email |-> ask[c].email, ref |-> ask[c].m,
                                                          by |-> "request"]]
                /\ ask' = [ask EXCEPT ![c].id = i, ![c].pc = "store"]
          BY <3>4 DEF CreateRecipient
        <4>2. ask'[c].id = i
          BY <3>1, <4>1 DEF LinkRequests
        <4>3. recipient'[i] = [email |-> ask[c].email, ref |-> ask[c].m, by |-> "request"]
          BY <4>1
        <4>4. recipient'[i] # Absent
          BY <4>3 DEF Absent
        <4> QED BY <3>1, <4>2, <4>3, <4>4
      <3> QED BY <1>1, <2>2, <3>2, <3>3, <3>4, LinkSteps
    <2> QED BY <1>1, <2>1, <2>2, AskSteps, AskForSteps
  <1>2. ASSUME NEW m \in Members, NEW i, link'[m] = i, i # NoId
        PROVE  /\ recipient'[i] # Absent
               /\ \A e : recipient'[i].email = e => AskedWith(m, e)'
               /\ recipient'[i].ref = m \/ m \in moved'
    <2>1. /\ i \in Ids /\ recipient[i] # Absent
          /\ AskedWith(m, recipient[i].email)
          /\ recipient[i].ref = m \/ m \in moved
      <3>1. CASE link[m] = i
        BY <1>2, <3>1 DEF FoundInv, LinkTypeOK
      <3>2. CASE link[m] # i
        <4>1. PICK c \in LinkCalls :
                /\ StoreLink(c) /\ link[ask[c].m] = NoId /\ UNCHANGED recipient
                /\ ask[c] \in LinkRequests /\ ask[c].id \in Ids
                /\ link' = [link EXCEPT ![ask[c].m] = ask[c].id]
          BY <1>2, <3>2, StoreSteps
        <4>2. ask[c].m = m /\ ask[c].id = i /\ ask[c].pc = "store"
          BY <1>2, <3>2, <4>1 DEF LinkTypeOK, StoreLink
        <4>3. Asked(c)
          BY <4>2, RequestType DEF Asked
        <4> QED BY <4>1, <4>2, <4>3, RequestAskedWith DEF FoundInv
      <3> QED BY <3>1, <3>2
    <2>2. recipient'[i] # Absent /\ recipient'[i].email = recipient[i].email
      BY <2>1, RecipientKept
    <2>3. \A e : recipient[i].email = e => AskedWith(m, e)'
      BY <2>1, AskedWithKept
    <2>4. Had(m, recipient[i].email)
      BY <2>1 DEF Had
    <2> QED BY <2>1, <2>2, <2>3, <2>4, ReferredKept
  <1>3. ASSUME NEW m \in Members, link'[m] # NoId
        PROVE  /\ recipient'[link'[m]] # Absent
               /\ \E c \in LinkCalls : /\ Asked(c)' /\ ask'[c].m = m
                                       /\ ask'[c].email = recipient'[link'[m]].email
               /\ recipient'[link'[m]].ref = m \/ m \in moved'
    BY <1>2, <1>3 DEF AskedWith
  <1> QED BY <1>1, <1>3 DEF FoundInv, AskedWith

\* Every step keeps StoredInv: the unique keys of the table, and answers after the store.
LEMMA StoredStep ==
  ASSUME LinkTypeOK, StoredInv, [LinkNext]_linkVars
  PROVE  StoredInv'
  <1>1. ASSUME NEW m \in Members, NEW n \in Members, link'[m] = link'[n], link'[m] # NoId
        PROVE  m = n
    <2>1. CASE UNCHANGED link
      BY <1>1, <2>1 DEF StoredInv
    <2>2. ASSUME NEW c \in LinkCalls, StoreLink(c), ask[c] \in LinkRequests,
                 link' = [link EXCEPT ![ask[c].m] = ask[c].id]
          PROVE  m = n
      BY <1>1, <2>2 DEF StoredInv, StoreLink, LinkTypeOK
    <2> QED BY <2>1, <2>2, StoreSteps
  <1>2. ASSUME NEW g \in given' PROVE link'[g[1]] = g[2]
    <2>1. CASE g \in given
      <3>1. g[1] \in Members /\ g[2] \in Ids /\ link[g[1]] = g[2]
        BY <2>1 DEF StoredInv, LinkTypeOK
      <3>2. link[g[1]] # NoId
        BY <3>1, RecipientsAssumption DEF RecipientsAssumption, NoId
      <3> QED BY <3>1, <3>2, StoreSteps
    <2>2. ASSUME NEW c \in LinkCalls, FindLink(c), g \notin given PROVE link'[g[1]] = g[2]
      BY <1>2, <2>2 DEF FindLink, GiveLink, dbVars
    <2>3. ASSUME NEW c \in LinkCalls, StoreLink(c), g \notin given PROVE link'[g[1]] = g[2]
      <3>1. ask[c] \in LinkRequests
        BY <2>3, LinkSteps DEF LinkStep
      <3> QED BY <1>2, <2>3, <3>1 DEF StoreLink, GiveLink, LinkTypeOK, LinkRequests
    <2> QED
      BY <1>2, <2>1, <2>2, <2>3
         DEF LinkNext, linkVars, LinkStep, AskForLink, SearchRecipient, Refer,
             CreateRecipient, LinkFails, AddAccount, HandleAccount, ChangeEmail, history
  <1> QED BY <1>1, <1>2 DEF StoredInv

\* Every step keeps OverlapInv.
LEMMA OverlapStep ==
  ASSUME LinkTypeOK, OverlapInv, [LinkNext]_linkVars
  PROVE  OverlapInv'
  <1> SUFFICES ASSUME NEW b \in LinkCalls, NEW c \in LinkCalls, UnderWay(b)', UnderWay(c)',
                      b # c, ask'[b].m = ask'[c].m
               PROVE  ask'[b].m \in overlapped'
    BY DEF OverlapInv
  <1>0. overlapped \subseteq overlapped'
    BY StoreSteps
  <1>1. ASSUME NEW d \in LinkCalls, UnderWay(d)'
        PROVE  \/ UnderWay(d) /\ ask'[d].m = ask[d].m
               \/ \E m \in Members : AskForLink(d, m)
    BY <1>1, AskSteps, LinkSteps DEF UnderWay
  <1>2. ASSUME NEW d \in LinkCalls, NEW f \in LinkCalls, d # f, NEW m \in Members,
               AskForLink(d, m), UnderWay(f)'
        PROVE  UnderWay(f) /\ ask'[f] = ask[f] /\ (ask[f].m = m => m \in overlapped')
               /\ ask'[d].m = m
    BY <1>2, AskForSteps DEF AskForLink, UnderWay, LinkTypeOK
  <1>3. CASE UnderWay(b) /\ ask'[b].m = ask[b].m /\ UnderWay(c) /\ ask'[c].m = ask[c].m
    BY <1>0, <1>3 DEF OverlapInv
  <1> QED BY <1>1, <1>2, <1>3

\* Who stays plain was plain and has not moved.
LEMMA PlainKept ==
  ASSUME LinkTypeOK, [LinkNext]_linkVars, NEW m \in Members, Plain(m)'
  PROVE  Plain(m) /\ email'[m] = email[m]
  BY StoreSteps, EmailSteps DEF Plain, ChangeEmail, LinkTypeOK

\* A plain member's address has been used by no other request.
LEMMA OnlyOwnRequests ==
  ASSUME LinkTypeOK, AddressInv, NEW m \in Members, Plain(m), NEW c \in LinkCalls, Asked(c)
  PROVE  ask[c].m = m <=> ask[c].email = email[m]
  <1>1. ask[c].m \in Members /\ ask[c].email \in Emails /\ Had(ask[c].m, ask[c].email)
    BY RequestAskedWith DEF Had
  <1>2. email[m] \in Emails /\ Had(m, email[m]) /\ m \notin moved
    BY DEF LinkTypeOK, Had, Plain
  <1> QED BY <1>1, <1>2 DEF AddressInv

\* Every step keeps SearchInv: the search and the create of a plain member's one request
\* are not torn apart by anybody else.
LEMMA SearchStep ==
  ASSUME LinkTypeOK, AddressInv, OverlapInv, SearchInv, [LinkNext]_linkVars
  PROVE  SearchInv'
  <1> SUFFICES ASSUME NEW m \in Members, Plain(m)'
               PROVE  /\ \A i, j \in WithEmail(email[m])' : i = j
                      /\ \A c \in LinkCalls : ask'[c].pc = "create" /\ ask'[c].m = m =>
                           WithEmail(email[m])' = {}
    BY DEF SearchInv
  <1>1. Plain(m) /\ email'[m] = email[m]
    BY PlainKept
  <1>2. ASSUME NEW i \in Ids, recipient'[i] # Absent, recipient'[i].email = email[m]
        PROVE  \/ i \in WithEmail(email[m])
               \/ \E c \in LinkCalls : /\ CreateRecipient(c) /\ recipient[i] = Absent
                                       /\ ask[c].m = m /\ ask[c].pc = "create"
    <2>1. CASE recipient[i] # Absent
      BY <1>2, <2>1, RecipientKept DEF WithEmail
    <2>2. ASSUME recipient[i] = Absent, NEW c \in LinkCalls, Refer(c), ask[c].id = i,
                 recipient'[i] = [recipient[i] EXCEPT !.ref = ask[c].m]
          PROVE  FALSE
      <3>1. [Absent EXCEPT !.ref = ask[c].m] = Absent
        BY DEF Absent
      <3> QED BY <1>2, <2>2, <3>1
    <2>3. ASSUME NEW c \in LinkCalls, CreateRecipient(c), recipient[i] = Absent,
                 recipient'[i] = [email |-> ask[c].email, ref |-> ask[c].m, by |-> "request"]
          PROVE  ask[c].m = m /\ ask[c].pc = "create"
      <3>1. Asked(c)
        BY <2>3, LinkSteps DEF LinkStep
      <3>2. ask[c].email = email[m] /\ ask[c].pc = "create"
        BY <1>2, <2>3 DEF CreateRecipient
      <3> QED BY <1>1, <3>1, <3>2, OnlyOwnRequests
    <2> QED BY <1>2, <2>1, <2>2, <2>3, RecipientSteps
  <1>3. ASSUME NEW c \in LinkCalls, CreateRecipient(c), ask[c].m = m
        PROVE  /\ WithEmail(email[m]) = {}
               /\ \A d \in LinkCalls : d # c /\ ask[d].m = m => ~UnderWay(d)
    BY <1>1, <1>3 DEF SearchInv, OverlapInv, CreateRecipient, UnderWay, Plain
  <1>4. ASSUME NEW i \in WithEmail(email[m])', NEW j \in WithEmail(email[m])' PROVE i = j
    <2>1. CASE i \in WithEmail(email[m]) /\ j \in WithEmail(email[m])
      BY <1>1, <2>1 DEF SearchInv
    <2>2. ASSUME NEW c \in LinkCalls, CreateRecipient(c), ask[c].m = m
          PROVE  i = j
      <3>1. PICK k \in Ids :
              recipient' = [recipient EXCEPT ![k] = [email |-> ask[c].email, ref |-> ask[c].m,
                                                     by |-> "request"]]
        BY <2>2 DEF CreateRecipient
      <3>2. \A l \in Ids \ {k} : recipient'[l] = recipient[l]
        BY <3>1 DEF LinkTypeOK
      <3> QED BY <1>1, <1>3, <1>4, <2>2, <3>2 DEF WithEmail
    <2> QED BY <1>1, <1>2, <1>4, <2>1, <2>2 DEF WithEmail
  <1>5. ASSUME NEW c \in LinkCalls, ask'[c].pc = "create", ask'[c].m = m
        PROVE  WithEmail(email[m])' = {}
    <2>1. CASE ask'[c] = ask[c]
      <3>1. WithEmail(email[m]) = {} /\ UnderWay(c)
        BY <1>1, <1>5, <2>1 DEF SearchInv, UnderWay
      <3>2. ASSUME NEW d \in LinkCalls, CreateRecipient(d), ask[d].m = m PROVE FALSE
        <4>1. d = c
          BY <1>3, <1>5, <2>1, <3>1, <3>2
        <4>2. ask[c] \in LinkRequests /\ ask'[c].pc = "store"
          <5>1. ask[c] \in LinkRequests
            BY <3>2, <4>1, LinkSteps DEF LinkStep
          <5> QED BY <3>2, <4>1, <5>1 DEF CreateRecipient, LinkTypeOK, LinkRequests
        <4> QED BY <1>5, <4>2
      <3> QED BY <1>1, <1>2, <3>1, <3>2 DEF WithEmail
    <2>2. CASE LinkStep(c)
      <3>1. /\ SearchRecipient(c) /\ WithEmail(ask[c].email) = {}
            /\ Asked(c) /\ ask[c].m = m
        BY <1>5, <2>2, LinkSteps
      <3>2. ask[c].email = email[m]
        BY <1>1, <3>1, OnlyOwnRequests
      <3> QED BY <1>1, <3>1, <3>2 DEF SearchRecipient, trolleyVars, WithEmail
    <2> QED BY <1>5, <2>1, <2>2, AskSteps, AskForSteps
  <1> QED BY <1>4, <1>5

\* What can happen to an account: the portal adds it, or its event is handled.
LEMMA AccountSteps ==
  ASSUME LinkTypeOK, [LinkNext]_linkVars
  PROVE  \/ UNCHANGED <<account, news, connected, early>>
         \/ \E i \in Ids : AddAccount(i) \/ HandleAccount(i)
  BY DEF LinkNext, linkVars, LinkStep, AskForLink, FindLink, SearchRecipient, Refer,
         CreateRecipient, StoreLink, LinkFails, ChangeEmail, trolleyVars, dbVars, history

\* A plain member has one recipient: the one that is stored, once a link was answered, is
\* the one that refers to the member.
LEMMA OneRecipient ==
  ASSUME LinkTypeOK, AddressInv, ReferenceInv, FoundInv, SearchInv,
         NEW m \in Members, Plain(m), NEW i \in Ids, recipient[i] # Absent,
         recipient[i].ref = m
  PROVE  /\ recipient[i].email = email[m]
         /\ link[m] # NoId => link[m] = i
  <1>1. recipient[i] \in Recipients /\ recipient[i].email \in Emails
    BY DEF LinkTypeOK, Recipients
  <1>2. Had(m, recipient[i].email) /\ m \notin moved
    BY DEF ReferenceInv, Had, Plain
  <1>3. recipient[i].email = email[m]
    BY <1>1, <1>2 DEF AddressInv
  <1>4. ASSUME link[m] # NoId PROVE link[m] = i
    <2>1. link[m] \in Ids /\ recipient[link[m]] # Absent /\ Had(m, recipient[link[m]].email)
      BY <1>4 DEF LinkTypeOK, FoundInv, Had
    <2>2. recipient[link[m]].email \in Emails
      BY <2>1 DEF LinkTypeOK, Recipients
    <2>3. recipient[link[m]].email = email[m]
      BY <1>2, <2>1, <2>2 DEF AddressInv
    <2> QED BY <1>3, <2>1, <2>3 DEF SearchInv, WithEmail
  <1> QED BY <1>3, <1>4

\* The recipient of a member who is not plain does not come to be a plain member's.
LEMMA NotPlainKept ==
  ASSUME LinkTypeOK, AddressInv, ReferenceInv, FoundInv, [LinkNext]_linkVars,
         NEW i \in Ids, recipient[i] # Absent, recipient[i].by = "request",
         ~Plain(recipient[i].ref)
  PROVE  recipient'[i].ref \in moved' \cup overlapped'
  <1>1. recipient[i].ref \in Members /\ Had(recipient[i].ref, recipient[i].email)
    BY DEF ReferenceInv, Had
  <1>2. CASE recipient'[i].ref = recipient[i].ref
    BY <1>2, StoreSteps DEF Plain
  <1>3. CASE recipient'[i].ref # recipient[i].ref
    BY <1>1, <1>3, ReferenceMoves, StoreSteps
  <1> QED BY <1>2, <1>3

\* Nor does the recipient of a plain member change its reference to another one.
LEMMA RequestedKept ==
  ASSUME LinkTypeOK, AddressInv, ReferenceInv, FoundInv, [LinkNext]_linkVars,
         NEW i \in Ids, recipient[i] # Absent, recipient[i].by = "request",
         recipient'[i].ref \notin moved' \cup overlapped'
  PROVE  recipient'[i].ref = recipient[i].ref
  <1>1. recipient[i].ref \in Members /\ Had(recipient[i].ref, recipient[i].email)
    BY DEF ReferenceInv, Had
  <1> QED BY <1>1, ReferenceMoves, StoreSteps

\* Every step keeps AccountInv.
LEMMA AccountStep ==
  ASSUME LinkTypeOK, LinkInv, [LinkNext]_linkVars
  PROVE  AccountInv'
  <1> USE DEF LinkInv
  <1>1. \A i \in account' : i \in Ids /\ recipient[i] # Absent /\ recipient'[i] # Absent
    <2>1. \A i \in account' : i \in Ids /\ recipient[i] # Absent
      BY AccountSteps DEF AccountInv, AddAccount, MayAddAccount, HandleAccount, LinkTypeOK
    <2> QED BY <2>1, RecipientKept
  <1>h. ASSUME NEW i \in Ids, HandleAccount(i)
        PROVE  /\ i \in account /\ account' = account /\ early' \subseteq early \cup {i}
               /\ i \in early' => i \in early \/ \A m \in Members : link[m] # i
    BY <1>h DEF HandleAccount, LinkTypeOK
  <1>2. early' \subseteq account'
    <2>1. CASE UNCHANGED <<account, news, connected, early>>
      BY <2>1 DEF AccountInv
    <2>2. ASSUME NEW i \in Ids, AddAccount(i) PROVE early' \subseteq account'
      BY <2>2 DEF AccountInv, AddAccount, history
    <2>3. ASSUME NEW i \in Ids, HandleAccount(i) PROVE early' \subseteq account'
      BY <1>h, <2>3 DEF AccountInv
    <2> QED BY <2>1, <2>2, <2>3, AccountSteps
  <1>3. ASSUME NEW i \in account' \ news'
        PROVE  i \in early' \/ \E m \in connected' : link'[m] = i
    <2>1. CASE i \in account \ news
      <3>1. i \in early \/ \E m \in connected : link[m] = i
        BY <2>1 DEF AccountInv
      <3>2. i # NoId /\ connected \subseteq Members
        BY <2>1, RecipientsAssumption DEF RecipientsAssumption, NoId, LinkTypeOK
      <3> QED BY <3>1, <3>2, StoreSteps
    <2>2. ASSUME HandleAccount(i) PROVE i \in early' \/ \E m \in connected' : link'[m] = i
      BY <2>2 DEF HandleAccount
    <2> QED BY <1>3, <2>1, <2>2, AccountSteps DEF AddAccount, HandleAccount
  <1>4. ASSUME NEW i \in account', recipient'[i].by = "request",
               \A m \in Members : link'[m] # i, recipient'[i].ref \notin moved' \cup overlapped'
        PROVE  FALSE
    <2>1. i \in Ids /\ recipient[i] # Absent /\ recipient[i].by = "request"
      BY <1>1, <1>4, RecipientKept
    <2>2. recipient[i].ref \in Members /\ Plain(recipient[i].ref)
      BY <1>4, <2>1, NotPlainKept DEF ReferenceInv
    <2>3. \A m \in Members : link[m] # i
      BY <1>4, <2>1, StoreSteps, RecipientsAssumption DEF RecipientsAssumption, NoId
    <2>4. CASE i \in account
      BY <2>1, <2>2, <2>3, <2>4 DEF AccountInv
    <2>5. CASE AddAccount(i)
      <3>1. PICK g \in given : recipient[i].ref = g[1] /\ recipient[i].email = email[g[1]]
        BY <2>1, <2>5 DEF AddAccount, MayAddAccount
      <3>2. g[1] \in Members /\ g[2] \in Ids /\ link[g[1]] = g[2]
        BY <3>1 DEF StoredInv, LinkTypeOK
      <3>3. link[g[1]] # NoId
        BY <3>2, RecipientsAssumption DEF RecipientsAssumption, NoId
      <3> QED BY <2>1, <2>2, <2>3, <3>1, <3>2, <3>3, OneRecipient
    <2> QED BY <1>4, <2>4, <2>5, AccountSteps DEF AddAccount, HandleAccount
  <1>5. ASSUME NEW i \in early', recipient'[i].by = "request",
               recipient'[i].ref \notin moved' \cup overlapped'
        PROVE  FALSE
    <2>1. i \in Ids /\ recipient[i] # Absent /\ recipient[i].by = "request"
      BY <1>1, <1>2, <1>5, RecipientKept
    <2>2. recipient[i].ref \in Members /\ Plain(recipient[i].ref)
      BY <1>5, <2>1, NotPlainKept DEF ReferenceInv
    <2>3. CASE i \in early
      BY <2>1, <2>2, <2>3 DEF AccountInv
    <2>4. CASE HandleAccount(i) /\ i \notin early
      BY <1>5, <1>h, <2>1, <2>2, <2>4 DEF AccountInv
    <2>5. CASE UNCHANGED early
      BY <1>5, <2>3, <2>5
    <2> QED BY <1>5, <1>h, <2>3, <2>4, <2>5, AccountSteps DEF AddAccount, history
  <1> QED BY <1>1, <1>2, <1>3, <1>4, <1>5 DEF AccountInv, Plain

\* LinkInv is inductive.
LEMMA LinkInvHolds == LinkSpec => []LinkInv
  <1>1. LinkInit => LinkInv
    <2> SUFFICES ASSUME LinkInit PROVE LinkInv
      OBVIOUS
    <2>0. LinkTypeOK
      BY LinkInitType
    <2>1. PICK old \in {{}} \cup {{i} : i \in Ids}, e \in Emails :
            recipient = [i \in Ids |-> IF i \in old
                                         THEN [email |-> e, ref |-> NoOne, by |-> "earlier"]
                                         ELSE Absent]
      BY DEF LinkInit
    <2>2. \A i, j \in Ids : recipient[i] # Absent /\ recipient[j] # Absent => i = j
      BY <2>1
    <2>3. \A i \in Ids : recipient[i] # Absent =>
            recipient[i] = [email |-> e, ref |-> NoOne, by |-> "earlier"]
      BY <2>1
    <2>4. \A c \in LinkCalls : ~Asked(c) /\ ask[c].pc = "idle"
      BY DEF LinkInit, Asked, Unasked
    <2>5. \A m \in Members : \A f : ~AskedWith(m, f)
      BY <2>4 DEF AskedWith
    <2>6. AddressInv
      BY <2>5 DEF LinkInit, AddressInv, Had
    <2>7. ReferenceInv
      <3>1. \A i \in Ids : recipient[i] # Absent =>
              recipient[i].by = "earlier" /\ recipient[i].ref = "nobody"
        BY <2>3 DEF NoOne
      <3> QED BY <3>1, RecipientsAssumption DEF RecipientsAssumption, ReferenceInv
    <2>8. FoundInv
      BY <2>4 DEF LinkInit, FoundInv
    <2>9. SearchInv
      BY <2>2, <2>4 DEF SearchInv, WithEmail
    <2> QED
      BY <2>4, <2>6, <2>7, <2>8, <2>9
         DEF LinkInit, LinkInv, StoredInv, OverlapInv, AccountInv, UnderWay
  <1>2. LinkTypeOK /\ LinkInv /\ [LinkNext]_linkVars => LinkInv'
    BY AddressStep, ReferenceStep, FoundStep, StoredStep, OverlapStep, SearchStep, AccountStep
       DEF LinkInv
  <1> QED BY <1>1, <1>2, LinkTypeCorrect, PTL DEF LinkSpec

-----------------------------------------------------------------------------
\* However requests overlap, fail or crash between Trolley and the database: whoever was
\* answered a link has that recipient for good, and it refers to them unless they moved.
THEOREM GivenLinkIsFinalHolds == LinkSpec => []GivenLinkIsFinal
  <1>1. LinkTypeOK /\ LinkInv => GivenLinkIsFinal
    <2> SUFFICES ASSUME LinkTypeOK, LinkInv, NEW g \in given
                 PROVE  /\ link[g[1]] = g[2]
                        /\ recipient[g[2]].ref # g[1] => g[1] \in moved
      BY DEF GivenLinkIsFinal
    <2>1. g[1] \in Members /\ g[2] \in Ids /\ link[g[1]] = g[2]
      BY DEF LinkInv, StoredInv, LinkTypeOK
    <2>2. link[g[1]] # NoId
      BY <2>1, RecipientsAssumption DEF RecipientsAssumption, NoId
    <2> QED BY <2>1, <2>2 DEF LinkInv, FoundInv
  <1> QED BY <1>1, LinkTypeCorrect, LinkInvHolds, PTL

\* A request that breaks off after the create leaves a recipient that the next one finds:
\* it takes two requests at once, or a new address, to make two recipients of a member.
THEOREM OneRecipientUnlessOverlapHolds == LinkSpec => []OneRecipientUnlessOverlap
  <1>1. LinkTypeOK /\ LinkInv => OneRecipientUnlessOverlap
    <2> SUFFICES ASSUME LinkTypeOK, LinkInv, NEW m \in Members, Plain(m)
                 PROVE  ~(Cardinality(Made(m)) > 1)
      BY DEF OneRecipientUnlessOverlap, Plain
    <2>1. \A i \in Made(m) : i \in WithEmail(email[m])
      BY OneRecipient DEF Made, WithEmail, LinkInv
    <2>2. \A i, j \in Made(m) : i = j
      BY <2>1 DEF LinkInv, SearchInv
    <2>3. CASE Made(m) = {}
      BY <2>3, FS_EmptySet
    <2>4. CASE \E i : Made(m) = {i}
      BY <2>4, FS_Singleton
    <2> QED BY <2>2, <2>3, <2>4
  <1> QED BY <1>1, LinkTypeCorrect, LinkInvHolds, PTL

\* An account behind a link that was answered reaches the member's payment method, whichever
\* of the link, the account and its event came first.
THEOREM AccountsReachTheMemberHolds == LinkSpec => []AccountsReachTheMember
  <1>1. LinkTypeOK /\ LinkInv => AccountsReachTheMember
    <2> SUFFICES ASSUME LinkTypeOK, LinkInv, NEW m \in Members, NEW i \in account \ news,
                        recipient[i].ref = m, m \notin connected,
                        NEW g \in given, g[1] = m, Plain(m)
                 PROVE  i \in early /\ recipient[i].by = "earlier"
      BY DEF AccountsReachTheMember, Plain
    <2>1. i \in Ids /\ recipient[i] # Absent /\ recipient[i] \in Recipients
      BY DEF LinkTypeOK, LinkInv, AccountInv
    <2>2. g[2] \in Ids /\ link[m] = g[2]
      BY DEF LinkInv, StoredInv, LinkTypeOK
    <2>3. link[m] # NoId
      BY <2>2, RecipientsAssumption DEF RecipientsAssumption, NoId
    <2>4. link[m] = i
      BY <2>1, <2>3, OneRecipient DEF LinkInv
    <2>5. \A n \in connected : link[n] # i
      BY <2>3, <2>4 DEF LinkInv, StoredInv, LinkTypeOK
    <2>6. i \in early
      BY <2>5 DEF LinkInv, AccountInv
    <2>7. recipient[i].by # "request"
      BY <2>6 DEF LinkInv, AccountInv
    <2> QED BY <2>1, <2>6, <2>7 DEF Recipients
  <1> QED BY <1>1, LinkTypeCorrect, LinkInvHolds, PTL
=============================================================================
