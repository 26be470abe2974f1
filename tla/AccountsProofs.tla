-------------------------- MODULE AccountsProofs ---------------------------
(***************************************************************************)
(* Proofs about Accounts, for any number of accounts, credentials,         *)
(* invitations, resets, tickets, entries of the directory and requests.    *)
(***************************************************************************)
EXTENDS Accounts, TLAPS

-----------------------------------------------------------------------------
(* What the values of the model are besides their types: the user a        *)
(* request, a credential, a link, a ticket or a transfer names is an       *)
(* account, and an id that was never given has nothing.                    *)

Sound(r) ==
    /\ r.pc \in {"admitted", "opening", "inviting", "changing"} => r.user \in Users
    /\ r.pc = "inviting" => r.role \in Assignable
    /\ r.pc = "creating" => r.user \in Subjects

Named ==
    /\ \A q \in Requests : Sound(request[q])
    /\ \A c \in Sessions \cup Tokens : cred[c].live => cred[c].user \in Users
    /\ \A n \in Links : link[n].state \in {"waiting", "approved"} => link[n].user \in Users
    /\ \A k \in Tickets : ticket[k].state = "open" => ticket[k].user \in Users /\ ticket[k].subject \in Subjects
    /\ transfer.state = "pending" => transfer.from \in Users /\ transfer.to \in Users
    /\ \A u \in Users : account[u].role = "none" => account[u] = Absent

Base == TypeOK /\ Named

LEMMA AbsentType == Absent \in Account /\ Absent.role = "none" /\ ~Absent.blocked /\ Absent.subject = NoOne /\ Absent.era = 0
BY DEF Absent, NewAccount, Account

LEMMA AccountOf ==
    ASSUME Base, NEW u \in Users
    PROVE  account[u] \in Account
BY DEF Base, TypeOK

-----------------------------------------------------------------------------
(* Requests. *)

RequestsOK == request \in [Requests -> Request] /\ \A q \in Requests : Sound(request[q])

LEMMA AnswerOK ==
    ASSUME Base, NEW q \in Requests, Answer(q)
    PROVE  RequestsOK'
<1>1. Idle \in Request /\ Sound(Idle)
    BY DEF Idle, Request, Sound
<1> QED BY <1>1 DEF Base, TypeOK, Named, RequestsOK, Answer

LEMMA AwaitOK ==
    ASSUME Base, NEW q \in Requests, NEW pc \in {"admitted", "opening", "inviting", "changing", "creating"},
           NEW u \in Users \cup Subjects, NEW role \in Roles \cup {"none"}, NEW s \in Sessions \cup {NoOne}, NEW era \in Nat,
           pc # "creating" => u \in Users, pc = "inviting" => role \in Assignable, pc = "creating" => u \in Subjects,
           Await(q, pc, u, role, s, era)
    PROVE  RequestsOK'
<1> DEFINE new == [pc |-> pc, user |-> u, role |-> role, session |-> s, era |-> era]
<1>1. new \in Request
    BY DEF Request
<1>2. Sound(new)
    BY DEF Sound
<1>3. request' = [request EXCEPT ![q] = new]
    BY DEF Await
<1> HIDE DEF new
<1> QED BY <1>1, <1>2, <1>3 DEF Base, TypeOK, Named, RequestsOK

\* What a request that is not idle knows.
LEMMA RequestIs ==
    ASSUME Base, NEW q \in Requests
    PROVE  /\ request[q].role \in Roles \cup {"none"} /\ request[q].session \in Sessions \cup {NoOne} /\ request[q].era \in Nat
           /\ request[q].pc \in {"admitted", "opening", "inviting", "changing"} => request[q].user \in Users
           /\ request[q].pc = "inviting" => request[q].role \in Assignable
           /\ request[q].pc = "creating" => request[q].user \in Subjects
BY DEF Base, TypeOK, Named, Request, Sound

LEMMA ComingIn ==
    ASSUME Base, NEW q \in Requests, NEW u \in Users,
           LoginLocal(q, u) \/ LoginLinked(q, u) \/ SetupMasterAdmin(q, u) \/ \E i \in Invitations : RedeemInvitation(q, i, u)
    PROVE  RequestsOK'
<1>1. account[u].key \in Nat /\ account[u].era \in Nat
    BY AccountOf DEF Account
<1> QED BY <1>1, AwaitOK DEF LoginLocal, LoginLinked, SetupMasterAdmin, RedeemInvitation

LEMMA RequestsStep ==
    ASSUME Base, [Next]_vars
    PROVE  RequestsOK'
<1>0. ASSUME UNCHANGED request
      PROVE  RequestsOK'
    BY <1>0 DEF Base, TypeOK, Named, RequestsOK
<1>1. ASSUME NEW q \in Requests, NEW u \in Users,
             \/ EndSessionsFor(q, u) \/ Block(q, u) \/ Unblock(q, u) \/ Delete(q, u)
             \/ \E role \in Assignable : UpdateRole(q, u, role) \/ StartTransfer(q, u, role)
      PROVE  RequestsOK'
    BY <1>1, AnswerOK DEF EndSessionsFor, Block, Unblock, Delete, UpdateRole, StartTransfer
<1>2. ASSUME NEW q \in Requests,
             \/ \E t \in Tokens : CreateAppToken(q, t) \/ RevokeAppToken(q, t)
             \/ \E i \in Invitations : RevokeInvitation(q, i)
             \/ \E n \in Links : DecideReset(q, n)
             \/ OpenSession(q) \/ EndOwnSessions(q) \/ ChangePassword(q) \/ CreateInvitation(q)
             \/ DecideTransfer(q) \/ AcceptTransfer(q)
      PROVE  RequestsOK'
    BY <1>2, AnswerOK DEF CreateAppToken, RevokeAppToken, RevokeInvitation, DecideReset, OpenSession, EndOwnSessions,
                          ChangePassword, CreateInvitation, DecideTransfer, AcceptTransfer
<1>3. ASSUME NEW q \in Requests, NEW s \in Sessions, Admit(q, s)
      PROVE  RequestsOK'
    <2>1. cred[s].user \in Users /\ cred[s].era \in Nat
        BY <1>3 DEF Admit, Base, TypeOK, Named, Credential
    <2>2. account[cred[s].user].role \in Roles
        BY <1>3 DEF Admit, Active, Present
    <2> QED BY <1>3, <2>1, <2>2, AwaitOK DEF Admit
<1>4. ASSUME NEW q \in Requests, NEW d \in Subjects, LoginUnknown(q, d)
      PROVE  RequestsOK'
    BY <1>4, AwaitOK DEF LoginUnknown
<1>5. ASSUME NEW q \in Requests, NEW k \in Tickets, LinkWithTicket(q, k)
      PROVE  RequestsOK'
    <2>1. ticket[k].user \in Users
        BY <1>5 DEF LinkWithTicket, Base, Named
    <2>2. account[ticket[k].user].key \in Nat
        BY <2>1, AccountOf DEF Account
    <2> QED BY <1>5, <2>1, <2>2, AwaitOK DEF LinkWithTicket
<1>6. ASSUME NEW q \in Requests, NEW role \in Assignable, MayInvite(q, role)
      PROVE  RequestsOK'
    <2>1. request[q].user \in Users
        BY <1>6, RequestIs DEF MayInvite, Asks, Admitted
    <2>2. role \in Roles
        BY DEF Roles, Assignable
    <2> QED BY <1>6, <2>1, <2>2, RequestIs, AwaitOK DEF MayInvite
<1>7. ASSUME NEW q \in Requests, FirstLogin(q)
      PROVE  RequestsOK'
    <2> DEFINE d == request[q].user
    <2>1. CASE \E u \in Users : Await(q, "opening", u, "none", NoOne, account[u].era)
        BY <2>1, AccountOf, AwaitOK DEF Account
    <2>2. CASE \E u \in Users : Await(q, "opening", u, "none", NoOne, 0)
        BY <2>2, AwaitOK
    <2>3. CASE Answer(q)
        BY <2>3, AnswerOK
    <2> QED BY <1>7, <2>1, <2>2, <2>3 DEF FirstLogin
<1>8. ASSUME NEW q \in Requests, ProvePassword(q)
      PROVE  RequestsOK'
    <2>1. request[q].user \in Users
        BY <1>8, RequestIs DEF ProvePassword, Admitted
    <2>2. account[request[q].user].key \in Nat
        BY <2>1, AccountOf DEF Account
    <2> QED BY <1>8, <2>1, <2>2, RequestIs, AwaitOK DEF ProvePassword
<1>9. ASSUME NEW u \in Users,
             \/ Register(u) \/ Sweep(u)
             \/ \E n \in Links : AskReset(n, u)
             \/ \E former \in Assignable : RecoverTransfer(u, former)
             \/ \E d \in Subjects, k \in Tickets : OfferTicket(u, d, k)
      PROVE  UNCHANGED request
    BY <1>9 DEF Register, Sweep, AskReset, RecoverTransfer, OfferTicket
<1>10. CASE \/ \E n \in Links : LinkExpires(n) \/ RedeemReset(n) \/ RecoverAccess(n)
            \/ \E k \in Tickets : BurnTicket(k)
            \/ \E s \in Sessions : SessionExpires(s)
            \/ \E i \in Invitations : InvitationExpires(i)
            \/ \E d \in Subjects, answer \in {"ok", "away"} : DirectoryChanges(d, answer)
            \/ TransferExpires
            \/ UNCHANGED vars
    BY <1>0, <1>10 DEF LinkExpires, RedeemReset, RecoverAccess, BurnTicket, SessionExpires, InvitationExpires,
                       DirectoryChanges, TransferExpires, vars
<1> QED BY <1>0, <1>1, <1>2, <1>3, <1>4, <1>5, <1>6, <1>7, <1>8, <1>9, <1>10, ComingIn DEF Next
-----------------------------------------------------------------------------
(* Sessions and app tokens: one that lives was there, or opens in the era  *)
(* its account is in.                                                      *)

CredStep ==
    /\ cred' \in [Sessions \cup Tokens -> Credential]
    /\ \A c \in Sessions \cup Tokens : cred'[c].live =>
         /\ cred'[c].user \in Users
         /\ cred'[c] = cred[c] \/ (UNCHANGED account /\ cred'[c].born = account[cred'[c].user].era)

LEMMA CredRests ==
    ASSUME Base, UNCHANGED cred
    PROVE  CredStep
BY DEF CredStep, Base, TypeOK, Named

LEMMA EndedIs ==
    ASSUME Base, NEW cs, cred' = Ended(cs)
    PROVE  CredStep /\ \A c \in Sessions \cup Tokens : cred'[c].live => c \notin cs /\ cred'[c] = cred[c]
<1>1. NoCredential \in Credential /\ ~NoCredential.live
    BY DEF NoCredential, Credential
<1>2. cred' \in [Sessions \cup Tokens -> Credential]
    BY <1>1 DEF Ended, Base, TypeOK
<1>3. \A c \in Sessions \cup Tokens : cred'[c].live => c \notin cs /\ cred'[c] = cred[c]
    BY <1>1 DEF Ended, Base, TypeOK
<1> QED BY <1>2, <1>3 DEF CredStep, Base, Named

LEMMA RevokedIs ==
    ASSUME Base, NEW u \in Users, cred' = RevokeAllForUser(u)
    PROVE  CredStep /\ \A c \in Sessions \cup Tokens : cred'[c].live => cred'[c].user # u
<1>1. CredStep /\ \A c \in Sessions \cup Tokens : cred'[c].live => c \notin CredentialsOf(u) /\ cred'[c] = cred[c]
    BY EndedIs DEF RevokeAllForUser
<1> QED BY <1>1 DEF CredentialsOf, Base, TypeOK

LEMMA OpenedIs ==
    ASSUME Base, NEW c \in Sessions \cup Tokens, NEW u \in Users, NEW era \in Nat,
           cred' = [cred EXCEPT ![c] = Opened(u, era)], UNCHANGED account
    PROVE  CredStep
<1> DEFINE new == Opened(u, era)
<1>1. new \in Credential /\ new.user = u /\ new.born = account[u].era
    BY AccountOf DEF Opened, Credential, Account
<1>2. cred' = [cred EXCEPT ![c] = new]
    OBVIOUS
<1> HIDE DEF new
<1>3. cred' \in [Sessions \cup Tokens -> Credential]
    BY <1>1, <1>2 DEF Base, TypeOK
<1>4. cred'[c] = new /\ \A e \in (Sessions \cup Tokens) \ {c} : cred'[e] = cred[e]
    BY <1>2 DEF Base, TypeOK
<1> QED BY <1>1, <1>3, <1>4 DEF CredStep, Base, Named

LEMMA CredsStep ==
    ASSUME Base, [Next]_vars
    PROVE  CredStep
<1>1. ASSUME NEW q \in Requests, NEW u \in Users,
             \/ LoginLocal(q, u) \/ LoginLinked(q, u) \/ SetupMasterAdmin(q, u) \/ Unblock(q, u)
             \/ \E role \in Assignable : UpdateRole(q, u, role) \/ StartTransfer(q, u, role)
             \/ \E i \in Invitations : RedeemInvitation(q, i, u)
      PROVE  UNCHANGED cred
    BY <1>1 DEF LoginLocal, LoginLinked, SetupMasterAdmin, Unblock, UpdateRole, StartTransfer, RedeemInvitation
<1>2. ASSUME NEW q \in Requests, NEW u \in Users, EndSessionsFor(q, u) \/ Block(q, u) \/ Delete(q, u)
      PROVE  CredStep
    BY <1>2, EndedIs, RevokedIs DEF EndSessionsFor, Block, Delete
<1>3. ASSUME NEW q \in Requests,
             \/ \E s \in Sessions : Admit(q, s)
             \/ \E d \in Subjects : LoginUnknown(q, d)
             \/ \E k \in Tickets : LinkWithTicket(q, k)
             \/ \E role \in Assignable : MayInvite(q, role)
             \/ \E i \in Invitations : RevokeInvitation(q, i)
             \/ \E n \in Links : DecideReset(q, n)
             \/ FirstLogin(q) \/ ProvePassword(q) \/ CreateInvitation(q) \/ DecideTransfer(q) \/ AcceptTransfer(q)
      PROVE  UNCHANGED cred
    BY <1>3 DEF Admit, LoginUnknown, LinkWithTicket, MayInvite, RevokeInvitation, DecideReset, FirstLogin,
                ProvePassword, CreateInvitation, DecideTransfer, AcceptTransfer
<1>4. ASSUME NEW q \in Requests, OpenSession(q) \/ \E t \in Tokens : CreateAppToken(q, t)
      PROVE  CredStep
    <2>1. request[q].user \in Users /\ request[q].era \in Nat
        BY <1>4, RequestIs DEF OpenSession, CreateAppToken, Admitted
    <2>2. UNCHANGED account
        BY <1>4 DEF OpenSession, CreateAppToken
    <2>3. \/ UNCHANGED cred
          \/ \E c \in Sessions \cup Tokens : cred' = [cred EXCEPT ![c] = Opened(request[q].user, request[q].era)]
        BY <1>4 DEF OpenSession, CreateAppToken
    <2>4. CASE UNCHANGED cred
        BY <2>4, CredRests
    <2>5. CASE \E c \in Sessions \cup Tokens : cred' = [cred EXCEPT ![c] = Opened(request[q].user, request[q].era)]
        BY <2>1, <2>2, <2>5, OpenedIs
    <2> QED BY <2>3, <2>4, <2>5
<1>5. ASSUME NEW q \in Requests, EndOwnSessions(q) \/ ChangePassword(q) \/ \E t \in Tokens : RevokeAppToken(q, t)
      PROVE  CredStep
    BY <1>5, EndedIs, CredRests DEF EndOwnSessions, ChangePassword, RevokeAppToken
<1>6. ASSUME NEW u \in Users,
             \/ Register(u) \/ \E n \in Links : AskReset(n, u)
             \/ \E d \in Subjects, k \in Tickets : OfferTicket(u, d, k)
      PROVE  UNCHANGED cred
    BY <1>6 DEF Register, AskReset, OfferTicket
<1>7. ASSUME NEW u \in Users, Sweep(u) \/ \E former \in Assignable : RecoverTransfer(u, former)
      PROVE  CredStep
    BY <1>7, RevokedIs DEF Sweep, RecoverTransfer, Owners
<1>8. ASSUME NEW n \in Links, RedeemReset(n) \/ RecoverAccess(n)
      PROVE  CredStep
    BY <1>8, RevokedIs DEF RedeemReset, RecoverAccess, Base, Named, Owners
<1>9. CASE \/ \E n \in Links : LinkExpires(n)
           \/ \E k \in Tickets : BurnTicket(k)
           \/ \E i \in Invitations : InvitationExpires(i)
           \/ \E d \in Subjects, answer \in {"ok", "away"} : DirectoryChanges(d, answer)
           \/ TransferExpires
           \/ UNCHANGED vars
    BY <1>9, CredRests DEF LinkExpires, BurnTicket, InvitationExpires, DirectoryChanges, TransferExpires, vars
<1>10. CASE \E s \in Sessions : SessionExpires(s)
    BY <1>10, EndedIs DEF SessionExpires
<1> QED BY <1>1, <1>2, <1>3, <1>4, <1>5, <1>6, <1>7, <1>8, <1>9, <1>10, CredRests DEF Next

-----------------------------------------------------------------------------
(* The links of password resets. *)

Usable == {"waiting", "approved"}

LinkStep ==
    /\ link' \in [Links -> Link]
    /\ \A n \in Links :
         /\ link'[n].state \in Usable => link'[n].user \in Users
         /\ link'[n].state = "approved" =>
              \/ link[n].state = "approved" /\ link'[n].user = link[n].user /\ link'[n].era = link[n].era
              \/ UNCHANGED account /\ link'[n].era = account[link'[n].user].era
         /\ link[n].state \in {"used", "rejected", "expired"} => link'[n].state = link[n].state

LEMMA LinkRests ==
    ASSUME Base, UNCHANGED link
    PROVE  LinkStep
BY DEF LinkStep, Base, TypeOK, Named, Usable

\* One row of the links changes: what it may become.
LEMMA LinkBecomes ==
    ASSUME Base, NEW n \in Links, NEW new \in Link, link' = [link EXCEPT ![n] = new],
           link[n].state \notin {"used", "rejected", "expired"},
           new.state \in Usable => new.user \in Users,
           new.state = "approved" => UNCHANGED account /\ new.era = account[new.user].era
    PROVE  LinkStep
BY DEF LinkStep, Base, TypeOK, Named, Usable

LEMMA LinksStep ==
    ASSUME Base, [Next]_vars
    PROVE  LinkStep
<1>1. ASSUME NEW q \in Requests, NEW u \in Users,
             \/ LoginLocal(q, u) \/ LoginLinked(q, u) \/ SetupMasterAdmin(q, u)
             \/ EndSessionsFor(q, u) \/ Block(q, u) \/ Unblock(q, u)
             \/ \E role \in Assignable : UpdateRole(q, u, role) \/ StartTransfer(q, u, role)
             \/ \E i \in Invitations : RedeemInvitation(q, i, u)
      PROVE  UNCHANGED link
    BY <1>1 DEF LoginLocal, LoginLinked, SetupMasterAdmin, EndSessionsFor, Block, Unblock, UpdateRole, StartTransfer,
                RedeemInvitation
<1>2. ASSUME NEW q \in Requests, NEW u \in Users, Delete(q, u)
      PROVE  LinkStep
    <2>1. link' = [n \in Links |-> IF link[n].user = u /\ link[n].state \in {"waiting", "approved"}
                                   THEN [link[n] EXCEPT !.state = "expired"] ELSE link[n]]
        BY <1>2 DEF Delete
    <2>2. ASSUME NEW n \in Links
          PROVE  /\ [link[n] EXCEPT !.state = "expired"] \in Link
                 /\ [link[n] EXCEPT !.state = "expired"].state = "expired"
        BY DEF Base, TypeOK, Link
    <2> QED BY <2>1, <2>2 DEF LinkStep, Base, TypeOK, Named, Usable
<1>3. ASSUME NEW q \in Requests,
             \/ \E s \in Sessions : Admit(q, s)
             \/ \E d \in Subjects : LoginUnknown(q, d)
             \/ \E k \in Tickets : LinkWithTicket(q, k)
             \/ \E t \in Tokens : CreateAppToken(q, t) \/ RevokeAppToken(q, t)
             \/ \E role \in Assignable : MayInvite(q, role)
             \/ \E i \in Invitations : RevokeInvitation(q, i)
             \/ FirstLogin(q) \/ OpenSession(q) \/ EndOwnSessions(q)
             \/ ProvePassword(q) \/ ChangePassword(q) \/ CreateInvitation(q)
             \/ DecideTransfer(q) \/ AcceptTransfer(q)
      PROVE  UNCHANGED link
    BY <1>3 DEF Admit, LoginUnknown, LinkWithTicket, CreateAppToken, RevokeAppToken, MayInvite, RevokeInvitation,
                FirstLogin, OpenSession, EndOwnSessions, ProvePassword, ChangePassword, CreateInvitation,
                DecideTransfer, AcceptTransfer
<1>4. ASSUME NEW q \in Requests, NEW n \in Links, DecideReset(q, n)
      PROVE  LinkStep
    <2>1. link[n].state = "waiting" /\ link[n].user \in Users /\ link[n] \in Link
        BY <1>4 DEF DecideReset, MayDecide, Base, TypeOK, Named
    <2>2. account[link[n].user].era \in Nat /\ UNCHANGED account
        BY <1>4, <2>1, AccountOf DEF DecideReset, Account
    <2>3. CASE link' = [link EXCEPT ![n].state = "approved", ![n].era = account[link[n].user].era]
        <3> DEFINE new == [link[n] EXCEPT !.state = "approved", !.era = account[link[n].user].era]
        <3>1. link' = [link EXCEPT ![n] = new]
            BY <2>3 DEF Base, TypeOK
        <3>2. new \in Link /\ new.state = "approved" /\ new.user = link[n].user /\ new.era = account[link[n].user].era
            BY <2>1, <2>2 DEF Link
        <3> HIDE DEF new
        <3> QED BY <2>1, <2>2, <3>1, <3>2, LinkBecomes
    <2>4. CASE link' = [link EXCEPT ![n].state = "rejected"]
        <3> DEFINE new == [link[n] EXCEPT !.state = "rejected"]
        <3>1. new \in Link /\ new.state = "rejected" /\ link' = [link EXCEPT ![n] = new]
            BY <2>1, <2>4 DEF Link
        <3> HIDE DEF new
        <3> QED BY <2>1, <3>1, LinkBecomes DEF Usable
    <2> QED BY <1>4, <2>3, <2>4 DEF DecideReset
<1>5. ASSUME NEW u \in Users,
             \/ Register(u) \/ Sweep(u)
             \/ \E former \in Assignable : RecoverTransfer(u, former)
             \/ \E d \in Subjects, k \in Tickets : OfferTicket(u, d, k)
      PROVE  UNCHANGED link
    BY <1>5 DEF Register, Sweep, RecoverTransfer, OfferTicket
<1>6. ASSUME NEW u \in Users, NEW n \in Links, AskReset(n, u)
      PROVE  LinkStep
    <2> DEFINE new == [state |-> "waiting", user |-> u, command |-> FALSE, era |-> account[u].era]
    <2>1. new \in Link /\ new.state = "waiting" /\ new.user = u
        BY AccountOf DEF Link, Account
    <2>2. link' = [link EXCEPT ![n] = new] /\ link[n].state = "unused"
        BY <1>6 DEF AskReset
    <2> HIDE DEF new
    <2> QED BY <2>1, <2>2, LinkBecomes
<1>7. ASSUME NEW n \in Links, LinkExpires(n)
      PROVE  LinkStep
    <2> DEFINE new == [link[n] EXCEPT !.state = "expired"]
    <2>1. new \in Link /\ new.state = "expired" /\ link' = [link EXCEPT ![n] = new]
        BY <1>7 DEF LinkExpires, Base, TypeOK, Link
    <2> HIDE DEF new
    <2> QED BY <1>7, <2>1, LinkBecomes DEF Usable, LinkExpires
<1>8. ASSUME NEW n \in Links, RedeemReset(n)
      PROVE  LinkStep
    <2> DEFINE u == link[n].user
    <2>1. link' = [ExpireLinks(u) EXCEPT ![n].state = "used"] /\ link[n].state = "approved"
        BY <1>8 DEF RedeemReset, LinksAfterReset
    <2>2. ASSUME NEW k \in Links, NEW state \in {"expired", "used"}
          PROVE  [link[k] EXCEPT !.state = state] \in Link /\ [link[k] EXCEPT !.state = state].state = state
        BY DEF Base, TypeOK, Link
    <2>3. ExpireLinks(u)[n] = [link[n] EXCEPT !.state = "expired"]
        BY <2>1 DEF ExpireLinks
    <2>4. [ExpireLinks(u)[n] EXCEPT !.state = "used"] \in Link /\ [ExpireLinks(u)[n] EXCEPT !.state = "used"].state = "used"
        BY <2>2, <2>3 DEF Link
    <2>5. link'[n] \in Link /\ link'[n].state = "used"
        BY <2>1, <2>4 DEF ExpireLinks
    <2>6. ASSUME NEW k \in Links, k # n
          PROVE  link'[k] = link[k] \/ (link[k].state = "approved" /\ link'[k] = [link[k] EXCEPT !.state = "expired"])
        BY <2>1, <2>6 DEF ExpireLinks
    <2>7. link' \in [Links -> Link]
        <3>1. link' = [k \in Links |-> link'[k]]
            BY <2>1 DEF ExpireLinks
        <3>2. \A k \in Links : link'[k] \in Link
            BY <2>2, <2>5, <2>6 DEF Base, TypeOK
        <3> QED BY <3>1, <3>2
    <2> QED BY <2>1, <2>2, <2>5, <2>6, <2>7 DEF LinkStep, Base, TypeOK, Named, Usable
<1>9. ASSUME NEW n \in Links, RecoverAccess(n)
      PROVE  LinkStep
    <2> PICK u \in Owners :
            /\ link' = [ExpireLinks(u) EXCEPT ![n] = [state |-> "approved", user |-> u, command |-> TRUE, era |-> account[u].era]]
            /\ UNCHANGED account /\ link[n].state = "unused"
        BY <1>9 DEF RecoverAccess
    <2> DEFINE new == [state |-> "approved", user |-> u, command |-> TRUE, era |-> account[u].era]
    <2>1. u \in Users /\ new \in Link /\ new.state = "approved" /\ new.user = u /\ new.era = account[u].era
        BY AccountOf DEF Owners, Link, Account
    <2>2. link' = [ExpireLinks(u) EXCEPT ![n] = new]
        OBVIOUS
    <2> HIDE DEF new
    <2>3. ASSUME NEW k \in Links
          PROVE  [link[k] EXCEPT !.state = "expired"] \in Link /\ [link[k] EXCEPT !.state = "expired"].state = "expired"
        BY DEF Base, TypeOK, Link
    <2>4. link'[n] = new
        BY <2>2 DEF ExpireLinks
    <2>5. ASSUME NEW k \in Links, k # n
          PROVE  link'[k] = link[k] \/ (link[k].state = "approved" /\ link'[k] = [link[k] EXCEPT !.state = "expired"])
        BY <2>2, <2>5 DEF ExpireLinks
    <2>6. link' \in [Links -> Link]
        <3>1. link' = [k \in Links |-> link'[k]]
            BY <2>2 DEF ExpireLinks
        <3>2. \A k \in Links : link'[k] \in Link
            BY <2>1, <2>3, <2>4, <2>5 DEF Base, TypeOK
        <3> QED BY <3>1, <3>2
    <2> QED BY <2>1, <2>3, <2>4, <2>5, <2>6 DEF LinkStep, Base, TypeOK, Named, Usable
<1>10. CASE \/ \E k \in Tickets : BurnTicket(k)
            \/ \E s \in Sessions : SessionExpires(s)
            \/ \E i \in Invitations : InvitationExpires(i)
            \/ \E d \in Subjects, answer \in {"ok", "away"} : DirectoryChanges(d, answer)
            \/ TransferExpires
            \/ UNCHANGED vars
    BY <1>10, LinkRests DEF BurnTicket, SessionExpires, InvitationExpires, DirectoryChanges, TransferExpires, vars
<1> QED BY <1>1, <1>2, <1>3, <1>4, <1>5, <1>6, <1>7, <1>8, <1>9, <1>10, LinkRests DEF Next
-----------------------------------------------------------------------------
(* Invitations, the transfer, the tickets and the directory.               *)

InviteStep ==
    /\ invite' \in [Invitations -> Invitation]
    /\ \A i \in Invitations : invite[i].state \in {"used", "revoked", "expired"} => invite'[i].state = invite[i].state

LEMMA InviteRests ==
    ASSUME Base, UNCHANGED invite
    PROVE  InviteStep
BY DEF InviteStep, Base, TypeOK

\* One invitation changes, or one is made.
LEMMA InviteBecomes ==
    ASSUME Base, NEW i \in Invitations, NEW new \in Invitation, invite' = [invite EXCEPT ![i] = new],
           invite[i].state \in {"unused", "pending"}
    PROVE  InviteStep
BY DEF InviteStep, Base, TypeOK

LEMMA InviteSettles ==
    ASSUME Base, NEW i \in Invitations, invite[i].state = "pending", NEW state \in {"used", "revoked", "expired"},
           invite' = [invite EXCEPT ![i].state = state]
    PROVE  InviteStep
<1> DEFINE new == [invite[i] EXCEPT !.state = state]
<1>1. new \in Invitation /\ invite' = [invite EXCEPT ![i] = new]
    BY DEF Base, TypeOK, Invitation
<1> HIDE DEF new
<1> QED BY <1>1, InviteBecomes

LEMMA InviteRevoked ==
    ASSUME Base, NEW u \in Users, invite' = RevokeIssued(u)
    PROVE  InviteStep
<1>1. \A i \in Invitations : [invite[i] EXCEPT !.state = "revoked"] \in Invitation
    BY DEF Base, TypeOK, Invitation
<1> QED BY <1>1 DEF RevokeIssued, InviteStep, Base, TypeOK

LEMMA InvitesStep ==
    ASSUME Base, [Next]_vars
    PROVE  InviteStep
<1>1. ASSUME NEW q \in Requests, NEW u \in Users,
             \/ LoginLocal(q, u) \/ LoginLinked(q, u) \/ SetupMasterAdmin(q, u)
             \/ EndSessionsFor(q, u) \/ Unblock(q, u)
             \/ \E role \in Assignable : UpdateRole(q, u, role) \/ StartTransfer(q, u, role)
      PROVE  UNCHANGED invite
    BY <1>1 DEF LoginLocal, LoginLinked, SetupMasterAdmin, EndSessionsFor, Unblock, UpdateRole, StartTransfer
<1>2. ASSUME NEW q \in Requests, NEW u \in Users, Block(q, u) \/ Delete(q, u)
      PROVE  InviteStep
    BY <1>2, InviteRevoked DEF Block, Delete
<1>3. ASSUME NEW q \in Requests, NEW u \in Users, NEW i \in Invitations, RedeemInvitation(q, i, u)
      PROVE  InviteStep
    BY <1>3, InviteSettles DEF RedeemInvitation, Waits
<1>4. ASSUME NEW q \in Requests,
             \/ \E s \in Sessions : Admit(q, s)
             \/ \E d \in Subjects : LoginUnknown(q, d)
             \/ \E k \in Tickets : LinkWithTicket(q, k)
             \/ \E t \in Tokens : CreateAppToken(q, t) \/ RevokeAppToken(q, t)
             \/ \E role \in Assignable : MayInvite(q, role)
             \/ \E n \in Links : DecideReset(q, n)
             \/ FirstLogin(q) \/ OpenSession(q) \/ EndOwnSessions(q)
             \/ ProvePassword(q) \/ ChangePassword(q) \/ DecideTransfer(q) \/ AcceptTransfer(q)
      PROVE  UNCHANGED invite
    BY <1>4 DEF Admit, LoginUnknown, LinkWithTicket, CreateAppToken, RevokeAppToken, MayInvite, DecideReset,
                FirstLogin, OpenSession, EndOwnSessions, ProvePassword, ChangePassword, DecideTransfer, AcceptTransfer
<1>5. ASSUME NEW q \in Requests, NEW i \in Invitations, RevokeInvitation(q, i)
      PROVE  InviteStep
    BY <1>5, InviteSettles DEF RevokeInvitation
<1>6. ASSUME NEW q \in Requests, CreateInvitation(q)
      PROVE  InviteStep
    <2>1. CASE UNCHANGED invite
        BY <2>1, InviteRests
    <2>2. CASE \E i \in Invitations :
                  /\ invite[i].state = "unused"
                  /\ invite' = [invite EXCEPT ![i] = [state |-> "pending", role |-> request[q].role, by |-> request[q].user]]
        <3> PICK i \in Invitations :
                /\ invite[i].state = "unused"
                /\ invite' = [invite EXCEPT ![i] = [state |-> "pending", role |-> request[q].role, by |-> request[q].user]]
            BY <2>2
        <3>1. [state |-> "pending", role |-> request[q].role, by |-> request[q].user] \in Invitation
            BY <1>6, RequestIs DEF CreateInvitation, Invitation
        <3> QED BY <3>1, InviteBecomes
    <2> QED BY <1>6, <2>1, <2>2 DEF CreateInvitation
<1>7. ASSUME NEW u \in Users,
             \/ Register(u) \/ Sweep(u)
             \/ \E n \in Links : AskReset(n, u)
             \/ \E former \in Assignable : RecoverTransfer(u, former)
             \/ \E d \in Subjects, k \in Tickets : OfferTicket(u, d, k)
      PROVE  UNCHANGED invite
    BY <1>7 DEF Register, Sweep, AskReset, RecoverTransfer, OfferTicket
<1>8. CASE \E i \in Invitations : InvitationExpires(i)
    BY <1>8, InviteSettles DEF InvitationExpires
<1>9. CASE \/ \E n \in Links : LinkExpires(n) \/ RedeemReset(n) \/ RecoverAccess(n)
           \/ \E k \in Tickets : BurnTicket(k)
           \/ \E s \in Sessions : SessionExpires(s)
           \/ \E d \in Subjects, answer \in {"ok", "away"} : DirectoryChanges(d, answer)
           \/ TransferExpires
           \/ UNCHANGED vars
    BY <1>9, InviteRests DEF LinkExpires, RedeemReset, RecoverAccess, BurnTicket, SessionExpires, DirectoryChanges,
                             TransferExpires, vars
<1> QED BY <1>1, <1>2, <1>3, <1>4, <1>5, <1>6, <1>7, <1>8, <1>9, InviteRests DEF Next

\* The transfer is withdrawn, or offered by the owner; or it stays, and so do the owner
\* and the account it is offered to.
TransferStep ==
    \/ transfer' = NoTransfer
    \/ /\ transfer' \in Transfer /\ UNCHANGED account
       /\ transfer'.from \in Owners /\ transfer'.to \in Users /\ transfer'.to # transfer'.from /\ Present(transfer'.to)
    \/ UNCHANGED transfer

LEMMA TransfersStep ==
    ASSUME Base, [Next]_vars
    PROVE  TransferStep
<1>1. ASSUME NEW q \in Requests, NEW u \in Users,
             \/ LoginLocal(q, u) \/ LoginLinked(q, u) \/ SetupMasterAdmin(q, u)
             \/ EndSessionsFor(q, u) \/ Block(q, u) \/ Unblock(q, u)
             \/ \E role \in Assignable : UpdateRole(q, u, role)
             \/ \E i \in Invitations : RedeemInvitation(q, i, u)
      PROVE  UNCHANGED transfer
    BY <1>1 DEF LoginLocal, LoginLinked, SetupMasterAdmin, EndSessionsFor, Block, Unblock, UpdateRole, RedeemInvitation
<1>2. ASSUME NEW q \in Requests, NEW u \in Users, Delete(q, u)
      PROVE  TransferStep
    BY <1>2 DEF Delete, TransferStep
<1>3. ASSUME NEW q \in Requests, NEW u \in Users, NEW former \in Assignable, StartTransfer(q, u, former)
      PROVE  TransferStep
    <2>1. request[q].user \in Users /\ account[request[q].user].role = "owner"
        BY <1>3, RequestIs DEF StartTransfer, Asks, Admitted, RoleNow
    <2>2. u # request[q].user /\ Present(u) /\ UNCHANGED account
        BY <1>3 DEF StartTransfer, Eligible, Active
    <2>3. transfer' = [state |-> "pending", from |-> request[q].user, to |-> u, former |-> former]
        BY <1>3 DEF StartTransfer
    <2> QED BY <2>1, <2>2, <2>3 DEF TransferStep, Transfer, Owners
<1>4. ASSUME NEW q \in Requests, DecideTransfer(q) \/ AcceptTransfer(q)
      PROVE  TransferStep
    BY <1>4 DEF DecideTransfer, AcceptTransfer, TransferStep
<1>5. ASSUME NEW q \in Requests,
             \/ \E s \in Sessions : Admit(q, s)
             \/ \E d \in Subjects : LoginUnknown(q, d)
             \/ \E k \in Tickets : LinkWithTicket(q, k)
             \/ \E t \in Tokens : CreateAppToken(q, t) \/ RevokeAppToken(q, t)
             \/ \E role \in Assignable : MayInvite(q, role)
             \/ \E i \in Invitations : RevokeInvitation(q, i)
             \/ \E n \in Links : DecideReset(q, n)
             \/ FirstLogin(q) \/ OpenSession(q) \/ EndOwnSessions(q)
             \/ ProvePassword(q) \/ ChangePassword(q) \/ CreateInvitation(q)
      PROVE  UNCHANGED transfer
    BY <1>5 DEF Admit, LoginUnknown, LinkWithTicket, CreateAppToken, RevokeAppToken, MayInvite, RevokeInvitation,
                DecideReset, FirstLogin, OpenSession, EndOwnSessions, ProvePassword, ChangePassword, CreateInvitation
<1>6. ASSUME NEW u \in Users,
             \/ Register(u) \/ Sweep(u)
             \/ \E n \in Links : AskReset(n, u)
             \/ \E d \in Subjects, k \in Tickets : OfferTicket(u, d, k)
      PROVE  UNCHANGED transfer
    BY <1>6 DEF Register, Sweep, AskReset, OfferTicket
<1>7. ASSUME NEW u \in Users, NEW former \in Assignable, RecoverTransfer(u, former)
      PROVE  TransferStep
    BY <1>7 DEF RecoverTransfer, Withdrawn, TransferStep
<1>8. CASE TransferExpires
    BY <1>8 DEF TransferExpires, TransferStep
<1>9. CASE \/ \E n \in Links : LinkExpires(n) \/ RedeemReset(n) \/ RecoverAccess(n)
           \/ \E k \in Tickets : BurnTicket(k)
           \/ \E s \in Sessions : SessionExpires(s)
           \/ \E i \in Invitations : InvitationExpires(i)
           \/ \E d \in Subjects, answer \in {"ok", "away"} : DirectoryChanges(d, answer)
           \/ UNCHANGED vars
    BY <1>9 DEF LinkExpires, RedeemReset, RecoverAccess, BurnTicket, SessionExpires, InvitationExpires, DirectoryChanges,
                vars, TransferStep
<1> QED BY <1>1, <1>2, <1>3, <1>4, <1>5, <1>6, <1>7, <1>8, <1>9 DEF Next, TransferStep

TicketsOK ==
    /\ ticket \in [Tickets -> Ticket]
    /\ \A k \in Tickets : ticket[k].state = "open" => ticket[k].user \in Users /\ ticket[k].subject \in Subjects

LEMMA TicketUsed ==
    ASSUME Base, NEW k \in Tickets
    PROVE  [ticket[k] EXCEPT !.state = "used"] \in Ticket /\ [ticket[k] EXCEPT !.state = "used"].state = "used"
BY DEF Base, TypeOK, Ticket

LEMMA TicketsStep ==
    ASSUME Base, [Next]_vars
    PROVE  TicketsOK' /\ directory' \in [Subjects -> {"ok", "away"}] /\ admissions' \in 0..MaxAdmissions
<1>1. UNCHANGED ticket => TicketsOK'
    BY DEF Base, TypeOK, Named, TicketsOK
<1>2. UNCHANGED directory => directory' \in [Subjects -> {"ok", "away"}]
    BY DEF Base, TypeOK
<1>3. ComesIn \/ UNCHANGED admissions => admissions' \in 0..MaxAdmissions
    BY AccountsAssumption DEF Base, TypeOK, ComesIn
<1>4. ASSUME NEW q \in Requests, NEW u \in Users,
             \/ LoginLocal(q, u) \/ LoginLinked(q, u) \/ SetupMasterAdmin(q, u)
             \/ EndSessionsFor(q, u) \/ Block(q, u) \/ Unblock(q, u)
             \/ \E role \in Assignable : UpdateRole(q, u, role) \/ StartTransfer(q, u, role)
             \/ \E i \in Invitations : RedeemInvitation(q, i, u)
      PROVE  UNCHANGED <<ticket, directory>> /\ (ComesIn \/ UNCHANGED admissions)
    BY <1>4 DEF LoginLocal, LoginLinked, SetupMasterAdmin, EndSessionsFor, Block, Unblock, UpdateRole, StartTransfer,
                RedeemInvitation
<1>5. ASSUME NEW q \in Requests, NEW u \in Users, Delete(q, u)
      PROVE  TicketsOK' /\ UNCHANGED <<directory, admissions>>
    <2>1. ticket' = [k \in Tickets |-> IF ticket[k].user = u THEN [ticket[k] EXCEPT !.state = "used"] ELSE ticket[k]]
        BY <1>5 DEF Delete
    <2> QED BY <1>5, <2>1, TicketUsed DEF Delete, TicketsOK, Base, TypeOK, Named
<1>6. ASSUME NEW q \in Requests,
             \/ \E s \in Sessions : Admit(q, s)
             \/ \E d \in Subjects : LoginUnknown(q, d)
             \/ \E t \in Tokens : CreateAppToken(q, t) \/ RevokeAppToken(q, t)
             \/ \E role \in Assignable : MayInvite(q, role)
             \/ \E i \in Invitations : RevokeInvitation(q, i)
             \/ \E n \in Links : DecideReset(q, n)
             \/ FirstLogin(q) \/ OpenSession(q) \/ EndOwnSessions(q)
             \/ ProvePassword(q) \/ ChangePassword(q) \/ CreateInvitation(q)
             \/ DecideTransfer(q) \/ AcceptTransfer(q)
      PROVE  UNCHANGED <<ticket, directory>> /\ (ComesIn \/ UNCHANGED admissions)
    BY <1>6 DEF Admit, LoginUnknown, CreateAppToken, RevokeAppToken, MayInvite, RevokeInvitation, DecideReset,
                FirstLogin, OpenSession, EndOwnSessions, ProvePassword, ChangePassword, CreateInvitation,
                DecideTransfer, AcceptTransfer
<1>7. ASSUME NEW k \in Tickets, ticket' = [ticket EXCEPT ![k].state = "used"]
      PROVE  TicketsOK'
    BY <1>7, TicketUsed DEF TicketsOK, Base, TypeOK, Named
<1>8. ASSUME NEW q \in Requests, NEW k \in Tickets, LinkWithTicket(q, k) \/ BurnTicket(k)
      PROVE  TicketsOK' /\ UNCHANGED directory /\ (ComesIn \/ UNCHANGED admissions)
    BY <1>7, <1>8 DEF LinkWithTicket, BurnTicket
<1>9. ASSUME NEW k \in Tickets, BurnTicket(k)
      PROVE  TicketsOK' /\ UNCHANGED <<directory, admissions>>
    BY <1>7, <1>9 DEF BurnTicket
<1>10. ASSUME NEW u \in Users, NEW d \in Subjects, NEW k \in Tickets, OfferTicket(u, d, k)
      PROVE  TicketsOK' /\ UNCHANGED <<directory, admissions>>
    <2> DEFINE new == [state |-> "open", user |-> u, subject |-> d]
    <2>1. new \in Ticket /\ new.user = u /\ new.subject = d /\ ticket' = [ticket EXCEPT ![k] = new]
        BY <1>10 DEF OfferTicket, Ticket
    <2> HIDE DEF new
    <2> QED BY <1>10, <2>1 DEF OfferTicket, TicketsOK, Base, TypeOK, Named
<1>11. ASSUME NEW u \in Users,
             \/ Register(u) \/ Sweep(u)
             \/ \E n \in Links : AskReset(n, u)
             \/ \E former \in Assignable : RecoverTransfer(u, former)
      PROVE  UNCHANGED <<ticket, directory, admissions>>
    BY <1>11 DEF Register, Sweep, AskReset, RecoverTransfer
<1>12. ASSUME NEW d \in Subjects, NEW answer \in {"ok", "away"}, DirectoryChanges(d, answer)
      PROVE  UNCHANGED <<ticket, admissions>> /\ directory' \in [Subjects -> {"ok", "away"}]
    BY <1>12 DEF DirectoryChanges, Base, TypeOK
<1>13. CASE \/ \E n \in Links : LinkExpires(n) \/ RedeemReset(n) \/ RecoverAccess(n)
            \/ \E s \in Sessions : SessionExpires(s)
            \/ \E i \in Invitations : InvitationExpires(i)
            \/ TransferExpires
            \/ UNCHANGED vars
    BY <1>1, <1>2, <1>3, <1>13 DEF LinkExpires, RedeemReset, RecoverAccess, SessionExpires, InvitationExpires, TransferExpires, vars
<1> QED BY <1>1, <1>2, <1>3, <1>4, <1>5, <1>6, <1>8, <1>9, <1>10, <1>11, <1>12, <1>13 DEF Next
-----------------------------------------------------------------------------
(* The accounts.  A step changes one account, or hands the ownership over. *)

\* Somebody else changes the role, the blocking or the life of u, with a role that reaches it.
ByAuthority(u, new) ==
    \E q \in Requests :
        /\ request[q].pc = "admitted" /\ request'[q] = Idle
        /\ request[q].user # u
        /\ CanManage(account[request[q].user].role, account[u].role, new.role \in Roles /\ new.role # account[u].role)

\* What u may become.
Becomes(u, new) ==
    /\ new \in Account
    /\ new.role = "none" => new = Absent
    /\ \/ new.role = account[u].role
       \/ account[u].role # "owner" /\ new.role # "owner"
       \/ Owners = {} /\ new.role = "owner"
    /\ new.role = "owner" => ~new.blocked /\ new.password /\ new.subject = NoOne
    /\ new.subject \in {NoOne, account[u].subject} \/ ~Tied(new.subject)
    /\ Present(u) /\ <<new.role, new.blocked>> # <<account[u].role, account[u].blocked>> => ByAuthority(u, new)
    /\ new.era # account[u].era =>
         /\ \A c \in Sessions \cup Tokens : cred'[c].live => cred'[c].user # u
         /\ \A n \in Links : link'[n].state = "approved" => link'[n].user # u
    /\ Present(u) /\ new.role \notin Roles => transfer' = NoTransfer \/ u \notin {transfer.from, transfer.to}

HandsOver(from, to, former) ==
    /\ from \in Users /\ to \in Users /\ former \in Assignable
    /\ Swap(from, to, former) /\ account[to].password
    /\ transfer' = NoTransfer

AccountStep ==
    \/ UNCHANGED account
    \/ \E u \in Users : \E new \in Account : account' = [account EXCEPT ![u] = new] /\ Becomes(u, new)
    \/ \E from, to \in Users : \E former \in Assignable : HandsOver(from, to, former)

\* An account is born.
LEMMA Born ==
    ASSUME Base, NEW u \in Users, account[u].role = "none", NEW new \in Account, account' = [account EXCEPT ![u] = new],
           new.role \in Assignable \/ (new.role = "owner" /\ Owners = {} /\ new.password /\ new.subject = NoOne),
           new.era = 0, ~new.blocked, new.subject = NoOne \/ ~Tied(new.subject)
    PROVE  AccountStep
<1>1. account[u] = Absent
    BY DEF Base, Named
<1>2. ~Present(u)
    BY DEF Present, Roles
<1>3. Becomes(u, new)
    BY <1>1, <1>2, AbsentType DEF Becomes, Assignable
<1> QED BY <1>3 DEF AccountStep
\* What the row of one account becomes, and that it does.
LEMMA Changes ==
    ASSUME NEW u \in Users, NEW new \in Account, account' = [account EXCEPT ![u] = new], Becomes(u, new)
    PROVE  AccountStep
BY DEF AccountStep

\* A request of one who may, on an account that is not theirs.
LEMMA Authorised ==
    ASSUME NEW q \in Requests, NEW u \in Users, NEW new, Admitted(q), Answer(q), Base,
           CanManage(RoleNow(q), account[u].role, new.role \in Roles /\ new.role # account[u].role),
           request[q].user # u \/ RoleNow(q) = "owner"
    PROVE  ByAuthority(u, new) /\ account[u].role \in Assignable
<1>1. RoleNow(q) \in {"owner", "admin"} /\ account[u].role \in Assignable
    BY DEF CanManage, Assignable
<1>2. RoleNow(q) = account[request[q].user].role
    BY <1>1 DEF RoleNow
<1>3. request[q].user # u
    BY <1>1, <1>2 DEF Assignable
<1>4. request'[q] = Idle
    BY DEF Answer, Base, TypeOK
<1> QED BY <1>1, <1>2, <1>3, <1>4 DEF ByAuthority, Admitted

LEMMA FirstLoginStep ==
    ASSUME Base, NEW q \in Requests, FirstLogin(q)
    PROVE  AccountStep
<1> DEFINE d == request[q].user
<1>1. CASE UNCHANGED account
    BY <1>1 DEF AccountStep
<1>2. CASE \E u \in Users : account[u].role = "none" /\ account' = [account EXCEPT ![u] = NewAccount("reader", FALSE, d)]
    <2>1. d \in Subjects
        BY RequestIs DEF FirstLogin
    <2>2. CASE ~Tied(d)
        <3> PICK u \in Users : account[u].role = "none" /\ account' = [account EXCEPT ![u] = NewAccount("reader", FALSE, d)]
            BY <1>2
        <3> DEFINE new == NewAccount("reader", FALSE, d)
        <3>1. new \in Account /\ new.role = "reader" /\ ~new.blocked /\ new.subject = d /\ new.era = 0
            BY <2>1 DEF Roles, NewAccount, Account
        <3>2. account' = [account EXCEPT ![u] = new] /\ "reader" \in Assignable
            BY DEF Assignable
        <3> HIDE DEF new
        <3> QED BY <2>2, <3>1, <3>2, Born
    <2>3. CASE Tied(d)
        BY <1>1, <2>3 DEF FirstLogin
    <2> QED BY <2>2, <2>3
<1> QED BY <1>1, <1>2 DEF FirstLogin

LEMMA RegisterStep ==
    ASSUME Base, NEW u \in Users, account[u].role = "none", NEW role \in Roles,
           role = "owner" => \A v \in Users : ~Present(v),
           account' = [account EXCEPT ![u] = NewAccount(role, TRUE, NoOne)]
    PROVE  AccountStep
<1> DEFINE new == NewAccount(role, TRUE, NoOne)
<1>1. new \in Account /\ new.role = role /\ ~new.blocked /\ new.password /\ new.subject = NoOne /\ new.era = 0
    BY DEF NewAccount, Account
<1>2. role \in Assignable \/ (role = "owner" /\ Owners = {})
    BY DEF Roles, Assignable, Owners, Present
<1>3. account' = [account EXCEPT ![u] = new]
    OBVIOUS
<1> HIDE DEF new
<1> QED BY <1>1, <1>2, <1>3, Born

LEMMA LinkWithTicketStep ==
    ASSUME Base, NEW q \in Requests, NEW k \in Tickets, LinkWithTicket(q, k)
    PROVE  AccountStep
<1> DEFINE u == ticket[k].user
           d == ticket[k].subject
           new == [account[u] EXCEPT !.subject = d]
<1>1. u \in Users /\ d \in Subjects /\ account[u] \in Account
    BY AccountOf DEF LinkWithTicket, Base, Named
<1>2. Present(u) /\ account[u].role # "owner" /\ ~Tied(d) /\ account' = [account EXCEPT ![u] = new]
    BY <1>1 DEF LinkWithTicket, Active, Base, TypeOK
<1>3. /\ new \in Account /\ new.role = account[u].role /\ new.blocked = account[u].blocked
      /\ new.subject = d /\ new.era = account[u].era
    BY <1>1 DEF Account
<1> HIDE DEF new
<1>4. Becomes(u, new)
    BY <1>2, <1>3 DEF Becomes, Present, Roles
<1> QED BY <1>1, <1>2, <1>3, <1>4, Changes

LEMMA ChangePasswordStep ==
    ASSUME Base, OneLocalOwner, NEW q \in Requests, ChangePassword(q)
    PROVE  AccountStep
<1> DEFINE u == request[q].user
           new == [account[u] EXCEPT !.password = TRUE, !.key = request[q].era]
<1>1. u \in Users /\ request[q].era \in Nat
    BY RequestIs DEF ChangePassword
<1>2. account[u] \in Account
    BY <1>1, AccountOf
<1>3. CASE UNCHANGED account
    BY <1>3 DEF AccountStep
<1>4. CASE Present(u)
    <2>1. account' = [account EXCEPT ![u] = new]
        BY <1>1, <1>4 DEF ChangePassword, Base, TypeOK
    <2>2. /\ new \in Account /\ new.role = account[u].role /\ new.blocked = account[u].blocked
          /\ new.subject = account[u].subject /\ new.era = account[u].era /\ new.password
        BY <1>1, <1>2 DEF Account
    <2> HIDE DEF new
    <2>3. account[u].role = "owner" => ~account[u].blocked /\ account[u].subject = NoOne
        BY <1>1 DEF OneLocalOwner, Owners, Active
    <2>4. Becomes(u, new)
        BY <1>4, <2>2, <2>3 DEF Becomes, Present, Roles
    <2> QED BY <1>1, <2>1, <2>2, <2>4, Changes
<1> QED BY <1>3, <1>4 DEF ChangePassword

LEMMA RedeemResetStep ==
    ASSUME Base, OneLocalOwner, NEW n \in Links, RedeemReset(n)
    PROVE  AccountStep
<1> DEFINE u == link[n].user
           new == [account[u] EXCEPT !.password = TRUE, !.era = account[u].era + 1, !.key = account[u].era + 1]
<1>1. u \in Users
    BY DEF RedeemReset, Base, Named
<1>2. account[u] \in Account
    BY <1>1, AccountOf
<1>3. account' = [account EXCEPT ![u] = new] /\ Present(u)
    BY <1>1, <1>2 DEF RedeemReset, Base, TypeOK, Active, Account
<1>4. /\ new \in Account /\ new.role = account[u].role /\ new.blocked = account[u].blocked
      /\ new.subject = account[u].subject /\ new.password
    <2> DEFINE e == account[u].era + 1
    <2>1. e \in Nat
        BY <1>2 DEF Account
    <2>2. new = [account[u] EXCEPT !.password = TRUE, !.era = e, !.key = e]
        OBVIOUS
    <2> HIDE DEF e
    <2> QED BY <1>2, <2>1, <2>2 DEF Account
<1> HIDE DEF new
<1>5. account[u].role = "owner" => ~account[u].blocked /\ account[u].subject = NoOne
    BY <1>1 DEF OneLocalOwner, Owners, Active
<1>6. \A c \in Sessions \cup Tokens : cred'[c].live => cred'[c].user # u
    BY <1>1, RevokedIs DEF RedeemReset
<1>7. ASSUME NEW k \in Links, link'[k].state = "approved"
      PROVE  link'[k].user # u
    <2>1. link' = [ExpireLinks(u) EXCEPT ![n].state = "used"]
        BY DEF RedeemReset, LinksAfterReset
    <2>2. ASSUME NEW e \in Links, NEW state \in {"expired", "used"}
          PROVE  [link[e] EXCEPT !.state = state] \in Link /\ [link[e] EXCEPT !.state = state].state = state
        BY DEF Base, TypeOK, Link
    <2>3. CASE k = n
        <3>1. ExpireLinks(u)[n] = [link[n] EXCEPT !.state = "expired"]
            BY DEF RedeemReset, ExpireLinks
        <3>2. [ExpireLinks(u)[n] EXCEPT !.state = "used"].state = "used"
            BY <2>2, <3>1 DEF Link
        <3> QED BY <1>7, <2>1, <2>3, <3>2 DEF ExpireLinks
    <2>4. CASE k # n
        <3>1. link'[k] = IF link[k].user = u /\ link[k].state = "approved" THEN [link[k] EXCEPT !.state = "expired"] ELSE link[k]
            BY <2>1, <2>4 DEF ExpireLinks
        <3> QED BY <1>7, <2>2, <3>1
    <2> QED BY <2>3, <2>4
<1>8. Becomes(u, new)
    BY <1>3, <1>4, <1>5, <1>6, <1>7 DEF Becomes, Present, Roles
<1> QED BY <1>1, <1>3, <1>4, <1>8, Changes

LEMMA UpdateRoleStep ==
    ASSUME Base, NEW q \in Requests, NEW u \in Users, NEW role \in Assignable, UpdateRole(q, u, role)
    PROVE  AccountStep
<1> DEFINE new == [account[u] EXCEPT !.role = role]
<1>1. account[u] \in Account /\ role \in Roles
    BY AccountOf DEF Roles, Assignable
<1>2. account' = [account EXCEPT ![u] = new]
    BY DEF UpdateRole, Base, TypeOK
<1>3. /\ new \in Account /\ new.role = role /\ new.blocked = account[u].blocked /\ new.subject = account[u].subject
      /\ new.era = account[u].era
    BY <1>1 DEF Account
<1>4. role = account[u].role \/ ByAuthority(u, new)
    <2>1. CanManage(RoleNow(q), account[u].role, TRUE) /\ RoleNow(q) = "owner" /\ Admitted(q) /\ Answer(q)
        BY DEF UpdateRole, CanManage, Asks
    <2> HIDE DEF new
    <2> QED BY <1>1, <1>3, <2>1, Authorised
<1>5. account[u].role \in Assignable
    BY DEF UpdateRole, CanManage, Assignable
<1> HIDE DEF new
<1>6. Becomes(u, new)
    BY <1>1, <1>3, <1>4, <1>5 DEF Becomes, Assignable
<1> QED BY <1>2, <1>3, <1>6, Changes

LEMMA BlockStep ==
    ASSUME Base, NEW q \in Requests, NEW u \in Users, Block(q, u) \/ Unblock(q, u)
    PROVE  AccountStep
<1> PICK b \in BOOLEAN : account' = [account EXCEPT ![u].blocked = b]
    BY DEF Block, Unblock
<1> DEFINE new == [account[u] EXCEPT !.blocked = b]
<1>1. account[u] \in Account
    BY AccountOf
<1>2. account' = [account EXCEPT ![u] = new]
    BY DEF Base, TypeOK
<1>3. new \in Account /\ new.role = account[u].role /\ new.subject = account[u].subject /\ new.era = account[u].era
    BY <1>1 DEF Account
<1>4. /\ CanManage(RoleNow(q), account[u].role, FALSE) /\ Admitted(q) /\ Answer(q) /\ request[q].user # u
      /\ Present(u)
    BY DEF Block, Unblock, Asks
<1> HIDE DEF new
<1>5. ByAuthority(u, new) /\ account[u].role \in Assignable
    <2>1. (new.role \in Roles /\ new.role # account[u].role) = FALSE
        BY <1>3
    <2> QED BY <1>4, <2>1, Authorised
<1>6. Becomes(u, new)
    BY <1>3, <1>4, <1>5 DEF Becomes, Assignable, Present
<1> QED BY <1>2, <1>3, <1>6, Changes

LEMMA DeleteStep ==
    ASSUME Base, NEW q \in Requests, NEW u \in Users, Delete(q, u)
    PROVE  AccountStep
<1> DEFINE new == NewAccount("deleted", FALSE, NoOne)
<1>1. new \in Account /\ new.role = "deleted" /\ new.subject = NoOne
    BY DEF NewAccount, Account
<1>2. account' = [account EXCEPT ![u] = new]
    BY DEF Delete
<1>3. CanManage(RoleNow(q), account[u].role, FALSE) /\ Admitted(q) /\ Answer(q) /\ request[q].user # u
    BY DEF Delete, Asks
<1> HIDE DEF new
<1>4. ByAuthority(u, new) /\ account[u].role \in Assignable
    <2>1. (new.role \in Roles /\ new.role # account[u].role) = FALSE
        BY <1>1 DEF Roles
    <2> QED BY <1>3, <2>1, Authorised
<1>5. \A c \in Sessions \cup Tokens : cred'[c].live => cred'[c].user # u
    BY RevokedIs DEF Delete
<1>6. ASSUME NEW n \in Links, link'[n].state = "approved"
      PROVE  link'[n].user # u
    <2>1. link'[n] = IF link[n].user = u /\ link[n].state \in {"waiting", "approved"}
                     THEN [link[n] EXCEPT !.state = "expired"] ELSE link[n]
        BY DEF Delete
    <2>2. [link[n] EXCEPT !.state = "expired"].state = "expired"
        BY DEF Base, TypeOK, Link
    <2> QED BY <1>6, <2>1, <2>2
<1>7. transfer' = NoTransfer \/ u \notin {transfer.from, transfer.to}
    BY DEF Delete
<1>8. Becomes(u, new)
    BY <1>1, <1>4, <1>5, <1>6, <1>7 DEF Becomes, Assignable
<1> QED BY <1>1, <1>2, <1>8, Changes

LEMMA HandOverStep ==
    ASSUME Base, \/ \E q \in Requests : AcceptTransfer(q)
                 \/ \E u \in Users, former \in Assignable : RecoverTransfer(u, former)
    PROVE  AccountStep
<1>1. CASE \E q \in Requests : AcceptTransfer(q)
    <2>1. transfer.from \in Users /\ transfer.to \in Users /\ transfer.former \in Assignable
        BY <1>1 DEF AcceptTransfer, Base, Named, TypeOK, Transfer
    <2>2. HandsOver(transfer.from, transfer.to, transfer.former)
        BY <1>1, <2>1 DEF AcceptTransfer, HandsOver, Eligible
    <2> QED BY <2>1, <2>2 DEF AccountStep
<1>2. CASE \E u \in Users, former \in Assignable : RecoverTransfer(u, former)
    BY <1>2 DEF RecoverTransfer, HandsOver, Eligible, Owners, Withdrawn, AccountStep
<1> QED BY <1>1, <1>2

LEMMA AccountsStep ==
    ASSUME Base, OneLocalOwner, [Next]_vars
    PROVE  AccountStep
<1>0. ASSUME UNCHANGED account
      PROVE  AccountStep
    BY <1>0 DEF AccountStep
<1>1. ASSUME NEW q \in Requests, NEW u \in Users,
             \/ LoginLocal(q, u) \/ LoginLinked(q, u) \/ EndSessionsFor(q, u)
             \/ \E role \in Assignable : StartTransfer(q, u, role)
      PROVE  UNCHANGED account
    BY <1>1 DEF LoginLocal, LoginLinked, EndSessionsFor, StartTransfer
<1>2. ASSUME NEW q \in Requests, NEW u \in Users, SetupMasterAdmin(q, u)
      PROVE  AccountStep
    BY <1>2, RegisterStep DEF SetupMasterAdmin, Roles
<1>3. ASSUME NEW q \in Requests, NEW u \in Users, NEW i \in Invitations, RedeemInvitation(q, i, u)
      PROVE  AccountStep
    <2>1. invite[i].role \in Roles /\ invite[i].role # "owner"
        BY DEF Base, TypeOK, Invitation, Roles, Assignable
    <2> QED BY <1>3, <2>1, RegisterStep DEF RedeemInvitation
<1>4. ASSUME NEW q \in Requests,
             \/ \E s \in Sessions : Admit(q, s)
             \/ \E d \in Subjects : LoginUnknown(q, d)
             \/ \E t \in Tokens : CreateAppToken(q, t) \/ RevokeAppToken(q, t)
             \/ \E role \in Assignable : MayInvite(q, role)
             \/ \E i \in Invitations : RevokeInvitation(q, i)
             \/ \E n \in Links : DecideReset(q, n)
             \/ OpenSession(q) \/ EndOwnSessions(q)
             \/ ProvePassword(q) \/ CreateInvitation(q) \/ DecideTransfer(q)
      PROVE  UNCHANGED account
    BY <1>4 DEF Admit, LoginUnknown, CreateAppToken, RevokeAppToken, MayInvite, RevokeInvitation, DecideReset,
                OpenSession, EndOwnSessions, ProvePassword, CreateInvitation, DecideTransfer
<1>5. ASSUME NEW u \in Users, Register(u)
      PROVE  AccountStep
    BY <1>5, RegisterStep DEF Register, Roles
<1>6. ASSUME NEW u \in Users,
             \/ Sweep(u)
             \/ \E n \in Links : AskReset(n, u)
             \/ \E d \in Subjects, k \in Tickets : OfferTicket(u, d, k)
      PROVE  UNCHANGED account
    BY <1>6 DEF Sweep, AskReset, OfferTicket
<1>7. CASE \/ \E n \in Links : LinkExpires(n) \/ RecoverAccess(n)
           \/ \E k \in Tickets : BurnTicket(k)
           \/ \E s \in Sessions : SessionExpires(s)
           \/ \E i \in Invitations : InvitationExpires(i)
           \/ \E d \in Subjects, answer \in {"ok", "away"} : DirectoryChanges(d, answer)
           \/ TransferExpires
           \/ UNCHANGED vars
    BY <1>0, <1>7 DEF LinkExpires, RecoverAccess, BurnTicket, SessionExpires, InvitationExpires, DirectoryChanges,
                      TransferExpires, vars
<1> QED BY <1>0, <1>1, <1>2, <1>3, <1>4, <1>5, <1>6, <1>7, FirstLoginStep, LinkWithTicketStep, ChangePasswordStep,
           RedeemResetStep, UpdateRoleStep, BlockStep, DeleteStep, HandOverStep DEF Next
-----------------------------------------------------------------------------
(* What such a step leaves true of the accounts. *)

\* The rows of a hand-over, before and after.
LEMMA HandedOver ==
    ASSUME Base, OneLocalOwner, NEW from, NEW to, NEW former, HandsOver(from, to, former)
    PROVE  /\ from \in Users /\ to \in Users /\ from # to /\ Owners = {from}
           /\ account' \in [Users -> Account]
           /\ account'[from].role = former /\ former \in Assignable
           /\ account'[to].role = "owner" /\ ~account'[to].blocked /\ account'[to].password
           /\ \A v \in Users : account'[v].subject = account[v].subject /\ account'[v].era = account[v].era
           /\ account'[to].subject = NoOne
           /\ \A v \in Users \ {from, to} : account'[v] = account[v]
<1> DEFINE one == [account[from] EXCEPT !.role = former]
           two == [account[to] EXCEPT !.role = "owner"]
<1>1. from \in Users /\ to \in Users /\ from # to /\ former \in Assignable /\ Owners = {from}
    BY DEF HandsOver, Swap, OneLocalOwner, Owners
<1>2. account[from] \in Account /\ account[to] \in Account
    BY <1>1, AccountOf
<1>3. account[to].password /\ ~account[to].blocked /\ account[to].subject = NoOne
    BY DEF HandsOver, Swap, Active, TriggerAllows
<1>4. /\ one \in Account /\ one.role = former /\ one.subject = account[from].subject /\ one.era = account[from].era
      /\ two \in Account /\ two.role = "owner" /\ two.subject = account[to].subject /\ two.era = account[to].era
      /\ two.blocked = account[to].blocked /\ two.password = account[to].password
    BY <1>1, <1>2 DEF Account, Roles, Assignable
<1>5. account' = [account EXCEPT ![from] = one, ![to] = two]
    BY <1>1 DEF HandsOver, Swap, Base, TypeOK
<1> HIDE DEF one, two
<1>6. account'[from] = one /\ account'[to] = two /\ \A v \in Users \ {from, to} : account'[v] = account[v]
    BY <1>1, <1>5 DEF Base, TypeOK
<1>7. account' \in [Users -> Account]
    BY <1>4, <1>5 DEF Base, TypeOK
<1> QED BY <1>1, <1>3, <1>4, <1>6, <1>7

AccountsOK ==
    /\ account \in [Users -> Account]
    /\ \A u \in Users : account[u].role = "none" => account[u] = Absent

LEMMA AccountsStay ==
    ASSUME Base, OneLocalOwner, AccountStep
    PROVE  AccountsOK'
<1>1. CASE UNCHANGED account
    BY <1>1 DEF AccountsOK, Base, TypeOK, Named
<1>2. ASSUME NEW u \in Users, NEW new \in Account, account' = [account EXCEPT ![u] = new], Becomes(u, new)
      PROVE  AccountsOK'
    BY <1>2 DEF AccountsOK, Base, TypeOK, Named, Becomes
<1>3. ASSUME NEW from \in Users, NEW to \in Users, NEW former \in Assignable, HandsOver(from, to, former)
      PROVE  AccountsOK'
    BY <1>3, HandedOver DEF AccountsOK, Base, Named, Assignable
<1> QED BY <1>1, <1>2, <1>3 DEF AccountStep

LEMMA OwnerStep ==
    ASSUME Base, OneLocalOwner, AccountStep
    PROVE  OneLocalOwner' /\ (Owners # {} => Owners' # {})
<1>1. CASE UNCHANGED account
    BY <1>1 DEF OneLocalOwner, Owners, Active, Present
<1>2. ASSUME NEW u \in Users, NEW new \in Account, account' = [account EXCEPT ![u] = new], Becomes(u, new)
      PROVE  OneLocalOwner' /\ (Owners # {} => Owners' # {})
    <2>1. account'[u] = new /\ \A v \in Users \ {u} : account'[v] = account[v]
        BY <1>2 DEF Base, TypeOK
    <2>2. CASE new.role = "owner"
        <3>1. Owners \subseteq {u}
            BY <1>2, <2>2 DEF Becomes, OneLocalOwner, Owners
        <3>2. Owners' = {u}
            BY <2>1, <2>2, <3>1 DEF Owners
        <3>3. ~new.blocked /\ new.password /\ new.subject = NoOne /\ new.role \in Roles
            BY <1>2, <2>2 DEF Becomes, Roles
        <3> QED BY <2>1, <3>2, <3>3 DEF OneLocalOwner, Active, Present
    <2>3. CASE new.role # "owner"
        <3>1. account[u].role # "owner"
            BY <1>2, <2>3 DEF Becomes
        <3>2. Owners' = Owners
            BY <2>1, <2>3, <3>1 DEF Owners
        <3>3. \A v \in Owners : account'[v] = account[v]
            BY <2>1, <3>1 DEF Owners
        <3> QED BY <3>2, <3>3 DEF OneLocalOwner, Active, Present
    <2> QED BY <2>2, <2>3
<1>3. ASSUME NEW from \in Users, NEW to \in Users, NEW former \in Assignable, HandsOver(from, to, former)
      PROVE  OneLocalOwner' /\ (Owners # {} => Owners' # {})
    <2>1. Owners' = {to}
        BY <1>3, HandedOver DEF Owners, Assignable
    <2>2. account'[to].role \in Roles
        BY <1>3, HandedOver DEF Roles
    <2> QED BY <1>3, <2>1, <2>2, HandedOver DEF OneLocalOwner, Active, Present
<1> QED BY <1>1, <1>2, <1>3 DEF AccountStep

\* An account that somebody has a working credential or a usable link of is not reset in the step.
LEMMA EraStays ==
    ASSUME Base, OneLocalOwner, AccountStep, NEW v \in Users,
           \/ \E c \in Sessions \cup Tokens : cred'[c].live /\ cred'[c].user = v
           \/ \E n \in Links : link'[n].state = "approved" /\ link'[n].user = v
    PROVE  account'[v].era = account[v].era
<1>1. ASSUME NEW u \in Users, NEW new \in Account, account' = [account EXCEPT ![u] = new], Becomes(u, new)
      PROVE  account'[v].era = account[v].era
    <2>1. account'[u] = new /\ (v # u => account'[v] = account[v])
        BY <1>1 DEF Base, TypeOK
    <2>2. v = u => new.era = account[u].era
        BY <1>1 DEF Becomes
    <2> QED BY <2>1, <2>2
<1>2. ASSUME NEW from \in Users, NEW to \in Users, NEW former \in Assignable, HandsOver(from, to, former)
      PROVE  account'[v].era = account[v].era
    BY <1>2, HandedOver
<1> QED BY <1>1, <1>2 DEF AccountStep

-----------------------------------------------------------------------------
(* The first invariant: types, names, and the one owner. *)

Sole == Base /\ OneLocalOwner

LEMMA SoleInit == Init => Sole
<1> SUFFICES ASSUME Init PROVE Sole
    OBVIOUS
<1>1. account \in [Users -> Account] /\ \A u \in Users : account[u] = Absent
    BY AbsentType DEF Init
<1>2. cred \in [Sessions \cup Tokens -> Credential] /\ \A c \in Sessions \cup Tokens : ~cred[c].live
    BY DEF Init, NoCredential, Credential
<1>3. invite \in [Invitations -> Invitation]
    BY DEF Init, Invitation, Assignable
<1>4. link \in [Links -> Link] /\ \A n \in Links : link[n].state = "unused"
    BY DEF Init, Link
<1>5. transfer \in Transfer /\ transfer.state = "none"
    BY DEF Init, NoTransfer, Transfer, Assignable
<1>6. ticket \in [Tickets -> Ticket] /\ \A k \in Tickets : ticket[k].state = "unused"
    BY DEF Init, Ticket
<1>7. directory \in [Subjects -> {"ok", "away"}] /\ admissions \in 0..MaxAdmissions
    BY AccountsAssumption DEF Init
<1>8. request \in [Requests -> Request] /\ \A q \in Requests : Sound(request[q])
    BY DEF Init, Idle, Request, Sound
<1>9. Owners = {}
    BY <1>1, AbsentType DEF Owners
<1> QED BY <1>1, <1>2, <1>3, <1>4, <1>5, <1>6, <1>7, <1>8, <1>9 DEF Sole, Base, TypeOK, Named, OneLocalOwner

LEMMA SoleNext == Sole /\ [Next]_vars => Sole'
<1> SUFFICES ASSUME Sole, [Next]_vars PROVE Sole'
    OBVIOUS
<1>1. Base /\ OneLocalOwner
    BY DEF Sole
<1>2. AccountStep
    BY <1>1, AccountsStep
<1>3. AccountsOK'
    BY <1>1, <1>2, AccountsStay
<1>4. OneLocalOwner'
    BY <1>1, <1>2, OwnerStep
<1>5. RequestsOK' /\ CredStep /\ LinkStep /\ InviteStep /\ TransferStep
    BY <1>1, RequestsStep, CredsStep, LinksStep, InvitesStep, TransfersStep
<1>6. TicketsOK' /\ directory' \in [Subjects -> {"ok", "away"}] /\ admissions' \in 0..MaxAdmissions
    BY <1>1, TicketsStep
<1>7. transfer' \in Transfer /\ (transfer'.state = "pending" => transfer'.from \in Users /\ transfer'.to \in Users)
    <2>1. NoTransfer \in Transfer /\ NoTransfer.state = "none"
        BY DEF NoTransfer, Transfer, Assignable
    <2> QED BY <1>1, <1>5, <2>1 DEF TransferStep, Base, TypeOK, Named, Owners
<1>8. TypeOK'
    BY <1>3, <1>5, <1>6, <1>7 DEF TypeOK, AccountsOK, RequestsOK, CredStep, LinkStep, InviteStep, TicketsOK
<1>9. Named'
    BY <1>3, <1>5, <1>6, <1>7 DEF Named, AccountsOK, RequestsOK, CredStep, LinkStep, TicketsOK, Usable, Sound
<1> QED BY <1>4, <1>8, <1>9 DEF Sole, Base

LEMMA Always == Spec => []Sole
BY SoleInit, SoleNext, PTL DEF Spec

\* The rows stay of the shape the tables give them, whatever handlers are interleaved
\* (00001_baseline.sql, 00002_accounts.sql).
THEOREM Typed == Spec => []TypeOK
<1>1. Sole => TypeOK
    BY DEF Sole, Base
<1> QED BY <1>1, Always, PTL

\* There is one owner at most, never blocked, with a password of their own and no entry
\* in the directory (swap and the triggers of ownership).
THEOREM OneOwner == Spec => []OneLocalOwner
<1>1. Sole => OneLocalOwner
    BY DEF Sole
<1> QED BY <1>1, Always, PTL

\* Once set up, an instance always has an owner (swap changes both roles or neither).
THEOREM OwnerAlways == Spec => OwnerStays
<1>1. Sole /\ [Next]_vars => [Owners # {} => Owners' # {}]_vars
    BY AccountsStep, OwnerStep DEF Sole
<1> QED BY <1>1, Always, PTL DEF Spec, OwnerStays

\* Roles, blocking and deletion change only by somebody whose role at that moment
\* reaches the account (the locked row of the actor, users.go).
THEOREM Authority == Spec => AuthorityIsCurrent
<1> DEFINE Allowed(u) ==
        Present(u) /\ <<account[u].role, account[u].blocked>>' # <<account[u].role, account[u].blocked>>
        /\ Owners' = Owners
        => \E q \in Requests :
               /\ request[q].pc = "admitted" /\ request'[q] = Idle
               /\ request[q].user # u
               /\ CanManage(account[request[q].user].role, account[u].role, Present(u)' /\ account'[u].role # account[u].role)
<1>1. ASSUME Sole, [Next]_vars, NEW u \in Users
      PROVE  Allowed(u)
    <2>1. Base /\ OneLocalOwner /\ AccountStep
        BY <1>1, AccountsStep DEF Sole
    <2>2. CASE UNCHANGED account
        BY <2>2
    <2>3. ASSUME NEW w \in Users, NEW new \in Account, account' = [account EXCEPT ![w] = new], Becomes(w, new)
          PROVE  Allowed(u)
        <3>1. CASE w # u
            BY <2>1, <2>3, <3>1 DEF Base, TypeOK
        <3>2. CASE w = u
            <4>1. account'[u] = new
                BY <2>1, <2>3, <3>2 DEF Base, TypeOK
            <4>2. Present(u)' <=> new.role \in Roles
                BY <4>1 DEF Present
            <4>3. CASE ByAuthority(u, new)
                BY <4>1, <4>2, <4>3 DEF ByAuthority, CanManage
            <4>4. CASE ~ByAuthority(u, new)
                BY <2>3, <3>2, <4>1, <4>4 DEF Becomes
            <4> QED BY <4>3, <4>4
        <3> QED BY <3>1, <3>2
    <2>4. ASSUME NEW from \in Users, NEW to \in Users, NEW former \in Assignable, HandsOver(from, to, former)
          PROVE  Owners' # Owners
        <3>1. to \in Owners' /\ to \notin Owners
            BY <2>1, <2>4, HandedOver DEF Owners
        <3> QED BY <3>1
    <2> QED BY <2>1, <2>2, <2>3, <2>4 DEF AccountStep
<1>2. Sole /\ [Next]_vars => [\A u \in Users : Allowed(u)]_vars
    BY <1>1
<1> QED BY <1>2, Always, PTL DEF Spec, AuthorityIsCurrent

\* What was used, refused, withdrawn or lapsed stays so (the row locks of both Redeem).
THEOREM Settled == Spec => SettledStays
<1>1. Sole /\ [Next]_vars
        => [/\ \A i \in Invitations : invite[i].state \in {"used", "revoked", "expired"} => invite'[i].state = invite[i].state
            /\ \A n \in Links : link[n].state \in {"used", "rejected", "expired"} => link'[n].state = link[n].state]_vars
    BY InvitesStep, LinksStep DEF Sole, InviteStep, LinkStep
<1> QED BY <1>1, Always, PTL DEF Spec, SettledStays

-----------------------------------------------------------------------------
(* What relates the accounts to the transfer, the links and the directory. *)

\* The pending transfer is the owner's, to somebody else who has an account
\* (Start, RecoverTransfer and Delete).
THEOREM Pending == Spec => []PendingIsOwners
<1>1. Init => PendingIsOwners
    BY DEF Init, NoTransfer, PendingIsOwners
<1>2. Sole /\ PendingIsOwners /\ [Next]_vars => PendingIsOwners'
    <2> SUFFICES ASSUME Sole, PendingIsOwners, [Next]_vars, transfer'.state = "pending"
                 PROVE  transfer'.from \in Owners' /\ transfer'.to # transfer'.from /\ account'[transfer'.to].role \in Roles
        BY DEF PendingIsOwners, Present
    <2>1. Base /\ OneLocalOwner /\ AccountStep /\ TransferStep
        BY AccountsStep, TransfersStep DEF Sole
    <2>2. transfer' # NoTransfer
        BY DEF NoTransfer
    <2>3. CASE UNCHANGED account /\ transfer'.from \in Owners /\ transfer'.to # transfer'.from /\ Present(transfer'.to)
        BY <2>3 DEF Owners, Present
    <2>4. CASE UNCHANGED transfer
        <3> DEFINE from == transfer.from
                   to == transfer.to
        <3>1. from \in Owners /\ to # from /\ Present(to) /\ from \in Users /\ to \in Users
            BY <2>1, <2>4 DEF PendingIsOwners, Base, Named
        <3>2. CASE UNCHANGED account
            BY <2>4, <3>1, <3>2 DEF Owners, Present
        <3>3. ASSUME NEW u \in Users, NEW new \in Account, account' = [account EXCEPT ![u] = new], Becomes(u, new)
              PROVE  from \in Owners' /\ account'[to].role \in Roles
            <4>1. account'[u] = new /\ \A v \in Users \ {u} : account'[v] = account[v]
                BY <2>1, <3>3 DEF Base, TypeOK
            <4>2. from \in Owners'
                BY <3>1, <3>3, <4>1 DEF Becomes, Owners
            <4>3. u = to => new.role \in Roles
                BY <2>2, <2>4, <3>1, <3>3 DEF Becomes
            <4>4. account'[to].role \in Roles
                BY <3>1, <4>1, <4>3 DEF Present
            <4> QED BY <4>2, <4>4
        <3>4. ~\E a, b \in Users : \E former \in Assignable : HandsOver(a, b, former)
            BY <2>2 DEF HandsOver
        <3> QED BY <2>1, <2>4, <3>1, <3>2, <3>3, <3>4 DEF AccountStep
    <2> QED BY <2>1, <2>2, <2>3, <2>4 DEF TransferStep
<1> QED BY <1>1, <1>2, Always, PTL DEF Spec

\* A reset leaves no older link usable and no older credential alive (Redeem).
THEOREM NothingOlder == Spec => []NothingOlderThanReset
<1>1. Init => NothingOlderThanReset
    BY DEF Init, NoCredential, NothingOlderThanReset
<1>2. Sole /\ NothingOlderThanReset /\ [Next]_vars => NothingOlderThanReset'
    <2> SUFFICES ASSUME Sole, NothingOlderThanReset, [Next]_vars
                 PROVE  NothingOlderThanReset'
        OBVIOUS
    <2>1. Base /\ OneLocalOwner /\ AccountStep /\ CredStep /\ LinkStep
        BY AccountsStep, CredsStep, LinksStep DEF Sole
    <2>2. DOMAIN cred = Sessions \cup Tokens /\ DOMAIN cred' = Sessions \cup Tokens
        BY <2>1 DEF CredStep, Base, TypeOK
    <2>3. ASSUME NEW n \in Links, link'[n].state = "approved"
          PROVE  link'[n].era = account'[link'[n].user].era
        <3>1. link'[n].user \in Users
            BY <2>1, <2>3 DEF LinkStep, Usable
        <3>2. account'[link'[n].user].era = account[link'[n].user].era
            BY <2>1, <2>3, <3>1, EraStays
        <3> QED BY <2>1, <2>3, <3>2 DEF LinkStep, NothingOlderThanReset
    <2>4. ASSUME NEW c \in Sessions \cup Tokens, cred'[c].live
          PROVE  cred'[c].born = account'[cred'[c].user].era
        <3>1. cred'[c].user \in Users
            BY <2>1, <2>4 DEF CredStep
        <3>2. account'[cred'[c].user].era = account[cred'[c].user].era
            BY <2>1, <2>4, <3>1, EraStays
        <3> QED BY <2>1, <2>2, <2>4, <3>2 DEF CredStep, NothingOlderThanReset
    <2> QED BY <2>2, <2>3, <2>4 DEF NothingOlderThanReset
<1> QED BY <1>1, <1>2, Always, PTL DEF Spec

\* An entry of the directory is tied to one account (UNIQUE (provider, subject)).
THEOREM OneAccount == Spec => []OnePersonOneAccount
<1>1. Init => OnePersonOneAccount
    BY AbsentType DEF Init, OnePersonOneAccount
<1>2. Sole /\ OnePersonOneAccount /\ [Next]_vars => OnePersonOneAccount'
    <2> SUFFICES ASSUME Sole, OnePersonOneAccount, [Next]_vars
                 PROVE  OnePersonOneAccount'
        OBVIOUS
    <2>1. Base /\ OneLocalOwner /\ AccountStep
        BY AccountsStep DEF Sole
    <2>2. CASE UNCHANGED account
        BY <2>2 DEF OnePersonOneAccount
    <2>3. ASSUME NEW u \in Users, NEW new \in Account, account' = [account EXCEPT ![u] = new], Becomes(u, new)
          PROVE  OnePersonOneAccount'
        <3>1. account'[u] = new /\ \A v \in Users \ {u} : account'[v] = account[v]
            BY <2>1, <2>3 DEF Base, TypeOK
        <3>2. new.subject \in {NoOne, account[u].subject} \/ \A v \in Users : account[v].subject # new.subject
            BY <2>3 DEF Becomes, Tied
        <3> QED BY <3>1, <3>2 DEF OnePersonOneAccount
    <2>4. ASSUME NEW from \in Users, NEW to \in Users, NEW former \in Assignable, HandsOver(from, to, former)
          PROVE  OnePersonOneAccount'
        BY <2>1, <2>4, HandedOver DEF OnePersonOneAccount
    <2> QED BY <2>1, <2>2, <2>3, <2>4 DEF AccountStep
<1> QED BY <1>1, <1>2, Always, PTL DEF Spec
=============================================================================
