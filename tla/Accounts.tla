------------------------------ MODULE Accounts ------------------------------
(***************************************************************************)
(* Who may do what in an instance of Codice: accounts and their roles, the *)
(* one owner and the transfer of ownership, blocking and deletion,         *)
(* invitations, password resets, sign-in (local and through a directory),  *)
(* sessions and app tokens.                                                *)
(*                                                                         *)
(* A handler that is one transaction over rows it locks is one action.     *)
(* What a request learnt before that transaction (that its session is      *)
(* good, that a password matched, that its role may invite) is kept in     *)
(* request[q] and may be old when it is used.  Deadlines pass at any time. *)
(* Names, e-mails, notices, the audit log and the record of sign-ins are   *)
(* left out.                                                               *)
(***************************************************************************)
EXTENDS Naturals, FiniteSets

CONSTANTS
    Users,          \* the ids an account may get; one is never used again
    Sessions, Tokens,
    Invitations, Tickets,
    Subjects,       \* the entries of the directory
    Requests,       \* requests that may be in progress at once
    MaxLinks,       \* bound: password resets, asked for or issued
    MaxAdmissions,  \* bound: requests that are let in or signed in
    NoOne           \* no user, session or subject

Roles == {"owner", "admin", "reader"}
Assignable == {"admin", "reader"}
Links == 1..MaxLinks

ASSUME AccountsAssumption ==
    /\ MaxLinks \in Nat /\ MaxAdmissions \in Nat
    /\ NoOne \notin Users \cup Sessions \cup Tokens \cup Subjects
    /\ Sessions \cap Tokens = {}

VARIABLES
    account,    \* [Users -> Account]
    cred,       \* the sessions and app tokens
    invite,     \* the invitations
    link,       \* the password resets, numbered in the order they are made
    transfer,   \* the transfer of ownership that waits for an answer
    ticket,     \* the tickets to join an account and a directory entry
    directory,  \* what the directory answers about each entry
    request,    \* what each request in progress knows
    admissions  \* bound: how many requests came in

vars == <<account, cred, invite, link, transfer, ticket, directory, request, admissions>>

-----------------------------------------------------------------------------

\* History: era counts the resets of an account; key is the era of its password.
\* Of a credential, era is that of the password that opened it and born that of
\* the account when it was opened.
Account == [role : Roles \cup {"none", "deleted"}, blocked : BOOLEAN, password : BOOLEAN,
            subject : Subjects \cup {NoOne}, era : Nat, key : Nat]
\* A row as it is inserted.
NewAccount(role, password, subject) ==
    [role |-> role, blocked |-> FALSE, password |-> password, subject |-> subject, era |-> 0, key |-> 0]
Absent == NewAccount("none", FALSE, NoOne)

\* A session or token that ended leaves its name to another.
Credential == [live : BOOLEAN, user : Users \cup {NoOne}, era : Nat, born : Nat]
NoCredential == [live |-> FALSE, user |-> NoOne, era |-> 0, born |-> 0]
Invitation == [state : {"unused", "pending", "used", "revoked", "expired"},
               role : Assignable, by : Users \cup {NoOne}]
Link == [state : {"unused", "waiting", "approved", "rejected", "expired", "used"},
         user : Users \cup {NoOne}, command : BOOLEAN, era : Nat]
Transfer == [state : {"none", "pending"}, from : Users \cup {NoOne},
             to : Users \cup {NoOne}, former : Assignable]
Ticket == [state : {"unused", "open", "used"}, user : Users \cup {NoOne}, subject : Subjects \cup {NoOne}]
Request == [pc : {"idle", "admitted", "opening", "inviting", "changing", "creating"},
            user : Users \cup Subjects \cup {NoOne}, role : Roles \cup {"none"},
            session : Sessions \cup {NoOne}, era : Nat]
Idle == [pc |-> "idle", user |-> NoOne, role |-> "none", session |-> NoOne, era |-> 0]

\* Nothing pending: never offered, accepted, cancelled, declined or lapsed.
NoTransfer == [state |-> "none", from |-> NoOne, to |-> NoOne, former |-> "reader"]

Present(u) == account[u].role \in Roles
Active(u) == Present(u) /\ ~account[u].blocked
Owners == {u \in Users : account[u].role = "owner"}

\* Mutant: nobody is out of reach of an admin.
CanManageAny(actor, target, changesRole) ==
    \/ actor = "owner" /\ target \in Assignable
    \/ actor = "admin" /\ ~changesRole

\* CanManageAccount.  Only the owner changes roles.
CanManage(actor, target, changesRole) ==
    \/ actor = "owner" /\ target \in Assignable
    \/ actor = "admin" /\ target = "reader" /\ ~changesRole

CanInvite(actor, role) == actor = "owner" \/ (actor = "admin" /\ role = "reader")

\* The rows of the sessions and tokens in cs, ended.
Ended(cs) == [c \in DOMAIN cred |-> IF c \in cs THEN NoCredential ELSE cred[c]]
CredentialsOf(u) == {c \in DOMAIN cred : cred[c].user = u}
Unused(c) == ~cred[c].live /\ \A q \in Requests : request[q].session # c
Opened(u, era) == [live |-> TRUE, user |-> u, era |-> era, born |-> account[u].era]

\* Mutant: the app tokens are forgotten.
RevokeAllSessionsOnly(u) == Ended(CredentialsOf(u) \cap Sessions)

\* RevokeAllForUserTx.
RevokeAllForUser(u) == Ended(CredentialsOf(u))

\* revokeIssuedInvitations.
RevokeIssued(u) ==
    [i \in Invitations |-> IF invite[i].by = u /\ invite[i].state = "pending"
                           THEN [invite[i] EXCEPT !.state = "revoked"] ELSE invite[i]]

\* token_expires_at = now() for the approved links of u that nobody used.
ExpireLinks(u) ==
    [n \in Links |-> IF link[n].user = u /\ link[n].state = "approved"
                     THEN [link[n] EXCEPT !.state = "expired"] ELSE link[n]]

Await(q, pc, u, role, s, era) ==
    request' = [request EXCEPT ![q] = [pc |-> pc, user |-> u, role |-> role, session |-> s, era |-> era]]
Answer(q) == request' = [request EXCEPT ![q] = Idle]
Admitted(q) == request[q].pc = "admitted"
Asks(q, roles) == Admitted(q) /\ request[q].role \in roles

ComesIn == admissions < MaxAdmissions /\ admissions' = admissions + 1

-----------------------------------------------------------------------------
(* Coming in. *)

\* finish and CheckSession: the request of a live session.
Admit(q, s) ==
    /\ request[q].pc = "idle"
    /\ ComesIn
    /\ cred[s].live
    /\ Active(cred[s].user)
    /\ Await(q, "admitted", cred[s].user, account[cred[s].user].role, s, cred[s].era)
    /\ UNCHANGED <<account, cred, invite, link, transfer, ticket, directory>>

\* login: the password matches that of a local account.
LoginLocal(q, u) ==
    /\ request[q].pc = "idle"
    /\ ComesIn
    /\ Active(u)
    /\ account[u].password
    /\ account[u].subject = NoOne \/ account[u].role = "owner"
    /\ Await(q, "opening", u, "none", NoOne, account[u].key)
    /\ UNCHANGED <<account, cred, invite, link, transfer, ticket, directory>>

\* loginLinked: the directory confirms the password of the entry of a linked account.
LoginLinked(q, u) ==
    /\ request[q].pc = "idle"
    /\ ComesIn
    /\ Active(u)
    /\ account[u].role # "owner"
    /\ account[u].subject # NoOne
    /\ directory[account[u].subject] = "ok"
    /\ Await(q, "opening", u, "none", NoOne, account[u].era)
    /\ UNCHANGED <<account, cred, invite, link, transfer, ticket, directory>>

\* offerLink, and loginUnknown for an entry with the e-mail of a local account.
OfferTicket(u, d, k) ==
    /\ Active(u)
    /\ account[u].role # "owner" /\ account[u].password /\ account[u].subject = NoOne
    /\ directory[d] = "ok"
    /\ \A v \in Users : account[v].subject # d
    /\ ticket[k].state = "unused"
    /\ ticket' = [ticket EXCEPT ![k] = [state |-> "open", user |-> u, subject |-> d]]
    /\ UNCHANGED <<account, cred, invite, link, transfer, directory, request, admissions>>

\* loginUnknown: a person the directory knows and no account is tied to.
LoginUnknown(q, d) ==
    /\ request[q].pc = "idle"
    /\ ComesIn
    /\ directory[d] = "ok"
    /\ \A u \in Users : account[u].subject # d
    /\ Await(q, "creating", d, "none", NoOne, 0)
    /\ UNCHANGED <<account, cred, invite, link, transfer, ticket, directory>>

\* Mutant: an identity may be inserted twice.
TiedToNobody(d) == FALSE

\* UNIQUE (provider, subject).
Tied(d) == \E u \in Users : account[u].subject = d

\* CreateAccount.  Somebody else's first sign-in may have made the account meanwhile.
FirstLogin(q) ==
    /\ request[q].pc = "creating"
    /\ LET d == request[q].user
       IN  IF Tied(d)
           THEN /\ \/ \E u \in Users : /\ account[u].subject = d
                                       /\ Active(u) /\ account[u].role # "owner"
                                       /\ Await(q, "opening", u, "none", NoOne, account[u].era)
                   \/ /\ \A u \in Users : account[u].subject = d => ~Active(u) \/ account[u].role = "owner"
                      /\ Answer(q)
                /\ UNCHANGED account
           ELSE \E u \in Users :
                    /\ account[u].role = "none"
                    /\ account' = [account EXCEPT ![u] = NewAccount("reader", FALSE, d)]
                    /\ Await(q, "opening", u, "none", NoOne, 0)
    /\ UNCHANGED <<cred, invite, link, transfer, ticket, directory, admissions>>

\* LinkWithTicket with the right local password.  A wrong one only counts down.  An
\* account may have several entries of the directory; of them the model keeps the last.
LinkWithTicket(q, k) ==
    /\ request[q].pc = "idle"
    /\ ComesIn
    /\ ticket[k].state = "open"
    /\ LET u == ticket[k].user
       IN  /\ Active(u)
           /\ account[u].role # "owner" /\ account[u].password
           /\ ~Tied(ticket[k].subject)
           /\ account' = [account EXCEPT ![u].subject = ticket[k].subject]
           /\ Await(q, "opening", u, "none", NoOne, account[u].key)
    /\ ticket' = [ticket EXCEPT ![k].state = "used"]
    /\ UNCHANGED <<cred, invite, link, transfer, directory>>

\* Five wrong passwords, or five minutes.
BurnTicket(k) ==
    /\ ticket[k].state = "open"
    /\ ticket' = [ticket EXCEPT ![k].state = "used"]
    /\ UNCHANGED <<account, cred, invite, link, transfer, directory, request, admissions>>

\* newSessionToken: the session of a sign-in.  Only a deleted account has none.
OpenSession(q) ==
    /\ request[q].pc = "opening"
    /\ IF Present(request[q].user)
       THEN \E s \in Sessions :
                /\ Unused(s)
                /\ cred' = [cred EXCEPT ![s] = Opened(request[q].user, request[q].era)]
       ELSE UNCHANGED cred
    /\ Answer(q)
    /\ UNCHANGED <<account, invite, link, transfer, ticket, directory, admissions>>

\* Register, where the operator allows it.
Register(u) ==
    /\ account[u].role = "none"
    /\ account' = [account EXCEPT ![u] = NewAccount("reader", TRUE, NoOne)]
    /\ UNCHANGED <<cred, invite, link, transfer, ticket, directory, request, admissions>>

\* SetupMasterAdmin.  An advisory lock makes the count and the insert one step.
SetupMasterAdmin(q, u) ==
    /\ request[q].pc = "idle"
    /\ ComesIn
    /\ \A v \in Users : ~Present(v)
    /\ account[u].role = "none"
    /\ account' = [account EXCEPT ![u] = NewAccount("owner", TRUE, NoOne)]
    /\ Await(q, "opening", u, "none", NoOne, 0)
    /\ UNCHANGED <<cred, invite, link, transfer, ticket, directory>>

-----------------------------------------------------------------------------
(* Sessions, app tokens and one's own password. *)

\* RevokeOwned (Logout when s is the session in use), RevokeOthers.
EndOwnSessions(q) ==
    /\ Admitted(q)
    /\ LET mine == CredentialsOf(request[q].user) \cap Sessions
       IN  \/ \E s \in mine : cred' = Ended({s})
           \/ cred' = Ended(mine \ {request[q].session})
    /\ Answer(q)
    /\ UNCHANGED <<account, invite, link, transfer, ticket, directory, admissions>>

\* RevokeFor and RevokeAllFor, on the role the request came in with.
EndSessionsFor(q, u) ==
    /\ Asks(q, {"owner", "admin"})
    /\ Present(u) /\ u # request[q].user
    /\ CanManage(request[q].role, account[u].role, FALSE)
    /\ LET theirs == CredentialsOf(u) \cap Sessions
       IN  \/ \E s \in theirs : cred' = Ended({s})
           \/ cred' = Ended(theirs)
    /\ Answer(q)
    /\ UNCHANGED <<account, invite, link, transfer, ticket, directory, admissions>>

\* CreateScopedAppToken: an insert alone.  Only a deleted account cannot have it.
CreateAppToken(q, t) ==
    /\ Admitted(q)
    /\ Present(request[q].user)
    /\ Unused(t)
    /\ cred' = [cred EXCEPT ![t] = Opened(request[q].user, request[q].era)]
    /\ Answer(q)
    /\ UNCHANGED <<account, invite, link, transfer, ticket, directory, admissions>>

\* RevokeAppToken.
RevokeAppToken(q, t) ==
    /\ Admitted(q)
    /\ cred[t].user = request[q].user /\ cred[t].live
    /\ cred' = Ended({t})
    /\ Answer(q)
    /\ UNCHANGED <<account, invite, link, transfer, ticket, directory, admissions>>

\* expires_at of a session passes.
SessionExpires(s) ==
    /\ cred[s].live
    /\ cred' = Ended({s})
    /\ UNCHANGED <<account, invite, link, transfer, ticket, directory, request, admissions>>

\* ChangePassword: the current password is proven, then the new one is hashed.
ProvePassword(q) ==
    /\ Admitted(q)
    /\ Present(request[q].user) /\ account[request[q].user].password
    /\ Await(q, "changing", request[q].user, request[q].role, request[q].session, account[request[q].user].key)
    /\ UNCHANGED <<account, cred, invite, link, transfer, ticket, directory, admissions>>

\* ChangePassword: the new hash is written over whatever is there, and the other
\* sessions end.  The person's own words make the new password as old as the proof.
ChangePassword(q) ==
    /\ request[q].pc = "changing"
    /\ LET u == request[q].user
       IN  IF Present(u)
           THEN /\ account' = [account EXCEPT ![u].password = TRUE, ![u].key = request[q].era]
                /\ cred' = Ended((CredentialsOf(u) \cap Sessions) \ {request[q].session})
           ELSE UNCHANGED <<account, cred>>
    /\ Answer(q)
    /\ UNCHANGED <<invite, link, transfer, ticket, directory, admissions>>

-----------------------------------------------------------------------------
(* Invitations. *)

\* Create: the role is read first, of an account that is not blocked.
MayInvite(q, role) ==
    /\ Asks(q, {"owner", "admin"})
    /\ Active(request[q].user)
    /\ CanInvite(account[request[q].user].role, role)
    /\ Await(q, "inviting", request[q].user, role, request[q].session, request[q].era)
    /\ UNCHANGED <<account, cred, invite, link, transfer, ticket, directory, admissions>>

\* Create: the insert, in a transaction of its own.
CreateInvitation(q) ==
    /\ request[q].pc = "inviting"
    /\ IF Present(request[q].user)
       THEN \E i \in Invitations :
                /\ invite[i].state = "unused"
                /\ invite' = [invite EXCEPT ![i] = [state |-> "pending", role |-> request[q].role,
                                                    by |-> request[q].user]]
       ELSE UNCHANGED invite
    /\ Answer(q)
    /\ UNCHANGED <<account, cred, link, transfer, ticket, directory, admissions>>

\* A role that a transaction reads of who asks, without a lock: an old one, or that of now.
RoleRead(q) == {request[q].role, account[request[q].user].role}

\* Revoke
RevokeInvitation(q, i) ==
    /\ Asks(q, {"owner", "admin"})
    /\ Present(request[q].user)
    /\ \E role \in RoleRead(q) : CanInvite(role, invite[i].role)
    /\ invite[i].state = "pending"
    /\ invite' = [invite EXCEPT ![i].state = "revoked"]
    /\ Answer(q)
    /\ UNCHANGED <<account, cred, link, transfer, ticket, directory, admissions>>

InvitationExpires(i) ==
    /\ invite[i].state = "pending"
    /\ invite' = [invite EXCEPT ![i].state = "expired"]
    /\ UNCHANGED <<account, cred, link, transfer, ticket, directory, request, admissions>>

\* The row of a redeem: pending, and locked until the account is made.
Waits(i) == invite[i].state = "pending"

\* Redeem: the account, and the invitation used up, in one transaction.
RedeemInvitation(q, i, u) ==
    /\ request[q].pc = "idle"
    /\ ComesIn
    /\ Waits(i)
    /\ account[u].role = "none"
    /\ account' = [account EXCEPT ![u] = NewAccount(invite[i].role, TRUE, NoOne)]
    /\ invite' = [invite EXCEPT ![i].state = "used"]
    /\ Await(q, "opening", u, "none", NoOne, 0)
    /\ UNCHANGED <<cred, link, transfer, ticket, directory>>
-----------------------------------------------------------------------------
(* Password resets. *)

\* record: at most one request of an account waits; the owner cannot ask.
AskReset(n, u) ==
    /\ link[n].state = "unused" /\ \A k \in Links : k < n => link[k].state # "unused"
    /\ Active(u) /\ account[u].role # "owner" /\ account[u].password
    /\ \A k \in Links : link[k].user = u => link[k].state # "waiting"
    /\ link' = [link EXCEPT ![n] = [state |-> "waiting", user |-> u, command |-> FALSE, era |-> account[u].era]]
    /\ UNCHANGED <<account, cred, invite, transfer, ticket, directory, request, admissions>>

\* lockRequest: who may decide about which request.  Only the request is locked; of the
\* account it is for, which is read with it, the model has the values of now.
MayDecide(q, n) ==
    /\ Asks(q, {"owner", "admin"})
    /\ Present(request[q].user)
    /\ link[n].state = "waiting"
    /\ \E role \in RoleRead(q) : CanManage(role, account[link[n].user].role, FALSE)
    /\ Active(link[n].user) /\ account[link[n].user].password

\* Approve and Reject.
DecideReset(q, n) ==
    /\ MayDecide(q, n)
    /\ \/ link' = [link EXCEPT ![n].state = "approved", ![n].era = account[link[n].user].era]
       \/ link' = [link EXCEPT ![n].state = "rejected"]
    /\ Answer(q)
    /\ UNCHANGED <<account, cred, invite, transfer, ticket, directory, admissions>>

\* resetRequestTTL of a request, resetLinkTTL of a link.
LinkExpires(n) ==
    /\ link[n].state \in {"waiting", "approved"}
    /\ link' = [link EXCEPT ![n].state = "expired"]
    /\ UNCHANGED <<account, cred, invite, transfer, ticket, directory, request, admissions>>

\* Mutant: the other links of the account stay good.
LinksLeftUsable(u) == link

\* Redeem: "Any other approved link for this account dies with this use."
LinksAfterReset(u) == ExpireLinks(u)

\* Redeem: the new password ends every session and app token.
RedeemReset(n) ==
    /\ link[n].state = "approved"
    /\ LET u == link[n].user
       IN  /\ Active(u)
           /\ account' = [account EXCEPT ![u].password = TRUE, ![u].era = @ + 1, ![u].key = account[u].era + 1]
           /\ link' = [LinksAfterReset(u) EXCEPT ![n].state = "used"]
           /\ cred' = RevokeAllForUser(u)
    /\ UNCHANGED <<invite, transfer, ticket, directory, request, admissions>>

-----------------------------------------------------------------------------
(* The accounts of others. *)

\* Mutant: the role the request came in with, which may be old.
RoleOfRequest(q) == request[q].role

\* The actor's row, read and locked inside the transaction.
RoleNow(q) == IF Present(request[q].user) THEN account[request[q].user].role ELSE "none"

\* UpdateRole.
UpdateRole(q, u, role) ==
    /\ Asks(q, {"owner"})
    /\ Present(u)
    /\ CanManage(RoleNow(q), account[u].role, TRUE)
    /\ account' = [account EXCEPT ![u].role = role]
    /\ Answer(q)
    /\ UNCHANGED <<cred, invite, link, transfer, ticket, directory, admissions>>

\* setBlocked: blocking ends the access, and the invitations handed out.
Block(q, u) ==
    /\ Asks(q, {"owner", "admin"})
    /\ Present(u) /\ u # request[q].user
    /\ CanManage(RoleNow(q), account[u].role, FALSE)
    /\ account' = [account EXCEPT ![u].blocked = TRUE]
    /\ cred' = RevokeAllForUser(u)
    /\ invite' = RevokeIssued(u)
    /\ Answer(q)
    /\ UNCHANGED <<link, transfer, ticket, directory, admissions>>

Unblock(q, u) ==
    /\ Asks(q, {"owner", "admin"})
    /\ Present(u) /\ u # request[q].user
    /\ CanManage(RoleNow(q), account[u].role, FALSE)
    /\ account' = [account EXCEPT ![u].blocked = FALSE]
    /\ Answer(q)
    /\ UNCHANGED <<cred, invite, link, transfer, ticket, directory, admissions>>

\* Delete.  The rows that refer to the account go with it.
Delete(q, u) ==
    /\ Asks(q, {"owner", "admin"})
    /\ Present(u) /\ u # request[q].user
    /\ CanManage(RoleNow(q), account[u].role, FALSE)
    /\ account' = [account EXCEPT ![u] = NewAccount("deleted", FALSE, NoOne)]
    /\ cred' = RevokeAllForUser(u)
    /\ invite' = RevokeIssued(u)
    /\ link' = [n \in Links |-> IF link[n].user = u /\ link[n].state \in {"waiting", "approved"}
                                THEN [link[n] EXCEPT !.state = "expired"] ELSE link[n]]
    /\ transfer' = IF u \in {transfer.from, transfer.to} THEN NoTransfer ELSE transfer
    /\ ticket' = [k \in Tickets |-> IF ticket[k].user = u THEN [ticket[k] EXCEPT !.state = "used"] ELSE ticket[k]]
    /\ Answer(q)
    /\ UNCHANGED <<directory, admissions>>
-----------------------------------------------------------------------------
(* Ownership.  Every transaction here holds one advisory lock. *)

\* eligible, but for the entry of the directory, which Eligible takes as it was read.
Eligible(u, external) ==
    /\ Active(u) /\ account[u].role # "owner"
    /\ account[u].password
    /\ ~external

\* What the EXISTS of eligible may answer: it is read from the statement's snapshot,
\* taken before the row lock is waited for, so a link made meanwhile is not in it.
External(u) == {account[u].subject # NoOne, FALSE}

\* Start, with the owner's own password.
StartTransfer(q, u, former) ==
    /\ Asks(q, {"owner"})
    /\ RoleNow(q) = "owner" /\ account[request[q].user].password
    /\ u # request[q].user
    /\ \E external \in External(u) : Eligible(u, external)
    /\ transfer.state # "pending"
    /\ transfer' = [state |-> "pending", from |-> request[q].user, to |-> u, former |-> former]
    /\ Answer(q)
    /\ UNCHANGED <<account, cred, invite, link, ticket, directory, admissions>>

\* decide: Cancel by the owner who started it, Decline by the account it is offered to.
DecideTransfer(q) ==
    /\ Admitted(q)
    /\ transfer.state = "pending"
    /\ \/ request[q].user = transfer.to
       \/ request[q].user = transfer.from /\ request[q].role = "owner"
    /\ transfer' = NoTransfer
    /\ Answer(q)
    /\ UNCHANGED <<account, cred, invite, link, ticket, directory, admissions>>

TransferExpires ==
    /\ transfer.state = "pending"
    /\ transfer' = NoTransfer
    /\ UNCHANGED <<account, cred, invite, link, ticket, directory, request, admissions>>

\* Mutant: the database has no trigger against an owner with an external identity.
NoTrigger(u) == TRUE

\* owner_has_no_external_identity.
TriggerAllows(u) == account[u].subject = NoOne

\* swap: both roles change, or neither does.
Swap(from, to, former) ==
    /\ account[from].role = "owner"
    /\ Active(to) /\ account[to].role # "owner"
    /\ TriggerAllows(to)
    /\ account' = [account EXCEPT ![from].role = former, ![to].role = "owner"]

\* Accept, with the password of the account that takes over.
AcceptTransfer(q) ==
    /\ Admitted(q)
    /\ transfer.state = "pending" /\ transfer.to = request[q].user
    /\ \E external \in External(transfer.to) : Eligible(transfer.to, external)
    /\ Swap(transfer.from, transfer.to, transfer.former)
    /\ transfer' = NoTransfer
    /\ Answer(q)
    /\ UNCHANGED <<cred, invite, link, ticket, directory, admissions>>

\* RecoverAccess, the local command: a link for the owner, and every access ended.
RecoverAccess(n) ==
    /\ link[n].state = "unused" /\ \A k \in Links : k < n => link[k].state # "unused"
    /\ \E u \in Owners :
           /\ link' = [ExpireLinks(u) EXCEPT ![n] = [state |-> "approved", user |-> u, command |-> TRUE, era |-> account[u].era]]
           /\ cred' = RevokeAllForUser(u)
    /\ UNCHANGED <<account, invite, transfer, ticket, directory, request, admissions>>

\* Mutant: the pending transfer of the former owner survives the command.
LeftPending == transfer

\* "A transfer the former owner had started no longer makes sense."
Withdrawn == NoTransfer

\* RecoverTransfer, the local command: the owner is out of reach.
RecoverTransfer(u, former) ==
    /\ \E external \in External(u) : Eligible(u, external)
    /\ \E from \in Owners :
           /\ Swap(from, u, former)
           /\ cred' = RevokeAllForUser(from)
    /\ transfer' = Withdrawn
    /\ UNCHANGED <<invite, link, ticket, directory, request, admissions>>

-----------------------------------------------------------------------------
(* The directory. *)

\* External: an entry disappears or cannot be asked about, or is back.
DirectoryChanges(d, answer) ==
    /\ directory[d] # answer
    /\ directory' = [directory EXCEPT ![d] = answer]
    /\ UNCHANGED <<account, cred, invite, link, transfer, ticket, request, admissions>>

\* Sweep, for one account with a live session: gone now, or not confirmed for too long.
Sweep(u) ==
    /\ account[u].subject # NoOne
    /\ directory[account[u].subject] # "ok"
    /\ CredentialsOf(u) \cap Sessions # {}
    /\ cred' = RevokeAllForUser(u)
    /\ UNCHANGED <<account, invite, link, transfer, ticket, directory, request, admissions>>

-----------------------------------------------------------------------------

Init ==
    /\ account = [u \in Users |-> Absent]
    /\ cred = [c \in Sessions \cup Tokens |-> NoCredential]
    /\ invite = [i \in Invitations |-> [state |-> "unused", role |-> "reader", by |-> NoOne]]
    /\ link = [n \in Links |-> [state |-> "unused", user |-> NoOne, command |-> FALSE, era |-> 0]]
    /\ transfer = NoTransfer
    /\ ticket = [k \in Tickets |-> [state |-> "unused", user |-> NoOne, subject |-> NoOne]]
    /\ directory = [d \in Subjects |-> "ok"]
    /\ request = [q \in Requests |-> Idle]
    /\ admissions = 0

Next ==
    \/ \E q \in Requests, u \in Users :
           \/ LoginLocal(q, u) \/ LoginLinked(q, u) \/ SetupMasterAdmin(q, u)
           \/ EndSessionsFor(q, u) \/ Block(q, u) \/ Unblock(q, u) \/ Delete(q, u)
           \/ \E role \in Assignable : UpdateRole(q, u, role) \/ StartTransfer(q, u, role)
           \/ \E i \in Invitations : RedeemInvitation(q, i, u)
    \/ \E q \in Requests :
           \/ \E s \in Sessions : Admit(q, s)
           \/ \E d \in Subjects : LoginUnknown(q, d)
           \/ \E k \in Tickets : LinkWithTicket(q, k)
           \/ \E t \in Tokens : CreateAppToken(q, t) \/ RevokeAppToken(q, t)
           \/ \E role \in Assignable : MayInvite(q, role)
           \/ \E i \in Invitations : RevokeInvitation(q, i)
           \/ \E n \in Links : DecideReset(q, n)
           \/ FirstLogin(q) \/ OpenSession(q) \/ EndOwnSessions(q)
           \/ ProvePassword(q) \/ ChangePassword(q) \/ CreateInvitation(q)
           \/ DecideTransfer(q) \/ AcceptTransfer(q)
    \/ \E u \in Users :
           \/ Register(u) \/ Sweep(u)
           \/ \E n \in Links : AskReset(n, u)
           \/ \E former \in Assignable : RecoverTransfer(u, former)
           \/ \E d \in Subjects, k \in Tickets : OfferTicket(u, d, k)
    \/ \E n \in Links : LinkExpires(n) \/ RedeemReset(n) \/ RecoverAccess(n)
    \/ \E k \in Tickets : BurnTicket(k)
    \/ \E s \in Sessions : SessionExpires(s)
    \/ \E i \in Invitations : InvitationExpires(i)
    \/ \E d \in Subjects, answer \in {"ok", "away"} : DirectoryChanges(d, answer)
    \/ TransferExpires

Spec == Init /\ [][Next]_vars
-----------------------------------------------------------------------------
(* Properties. *)

TypeOK ==
    /\ account \in [Users -> Account]
    /\ cred \in [Sessions \cup Tokens -> Credential]
    /\ invite \in [Invitations -> Invitation]
    /\ link \in [Links -> Link]
    /\ transfer \in Transfer
    /\ ticket \in [Tickets -> Ticket]
    /\ directory \in [Subjects -> {"ok", "away"}]
    /\ request \in [Requests -> Request]
    /\ admissions \in 0..MaxAdmissions

\* There is at most one owner, never blocked, who has a password of their own and no
\* entry in the directory, whatever transfers, links and commands are interleaved
\* (swap, the two triggers, eligible, LinkWithTicket).
OneLocalOwner ==
    \A u \in Owners :
        /\ Owners = {u}
        /\ Active(u) /\ account[u].password /\ account[u].subject = NoOne

\* A set-up instance always has an owner (swap changes both roles or neither).
OwnerStays == [][Owners # {} => Owners' # {}]_vars

\* The transfer that waits was offered by the one who is the owner now, to somebody
\* else who still has an account: accepting it takes nothing from a third person.
PendingIsOwners ==
    transfer.state = "pending" => /\ transfer.from \in Owners
                                  /\ transfer.to # transfer.from
                                  /\ Present(transfer.to)

\* A reset leaves no older way in: the links that can be used were approved since the
\* last reset of their account, and every credential that works was opened since
\* (Redeem of password_resets.go).  A sign-in in progress may still open one that is of an
\* older password after the reset: see ResetEndsAccess.
NothingOlderThanReset ==
    /\ \A n \in Links : link[n].state = "approved" => link[n].era = account[link[n].user].era
    /\ \A c \in DOMAIN cred : cred[c].live => cred[c].born = account[cred[c].user].era

\* An entry of the directory signs in to one account, whoever is first of a first
\* sign-in and of a ticket (UNIQUE (provider, subject)).
OnePersonOneAccount ==
    \A u, v \in Users : account[u].subject = account[v].subject /\ account[u].subject # NoOne => u = v

\* The roles, the blocking and the deletion of an account change only by a request of
\* somebody else whose role, in the database as it is then, reaches the account; but
\* for the hand-over of ownership ("a stale token cannot exercise a role the account
\* no longer has", users.go).
AuthorityIsCurrent ==
    [][\A u \in Users :
          Present(u) /\ <<account[u].role, account[u].blocked>>' # <<account[u].role, account[u].blocked>>
          /\ Owners' = Owners
          => \E q \in Requests :
                 /\ request[q].pc = "admitted" /\ request'[q] = Idle
                 /\ request[q].user # u
                 /\ CanManage(account[request[q].user].role, account[u].role, Present(u)' /\ account'[u].role # account[u].role)]_vars

\* An invitation, and a reset, that was used, refused or withdrawn, or that lapsed,
\* stays that way: its link works once (the row locks of the two Redeem).
SettledStays ==
    [][/\ \A i \in Invitations : invite[i].state \in {"used", "revoked", "expired"} => invite'[i].state = invite[i].state
       /\ \A n \in Links : link[n].state \in {"used", "rejected", "expired"} => link'[n].state = link[n].state]_vars

\* "It ends every session and app token of the account, so whoever had access before
\* the reset loses it" (password_resets.go:288).  A sign-in whose password was
\* compared before the reset opens its session after it.
ResetEndsAccess ==
    \A c \in DOMAIN cred : cred[c].live => cred[c].era = account[cred[c].user].era

\* "The owner recovers access with the local command, not here"
\* (password_resets.go:74).  A link approved for an account that then becomes the
\* owner still resets it.
OwnerResetOnlyByCommand ==
    [][\A n \in Links : link[n].state = "approved" /\ link'[n].state = "used" /\ link[n].user \in Owners
                        => link[n].command]_vars
=============================================================================
