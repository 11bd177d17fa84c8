------------------------------- MODULE Accounts -------------------------------
(***************************************************************************)
(* Users, their roles and wallets, and the invites that make publishers:    *)
(* AuthService.bootstrapSuperAdmin, invitePublisher, handleTelegramStart    *)
(* with its three payloads, and changeUserRole.                             *)
(*                                                                          *)
(* The transactions are read committed: what one has read may be old when   *)
(* it writes.  A call in flight is a slot c of Calls, its reads are steps,  *)
(* and its first write to its commit is one action: that write inserts or   *)
(* locks the user's row, so no other call gets between them, and what is    *)
(* read there (the grant) is read behind that lock.  What overlapping calls *)
(* meet are the unique keys, whose violation rolls a call back.             *)
(*                                                                          *)
(* A username stands for the Telegram account last seen with it; logging,   *)
(* audit rows, passwords and sessions are left out.  No code sets a user's  *)
(* status to anything but active.                                           *)
(***************************************************************************)
EXTENDS Naturals, FiniteSets

CONSTANTS
    Users, NoUser,      \* rows of users
    Accounts, NoAccount, \* Telegram accounts
    Invites, NoInvite,  \* rows of user_invites
    Calls,              \* calls that may be in flight at once
    GivenRoles,         \* the roles an admin may give
    AllowPublicAdvertisers

UserRole == {"super_admin", "admin", "moderator", "advertiser", "publisher"}
Step == {"idle", "bootstrap", "link", "linking", "invite", "user", "claim", "plain",
         "create", "issue", "change"}

ASSUME UserAssumption == NoUser \notin Users
ASSUME AccountAssumption == NoAccount \notin Accounts
ASSUME InviteAssumption == NoInvite \notin Invites
ASSUME RoleAssumption == GivenRoles \subseteq UserRole /\ AllowPublicAdvertisers \in BOOLEAN

VARIABLES
    role,       \* of each user, "none" while there is no row
    grants,     \* userRoleGrant rows of each user
    telegram,   \* telegramId of each user
    keyed,      \* users with superAdminKey
    wallets,    \* users with a wallet
    bootstrap,  \* bootstrapState.superAdminUserId
    session,    \* accounts with a telegramSession
    bound,      \* boundTelegramId of each invite, NoAccount while there is no row
    usedBy,     \* usedByUserId of each invite, set together with usedAt
    expired,    \* invites past expiresAt
    pc, req,    \* the calls in flight
    promoted,   \* history: users made publisher by a change of role
    relinked    \* history: the super admin's telegramId was overwritten

users == <<role, grants, telegram, keyed, wallets>>
invites == <<bound, usedBy, expired>>
history == <<promoted, relinked>>
vars == <<users, bootstrap, session, invites, pc, req, history>>

Request == [role : UserRole \cup {"none"}, account : Accounts \cup {NoAccount},
            invite : Invites \cup {NoInvite}, user : Users \cup {NoUser}]
Nothing == [role |-> "none", account |-> NoAccount, invite |-> NoInvite, user |-> NoUser]

-----------------------------------------------------------------------------
(* Rows *)

Present == {u \in Users : role[u] # "none"}

(* what a look-up by telegramId returns *)
Found(t) == IF \E u \in Users : telegram[u] = t
            THEN {u \in Users : telegram[u] = t} ELSE {NoUser}

(* the unique key telegramId, for a write of t to user u *)
AccountTaken_Unchecked(t, u) == FALSE
AccountTaken(t, u) == \E v \in Users \ {u} : telegram[v] = t

(* the unique superAdminKey *)
KeyTaken_Unchecked(u) == FALSE
KeyTaken(u) == keyed \ {u} # {}

(* JwtAuthGuard and RolesGuard read the grants *)
AdminActs == \E u \in Users : grants[u] \cap {"super_admin", "admin"} # {}

(* user, grant and wallet of a new user *)
AddUser(u, t, r) ==
    /\ role' = [role EXCEPT ![u] = r]
    /\ grants' = [grants EXCEPT ![u] = {r}]
    /\ telegram' = [telegram EXCEPT ![u] = t]
    /\ wallets' = wallets \cup {u}

ensureRoleGrant_Skipped(u, r) == grants' = grants
ensureRoleGrant(u, r) == grants' = [grants EXCEPT ![u] = @ \cup {r}]

-----------------------------------------------------------------------------
(* Calls *)

Goto(c, step, t, i, u, r) ==
    /\ pc' = [pc EXCEPT ![c] = step]
    /\ req' = [req EXCEPT ![c] = [role |-> r, account |-> t, invite |-> i, user |-> u]]

Free(c) ==
    /\ pc' = [pc EXCEPT ![c] = "idle"]
    /\ req' = [req EXCEPT ![c] = Nothing]

Rows == <<users, bootstrap, session, invites, history>>

(* A return or throw before the first write, or a rollback *)
Leave(c) == Free(c) /\ UNCHANGED Rows

(* The process dies, or the connection is lost. *)
Abort(c) == pc[c] # "idle" /\ Leave(c)

-----------------------------------------------------------------------------
(* bootstrapSuperAdmin: its reads find nothing, then everything is created    *)

BootstrapSuperAdmin(c) ==
    /\ pc[c] = "idle"
    /\ bootstrap = NoUser
    /\ keyed = {}
    /\ Goto(c, "bootstrap", NoAccount, NoInvite, NoUser, "super_admin")
    /\ UNCHANGED Rows

CreateSuperAdmin(c) ==
    /\ pc[c] = "bootstrap"
    /\ IF bootstrap # NoUser \/ KeyTaken(NoUser)
       THEN Leave(c)
       ELSE \E u \in Users \ Present :
                /\ AddUser(u, NoAccount, "super_admin")
                /\ keyed' = keyed \cup {u}
                /\ bootstrap' = u
                /\ Free(c)
                /\ UNCHANGED <<session, invites, history>>

-----------------------------------------------------------------------------
(* handleTelegramStart *)

(* Every start begins with the session. *)
Start(c, step, t, i) ==
    /\ pc[c] = "idle"
    /\ session' = session \cup {t}
    /\ Goto(c, step, t, i, NoUser, "none")
    /\ UNCHANGED <<users, bootstrap, invites, history>>

(* /start BOOTSTRAP *)
StartLink(c, t) == Start(c, "link", t, NoInvite)

(* A super admin that is linked already is only given its grant again. *)
ReadSuperAdmin(c) ==
    LET t == req[c].account IN
    /\ pc[c] = "link"
    /\ IF bootstrap = NoUser \/ ~ Found(t) \subseteq {NoUser, bootstrap}
       THEN Leave(c)
       ELSE \/ /\ telegram[bootstrap] = NoAccount
               /\ Goto(c, "linking", t, NoInvite, bootstrap, "none")
               /\ UNCHANGED Rows
            \/ /\ telegram[bootstrap] = t
               /\ ensureRoleGrant(bootstrap, "super_admin")
               /\ Free(c)
               /\ UNCHANGED <<role, telegram, keyed, wallets, bootstrap, session, invites, history>>
            \/ /\ telegram[bootstrap] \notin {NoAccount, t}
               /\ Leave(c)

(* The update is by id: it does not ask again whether telegramId is null. *)
LinkSuperAdmin(c) ==
    LET t == req[c].account u == req[c].user IN
    /\ pc[c] = "linking"
    /\ IF AccountTaken(t, u)
       THEN Leave(c)
       ELSE /\ telegram' = [telegram EXCEPT ![u] = t]
            /\ ensureRoleGrant(u, "super_admin")
            /\ relinked' = (relinked \/ telegram[u] \notin {NoAccount, t})
            /\ Free(c)
            /\ UNCHANGED <<role, keyed, wallets, bootstrap, session, invites, promoted>>

(* /start with the token of an invite; an unknown token is refused at once *)
StartClaim(c, t, i) == bound[i] # NoAccount /\ Start(c, "invite", t, i)

Regrant(c, u) ==
    /\ ensureRoleGrant(u, "publisher")
    /\ Free(c)
    /\ UNCHANGED <<role, telegram, keyed, wallets, bootstrap, session, invites, history>>

ReadInvite_AnyAccount(c) ==
    /\ pc[c] = "invite"
    /\ usedBy[req[c].invite] = NoUser
    /\ Goto(c, "user", req[c].account, req[c].invite, NoUser, "none")
    /\ UNCHANGED Rows
ReadInvite(c) ==
    LET t == req[c].account i == req[c].invite IN
    /\ pc[c] = "invite"
    /\ \/ bound[i] # t /\ Leave(c)
       \/ /\ bound[i] = t /\ usedBy[i] # NoUser
          /\ IF usedBy[i] \in Found(t) THEN Regrant(c, usedBy[i]) ELSE Leave(c)
       \/ /\ bound[i] = t /\ usedBy[i] = NoUser
          /\ IF i \in expired
             THEN Leave(c)
             ELSE Goto(c, "user", t, i, NoUser, "none") /\ UNCHANGED Rows

ReadUser(c) ==
    /\ pc[c] = "user"
    /\ \E u \in Found(req[c].account) :
           Goto(c, "claim", req[c].account, req[c].invite, u, "none")
    /\ UNCHANGED Rows

(* The invite is updated by id, used or not. *)
Claim_Unmarked(c) ==
    /\ pc[c] = "claim" /\ req[c].user # NoUser
    /\ ensureRoleGrant(req[c].user, "publisher")
    /\ Free(c)
    /\ UNCHANGED <<role, telegram, keyed, wallets, bootstrap, session, invites, history>>
Claim_ByAccount(c) ==
    /\ pc[c] = "claim" /\ req[c].user # NoUser
    /\ ensureRoleGrant(req[c].user, "publisher")
    /\ usedBy' = [usedBy EXCEPT ![req[c].invite] = req[c].account]
    /\ Free(c)
    /\ UNCHANGED <<role, telegram, keyed, wallets, bootstrap, session, bound, expired, history>>
Claim(c) ==
    LET t == req[c].account i == req[c].invite u == req[c].user IN
    /\ pc[c] = "claim"
    /\ \/ /\ u # NoUser
          /\ ensureRoleGrant(u, "publisher")
          /\ usedBy' = [usedBy EXCEPT ![i] = u]
          /\ Free(c)
          /\ UNCHANGED <<role, telegram, keyed, wallets, bootstrap, session, bound, expired, history>>
       \/ /\ u = NoUser /\ AccountTaken(t, NoUser)
          /\ Leave(c)
       \/ /\ u = NoUser /\ ~ AccountTaken(t, NoUser)
          /\ \E v \in Users \ Present :
                 /\ AddUser(v, t, "publisher")
                 /\ usedBy' = [usedBy EXCEPT ![i] = v]
          /\ Free(c)
          /\ UNCHANGED <<keyed, bootstrap, session, bound, expired, history>>

(* /start alone: a user is found, or becomes an advertiser *)
StartPlain(c, t) == Start(c, "plain", t, NoInvite)

FindUser(c) ==
    /\ pc[c] = "plain"
    /\ IF Found(req[c].account) = {NoUser} /\ AllowPublicAdvertisers
       THEN Goto(c, "create", req[c].account, NoInvite, NoUser, "none") /\ UNCHANGED Rows
       ELSE Leave(c)

(* One who was faster is found after all. *)
CreateAdvertiser(c) ==
    /\ pc[c] = "create"
    /\ IF AccountTaken(req[c].account, NoUser)
       THEN Leave(c)
       ELSE /\ \E u \in Users \ Present : AddUser(u, req[c].account, "advertiser")
            /\ Free(c)
            /\ UNCHANGED <<keyed, bootstrap, session, invites, history>>

-----------------------------------------------------------------------------
(* invitePublisher and changeUserRole *)

(* An open invite of the account is returned, not another one made. *)
InvitePublisher(c, t) ==
    /\ pc[c] = "idle"
    /\ AdminActs
    /\ t \in session
    /\ ~ \E i \in Invites : bound[i] = t /\ usedBy[i] = NoUser /\ i \notin expired
    /\ Goto(c, "issue", t, NoInvite, NoUser, "none")
    /\ UNCHANGED Rows

IssueInvite(c) ==
    /\ pc[c] = "issue"
    /\ \E i \in Invites :
           /\ bound[i] = NoAccount
           /\ bound' = [bound EXCEPT ![i] = req[c].account]
    /\ Free(c)
    /\ UNCHANGED <<users, bootstrap, session, usedBy, expired, history>>

Expire(i) ==
    /\ bound[i] # NoAccount
    /\ expired' = expired \cup {i}
    /\ UNCHANGED <<users, bootstrap, session, bound, usedBy, pc, req, history>>

ChangeUserRole(c, u, r) ==
    /\ pc[c] = "idle"
    /\ AdminActs
    /\ u \in Present
    /\ role[u] # r
    /\ r = "super_admin" => keyed = {}
    /\ Goto(c, "change", NoAccount, NoInvite, u, r)
    /\ UNCHANGED Rows

(* by id, whatever the role is by now; the role given up stays granted *)
WriteRole(c) ==
    LET u == req[c].user r == req[c].role IN
    /\ pc[c] = "change"
    /\ IF r = "super_admin" /\ KeyTaken(u)
       THEN Leave(c)
       ELSE /\ role' = [role EXCEPT ![u] = r]
            /\ keyed' = IF r = "super_admin" THEN keyed \cup {u} ELSE keyed \ {u}
            /\ ensureRoleGrant(u, r)
            /\ promoted' = IF r = "publisher" THEN promoted \cup {u} ELSE promoted
            /\ Free(c)
            /\ UNCHANGED <<telegram, wallets, bootstrap, session, invites, relinked>>

-----------------------------------------------------------------------------
Init ==
    /\ role = [u \in Users |-> "none"]
    /\ grants = [u \in Users |-> {}]
    /\ telegram = [u \in Users |-> NoAccount]
    /\ keyed = {} /\ wallets = {}
    /\ bootstrap = NoUser
    /\ session = {}
    /\ bound = [i \in Invites |-> NoAccount]
    /\ usedBy = [i \in Invites |-> NoUser]
    /\ expired = {}
    /\ pc = [c \in Calls |-> "idle"]
    /\ req = [c \in Calls |-> Nothing]
    /\ promoted = {} /\ relinked = FALSE

CallSteps(c) ==
    \/ CreateSuperAdmin(c) \/ ReadSuperAdmin(c) \/ LinkSuperAdmin(c)
    \/ ReadInvite(c) \/ ReadUser(c) \/ Claim(c)
    \/ FindUser(c) \/ CreateAdvertiser(c)
    \/ IssueInvite(c) \/ WriteRole(c) \/ Abort(c)

Next ==
    \/ \E c \in Calls : CallSteps(c) \/ BootstrapSuperAdmin(c)
    \/ \E c \in Calls, t \in Accounts :
           \/ StartLink(c, t) \/ StartPlain(c, t) \/ InvitePublisher(c, t)
           \/ \E i \in Invites : StartClaim(c, t, i)
    \/ \E c \in Calls, u \in Users, r \in GivenRoles : ChangeUserRole(c, u, r)
    \/ \E i \in Invites : Expire(i)

Spec == Init /\ [][Next]_vars

-----------------------------------------------------------------------------
(* Properties *)

(* Every value stays within its table's columns.                              *)
TypeOK ==
    /\ role \in [Users -> UserRole \cup {"none"}]
    /\ grants \in [Users -> SUBSET UserRole]
    /\ telegram \in [Users -> Accounts \cup {NoAccount}]
    /\ keyed \subseteq Users /\ wallets \subseteq Users
    /\ bootstrap \in Users \cup {NoUser}
    /\ session \subseteq Accounts
    /\ bound \in [Invites -> Accounts \cup {NoAccount}]
    /\ usedBy \in [Invites -> Users \cup {NoUser}]
    /\ expired \subseteq Invites
    /\ pc \in [Calls -> Step]
    /\ req \in [Calls -> Request]
    /\ promoted \subseteq Users /\ relinked \in BOOLEAN

(* There is never more than one super admin, and exactly that user holds the  *)
(* key: bootstraps, promotions and demotions overlap and none of them locks,  *)
(* so it is the key, set and cleared with the role, that keeps them apart.   *)
OneSuperAdmin ==
    /\ keyed = {u \in Users : role[u] = "super_admin"}
    /\ \A u, v \in keyed : u = v

(* Every user has a wallet and is granted the role it bears, whichever of the *)
(* three ways it was created in and whatever changes of its role overlapped.  *)
WholeUsers ==
    \A u \in Present : u \in wallets /\ role[u] \in grants[u]

(* Who is granted publisher was made one by an admin, or an invite bears its  *)
(* name - as long as the super admin has kept its Telegram account.          *)
PublisherByInvite ==
    ~ relinked =>
        \A u \in Users : "publisher" \in grants[u] =>
            u \in promoted \/ \E i \in Invites : usedBy[i] = u

(* A used invite names the user of the Telegram account it was bound to: the  *)
(* claim looks the user up after the invite, and other starts of the account  *)
(* may create one in between.                                                *)
InviteFitsUser ==
    ~ relinked =>
        \A i \in Invites : usedBy[i] # NoUser =>
            /\ telegram[usedBy[i]] = bound[i]
            /\ "publisher" \in grants[usedBy[i]]

(* An invite is used by one user once and for all, though two claims may both *)
(* have read it as unused and each writes it by id.                          *)
UsedOnce ==
    [][~ relinked =>
        \A i \in Invites : usedBy[i] # NoUser => usedBy'[i] = usedBy[i]]_vars
=============================================================================
