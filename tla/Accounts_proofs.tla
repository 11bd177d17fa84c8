---------------------------- MODULE Accounts_proofs ----------------------------
(***************************************************************************)
(* What holds of Accounts for any number of users, accounts, invites and    *)
(* calls.  The strengthening says what a call in flight may still rely on:  *)
(* an invite stays bound, a user stays present, and a user found by its     *)
(* Telegram account keeps it unless the super admin is relinked.            *)
(***************************************************************************)
EXTENDS Accounts, TLAPS

Shape ==
    /\ \A u \in Users : role[u] = "none" =>
           /\ telegram[u] = NoAccount /\ grants[u] = {}
           /\ u \notin keyed /\ u \notin promoted
    /\ \A u, v \in Users : telegram[u] = telegram[v] /\ telegram[u] # NoAccount => u = v
    /\ bootstrap # NoUser => role[bootstrap] # "none"
    /\ \A i \in Invites : usedBy[i] # NoUser =>
           role[usedBy[i]] # "none" /\ bound[i] # NoAccount

Fits(s, r) ==
    /\ s \in {"link", "linking", "invite", "user", "claim", "plain", "create", "issue"} =>
           r.account \in Accounts
    /\ s = "linking" => r.user \in Users /\ r.user = bootstrap
    /\ s \in {"invite", "user", "claim"} => r.invite \in Invites
    /\ s \in {"user", "claim"} => bound[r.invite] = r.account
    /\ s = "claim" /\ r.user # NoUser =>
           role[r.user] # "none" /\ (~ relinked => telegram[r.user] = r.account)
    /\ s = "change" => r.user \in Users /\ role[r.user] # "none" /\ r.role \in GivenRoles

CallsFit == \A c \in Calls : Fits(pc[c], req[c])

IInv == TypeOK /\ Shape /\ CallsFit /\ OneSuperAdmin /\ WholeUsers
            /\ PublisherByInvite /\ InviteFitsUser

(* A request is a record of its four fields.                                  *)
LEMMA RequestFields ==
    ASSUME NEW r \in Request
    PROVE  /\ r.account \in Accounts \cup {NoAccount} /\ r.invite \in Invites \cup {NoInvite}
           /\ r.user \in Users \cup {NoUser} /\ r.role \in UserRole \cup {"none"}
BY DEF Request

LEMMA RequestMade ==
    ASSUME NEW t \in Accounts \cup {NoAccount}, NEW i \in Invites \cup {NoInvite},
           NEW u \in Users \cup {NoUser}, NEW r \in UserRole \cup {"none"}
    PROVE  [role |-> r, account |-> t, invite |-> i, user |-> u] \in Request
BY DEF Request

LEMMA NothingFits == Nothing \in Request /\ Fits("idle", Nothing)
BY RequestMade DEF Nothing, Fits

(* A step that only moves its own call keeps the invariant if the call fits.  *)
LEMMA MoveKeeps ==
    ASSUME IInv, NEW c \in Calls, NEW s \in Step, NEW r \in Request, Fits(s, r),
           pc' = [pc EXCEPT ![c] = s], req' = [req EXCEPT ![c] = r],
           session' \subseteq Accounts,
           UNCHANGED <<users, bootstrap, invites, history>>
    PROVE  IInv'
<1> USE DEF users, invites, history
<1>1. TypeOK'
  BY DEF IInv, TypeOK
<1>2. CallsFit'
  <2> SUFFICES ASSUME NEW d \in Calls PROVE Fits(pc[d], req[d])'
    BY DEF CallsFit
  <2>1. CASE d = c
    BY <2>1 DEF IInv, TypeOK, Fits
  <2>2. CASE d # c
    BY <2>2 DEF IInv, TypeOK, CallsFit, Fits
  <2> QED
    BY <2>1, <2>2
<1>3. Shape' /\ OneSuperAdmin' /\ WholeUsers' /\ PublisherByInvite' /\ InviteFitsUser'
  BY DEF IInv, Shape, OneSuperAdmin, WholeUsers, Present, PublisherByInvite, InviteFitsUser
<1> QED
  BY <1>1, <1>2, <1>3 DEF IInv

LEMMA LeaveKeeps ==
    ASSUME IInv, NEW c \in Calls, Leave(c)
    PROVE  IInv'
BY NothingFits, MoveKeeps DEF Leave, Free, Rows, Step, IInv, TypeOK

LEMMA GotoKeeps ==
    ASSUME IInv, NEW c \in Calls, NEW s \in Step,
           NEW t \in Accounts \cup {NoAccount}, NEW i \in Invites \cup {NoInvite},
           NEW u \in Users \cup {NoUser}, NEW r \in UserRole \cup {"none"},
           Goto(c, s, t, i, u, r), session' \subseteq Accounts,
           UNCHANGED <<users, bootstrap, invites, history>>,
           Fits(s, [role |-> r, account |-> t, invite |-> i, user |-> u])
    PROVE  IInv'
BY RequestMade, MoveKeeps DEF Goto

(* The other calls are not disturbed where rows are only added and accounts   *)
(* kept.                                                                     *)
LEMMA OthersFit ==
    ASSUME IInv, NEW c \in Calls, Free(c),
           \A u \in Users : role[u] # "none" => role'[u] # "none",
           bootstrap # NoUser => bootstrap' = bootstrap,
           \A i \in Invites : bound[i] # NoAccount => bound'[i] = bound[i],
           relinked => relinked',
           ~ relinked' => \A u \in Users : telegram[u] # NoAccount => telegram'[u] = telegram[u]
    PROVE  CallsFit'
<1> SUFFICES ASSUME NEW d \in Calls PROVE Fits(pc[d], req[d])'
  BY DEF CallsFit
<1>1. CASE d = c
  BY <1>1, NothingFits DEF Free, Fits, IInv, TypeOK
<1>2. CASE d # c
  <2>1. pc'[d] = pc[d] /\ req'[d] = req[d] /\ req[d] \in Request /\ Fits(pc[d], req[d])
    BY <1>2 DEF Free, IInv, TypeOK, CallsFit
  <2>2. /\ req[d].user \in Users \cup {NoUser}
        /\ req[d].account \in Accounts \cup {NoAccount}
    BY <2>1, RequestFields
  <2> QED
    BY <2>1, <2>2, UserAssumption, AccountAssumption DEF Fits
<1> QED
  BY <1>1, <1>2

-----------------------------------------------------------------------------
(* New users *)

(* A new row with its grant and wallet.  The account is new to the table, the *)
(* key free if it is taken.                                                  *)
LEMMA AddedUserFits ==
    ASSUME IInv, NEW u \in Users \ Present, NEW t \in Accounts \cup {NoAccount},
           NEW r \in UserRole, AddUser(u, t, r), ~ AccountTaken(t, NoUser) \/ t = NoAccount,
           bootstrap' \in {bootstrap, u}
    PROVE  /\ role' \in [Users -> UserRole \cup {"none"}]
           /\ grants' \in [Users -> SUBSET UserRole]
           /\ telegram' \in [Users -> Accounts \cup {NoAccount}]
           /\ wallets' \subseteq Users
           /\ role'[u] = r /\ grants'[u] = {r} /\ telegram'[u] = t
           /\ \A v \in Users \ {u} : role'[v] = role[v] /\ grants'[v] = grants[v]
                                     /\ telegram'[v] = telegram[v]
           /\ \A v, w \in Users : telegram'[v] = telegram'[w] /\ telegram'[v] # NoAccount => v = w
           /\ WholeUsers'
           /\ bootstrap' # NoUser => role'[bootstrap'] # "none"
           /\ \A v \in Users : role[v] # "none" => role'[v] # "none"
           /\ \A v \in Users : telegram[v] # NoAccount => telegram'[v] = telegram[v]
<1>0. role[u] = "none" /\ u \in Users /\ r # "none"
  BY DEF Present, UserRole
<1>1. /\ role' \in [Users -> UserRole \cup {"none"}]
      /\ grants' \in [Users -> SUBSET UserRole]
      /\ telegram' \in [Users -> Accounts \cup {NoAccount}]
      /\ wallets' \subseteq Users
  BY DEF AddUser, IInv, TypeOK, Present
<1>2. /\ role'[u] = r /\ grants'[u] = {r} /\ telegram'[u] = t
      /\ \A v \in Users \ {u} : role'[v] = role[v] /\ grants'[v] = grants[v]
                                /\ telegram'[v] = telegram[v]
  BY <1>0 DEF AddUser, IInv, TypeOK
<1>3. \A v, w \in Users : telegram'[v] = telegram'[w] /\ telegram'[v] # NoAccount => v = w
  BY <1>0, <1>2, UserAssumption DEF IInv, Shape, AccountTaken
<1>4. WholeUsers'
  BY <1>0, <1>2 DEF IInv, WholeUsers, Present, AddUser
<1>5. bootstrap' # NoUser => role'[bootstrap'] # "none"
  BY <1>0, <1>2 DEF IInv, Shape, TypeOK
<1>6. \A v \in Users : (role[v] # "none" => role'[v] # "none")
                       /\ (telegram[v] # NoAccount => telegram'[v] = telegram[v])
  BY <1>0, <1>2 DEF IInv, Shape
<1> QED
  BY <1>1, <1>2, <1>3, <1>4, <1>5, <1>6

LEMMA CreateSuperAdminKeeps ==
    ASSUME IInv, NEW c \in Calls, CreateSuperAdmin(c)
    PROVE  IInv'
<1>1. CASE bootstrap # NoUser \/ KeyTaken(NoUser)
  BY <1>1, LeaveKeeps DEF CreateSuperAdmin
<1>2. CASE ~ (bootstrap # NoUser \/ KeyTaken(NoUser))
  <2>1. PICK u \in Users \ Present :
            /\ AddUser(u, NoAccount, "super_admin")
            /\ keyed' = keyed \cup {u}
            /\ bootstrap' = u
    BY <1>2 DEF CreateSuperAdmin
  <2>2. Free(c) /\ UNCHANGED <<session, invites, history>>
    BY <1>2 DEF CreateSuperAdmin
  <2>0. u \in Users /\ role[u] = "none" /\ bootstrap = NoUser /\ keyed = {}
    BY <1>2, UserAssumption DEF Present, KeyTaken, IInv, TypeOK
  <2> DEFINE t == NoAccount
  <2>3. /\ role' \in [Users -> UserRole \cup {"none"}]
        /\ grants' \in [Users -> SUBSET UserRole]
        /\ telegram' \in [Users -> Accounts \cup {NoAccount}]
        /\ wallets' \subseteq Users
        /\ role'[u] = "super_admin" /\ grants'[u] = {"super_admin"} /\ telegram'[u] = NoAccount
        /\ \A v \in Users \ {u} : role'[v] = role[v] /\ grants'[v] = grants[v]
                                  /\ telegram'[v] = telegram[v]
        /\ \A v, w \in Users : telegram'[v] = telegram'[w] /\ telegram'[v] # NoAccount => v = w
        /\ WholeUsers'
        /\ bootstrap' # NoUser => role'[bootstrap'] # "none"
        /\ \A v \in Users : role[v] # "none" => role'[v] # "none"
        /\ \A v \in Users : telegram[v] # NoAccount => telegram'[v] = telegram[v]
    BY <2>1, AddedUserFits, "super_admin" \in UserRole DEF UserRole
  <2>4. CallsFit'
    BY <2>0, <2>2, <2>3, OthersFit DEF invites, history
  <2>5. TypeOK'
    BY <2>0, <2>1, <2>2, <2>3, NothingFits DEF IInv, TypeOK, invites, history, Free, Step
  <2>6. Shape'
    BY <2>0, <2>1, <2>2, <2>3, UserAssumption DEF IInv, Shape, TypeOK, invites, history
  <2>7. OneSuperAdmin'
    BY <2>0, <2>1, <2>3 DEF IInv, OneSuperAdmin, TypeOK
  <2>8. PublisherByInvite' /\ InviteFitsUser'
    BY <2>0, <2>2, <2>3 DEF IInv, Shape, TypeOK, PublisherByInvite, InviteFitsUser, invites, history
  <2> QED
    BY <2>3, <2>4, <2>5, <2>6, <2>7, <2>8 DEF IInv
<1> QED
  BY <1>1, <1>2

-----------------------------------------------------------------------------
(* New publishers and advertisers *)

LEMMA CreateAdvertiserKeeps ==
    ASSUME IInv, NEW c \in Calls, CreateAdvertiser(c)
    PROVE  IInv'
<1> DEFINE t == req[c].account
<1>0. t \in Accounts
  BY DEF CreateAdvertiser, IInv, CallsFit, Fits
<1>1. CASE AccountTaken(t, NoUser)
  BY <1>1, LeaveKeeps DEF CreateAdvertiser
<1>2. CASE ~ AccountTaken(t, NoUser)
  <2>1. PICK u \in Users \ Present : AddUser(u, t, "advertiser")
    BY <1>2 DEF CreateAdvertiser
  <2>2. Free(c) /\ UNCHANGED <<keyed, bootstrap, session, invites, history>>
    BY <1>2 DEF CreateAdvertiser
  <2>0. u \in Users /\ role[u] = "none" /\ "advertiser" \in UserRole
    BY DEF Present, UserRole
  <2>3. /\ role' \in [Users -> UserRole \cup {"none"}]
        /\ grants' \in [Users -> SUBSET UserRole]
        /\ telegram' \in [Users -> Accounts \cup {NoAccount}]
        /\ wallets' \subseteq Users
        /\ role'[u] = "advertiser" /\ grants'[u] = {"advertiser"} /\ telegram'[u] = t
        /\ \A v \in Users \ {u} : role'[v] = role[v] /\ grants'[v] = grants[v]
                                  /\ telegram'[v] = telegram[v]
        /\ \A v, w \in Users : telegram'[v] = telegram'[w] /\ telegram'[v] # NoAccount => v = w
        /\ WholeUsers'
        /\ bootstrap' # NoUser => role'[bootstrap'] # "none"
        /\ \A v \in Users : role[v] # "none" => role'[v] # "none"
        /\ \A v \in Users : telegram[v] # NoAccount => telegram'[v] = telegram[v]
    BY <1>0, <1>2, <2>0, <2>1, <2>2, AddedUserFits
  <2>4. CallsFit'
    BY <2>2, <2>3, OthersFit DEF invites, history
  <2>5. TypeOK'
    BY <2>2, <2>3, NothingFits DEF IInv, TypeOK, invites, history, Free, Step
  <2>6. Shape'
    BY <2>0, <2>2, <2>3, UserAssumption DEF IInv, Shape, TypeOK, invites, history
  <2>7. OneSuperAdmin'
    BY <2>0, <2>2, <2>3 DEF IInv, OneSuperAdmin, TypeOK
  <2>8. PublisherByInvite' /\ InviteFitsUser'
    BY <2>0, <2>2, <2>3 DEF IInv, Shape, TypeOK, PublisherByInvite, InviteFitsUser, invites, history
  <2> QED
    BY <2>3, <2>4, <2>5, <2>6, <2>7, <2>8 DEF IInv
<1> QED
  BY <1>1, <1>2

(* An invite that a call is about to use is unused, or used by the very user  *)
(* the call has found.                                                       *)
LEMMA ClaimFinds ==
    ASSUME IInv, NEW c \in Calls, pc[c] = "claim", ~ relinked,
           usedBy[req[c].invite] # NoUser
    PROVE  IF req[c].user = NoUser THEN AccountTaken(req[c].account, NoUser)
                                   ELSE usedBy[req[c].invite] = req[c].user
<1> DEFINE i == req[c].invite v == usedBy[i]
<1>1. /\ i \in Invites /\ bound[i] = req[c].account /\ req[c].account \in Accounts
      /\ req[c].user # NoUser => telegram[req[c].user] = req[c].account
      /\ req[c].user \in Users \cup {NoUser}
  BY RequestFields DEF IInv, CallsFit, Fits, TypeOK
<1>2. v \in Users /\ telegram[v] = req[c].account
  BY <1>1 DEF IInv, TypeOK, InviteFitsUser
<1> QED
  BY <1>1, <1>2, UserAssumption, AccountAssumption DEF AccountTaken, IInv, Shape

LEMMA ClaimKeeps ==
    ASSUME IInv, NEW c \in Calls, Claim(c)
    PROVE  IInv'
<1> DEFINE t == req[c].account i == req[c].invite u == req[c].user
<1>0. /\ pc[c] = "claim" /\ t \in Accounts /\ i \in Invites /\ bound[i] = t
      /\ u \in Users \cup {NoUser}
      /\ u # NoUser => role[u] # "none" /\ (~ relinked => telegram[u] = t)
  BY RequestFields DEF Claim, IInv, CallsFit, Fits, TypeOK
<1>1. CASE u # NoUser
  <2>1. /\ ensureRoleGrant(u, "publisher")
        /\ usedBy' = [usedBy EXCEPT ![i] = u]
        /\ Free(c)
        /\ UNCHANGED <<role, telegram, keyed, wallets, bootstrap, session, bound, expired, history>>
    BY <1>1 DEF Claim
  <2>2. u \in Users /\ "publisher" \in UserRole
    BY <1>0, <1>1 DEF UserRole
  <2>3. /\ grants' \in [Users -> SUBSET UserRole]
        /\ grants'[u] = grants[u] \cup {"publisher"}
        /\ \A v \in Users \ {u} : grants'[v] = grants[v]
    BY <2>1, <2>2 DEF ensureRoleGrant, IInv, TypeOK
  <2>4. usedBy' \in [Invites -> Users \cup {NoUser}] /\ usedBy'[i] = u
        /\ \A j \in Invites \ {i} : usedBy'[j] = usedBy[j]
    BY <1>0, <2>1, <2>2 DEF IInv, TypeOK
  <2>5. CallsFit'
    BY <2>1, OthersFit DEF history
  <2>6. TypeOK'
    BY <2>1, <2>3, <2>4, NothingFits DEF IInv, TypeOK, history, Free, Step
  <2>7. Shape'
    <3>1. \A v \in Users : role[v] = "none" => grants'[v] = {}
      BY <1>0, <1>1, <2>3 DEF IInv, Shape
    <3>2. \A j \in Invites : usedBy'[j] # NoUser => role[usedBy'[j]] # "none" /\ bound[j] # NoAccount
      BY <1>0, <1>1, <2>4, AccountAssumption DEF IInv, Shape
    <3> QED
      BY <2>1, <3>1, <3>2 DEF IInv, Shape, history
  <2>8. OneSuperAdmin' /\ WholeUsers'
    BY <2>1, <2>2, <2>3 DEF IInv, OneSuperAdmin, WholeUsers, Present
  <2>9. InviteFitsUser'
    BY <1>0, <2>1, <2>2, <2>3, <2>4 DEF IInv, TypeOK, InviteFitsUser, history
  <2>10. PublisherByInvite'
    <3> SUFFICES ASSUME ~ relinked, NEW v \in Users, "publisher" \in grants'[v]
                 PROVE  v \in promoted \/ \E j \in Invites : usedBy'[j] = v
      BY <2>1 DEF PublisherByInvite, history
    <3>1. CASE v = u
      BY <1>0, <2>4, <3>1
    <3>2. CASE v # u
      <4>1. v \in promoted \/ \E j \in Invites : usedBy[j] = v
        BY <2>3, <3>2 DEF IInv, PublisherByInvite
      <4>2. usedBy[i] = NoUser \/ usedBy[i] = u
        BY <1>0, <1>1, ClaimFinds
      <4> QED
        BY <2>4, <3>2, <4>1, <4>2, UserAssumption
    <3> QED
      BY <3>1, <3>2
  <2> QED
    BY <2>5, <2>6, <2>7, <2>8, <2>9, <2>10 DEF IInv
<1>2. CASE u = NoUser /\ AccountTaken(t, NoUser)
  BY <1>2, LeaveKeeps DEF Claim
<1>3. CASE u = NoUser /\ ~ AccountTaken(t, NoUser)
  <2>1. PICK v \in Users \ Present :
            AddUser(v, t, "publisher") /\ usedBy' = [usedBy EXCEPT ![i] = v]
    BY <1>3 DEF Claim
  <2>2. Free(c) /\ UNCHANGED <<keyed, bootstrap, session, bound, expired, history>>
    BY <1>3 DEF Claim
  <2>0. v \in Users /\ role[v] = "none" /\ "publisher" \in UserRole
    BY DEF Present, UserRole
  <2>3. /\ role' \in [Users -> UserRole \cup {"none"}]
        /\ grants' \in [Users -> SUBSET UserRole]
        /\ telegram' \in [Users -> Accounts \cup {NoAccount}]
        /\ wallets' \subseteq Users
        /\ role'[v] = "publisher" /\ grants'[v] = {"publisher"} /\ telegram'[v] = t
        /\ \A x \in Users \ {v} : role'[x] = role[x] /\ grants'[x] = grants[x]
                                  /\ telegram'[x] = telegram[x]
        /\ \A x, w \in Users : telegram'[x] = telegram'[w] /\ telegram'[x] # NoAccount => x = w
        /\ WholeUsers'
        /\ bootstrap' # NoUser => role'[bootstrap'] # "none"
        /\ \A x \in Users : role[x] # "none" => role'[x] # "none"
        /\ \A x \in Users : telegram[x] # NoAccount => telegram'[x] = telegram[x]
    BY <1>0, <1>3, <2>0, <2>1, <2>2, AddedUserFits
  <2>4. usedBy' \in [Invites -> Users \cup {NoUser}] /\ usedBy'[i] = v
        /\ \A j \in Invites \ {i} : usedBy'[j] = usedBy[j]
    BY <1>0, <2>0, <2>1 DEF IInv, TypeOK
  <2>5. ~ relinked => usedBy[i] = NoUser
    BY <1>0, <1>3, ClaimFinds
  <2>6. CallsFit'
    BY <2>2, <2>3, OthersFit DEF history
  <2>7. TypeOK'
    BY <2>2, <2>3, <2>4, NothingFits DEF IInv, TypeOK, history, Free, Step
  <2>8. Shape'
    BY <1>0, <2>0, <2>2, <2>3, <2>4, UserAssumption, AccountAssumption DEF IInv, Shape, TypeOK, history
  <2>9. OneSuperAdmin'
    BY <2>0, <2>2, <2>3 DEF IInv, OneSuperAdmin, TypeOK
  <2>10. InviteFitsUser'
    BY <1>0, <2>0, <2>2, <2>3, <2>4 DEF IInv, Shape, TypeOK, InviteFitsUser, history
  <2>11. PublisherByInvite'
    BY <1>0, <2>0, <2>2, <2>3, <2>4, <2>5, UserAssumption
    DEF IInv, Shape, TypeOK, PublisherByInvite, history
  <2> QED
    BY <2>3, <2>6, <2>7, <2>8, <2>9, <2>10, <2>11 DEF IInv
<1> QED
  BY <1>1, <1>2, <1>3 DEF Claim

-----------------------------------------------------------------------------
(* Grants, links, roles and invites *)

(* A grant of its role, or of publisher to one that an invite names.          *)
LEMMA GrantKeeps ==
    ASSUME IInv, NEW c \in Calls, NEW u \in Users, NEW r \in UserRole,
           role[u] # "none", r = "publisher" => \E i \in Invites : usedBy[i] = u,
           ensureRoleGrant(u, r), Free(c),
           UNCHANGED <<role, telegram, keyed, wallets, bootstrap, session, invites, history>>
    PROVE  IInv'
<1> USE DEF invites, history
<1>1. /\ grants' \in [Users -> SUBSET UserRole]
      /\ grants'[u] = grants[u] \cup {r}
      /\ \A v \in Users \ {u} : grants'[v] = grants[v]
  BY DEF ensureRoleGrant, IInv, TypeOK
<1>2. CallsFit'
  BY OthersFit
<1>3. TypeOK'
  BY <1>1, NothingFits DEF IInv, TypeOK, Free, Step
<1>4. Shape' /\ OneSuperAdmin' /\ WholeUsers'
  BY <1>1 DEF IInv, Shape, OneSuperAdmin, WholeUsers, Present
<1>5. InviteFitsUser' /\ PublisherByInvite'
  BY <1>1 DEF IInv, TypeOK, InviteFitsUser, PublisherByInvite
<1> QED
  BY <1>2, <1>3, <1>4, <1>5 DEF IInv

LEMMA ReadSuperAdminKeeps ==
    ASSUME IInv, NEW c \in Calls, ReadSuperAdmin(c)
    PROVE  IInv'
<1> DEFINE t == req[c].account
<1>0. pc[c] = "link" /\ t \in Accounts
  BY DEF ReadSuperAdmin, IInv, CallsFit, Fits
<1>1. CASE Leave(c)
  BY <1>1, LeaveKeeps
<1>2. CASE ~ Leave(c)
  <2>0. bootstrap \in Users /\ role[bootstrap] # "none"
    BY <1>2 DEF ReadSuperAdmin, IInv, TypeOK, Shape
  <2>1. CASE Goto(c, "linking", t, NoInvite, bootstrap, "none") /\ UNCHANGED Rows
    <3>1. Fits("linking", [role |-> "none", account |-> t, invite |-> NoInvite, user |-> bootstrap])
      BY <1>0, <2>0 DEF Fits
    <3> QED
      BY <1>0, <2>0, <2>1, <3>1, GotoKeeps, session \subseteq Accounts DEF Rows, Step, IInv, TypeOK
  <2>2. CASE /\ ensureRoleGrant(bootstrap, "super_admin") /\ Free(c)
             /\ UNCHANGED <<role, telegram, keyed, wallets, bootstrap, session, invites, history>>
    BY <2>0, <2>2, GrantKeeps, "super_admin" \in UserRole DEF UserRole
  <2> QED
    BY <1>2, <2>1, <2>2 DEF ReadSuperAdmin
<1> QED
  BY <1>1, <1>2

LEMMA ReadInviteKeeps ==
    ASSUME IInv, NEW c \in Calls, ReadInvite(c)
    PROVE  IInv'
<1> DEFINE t == req[c].account i == req[c].invite
<1>0. pc[c] = "invite" /\ t \in Accounts /\ i \in Invites
  BY DEF ReadInvite, IInv, CallsFit, Fits
<1>1. CASE Leave(c)
  BY <1>1, LeaveKeeps
<1>2. CASE bound[i] = t /\ usedBy[i] # NoUser /\ Regrant(c, usedBy[i])
  <2>1. usedBy[i] \in Users /\ role[usedBy[i]] # "none"
    BY <1>0, <1>2 DEF IInv, TypeOK, Shape
  <2> QED
    BY <1>0, <1>2, <2>1, GrantKeeps, "publisher" \in UserRole DEF Regrant, UserRole
<1>3. CASE bound[i] = t /\ Goto(c, "user", t, i, NoUser, "none") /\ UNCHANGED Rows
  <2>1. Fits("user", [role |-> "none", account |-> t, invite |-> i, user |-> NoUser])
    BY <1>0, <1>3 DEF Fits
  <2> QED
    BY <1>0, <1>3, <2>1, GotoKeeps DEF Rows, Step, IInv, TypeOK
<1> QED
  BY <1>1, <1>2, <1>3 DEF ReadInvite

LEMMA ReadUserKeeps ==
    ASSUME IInv, NEW c \in Calls, ReadUser(c)
    PROVE  IInv'
<1> DEFINE t == req[c].account i == req[c].invite
<1>0. t \in Accounts /\ i \in Invites /\ bound[i] = t
  BY DEF ReadUser, IInv, CallsFit, Fits
<1>1. PICK u \in Found(t) : Goto(c, "claim", t, i, u, "none") /\ UNCHANGED Rows
  BY DEF ReadUser
<1>2. u \in Users \cup {NoUser} /\ (u # NoUser => telegram[u] = t /\ role[u] # "none")
  BY <1>0, <1>1, AccountAssumption DEF Found, IInv, Shape
<1>3. Fits("claim", [role |-> "none", account |-> t, invite |-> i, user |-> u])
  BY <1>0, <1>2 DEF Fits
<1> QED
  BY <1>0, <1>1, <1>2, <1>3, GotoKeeps DEF Rows, Step, IInv, TypeOK

LEMMA LinkSuperAdminKeeps ==
    ASSUME IInv, NEW c \in Calls, LinkSuperAdmin(c)
    PROVE  IInv'
<1> DEFINE t == req[c].account u == req[c].user
<1>0. t \in Accounts /\ u \in Users /\ u = bootstrap /\ role[u] # "none"
      /\ "super_admin" \in UserRole
  BY UserAssumption DEF LinkSuperAdmin, IInv, CallsFit, Fits, Shape, UserRole
<1>1. CASE AccountTaken(t, u)
  BY <1>1, LeaveKeeps DEF LinkSuperAdmin
<1>2. CASE ~ AccountTaken(t, u)
  <2>1. /\ telegram' = [telegram EXCEPT ![u] = t]
        /\ ensureRoleGrant(u, "super_admin")
        /\ relinked' = (relinked \/ telegram[u] \notin {NoAccount, t})
        /\ Free(c)
        /\ UNCHANGED <<role, keyed, wallets, bootstrap, session, invites, promoted>>
    BY <1>2 DEF LinkSuperAdmin
  <2>2. /\ telegram' \in [Users -> Accounts \cup {NoAccount}] /\ telegram'[u] = t
        /\ \A v \in Users \ {u} : telegram'[v] = telegram[v]
    BY <1>0, <2>1 DEF IInv, TypeOK
  <2>3. /\ grants' \in [Users -> SUBSET UserRole]
        /\ grants'[u] = grants[u] \cup {"super_admin"}
        /\ \A v \in Users \ {u} : grants'[v] = grants[v]
    BY <1>0, <2>1 DEF ensureRoleGrant, IInv, TypeOK
  <2>4. ~ relinked' => ~ relinked /\ \A v \in Users : telegram[v] # NoAccount => telegram'[v] = telegram[v]
    BY <2>1, <2>2
  <2>5. CallsFit'
    BY <2>1, <2>4, OthersFit DEF invites
  <2>6. TypeOK'
    BY <2>1, <2>2, <2>3, NothingFits DEF IInv, TypeOK, invites, Free, Step
  <2>7. Shape'
    BY <1>0, <1>2, <2>1, <2>2, <2>3 DEF IInv, Shape, AccountTaken, invites
  <2>8. OneSuperAdmin' /\ WholeUsers'
    BY <2>1, <2>3 DEF IInv, OneSuperAdmin, WholeUsers, Present
  <2>9. InviteFitsUser' /\ PublisherByInvite'
    BY <2>1, <2>3, <2>4 DEF IInv, TypeOK, Shape, InviteFitsUser, PublisherByInvite, invites
  <2> QED
    BY <2>5, <2>6, <2>7, <2>8, <2>9 DEF IInv
<1> QED
  BY <1>1, <1>2

LEMMA WriteRoleKeeps ==
    ASSUME IInv, NEW c \in Calls, WriteRole(c)
    PROVE  IInv'
<1> DEFINE u == req[c].user r == req[c].role
<1>0. u \in Users /\ role[u] # "none" /\ r \in UserRole /\ r # "none"
  BY RoleAssumption DEF WriteRole, IInv, CallsFit, Fits, UserRole
<1>1. CASE r = "super_admin" /\ KeyTaken(u)
  BY <1>1, LeaveKeeps DEF WriteRole
<1>2. CASE ~ (r = "super_admin" /\ KeyTaken(u))
  <2>1. /\ role' = [role EXCEPT ![u] = r]
        /\ keyed' = IF r = "super_admin" THEN keyed \cup {u} ELSE keyed \ {u}
        /\ ensureRoleGrant(u, r)
        /\ promoted' = IF r = "publisher" THEN promoted \cup {u} ELSE promoted
        /\ Free(c)
        /\ UNCHANGED <<telegram, wallets, bootstrap, session, invites, relinked>>
    BY <1>2 DEF WriteRole
  <2>2. /\ role' \in [Users -> UserRole \cup {"none"}] /\ role'[u] = r
        /\ \A v \in Users \ {u} : role'[v] = role[v]
    BY <1>0, <2>1 DEF IInv, TypeOK
  <2>3. /\ grants' \in [Users -> SUBSET UserRole]
        /\ grants'[u] = grants[u] \cup {r}
        /\ \A v \in Users \ {u} : grants'[v] = grants[v]
    BY <1>0, <2>1 DEF ensureRoleGrant, IInv, TypeOK
  <2>4. CallsFit'
    BY <1>0, <2>1, <2>2, OthersFit DEF invites
  <2>5. TypeOK'
    BY <1>0, <2>1, <2>2, <2>3, NothingFits DEF IInv, TypeOK, invites, Free, Step
  <2>6. Shape'
    BY <1>0, <2>1, <2>2, <2>3, UserAssumption DEF IInv, Shape, TypeOK, invites
  <2>7. OneSuperAdmin'
    BY <1>0, <1>2, <2>1, <2>2 DEF IInv, OneSuperAdmin, KeyTaken
  <2>8. WholeUsers'
    BY <1>0, <2>1, <2>2, <2>3 DEF IInv, WholeUsers, Present
  <2>9. InviteFitsUser' /\ PublisherByInvite'
    BY <1>0, <2>1, <2>3 DEF IInv, TypeOK, InviteFitsUser, PublisherByInvite, invites
  <2> QED
    BY <2>4, <2>5, <2>6, <2>7, <2>8, <2>9 DEF IInv
<1> QED
  BY <1>1, <1>2

LEMMA IssueInviteKeeps ==
    ASSUME IInv, NEW c \in Calls, IssueInvite(c)
    PROVE  IInv'
<1> DEFINE t == req[c].account
<1>0. t \in Accounts
  BY DEF IssueInvite, IInv, CallsFit, Fits
<1>1. PICK i \in Invites : bound[i] = NoAccount /\ bound' = [bound EXCEPT ![i] = t]
  BY DEF IssueInvite
<1>2. Free(c) /\ UNCHANGED <<users, bootstrap, session, usedBy, expired, history>>
  BY DEF IssueInvite
<1>3. bound' \in [Invites -> Accounts \cup {NoAccount}] /\ bound'[i] = t
      /\ \A j \in Invites \ {i} : bound'[j] = bound[j]
  BY <1>0, <1>1 DEF IInv, TypeOK
<1>4. CallsFit'
  BY <1>1, <1>2, <1>3, OthersFit DEF users, history
<1>5. TypeOK'
  BY <1>2, <1>3, NothingFits DEF IInv, TypeOK, users, history, Free, Step
<1>6. Shape' /\ OneSuperAdmin' /\ WholeUsers'
  BY <1>0, <1>1, <1>2, <1>3, AccountAssumption
  DEF IInv, Shape, OneSuperAdmin, WholeUsers, Present, users, history
<1>7. InviteFitsUser' /\ PublisherByInvite'
  BY <1>1, <1>2, <1>3 DEF IInv, Shape, InviteFitsUser, PublisherByInvite, users, history
<1> QED
  BY <1>4, <1>5, <1>6, <1>7 DEF IInv

LEMMA ExpireKeeps ==
    ASSUME IInv, NEW i \in Invites, Expire(i)
    PROVE  IInv'
BY DEF Expire, IInv, TypeOK, Shape, CallsFit, Fits, OneSuperAdmin, WholeUsers, Present,
       PublisherByInvite, InviteFitsUser, users, history

-----------------------------------------------------------------------------
(* Calls that begin *)

LEMMA StartKeeps ==
    ASSUME IInv, NEW c \in Calls, NEW s \in {"link", "invite", "plain"}, NEW t \in Accounts,
           NEW i \in Invites \cup {NoInvite}, s = "invite" => i \in Invites, Start(c, s, t, i)
    PROVE  IInv'
<1>1. Fits(s, [role |-> "none", account |-> t, invite |-> i, user |-> NoUser])
  BY DEF Fits
<1>2. /\ s \in Step /\ session' \subseteq Accounts
      /\ Goto(c, s, t, i, NoUser, "none")
      /\ UNCHANGED <<users, bootstrap, invites, history>>
  BY DEF Start, Step, IInv, TypeOK
<1> QED
  BY <1>1, <1>2, GotoKeeps

LEMMA CallStepKeeps ==
    ASSUME IInv, NEW c \in Calls, CallSteps(c)
    PROVE  IInv'
<1>1. CASE FindUser(c)
  <2>1. CASE Leave(c)
    BY <2>1, LeaveKeeps
  <2>2. CASE ~ Leave(c)
    <3>1. req[c].account \in Accounts
          /\ Goto(c, "create", req[c].account, NoInvite, NoUser, "none") /\ UNCHANGED Rows
      BY <1>1, <2>2 DEF FindUser, IInv, CallsFit, Fits
    <3>2. Fits("create", [role |-> "none", account |-> req[c].account, invite |-> NoInvite,
                          user |-> NoUser])
      BY <3>1 DEF Fits
    <3> QED
      BY <3>1, <3>2, GotoKeeps DEF Rows, Step, IInv, TypeOK
  <2> QED
    BY <2>1, <2>2
<1>2. CASE Abort(c)
  BY <1>2, LeaveKeeps DEF Abort
<1> QED
  BY <1>1, <1>2, CreateSuperAdminKeeps, ReadSuperAdminKeeps, LinkSuperAdminKeeps, ReadInviteKeeps,
     ReadUserKeeps, ClaimKeeps, CreateAdvertiserKeeps, IssueInviteKeeps, WriteRoleKeeps
  DEF CallSteps

LEMMA InitFits == Init => IInv
<1> SUFFICES ASSUME Init PROVE IInv
  OBVIOUS
<1>1. TypeOK
  BY NothingFits DEF Init, TypeOK, Step
<1>2. CallsFit
  BY NothingFits DEF Init, CallsFit
<1>3. Shape /\ OneSuperAdmin /\ WholeUsers /\ PublisherByInvite /\ InviteFitsUser
  BY DEF Init, Shape, OneSuperAdmin, WholeUsers, Present, PublisherByInvite, InviteFitsUser
<1> QED
  BY <1>1, <1>2, <1>3 DEF IInv

LEMMA NextKeeps == IInv /\ [Next]_vars => IInv'
<1> SUFFICES ASSUME IInv, [Next]_vars PROVE IInv'
  OBVIOUS
<1>1. CASE UNCHANGED vars
  BY <1>1 DEF vars, users, invites, history, IInv, TypeOK, Shape, CallsFit, Fits, OneSuperAdmin,
              WholeUsers, Present, PublisherByInvite, InviteFitsUser
<1>2. ASSUME NEW c \in Calls, CallSteps(c) PROVE IInv'
  BY <1>2, CallStepKeeps
<1>3. ASSUME NEW c \in Calls, BootstrapSuperAdmin(c) PROVE IInv'
  <2>1. Fits("bootstrap", [role |-> "super_admin", account |-> NoAccount, invite |-> NoInvite,
                           user |-> NoUser])
    BY DEF Fits
  <2> QED
    BY <1>3, <2>1, GotoKeeps DEF BootstrapSuperAdmin, Rows, Step, UserRole, IInv, TypeOK
<1>4. ASSUME NEW c \in Calls, NEW t \in Accounts, StartLink(c, t) \/ StartPlain(c, t) PROVE IInv'
  BY <1>4, StartKeeps DEF StartLink, StartPlain
<1>5. ASSUME NEW c \in Calls, NEW t \in Accounts, NEW i \in Invites, StartClaim(c, t, i) PROVE IInv'
  BY <1>5, StartKeeps DEF StartClaim
<1>6. ASSUME NEW c \in Calls, NEW t \in Accounts, InvitePublisher(c, t) PROVE IInv'
  <2>1. Fits("issue", [role |-> "none", account |-> t, invite |-> NoInvite, user |-> NoUser])
    BY DEF Fits
  <2> QED
    BY <1>6, <2>1, GotoKeeps DEF InvitePublisher, Rows, Step, IInv, TypeOK
<1>7. ASSUME NEW c \in Calls, NEW u \in Users, NEW r \in GivenRoles, ChangeUserRole(c, u, r)
      PROVE IInv'
  <2>1. r \in UserRole
    BY RoleAssumption
  <2>2. Fits("change", [role |-> r, account |-> NoAccount, invite |-> NoInvite, user |-> u])
    BY <1>7 DEF Fits, ChangeUserRole, Present
  <2> QED
    BY <1>7, <2>1, <2>2, GotoKeeps DEF ChangeUserRole, Rows, Step, IInv, TypeOK
<1> QED
  BY <1>1, <1>2, <1>3, <1>4, <1>5, <1>6, <1>7, ExpireKeeps DEF Next

-----------------------------------------------------------------------------
(* Theorems *)

LEMMA Invariance == Spec => []IInv
<1>1. Init => IInv
  BY InitFits
<1>2. IInv /\ [Next]_vars => IInv'
  BY NextKeeps
<1> QED
  BY <1>1, <1>2, PTL DEF Spec

(* The tables keep their types, for any number of users and calls.            *)
THEOREM TypeCorrect == Spec => []TypeOK
BY Invariance, PTL DEF IInv

(* At most one super admin, who holds the key, whatever bootstraps and changes *)
(* of role overlap.                                                          *)
THEOREM SuperAdminIsOne == Spec => []OneSuperAdmin
BY Invariance, PTL DEF IInv

(* Every user has its wallet and the grant of its role.                       *)
THEOREM UsersAreWhole == Spec => []WholeUsers
BY Invariance, PTL DEF IInv

(* Publishers come from invites or from admins, whatever calls of one user    *)
(* overlap.                                                                  *)
THEOREM InvitesMakePublishers == Spec => []PublisherByInvite
BY Invariance, PTL DEF IInv

(* A used invite names the user of the account it was made for.               *)
THEOREM InvitesFitUsers == Spec => []InviteFitsUser
BY Invariance, PTL DEF IInv

(* An invite once used stays with its user.                                   *)
THEOREM InviteUsedOnce == Spec => UsedOnce
<1>1. IInv /\ [Next]_vars =>
        [~ relinked => \A i \in Invites : usedBy[i] # NoUser => usedBy'[i] = usedBy[i]]_vars
  <2> SUFFICES ASSUME IInv, Next, ~ relinked, NEW i \in Invites, usedBy[i] # NoUser
               PROVE  usedBy'[i] = usedBy[i]
    BY DEF vars
  <2>1. ASSUME NEW c \in Calls, Claim(c) PROVE usedBy'[i] = usedBy[i]
    <3>1. pc[c] = "claim" /\ req[c].user \in Users \cup {NoUser}
      BY <2>1, RequestFields DEF Claim, IInv, TypeOK
    <3>2. CASE req[c].invite # i
      BY <2>1, <3>2 DEF Claim, Leave, Rows, invites, IInv, TypeOK
    <3>3. CASE req[c].invite = i
      BY <2>1, <3>1, <3>3, ClaimFinds DEF Claim, Leave, Rows, invites, IInv, TypeOK
    <3> QED
      BY <3>2, <3>3
  <2>2. ASSUME NEW c \in Calls, CallSteps(c), ~ Claim(c) PROVE usedBy'[i] = usedBy[i]
    BY <2>2 DEF CallSteps, CreateSuperAdmin, ReadSuperAdmin, LinkSuperAdmin, ReadInvite, Regrant,
       ReadUser, FindUser, CreateAdvertiser, IssueInvite, WriteRole, Abort, Leave, Rows, invites
  <2>3. ASSUME NEW c \in Calls, NEW t \in Accounts, NEW j \in Invites,
               StartLink(c, t) \/ StartPlain(c, t) \/ InvitePublisher(c, t) \/ StartClaim(c, t, j)
        PROVE  usedBy'[i] = usedBy[i]
    BY <2>3 DEF StartLink, StartPlain, InvitePublisher, StartClaim, Start, Rows, invites
  <2>4. ASSUME NEW c \in Calls, BootstrapSuperAdmin(c) PROVE usedBy'[i] = usedBy[i]
    BY <2>4 DEF BootstrapSuperAdmin, Rows, invites
  <2>5. ASSUME NEW c \in Calls, NEW u \in Users, NEW r \in GivenRoles, ChangeUserRole(c, u, r)
        PROVE  usedBy'[i] = usedBy[i]
    BY <2>5 DEF ChangeUserRole, Rows, invites
  <2>6. ASSUME NEW j \in Invites, Expire(j) PROVE usedBy'[i] = usedBy[i]
    BY <2>6 DEF Expire
  <2> QED
    BY <2>1, <2>2, <2>3, <2>4, <2>5, <2>6 DEF Next
<1> QED
  BY <1>1, Invariance, PTL DEF Spec, UsedOnce
=============================================================================
