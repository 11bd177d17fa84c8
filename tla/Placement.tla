------------------------------ MODULE Placement ------------------------------
(***************************************************************************)
(* From a channel and a campaign to a target the publisher has accepted:    *)
(* ChannelsService (registration, verification through Telegram, approval), *)
(* CampaignsService (campaign, creatives, targets, activation, submission,  *)
(* acceptance) and the freeze and unfreeze of the internal API.             *)
(*                                                                          *)
(* None of these handlers has a transaction around its reads and its write: *)
(* each reads, decides, and then writes a status by id.  A handler in       *)
(* flight is a slot c of Calls; its read is one step and its write another. *)
(* Only a creation is one action, for it depends on nothing it has read     *)
(* but what never changes again, and on a unique key.                       *)
(*                                                                          *)
(* Owners, prices, dates and audit rows are left out: they only refuse a    *)
(* call.  Moderation comes after acceptance and never gets through (README).*)
(***************************************************************************)
EXTENDS Naturals, Lifecycle

CONSTANTS
    Channels,   \* Telegram channels, at most one row of channels for each
    Campaigns, Targets, NoRow,
    Calls       \* handlers in flight at once

ChannelStatus == {"pending", "verified", "approved", "rejected", "blocked"}
Rows == Channels \cup Campaigns \cup Targets
Step == {"idle", "check", "add", "write"}

ASSUME RowsAssumption ==
    /\ Channels \cap Campaigns = {} /\ Channels \cap Targets = {}
    /\ Campaigns \cap Targets = {} /\ NoRow \notin Rows

VARIABLES
    status,     \* of each row, "none" while there is none
    parent,     \* campaignId and channelId of each target
    creatives,  \* campaigns with an ad creative
    checked,    \* channels with a channelVerification row
    pc, req,    \* the handlers in flight: the row, the status to write
    found,      \* history: channels whose bot Telegram has said is an admin
    overtaken   \* history: handlers whose row was written since they read it

tables == <<status, parent, creatives, checked>>
vars == <<tables, pc, req, found, overtaken>>

Statuses(r) == {"none"} \cup
    IF r \in Channels THEN ChannelStatus
    ELSE IF r \in Campaigns THEN CampaignStatus ELSE CampaignTargetStatus
Parent == [campaign : Campaigns \cup {NoRow}, channel : Channels \cup {NoRow}]
Request == [channel : Channels \cup {NoRow}, row : Rows \cup {NoRow},
            to : {"none", "verified", "approved", "rejected", "active", "paused",
                  "submitted", "accepted"}]
Nothing == [channel |-> NoRow, row |-> NoRow, to |-> "none"]

-----------------------------------------------------------------------------
(* Handlers *)

Goto(c, step, r, x, to) ==
    /\ pc' = [pc EXCEPT ![c] = step]
    /\ req' = [req EXCEPT ![c] = [channel |-> x, row |-> r, to |-> to]]

(* The guards of a handler hold of what it reads; it is about to write. *)
Decide(c, r, to) ==
    /\ pc[c] = "idle"
    /\ Goto(c, "write", r, NoRow, to)
    /\ UNCHANGED <<tables, found, overtaken>>

Free(c) ==
    /\ pc' = [pc EXCEPT ![c] = "idle"]
    /\ req' = [req EXCEPT ![c] = Nothing]

(* The update is by id, whatever the status is by now. *)
Write(c) ==
    /\ pc[c] = "write"
    /\ status' = [status EXCEPT ![req[c].row] = req[c].to]
    /\ overtaken' = [d \in Calls |-> /\ d # c
                                     /\ overtaken[d] \/ req[d].row = req[c].row]
    /\ Free(c)
    /\ UNCHANGED <<parent, creatives, found>>

(* The process dies, or a statement fails. *)
Abort(c) ==
    /\ pc[c] # "idle"
    /\ Free(c)
    /\ overtaken' = [overtaken EXCEPT ![c] = FALSE]
    /\ UNCHANGED <<tables, found>>

-----------------------------------------------------------------------------
(* Channels *)

(* the three ways to register a channel, under the unique telegramChannelId *)
CreateChannel(x) ==
    /\ status[x] = "none"
    /\ status' = [status EXCEPT ![x] = "pending"]
    /\ UNCHANGED <<parent, creatives, checked, pc, req, found, overtaken>>

RequestVerification(c, x) ==
    /\ pc[c] = "idle"
    /\ status[x] = "pending"
    /\ Goto(c, "check", x, NoRow, "verified")
    /\ UNCHANGED <<tables, found, overtaken>>

(* checkBotAdmin answers that the bot is an administrator. *)
BotIsAdmin(c) ==
    /\ pc[c] = "check"
    /\ pc' = [pc EXCEPT ![c] = "write"]
    /\ found' = found \cup {req[c].row}
    /\ UNCHANGED <<tables, req, overtaken>>

(* It is not, or Telegram does not answer: the error is noted. *)
VerificationFails(c) ==
    /\ pc[c] = "check"
    /\ checked' = checked \cup {req[c].row}
    /\ Free(c)
    /\ overtaken' = [overtaken EXCEPT ![c] = FALSE]
    /\ UNCHANGED <<status, parent, creatives, found>>

ApproveChannel_Pending(c, x) == status[x] \in {"pending", "verified"} /\ Decide(c, x, "approved")
ApproveChannel(c, x) == status[x] = "verified" /\ Decide(c, x, "approved")

RejectChannel(c, x) == status[x] \in {"pending", "verified"} /\ Decide(c, x, "rejected")

(* A verification is noted together with the status. *)
SaveChannel(c) ==
    /\ req[c].row \in Channels
    /\ Write(c)
    /\ checked' = IF req[c].to = "verified" THEN checked \cup {req[c].row} ELSE checked

-----------------------------------------------------------------------------
(* Campaigns *)

CreateCampaign(k) ==
    /\ status[k] = "none"
    /\ status' = [status EXCEPT ![k] = "draft"]
    /\ UNCHANGED <<parent, creatives, checked, pc, req, found, overtaken>>

AddCreative(k) ==
    /\ status[k] # "none"
    /\ creatives' = creatives \cup {k}
    /\ UNCHANGED <<status, parent, checked, pc, req, found, overtaken>>

ActivateCampaign(c, k) ==
    /\ status[k] = "draft"
    /\ k \in creatives
    /\ TransitionAllowed(campaignTransitions, status[k], "active", "advertiser")
    /\ Decide(c, k, "active")

FreezeCampaign_Unasserted(c, k) == status[k] \notin {"none", "paused"} /\ Decide(c, k, "paused")
FreezeCampaign(c, k) ==
    /\ status[k] \notin {"none", "paused"}
    /\ TransitionAllowed(campaignTransitions, status[k], "paused", "admin")
    /\ Decide(c, k, "paused")

(* The table lets an admin activate a draft, too, with or without a creative. *)
UnfreezeCampaign(c, k) ==
    /\ status[k] \notin {"none", "active"}
    /\ TransitionAllowed(campaignTransitions, status[k], "active", "admin")
    /\ Decide(c, k, "active")

SaveCampaign(c) == req[c].row \in Campaigns /\ Write(c) /\ UNCHANGED checked

-----------------------------------------------------------------------------
(* Targets *)

AddTarget(c, k, x) ==
    /\ pc[c] = "idle"
    /\ status[k] # "none"
    /\ status[x] = "approved"
    /\ Goto(c, "add", k, x, "none")
    /\ UNCHANGED <<tables, found, overtaken>>

InsertTarget_Orphan(c) ==
    /\ pc[c] = "add"
    /\ \E t \in Targets : status[t] = "none" /\ status' = [status EXCEPT ![t] = "pending"]
    /\ Free(c)
    /\ UNCHANGED <<parent, creatives, checked, found, overtaken>>
InsertTarget(c) ==
    /\ pc[c] = "add"
    /\ \E t \in Targets :
           /\ status[t] = "none"
           /\ status' = [status EXCEPT ![t] = "pending"]
           /\ parent' = [parent EXCEPT ![t] =
                  [campaign |-> req[c].row, channel |-> req[c].channel]]
    /\ Free(c)
    /\ overtaken' = [overtaken EXCEPT ![c] = FALSE]
    /\ UNCHANGED <<creatives, checked, found>>

SubmitTarget_Bare(c, t) ==
    /\ status[t] = "pending"
    /\ status[parent[t].campaign] = "active"
    /\ Decide(c, t, "submitted")
SubmitTarget(c, t) ==
    /\ status[t] = "pending"
    /\ status[parent[t].campaign] = "active"
    /\ status[parent[t].channel] = "approved"
    /\ parent[t].campaign \in creatives
    /\ TransitionAllowed(campaignTargetTransitions, status[t], "submitted", "advertiser")
    /\ Decide(c, t, "submitted")

AcceptTarget(c, t) ==
    /\ status[t] = "submitted"
    /\ TransitionAllowed(campaignTargetTransitions, status[t], "accepted", "publisher")
    /\ Decide(c, t, "accepted")

SaveTarget(c) == req[c].row \in Targets /\ Write(c) /\ UNCHANGED checked

-----------------------------------------------------------------------------
Init ==
    /\ status = [r \in Rows |-> "none"]
    /\ parent = [t \in Targets |-> [campaign |-> NoRow, channel |-> NoRow]]
    /\ creatives = {} /\ checked = {}
    /\ pc = [c \in Calls |-> "idle"]
    /\ req = [c \in Calls |-> Nothing]
    /\ found = {}
    /\ overtaken = [c \in Calls |-> FALSE]

Creations ==
    \/ \E x \in Channels : CreateChannel(x)
    \/ \E k \in Campaigns : CreateCampaign(k) \/ AddCreative(k)

Begin(c) ==
    \/ \E x \in Channels : RequestVerification(c, x) \/ ApproveChannel(c, x) \/ RejectChannel(c, x)
    \/ \E k \in Campaigns : ActivateCampaign(c, k) \/ FreezeCampaign(c, k) \/ UnfreezeCampaign(c, k)
    \/ \E k \in Campaigns, x \in Channels : AddTarget(c, k, x)
    \/ \E t \in Targets : SubmitTarget(c, t) \/ AcceptTarget(c, t)

End(c) ==
    \/ BotIsAdmin(c) \/ VerificationFails(c) \/ InsertTarget(c)
    \/ SaveChannel(c) \/ SaveCampaign(c) \/ SaveTarget(c) \/ Abort(c)

Next == Creations \/ \E c \in Calls : Begin(c) \/ End(c)

Spec == Init /\ [][Next]_vars

-----------------------------------------------------------------------------
(* Properties *)

(* Every row has a status of its table, and a target its campaign and channel. *)
TypeOK ==
    /\ status \in [Rows -> {"none"} \cup ChannelStatus \cup CampaignStatus \cup CampaignTargetStatus]
    /\ \A r \in Rows : status[r] \in Statuses(r)
    /\ parent \in [Targets -> Parent]
    /\ \A t \in Targets : status[t] # "none" =>
           parent[t].campaign \in Campaigns /\ parent[t].channel \in Channels
    /\ creatives \subseteq Campaigns /\ checked \subseteq Channels
    /\ pc \in [Calls -> Step]
    /\ req \in [Calls -> Request]
    /\ found \subseteq Channels
    /\ overtaken \in [Calls -> BOOLEAN]

(* A channel is verified or approved only if Telegram has said that the bot   *)
(* is an administrator there and the check was noted, whatever verifications, *)
(* approvals and rejections overlap and overwrite each other.                *)
VerifiedWasFound ==
    \A x \in Channels : status[x] \in {"verified", "approved"} => x \in found \cap checked

(* A target stands in a channel that was verified and is no longer pending,   *)
(* and one that was submitted belongs to a campaign with a creative that was  *)
(* activated: no overwritten status takes one of them back to before.        *)
PlacedIsReady ==
    \A t \in Targets :
        /\ status[t] # "none" =>
               /\ parent[t].channel \in found
               /\ status[parent[t].channel] \notin {"none", "pending"}
        /\ status[t] \notin {"none", "pending"} =>
               /\ parent[t].campaign \in creatives
               /\ status[parent[t].campaign] \notin {"none", "draft"}

(* what the channel handlers ask of a status before they change it *)
channelMoves == {<<"pending", "verified">>, <<"verified", "approved">>,
                 <<"pending", "rejected">>, <<"verified", "rejected">>}

Moves(r) ==
    IF r \in Channels THEN channelMoves
    ELSE IF r \in Campaigns THEN {<<e[1], e[2]>> : e \in campaignTransitions}
    ELSE {<<e[1], e[2]>> : e \in campaignTargetTransitions}

(* A status moves along its table, but for a handler that another one has     *)
(* overtaken between its read and its write: a late verification puts a       *)
(* rejected channel back, a late submission an accepted target.              *)
MovesByTable ==
    [][\A r \in Rows : status[r] # "none" /\ status'[r] # status[r] =>
            \/ <<status[r], status'[r]>> \in Moves(r)
            \/ \E c \in Calls : /\ pc[c] = "write" /\ pc'[c] = "idle"
                                /\ req[c].row = r /\ overtaken[c]]_vars
=============================================================================
