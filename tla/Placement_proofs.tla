--------------------------- MODULE Placement_proofs ---------------------------
(***************************************************************************)
(* Proofs about Placement.  The inductive invariant says of every handler   *)
(* in flight what its read has established and no other handler can undo:   *)
(* statuses never come back to the one a row was created with, so what was  *)
(* ready stays ready.                                                       *)
(***************************************************************************)
EXTENDS Placement, TLAPS

(* a channel that has been verified, whatever was written over it             *)
Verified(x) ==
    /\ x \in Channels /\ x \in found /\ x \in checked
    /\ status[x] \notin {"none", "pending"}

(* a campaign that has been activated                                         *)
Activated(k) == k \in Campaigns /\ k \in creatives /\ status[k] \notin {"none", "draft"}

(* What is in the rows beyond their types *)
RowsFit ==
    /\ \A x \in Channels : status[x] \in {"verified", "approved"} => Verified(x)
    /\ \A t \in Targets :
           /\ status[t] # "none" => Verified(parent[t].channel)
           /\ status[t] \notin {"none", "pending"} => Activated(parent[t].campaign)

(* The status a handler is about to write *)
CallFits(c) ==
    /\ pc[c] = "idle" => req[c].row = NoRow
    /\ pc[c] \in {"check", "write"} /\ req[c].row \in Channels =>
           /\ status[req[c].row] # "none"
           /\ req[c].to \in {"verified", "approved", "rejected"}
           /\ req[c].to = "approved" => Verified(req[c].row)
           /\ req[c].to = "verified" /\ pc[c] = "write" => req[c].row \in found
    /\ pc[c] = "check" => req[c].row \in Channels /\ req[c].to = "verified"
    /\ pc[c] = "write" => req[c].row \in Rows
    /\ pc[c] = "write" /\ req[c].row \in Campaigns =>
           req[c].to \in {"active", "paused"} /\ status[req[c].row] # "none"
    /\ pc[c] = "write" /\ req[c].row \in Targets =>
           /\ req[c].to \in {"submitted", "accepted"}
           /\ status[req[c].row] # "none"
           /\ Activated(parent[req[c].row].campaign)
    /\ pc[c] = "add" =>
           /\ req[c].row \in Campaigns /\ status[req[c].row] # "none"
           /\ Verified(req[c].channel)

(* A handler nobody has overtaken finds its row as it was read. *)
Fresh(c) ==
    pc[c] \in {"check", "write"} /\ ~ overtaken[c] =>
        <<status[req[c].row], req[c].to>> \in Moves(req[c].row)

IInv ==
    /\ TypeOK
    /\ RowsFit
    /\ \A c \in Calls : CallFits(c) /\ Fresh(c)

-----------------------------------------------------------------------------
(* Types *)

(* A request is read field by field. *)
LEMMA RequestFields ==
  ASSUME TypeOK, NEW c \in Calls
  PROVE  /\ pc[c] \in Step
         /\ req[c].row \in Rows \cup {NoRow}
         /\ req[c].channel \in Channels \cup {NoRow}
         /\ req[c].to \in {"none", "verified", "approved", "rejected", "active", "paused",
                           "submitted", "accepted"}
BY DEF TypeOK, Request

(* Free keeps the types of pc and req. *)
LEMMA FreeTypes ==
  ASSUME TypeOK, NEW c \in Calls, Free(c)
  PROVE  /\ pc' \in [Calls -> Step] /\ req' \in [Calls -> Request]
         /\ pc'[c] = "idle" /\ req'[c] = Nothing
         /\ \A d \in Calls \ {c} : pc'[d] = pc[d] /\ req'[d] = req[d]
<1>1. Nothing \in Request
  BY DEF Request, Nothing
<1> QED
  BY <1>1 DEF TypeOK, Free, Step

(* The status a handler writes is one of the row's table. *)
LEMMA WriteStatus ==
  ASSUME IInv, NEW c \in Calls, Write(c)
  PROVE  /\ req[c].row \in Rows
         /\ req[c].to \in Statuses(req[c].row) \ {"none", "pending", "draft"}
         /\ status[req[c].row] # "none"
         /\ status'[req[c].row] = req[c].to
         /\ \A r \in Rows \ {req[c].row} : status'[r] = status[r]
<1>1. pc[c] = "write" /\ CallFits(c) /\ TypeOK
  BY DEF Write, IInv
<1>2. req[c].row \in Rows
  BY <1>1 DEF CallFits
<1>3. req[c].to \in Statuses(req[c].row) \ {"none", "pending", "draft"} /\ status[req[c].row] # "none"
  <2>1. CASE req[c].row \in Channels
    BY <1>1, <2>1 DEF CallFits, Statuses, ChannelStatus
  <2>2. CASE req[c].row \in Campaigns
    BY <1>1, <2>2, RowsAssumption DEF CallFits, Statuses, CampaignStatus
  <2>3. CASE req[c].row \in Targets
    BY <1>1, <2>3, RowsAssumption DEF CallFits, Statuses, CampaignTargetStatus
  <2> QED
    BY <1>2, <2>1, <2>2, <2>3 DEF Rows
<1> QED
  BY <1>1, <1>2, <1>3 DEF Write, TypeOK

-----------------------------------------------------------------------------
(* What every step keeps *)

(* Statuses leave where their rows began and do not come back. *)
Grows ==
    /\ found \subseteq found' /\ checked \subseteq checked' /\ creatives \subseteq creatives'
    /\ \A r \in Rows : status[r] # "none" => status'[r] # "none"
    /\ \A x \in Channels : status[x] \notin {"none", "pending"} => status'[x] \notin {"none", "pending"}
    /\ \A k \in Campaigns : status[k] \notin {"none", "draft"} => status'[k] \notin {"none", "draft"}
    /\ \A t \in Targets : status[t] # "none" => parent'[t] = parent[t]

LEMMA GrowsKeeps ==
  ASSUME Grows
  PROVE  /\ \A x : Verified(x) => Verified(x)'
         /\ \A k : Activated(k) => Activated(k)'
BY DEF Grows, Verified, Activated

(* A handler that does not move keeps what it knows. *)
LEMMA OthersFit ==
  ASSUME IInv, Grows, NEW d \in Calls, pc'[d] = pc[d], req'[d] = req[d]
  PROVE  CallFits(d)'
<1>1. CallFits(d)
  BY DEF IInv
<1>2. /\ \A x : Verified(x) => Verified(x)'
      /\ \A k : Activated(k) => Activated(k)'
  BY GrowsKeeps
<1>3. pc[d] \in {"check", "write"} /\ req[d].row \in Channels =>
        /\ status'[req[d].row] # "none"
        /\ req[d].to \in {"verified", "approved", "rejected"}
        /\ req[d].to = "approved" => Verified(req[d].row)'
        /\ req[d].to = "verified" /\ pc[d] = "write" => req[d].row \in found'
  BY <1>1, <1>2 DEF CallFits, Grows, Rows
<1>4. pc[d] = "write" /\ req[d].row \in Campaigns =>
        req[d].to \in {"active", "paused"} /\ status'[req[d].row] # "none"
  BY <1>1 DEF CallFits, Grows, Rows
<1>5. pc[d] = "write" /\ req[d].row \in Targets =>
        /\ req[d].to \in {"submitted", "accepted"}
        /\ status'[req[d].row] # "none"
        /\ Activated(parent[req[d].row].campaign)'
        /\ parent'[req[d].row] = parent[req[d].row]
  BY <1>1, <1>2 DEF CallFits, Grows, Rows
<1>6. pc[d] = "add" =>
        /\ req[d].row \in Campaigns /\ status'[req[d].row] # "none"
        /\ Verified(req[d].channel)'
  BY <1>1, <1>2 DEF CallFits, Grows, Rows
<1> QED
  BY <1>1, <1>3, <1>4, <1>5, <1>6 DEF CallFits, Activated, Verified

LEMMA OthersFresh ==
  ASSUME IInv, NEW d \in Calls, pc'[d] = pc[d], req'[d] = req[d],
         \/ overtaken'[d] = overtaken[d] /\ status'[req[d].row] = status[req[d].row]
         \/ overtaken'[d] = TRUE
  PROVE  Fresh(d)'
BY DEF IInv, Fresh, Moves

(* A handler that has ended knows nothing. *)
LEMMA EndedFits ==
  ASSUME NEW c \in Calls, pc'[c] = "idle", req'[c] = Nothing
  PROVE  CallFits(c)' /\ Fresh(c)'
BY DEF CallFits, Fresh, Nothing

(* Rows that no handler writes stay as they fit. *)
LEMMA RowsStay ==
  ASSUME IInv, Grows,
         \A x \in Channels : status'[x] \in {"verified", "approved"} =>
             status'[x] = status[x] \/ Verified(x)',
         \A t \in Targets :
             /\ status'[t] # "none" => status[t] # "none" \/ Verified(parent[t].channel)'
             /\ status'[t] \notin {"none", "pending"} =>
                    \/ status[t] \notin {"none", "pending"}
                    \/ status[t] # "none" /\ Activated(parent[t].campaign)'
  PROVE  RowsFit'
<1>1. RowsFit
  BY DEF IInv
<1>2. /\ \A x : Verified(x) => Verified(x)'
      /\ \A k : Activated(k) => Activated(k)'
  BY GrowsKeeps
<1>3. \A x \in Channels : status'[x] \in {"verified", "approved"} => Verified(x)'
  BY <1>1, <1>2 DEF RowsFit
<1>4. ASSUME NEW t \in Targets, status'[t] # "none"
      PROVE  Verified(parent[t].channel)'
  BY <1>1, <1>4 DEF RowsFit, Grows, Verified
<1>5. ASSUME NEW t \in Targets, status'[t] \notin {"none", "pending"}
      PROVE  Activated(parent[t].campaign)'
  <2>1. CASE status[t] \notin {"none", "pending"}
    BY <1>1, <2>1 DEF RowsFit, Grows, Activated
  <2>2. CASE status[t] # "none" /\ Activated(parent[t].campaign)'
    BY <2>2
  <2> QED
    BY <1>5, <2>1, <2>2
<1> QED
  BY <1>3, <1>4, <1>5 DEF RowsFit

-----------------------------------------------------------------------------
(* The steps *)

(* A handler begins: only its slot changes. *)
LEMMA BeginKeeps ==
  ASSUME IInv, NEW c \in Calls, Begin(c)
  PROVE  IInv'
<1>1. TypeOK /\ RowsFit /\ CallFits(c)
  BY DEF IInv
<1>2. UNCHANGED <<tables, found, overtaken>>
  BY DEF Begin, RequestVerification, ApproveChannel, RejectChannel, ActivateCampaign,
         FreezeCampaign, UnfreezeCampaign, AddTarget, SubmitTarget, AcceptTarget, Decide
<1>3. Grows
  BY <1>2 DEF Grows, tables
<1>4. ASSUME NEW step \in Step, NEW r \in Rows, NEW x \in Channels \cup {NoRow},
             NEW to \in {"none", "verified", "approved", "rejected", "active", "paused",
                         "submitted", "accepted"},
             Goto(c, step, r, x, to),
             step \in {"check", "write"} => <<status[r], to>> \in Moves(r),
             step = "check" => r \in Channels /\ to = "verified",
             step \in {"check", "write"} /\ r \in Channels =>
                 /\ status[r] # "none" /\ to \in {"verified", "approved", "rejected"}
                 /\ to = "approved" => Verified(r)
                 /\ to = "verified" => step = "check",
             step = "write" /\ r \in Campaigns => to \in {"active", "paused"} /\ status[r] # "none",
             step = "write" /\ r \in Targets =>
                 to \in {"submitted", "accepted"} /\ status[r] # "none"
                 /\ Activated(parent[r].campaign),
             step = "add" => r \in Campaigns /\ status[r] # "none" /\ Verified(x),
             step # "idle"
      PROVE  IInv'
  <2>1. /\ pc' \in [Calls -> Step] /\ req' \in [Calls -> Request]
        /\ pc'[c] = step /\ req'[c] = [channel |-> x, row |-> r, to |-> to]
        /\ \A d \in Calls \ {c} : pc'[d] = pc[d] /\ req'[d] = req[d]
    <3>1. [channel |-> x, row |-> r, to |-> to] \in Request
      BY DEF Request
    <3> QED
      BY <1>1, <1>4, <3>1 DEF TypeOK, Goto
  <2>2. req'[c].row = r /\ req'[c].channel = x /\ req'[c].to = to
    BY <2>1
  <2>3. TypeOK'
    BY <1>1, <1>2, <2>1 DEF TypeOK, tables, Statuses
  <2>4. RowsFit'
    BY <1>1, <1>2 DEF RowsFit, tables, Verified, Activated
  <2>5. CallFits(c)'
    BY <1>2, <1>4, <2>1, <2>2 DEF CallFits, tables, Verified, Activated
  <2>6. Fresh(c)'
    BY <1>2, <1>4, <2>1, <2>2 DEF Fresh, tables, Moves
  <2>7. ASSUME NEW d \in Calls \ {c} PROVE CallFits(d)' /\ Fresh(d)'
    BY <1>2, <1>3, <2>1, OthersFit, OthersFresh DEF tables
  <2> QED
    BY <2>3, <2>4, <2>5, <2>6, <2>7 DEF IInv
<1>5. ASSUME NEW x \in Channels, RequestVerification(c, x) PROVE IInv'
  <2>1. Goto(c, "check", x, NoRow, "verified") /\ status[x] = "pending"
    BY <1>5 DEF RequestVerification
  <2>2. <<status[x], "verified">> \in Moves(x)
    BY <2>1 DEF Moves, channelMoves
  <2> QED
    BY <1>4, <2>1, <2>2, RowsAssumption DEF Step, Rows
<1>6. ASSUME NEW x \in Channels, ApproveChannel(c, x) PROVE IInv'
  <2>1. Goto(c, "write", x, NoRow, "approved") /\ status[x] = "verified"
    BY <1>6 DEF ApproveChannel, Decide
  <2>2. <<status[x], "approved">> \in Moves(x) /\ Verified(x)
    BY <1>1, <2>1 DEF Moves, channelMoves, RowsFit
  <2> QED
    BY <1>4, <2>1, <2>2, RowsAssumption DEF Step, Rows
<1>7. ASSUME NEW x \in Channels, RejectChannel(c, x) PROVE IInv'
  <2>1. Goto(c, "write", x, NoRow, "rejected") /\ status[x] \in {"pending", "verified"}
    BY <1>7 DEF RejectChannel, Decide
  <2>2. <<status[x], "rejected">> \in Moves(x)
    BY <2>1 DEF Moves, channelMoves
  <2> QED
    BY <1>4, <2>1, <2>2, RowsAssumption DEF Step, Rows
<1>8. ASSUME NEW k \in Campaigns, NEW to \in {"active", "paused"}, NEW a,
             status[k] \notin {"none", to}, Decide(c, k, to),
             TransitionAllowed(campaignTransitions, status[k], to, a)
      PROVE  IInv'
  <2>1. Goto(c, "write", k, NoRow, to)
    BY <1>8 DEF Decide
  <2>2. <<status[k], to, a>> \in campaignTransitions
    BY <1>8 DEF TransitionAllowed
  <2>3. <<status[k], to>> \in Moves(k)
    <3>1. k \notin Channels
      BY RowsAssumption
    <3>2. PICK e \in campaignTransitions : e[1] = status[k] /\ e[2] = to
      BY <2>2
    <3> QED
      BY <3>1, <3>2 DEF Moves
  <2> QED
    BY <1>4, <1>8, <2>1, <2>3, RowsAssumption DEF Step, Rows
<1>9. ASSUME NEW k \in Campaigns, ActivateCampaign(c, k) PROVE IInv'
  BY <1>8, <1>9 DEF ActivateCampaign
<1>10. ASSUME NEW k \in Campaigns, FreezeCampaign(c, k) PROVE IInv'
  BY <1>8, <1>10 DEF FreezeCampaign
<1>11. ASSUME NEW k \in Campaigns, UnfreezeCampaign(c, k) PROVE IInv'
  BY <1>8, <1>11 DEF UnfreezeCampaign
<1>12. ASSUME NEW k \in Campaigns, NEW x \in Channels, AddTarget(c, k, x) PROVE IInv'
  <2>1. Goto(c, "add", k, x, "none") /\ status[k] # "none" /\ status[x] = "approved"
    BY <1>12 DEF AddTarget
  <2>2. Verified(x)
    BY <1>1, <2>1 DEF RowsFit
  <2> QED
    BY <1>4, <2>1, <2>2, RowsAssumption DEF Step, Rows
<1>13. ASSUME NEW t \in Targets, NEW to \in {"submitted", "accepted"}, NEW a,
              status[t] \notin {"none", to}, Decide(c, t, to),
              Activated(parent[t].campaign),
              TransitionAllowed(campaignTargetTransitions, status[t], to, a)
       PROVE  IInv'
  <2>1. Goto(c, "write", t, NoRow, to)
    BY <1>13 DEF Decide
  <2>2. <<status[t], to, a>> \in campaignTargetTransitions
    BY <1>13 DEF TransitionAllowed
  <2>3. <<status[t], to>> \in Moves(t)
    <3>1. t \notin Channels /\ t \notin Campaigns
      BY RowsAssumption
    <3>2. PICK e \in campaignTargetTransitions : e[1] = status[t] /\ e[2] = to
      BY <2>2
    <3> QED
      BY <3>1, <3>2 DEF Moves
  <2> QED
    BY <1>4, <1>13, <2>1, <2>3, RowsAssumption DEF Step, Rows
<1>14. ASSUME NEW t \in Targets, SubmitTarget(c, t) PROVE IInv'
  <2>1. Activated(parent[t].campaign)
    BY <1>1, <1>14 DEF SubmitTarget, TypeOK, Activated
  <2> QED
    BY <1>13, <1>14, <2>1 DEF SubmitTarget
<1>15. ASSUME NEW t \in Targets, AcceptTarget(c, t) PROVE IInv'
  <2>1. Activated(parent[t].campaign)
    BY <1>1, <1>15 DEF AcceptTarget, RowsFit
  <2> QED
    BY <1>13, <1>15, <2>1 DEF AcceptTarget
<1> QED
  BY <1>5, <1>6, <1>7, <1>9, <1>10, <1>11, <1>12, <1>14, <1>15 DEF Begin

(* Registrations, campaigns and creatives: no handler is in flight. *)
LEMMA CreationsKeep ==
  ASSUME IInv, Creations
  PROVE  IInv'
<1>1. TypeOK /\ RowsFit /\ UNCHANGED <<parent, checked, pc, req, found, overtaken>>
  BY DEF IInv, Creations, CreateChannel, CreateCampaign, AddCreative
<1>2. PICK r \in Rows, s \in {"pending", "draft"} :
        /\ \/ status' = status
           \/ status[r] = "none" /\ status' = [status EXCEPT ![r] = s] /\ s \in Statuses(r)
        /\ r \in Channels => s = "pending"
        /\ r \notin Targets
        /\ creatives \subseteq creatives' /\ creatives' \subseteq Campaigns
  <2>1. ASSUME NEW x \in Channels, CreateChannel(x)
        PROVE  /\ status[x] = "none" /\ status' = [status EXCEPT ![x] = "pending"]
               /\ "pending" \in Statuses(x) /\ x \in Rows /\ x \notin Targets
               /\ creatives' = creatives
    BY <2>1, RowsAssumption DEF CreateChannel, Statuses, ChannelStatus, Rows
  <2>2. ASSUME NEW k \in Campaigns, CreateCampaign(k)
        PROVE  /\ status[k] = "none" /\ status' = [status EXCEPT ![k] = "draft"]
               /\ "draft" \in Statuses(k) /\ k \in Rows /\ k \notin Targets /\ k \notin Channels
               /\ creatives' = creatives
    BY <2>2, RowsAssumption DEF CreateCampaign, Statuses, CampaignStatus, Rows
  <2>3. ASSUME NEW k \in Campaigns, AddCreative(k)
        PROVE  /\ status' = status /\ creatives' = creatives \cup {k} /\ k \in Rows
               /\ k \notin Targets /\ k \notin Channels
    BY <2>3, RowsAssumption DEF AddCreative, Rows
  <2> QED
    BY <1>1, <2>1, <2>2, <2>3 DEF Creations, TypeOK
<1>3. \A q \in Rows : status'[q] = status[q] \/ (q = r /\ status[q] = "none" /\ status'[q] = s)
  BY <1>1, <1>2 DEF TypeOK
<1>4. Grows
  BY <1>1, <1>2, <1>3 DEF Grows, Rows
<1>5. TypeOK'
  <2>1. status' \in [Rows -> {"none"} \cup ChannelStatus \cup CampaignStatus \cup CampaignTargetStatus]
    BY <1>1, <1>2 DEF TypeOK, ChannelStatus, CampaignStatus
  <2>2. \A q \in Rows : status'[q] \in Statuses(q)
    BY <1>1, <1>2 DEF TypeOK
  <2>3. \A t \in Targets : status'[t] = status[t]
    BY <1>2, <1>3 DEF Rows
  <2> QED
    BY <1>1, <1>2, <2>1, <2>2, <2>3 DEF TypeOK, Statuses
<1>6. RowsFit'
  <2>1. \A x \in Channels : status'[x] \in {"verified", "approved"} => status'[x] = status[x]
    BY <1>2, <1>3 DEF Rows
  <2>2. \A t \in Targets : status'[t] = status[t]
    BY <1>2, <1>3 DEF Rows
  <2> QED
    BY <1>4, <2>1, <2>2, RowsStay
<1>7. ASSUME NEW d \in Calls PROVE CallFits(d)' /\ Fresh(d)'
  <2>1. CallFits(d)'
    BY <1>1, <1>4, OthersFit
  <2>2. CASE pc[d] \in {"check", "write"}
    <3>1. req[d].row \in Rows /\ status[req[d].row] # "none"
      BY <2>2 DEF IInv, CallFits, Rows
    <3> QED
      BY <2>1, <1>1, <1>3, <3>1, OthersFresh
  <2>3. CASE pc[d] \notin {"check", "write"}
    BY <2>1, <1>1, <2>3 DEF Fresh
  <2> QED
    BY <2>1, <2>2, <2>3
<1> QED
  BY <1>5, <1>6, <1>7 DEF IInv

(* A handler that writes no status *)
LEMMA QuietKeeps ==
  ASSUME IInv, NEW c \in Calls, BotIsAdmin(c) \/ VerificationFails(c) \/ Abort(c)
  PROVE  IInv'
<1>1. TypeOK /\ RowsFit /\ CallFits(c) /\ Fresh(c)
  BY DEF IInv
<1>2. /\ UNCHANGED <<status, parent, creatives>>
      /\ checked \subseteq checked' /\ found \subseteq found'
      /\ checked' \subseteq Channels /\ found' \subseteq Channels
      /\ overtaken' \in [Calls -> BOOLEAN]
      /\ \A d \in Calls \ {c} : overtaken'[d] = overtaken[d]
  BY <1>1 DEF BotIsAdmin, VerificationFails, Abort, tables, TypeOK, CallFits
<1>3. Grows
  BY <1>2 DEF Grows
<1>4. /\ pc' \in [Calls -> Step] /\ req' \in [Calls -> Request]
      /\ \A d \in Calls \ {c} : pc'[d] = pc[d] /\ req'[d] = req[d]
      /\ CallFits(c)' /\ Fresh(c)'
  <2>1. CASE BotIsAdmin(c)
    <3>1. /\ pc[c] = "check" /\ pc' = [pc EXCEPT ![c] = "write"] /\ UNCHANGED <<req, tables, overtaken>>
          /\ req[c].row \in found' /\ req[c].row \in Channels /\ req[c].to = "verified"
          /\ status[req[c].row] # "none"
      BY <1>1, <2>1 DEF BotIsAdmin, CallFits
    <3>2. pc' \in [Calls -> Step] /\ pc'[c] = "write" /\ \A d \in Calls \ {c} : pc'[d] = pc[d]
      BY <1>1, <3>1 DEF TypeOK, Step
    <3>3. CallFits(c)'
      BY <3>1, <3>2, RowsAssumption DEF CallFits, tables, Rows
    <3>4. Fresh(c)'
      BY <1>1, <3>1, <3>2 DEF Fresh, tables, Moves
    <3> QED
      BY <1>1, <3>1, <3>2, <3>3, <3>4 DEF TypeOK
  <2>2. CASE VerificationFails(c) \/ Abort(c)
    BY <1>1, <2>2, FreeTypes, EndedFits DEF VerificationFails, Abort
  <2> QED
    BY <2>1, <2>2
<1>5. TypeOK'
  BY <1>1, <1>2, <1>4 DEF TypeOK, Statuses
<1>6. RowsFit'
  BY <1>2, <1>3, RowsStay
<1>7. ASSUME NEW d \in Calls \ {c} PROVE CallFits(d)' /\ Fresh(d)'
  BY <1>2, <1>3, <1>4, OthersFit, OthersFresh
<1> QED
  BY <1>4, <1>5, <1>6, <1>7 DEF IInv

(* A target is inserted. *)
LEMMA InsertKeeps ==
  ASSUME IInv, NEW c \in Calls, InsertTarget(c)
  PROVE  IInv'
<1>1. TypeOK /\ RowsFit /\ CallFits(c)
  BY DEF IInv
<1>2. PICK t \in Targets :
        /\ status[t] = "none" /\ status' = [status EXCEPT ![t] = "pending"]
        /\ parent' = [parent EXCEPT ![t] =
               [campaign |-> req[c].row, channel |-> req[c].channel]]
  BY DEF InsertTarget
<1>3. /\ pc[c] = "add" /\ Free(c) /\ overtaken' = [overtaken EXCEPT ![c] = FALSE]
      /\ UNCHANGED <<creatives, checked, found>>
  BY DEF InsertTarget
<1>4. req[c].row \in Campaigns /\ Verified(req[c].channel) /\ req[c].channel \in Channels
  BY <1>1, <1>3 DEF CallFits, Verified
<1>5. /\ \A q \in Rows : status'[q] = IF q = t THEN "pending" ELSE status[q]
      /\ \A u \in Targets : u # t => parent'[u] = parent[u]
      /\ parent'[t] = [campaign |-> req[c].row, channel |-> req[c].channel]
      /\ parent' \in [Targets -> Parent]
  <2>1. [campaign |-> req[c].row, channel |-> req[c].channel] \in Parent
    BY <1>4 DEF Parent
  <2> QED
    BY <1>1, <1>2, <2>1 DEF TypeOK, Rows
<1>6. t \in Rows /\ t \notin Channels /\ t \notin Campaigns
  BY RowsAssumption DEF Rows
<1>7. Grows
  BY <1>2, <1>3, <1>5, <1>6 DEF Grows, Rows
<1>8. /\ pc' \in [Calls -> Step] /\ req' \in [Calls -> Request]
      /\ pc'[c] = "idle" /\ req'[c] = Nothing
      /\ \A d \in Calls \ {c} : pc'[d] = pc[d] /\ req'[d] = req[d]
  BY <1>1, <1>3, FreeTypes
<1>9. TypeOK'
  <2>1. status' \in [Rows -> {"none"} \cup ChannelStatus \cup CampaignStatus \cup CampaignTargetStatus]
    BY <1>1, <1>2 DEF TypeOK, ChannelStatus
  <2>2. \A q \in Rows : status'[q] \in Statuses(q)
    BY <1>1, <1>5, <1>6 DEF TypeOK, Statuses, CampaignTargetStatus
  <2>3. \A u \in Targets : status'[u] # "none" =>
           parent'[u].campaign \in Campaigns /\ parent'[u].channel \in Channels
    BY <1>1, <1>4, <1>5 DEF TypeOK, Rows
  <2>4. overtaken' \in [Calls -> BOOLEAN]
    BY <1>1, <1>3 DEF TypeOK
  <2> QED
    BY <1>1, <1>3, <1>5, <1>8, <2>1, <2>2, <2>3, <2>4 DEF TypeOK, Statuses
<1>10. RowsFit'
  <2>1. Verified(parent[t].channel)'
    BY <1>4, <1>5, <1>7 DEF Grows, Verified
  <2>2. \A x \in Channels : status'[x] = status[x]
    BY <1>5, <1>6 DEF Rows
  <2>3. \A u \in Targets :
          /\ status'[u] # "none" => status[u] # "none" \/ Verified(parent[u].channel)'
          /\ status'[u] \notin {"none", "pending"} => status[u] \notin {"none", "pending"}
    BY <1>5, <2>1 DEF Rows
  <2> QED
    BY <1>7, <2>2, <2>3, RowsStay
<1>11. ASSUME NEW d \in Calls \ {c} PROVE CallFits(d)' /\ Fresh(d)'
  <2>1. CallFits(d)'
    BY <1>7, <1>8, OthersFit
  <2>2. overtaken'[d] = overtaken[d]
    BY <1>1, <1>3 DEF TypeOK
  <2>3. CASE pc[d] \in {"check", "write"}
    <3>1. req[d].row \in Rows /\ status[req[d].row] # "none"
      BY <2>3 DEF IInv, CallFits, Rows
    <3>2. status'[req[d].row] = status[req[d].row]
      BY <1>2, <1>5, <3>1
    <3> QED
      BY <2>1, <1>8, <2>2, <3>2, OthersFresh
  <2>4. CASE pc[d] \notin {"check", "write"}
    BY <2>1, <1>8, <2>4 DEF Fresh
  <2> QED
    BY <2>1, <2>3, <2>4
<1>12. CallFits(c)' /\ Fresh(c)'
  BY <1>8, EndedFits
<1> QED
  BY <1>9, <1>10, <1>11, <1>12 DEF IInv

(* A status is written by id. *)
LEMMA SaveKeeps ==
  ASSUME IInv, NEW c \in Calls, SaveChannel(c) \/ SaveCampaign(c) \/ SaveTarget(c)
  PROVE  IInv'
<1> DEFINE r == req[c].row to == req[c].to
<1>1. TypeOK /\ RowsFit /\ CallFits(c)
  BY DEF IInv
<1>2. /\ Write(c) /\ pc[c] = "write" /\ Free(c) /\ UNCHANGED <<parent, creatives, found>>
      /\ checked \subseteq checked' /\ checked' \subseteq Channels
      /\ r \in Channels /\ to = "verified" => r \in checked'
      /\ overtaken' = [d \in Calls |-> /\ d # c
                                       /\ overtaken[d] \/ req[d].row = req[c].row]
  <2>1. Write(c)
    BY DEF SaveChannel, SaveCampaign, SaveTarget
  <2>2. checked \subseteq checked' /\ checked' \subseteq Channels
    BY <1>1 DEF SaveChannel, SaveCampaign, SaveTarget, TypeOK
  <2>3. r \in Channels /\ to = "verified" => r \in checked'
    BY RowsAssumption DEF SaveChannel, SaveCampaign, SaveTarget
  <2> QED
    BY <2>1, <2>2, <2>3 DEF Write
<1>3. /\ r \in Rows /\ to \in Statuses(r) \ {"none", "pending", "draft"}
      /\ status[r] # "none" /\ status'[r] = to
      /\ \A q \in Rows \ {r} : status'[q] = status[q]
  BY <1>2, WriteStatus
<1>4. Grows
  BY <1>2, <1>3 DEF Grows, Rows
<1>5. /\ pc' \in [Calls -> Step] /\ req' \in [Calls -> Request]
      /\ pc'[c] = "idle" /\ req'[c] = Nothing
      /\ \A d \in Calls \ {c} : pc'[d] = pc[d] /\ req'[d] = req[d]
  BY <1>1, <1>2, FreeTypes
<1>6. TypeOK'
  <2>1. to \in {"none"} \cup ChannelStatus \cup CampaignStatus \cup CampaignTargetStatus
    BY <1>3 DEF Statuses
  <2>2. status' \in [Rows -> {"none"} \cup ChannelStatus \cup CampaignStatus \cup CampaignTargetStatus]
    BY <1>1, <1>2, <2>1 DEF TypeOK, Write
  <2>3. \A q \in Rows : status'[q] \in Statuses(q)
    BY <1>1, <1>3 DEF TypeOK
  <2>4. \A t \in Targets : status'[t] # "none" =>
           parent'[t].campaign \in Campaigns /\ parent'[t].channel \in Channels
    BY <1>1, <1>2, <1>3 DEF TypeOK, Rows
  <2>5. overtaken' \in [Calls -> BOOLEAN]
    BY <1>1, <1>2 DEF TypeOK
  <2> QED
    BY <1>1, <1>2, <1>5, <2>2, <2>3, <2>4, <2>5 DEF TypeOK, Statuses
<1>7. RowsFit'
  <2>1. ASSUME NEW x \in Channels, status'[x] \in {"verified", "approved"}
        PROVE  status'[x] = status[x] \/ Verified(x)'
    <3>1. CASE x # r
      BY <1>3, <3>1 DEF Rows
    <3>2. CASE x = r /\ to = "verified"
      BY <1>1, <1>2, <1>3, <3>2 DEF CallFits, Verified
    <3>3. CASE x = r /\ to = "approved"
      BY <1>1, <1>2, <1>4, <3>3, GrowsKeeps DEF CallFits
    <3> QED
      BY <1>3, <2>1, <3>1, <3>2, <3>3
  <2>2. ASSUME NEW t \in Targets
        PROVE  /\ status'[t] # "none" => status[t] # "none" \/ Verified(parent[t].channel)'
               /\ status'[t] \notin {"none", "pending"} =>
                    \/ status[t] \notin {"none", "pending"}
                    \/ status[t] # "none" /\ Activated(parent[t].campaign)'
    <3>1. CASE t # r
      BY <1>3, <3>1 DEF Rows
    <3>2. CASE t = r
      <4>1. Activated(parent[t].campaign)
        BY <1>1, <1>2, <3>2 DEF CallFits
      <4>2. Activated(parent[t].campaign)'
        BY <1>2, <1>4, <4>1, GrowsKeeps DEF Activated
      <4> QED
        BY <1>3, <3>2, <4>2
    <3> QED
      BY <3>1, <3>2
  <2> QED
    BY <1>4, <2>1, <2>2, RowsStay
<1>8. ASSUME NEW d \in Calls \ {c} PROVE CallFits(d)' /\ Fresh(d)'
  <2>1. CallFits(d)'
    BY <1>4, <1>5, OthersFit
  <2>2. CASE req[d].row = r
    BY <2>1, <1>2, <1>5, <2>2, OthersFresh
  <2>3. CASE req[d].row # r /\ pc[d] \in {"check", "write"}
    <3>1. req[d].row \in Rows
      BY <2>3 DEF IInv, CallFits, Rows
    <3>2. status'[req[d].row] = status[req[d].row] /\ overtaken'[d] = overtaken[d]
      BY <1>1, <1>2, <1>3, <2>3, <3>1 DEF TypeOK
    <3> QED
      BY <2>1, <1>5, <3>2, OthersFresh
  <2>4. CASE pc[d] \notin {"check", "write"}
    BY <2>1, <1>5, <2>4 DEF Fresh
  <2> QED
    BY <2>1, <2>2, <2>3, <2>4
<1>9. CallFits(c)' /\ Fresh(c)'
  BY <1>5, EndedFits
<1> QED
  BY <1>6, <1>7, <1>8, <1>9 DEF IInv

-----------------------------------------------------------------------------
LEMMA Start == Init => IInv
<1> SUFFICES ASSUME Init PROVE IInv
  OBVIOUS
<1>1. TypeOK
  <2>1. status \in [Rows -> {"none"} \cup ChannelStatus \cup CampaignStatus \cup CampaignTargetStatus]
    BY DEF Init
  <2>2. \A r \in Rows : status[r] = "none" /\ status[r] \in Statuses(r)
    BY DEF Init, Statuses
  <2>3. parent \in [Targets -> Parent]
    BY DEF Init, Parent
  <2>4. req \in [Calls -> Request]
    <3>1. Nothing \in Request
      BY DEF Nothing, Request
    <3> QED
      BY <3>1 DEF Init
  <2> QED
    BY <2>1, <2>2, <2>3, <2>4 DEF Init, TypeOK, Step, Rows
<1>2. RowsFit
  BY DEF Init, RowsFit, Rows
<1>3. \A c \in Calls : CallFits(c) /\ Fresh(c)
  BY DEF Init, CallFits, Fresh, Nothing
<1> QED
  BY <1>1, <1>2, <1>3 DEF IInv

LEMMA Consecution == IInv /\ [Next]_vars => IInv'
<1> SUFFICES ASSUME IInv, [Next]_vars PROVE IInv'
  OBVIOUS
<1>1. CASE Creations
  BY <1>1, CreationsKeep
<1>2. ASSUME NEW c \in Calls, Begin(c) PROVE IInv'
  BY <1>2, BeginKeeps
<1>3. ASSUME NEW c \in Calls, End(c) PROVE IInv'
  BY <1>3, QuietKeeps, InsertKeeps, SaveKeeps DEF End
<1>4. CASE UNCHANGED vars
  <2>1. TypeOK'
    BY <1>4 DEF IInv, TypeOK, vars, tables, Statuses
  <2>2. RowsFit'
    BY <1>4 DEF IInv, RowsFit, Verified, Activated, vars, tables
  <2>3. ASSUME NEW c \in Calls PROVE CallFits(c)' /\ Fresh(c)'
    BY <1>4 DEF IInv, CallFits, Fresh, Moves, Verified, Activated, vars, tables
  <2> QED
    BY <2>1, <2>2, <2>3 DEF IInv
<1> QED
  BY <1>1, <1>2, <1>3, <1>4 DEF Next

THEOREM Invariance == Spec => []IInv
<1> QED
  BY Start, Consecution, PTL DEF Spec

(* Every row has a status of its own table, however handlers overlap.         *)
THEOREM TypeCorrect == Spec => []TypeOK
<1>1. IInv => TypeOK
  BY DEF IInv
<1> QED
  BY <1>1, Invariance, PTL

(* A channel is verified or approved only after Telegram has vouched for it.  *)
THEOREM ChannelsVerified == Spec => []VerifiedWasFound
<1>1. IInv => VerifiedWasFound
  BY DEF IInv, RowsFit, Verified, VerifiedWasFound
<1> QED
  BY <1>1, Invariance, PTL

(* A target's channel and campaign stay ready for it.                         *)
THEOREM TargetsReady == Spec => []PlacedIsReady
<1>1. IInv => PlacedIsReady
  BY DEF IInv, RowsFit, Verified, Activated, PlacedIsReady
<1> QED
  BY <1>1, Invariance, PTL

(* Only a handler that was overtaken moves a status against its table.        *)
THEOREM TablesFollowed == Spec => MovesByTable
<1>1. ASSUME IInv, Next, NEW r \in Rows, status[r] # "none", status'[r] # status[r]
      PROVE  \/ <<status[r], status'[r]>> \in Moves(r)
             \/ \E c \in Calls : /\ pc[c] = "write" /\ pc'[c] = "idle"
                                 /\ req[c].row = r /\ overtaken[c]
  <2>1. TypeOK
    BY <1>1 DEF IInv
  <2>2. ~ Creations
    BY <1>1, <2>1 DEF Creations, CreateChannel, CreateCampaign, AddCreative, TypeOK
  <2>3. PICK c \in Calls : Begin(c) \/ End(c)
    BY <1>1, <2>2 DEF Next
  <2>4. ~ Begin(c)
    BY <1>1 DEF Begin, RequestVerification, ApproveChannel, RejectChannel, ActivateCampaign,
         FreezeCampaign, UnfreezeCampaign, AddTarget, SubmitTarget, AcceptTarget, Decide, tables
  <2>5. ~ (BotIsAdmin(c) \/ VerificationFails(c) \/ Abort(c) \/ InsertTarget(c))
    BY <1>1, <2>1 DEF BotIsAdmin, VerificationFails, Abort, InsertTarget, tables, TypeOK
  <2>6. Write(c)
    BY <2>3, <2>4, <2>5 DEF End, SaveChannel, SaveCampaign, SaveTarget
  <2>7. req[c].row = r /\ status'[r] = req[c].to
    BY <1>1, <2>6, WriteStatus
  <2>8. pc[c] = "write" /\ pc'[c] = "idle"
    BY <2>1, <2>6, FreeTypes DEF Write
  <2>9. CASE ~ overtaken[c]
    BY <1>1, <2>7, <2>8, <2>9 DEF IInv, Fresh
  <2> QED
    BY <2>7, <2>8, <2>9
<1>2. IInv /\ [Next]_vars =>
        [\A r \in Rows : status[r] # "none" /\ status'[r] # status[r] =>
            \/ <<status[r], status'[r]>> \in Moves(r)
            \/ \E c \in Calls : /\ pc[c] = "write" /\ pc'[c] = "idle"
                                /\ req[c].row = r /\ overtaken[c]]_vars
  BY <1>1
<1> QED
  BY <1>2, Invariance, PTL DEF Spec, MovesByTable
=============================================================================
