----------------------- MODULE CampaignEscrow_proofs -----------------------
(***************************************************************************)
(* Proofs about CampaignEscrow, for every set of targets, of calls in       *)
(* flight, of prices and commissions, and with every caller.                *)
(***************************************************************************)
EXTENDS CampaignEscrow, Totals_proofs

-----------------------------------------------------------------------------
(* Steps that many actions share *)

(* A call that ends without writing anything keeps the invariant. *)
LEMMA RollbackKeeps ==
    ASSUME IInv, NEW c \in Calls, Rollback(c)
    PROVE  IInv'
<1>1. /\ UNCHANGED data
      /\ pc' = [pc EXCEPT ![c] = "idle"]
      /\ req' = [req EXCEPT ![c] = NoRequest]
      /\ escLock' = Unlocked(escLock, c)
      /\ jobLock' = Unlocked(jobLock, c)
  BY DEF Rollback, End
<1>2. TypeOK'
  BY <1>1 DEF IInv, TypeOK, data, Unlocked, Step
<1>3. StepFitsOperation'
  BY <1>1 DEF IInv, TypeOK, StepFitsOperation
<1>4. LockGuards'
  BY <1>1, CallAssumption DEF IInv, TypeOK, LockGuards, data, Unlocked, Request
<1>5. EscrowMatchesLedger' /\ CommissionWithPayout' /\ HistoryFits' /\ SettledWasReady'
  BY <1>1 DEF IInv, TypeOK, EscrowMatchesLedger, CommissionWithPayout, HistoryFits,
                SettledWasReady, data
<1> QED
  BY <1>2, <1>3, <1>4, <1>5 DEF IInv

(* So does the start of a call at a step before lockEscrow. *)
LEMMA BeginKeeps ==
    ASSUME IInv, NEW c \in Calls, NEW t \in Targets,
           NEW first \in {"find", "job", "switch", "lock"},
           NEW op \in Operation, NEW actor \in Actor,
           NEW sets \in {"none", "success", "failed", "queued"},
           first = "job" => op \in {"release", "refund", "requeue"},
           first = "switch" => op = "release",
           first = "lock" => op \in {"release", "refund"},
           op = "release" => actor = "admin" \/ sets = "success",
           Begin(c, first, op, t, actor, sets)
    PROVE  IInv'
<1> DEFINE r == [op |-> op, target |-> t, actor |-> actor, sets |-> sets]
<1>1. /\ UNCHANGED <<data, locks>>
      /\ pc' = [pc EXCEPT ![c] = first]
      /\ req' = [req EXCEPT ![c] = r]
  BY DEF Begin
<1>2. r \in Request
  BY DEF Request
<1>3. TypeOK'
  BY <1>1, <1>2 DEF IInv, TypeOK, data, locks, Step
<1>4. StepFitsOperation'
  BY <1>1 DEF IInv, TypeOK, StepFitsOperation
<1>5. LockGuards'
  BY <1>1 DEF IInv, TypeOK, LockGuards, data, locks
<1>6. EscrowMatchesLedger' /\ CommissionWithPayout' /\ HistoryFits' /\ SettledWasReady'
  BY <1>1 DEF IInv, TypeOK, EscrowMatchesLedger, CommissionWithPayout, HistoryFits,
                SettledWasReady, data
<1> QED
  BY <1>3, <1>4, <1>5, <1>6 DEF IInv

(* So does a step that only moves on, unless it moves past lockEscrow. *)
LEMMA GotoKeeps ==
    ASSUME IInv, NEW c \in Calls, pc[c] # "idle", NEW step \in Step \ {"idle"},
           step = "switch" => req[c].op = "release",
           step \in {"lock", "check", "pay"} => req[c].op \in {"release", "refund"},
           step = "job" => req[c].op \in {"release", "refund", "requeue"},
           step \in {"job", "switch", "lock", "check", "pay"} /\ req[c].op = "release" =>
               req[c].actor = "admin" \/ req[c].sets = "success",
           step \in {"check", "pay"} => pc[c] = "check",
           step = "pay" /\ req[c].op = "release" => "approved" \in been[req[c].target],
           step = "pay" /\ req[c].op = "refund" => "failed" \in been[req[c].target],
           Goto(c, step), UNCHANGED <<data, locks>>
    PROVE  IInv'
<1>1. /\ UNCHANGED <<data, locks>>
      /\ pc' = [pc EXCEPT ![c] = step]
      /\ req' = req
  BY DEF Goto
<1>2. TypeOK'
  BY <1>1 DEF IInv, TypeOK, data, locks
<1>3. StepFitsOperation'
  BY <1>1 DEF IInv, TypeOK, StepFitsOperation
<1>4. LockGuards'
  BY <1>1 DEF IInv, TypeOK, LockGuards, data, locks
<1>5. EscrowMatchesLedger' /\ CommissionWithPayout' /\ HistoryFits' /\ SettledWasReady'
  BY <1>1 DEF IInv, TypeOK, EscrowMatchesLedger, CommissionWithPayout, HistoryFits,
                SettledWasReady, data
<1> QED
  BY <1>2, <1>3, <1>4, <1>5 DEF IInv

(* What a call writes for its caller keeps the type of the post jobs. *)
LEMMA JobWrittenType ==
    ASSUME TypeOK, NEW c \in Calls, pc[c] # "idle"
    PROVE  JobWritten(c) \in [Targets -> PostJobStatus \cup {"none"}]
<1>1. req[c] \in Request
  BY DEF TypeOK
<1> QED
  BY <1>1 DEF TypeOK, JobWritten, Request, PostJobStatus

(* In the table a target is posted only from approved, refunded only from     *)
(* failed.                                                                   *)
LEMMA TableDemands ==
    ASSUME NEW e \in campaignTargetTransitions
    PROVE  /\ e[2] \in CampaignTargetStatus
           /\ e[2] = "posted" => e[1] = "approved"
           /\ e[2] = "refunded" => e[1] = "failed"
BY DEF campaignTargetTransitions, Edge, CampaignTargetStatus

(* What CheckOutcome has found is in the target's history. *)
LEMMA ReadyIsRecorded ==
    ASSUME HistoryFits, NEW r \in Request, r.op \in {"release", "refund"}, TargetReady(r)
    PROVE  /\ r.op = "release" => "approved" \in been[r.target]
           /\ r.op = "refund" => "failed" \in been[r.target]
<1>1. r.target \in Targets
  BY DEF Request
<1>2. CASE target[r.target] = FinalTarget(r.op)
  BY <1>1, <1>2 DEF HistoryFits, FinalTarget
<1>3. CASE <<target[r.target], FinalTarget(r.op), r.actor>> \in campaignTargetTransitions
  <2>1. /\ FinalTarget(r.op) = "posted" => target[r.target] = "approved"
        /\ FinalTarget(r.op) = "refunded" => target[r.target] = "failed"
    BY <1>3, TableDemands
  <2> QED
    BY <1>1, <2>1 DEF HistoryFits, FinalTarget
<1> QED
  BY <1>2, <1>3 DEF TargetReady, TransitionAllowed

-----------------------------------------------------------------------------
(* The callers *)

LEMMA StartKeeps ==
    ASSUME IInv, NEW c \in Calls, NEW t \in Targets, Start(c, t)
    PROVE  IInv'
<1> USE DEF Operation, Actor
<1>1. CASE HoldEscrow(c, t)
  BY <1>1, BeginKeeps DEF HoldEscrow
<1>2. CASE TakeJob(c, t)
  <2> DEFINE r == [op |-> "deliver", target |-> t, actor |-> "worker", sets |-> "none"]
  <2>1. /\ pc' = [pc EXCEPT ![c] = "deliver"]
        /\ req' = [req EXCEPT ![c] = r]
        /\ postJob' = [postJob EXCEPT ![t] = IF @ = "queued" THEN "sending" ELSE @]
        /\ UNCHANGED <<campaign, spent, target, been, overdue, escrow, ledger, markers,
                       balance, enabled, locks>>
    BY <1>2 DEF TakeJob
  <2>2. r \in Request
    BY DEF Request
  <2>3. TypeOK'
    BY <2>1, <2>2 DEF IInv, TypeOK, locks, Step, PostJobStatus
  <2>4. StepFitsOperation'
    BY <2>1 DEF IInv, TypeOK, StepFitsOperation
  <2>5. LockGuards'
    BY <2>1 DEF IInv, TypeOK, LockGuards, locks
  <2>6. EscrowMatchesLedger' /\ CommissionWithPayout' /\ HistoryFits' /\ SettledWasReady'
    BY <2>1 DEF IInv, TypeOK, EscrowMatchesLedger, CommissionWithPayout, HistoryFits,
                SettledWasReady
  <2> QED
    BY <2>3, <2>4, <2>5, <2>6 DEF IInv
<1>3. CASE RecoverSent(c, t)
  BY <1>3, BeginKeeps DEF RecoverSent
<1>4. CASE RecoverExhausted(c, t)
  BY <1>4, BeginKeeps DEF RecoverExhausted
<1>5. CASE RecoverStalled(c, t)
  BY <1>5, BeginKeeps DEF RecoverStalled
<1>6. CASE WatchdogRefund(c, t)
  BY <1>6, BeginKeeps DEF WatchdogRefund
<1>7. CASE AdminRelease(c, t)
  BY <1>7, BeginKeeps DEF AdminRelease
<1>8. CASE AdminRefund(c, t)
  BY <1>8, BeginKeeps DEF AdminRefund
<1>9. CASE AdminRetryPost(c, t)
  BY <1>9, BeginKeeps DEF AdminRetryPost
<1> QED
  BY <1>1, <1>2, <1>3, <1>4, <1>5, <1>6, <1>7, <1>8, <1>9 DEF Start

(* The outcome of a delivery becomes the request of the transaction. *)
LEMMA DeliveredKeeps ==
    ASSUME IInv, NEW c \in Calls, NEW op \in {"release", "refund", "requeue"},
           NEW status \in {"success", "failed", "queued"},
           op = "release" => status = "success",
           Delivered(c, op, status)
    PROVE  IInv'
<1>1. /\ pc[c] = "deliver"
      /\ pc' = [pc EXCEPT ![c] = "job"]
      /\ req' = [req EXCEPT ![c].op = op, ![c].sets = status]
      /\ UNCHANGED <<data, locks>>
  BY DEF Delivered
<1>2. req[c] \in Request
  BY <1>1 DEF IInv, TypeOK
<1>3. req'[c] \in Request /\ req'[c].op = op /\ req'[c].sets = status
  BY <1>1, <1>2 DEF IInv, TypeOK, Request, Operation
<1>4. \A d \in Calls \ {c} : req'[d] = req[d] /\ pc'[d] = pc[d]
  BY <1>1 DEF IInv, TypeOK
<1>5. TypeOK'
  BY <1>1, <1>3, <1>4 DEF IInv, TypeOK, data, locks, Step
<1>6. StepFitsOperation'
  BY <1>1, <1>3, <1>4 DEF IInv, TypeOK, StepFitsOperation
<1>7. LockGuards'
  BY <1>1, <1>4 DEF IInv, TypeOK, LockGuards, data, locks
<1>8. EscrowMatchesLedger' /\ CommissionWithPayout' /\ HistoryFits' /\ SettledWasReady'
  BY <1>1 DEF IInv, TypeOK, EscrowMatchesLedger, CommissionWithPayout, HistoryFits,
                SettledWasReady, data
<1> QED
  BY <1>5, <1>6, <1>7, <1>8 DEF IInv

-----------------------------------------------------------------------------
(* The steps that write *)

LEMMA HoldKeeps ==
    ASSUME IInv, NEW c \in Calls, Hold(c), ~ DuplicateHold(req[c].target)
    PROVE  IInv'
<1> DEFINE t == req[c].target
<1>1. /\ pc[c] = "hold"
      /\ Key("hold", t) \notin ledger /\ escrow[t] = "none"
      /\ balance' = [balance EXCEPT !["advertiser"] = @ - Price[t]]
      /\ ledger' = ledger \cup {Key("hold", t)}
      /\ escrow' = [escrow EXCEPT ![t] = "held"]
      /\ End(c)
      /\ UNCHANGED <<campaign, spent, target, been, postJob, overdue, markers, enabled>>
  BY DEF Hold, DuplicateHold
<1>2. t \in Targets
  BY <1>1 DEF IInv, TypeOK, Request
<1>3. /\ pc' = [pc EXCEPT ![c] = "idle"]
      /\ req' = [req EXCEPT ![c] = NoRequest]
      /\ escLock' = Unlocked(escLock, c) /\ jobLock' = Unlocked(jobLock, c)
  BY <1>1 DEF End
<1>4. TypeOK'
  <2>1. Price[t] \in Nat
    BY <1>2, MoneyAssumption
  <2>2. balance' \in [Wallets -> Int]
    BY <1>1, <2>1 DEF IInv, TypeOK, Wallets
  <2>3. ledger' \subseteq LedgerKeys
    BY <1>1, <1>2 DEF IInv, TypeOK, LedgerKeys, LedgerKind, Key
  <2>4. escrow' \in [Targets -> EscrowStatus \cup {"none"}]
    BY <1>1 DEF IInv, TypeOK, EscrowStatus
  <2> QED
    BY <1>1, <1>3, <2>2, <2>3, <2>4 DEF IInv, TypeOK, Unlocked, Step
<1>5. StepFitsOperation'
  BY <1>3 DEF IInv, TypeOK, StepFitsOperation
<1>6. LockGuards'
  BY <1>1, <1>2, <1>3, CallAssumption DEF IInv, TypeOK, LockGuards, Unlocked, Request
<1>7. EscrowMatchesLedger'
  BY <1>1, <1>2 DEF IInv, TypeOK, EscrowMatchesLedger, Key
<1>8. CommissionWithPayout' /\ SettledWasReady'
  BY <1>1, <1>2 DEF IInv, TypeOK, CommissionWithPayout, SettledWasReady, Key
<1>9. HistoryFits'
  BY <1>1, <1>3 DEF IInv, TypeOK, HistoryFits
<1> QED
  BY <1>4, <1>5, <1>6, <1>7, <1>8, <1>9 DEF IInv

(* What a call that is about to pay knows *)
LEMMA AboutToPay ==
    ASSUME IInv, NEW c \in Calls, pc[c] = "pay"
    PROVE  /\ req[c].target \in Targets
           /\ escLock[req[c].target] = c
           /\ escrow[req[c].target] = "held"
           /\ Key("hold", req[c].target) \in ledger
           /\ Key("payout", req[c].target) \notin ledger
           /\ Key("refund", req[c].target) \notin ledger
           /\ Key("commission", req[c].target) \notin ledger
           /\ \A op \in {"release", "refund"} : <<op, req[c].target>> \notin markers
BY DEF IInv, TypeOK, Request, LockGuards, EscrowMatchesLedger, CommissionWithPayout

(* The row lock keeps every other call of the target out of check and pay. *)
LEMMA OthersElsewhere ==
    ASSUME IInv, NEW c \in Calls, pc[c] = "pay", End(c),
           NEW status, escrow' = [escrow EXCEPT ![req[c].target] = status]
    PROVE  LockGuards'
<1>1. /\ pc' = [pc EXCEPT ![c] = "idle"]
      /\ req' = [req EXCEPT ![c] = NoRequest]
      /\ escLock' = Unlocked(escLock, c)
  BY DEF End
<1> SUFFICES ASSUME NEW d \in Calls, pc'[d] \in {"check", "pay"}
             PROVE  /\ escLock'[req'[d].target] = d
                    /\ escrow'[req'[d].target] = "held"
  BY DEF LockGuards
<1>2. d # c /\ pc'[d] = pc[d] /\ req'[d] = req[d]
  BY <1>1 DEF IInv, TypeOK
<1>3. req[d].target \in Targets /\ escLock[req[d].target] = d /\ escrow[req[d].target] = "held"
  BY <1>2 DEF IInv, TypeOK, Request, LockGuards
<1>4. req[d].target # req[c].target
  BY <1>2, <1>3, AboutToPay
<1> QED
  BY <1>1, <1>2, <1>3, <1>4 DEF IInv, TypeOK, Unlocked

LEMMA PayOutKeeps ==
    ASSUME IInv, NEW c \in Calls, PayOut(c), ~ Rollback(c)
    PROVE  IInv'
<1> DEFINE t == req[c].target
<1>1. /\ pc[c] = "pay"
      /\ ledger' = ledger \cup {Key("payout", t)} \cup
             (IF Commission[t] > 0 THEN {Key("commission", t)} ELSE {})
      /\ balance' = [balance EXCEPT !["publisher"] = @ + PayoutAmount(t),
                                    !["platform"] = @ + Commission[t]]
      /\ markers' = markers \cup {<<"release", t>>}
      /\ TargetSettled(t, "posted")
      /\ postJob' = JobWritten(c)
      /\ spent' = spent + Price[t]
      /\ escrow' = [escrow EXCEPT ![t] = "released"]
      /\ End(c)
      /\ UNCHANGED <<campaign, overdue, enabled>>
  BY DEF PayOut, Marked, CommitJob, SpentAfter
<1>2. /\ t \in Targets
      /\ Key("hold", t) \in ledger
      /\ Key("refund", t) \notin ledger
      /\ <<"refund", t>> \notin markers
  BY <1>1, AboutToPay
<1>3. /\ pc' = [pc EXCEPT ![c] = "idle"]
      /\ req' = [req EXCEPT ![c] = NoRequest]
      /\ escLock' = Unlocked(escLock, c) /\ jobLock' = Unlocked(jobLock, c)
  BY <1>1 DEF End
<1>4. TypeOK'
  <2>1. Price[t] \in Nat /\ Commission[t] \in Nat /\ PayoutAmount(t) \in Int
    BY <1>2, MoneyAssumption DEF PayoutAmount
  <2>2. balance' \in [Wallets -> Int]
    BY <1>1, <2>1 DEF IInv, TypeOK, Wallets
  <2>3. ledger' \subseteq LedgerKeys
    BY <1>1, <1>2 DEF IInv, TypeOK, LedgerKeys, LedgerKind, Key
  <2>4. /\ escrow' \in [Targets -> EscrowStatus \cup {"none"}]
        /\ target' \in [Targets -> CampaignTargetStatus]
        /\ been' \in [Targets -> SUBSET CampaignTargetStatus]
        /\ markers' \subseteq {"release", "refund"} \X Targets
        /\ spent' \in Nat
    BY <1>1, <1>2, <2>1 DEF IInv, TypeOK, TargetSettled, TargetWritten, EscrowStatus,
                             CampaignTargetStatus
  <2>5. postJob' \in [Targets -> PostJobStatus \cup {"none"}]
    BY <1>1, JobWrittenType DEF IInv
  <2> QED
    BY <1>1, <1>3, <2>2, <2>3, <2>4, <2>5 DEF IInv, TypeOK, Unlocked, Step
<1>5. StepFitsOperation'
  BY <1>3 DEF IInv, TypeOK, StepFitsOperation
<1>6. LockGuards'
  BY <1>1, OthersElsewhere
<1>7. EscrowMatchesLedger'
  BY <1>1, <1>2 DEF IInv, TypeOK, EscrowMatchesLedger, Key
<1>8. CommissionWithPayout'
  BY <1>1, <1>2 DEF IInv, TypeOK, CommissionWithPayout, Key
<1>9. /\ "approved" \in been[t]
      /\ been' = [been EXCEPT ![t] = @ \cup {"posted"}]
      /\ target' = [target EXCEPT ![t] = "posted"] \/ UNCHANGED target
  BY <1>1, <1>2 DEF IInv, TypeOK, HistoryFits, TargetSettled, TargetWritten, PayOut
<1>10. HistoryFits'
  <2>1. \A u \in Targets :
            /\ target'[u] \in been'[u]
            /\ "posted" \in been'[u] => "approved" \in been'[u]
            /\ "refunded" \in been'[u] => "failed" \in been'[u]
    BY <1>2, <1>9 DEF IInv, TypeOK, HistoryFits
  <2>2. \A d \in Calls : pc'[d] = "pay" => pc[d] = "pay" /\ req'[d] = req[d]
    BY <1>3 DEF IInv, TypeOK
  <2>3. \A u \in Targets : been[u] \subseteq been'[u]
    BY <1>9 DEF IInv, TypeOK
  <2>4. \A d \in Calls : pc[d] = "pay" => req[d].target \in Targets
    BY DEF IInv, TypeOK, Request
  <2> QED
    BY <2>1, <2>2, <2>3, <2>4 DEF IInv, HistoryFits
<1>11. SettledWasReady'
  BY <1>1, <1>2, <1>9 DEF IInv, TypeOK, SettledWasReady
<1> QED
  BY <1>4, <1>5, <1>6, <1>7, <1>8, <1>10, <1>11 DEF IInv

LEMMA GiveBackKeeps ==
    ASSUME IInv, NEW c \in Calls, GiveBack(c), ~ Rollback(c)
    PROVE  IInv'
<1> DEFINE t == req[c].target
<1>1. /\ pc[c] = "pay"
      /\ ledger' = ledger \cup {Key("refund", t)}
      /\ balance' = [balance EXCEPT !["advertiser"] = @ + Price[t]]
      /\ markers' = markers \cup {<<"refund", t>>}
      /\ TargetSettled(t, "refunded")
      /\ postJob' = JobWritten(c)
      /\ escrow' = [escrow EXCEPT ![t] = "refunded"]
      /\ End(c)
      /\ UNCHANGED <<campaign, spent, overdue, enabled>>
  BY DEF GiveBack, Marked, CommitJob
<1>2. /\ t \in Targets
      /\ Key("hold", t) \in ledger
      /\ Key("payout", t) \notin ledger
      /\ <<"release", t>> \notin markers
  BY <1>1, AboutToPay
<1>3. /\ pc' = [pc EXCEPT ![c] = "idle"]
      /\ req' = [req EXCEPT ![c] = NoRequest]
      /\ escLock' = Unlocked(escLock, c) /\ jobLock' = Unlocked(jobLock, c)
  BY <1>1 DEF End
<1>4. TypeOK'
  <2>1. Price[t] \in Nat
    BY <1>2, MoneyAssumption
  <2>2. balance' \in [Wallets -> Int]
    BY <1>1, <2>1 DEF IInv, TypeOK, Wallets
  <2>3. ledger' \subseteq LedgerKeys
    BY <1>1, <1>2 DEF IInv, TypeOK, LedgerKeys, LedgerKind, Key
  <2>4. /\ escrow' \in [Targets -> EscrowStatus \cup {"none"}]
        /\ target' \in [Targets -> CampaignTargetStatus]
        /\ been' \in [Targets -> SUBSET CampaignTargetStatus]
        /\ markers' \subseteq {"release", "refund"} \X Targets
    BY <1>1, <1>2 DEF IInv, TypeOK, TargetSettled, TargetWritten, EscrowStatus,
                        CampaignTargetStatus
  <2>5. postJob' \in [Targets -> PostJobStatus \cup {"none"}]
    BY <1>1, JobWrittenType DEF IInv
  <2> QED
    BY <1>1, <1>3, <2>2, <2>3, <2>4, <2>5 DEF IInv, TypeOK, Unlocked, Step
<1>5. StepFitsOperation'
  BY <1>3 DEF IInv, TypeOK, StepFitsOperation
<1>6. LockGuards'
  BY <1>1, OthersElsewhere
<1>7. EscrowMatchesLedger'
  BY <1>1, <1>2 DEF IInv, TypeOK, EscrowMatchesLedger, Key
<1>8. CommissionWithPayout'
  BY <1>1, <1>2 DEF IInv, TypeOK, CommissionWithPayout, Key
<1>9. /\ "failed" \in been[t]
      /\ been' = [been EXCEPT ![t] = @ \cup {"refunded"}]
      /\ target' = [target EXCEPT ![t] = "refunded"] \/ UNCHANGED target
  BY <1>1, <1>2 DEF IInv, TypeOK, HistoryFits, TargetSettled, TargetWritten, GiveBack
<1>10. HistoryFits'
  <2>1. \A u \in Targets :
            /\ target'[u] \in been'[u]
            /\ "posted" \in been'[u] => "approved" \in been'[u]
            /\ "refunded" \in been'[u] => "failed" \in been'[u]
    BY <1>2, <1>9 DEF IInv, TypeOK, HistoryFits
  <2>2. \A d \in Calls : pc'[d] = "pay" => pc[d] = "pay" /\ req'[d] = req[d]
    BY <1>3 DEF IInv, TypeOK
  <2>3. \A u \in Targets : been[u] \subseteq been'[u]
    BY <1>9 DEF IInv, TypeOK
  <2>4. \A d \in Calls : pc[d] = "pay" => req[d].target \in Targets
    BY DEF IInv, TypeOK, Request
  <2> QED
    BY <2>1, <2>2, <2>3, <2>4 DEF IInv, HistoryFits
<1>11. SettledWasReady'
  BY <1>1, <1>2, <1>9 DEF IInv, TypeOK, SettledWasReady
<1> QED
  BY <1>4, <1>5, <1>6, <1>7, <1>8, <1>10, <1>11 DEF IInv

(* A call that only commits its caller's post job write, and a marker that    *)
(* is there already                                                          *)
LEMMA JobCommitKeeps ==
    ASSUME IInv, NEW c \in Calls, pc[c] # "idle",
           overdue' \in [Targets -> BOOLEAN], postJob' = JobWritten(c), End(c),
           UNCHANGED <<campaign, spent, target, been, escrow, ledger, markers, balance, enabled>>
    PROVE  IInv'
<1>1. /\ pc' = [pc EXCEPT ![c] = "idle"]
      /\ req' = [req EXCEPT ![c] = NoRequest]
      /\ escLock' = Unlocked(escLock, c) /\ jobLock' = Unlocked(jobLock, c)
  BY DEF End
<1>2. TypeOK'
  BY <1>1, JobWrittenType DEF IInv, TypeOK, Unlocked, Step
<1>3. StepFitsOperation'
  BY <1>1 DEF IInv, TypeOK, StepFitsOperation
<1>4. LockGuards'
  BY <1>1, CallAssumption DEF IInv, TypeOK, LockGuards, Unlocked, Request
<1>5. EscrowMatchesLedger' /\ CommissionWithPayout' /\ HistoryFits' /\ SettledWasReady'
  BY <1>1 DEF IInv, TypeOK, EscrowMatchesLedger, CommissionWithPayout, HistoryFits,
                SettledWasReady
<1> QED
  BY <1>2, <1>3, <1>4, <1>5 DEF IInv

LEMMA LockJobKeeps ==
    ASSUME IInv, NEW c \in Calls, LockJob(c)
    PROVE  IInv'
<1> DEFINE t == req[c].target
           next == CASE req[c].op = "release" -> "switch"
                     [] req[c].op = "refund" -> "lock"
                     [] req[c].op = "requeue" -> "requeue"
<1>1. /\ pc[c] = "job"
      /\ jobLock' = [jobLock EXCEPT ![t] = c]
      /\ pc' = [pc EXCEPT ![c] = next]
      /\ UNCHANGED <<data, escLock, req>>
  BY DEF LockJob, Goto
<1>2. \/ req[c].op = "release" /\ next = "switch"
      \/ req[c].op = "refund" /\ next = "lock"
      \/ req[c].op = "requeue" /\ next = "requeue"
  BY <1>1 DEF IInv, StepFitsOperation
<1> HIDE DEF next
<1>3. TypeOK'
  BY <1>1, <1>2 DEF IInv, TypeOK, data, Step
<1>4. StepFitsOperation'
  BY <1>1, <1>2 DEF IInv, TypeOK, StepFitsOperation
<1>5. LockGuards'
  BY <1>1, <1>2 DEF IInv, TypeOK, LockGuards, data
<1>6. EscrowMatchesLedger' /\ CommissionWithPayout' /\ HistoryFits' /\ SettledWasReady'
  BY <1>1, <1>2 DEF IInv, TypeOK, EscrowMatchesLedger, CommissionWithPayout, HistoryFits,
                SettledWasReady, data
<1> QED
  BY <1>3, <1>4, <1>5, <1>6 DEF IInv

LEMMA LockEscrowKeeps ==
    ASSUME IInv, NEW c \in Calls, LockEscrow(c), ~ Rollback(c)
    PROVE  IInv'
<1> DEFINE t == req[c].target
<1>1. /\ pc[c] = "lock" /\ escLock[t] = NoCall /\ escrow[t] = "held"
      /\ escLock' = [escLock EXCEPT ![t] = c]
      /\ pc' = [pc EXCEPT ![c] = "check"]
      /\ UNCHANGED <<data, jobLock, req>>
  BY DEF LockEscrow, Goto
<1>2. t \in Targets
  BY <1>1 DEF IInv, TypeOK, Request
<1>3. TypeOK'
  BY <1>1 DEF IInv, TypeOK, data, Step
<1>4. StepFitsOperation'
  BY <1>1 DEF IInv, TypeOK, StepFitsOperation
<1>5. LockGuards'
  BY <1>1, <1>2, CallAssumption DEF IInv, TypeOK, LockGuards, data, Request
<1>6. EscrowMatchesLedger' /\ CommissionWithPayout' /\ HistoryFits' /\ SettledWasReady'
  BY <1>1 DEF IInv, TypeOK, EscrowMatchesLedger, CommissionWithPayout, HistoryFits,
                SettledWasReady, data
<1> QED
  BY <1>3, <1>4, <1>5, <1>6 DEF IInv

LEMMA AlreadyDoneKeeps ==
    ASSUME IInv, NEW c \in Calls, AlreadyDone(c)
    PROVE  IInv'
<1>1. /\ pc[c] = "lock" /\ Finished(req[c].op, req[c].target)
      /\ markers' = markers \cup {<<req[c].op, req[c].target>>}
      /\ postJob' = JobWritten(c)
      /\ End(c)
      /\ UNCHANGED <<campaign, spent, target, been, overdue, escrow, ledger, balance, enabled>>
  BY DEF AlreadyDone, Marked, CommitJob
<1>2. req[c].target \in Targets /\ req[c].op \in {"release", "refund"}
  BY <1>1 DEF IInv, TypeOK, Request, StepFitsOperation
<1>3. <<req[c].op, req[c].target>> \in markers
  BY <1>1, <1>2 DEF IInv, EscrowMatchesLedger, Finished, Final
<1>4. UNCHANGED markers /\ overdue' \in [Targets -> BOOLEAN]
  BY <1>1, <1>3 DEF IInv, TypeOK
<1> QED
  BY <1>1, <1>4, JobCommitKeeps

LEMMA RequeueKeeps ==
    ASSUME IInv, NEW c \in Calls, Requeue(c)
    PROVE  IInv'
<1>1. overdue' \in [Targets -> BOOLEAN]
  BY DEF Requeue, IInv, TypeOK
<1> QED
  BY <1>1, JobCommitKeeps DEF Requeue, CommitJob

-----------------------------------------------------------------------------
(* Every step *)

LEMMA ContinueKeeps ==
    ASSUME IInv, NEW c \in Calls, Continue(c)
    PROVE  IInv'
<1> USE DEF Require, Step
<1>1. CASE WorkerSucceeds(c)
  BY <1>1, DeliveredKeeps DEF WorkerSucceeds
<1>2. CASE WorkerGivesUp(c)
  BY <1>2, DeliveredKeeps DEF WorkerGivesUp
<1>3. CASE WorkerRetries(c)
  BY <1>3, DeliveredKeeps DEF WorkerRetries
<1>4. CASE WorkerStops(c)
  BY <1>4, RollbackKeeps DEF WorkerStops
<1>5. CASE FindEscrow(c)
  BY <1>5, RollbackKeeps, GotoKeeps DEF FindEscrow
<1>6. CASE CheckTarget(c)
  BY <1>6, RollbackKeeps, GotoKeeps DEF CheckTarget
<1>7. CASE CheckBalance(c)
  BY <1>7, RollbackKeeps, GotoKeeps DEF CheckBalance
<1>8. CASE Hold(c)
  BY <1>8, RollbackKeeps, HoldKeeps DEF Hold
<1>9. CASE LockJob(c)
  BY <1>9, LockJobKeeps
<1>10. CASE Requeue(c)
  BY <1>10, RequeueKeeps
<1>11. CASE CheckSwitch(c)
  <2>1. /\ pc[c] = "switch" /\ req[c].op = "release"
        /\ req[c].actor = "admin" \/ req[c].sets = "success"
    BY <1>11 DEF CheckSwitch, IInv, StepFitsOperation
  <2> QED
    BY <1>11, <2>1, RollbackKeeps, GotoKeeps DEF CheckSwitch
<1>12. CASE LockEscrow(c)
  BY <1>12, RollbackKeeps, LockEscrowKeeps
<1>13. CASE AlreadyDone(c)
  BY <1>13, AlreadyDoneKeeps
<1>14. CASE CheckOutcome(c)
  <2>1. /\ pc[c] = "check" /\ req[c].op \in {"release", "refund"}
        /\ req[c].op = "release" => req[c].actor = "admin" \/ req[c].sets = "success"
    BY <1>14 DEF CheckOutcome, IInv, StepFitsOperation
  <2>2. \/ Rollback(c)
        \/ Goto(c, "pay") /\ UNCHANGED <<data, locks>> /\ TargetReady(req[c])
    BY <1>14 DEF CheckOutcome
  <2>3. req[c] \in Request
    BY <2>1 DEF IInv, TypeOK
  <2>4. TargetReady(req[c]) =>
            /\ req[c].op = "release" => "approved" \in been[req[c].target]
            /\ req[c].op = "refund" => "failed" \in been[req[c].target]
    BY <2>1, <2>3, ReadyIsRecorded DEF IInv
  <2> QED
    BY <2>1, <2>2, <2>4, RollbackKeeps, GotoKeeps
<1>15. CASE PayOut(c)
  BY <1>15, RollbackKeeps, PayOutKeeps
<1>16. CASE GiveBack(c)
  BY <1>16, RollbackKeeps, GiveBackKeeps
<1> QED
  BY <1>1, <1>2, <1>3, <1>4, <1>5, <1>6, <1>7, <1>8, <1>9, <1>10, <1>11, <1>12,
     <1>13, <1>14, <1>15, <1>16 DEF Continue

LEMMA EnvironmentKeeps ==
    ASSUME IInv, Environment
    PROVE  IInv'
<1>1. CASE ToggleCampaign
  BY <1>1 DEF ToggleCampaign, locks, CampaignStatus, IInv, TypeOK, StepFitsOperation,
              LockGuards, EscrowMatchesLedger, CommissionWithPayout, HistoryFits,
              SettledWasReady
<1>2. ASSUME NEW key \in KillSwitchKey, FlipSwitch(key) PROVE IInv'
  BY <1>2 DEF FlipSwitch, locks, IInv, TypeOK, StepFitsOperation,
              LockGuards, EscrowMatchesLedger, CommissionWithPayout, HistoryFits,
              SettledWasReady
<1>3. ASSUME NEW t \in Targets, BecomeOverdue(t) PROVE IInv'
  BY <1>3 DEF BecomeOverdue, locks, IInv, TypeOK, StepFitsOperation,
              LockGuards, EscrowMatchesLedger, CommissionWithPayout, HistoryFits,
              SettledWasReady
<1>4. ASSUME NEW t \in Targets, MoveTarget(t) PROVE IInv'
  <2>1. PICK from \in been[t], to \in CampaignTargetStatus :
            /\ <<from, to>> \in TargetMoves
            /\ target' = [target EXCEPT ![t] = to]
            /\ been' = [been EXCEPT ![t] = @ \cup {to}]
    BY <1>4 DEF MoveTarget, TargetWritten
  <2>2. UNCHANGED <<campaign, spent, postJob, overdue, escrow, ledger, markers,
                    balance, enabled, locks, pc, req>>
    BY <1>4 DEF MoveTarget
  <2>3. /\ to = "posted" => from = "approved"
        /\ to = "refunded" => from = "failed"
    <3>1. PICK e \in campaignTargetTransitions : <<from, to>> = <<e[1], e[2]>>
      BY <2>1, MovesAssumption DEF TargetEdges
    <3>2. from = e[1] /\ to = e[2]
      BY <3>1
    <3> QED
      BY <3>2, TableDemands
  <2>4. TypeOK' /\ StepFitsOperation' /\ LockGuards'
    BY <2>1, <2>2 DEF locks, IInv, TypeOK, StepFitsOperation, LockGuards
  <2>5. EscrowMatchesLedger' /\ CommissionWithPayout'
    BY <2>2 DEF IInv, EscrowMatchesLedger, CommissionWithPayout
  <2>6. HistoryFits' /\ SettledWasReady'
    <3>1. \A u \in Targets : been[u] \subseteq been'[u]
      BY <2>1 DEF IInv, TypeOK
    <3>2. SettledWasReady'
      BY <2>2, <3>1 DEF IInv, SettledWasReady
    <3>3. \A c \in Calls : pc'[c] = "pay" =>
              /\ req'[c].op = "release" => "approved" \in been'[req'[c].target]
              /\ req'[c].op = "refund" => "failed" \in been'[req'[c].target]
      BY <2>2, <3>1 DEF IInv, TypeOK, HistoryFits, Request
    <3>4. \A u \in Targets :
              /\ target'[u] \in been'[u]
              /\ "posted" \in been'[u] => "approved" \in been'[u]
              /\ "refunded" \in been'[u] => "failed" \in been'[u]
      BY <2>1, <2>3, <3>1 DEF IInv, TypeOK, HistoryFits
    <3> QED
      BY <3>2, <3>3, <3>4 DEF HistoryFits
  <2> QED
    BY <2>4, <2>5, <2>6 DEF IInv
<1> QED
  BY <1>1, <1>2, <1>3, <1>4 DEF Environment

LEMMA InitEstablishes == Init => IInv
<1> SUFFICES ASSUME Init PROVE IInv
  OBVIOUS
<1>1. TypeOK
  <2>1. balance \in [Wallets -> Int]
    BY MoneyAssumption DEF Init, OpeningBalance
  <2> QED
    BY <2>1 DEF Init, TypeOK, CampaignStatus, CampaignTargetStatus, PostJobStatus, Step
<1>2. StepFitsOperation /\ LockGuards
  BY DEF Init, StepFitsOperation, LockGuards
<1>3. EscrowMatchesLedger /\ CommissionWithPayout /\ HistoryFits /\ SettledWasReady
  BY DEF Init, EscrowMatchesLedger, CommissionWithPayout, HistoryFits, SettledWasReady
<1> QED
  BY <1>1, <1>2, <1>3 DEF IInv

LEMMA NextKeeps == IInv /\ [Next]_vars => IInv'
<1> SUFFICES ASSUME IInv, [Next]_vars PROVE IInv'
  OBVIOUS
<1>1. ASSUME NEW c \in Calls, Crash(c) PROVE IInv'
  BY <1>1, RollbackKeeps DEF Crash
<1>2. ASSUME NEW c \in Calls, Continue(c) PROVE IInv'
  BY <1>2, ContinueKeeps
<1>3. ASSUME NEW c \in Calls, NEW t \in Targets, Start(c, t) PROVE IInv'
  BY <1>3, StartKeeps
<1>4. CASE Environment
  BY <1>4, EnvironmentKeeps
<1>5. CASE UNCHANGED vars
  BY <1>5 DEF vars, data, locks, IInv, TypeOK, StepFitsOperation, LockGuards,
              EscrowMatchesLedger, CommissionWithPayout, HistoryFits,
              SettledWasReady
<1> QED
  BY <1>1, <1>2, <1>3, <1>4, <1>5 DEF Next

LEMMA Inductive == Spec => []IInv
BY InitEstablishes, NextKeeps, PTL DEF Spec

-----------------------------------------------------------------------------
(* Safety *)

(* Every variable keeps its type. *)
THEOREM TypeCorrect == Spec => []TypeOK
<1>1. IInv => TypeOK
  BY DEF IInv
<1> QED
  BY Inductive, <1>1, PTL

(* Releases and refunds of a target, however many run at once, pay it out    *)
(* once, one way, and only what was held (escrow.service.ts).                *)
THEOREM PaysOnce == Spec => []PaidOutOnce
<1>1. IInv => PaidOutOnce
  BY DEF IInv, PaidOutOnce, EscrowMatchesLedger, CommissionWithPayout
<1> QED
  BY Inductive, <1>1, PTL

(* Escrow row, ledger and operation markers always agree.                    *)
THEOREM RowsAgree == Spec => []EscrowMatchesLedger
<1>1. IInv => EscrowMatchesLedger
  BY DEF IInv
<1> QED
  BY Inductive, <1>1, PTL

(* No escrow is settled whose target has not been where the settlement demands, *)
(* whatever is read before other services write over it (lifecycle.ts).      *)
THEOREM SettledReady == Spec => []SettledWasReady
<1>1. IInv => SettledWasReady
  BY DEF IInv
<1> QED
  BY Inductive, <1>1, PTL

(* Where no service moves a target to approved or failed, no money ever leaves *)
(* an escrow, whatever workers, watchdog and admin do: release and refund     *)
(* demand a status that only such a move can give.                           *)
THEOREM NothingSettles ==
    ASSUME \A move \in TargetMoves : move[2] \notin {"approved", "failed"}
    PROVE  Spec => [](\A t \in Targets : escrow[t] \notin {"released", "refunded"})
<1> DEFINE Unready == \A t \in Targets : been[t] \cap {"approved", "failed"} = {}
<1>1. Init => Unready
  BY DEF Init
<1>2. IInv /\ Unready /\ [Next]_vars => Unready'
  <2> SUFFICES ASSUME IInv, Unready, [Next]_vars PROVE Unready'
    OBVIOUS
  <2>1. UNCHANGED been => Unready'
    OBVIOUS
  <2>2. ASSUME NEW c \in Calls, Crash(c) \/ Rollback(c) PROVE UNCHANGED been
    BY <2>2 DEF Crash, Rollback, data
  <2>3. ASSUME NEW c \in Calls, NEW t \in Targets, Start(c, t) PROVE UNCHANGED been
    BY <2>3 DEF Start, HoldEscrow, TakeJob, RecoverSent, RecoverExhausted, RecoverStalled,
       WatchdogRefund, AdminRelease, AdminRefund, AdminRetryPost, Begin, data
  <2>4. ASSUME NEW c \in Calls, Continue(c), ~ PayOut(c), ~ GiveBack(c) PROVE UNCHANGED been
    BY <2>4 DEF Continue, WorkerSucceeds, WorkerGivesUp, WorkerRetries, WorkerStops,
       Delivered, FindEscrow, CheckTarget, CheckBalance, Hold, LockJob, Requeue,
       CheckSwitch, LockEscrow, AlreadyDone, CheckOutcome, Require, Rollback, data
  <2>5. ASSUME NEW c \in Calls, PayOut(c) \/ GiveBack(c) PROVE Unready'
    <3>1. /\ req[c].target \in Targets
          /\ \/ PayOut(c) /\ "approved" \in been[req[c].target]
             \/ GiveBack(c) /\ "failed" \in been[req[c].target]
      BY <2>5 DEF PayOut, GiveBack, IInv, TypeOK, HistoryFits, Request
    <3> QED
      BY <3>1
  <2>6. ASSUME NEW t \in Targets, MoveTarget(t) PROVE Unready'
    <3>1. PICK from \in been[t], to \in CampaignTargetStatus :
              <<from, to>> \in TargetMoves /\ TargetWritten(t, to)
      BY <2>6 DEF MoveTarget
    <3>2. to \notin {"approved", "failed"}
      BY <3>1
    <3> QED
      BY <3>1, <3>2 DEF TargetWritten, IInv, TypeOK
  <2>7. ASSUME Environment, ~ \E t \in Targets : MoveTarget(t) PROVE UNCHANGED been
    BY <2>7 DEF Environment, ToggleCampaign, FlipSwitch, BecomeOverdue
  <2>8. UNCHANGED vars => UNCHANGED been
    BY DEF vars, data
  <2> QED
    BY <2>1, <2>2, <2>3, <2>4, <2>5, <2>6, <2>7, <2>8 DEF Next
<1>3. IInv /\ Unready => \A t \in Targets : escrow[t] \notin {"released", "refunded"}
  BY DEF IInv, SettledWasReady
<1> QED
  BY Inductive, <1>1, <1>2, <1>3, PTL DEF Spec

(* The row lock of lockEscrow is held to the commit, over a held escrow.     *)
THEOREM LockProtects == Spec => []LockGuards
<1>1. IInv => LockGuards
  BY DEF IInv
<1> QED
  BY Inductive, <1>1, PTL

(* No payout commits without a post job that is success at that moment,      *)
(* unless an admin made it (assertPostJobOutcomeForEscrow).                  *)
THEOREM PayoutBacked == Spec => PayoutNeedsPost
<1> DEFINE Backed == \A t \in Targets :
        Key("payout", t) \in ledger' \ ledger =>
            \/ postJob'[t] = "success"
            \/ \E c \in Calls : req[c] # NoRequest /\ req[c].actor = "admin"
                                 /\ req[c].target = t /\ pc[c] = "pay" /\ pc'[c] = "idle"
<1>1. ASSUME IInv, NEW c \in Calls, PayOut(c), ~ Rollback(c) PROVE Backed
  <2>1. /\ pc[c] = "pay" /\ req[c].op = "release"
        /\ ledger' = ledger \cup {Key("payout", req[c].target)} \cup
             (IF Commission[req[c].target] > 0
              THEN {Key("commission", req[c].target)} ELSE {})
        /\ postJob' = JobWritten(c)
        /\ End(c)
    BY <1>1 DEF PayOut, CommitJob
  <2>2. req[c] \in Request /\ req[c] # NoRequest
    BY <1>1, <2>1, CallAssumption DEF IInv, TypeOK
  <2>3. \A t \in Targets : Key("payout", t) \in ledger' \ ledger => t = req[c].target
    BY <2>1 DEF Key
  <2>4. req[c].actor = "admin" \/ req[c].sets = "success"
    BY <1>1, <2>1 DEF IInv, StepFitsOperation
  <2>5. CASE req[c].sets = "success"
    <3>1. postJob'[req[c].target] = "success"
      BY <1>1, <2>1, <2>2, <2>5 DEF JobWritten, IInv, TypeOK, Request
    <3> QED
      BY <2>3, <3>1
  <2>6. CASE req[c].actor = "admin"
    <3>1. pc'[c] = "idle"
      BY <1>1, <2>1 DEF End, IInv, TypeOK
    <3> QED
      BY <2>1, <2>2, <2>3, <2>6, <3>1
  <2> QED
    BY <2>4, <2>5, <2>6
<1>2. ASSUME NEW c \in Calls, Hold(c) \/ GiveBack(c) PROVE Backed
  BY <1>2 DEF Hold, GiveBack, Rollback, data, Key
<1>3. ASSUME NEW c \in Calls, Continue(c), ~ PayOut(c), ~ Hold(c), ~ GiveBack(c)
      PROVE  UNCHANGED ledger
  BY <1>3 DEF Continue, WorkerSucceeds, WorkerGivesUp, WorkerRetries, WorkerStops,
     Delivered, FindEscrow, CheckTarget, CheckBalance, LockJob, Requeue, CheckSwitch,
     LockEscrow, AlreadyDone, CheckOutcome, Require, Rollback, data
<1>4. ASSUME NEW c \in Calls, NEW t \in Targets, Start(c, t) PROVE UNCHANGED ledger
  BY <1>4 DEF Start, HoldEscrow, TakeJob, RecoverSent, RecoverExhausted, RecoverStalled,
     WatchdogRefund, AdminRelease, AdminRefund, AdminRetryPost, Begin, data
<1>5. ASSUME Environment PROVE UNCHANGED ledger
  BY <1>5 DEF Environment, ToggleCampaign, FlipSwitch, MoveTarget, TargetWritten, BecomeOverdue
<1>6. ASSUME NEW c \in Calls, Crash(c) \/ Rollback(c) PROVE UNCHANGED ledger
  BY <1>6 DEF Crash, Rollback, data
<1>7. IInv /\ [Next]_vars => Backed
  <2>1. UNCHANGED vars => UNCHANGED ledger
    BY DEF vars, data
  <2>2. UNCHANGED ledger => Backed
    OBVIOUS
  <2> QED
    BY <1>1, <1>2, <1>3, <1>4, <1>5, <1>6, <2>1, <2>2 DEF Next
<1>8. IInv /\ [Next]_vars => [Backed]_vars
  BY <1>7
<1> QED
  BY Inductive, <1>8, PTL DEF Spec, PayoutNeedsPost

-----------------------------------------------------------------------------
(* Refinement *)

Where == [t \in Targets |-> Place(t)]

(* Every step other than the three that write the ledger is a stutter. *)
LEMMA OthersStutter ==
    ASSUME IInv, [Next]_vars,
           \A c \in Calls : (Hold(c) \/ PayOut(c) \/ GiveBack(c)) => Rollback(c)
    PROVE  UNCHANGED <<ledger, balance>>
<1>1. ASSUME NEW c \in Calls, Crash(c) \/ Rollback(c) PROVE UNCHANGED <<ledger, balance>>
  BY <1>1 DEF Crash, Rollback, data
<1>2. ASSUME NEW c \in Calls, Continue(c), ~ PayOut(c), ~ Hold(c), ~ GiveBack(c)
      PROVE  UNCHANGED <<ledger, balance>>
  BY <1>2 DEF Continue, WorkerSucceeds, WorkerGivesUp, WorkerRetries, WorkerStops,
     Delivered, FindEscrow, CheckTarget, CheckBalance, LockJob, Requeue, CheckSwitch,
     LockEscrow, AlreadyDone, CheckOutcome, Require, Rollback, data
<1>3. ASSUME NEW c \in Calls, NEW t \in Targets, Start(c, t)
      PROVE  UNCHANGED <<ledger, balance>>
  BY <1>3 DEF Start, HoldEscrow, TakeJob, RecoverSent, RecoverExhausted, RecoverStalled,
     WatchdogRefund, AdminRelease, AdminRefund, AdminRetryPost, Begin, data
<1>4. CASE Environment
  BY <1>4 DEF Environment, ToggleCampaign, FlipSwitch, MoveTarget, TargetWritten, BecomeOverdue
<1>5. CASE UNCHANGED vars
  BY <1>5 DEF vars, data
<1> QED
  BY <1>1, <1>2, <1>3, <1>4, <1>5 DEF Next

LEMMA HoldIsHold ==
    ASSUME IInv, NEW c \in Calls, Hold(c), ~ Rollback(c)
    PROVE  Promise!Hold(req[c].target)
<1> DEFINE t == req[c].target
<1>1. /\ pc[c] = "hold"
      /\ Key("hold", t) \notin ledger /\ escrow[t] = "none"
      /\ balance' = [balance EXCEPT !["advertiser"] = @ - Price[t]]
      /\ ledger' = ledger \cup {Key("hold", t)}
  BY DEF Hold, DuplicateHold
<1>2. t \in Targets
  BY <1>1 DEF IInv, TypeOK, Request
<1>3. Key("payout", t) \notin ledger /\ Key("refund", t) \notin ledger
  BY <1>1, <1>2 DEF IInv, EscrowMatchesLedger
<1>4. Where[t] = "advertiser"
  BY <1>1, <1>2, <1>3 DEF Where, Place
<1>5. Where' = [Where EXCEPT ![t] = "escrow"]
  BY <1>1, <1>2, <1>3 DEF Where, Place, Key
<1> QED
  BY <1>1, <1>2, <1>4, <1>5 DEF Promise!Hold, Where

LEMMA PayOutIsPay ==
    ASSUME IInv, NEW c \in Calls, PayOut(c), ~ Rollback(c)
    PROVE  Promise!Pay(req[c].target)
<1> DEFINE t == req[c].target
<1>1. /\ pc[c] = "pay"
      /\ SplitPays(t)
      /\ ledger' = ledger \cup {Key("payout", t)} \cup
             (IF Commission[t] > 0 THEN {Key("commission", t)} ELSE {})
      /\ balance' = [balance EXCEPT !["publisher"] = @ + PayoutAmount(t),
                                    !["platform"] = @ + Commission[t]]
  BY DEF PayOut
<1>2. /\ t \in Targets
      /\ Key("hold", t) \in ledger
      /\ Key("payout", t) \notin ledger
      /\ Key("refund", t) \notin ledger
  BY <1>1, AboutToPay
<1>3. Where[t] = "escrow"
  BY <1>2 DEF Where, Place
<1>4. Where' = [Where EXCEPT ![t] = "paid"]
  BY <1>1, <1>2 DEF Where, Place, Key
<1>5. Commission[t] < Price[t]
  BY <1>1, <1>2, MoneyAssumption DEF SplitPays, PayoutAmount
<1> QED
  BY <1>1, <1>2, <1>3, <1>4, <1>5 DEF Promise!Pay, Where, PayoutAmount

LEMMA GiveBackIsReturn ==
    ASSUME IInv, NEW c \in Calls, GiveBack(c), ~ Rollback(c)
    PROVE  Promise!Return(req[c].target)
<1> DEFINE t == req[c].target
<1>1. /\ pc[c] = "pay"
      /\ ledger' = ledger \cup {Key("refund", t)}
      /\ balance' = [balance EXCEPT !["advertiser"] = @ + Price[t]]
  BY DEF GiveBack
<1>2. /\ t \in Targets
      /\ Key("hold", t) \in ledger
      /\ Key("payout", t) \notin ledger
      /\ Key("refund", t) \notin ledger
  BY <1>1, AboutToPay
<1>3. Where[t] = "escrow"
  BY <1>2 DEF Where, Place
<1>4. Where' = [Where EXCEPT ![t] = "returned"]
  BY <1>1, <1>2 DEF Where, Place, Key
<1> QED
  BY <1>1, <1>2, <1>3, <1>4 DEF Promise!Return, Where

(* The escrow, read off its ledger, implements what it promises: the initial *)
(* states map to the initial state, and each step to a step or a stutter.    *)
THEOREM ImplementsPromise == Spec => KeepsPromise
<1>1. Init => Promise!Init
  BY DEF Init, Promise!Init, Place, OpeningBalance, Wallets
<1>2. IInv /\ [Next]_vars => [Promise!Next]_<<Where, balance>>
  <2> SUFFICES ASSUME IInv, [Next]_vars PROVE [Promise!Next]_<<Where, balance>>
    OBVIOUS
  <2>1. CASE \A c \in Calls : (Hold(c) \/ PayOut(c) \/ GiveBack(c)) => Rollback(c)
    <3>1. UNCHANGED <<ledger, balance>>
      BY <2>1, OthersStutter
    <3> QED
      BY <3>1 DEF Where, Place
  <2>2. ASSUME NEW c \in Calls, Hold(c) \/ PayOut(c) \/ GiveBack(c), ~ Rollback(c)
        PROVE  Promise!Next
    <3>1. req[c].target \in Targets
      <4>1. pc[c] # "idle" /\ req[c] \in Request
        BY <2>2 DEF Hold, PayOut, GiveBack, IInv, TypeOK
      <4> QED
        BY <4>1 DEF Request
    <3> QED
      BY <2>2, <3>1, HoldIsHold, PayOutIsPay, GiveBackIsReturn DEF Promise!Next
  <2> QED
    BY <2>1, <2>2
<1> QED
  BY Inductive, <1>1, <1>2, PTL DEF Spec, KeepsPromise, Promise!Spec, Where

-----------------------------------------------------------------------------
(* The books *)

EntriesOf(L, w) == {k \in L : EntryWallet(k) = w}
Entries(w) == EntriesOf(ledger, w)
EscrowsIn(status) == {t \in Targets : escrow[t] = status}

LEMMA EntryAmountType == EntryAmount \in [LedgerKeys -> Int]
<1> SUFFICES ASSUME NEW k \in LedgerKeys PROVE EntryAmount[k] \in Int
  BY DEF EntryAmount
<1>1. k[1] \in LedgerKind /\ k[2] \in Targets
  BY DEF LedgerKeys
<1>2. Price[k[2]] \in Int /\ Commission[k[2]] \in Int /\ PayoutAmount(k[2]) \in Int
  BY <1>1, MoneyAssumption DEF PayoutAmount
<1> QED
  BY <1>1, <1>2 DEF EntryAmount, LedgerKind

LEMMA LedgerKeysFinite == IsFiniteSet(LedgerKeys)
<1>1. IsFiniteSet(LedgerKind)
  <2>1. LedgerKind = (({} \cup {"hold"}) \cup {"payout"}) \cup {"commission"} \cup {"refund"}
    BY DEF LedgerKind
  <2> QED
    BY <2>1, FS_EmptySet, FS_AddElement
<1> QED
  BY <1>1, TargetAssumption, FS_Product DEF LedgerKeys

(* A new entry adds its amount to what the entries of its wallet come to, and  *)
(* nothing to those of any other.                                            *)
LEMMA EntryAdds ==
    ASSUME NEW L, L \subseteq LedgerKeys, NEW k \in LedgerKeys, k \notin L, NEW w
    PROVE  /\ Total(EntryAmount, EntriesOf(L, w)) \in Int
           /\ Total(EntryAmount, EntriesOf(L \cup {k}, w)) =
                 IF EntryWallet(k) = w THEN Total(EntryAmount, EntriesOf(L, w)) + EntryAmount[k]
                 ELSE Total(EntryAmount, EntriesOf(L, w))
<1> USE DEF EntriesOf
<1> DEFINE E == EntriesOf(L, w)
           F == EntriesOf(L \cup {k}, w)
<1>1. IsFiniteSet(E) /\ k \notin E
  BY LedgerKeysFinite, FS_Subset
<1>2. \A j \in E \cup {k} : EntryAmount[j] \in Int
  BY EntryAmountType
<1>3. Total(EntryAmount, E) \in Int
  BY <1>1, <1>2, TotalType
<1>4. CASE EntryWallet(k) = w
  <2>1. F = E \cup {k}
    BY <1>4
  <2>2. Total(EntryAmount, E \cup {k}) = Total(EntryAmount, E) + EntryAmount[k]
    BY <1>1, <1>2, TotalWith
  <2> QED
    BY <1>3, <1>4, <2>1, <2>2
<1>5. CASE EntryWallet(k) # w
  BY <1>3, <1>5
<1> QED
  BY <1>4, <1>5

(* An escrow that moves from one status to another takes its price along.     *)
LEMMA PriceMoves ==
    ASSUME TypeOK, NEW t \in Targets, NEW to, to # escrow[t],
           escrow' = [escrow EXCEPT ![t] = to], NEW status
    PROVE  /\ Total(Price, EscrowsIn(status)) \in Int
           /\ Total(Price, EscrowsIn(status)') =
                 IF status = to THEN Total(Price, EscrowsIn(status)) + Price[t]
                 ELSE IF status = escrow[t] THEN Total(Price, EscrowsIn(status)) - Price[t]
                 ELSE Total(Price, EscrowsIn(status))
<1> DEFINE E == EscrowsIn(status)
           F == EscrowsIn(status)'
<1>1. E \subseteq Targets /\ F \subseteq Targets /\ IsFiniteSet(E) /\ IsFiniteSet(F)
  BY TargetAssumption, FS_Subset DEF EscrowsIn
<1>2. \A u \in Targets : Price[u] \in Int
  BY MoneyAssumption
<1>3. Total(Price, E) \in Int /\ Total(Price, F) \in Int
  BY <1>1, <1>2, TotalType
<1>4. CASE status = to
  <2>1. F = E \cup {t} /\ t \notin E
    BY <1>4 DEF EscrowsIn, TypeOK
  <2>2. Total(Price, E \cup {t}) = Total(Price, E) + Price[t]
    BY <1>1, <1>2, <2>1, TotalWith
  <2> QED
    BY <1>3, <1>4, <2>1, <2>2
<1>5. CASE status # to /\ status = escrow[t]
  <2>1. F = E \ {t} /\ t \in E
    BY <1>5 DEF EscrowsIn, TypeOK
  <2>2. Total(Price, E) = Price[t] + Total(Price, E \ {t})
    BY <1>1, <1>2, <2>1, TotalWithout
  <2>3. Total(Price, F) = Total(Price, E) - Price[t]
    BY <1>2, <1>3, <2>1, <2>2
  <2> QED
    BY <1>3, <1>5, <2>3
<1>6. CASE status # to /\ status # escrow[t]
  <2>1. F = E
    BY <1>6 DEF EscrowsIn, TypeOK
  <2> QED
    BY <1>3, <1>6, <2>1
<1> QED
  BY <1>4, <1>5, <1>6

(* The books before a step that writes them: sums of integers *)
LEMMA BooksType ==
    ASSUME IInv, BooksBalance
    PROVE  /\ \A w \in Wallets : /\ Total(EntryAmount, Entries(w)) \in Int
                                 /\ balance[w] = OpeningBalance(w) + Total(EntryAmount, Entries(w))
                                 /\ balance[w] \in Int /\ OpeningBalance(w) \in Int
           /\ Opening = balance["advertiser"] + balance["publisher"] + balance["platform"]
                        + Total(Price, EscrowsIn("held"))
           /\ spent = Total(Price, EscrowsIn("released"))
<1>1. ASSUME NEW w \in Wallets
      PROVE  Total(EntryAmount, Entries(w)) \in Int
  <2>1. IsFiniteSet(Entries(w)) /\ Entries(w) \subseteq LedgerKeys
    BY LedgerKeysFinite, FS_Subset DEF Entries, EntriesOf, IInv, TypeOK
  <2> QED
    BY <2>1, EntryAmountType, TotalType
<1>2. \A w \in Wallets : balance[w] \in Int /\ OpeningBalance(w) \in Int
  BY MoneyAssumption DEF IInv, TypeOK, OpeningBalance
<1> QED
  BY <1>1, <1>2 DEF BooksBalance, BalanceIsLedger, LedgerMatchesWallet, MoneyConserved,
                    SpentIsReleased, Entries, EntriesOf, EscrowsIn

(* Debit, entry and escrow row are one: the books stay balanced.             *)
LEMMA HoldBalances ==
    ASSUME IInv, BooksBalance, NEW c \in Calls, Hold(c), ~ Rollback(c)
    PROVE  BooksBalance'
<1> DEFINE t == req[c].target
           k == Key("hold", t)
<1>1. /\ k \notin ledger /\ escrow[t] = "none" /\ pc[c] = "hold"
      /\ balance' = [balance EXCEPT !["advertiser"] = @ - Price[t]]
      /\ ledger' = ledger \cup {k}
      /\ escrow' = [escrow EXCEPT ![t] = "held"]
      /\ spent' = spent
  BY DEF Hold, DuplicateHold
<1>2. t \in Targets /\ k \in LedgerKeys /\ ledger \subseteq LedgerKeys
  BY <1>1 DEF IInv, TypeOK, Request, Key, LedgerKeys, LedgerKind
<1>3. EntryWallet(k) = "advertiser" /\ EntryAmount[k] = - Price[t] /\ Price[t] \in Int
  BY <1>2, MoneyAssumption DEF Key, EntryWallet, EntryAmount
<1>4. ASSUME NEW w \in Wallets PROVE LedgerMatchesWallet(w)'
  <2>1. Total(EntryAmount, Entries(w)') =
          IF w = "advertiser" THEN Total(EntryAmount, Entries(w)) - Price[t]
          ELSE Total(EntryAmount, Entries(w))
    <3>1. Total(EntryAmount, Entries(w)') =
            IF EntryWallet(k) = w THEN Total(EntryAmount, Entries(w)) + EntryAmount[k]
            ELSE Total(EntryAmount, Entries(w))
      BY <1>1, <1>2, EntryAdds DEF Entries
    <3> QED
      BY <1>3, <3>1, BooksType
  <2>2. balance'[w] = IF w = "advertiser" THEN balance[w] - Price[t] ELSE balance[w]
    BY <1>1 DEF IInv, TypeOK
  <2> HIDE DEF t, k
  <2>3. balance'[w] = OpeningBalance(w) + Total(EntryAmount, Entries(w)')
    BY <1>3, <2>1, <2>2, BooksType
  <2> QED
    BY <2>3 DEF LedgerMatchesWallet, Entries, EntriesOf
<1>5. /\ Total(Price, EscrowsIn("held")) \in Int
      /\ Total(Price, EscrowsIn("held")') = Total(Price, EscrowsIn("held")) + Price[t]
      /\ Total(Price, EscrowsIn("released")') = Total(Price, EscrowsIn("released"))
  <2> DEFINE to == "held"
  <2>1. TypeOK /\ to # escrow[t] /\ escrow' = [escrow EXCEPT ![t] = to]
    BY <1>1, <1>2 DEF IInv
  <2> HIDE DEF t, to
  <2>2. \A status :
          /\ Total(Price, EscrowsIn(status)) \in Int
          /\ Total(Price, EscrowsIn(status)') =
                IF status = to THEN Total(Price, EscrowsIn(status)) + Price[t]
                ELSE IF status = escrow[t] THEN Total(Price, EscrowsIn(status)) - Price[t]
                ELSE Total(Price, EscrowsIn(status))
    BY <1>2, <2>1, PriceMoves
  <2> QED
    BY <1>1, <1>2, <2>2 DEF to
<1>6. MoneyConserved'
  <2>1. /\ balance'["advertiser"] = balance["advertiser"] - Price[t]
        /\ balance'["publisher"] = balance["publisher"]
        /\ balance'["platform"] = balance["platform"]
    BY <1>1 DEF IInv, TypeOK, Wallets
  <2> HIDE DEF t, k
  <2>2. Opening = balance'["advertiser"] + balance'["publisher"] + balance'["platform"]
                  + Total(Price, EscrowsIn("held")')
    BY <1>3, <1>5, <2>1, BooksType DEF Wallets
  <2> QED
    BY <2>2 DEF MoneyConserved, EscrowsIn
<1>7. SpentIsReleased'
  <2>1. spent' = Total(Price, EscrowsIn("released")')
    BY <1>1, <1>5, BooksType
  <2> QED
    BY <2>1 DEF SpentIsReleased, EscrowsIn
<1> QED
  BY <1>4, <1>6, <1>7 DEF BooksBalance, BalanceIsLedger

(* So are credit, entry and the end of the escrow of a refund.               *)
LEMMA GiveBackBalances ==
    ASSUME IInv, BooksBalance, NEW c \in Calls, GiveBack(c), ~ Rollback(c)
    PROVE  BooksBalance'
<1> DEFINE t == req[c].target
           k == Key("refund", t)
<1>1. /\ pc[c] = "pay"
      /\ balance' = [balance EXCEPT !["advertiser"] = @ + Price[t]]
      /\ ledger' = ledger \cup {k}
      /\ escrow' = [escrow EXCEPT ![t] = "refunded"]
      /\ spent' = spent
  BY DEF GiveBack
<1>2. t \in Targets /\ k \in LedgerKeys /\ ledger \subseteq LedgerKeys
      /\ k \notin ledger /\ escrow[t] = "held"
  BY <1>1, AboutToPay DEF IInv, TypeOK, Key, LedgerKeys, LedgerKind
<1>3. EntryWallet(k) = "advertiser" /\ EntryAmount[k] = Price[t] /\ Price[t] \in Int
  BY <1>2, MoneyAssumption DEF Key, EntryWallet, EntryAmount
<1>4. ASSUME NEW w \in Wallets PROVE LedgerMatchesWallet(w)'
  <2>1. Total(EntryAmount, Entries(w)') =
          IF w = "advertiser" THEN Total(EntryAmount, Entries(w)) + Price[t]
          ELSE Total(EntryAmount, Entries(w))
    <3>1. Total(EntryAmount, Entries(w)') =
            IF EntryWallet(k) = w THEN Total(EntryAmount, Entries(w)) + EntryAmount[k]
            ELSE Total(EntryAmount, Entries(w))
      BY <1>1, <1>2, EntryAdds DEF Entries
    <3> QED
      BY <1>3, <3>1
  <2>2. balance'[w] = IF w = "advertiser" THEN balance[w] + Price[t] ELSE balance[w]
    BY <1>1 DEF IInv, TypeOK
  <2> HIDE DEF t, k
  <2>3. balance'[w] = OpeningBalance(w) + Total(EntryAmount, Entries(w)')
    BY <1>3, <2>1, <2>2, BooksType
  <2> QED
    BY <2>3 DEF LedgerMatchesWallet, Entries, EntriesOf
<1>5. /\ Total(Price, EscrowsIn("held")) \in Int
      /\ Total(Price, EscrowsIn("held")') = Total(Price, EscrowsIn("held")) - Price[t]
      /\ Total(Price, EscrowsIn("released")') = Total(Price, EscrowsIn("released"))
  <2> DEFINE to == "refunded"
  <2>1. TypeOK /\ to # escrow[t] /\ escrow' = [escrow EXCEPT ![t] = to]
    BY <1>1, <1>2 DEF IInv
  <2> HIDE DEF t, to
  <2>2. \A status :
          /\ Total(Price, EscrowsIn(status)) \in Int
          /\ Total(Price, EscrowsIn(status)') =
                IF status = to THEN Total(Price, EscrowsIn(status)) + Price[t]
                ELSE IF status = escrow[t] THEN Total(Price, EscrowsIn(status)) - Price[t]
                ELSE Total(Price, EscrowsIn(status))
    BY <1>2, <2>1, PriceMoves
  <2> QED
    BY <1>1, <1>2, <2>2 DEF to
<1>6. MoneyConserved'
  <2>1. /\ balance'["advertiser"] = balance["advertiser"] + Price[t]
        /\ balance'["publisher"] = balance["publisher"]
        /\ balance'["platform"] = balance["platform"]
    BY <1>1 DEF IInv, TypeOK, Wallets
  <2> HIDE DEF t, k
  <2>2. Opening = balance'["advertiser"] + balance'["publisher"] + balance'["platform"]
                  + Total(Price, EscrowsIn("held")')
    BY <1>3, <1>5, <2>1, BooksType DEF Wallets
  <2> QED
    BY <2>2 DEF MoneyConserved, EscrowsIn
<1>7. SpentIsReleased'
  <2>1. spent' = Total(Price, EscrowsIn("released")')
    BY <1>1, <1>5, BooksType
  <2> QED
    BY <2>1 DEF SpentIsReleased, EscrowsIn
<1> QED
  BY <1>4, <1>6, <1>7 DEF BooksBalance, BalanceIsLedger

(* A payout writes two entries, or one when there is no commission.          *)
LEMMA PayOutEntries ==
    ASSUME IInv, NEW c \in Calls, PayOut(c), ~ Rollback(c), NEW w \in Wallets
    PROVE  LET t == req[c].target
               before == Total(EntryAmount, Entries(w))
           IN  Total(EntryAmount, Entries(w)') =
                 CASE w = "publisher" -> before + PayoutAmount(t)
                   [] w = "platform" -> before + Commission[t]
                   [] w = "advertiser" -> before
<1> DEFINE t == req[c].target
           p == Key("payout", t)
           m == Key("commission", t)
           before == Total(EntryAmount, Entries(w))
           between == Total(EntryAmount, EntriesOf(ledger \cup {p}, w))
           after == Total(EntryAmount, Entries(w)')
<1>1. /\ pc[c] = "pay"
      /\ ledger' = ledger \cup {p} \cup (IF Commission[t] > 0 THEN {m} ELSE {})
  BY DEF PayOut
<1>2. /\ t \in Targets /\ p \in LedgerKeys /\ m \in LedgerKeys /\ ledger \subseteq LedgerKeys
      /\ p \notin ledger /\ m \notin ledger \cup {p}
  BY <1>1, AboutToPay DEF IInv, TypeOK, Key, LedgerKeys, LedgerKind
<1>3. /\ EntryWallet(p) = "publisher" /\ EntryAmount[p] = PayoutAmount(t)
      /\ EntryWallet(m) = "platform" /\ EntryAmount[m] = Commission[t]
      /\ Commission[t] \in Nat /\ PayoutAmount(t) \in Int
  BY <1>2, MoneyAssumption DEF Key, EntryWallet, EntryAmount, PayoutAmount
<1>4. /\ before \in Int
      /\ between = IF EntryWallet(p) = w THEN before + EntryAmount[p] ELSE before
  BY <1>2, EntryAdds DEF Entries
<1>5. after = IF EntryWallet(m) = w THEN between + Commission[t] ELSE between
  <2>1. CASE Commission[t] > 0
    <3>1. ledger' = (ledger \cup {p}) \cup {m}
      BY <1>1, <2>1
    <3>2. ledger \cup {p} \subseteq LedgerKeys
      BY <1>2
    <3>3. after = Total(EntryAmount, EntriesOf((ledger \cup {p}) \cup {m}, w))
      BY <3>1 DEF Entries
    <3> HIDE DEF after, t, p, m
    <3>4. after = IF EntryWallet(m) = w THEN between + EntryAmount[m] ELSE between
      BY <1>2, <3>2, <3>3, EntryAdds
    <3> HIDE DEF between
    <3> QED
      BY <1>3, <3>4
  <2>2. CASE Commission[t] = 0
    <3>1. ledger' = ledger \cup {p}
      BY <1>1, <2>2
    <3>2. after = between
      BY <3>1 DEF Entries
    <3>3. between \in Int
      BY <1>3, <1>4
    <3> HIDE DEF after, between, t, p, m
    <3> QED
      BY <2>2, <3>2, <3>3
  <2> QED
    BY <1>3, <2>1, <2>2
<1> HIDE DEF after, between, before, t, p, m
<1>6. after = CASE w = "publisher" -> before + PayoutAmount(t)
                [] w = "platform" -> before + Commission[t]
                [] w = "advertiser" -> before
  BY <1>3, <1>4, <1>5 DEF Wallets
<1> QED
  BY <1>6 DEF after, before, t

(* A payout's two credits are what its escrow held.                          *)
LEMMA PayOutBalances ==
    ASSUME IInv, BooksBalance, NEW c \in Calls, PayOut(c), ~ Rollback(c)
    PROVE  BooksBalance'
<1> DEFINE t == req[c].target
<1>1. /\ pc[c] = "pay"
      /\ balance' = [balance EXCEPT !["publisher"] = @ + PayoutAmount(t),
                                    !["platform"] = @ + Commission[t]]
      /\ escrow' = [escrow EXCEPT ![t] = "released"]
      /\ spent' = spent + Price[t]
  BY DEF PayOut, SpentAfter
<1>2. t \in Targets /\ escrow[t] = "held"
  BY <1>1, AboutToPay
<1>3. /\ Price[t] \in Int /\ Commission[t] \in Int /\ PayoutAmount(t) \in Int
      /\ Price[t] = PayoutAmount(t) + Commission[t]
  BY <1>2, MoneyAssumption DEF PayoutAmount
<1>4. /\ balance'["advertiser"] = balance["advertiser"]
      /\ balance'["publisher"] = balance["publisher"] + PayoutAmount(t)
      /\ balance'["platform"] = balance["platform"] + Commission[t]
  BY <1>1 DEF IInv, TypeOK, Wallets
<1>5. ASSUME NEW w \in Wallets PROVE LedgerMatchesWallet(w)'
  <2>1. Total(EntryAmount, Entries(w)') =
          CASE w = "publisher" -> Total(EntryAmount, Entries(w)) + PayoutAmount(t)
            [] w = "platform" -> Total(EntryAmount, Entries(w)) + Commission[t]
            [] w = "advertiser" -> Total(EntryAmount, Entries(w))
    BY PayOutEntries
  <2> HIDE DEF t
  <2>2. balance'[w] = OpeningBalance(w) + Total(EntryAmount, Entries(w)')
    BY <1>3, <1>4, <2>1, BooksType DEF Wallets
  <2> QED
    BY <2>2 DEF LedgerMatchesWallet, Entries, EntriesOf
<1>6. /\ Total(Price, EscrowsIn("held")) \in Int
      /\ Total(Price, EscrowsIn("held")') = Total(Price, EscrowsIn("held")) - Price[t]
      /\ Total(Price, EscrowsIn("released")') = Total(Price, EscrowsIn("released")) + Price[t]
  <2> DEFINE to == "released"
  <2>1. TypeOK /\ to # escrow[t] /\ escrow' = [escrow EXCEPT ![t] = to]
    BY <1>1, <1>2 DEF IInv
  <2> HIDE DEF t, to
  <2>2. \A status :
          /\ Total(Price, EscrowsIn(status)) \in Int
          /\ Total(Price, EscrowsIn(status)') =
                IF status = to THEN Total(Price, EscrowsIn(status)) + Price[t]
                ELSE IF status = escrow[t] THEN Total(Price, EscrowsIn(status)) - Price[t]
                ELSE Total(Price, EscrowsIn(status))
    BY <1>2, <2>1, PriceMoves
  <2> QED
    BY <1>1, <1>2, <2>2 DEF to
<1>7. MoneyConserved'
  <2> HIDE DEF t
  <2>1. Opening = balance'["advertiser"] + balance'["publisher"] + balance'["platform"]
                  + Total(Price, EscrowsIn("held")')
    BY <1>3, <1>4, <1>6, BooksType DEF Wallets
  <2> QED
    BY <2>1 DEF MoneyConserved, EscrowsIn
<1>8. SpentIsReleased'
  <2>1. spent' = Total(Price, EscrowsIn("released")')
    BY <1>1, <1>6, BooksType
  <2> QED
    BY <2>1 DEF SpentIsReleased, EscrowsIn
<1> QED
  BY <1>5, <1>7, <1>8 DEF BooksBalance, BalanceIsLedger

(* Every other step leaves the books alone.                                  *)
LEMMA OthersKeepBooks ==
    ASSUME IInv, [Next]_vars,
           \A c \in Calls : (Hold(c) \/ PayOut(c) \/ GiveBack(c)) => Rollback(c)
    PROVE  UNCHANGED <<ledger, balance, escrow, spent>>
<1>1. ASSUME NEW c \in Calls, Crash(c) \/ Rollback(c)
      PROVE  UNCHANGED <<ledger, balance, escrow, spent>>
  BY <1>1 DEF Crash, Rollback, data
<1>2. ASSUME NEW c \in Calls, Continue(c), ~ PayOut(c), ~ Hold(c), ~ GiveBack(c)
      PROVE  UNCHANGED <<ledger, balance, escrow, spent>>
  BY <1>2 DEF Continue, WorkerSucceeds, WorkerGivesUp, WorkerRetries, WorkerStops,
     Delivered, FindEscrow, CheckTarget, CheckBalance, LockJob, Requeue, CheckSwitch,
     LockEscrow, AlreadyDone, CheckOutcome, Require, Rollback, data
<1>3. ASSUME NEW c \in Calls, NEW t \in Targets, Start(c, t)
      PROVE  UNCHANGED <<ledger, balance, escrow, spent>>
  BY <1>3 DEF Start, HoldEscrow, TakeJob, RecoverSent, RecoverExhausted, RecoverStalled,
     WatchdogRefund, AdminRelease, AdminRefund, AdminRetryPost, Begin, data
<1>4. CASE Environment
  BY <1>4 DEF Environment, ToggleCampaign, FlipSwitch, MoveTarget, TargetWritten, BecomeOverdue
<1>5. CASE UNCHANGED vars
  BY <1>5 DEF vars, data
<1> QED
  BY <1>1, <1>2, <1>3, <1>4, <1>5 DEF Next

(* The three sums about the money of a campaign hold together: each wallet is *)
(* its ledger entries, the wallets and the held escrows are the opening      *)
(* balance, and the campaign's spent budget is what was released.            *)
THEOREM BooksAlwaysBalance == Spec => []BooksBalance
<1>1. Init => BooksBalance
  <2> SUFFICES ASSUME Init PROVE BooksBalance
    OBVIOUS
  <2>1. ASSUME NEW w \in Wallets PROVE LedgerMatchesWallet(w)
    <3>1. {k \in ledger : EntryWallet(k) = w} = {}
      BY DEF Init
    <3>2. balance[w] = OpeningBalance(w) /\ OpeningBalance(w) \in Int
      BY MoneyAssumption DEF Init, OpeningBalance
    <3> QED
      BY <3>1, <3>2, TotalEmpty DEF LedgerMatchesWallet
  <2>2. {t \in Targets : escrow[t] = "held"} = {} /\ {t \in Targets : escrow[t] = "released"} = {}
    BY DEF Init
  <2>3. MoneyConserved
    <3>1. balance["advertiser"] = Opening /\ balance["publisher"] = 0 /\ balance["platform"] = 0
      BY DEF Init, Wallets, OpeningBalance
    <3>2. Opening \in Nat /\ Total(Price, {}) = 0
      BY TotalEmpty, MoneyAssumption
    <3> QED
      BY <2>2, <3>1, <3>2 DEF MoneyConserved
  <2>4. SpentIsReleased
    BY <2>2, TotalEmpty DEF Init, SpentIsReleased
  <2> QED
    BY <2>1, <2>3, <2>4 DEF BooksBalance, BalanceIsLedger
<1>2. IInv /\ BooksBalance /\ [Next]_vars => BooksBalance'
  <2> SUFFICES ASSUME IInv, BooksBalance, [Next]_vars PROVE BooksBalance'
    OBVIOUS
  <2>1. CASE \A c \in Calls : (Hold(c) \/ PayOut(c) \/ GiveBack(c)) => Rollback(c)
    <3>1. UNCHANGED <<ledger, balance, escrow, spent>>
      BY <2>1, OthersKeepBooks
    <3> QED
      BY <3>1 DEF BooksBalance, BalanceIsLedger, LedgerMatchesWallet, MoneyConserved,
                  SpentIsReleased
  <2>2. ASSUME NEW c \in Calls, Hold(c) \/ PayOut(c) \/ GiveBack(c), ~ Rollback(c)
        PROVE  BooksBalance'
    BY <2>2, HoldBalances, PayOutBalances, GiveBackBalances
  <2> QED
    BY <2>1, <2>2
<1> QED
  BY Inductive, <1>1, <1>2, PTL DEF Spec
-----------------------------------------------------------------------------
(* Row locks *)

(* What a call that ends held is free, what others hold they keep. *)
LEMMA EndFrees ==
    ASSUME IInv, LocksHeld, NEW c \in Calls, End(c)
    PROVE  LocksHeld'
<1>1. /\ pc' = [pc EXCEPT ![c] = "idle"]
      /\ escLock' = [t \in Targets |-> IF escLock[t] = c THEN NoCall ELSE escLock[t]]
      /\ jobLock' = [t \in Targets |-> IF jobLock[t] = c THEN NoCall ELSE jobLock[t]]
  BY DEF End, Unlocked
<1> SUFFICES ASSUME NEW t \in Targets
             PROVE  /\ escLock'[t] # NoCall => pc'[escLock'[t]] \in {"check", "pay"}
                    /\ jobLock'[t] # NoCall =>
                           pc'[jobLock'[t]] \in {"requeue", "switch", "lock", "check", "pay"}
  BY DEF LocksHeld
<1>2. escLock'[t] # NoCall => escLock'[t] = escLock[t] /\ escLock[t] \in Calls \ {c}
  BY <1>1 DEF IInv, TypeOK
<1>3. jobLock'[t] # NoCall => jobLock'[t] = jobLock[t] /\ jobLock[t] \in Calls \ {c}
  BY <1>1 DEF IInv, TypeOK
<1> QED
  BY <1>1, <1>2, <1>3 DEF IInv, TypeOK, LocksHeld

(* A call that goes on without touching a lock is still where it may hold what *)
(* it holds.                                                                 *)
LEMMA MovesOnKeepsLocks ==
    ASSUME IInv, LocksHeld, NEW c \in Calls, NEW step,
           pc' = [pc EXCEPT ![c] = step], UNCHANGED locks,
           \/ pc[c] \in {"idle", "deliver", "find", "target", "wallet"}
           \/ pc[c] = "switch" /\ step = "lock"
           \/ pc[c] = "check" /\ step = "pay"
    PROVE  LocksHeld'
BY CallAssumption DEF IInv, TypeOK, LocksHeld, locks

LEMMA LocksKept ==
    ASSUME IInv, LocksHeld, [Next]_vars
    PROVE  LocksHeld'
<1>1. ASSUME NEW c \in Calls, Crash(c) \/ Rollback(c) PROVE LocksHeld'
  BY <1>1, EndFrees DEF Crash, Rollback
<1>2. ASSUME NEW c \in Calls, NEW t \in Targets, Start(c, t) PROVE LocksHeld'
  <2>1. PICK first : /\ pc[c] = "idle"
                     /\ pc' = [pc EXCEPT ![c] = first]
                     /\ UNCHANGED locks
    BY <1>2 DEF Start, HoldEscrow, TakeJob, RecoverSent, RecoverExhausted, RecoverStalled,
       WatchdogRefund, AdminRelease, AdminRefund, AdminRetryPost, Begin
  <2> QED
    BY <2>1, MovesOnKeepsLocks
<1>3. ASSUME NEW c \in Calls, Continue(c), ~ Rollback(c) PROVE LocksHeld'
  <2>1. CASE WorkerSucceeds(c) \/ WorkerGivesUp(c) \/ WorkerRetries(c)
    <3>1. pc[c] = "deliver" /\ pc' = [pc EXCEPT ![c] = "job"] /\ UNCHANGED locks
      BY <2>1 DEF WorkerSucceeds, WorkerGivesUp, WorkerRetries, Delivered
    <3> QED
      BY <3>1, MovesOnKeepsLocks
  <2>2. CASE FindEscrow(c) \/ CheckTarget(c) \/ CheckBalance(c)
    <3>1. PICK step : /\ pc[c] \in {"find", "target", "wallet"}
                      /\ pc' = [pc EXCEPT ![c] = step] /\ UNCHANGED locks
      BY <1>3, <2>2 DEF FindEscrow, CheckTarget, CheckBalance, Require, Goto
    <3> QED
      BY <3>1, MovesOnKeepsLocks
  <2>3. CASE CheckSwitch(c) \/ CheckOutcome(c)
    <3>1. PICK step : /\ (pc[c] = "switch" /\ step = "lock") \/ (pc[c] = "check" /\ step = "pay")
                      /\ pc' = [pc EXCEPT ![c] = step] /\ UNCHANGED locks
      BY <1>3, <2>3 DEF CheckSwitch, CheckOutcome, Require, Goto
    <3> QED
      BY <3>1, MovesOnKeepsLocks
  <2>4. CASE LockJob(c)
    <3> DEFINE t == req[c].target
               next == CASE req[c].op = "release" -> "switch"
                         [] req[c].op = "refund" -> "lock"
                         [] req[c].op = "requeue" -> "requeue"
    <3>1. /\ pc[c] = "job"
          /\ jobLock' = [jobLock EXCEPT ![t] = c]
          /\ pc' = [pc EXCEPT ![c] = next]
          /\ UNCHANGED escLock
      BY <2>4 DEF LockJob, Goto
    <3>2. next \in {"switch", "lock", "requeue"}
      BY <3>1 DEF IInv, StepFitsOperation
    <3> HIDE DEF next
    <3> QED
      BY <3>1, <3>2 DEF IInv, TypeOK, LocksHeld
  <2>5. CASE LockEscrow(c)
    <3>1. /\ pc[c] = "lock"
          /\ escLock' = [escLock EXCEPT ![req[c].target] = c]
          /\ pc' = [pc EXCEPT ![c] = "check"]
          /\ UNCHANGED jobLock
      BY <1>3, <2>5 DEF LockEscrow, Goto
    <3> QED
      BY <3>1 DEF IInv, TypeOK, LocksHeld
  <2>6. CASE Hold(c) \/ Requeue(c) \/ AlreadyDone(c) \/ PayOut(c) \/ GiveBack(c)
    <3>1. End(c)
      BY <1>3, <2>6 DEF Hold, Requeue, AlreadyDone, PayOut, GiveBack
    <3> QED
      BY <3>1, EndFrees
  <2> QED
    BY <1>3, <2>1, <2>2, <2>3, <2>4, <2>5, <2>6 DEF Continue, WorkerStops
<1>4. CASE Environment
  BY <1>4 DEF Environment, ToggleCampaign, FlipSwitch, MoveTarget, TargetWritten, BecomeOverdue, locks,
     LocksHeld
<1>5. CASE UNCHANGED vars
  BY <1>5 DEF vars, locks, LocksHeld
<1> QED
  BY <1>1, <1>2, <1>3, <1>4, <1>5 DEF Next

(* No set of calls waits for each other: every wait for a row lock leads, over *)
(* one waiting call at most, to a call that can go on.                       *)
THEOREM NoDeadlock == Spec => []WaitsEnd
<1>1. Init => LocksHeld
  BY DEF Init, LocksHeld
<1>2. IInv /\ LocksHeld /\ [Next]_vars => LocksHeld'
  BY LocksKept
<1>3. IInv /\ LocksHeld => WaitsEnd
  <2> SUFFICES ASSUME IInv, LocksHeld, NEW c \in Calls, Waits(c)
               PROVE  Runs(Holder(c)) \/ (Waits(Holder(c)) /\ Runs(Holder(Holder(c))))
    BY DEF WaitsEnd
  <2>1. ASSUME NEW d \in Calls, pc[d] = "lock", escLock[req[d].target] # NoCall
        PROVE  Runs(Holder(d))
    <3>1. req[d].target \in Targets
      BY <2>1 DEF IInv, TypeOK, Request
    <3>2. pc[Holder(d)] \in {"check", "pay"}
      BY <2>1, <3>1 DEF LocksHeld, Holder
    <3> QED
      BY <3>2 DEF Runs, Waits
  <2>2. CASE pc[c] = "lock"
    BY <2>1, <2>2 DEF Waits
  <2>3. CASE pc[c] = "job"
    <3> DEFINE d == Holder(c)
    <3>1. req[c].target \in Targets
      BY <2>3 DEF IInv, TypeOK, Request
    <3>2. d = jobLock[req[c].target] /\ d # NoCall
      BY <2>3 DEF Waits, Holder
    <3>3. d \in Calls /\ pc[d] \in {"requeue", "switch", "lock", "check", "pay"}
      BY <3>1, <3>2 DEF IInv, TypeOK, LocksHeld
    <3> HIDE DEF d
    <3>4. Runs(d) \/ (Waits(d) /\ Runs(Holder(d)))
      BY <3>3, <2>1 DEF Runs, Waits
    <3> QED
      BY <3>4 DEF d
  <2> QED
    BY <2>2, <2>3 DEF Waits
<1> QED
  BY Inductive, <1>1, <1>2, <1>3, PTL DEF Spec
=============================================================================
