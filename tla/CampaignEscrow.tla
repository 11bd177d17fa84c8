--------------------------- MODULE CampaignEscrow ---------------------------
(***************************************************************************)
(* The escrow of a campaign: PaymentsService.holdEscrow and                 *)
(* EscrowService.release / refund, with every caller that starts them       *)
(* (post worker, stalled-job recovery, escrow watchdog, admin).             *)
(*                                                                          *)
(* Postgres runs them READ COMMITTED.  A call in flight is a slot c of      *)
(* Calls; between two of its steps any other call may commit.  What a call  *)
(* has written is visible to others only at its commit, so the writes of a  *)
(* transaction are one action, its last; what it has read may be stale by   *)
(* then unless it holds the row lock: escLock is SELECT ... FOR UPDATE on   *)
(* the escrow row, jobLock the lock an uncommitted UPDATE of the post job   *)
(* row keeps.  A call that throws, or is cut off, rolls back: it leaves     *)
(* nothing but the locks it frees.                                          *)
(*                                                                          *)
(* One advertiser pays from one campaign, so wallets are named by role.     *)
(* The ledger is the set of its idempotency keys; a key determines wallet   *)
(* and amount of its entry.                                                 *)
(*                                                                          *)
(* X_Suffix is a wrong variant of X, kept to show that a property would     *)
(* notice it.                                                               *)
(***************************************************************************)
EXTENDS Integers, FiniteSets, Totals, Lifecycle

CONSTANTS
    Targets,        \* campaign targets of the campaign
    Calls,          \* transactions that may be in flight at once
    NoCall,         \* "nobody holds this row lock"
    NoRequest,      \* what a free slot is working on
    Price,          \* price of each target
    Commission,     \* platform commission of each target, rounded
    TotalBudget,    \* campaign.totalBudget
    Opening,        \* opening balance of the advertiser's wallet
    TargetMoves,    \* moves other components make on campaignTarget.status
    Toggles,        \* kill switches that may be flipped
    Active          \* which callers run and which disturbances happen

Wallets == {"advertiser", "publisher", "platform"}
KillSwitchKey == {"payouts", "new_escrows"}
Callers == {"hold", "worker", "recovery", "watchdog", "admin"}
Disturbances == {"crash", "freeze", "delay"}
TargetEdges == {<<e[1], e[2]>> : e \in campaignTargetTransitions}

Operation == {"deliver", "hold", "release", "refund", "requeue"}
Actor == {"worker", "system", "admin"}

(* A request: the operation, and the post job status its caller writes      *)
(* first, in the same transaction ("none" if it writes none).               *)
Request == [op : Operation, target : Targets, actor : Actor,
            sets : {"none", "success", "failed", "queued"}]

Step == {"idle", "deliver", "find", "target", "wallet", "hold", "job", "switch", "lock",
         "check", "pay", "requeue"}

ASSUME TargetAssumption == IsFiniteSet(Targets)
ASSUME CallAssumption == NoCall \notin Calls /\ NoRequest \notin Request
ASSUME MoneyAssumption ==
    /\ Price \in [Targets -> Nat \ {0}]
    /\ Commission \in [Targets -> Nat]
    /\ TotalBudget \in Nat
    /\ Opening \in Nat
ASSUME MovesAssumption == TargetMoves \subseteq TargetEdges
ASSUME OptionAssumption ==
    Toggles \subseteq KillSwitchKey /\ Active \subseteq Callers \cup Disturbances

VARIABLES
    campaign,   \* campaign.status
    spent,      \* campaign.spentBudget
    target,     \* campaignTarget.status, per target
    been,       \* the statuses each target has had
    postJob,    \* postJob.status, per target
    overdue,    \* postJob.executeAt is more than six hours past
    escrow,     \* escrow.status per target, "none" while there is no row
    ledger,     \* idempotency keys of the committed ledger entries
    markers,    \* committed operation markers of FinancialAuditEvent
    balance,    \* wallet.balance
    enabled,    \* kill switches: TRUE lets the operation through
    escLock, jobLock,
    pc,         \* the next step of each call in flight
    req         \* what each call in flight was asked to do

data == <<campaign, spent, target, been, postJob, overdue, escrow, ledger, markers,
          balance, enabled>>
locks == <<escLock, jobLock>>
vars == <<data, locks, pc, req>>

-----------------------------------------------------------------------------
(* Ledger *)

LedgerKind == {"hold", "payout", "commission", "refund"}
Key(kind, t) == <<kind, t>>
LedgerKeys == LedgerKind \X Targets

(* calculateCommissionSplit: the publisher gets what the platform leaves;     *)
(* it rejects a commission above the price, recordWalletMovement an empty    *)
(* payout.                                                                   *)
PayoutAmount(t) == Price[t] - Commission[t]
SplitPays(t) == PayoutAmount(t) > 0

EntryWallet(k) ==
    CASE k[1] \in {"hold", "refund"} -> "advertiser"
      [] k[1] = "payout" -> "publisher"
      [] k[1] = "commission" -> "platform"

EntryAmount == [k \in LedgerKeys |->
    CASE k[1] = "hold" -> -Price[k[2]]
      [] k[1] = "refund" -> Price[k[2]]
      [] k[1] = "payout" -> PayoutAmount(k[2])
      [] k[1] = "commission" -> Commission[k[2]]]

OpeningBalance(w) == IF w = "advertiser" THEN Opening ELSE 0

(* assertLedgerMatchesWallet *)
LedgerMatchesWallet(w) ==
    balance[w] = OpeningBalance(w) + Total(EntryAmount, {k \in ledger : EntryWallet(k) = w})

-----------------------------------------------------------------------------
(* Transactions *)

Begin(c, first, op, t, actor, sets) ==
    /\ pc[c] = "idle"
    /\ pc' = [pc EXCEPT ![c] = first]
    /\ req' = [req EXCEPT ![c] =
                  [op |-> op, target |-> t, actor |-> actor, sets |-> sets]]
    /\ UNCHANGED <<data, locks>>

Goto(c, step) ==
    /\ pc' = [pc EXCEPT ![c] = step]
    /\ UNCHANGED req

Unlocked_Leak(lock, c) == lock
Unlocked(lock, c) == [t \in Targets |-> IF lock[t] = c THEN NoCall ELSE lock[t]]

End(c) ==
    /\ pc' = [pc EXCEPT ![c] = "idle"]
    /\ req' = [req EXCEPT ![c] = NoRequest]
    /\ escLock' = Unlocked(escLock, c)
    /\ jobLock' = Unlocked(jobLock, c)

Rollback(c) == End(c) /\ UNCHANGED data

(* An assertion of the code: go on if it holds, throw if it does not. *)
Require_Waits(c, assertion, next) ==
    assertion /\ Goto(c, next) /\ UNCHANGED <<data, locks>>
Require(c, assertion, next) ==
    IF assertion THEN Goto(c, next) /\ UNCHANGED <<data, locks>>
                 ELSE Rollback(c)

JobWritten(c) ==
    IF req[c].sets = "none" THEN postJob
    ELSE [postJob EXCEPT ![req[c].target] = req[c].sets]

TargetWritten(t, to) ==
    /\ target' = [target EXCEPT ![t] = to]
    /\ been' = [been EXCEPT ![t] = @ \cup {to}]

(* The target's last status is written unless the assertion found it there      *)
(* already; a target that has had it may have had it then.                   *)
TargetSettled(t, to) ==
    \/ TargetWritten(t, to)
    \/ to \in been[t] /\ UNCHANGED <<target, been>>

CommitJob_Lost(c) == UNCHANGED postJob
CommitJob(c) == postJob' = JobWritten(c)

-----------------------------------------------------------------------------
(* The callers.  Each reads what it bases its decision on when it begins;    *)
(* that may be stale when its transaction writes.                            *)

HoldEscrow(c, t) ==
    /\ "hold" \in Active
    /\ enabled["new_escrows"]
    /\ Begin(c, "find", "hold", t, "system", "none")

(* post.worker.ts takes a job: it reserves one that is queued, and goes on    *)
(* with any other too, whatever its status.                                  *)
TakeJob(c, t) ==
    /\ "worker" \in Active
    /\ postJob[t] # "none"
    /\ postJob[t] = "queued" => jobLock[t] = NoCall
    /\ pc[c] = "idle"
    /\ pc' = [pc EXCEPT ![c] = "deliver"]
    /\ req' = [req EXCEPT ![c] = [op |-> "deliver", target |-> t,
                                 actor |-> "worker", sets |-> "none"]]
    /\ postJob' = [postJob EXCEPT ![t] = IF @ = "queued" THEN "sending" ELSE @]
    /\ UNCHANGED <<campaign, spent, target, been, overdue, escrow, ledger, markers,
                   balance, enabled, locks>>

(* The job is read and delivered; the outcome, whatever it is, opens a        *)
(* transaction that asserts the move from the status read here.              *)
Delivered(c, op, status) ==
    /\ pc[c] = "deliver"
    /\ TransitionAllowed(postJobTransitions, postJob[req[c].target], status, "worker")
    /\ pc' = [pc EXCEPT ![c] = "job"]
    /\ req' = [req EXCEPT ![c].op = op, ![c].sets = status]
    /\ UNCHANGED <<data, locks>>

(* The post is out: mark the job and release. *)
WorkerSucceeds(c) == Delivered(c, "release", "success")
(* No retry is left: fail the job and refund. *)
WorkerGivesUp(c) == Delivered(c, "refund", "failed")
WorkerRetries(c) == Delivered(c, "requeue", "queued")

(* A kill switch delays the delivery, or the transition is refused: the job   *)
(* is left as it is.                                                         *)
WorkerStops(c) == pc[c] = "deliver" /\ Rollback(c)

(* requeueStalledPostJobs: the three things done with a stalled job *)
RecoverSent(c, t) ==
    /\ "recovery" \in Active
    /\ postJob[t] = "sending"
    /\ Begin(c, "job", "release", t, "system", "success")

RecoverExhausted(c, t) ==
    /\ "recovery" \in Active
    /\ postJob[t] = "sending"
    /\ Begin(c, "job", "refund", t, "system", "failed")

RecoverStalled(c, t) ==
    /\ "recovery" \in Active
    /\ postJob[t] = "sending"
    /\ Begin(c, "job", "requeue", t, "system", "queued")

(* refundStuckEscrows: held, and the job failed or is six hours late *)
WatchdogRefund(c, t) ==
    /\ "watchdog" \in Active
    /\ escrow[t] = "held"
    /\ postJob[t] = "failed" \/ (postJob[t] # "none" /\ overdue[t])
    /\ Begin(c, "lock", "refund", t, "system", "none")

(* resolveEscrow: an admin decides by hand *)
AdminRelease(c, t) ==
    /\ "admin" \in Active
    /\ escrow[t] = "held"
    /\ Begin(c, "switch", "release", t, "admin", "none")

AdminRefund(c, t) ==
    /\ "admin" \in Active
    /\ escrow[t] = "held"
    /\ Begin(c, "lock", "refund", t, "admin", "none")

(* retryPost: an admin queues a failed job again; of a queued one it writes   *)
(* nothing.                                                                   *)
AdminRetryPost(c, t) ==
    /\ "admin" \in Active
    /\ postJob[t] # "queued"
    /\ TransitionAllowed(postJobTransitions, postJob[t], "queued", "admin")
    /\ Begin(c, "job", "requeue", t, "admin", "queued")

-----------------------------------------------------------------------------
(* holdEscrow *)

FindEscrow(c) ==
    /\ pc[c] = "find"
    /\ Require(c, escrow[req[c].target] = "none", "target")

CheckTarget(c) ==
    LET t == req[c].target IN
    /\ pc[c] = "target"
    /\ Require(c, /\ target[t] \in {"submitted", "approved"}
                  /\ campaign = "active"
                  /\ TotalBudget - spent >= Price[t],
               "wallet")

(* The balance is read, not locked. *)
CheckBalance(c) ==
    /\ pc[c] = "wallet"
    /\ Require(c, balance["advertiser"] >= Price[req[c].target], "hold")

(* A second hold of a target violates the unique keys of the ledger entry     *)
(* and of the escrow row.                                                    *)
DuplicateHold_Allowed(t) == FALSE
DuplicateHold(t) == Key("hold", t) \in ledger \/ escrow[t] # "none"

(* Debit, ledger entry and escrow row *)
Hold(c) ==
    LET t == req[c].target IN
    /\ pc[c] = "hold"
    /\ IF DuplicateHold(t)
       THEN Rollback(c)
       ELSE /\ balance' = [balance EXCEPT !["advertiser"] = @ - Price[t]]
            /\ ledger' = ledger \cup {Key("hold", t)}
            /\ escrow' = [escrow EXCEPT ![t] = "held"]
            /\ End(c)
            /\ UNCHANGED <<campaign, spent, target, been, postJob, overdue, markers,
                           enabled>>

-----------------------------------------------------------------------------
(* The post job write of the callers, and the ones that write nothing else *)

LockJob(c) ==
    LET t == req[c].target IN
    /\ pc[c] = "job"
    /\ jobLock[t] = NoCall
    /\ jobLock' = [jobLock EXCEPT ![t] = c]
    /\ Goto(c, CASE req[c].op = "release" -> "switch"
                 [] req[c].op = "refund" -> "lock"
                 [] req[c].op = "requeue" -> "requeue")
    /\ UNCHANGED <<data, escLock>>

(* Only the recovery gives the job a new time to run. *)
Requeue(c) ==
    /\ pc[c] = "requeue"
    /\ CommitJob(c)
    /\ overdue' = IF req[c].actor = "system"
                  THEN [overdue EXCEPT ![req[c].target] = FALSE] ELSE overdue
    /\ End(c)
    /\ UNCHANGED <<campaign, spent, target, been, escrow, ledger, markers, balance,
                   enabled>>

-----------------------------------------------------------------------------
(* release and refund *)

CheckSwitch(c) ==
    /\ pc[c] = "switch"
    /\ Require(c, enabled["payouts"], "lock")

Final(op) == IF op = "release" THEN "released" ELSE "refunded"

Marked_Forgotten(op, t) == markers
Marked(op, t) == markers \cup {<<op, t>>}
Finished(op, t) == <<op, t>> \in markers \/ escrow[t] = Final(op)

LockEscrow_Unlocked(c) ==
    /\ pc[c] = "lock"
    /\ IF escrow[req[c].target] = "held"
       THEN Goto(c, "check") /\ UNCHANGED <<data, locks>>
       ELSE Rollback(c)

(* lockEscrow, the operation claim and the claim of the held status.  The    *)
(* marker and the status releasing / refunding are written here but seen by  *)
(* others only at the commit.                                                *)
LockEscrow(c) ==
    LET t == req[c].target IN
    /\ pc[c] = "lock"
    /\ escLock[t] = NoCall
    /\ ~ Finished(req[c].op, t)
    /\ IF escrow[t] = "held"
       THEN /\ escLock' = [escLock EXCEPT ![t] = c]
            /\ Goto(c, "check")
            /\ UNCHANGED <<data, jobLock>>
       ELSE Rollback(c)

(* The operation was done before: nothing more to do, commit. *)
AlreadyDone(c) ==
    LET t == req[c].target IN
    /\ pc[c] = "lock"
    /\ escLock[t] = NoCall
    /\ Finished(req[c].op, t)
    /\ markers' = Marked(req[c].op, t)
    /\ CommitJob(c)
    /\ End(c)
    /\ UNCHANGED <<campaign, spent, target, been, overdue, escrow, ledger, balance,
                   enabled>>

(* assertCampaignTargetTransition: the target may become what the operation    *)
(* makes of it, or is that already.                                          *)
FinalTarget(op) == IF op = "release" THEN "posted" ELSE "refunded"
TargetReady_Assumed(r) == TRUE
TargetReady(r) ==
    TransitionAllowed(campaignTargetTransitions, target[r.target], FinalTarget(r.op), r.actor)

(* Target and post job are read (with the transaction's own write) and the   *)
(* lifecycle assertions made.                                                *)
CheckOutcome(c) ==
    LET t == req[c].target
        r == req[c]
        transient == IF r.op = "release" THEN "releasing" ELSE "refunding"
    IN
    /\ pc[c] = "check"
    /\ Require(c,
          /\ TransitionAllowed(escrowTransitions, "held", transient, r.actor)
          /\ TransitionAllowed(escrowTransitions, transient, Final(r.op), r.actor)
          /\ PostJobOutcomeAllows(r.op, JobWritten(c)[t], r.actor)
          /\ TargetReady(r),
          "pay")

SpentAfter_Decremented(t) == spent - Price[t]
SpentAfter_Overwritten(t) == Price[t]
SpentAfter(t) == spent + Price[t]

(* Payout, commission, budget and statuses of a release *)
PayOut(c) ==
    LET t == req[c].target IN
    /\ pc[c] = "pay"
    /\ req[c].op = "release"
    /\ IF /\ SplitPays(t)
          /\ Key("hold", t) \in ledger
          /\ Commission[t] > 0 => LedgerMatchesWallet("platform")
       THEN /\ ledger' = ledger \cup {Key("payout", t)} \cup
                   (IF Commission[t] > 0 THEN {Key("commission", t)} ELSE {})
            /\ balance' = [balance EXCEPT
                   !["publisher"] = @ + PayoutAmount(t),
                   !["platform"] = @ + Commission[t]]
            /\ markers' = Marked("release", t)
            /\ TargetSettled(t, "posted")
            /\ CommitJob(c)
            /\ spent' = SpentAfter(t)
            /\ escrow' = [escrow EXCEPT ![t] = "released"]
            /\ End(c)
            /\ UNCHANGED <<campaign, overdue, enabled>>
       ELSE Rollback(c)

(* The advertiser gets the price back. *)
GiveBack(c) ==
    LET t == req[c].target IN
    /\ pc[c] = "pay"
    /\ req[c].op = "refund"
    /\ IF LedgerMatchesWallet("advertiser")
       THEN /\ ledger' = ledger \cup {Key("refund", t)}
            /\ balance' = [balance EXCEPT !["advertiser"] = @ + Price[t]]
            /\ markers' = Marked("refund", t)
            /\ TargetSettled(t, "refunded")
            /\ CommitJob(c)
            /\ escrow' = [escrow EXCEPT ![t] = "refunded"]
            /\ End(c)
            /\ UNCHANGED <<campaign, spent, overdue, enabled>>
       ELSE Rollback(c)

(* The process dies, the connection drops or the transaction times out. *)
Crash(c) ==
    /\ "crash" \in Active
    /\ pc[c] # "idle"
    /\ Rollback(c)

-----------------------------------------------------------------------------
(* The rest of the system, as far as these calls see it *)

(* Another service moves the target: it reads the status, asserts the move and *)
(* later writes by id, over whatever the row says by then.  Any number of such *)
(* calls may be in between, so any status the target has had may be the one    *)
(* that was read.                                                            *)
MoveTarget(t) ==
    /\ \E from \in been[t], to \in CampaignTargetStatus :
           <<from, to>> \in TargetMoves /\ TargetWritten(t, to)
    /\ UNCHANGED <<campaign, spent, postJob, overdue, escrow, ledger, markers,
                   balance, enabled, locks, pc, req>>

(* freezeCampaign and unfreezeCampaign *)
ToggleCampaign ==
    /\ "freeze" \in Active
    /\ campaign' = IF campaign = "active" THEN "paused" ELSE "active"
    /\ TransitionAllowed(campaignTransitions, campaign, campaign', "admin")
    /\ UNCHANGED <<spent, target, been, postJob, overdue, escrow, ledger, markers,
                   balance, enabled, locks, pc, req>>

FlipSwitch(key) ==
    /\ key \in Toggles
    /\ enabled' = [enabled EXCEPT ![key] = ~@]
    /\ UNCHANGED <<campaign, spent, target, been, postJob, overdue, escrow, ledger,
                   markers, balance, locks, pc, req>>

BecomeOverdue(t) ==
    /\ "delay" \in Active
    /\ postJob[t] # "none"
    /\ overdue' = [overdue EXCEPT ![t] = TRUE]
    /\ UNCHANGED <<campaign, spent, target, been, postJob, escrow, ledger, markers,
                   balance, enabled, locks, pc, req>>

-----------------------------------------------------------------------------
(* The scenario the repository's integration tests start from: an active     *)
(* campaign, submitted targets with a queued post job, no escrow yet.        *)
Init ==
    /\ campaign = "active"
    /\ spent = 0
    /\ target = [t \in Targets |-> "submitted"]
    /\ been = [t \in Targets |-> {"submitted"}]
    /\ postJob \in [Targets -> {"none", "queued"}]
    /\ overdue = [t \in Targets |-> FALSE]
    /\ escrow = [t \in Targets |-> "none"]
    /\ ledger = {}
    /\ markers = {}
    /\ balance = [w \in Wallets |-> OpeningBalance(w)]
    /\ enabled = [k \in KillSwitchKey |-> TRUE]
    /\ escLock = [t \in Targets |-> NoCall]
    /\ jobLock = [t \in Targets |-> NoCall]
    /\ pc = [c \in Calls |-> "idle"]
    /\ req = [c \in Calls |-> NoRequest]

Start(c, t) ==
    \/ HoldEscrow(c, t)
    \/ TakeJob(c, t)
    \/ RecoverSent(c, t) \/ RecoverExhausted(c, t) \/ RecoverStalled(c, t)
    \/ WatchdogRefund(c, t)
    \/ AdminRelease(c, t) \/ AdminRefund(c, t) \/ AdminRetryPost(c, t)

Continue(c) ==
    \/ WorkerSucceeds(c) \/ WorkerGivesUp(c) \/ WorkerRetries(c) \/ WorkerStops(c)
    \/ FindEscrow(c) \/ CheckTarget(c) \/ CheckBalance(c) \/ Hold(c)
    \/ LockJob(c) \/ Requeue(c)
    \/ CheckSwitch(c) \/ LockEscrow(c) \/ AlreadyDone(c) \/ CheckOutcome(c)
    \/ PayOut(c) \/ GiveBack(c)

Environment ==
    \/ ToggleCampaign
    \/ \E key \in KillSwitchKey : FlipSwitch(key)
    \/ \E t \in Targets : MoveTarget(t) \/ BecomeOverdue(t)

Next ==
    \/ \E c \in Calls : Crash(c) \/ Continue(c) \/ \E t \in Targets : Start(c, t)
    \/ Environment

Spec == Init /\ [][Next]_vars

(* Postgres serves the waiters of a row lock in turn, so a waiting statement *)
(* is not overtaken for ever; every other statement just runs.  So does the  *)
(* worker's delivery: a Telegram call has a timeout and a bounded number of  *)
(* attempts.                                                                 *)
Fairness == \A c \in Calls :
    WF_vars(Continue(c)) /\ SF_vars(LockJob(c)) /\ SF_vars(LockEscrow(c) \/ AlreadyDone(c))

FairSpec == Spec /\ Fairness

-----------------------------------------------------------------------------
(* Properties *)

(* Every variable keeps its type. *)
TypeOK ==
    /\ campaign \in CampaignStatus
    /\ spent \in Nat
    /\ target \in [Targets -> CampaignTargetStatus]
    /\ been \in [Targets -> SUBSET CampaignTargetStatus]
    /\ postJob \in [Targets -> PostJobStatus \cup {"none"}]
    /\ overdue \in [Targets -> BOOLEAN]
    /\ escrow \in [Targets -> EscrowStatus \cup {"none"}]
    /\ ledger \subseteq LedgerKeys
    /\ markers \subseteq {"release", "refund"} \X Targets
    /\ balance \in [Wallets -> Int]
    /\ enabled \in [KillSwitchKey -> BOOLEAN]
    /\ escLock \in [Targets -> Calls \cup {NoCall}]
    /\ jobLock \in [Targets -> Calls \cup {NoCall}]
    /\ pc \in [Calls -> Step]
    /\ req \in [Calls -> Request \cup {NoRequest}]
    /\ \A c \in Calls : pc[c] # "idle" => req[c] \in Request

(* However release and refund of a target interleave, retry or are cut off,  *)
(* its money goes to the publisher or back to the advertiser, never both,    *)
(* and never without having been held (escrow.service.ts, release / refund). *)
PaidOutOnce == \A t \in Targets :
    /\ ~ (Key("payout", t) \in ledger /\ Key("refund", t) \in ledger)
    /\ Key("commission", t) \in ledger => Key("payout", t) \in ledger
    /\ Key("payout", t) \in ledger \/ Key("refund", t) \in ledger =>
           Key("hold", t) \in ledger

(* Escrow row, ledger and operation markers tell the same story: no partial  *)
(* transaction is ever left behind.                                          *)
EscrowMatchesLedger == \A t \in Targets :
    /\ escrow[t] # "none" <=> Key("hold", t) \in ledger
    /\ escrow[t] = "released" <=> Key("payout", t) \in ledger
    /\ escrow[t] = "released" <=> <<"release", t>> \in markers
    /\ escrow[t] = "refunded" <=> Key("refund", t) \in ledger
    /\ escrow[t] = "refunded" <=> <<"refund", t>> \in markers

(* Money moves only for a target that has got there: an escrow is released    *)
(* only if its target was approved, refunded only if it had failed, although *)
(* other services write the target's status by id over whatever it is and    *)
(* callers settle again what was settled (lifecycle.ts,                      *)
(* assertCampaignTargetTransition in release and refund).                    *)
SettledWasReady == \A t \in Targets :
    /\ escrow[t] = "released" => "approved" \in been[t]
    /\ escrow[t] = "refunded" => "failed" \in been[t]

(* From lockEscrow to its commit a call owns the row lock and the escrow is   *)
(* held: what it has asserted about the escrow cannot go stale before it     *)
(* pays, whatever others commit or roll back in between.                     *)
LockGuards == \A c \in Calls : pc[c] \in {"check", "pay"} =>
    /\ escLock[req[c].target] = c
    /\ escrow[req[c].target] = "held"

(* Post job first, then escrow, is the order every caller locks in, and the   *)
(* end of a call frees what it holds: whoever waits for a row lock waits,    *)
(* over at most one other that waits, for a call that can go on.             *)
Waits(c) ==
    \/ pc[c] = "job" /\ jobLock[req[c].target] # NoCall
    \/ pc[c] = "lock" /\ escLock[req[c].target] # NoCall

Holder(c) == IF pc[c] = "job" THEN jobLock[req[c].target] ELSE escLock[req[c].target]

Runs(c) == pc[c] # "idle" /\ ~ Waits(c)

WaitsEnd == \A c \in Calls : Waits(c) =>
    Runs(Holder(c)) \/ (Waits(Holder(c)) /\ Runs(Holder(Holder(c))))

(* Each wallet's balance is the sum of its ledger entries, the condition the *)
(* ledger watchdog alarms on.                                                *)
BalanceIsLedger == \A w \in Wallets : LedgerMatchesWallet(w)

(* No money appears or is lost: the three wallets and what is held in escrow *)
(* always add up to the opening balance.                                     *)
MoneyConserved ==
    Opening = balance["advertiser"] + balance["publisher"] + balance["platform"]
              + Total(Price, {t \in Targets : escrow[t] = "held"})

(* campaign.spentBudget is what was released, however many releases of the   *)
(* campaign's targets commit side by side.                                   *)
SpentIsReleased ==
    spent = Total(Price, {t \in Targets : escrow[t] = "released"})

(* The books of a campaign's targets that share a wallet and a budget add up.  *)
BooksBalance == BalanceIsLedger /\ MoneyConserved /\ SpentIsReleased

(* A payout is committed only over a post job that is success at that very   *)
(* moment, or by an admin, however stale the caller's first read was.        *)
PayoutNeedsPost == [][\A t \in Targets :
    Key("payout", t) \in ledger' \ ledger =>
        \/ postJob'[t] = "success"
        \/ \E c \in Calls : req[c] # NoRequest /\ req[c].actor = "admin"
                             /\ req[c].target = t /\ pc[c] = "pay" /\ pc'[c] = "idle"]_vars

(* Read off the ledger, the escrow does what it promises: every wallet        *)
(* movement belongs to exactly one hold, payout or refund of a target, in    *)
(* that order and never twice, with stale reads, retries and crashes.        *)
Place(t) ==
    IF Key("payout", t) \in ledger THEN "paid"
    ELSE IF Key("refund", t) \in ledger THEN "returned"
    ELSE IF Key("hold", t) \in ledger THEN "escrow"
    ELSE "advertiser"

Promise == INSTANCE EscrowPromise WITH place <- [t \in Targets |-> Place(t)]

KeepsPromise == Promise!Spec

(* Every call ends: no lock is leaked, and the post job lock taken before    *)
(* the escrow lock never makes two transactions wait for each other.         *)
EveryCallEnds == \A c \in Calls : pc[c] # "idle" ~> pc[c] = "idle"

(* What a call is doing at each of its steps *)
StepFitsOperation == \A c \in Calls :
    /\ pc[c] = "job" => req[c].op \in {"release", "refund", "requeue"}
    /\ pc[c] = "switch" => req[c].op = "release"
    /\ pc[c] \in {"lock", "check", "pay"} => req[c].op \in {"release", "refund"}
    /\ pc[c] \in {"job", "switch", "lock", "check", "pay"} /\ req[c].op = "release" =>
           req[c].actor = "admin" \/ req[c].sets = "success"

(* Where a call is while it holds a row lock *)
LocksHeld == \A t \in Targets :
    /\ escLock[t] # NoCall => pc[escLock[t]] \in {"check", "pay"}
    /\ jobLock[t] # NoCall => pc[jobLock[t]] \in {"requeue", "switch", "lock", "check", "pay"}

CommissionWithPayout == \A t \in Targets :
    Key("commission", t) \in ledger => Key("payout", t) \in ledger

(* What a target's history has to do with what is done to it: a status comes   *)
(* after the one the table demands before it, and so does a payment.         *)
HistoryFits ==
    /\ \A t \in Targets :
        /\ target[t] \in been[t]
        /\ "posted" \in been[t] => "approved" \in been[t]
        /\ "refunded" \in been[t] => "failed" \in been[t]
    /\ \A c \in Calls : pc[c] = "pay" =>
        /\ req[c].op = "release" => "approved" \in been[req[c].target]
        /\ req[c].op = "refund" => "failed" \in been[req[c].target]

(* The inductive invariant of the proofs *)
IInv == /\ TypeOK
        /\ StepFitsOperation
        /\ LockGuards
        /\ EscrowMatchesLedger
        /\ CommissionWithPayout
        /\ HistoryFits
        /\ SettledWasReady
=============================================================================
