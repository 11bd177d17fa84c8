---------------------------- MODULE PaymentIntents ----------------------------
(***************************************************************************)
(* Deposits and withdrawals of one wallet through the payment provider:     *)
(* PaymentsService.createDepositIntent, createWithdrawalIntent, the webhook *)
(* handlers finalizeDepositIntent / finalizeWithdrawalIntent and the        *)
(* reconciliation by cron and by admins.                                    *)
(*                                                                          *)
(* An intent is its idempotency key.  No call locks a row: a call in flight *)
(* is a slot c of Calls whose reads are steps of their own, and whose       *)
(* writes are one action, the commit.  Webhooks may be lost, repeated, late *)
(* and out of order, and the code has no way to tell what they stand for:   *)
(* any signed message may arrive at any time, about any intent.             *)
(*                                                                          *)
(* X_Suffix is a wrong variant of X, kept to show that a property would     *)
(* notice it.                                                               *)
(***************************************************************************)
EXTENDS Integers, FiniteSets

CONSTANTS
    Deposits, Withdrawals,  \* the intents
    Calls,          \* calls that may be in flight at once
    Txns,           \* the provider's transaction ids
    NoTxn,          \* none stored
    Empty,          \* the id '' of a message without one
    NoRequest,      \* what a free slot is working on
    Amount,         \* of each intent
    Batch,          \* how many intents one run of the cron takes
    Told            \* the intents that webhooks are sent about

Intents == Deposits \cup Withdrawals
PaymentIntentStatus == {"pending", "succeeded", "failed"}
TxnId == Txns \cup {NoTxn, Empty}
Step == {"idle", "create", "invoice", "answer", "find", "txn", "locked", "ledger", "commit"}

(* What a call works on; seen is what it has read and still relies on: that   *)
(* the wallet exists, later that the ledger entry does.                      *)
Request == [intent : Intents, txn : TxnId, ok : BOOLEAN, seen : BOOLEAN]

ASSUME IntentAssumption == Deposits \cap Withdrawals = {} /\ IsFiniteSet(Intents)
ASSUME AmountAssumption == Amount \in [Intents -> Nat \ {0}]
ASSUME RequestAssumption == NoRequest \notin Request
ASSUME TxnAssumption == Txns \cap {NoTxn, Empty} = {} /\ NoTxn # Empty
ASSUME BatchAssumption == Batch \in Nat
ASSUME ToldAssumption == Told \subseteq Intents

VARIABLES
    status,     \* of each intent, "none" while there is no row
    txn,        \* providerTxnId of each intent
    age,        \* rank of each intent's createdAt in its table
    hasWallet,  \* the user's wallet exists
    balance,    \* wallet.balance
    ledger,     \* intents whose entry deposit_intent:id / withdrawal_intent:id exists
    invoiced,   \* the provider has an invoice for the deposit
    paid,       \* the provider's transaction that has paid the intent
    pc, req     \* the calls in flight

rows == <<status, txn, age, hasWallet, balance, ledger>>
provider == <<invoiced, paid>>
vars == <<rows, provider, pc, req>>

-----------------------------------------------------------------------------
(* Wallet and ledger *)

Change == [i \in Intents |-> IF i \in Deposits THEN Amount[i] ELSE -Amount[i]]

SameTable(i) == IF i \in Deposits THEN Deposits ELSE Withdrawals

(* the unique key [provider, providerTxnId], where '' is an id like others   *)
TxnTaken(i, x) == \E j \in SameTable(i) \ {i} : txn[j] = x
DuplicateTxn_Allowed(c) == FALSE
DuplicateTxn(c) == TxnTaken(req[c].intent, req[c].txn)

(* the unique idempotencyKey of the ledger                                    *)
DuplicateEntry_Allowed(c) == FALSE
DuplicateEntry(c) == req[c].intent \in ledger

-----------------------------------------------------------------------------
(* Calls *)

Start(c, first, i, x, ok) ==
    /\ pc[c] = "idle"
    /\ pc' = [pc EXCEPT ![c] = first]
    /\ req' = [req EXCEPT ![c] = [intent |-> i, txn |-> x, ok |-> ok, seen |-> hasWallet]]
    /\ UNCHANGED <<rows, provider>>

Goto(c, step) ==
    /\ pc' = [pc EXCEPT ![c] = step]
    /\ UNCHANGED req

Free(c) ==
    /\ pc' = [pc EXCEPT ![c] = "idle"]
    /\ req' = [req EXCEPT ![c] = NoRequest]

End(c) == Free(c) /\ UNCHANGED provider

(* A return or throw before anything is written *)
Leave(c) == End(c) /\ UNCHANGED rows

Require(c, condition, next) ==
    IF condition THEN Goto(c, next) /\ UNCHANGED <<rows, provider>>
                 ELSE Leave(c)

(* The process dies, or an await is given up: an open transaction rolls back. *)
Abort(c) ==
    /\ pc[c] # "idle"
    /\ Free(c)
    /\ UNCHANGED <<rows, provider>>

-----------------------------------------------------------------------------
(* createDepositIntent and createWithdrawalIntent *)

(* A repeated request finds its intent, whatever has become of it, and asks   *)
(* for an invoice again.                                                     *)
CreateDeposit(c, i) ==
    Start(c, IF status[i] = "none" THEN "create" ELSE "invoice", i, NoTxn, TRUE)

CreateWithdrawal(c, i) ==
    /\ status[i] = "none"
    /\ hasWallet
    /\ balance >= Amount[i]
    /\ Start(c, "create", i, NoTxn, TRUE)

(* Both creates meet a unique key if another call was faster: the intent's    *)
(* idempotency key, and the user of a wallet that was not there when read.   *)
Create_Invoiced(c) ==
    /\ pc[c] = "create"
    /\ status[req[c].intent] = "none"
    /\ status' = [status EXCEPT ![req[c].intent] = "pending"]
    /\ Goto(c, "invoice")
    /\ UNCHANGED <<txn, age, hasWallet, balance, ledger, provider>>
Create(c) ==
    LET i == req[c].intent IN
    /\ pc[c] = "create"
    /\ IF status[i] # "none" \/ (hasWallet /\ ~ req[c].seen)
       THEN Leave(c)
       ELSE /\ status' = [status EXCEPT ![i] = "pending"]
            /\ age' = [age EXCEPT ![i] = Cardinality({j \in SameTable(i) : status[j] # "none"})]
            /\ hasWallet' = TRUE
            /\ IF i \in Deposits THEN Goto(c, "invoice") ELSE Free(c)
            /\ UNCHANGED <<txn, balance, ledger, provider>>

(* createInvoice reaches the provider; whether its answer gets back in time   *)
(* and whole is another matter.                                              *)
ProviderInvoices(c) ==
    /\ pc[c] = "invoice"
    /\ invoiced' = invoiced \cup {req[c].intent}
    /\ Goto(c, "answer")
    /\ UNCHANGED <<rows, paid>>

(* the answer with its url is stored, over any status *)
StoreInvoice(c) == pc[c] = "answer" /\ Leave(c)

(* An error, a timeout or an answer without url: the intent is failed by id,  *)
(* over any status.                                                          *)
InvoiceFails(c) ==
    /\ pc[c] \in {"invoice", "answer"}
    /\ status' = [status EXCEPT ![req[c].intent] = "failed"]
    /\ End(c)
    /\ UNCHANGED <<txn, age, hasWallet, balance, ledger>>

-----------------------------------------------------------------------------
(* finalizeDepositIntent and finalizeWithdrawalIntent *)

Findable(i) == status[i] \notin {"none", "succeeded"}

(* A signed message with the intent's amount, of a payment made (error 0,      *)
(* whatever its action is) or declined; it begins with the read that         *)
(* reconciliation comes to later.                                            *)
Webhook(c, i, x, ok) ==
    /\ i \in Told
    /\ x # NoTxn
    /\ Findable(i)
    /\ Start(c, "txn", i, x, ok)

FindIntent(c) ==
    /\ pc[c] = "find"
    /\ Require(c, Findable(req[c].intent), "txn")

FindTxn(c) ==
    /\ pc[c] = "txn"
    /\ Require(c, req[c].txn = Empty \/ ~ TxnTaken(req[c].intent, req[c].txn), "locked")

(* The second read, in the transaction, is called locked but locks nothing.   *)
ReadAgain(c) ==
    /\ pc[c] = "locked"
    /\ Require(c, status[req[c].intent] # "succeeded",
               IF req[c].ok THEN "ledger" ELSE "commit")

Having(c, entry) ==
    [intent |-> req[c].intent, txn |-> req[c].txn, ok |-> req[c].ok, seen |-> entry]

(* recordWalletMovement: an entry already there is left at that, a debit      *)
(* above the balance is refused.                                             *)
ReadLedger_Assumed(c) ==
    /\ pc[c] = "ledger"
    /\ pc' = [pc EXCEPT ![c] = "commit"]
    /\ req' = [req EXCEPT ![c] = Having(c, txn[req[c].intent] # NoTxn)]
    /\ UNCHANGED <<rows, provider>>
ReadLedger(c) ==
    LET i == req[c].intent IN
    /\ pc[c] = "ledger"
    /\ IF i \in ledger \/ balance + Change[i] >= 0 \/ i \in Deposits
       THEN /\ pc' = [pc EXCEPT ![c] = "commit"]
            /\ req' = [req EXCEPT ![c] = Having(c, i \in ledger)]
            /\ UNCHANGED <<rows, provider>>
       ELSE Leave(c)

Written(c, outcome) ==
    /\ status' = [status EXCEPT ![req[c].intent] = outcome]
    /\ txn' = [txn EXCEPT ![req[c].intent] = req[c].txn]

Book(i) ==
    /\ ledger' = ledger \cup {i}
    /\ balance' = balance + Change[i]

Succeed(c) ==
    LET i == req[c].intent IN
    /\ pc[c] = "commit"
    /\ req[c].ok
    /\ IF DuplicateTxn(c) \/ (~ req[c].seen /\ DuplicateEntry(c))
       THEN Leave(c)
       ELSE /\ IF req[c].seen THEN UNCHANGED <<ledger, balance>> ELSE Book(i)
            /\ Written(c, "succeeded")
            /\ End(c)
            /\ UNCHANGED <<age, hasWallet>>

(* The status this write is based on may have become succeeded. *)
Fail(c) ==
    /\ pc[c] = "commit"
    /\ ~ req[c].ok
    /\ IF DuplicateTxn(c)
       THEN Leave(c)
       ELSE /\ Written(c, "failed")
            /\ End(c)
            /\ UNCHANGED <<age, hasWallet, balance, ledger>>

-----------------------------------------------------------------------------
(* Reconciliation *)

(* The intents one run of the cron takes: the oldest pending ones. *)
CronTakes(table) ==
    LET pending == {i \in table : status[i] = "pending"} IN
    {i \in pending : Cardinality({j \in pending : age[j] < age[i]}) < Batch}

(* reconcileDepositIntent / reconcileWithdrawalIntent: a paid pending intent  *)
(* is finalised with a payload of the system's own, whose transaction id is  *)
(* whatever the provider's status gives.                                     *)
Reconcile_Failed(c, i, x) ==
    /\ status[i] = "failed"
    /\ paid[i] # NoTxn
    /\ x \in {paid[i], Empty}
    /\ Start(c, "find", i, x, TRUE)

Reconcile(c, i, x) ==
    /\ status[i] = "pending"
    /\ paid[i] # NoTxn
    /\ x \in {paid[i], Empty}
    /\ Start(c, "find", i, x, TRUE)

CronReconciles(c, i, x) == i \in CronTakes(SameTable(i)) /\ Reconcile(c, i, x)

-----------------------------------------------------------------------------
(* The provider: the payer pays an invoice, or the operator a withdrawal, and *)
(* the provider knows it by a transaction id.                                *)
Known(i) == IF i \in Deposits THEN i \in invoiced ELSE status[i] # "none"

Pay(i, x) ==
    /\ paid[i] = NoTxn
    /\ Known(i)
    /\ paid' = [paid EXCEPT ![i] = x]
    /\ UNCHANGED <<rows, invoiced, pc, req>>

-----------------------------------------------------------------------------
Init ==
    /\ status = [i \in Intents |-> "none"]
    /\ txn = [i \in Intents |-> NoTxn]
    /\ age = [i \in Intents |-> 0]
    /\ hasWallet \in BOOLEAN
    /\ balance = 0
    /\ ledger = {}
    /\ invoiced = {}
    /\ paid = [i \in Intents |-> NoTxn]
    /\ pc = [c \in Calls |-> "idle"]
    /\ req = [c \in Calls |-> NoRequest]

Ask(c) ==
    \/ \E i \in Deposits : CreateDeposit(c, i)
    \/ \E i \in Withdrawals : CreateWithdrawal(c, i)
    \/ \E i \in Intents, x \in TxnId, ok \in BOOLEAN : Webhook(c, i, x, ok)
    \/ \E i \in Intents, x \in TxnId : Reconcile(c, i, x)

Open(c) == Create(c) \/ ProviderInvoices(c) \/ StoreInvoice(c) \/ InvoiceFails(c)

Finalize(c) ==
    \/ FindIntent(c) \/ FindTxn(c) \/ ReadAgain(c) \/ ReadLedger(c)
    \/ Succeed(c) \/ Fail(c)

Next ==
    \/ \E c \in Calls : Ask(c) \/ Open(c) \/ Finalize(c) \/ Abort(c)
    \/ \E i \in Intents, x \in Txns : Pay(i, x)

Spec == Init /\ [][Next]_vars

(* c carries the news that i is paid, with the transaction's id or without *)
Carries(c, i) ==
    /\ req[c] # NoRequest
    /\ req[c].intent = i
    /\ req[c].ok
    /\ req[c].txn \in {paid[i], Empty}

(* A call that can go on does: no step waits for anything but the provider,   *)
(* whose answer a timeout replaces; and not every call about a paid deposit  *)
(* dies at the same step.  The cron runs every ten minutes and comes to each *)
(* intent it takes; it finds a free slot sooner or later.  Whether the       *)
(* provider's answer has the transaction's id nobody promises.               *)
FairSpec ==
    /\ Spec
    /\ \A c \in Calls : WF_vars(Open(c) \/ Finalize(c))
    /\ \A i \in Deposits :
        /\ SF_vars(\E c \in Calls, x \in TxnId : CronReconciles(c, i, x))
        /\ SF_vars(\E c \in Calls : Carries(c, i) /\ FindIntent(c))
        /\ SF_vars(\E c \in Calls : Carries(c, i) /\ FindTxn(c))
        /\ SF_vars(\E c \in Calls : Carries(c, i) /\ ReadAgain(c))
        /\ SF_vars(\E c \in Calls : Carries(c, i) /\ ReadLedger(c))
        /\ SF_vars(\E c \in Calls : Carries(c, i) /\ Succeed(c))

-----------------------------------------------------------------------------
(* Properties *)

TypeOK ==
    /\ status \in [Intents -> PaymentIntentStatus \cup {"none"}]
    /\ txn \in [Intents -> TxnId]
    /\ age \in [Intents -> Nat]
    /\ hasWallet \in BOOLEAN
    /\ balance \in Int
    /\ ledger \subseteq Intents
    /\ invoiced \subseteq Deposits
    /\ paid \in [Intents -> Txns \cup {NoTxn}]
    /\ pc \in [Calls -> Step]
    /\ req \in [Calls -> Request \cup {NoRequest}]
    /\ \A c \in Calls : pc[c] # "idle" => req[c] # NoRequest

(* A succeeded intent has its entry in the ledger, although failures and       *)
(* successes of one intent overwrite each other's status in any order.       *)
SucceededIsBooked == \A i \in Intents : status[i] = "succeeded" => i \in ledger

(* Two succeeded intents never share the provider's transaction: the look at   *)
(* the other intents comes before the transaction, and may be stale by then.  *)
OneIntentPerTxn == \A i \in Intents : \A j \in SameTable(i) \ {i} :
    status[i] = "succeeded" /\ status[j] = "succeeded" => txn[i] # txn[j]

(* The wallet moves only for intents that were asked for, by the amount asked  *)
(* for, once each: whatever is repeated, late or lost in between.            *)
Promise == INSTANCE PaymentPromise
    WITH asked <- {i \in Intents : status[i] # "none"}, booked <- ledger

KeepsPromise == Promise!Spec

(* A paid deposit the cron has in its batch does not stay pending for ever,    *)
(* even if every webhook is lost, unless the id that comes with the news, ''  *)
(* if the provider's answer has none, is stored with another deposit.        *)
PaidIsSettled == \A i \in Deposits :
    (paid[i] # NoTxn /\ i \in CronTakes(Deposits)) ~>
        \/ status[i] # "pending"
        \/ \E c \in Calls : Carries(c, i) /\ TxnTaken(i, req[c].txn)

(* What a call in flight still relies on stays true, whatever others commit:  *)
(* the intent it is about, an entry it has found.                            *)
CallFits == \A c \in Calls :
    /\ pc[c] \in {"invoice", "answer"} => req[c].intent \in Deposits
    /\ pc[c] \notin {"idle", "create"} => status[req[c].intent] # "none"
    /\ pc[c] = "ledger" => req[c].ok
    /\ pc[c] = "commit" /\ req[c].ok /\ req[c].seen => req[c].intent \in ledger

(* The inductive invariant of the proofs *)
IInv == TypeOK /\ CallFits /\ SucceededIsBooked /\ OneIntentPerTxn
=============================================================================
