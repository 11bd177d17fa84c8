----------------------- MODULE PaymentIntents_proofs -----------------------
(***************************************************************************)
(* Proofs about PaymentIntents, for every finite set of intents and every   *)
(* set of calls in flight, transaction ids and amounts.                     *)
(***************************************************************************)
EXTENDS PaymentIntents, FiniteSetTheorems, TLAPS

Finalizing == {"find", "txn", "locked", "ledger", "commit"}

(* A call that starts, with a request that fits its first step, keeps IInv. *)
LEMMA StartKeeps ==
    ASSUME IInv, NEW c \in Calls, NEW first \in {"create", "invoice", "find", "txn"},
           NEW i \in Intents, NEW x \in TxnId, NEW ok \in BOOLEAN,
           first = "invoice" => i \in Deposits,
           first # "create" => status[i] # "none",
           Start(c, first, i, x, ok)
    PROVE  IInv'
<1> DEFINE r == [intent |-> i, txn |-> x, ok |-> ok, seen |-> hasWallet]
<1>1. /\ pc' = [pc EXCEPT ![c] = first]
      /\ req' = [req EXCEPT ![c] = r]
      /\ UNCHANGED <<rows, provider>>
  BY DEF Start
<1>2. r \in Request
  BY DEF Request, IInv, TypeOK
<1>3. TypeOK'
  BY <1>1, <1>2, RequestAssumption DEF IInv, TypeOK, rows, provider, Step
<1>4. CallFits'
  BY <1>1 DEF IInv, TypeOK, CallFits, rows, provider, Finalizing
<1>5. SucceededIsBooked' /\ OneIntentPerTxn'
  BY <1>1 DEF IInv, SucceededIsBooked, OneIntentPerTxn, rows, provider
<1> QED
  BY <1>3, <1>4, <1>5 DEF IInv

(* So does one that ends without a write. *)
LEMMA FreeKeeps ==
    ASSUME IInv, NEW c \in Calls, Free(c), UNCHANGED <<rows, provider>>
    PROVE  IInv'
<1>1. /\ pc' = [pc EXCEPT ![c] = "idle"]
      /\ req' = [req EXCEPT ![c] = NoRequest]
      /\ UNCHANGED <<rows, provider>>
  BY DEF Free
<1>2. TypeOK'
  BY <1>1 DEF IInv, TypeOK, rows, provider, Step
<1>3. CallFits'
  BY <1>1 DEF IInv, TypeOK, CallFits, rows, provider
<1>4. SucceededIsBooked' /\ OneIntentPerTxn'
  BY <1>1 DEF IInv, SucceededIsBooked, OneIntentPerTxn, rows, provider
<1> QED
  BY <1>2, <1>3, <1>4 DEF IInv

LEMMA LeaveKeeps ==
    ASSUME IInv, NEW c \in Calls, Leave(c)
    PROVE  IInv'
BY FreeKeeps DEF Leave, End

(* So does one that goes on to a step that asks no more of it. *)
LEMMA GotoKeeps ==
    ASSUME IInv, NEW c \in Calls, NEW step \in Finalizing,
           pc[c] \in Finalizing,
           step = "ledger" => req[c].ok, step = "commit" => ~ req[c].ok,
           Goto(c, step), UNCHANGED <<rows, provider>>
    PROVE  IInv'
<1>1. pc' = [pc EXCEPT ![c] = step] /\ req' = req /\ UNCHANGED <<rows, provider>>
  BY DEF Goto
<1>2. TypeOK'
  BY <1>1 DEF IInv, TypeOK, rows, provider, Finalizing, Step
<1>3. CallFits'
  BY <1>1 DEF IInv, TypeOK, CallFits, rows, provider, Finalizing
<1>4. SucceededIsBooked' /\ OneIntentPerTxn'
  BY <1>1 DEF IInv, SucceededIsBooked, OneIntentPerTxn, rows, provider
<1> QED
  BY <1>2, <1>3, <1>4 DEF IInv

LEMMA RequestType ==
    ASSUME TypeOK, NEW c \in Calls, pc[c] # "idle"
    PROVE  /\ req[c] \in Request
           /\ req[c].intent \in Intents /\ req[c].txn \in TxnId
           /\ req[c].ok \in BOOLEAN /\ req[c].seen \in BOOLEAN
BY DEF TypeOK, Request

-----------------------------------------------------------------------------
(* One lemma for each part of Next *)

LEMMA AskKeeps ==
    ASSUME IInv, NEW c \in Calls, Ask(c)
    PROVE  IInv'
<1> USE DEF Finalizing
<1>1. CASE \E i \in Deposits : CreateDeposit(c, i)
  BY <1>1, StartKeeps DEF CreateDeposit, Intents, TxnId
<1>2. CASE \E i \in Withdrawals : CreateWithdrawal(c, i)
  BY <1>2, StartKeeps DEF CreateWithdrawal, Intents, TxnId
<1>3. CASE \E i \in Intents, x \in TxnId, ok \in BOOLEAN : Webhook(c, i, x, ok)
  BY <1>3, StartKeeps DEF Webhook, Findable
<1>4. CASE \E i \in Intents, x \in TxnId : Reconcile(c, i, x)
  BY <1>4, StartKeeps DEF Reconcile
<1> QED
  BY <1>1, <1>2, <1>3, <1>4 DEF Ask

LEMMA CreateKeeps ==
    ASSUME IInv, NEW c \in Calls, Create(c)
    PROVE  IInv'
<1> DEFINE i == req[c].intent
<1>1. CASE Leave(c)
  BY <1>1, LeaveKeeps
<1>2. CASE ~ Leave(c)
  <2>1. /\ pc[c] = "create" /\ status[i] = "none"
        /\ status' = [status EXCEPT ![i] = "pending"]
        /\ age' = [age EXCEPT ![i] = Cardinality({j \in SameTable(i) : status[j] # "none"})]
        /\ hasWallet' = TRUE
        /\ IF i \in Deposits THEN Goto(c, "invoice") ELSE Free(c)
        /\ UNCHANGED <<txn, balance, ledger, provider>>
    BY <1>2 DEF Create
  <2>2. req[c] \in Request /\ i \in Intents
    BY <2>1, RequestType DEF IInv
  <2>3. Cardinality({j \in SameTable(i) : status[j] # "none"}) \in Nat
    <3>1. {j \in SameTable(i) : status[j] # "none"} \subseteq Intents
      BY DEF SameTable, Intents
    <3> QED
      BY <3>1, IntentAssumption, FS_Subset, FS_CardinalityType
  <2>4. TypeOK'
    BY <2>1, <2>2, <2>3 DEF IInv, TypeOK, Goto, Free, provider, Step, PaymentIntentStatus
  <2>5. CallFits'
    BY <2>1, <2>2 DEF IInv, TypeOK, CallFits, Goto, Free, provider
  <2>6. SucceededIsBooked' /\ OneIntentPerTxn'
    BY <2>1, <2>2 DEF IInv, TypeOK, SucceededIsBooked, OneIntentPerTxn,
                      provider, SameTable, Intents
  <2> QED
    BY <2>4, <2>5, <2>6 DEF IInv
<1> QED
  BY <1>1, <1>2

LEMMA InvoiceKeeps ==
    ASSUME IInv, NEW c \in Calls,
           ProviderInvoices(c) \/ StoreInvoice(c) \/ InvoiceFails(c)
    PROVE  IInv'
<1> DEFINE i == req[c].intent
<1>0. pc[c] \in {"invoice", "answer"} /\ i \in Deposits /\ i \in Intents
  BY DEF IInv, CallFits, ProviderInvoices, StoreInvoice, InvoiceFails, Intents
<1>1. CASE ProviderInvoices(c)
  <2>1. /\ invoiced' = invoiced \cup {i}
        /\ pc' = [pc EXCEPT ![c] = "answer"] /\ req' = req
        /\ UNCHANGED <<rows, paid>>
    BY <1>1 DEF ProviderInvoices, Goto
  <2>2. TypeOK'
    BY <1>0, <2>1 DEF IInv, TypeOK, rows, Step
  <2>3. CallFits' /\ SucceededIsBooked' /\ OneIntentPerTxn'
    BY <1>0, <2>1 DEF IInv, TypeOK, CallFits, SucceededIsBooked,
                      OneIntentPerTxn, rows
  <2> QED
    BY <2>2, <2>3 DEF IInv
<1>2. CASE StoreInvoice(c)
  BY <1>2, LeaveKeeps DEF StoreInvoice
<1>3. CASE InvoiceFails(c)
  <2>1. /\ status' = [status EXCEPT ![i] = "failed"]
        /\ pc' = [pc EXCEPT ![c] = "idle"]
        /\ req' = [req EXCEPT ![c] = NoRequest]
        /\ UNCHANGED <<txn, age, hasWallet, balance, ledger, provider>>
    BY <1>3 DEF InvoiceFails, End, Free
  <2>2. TypeOK'
    BY <1>0, <2>1 DEF IInv, TypeOK, provider, Step, PaymentIntentStatus
  <2>3. CallFits'
    BY <2>1 DEF IInv, TypeOK, CallFits, provider
  <2>4. SucceededIsBooked' /\ OneIntentPerTxn'
    BY <1>0, <2>1 DEF IInv, TypeOK, SucceededIsBooked, OneIntentPerTxn,
                      provider, SameTable, Intents
  <2> QED
    BY <2>2, <2>3, <2>4 DEF IInv
<1> QED
  BY <1>1, <1>2, <1>3

LEMMA ReadsKeep ==
    ASSUME IInv, NEW c \in Calls, FindIntent(c) \/ FindTxn(c) \/ ReadAgain(c)
    PROVE  IInv'
<1> USE DEF Finalizing
<1>1. CASE FindIntent(c)
  BY <1>1, GotoKeeps, LeaveKeeps DEF FindIntent, Require
<1>2. CASE FindTxn(c)
  BY <1>2, GotoKeeps, LeaveKeeps DEF FindTxn, Require
<1>3. CASE ReadAgain(c)
  <2> DEFINE next == IF req[c].ok THEN "ledger" ELSE "commit"
  <2>1. pc[c] = "locked" /\ ((Goto(c, next) /\ UNCHANGED <<rows, provider>>) \/ Leave(c))
    BY <1>3 DEF ReadAgain, Require
  <2>2. next \in Finalizing /\ (next = "ledger" => req[c].ok) /\ (next = "commit" => ~ req[c].ok)
    OBVIOUS
  <2> HIDE DEF next
  <2> QED
    BY <2>1, <2>2, GotoKeeps, LeaveKeeps
<1> QED
  BY <1>1, <1>2, <1>3

LEMMA ReadLedgerKeeps ==
    ASSUME IInv, NEW c \in Calls, ReadLedger(c)
    PROVE  IInv'
<1> DEFINE i == req[c].intent
           found == i \in ledger
<1>1. CASE Leave(c)
  BY <1>1, LeaveKeeps
<1>2. CASE ~ Leave(c)
  <2>1. /\ pc[c] = "ledger"
        /\ pc' = [pc EXCEPT ![c] = "commit"]
        /\ req' = [req EXCEPT ![c] = Having(c, found)]
        /\ UNCHANGED <<rows, provider>>
    BY <1>2 DEF ReadLedger
  <2>2. req[c] \in Request
    BY <2>1, RequestType DEF IInv
  <2>3. /\ req'[c] \in Request
        /\ req'[c].intent = i /\ req'[c].ok = req[c].ok /\ req'[c].seen = found
        /\ \A d \in Calls \ {c} : req'[d] = req[d]
        /\ req' \in [Calls -> Request \cup {NoRequest}]
    <3> DEFINE r == Having(c, found)
    <3>0. req[c].intent \in Intents /\ req[c].txn \in TxnId /\ req[c].ok \in BOOLEAN
      BY <2>1, RequestType DEF IInv
    <3>1. r \in Request /\ r.intent = i /\ r.ok = req[c].ok /\ r.seen = found
      BY <3>0 DEF Request, Having
    <3>2. req' = [req EXCEPT ![c] = r]
      BY <2>1
    <3> HIDE DEF r
    <3>3. req \in [Calls -> Request \cup {NoRequest}]
      BY DEF IInv, TypeOK
    <3> QED
      BY <3>1, <3>2, <3>3
  <2>4. TypeOK'
    BY <2>1, <2>3, RequestAssumption DEF IInv, TypeOK, rows, provider, Step
  <2>5. CallFits'
    BY <2>1, <2>3 DEF IInv, TypeOK, CallFits, rows, provider
  <2>6. SucceededIsBooked' /\ OneIntentPerTxn'
    BY <2>1 DEF IInv, SucceededIsBooked, OneIntentPerTxn, rows, provider
  <2> QED
    BY <2>4, <2>5, <2>6 DEF IInv
<1> QED
  BY <1>1, <1>2

(* What a commit of either outcome does *)
LEMMA Commits ==
    ASSUME IInv, NEW c \in Calls, Succeed(c) \/ Fail(c), ~ Leave(c)
    PROVE  LET i == req[c].intent IN
           /\ pc[c] = "commit" /\ req[c] \in Request /\ i \in Intents
           /\ \A j \in SameTable(i) \ {i} : txn[j] # req[c].txn
           /\ txn' = [txn EXCEPT ![i] = req[c].txn]
           /\ pc' = [pc EXCEPT ![c] = "idle"]
           /\ req' = [req EXCEPT ![c] = NoRequest]
           /\ UNCHANGED <<age, hasWallet, provider>>
           /\ status[i] # "none"
           /\ \/ /\ status' = [status EXCEPT ![i] = "failed"]
                 /\ UNCHANGED <<ledger, balance>>
              \/ /\ status' = [status EXCEPT ![i] = "succeeded"]
                 /\ i \in ledger
                 /\ UNCHANGED <<ledger, balance>>
              \/ /\ status' = [status EXCEPT ![i] = "succeeded"]
                 /\ i \notin ledger
                 /\ ledger' = ledger \cup {i}
                 /\ balance' = balance + Change[i]
<1> DEFINE i == req[c].intent
<1>1. pc[c] = "commit" /\ req[c] \in Request /\ i \in Intents /\ status[i] # "none"
  BY RequestType DEF Succeed, Fail, IInv, CallFits
<1>2. ~ DuplicateTxn(c)
  BY DEF Succeed, Fail
<1>3. \A j \in SameTable(i) \ {i} : txn[j] # req[c].txn
  BY <1>2 DEF DuplicateTxn, TxnTaken
<1>4. CASE Fail(c)
  BY <1>1, <1>3, <1>4 DEF Fail, Written, End, Free
<1>5. CASE Succeed(c)
  <2>2. /\ Written(c, "succeeded") /\ End(c) /\ UNCHANGED <<age, hasWallet>>
        /\ IF req[c].seen THEN UNCHANGED <<ledger, balance>> ELSE Book(i)
        /\ req[c].ok
    BY <1>5, <1>2 DEF Succeed
  <2>3. CASE req[c].seen
    <3>1. i \in ledger
      BY <1>1, <2>2, <2>3 DEF IInv, CallFits
    <3> QED
      BY <1>1, <1>3, <2>2, <2>3, <3>1 DEF Written, End, Free
  <2>4. CASE ~ req[c].seen
    <3>1. i \notin ledger
      BY <1>5, <2>4 DEF Succeed, DuplicateEntry
    <3> QED
      BY <1>1, <1>3, <2>2, <2>4, <3>1 DEF Written, End, Free, Book
  <2> QED
    BY <2>3, <2>4
<1> QED
  BY <1>4, <1>5

LEMMA CommitKeeps ==
    ASSUME IInv, NEW c \in Calls, Succeed(c) \/ Fail(c)
    PROVE  IInv'
<1> DEFINE i == req[c].intent
<1>1. CASE Leave(c)
  BY <1>1, LeaveKeeps
<1>2. CASE ~ Leave(c)
  <2>1. /\ pc[c] = "commit" /\ req[c] \in Request /\ i \in Intents
        /\ \A j \in SameTable(i) \ {i} : txn[j] # req[c].txn
        /\ txn' = [txn EXCEPT ![i] = req[c].txn]
        /\ pc' = [pc EXCEPT ![c] = "idle"]
        /\ req' = [req EXCEPT ![c] = NoRequest]
        /\ UNCHANGED <<age, hasWallet, provider>>
    BY <1>2, Commits
  <2>2. \E s \in {"succeeded", "failed"} :
          /\ status' = [status EXCEPT ![i] = s]
          /\ ledger' \in {ledger, ledger \cup {i}}
          /\ s = "succeeded" => i \in ledger'
    BY <1>2, Commits
  <2>3. req[c].txn \in TxnId
    BY <2>1 DEF Request
  <2>4. balance' \in Int
    <3>1. balance' = balance \/ balance' = balance + Change[i]
      BY <1>2, Commits
    <3>2. Change[i] \in Int
      BY <2>1, AmountAssumption DEF Change
    <3> QED
      BY <3>1, <3>2 DEF IInv, TypeOK
  <2>5. TypeOK'
    BY <2>1, <2>2, <2>3, <2>4 DEF IInv, TypeOK, provider, Step, PaymentIntentStatus
  <2>6. CallFits'
    BY <2>1, <2>2 DEF IInv, TypeOK, CallFits, provider
  <2>7. SucceededIsBooked'
    BY <2>1, <2>2 DEF IInv, TypeOK, SucceededIsBooked, provider
  <2>8. OneIntentPerTxn'
    BY <2>1, <2>2, IntentAssumption DEF IInv, TypeOK, OneIntentPerTxn, SameTable, Intents
  <2> QED
    BY <2>5, <2>6, <2>7, <2>8 DEF IInv
<1> QED
  BY <1>1, <1>2

LEMMA PayKeeps ==
    ASSUME IInv, NEW i \in Intents, NEW x \in Txns, Pay(i, x)
    PROVE  IInv'
<1>1. /\ paid[i] = NoTxn /\ paid' = [paid EXCEPT ![i] = x]
      /\ UNCHANGED <<rows, invoiced, pc, req>>
  BY DEF Pay
<1>2. x # NoTxn
  BY TxnAssumption
<1>3. TypeOK'
  BY <1>1 DEF IInv, TypeOK, rows
<1>4. CallFits'
  BY <1>1, <1>2 DEF IInv, TypeOK, CallFits, rows, Request
<1>5. SucceededIsBooked' /\ OneIntentPerTxn'
  BY <1>1, <1>2 DEF IInv, TypeOK, SucceededIsBooked, OneIntentPerTxn, rows
<1> QED
  BY <1>3, <1>4, <1>5 DEF IInv

-----------------------------------------------------------------------------
(* Whatever the webhooks, the cron and repeated requests do, IInv stays. *)
LEMMA Inductive == Spec => []IInv
<1>1. Init => IInv
  BY DEF Init, IInv, TypeOK, CallFits, SucceededIsBooked, OneIntentPerTxn,
         TxnId, Step, SameTable, Intents
<1>2. IInv /\ [Next]_vars => IInv'
  <2> SUFFICES ASSUME IInv, [Next]_vars PROVE IInv'
    OBVIOUS
  <2>1. CASE UNCHANGED vars
    BY <2>1 DEF vars, rows, provider, IInv, TypeOK, CallFits,
                SucceededIsBooked, OneIntentPerTxn
  <2>2. ASSUME NEW c \in Calls, Ask(c) \/ Open(c) \/ Finalize(c) \/ Abort(c)
        PROVE  IInv'
    BY <2>2, AskKeeps, CreateKeeps, InvoiceKeeps, ReadsKeep, ReadLedgerKeeps,
       CommitKeeps, FreeKeeps DEF Open, Finalize, Abort
  <2>3. ASSUME NEW i \in Intents, NEW x \in Txns, Pay(i, x)
        PROVE  IInv'
    BY <2>3, PayKeeps
  <2> QED
    BY <2>1, <2>2, <2>3 DEF Next
<1> QED
  BY <1>1, <1>2, PTL DEF Spec

(* Every variable keeps its type. *)
THEOREM TypeCorrect == Spec => []TypeOK
<1>1. IInv => TypeOK
  BY DEF IInv
<1> QED
  BY <1>1, Inductive, PTL

(* A succeeded intent has its ledger entry, in whatever order success and     *)
(* failure of finalizeDepositIntent write over each other.                   *)
THEOREM SuccessBooked == Spec => []SucceededIsBooked
<1>1. IInv => SucceededIsBooked
  BY DEF IInv
<1> QED
  BY <1>1, Inductive, PTL

(* No two succeeded intents of one table have one provider transaction.      *)
THEOREM TxnUsedOnce == Spec => []OneIntentPerTxn
<1>1. IInv => OneIntentPerTxn
  BY DEF IInv
<1> QED
  BY <1>1, Inductive, PTL

-----------------------------------------------------------------------------
(* A step that asks for nothing new and leaves the wallet alone *)
Asked == {i \in Intents : status[i] # "none"}

LEMMA Stutters ==
    ASSUME \A i \in Intents : status'[i] = "none" <=> status[i] = "none",
           UNCHANGED <<ledger, balance>>
    PROVE  UNCHANGED <<Asked, ledger, balance>>
BY DEF Asked

(* The webhooks, the cron and the retries move the wallet as PaymentPromise   *)
(* allows: once for each intent that was asked for, by its amount.           *)
THEOREM ImplementsPromise == Spec => KeepsPromise
<1>1. Init => Promise!Init
  BY DEF Init, Promise!Init
<1>2. IInv /\ [Next]_vars => [Promise!Next]_<<Asked, ledger, balance>>
  <2> SUFFICES ASSUME IInv, [Next]_vars
               PROVE  Promise!Next \/ UNCHANGED <<Asked, ledger, balance>>
    OBVIOUS
  <2>1. CASE UNCHANGED rows
    BY <2>1, Stutters DEF rows
  <2>2. ASSUME NEW c \in Calls, Succeed(c) \/ Fail(c)
        PROVE  Promise!Next \/ UNCHANGED <<Asked, ledger, balance>>
    <3> DEFINE i == req[c].intent
    <3>1. CASE Leave(c)
      BY <2>1, <3>1 DEF Leave
    <3>2. CASE ~ Leave(c)
      <4>1. /\ i \in Intents /\ status[i] # "none"
            /\ \E s \in {"succeeded", "failed"} : status' = [status EXCEPT ![i] = s]
        BY <2>2, <3>2, Commits
      <4>2. \A j \in Intents : status'[j] = "none" <=> status[j] = "none"
        BY <4>1 DEF IInv, TypeOK
      <4>3. CASE UNCHANGED <<ledger, balance>>
        BY <4>2, <4>3, Stutters
      <4>4. CASE ~ UNCHANGED <<ledger, balance>>
        <5>1. /\ i \notin ledger /\ ledger' = ledger \cup {i}
              /\ balance' = balance + Change[i]
          BY <2>2, <3>2, <4>4, Commits
        <5>2. i \in Asked /\ Asked' = Asked
          BY <4>1, <4>2 DEF Asked
        <5> QED
          BY <4>1, <5>1, <5>2 DEF Promise!Next, Promise!Book, Asked
      <4> QED
        BY <4>3, <4>4
    <3> QED
      BY <3>1, <3>2
  <2>3. ASSUME NEW c \in Calls, Create(c)
        PROVE  Promise!Next \/ UNCHANGED <<Asked, ledger, balance>>
    <3> DEFINE i == req[c].intent
    <3>1. CASE Leave(c)
      BY <2>1, <3>1 DEF Leave
    <3>2. CASE ~ Leave(c)
      <4>1. /\ pc[c] = "create" /\ status' = [status EXCEPT ![i] = "pending"]
            /\ UNCHANGED <<ledger, balance>>
        BY <2>3, <3>2 DEF Create
      <4>2. i \in Intents
        BY <4>1, RequestType DEF IInv
      <4>3. Asked' = Asked \cup {i}
        BY <4>1, <4>2 DEF Asked, IInv, TypeOK
      <4> QED
        BY <4>1, <4>2, <4>3 DEF Promise!Next, Promise!Ask, Asked
    <3> QED
      BY <3>1, <3>2
  <2>4. ASSUME NEW c \in Calls, InvoiceFails(c)
        PROVE  UNCHANGED <<Asked, ledger, balance>>
    <3> DEFINE i == req[c].intent
    <3>1. /\ i \in Intents /\ status[i] # "none"
          /\ status' = [status EXCEPT ![i] = "failed"]
          /\ UNCHANGED <<ledger, balance>>
      BY <2>4, RequestType DEF InvoiceFails, IInv, CallFits
    <3>2. \A j \in Intents : status'[j] = "none" <=> status[j] = "none"
      BY <3>1 DEF IInv, TypeOK
    <3> QED
      BY <3>1, <3>2, Stutters
  <2>5. ASSUME NEW c \in Calls, Ask(c) PROVE UNCHANGED rows
    BY <2>5 DEF Ask, CreateDeposit, CreateWithdrawal, Webhook, Reconcile, Start
  <2>6. ASSUME NEW c \in Calls,
               ProviderInvoices(c) \/ StoreInvoice(c) \/ Abort(c)
               \/ FindIntent(c) \/ FindTxn(c) \/ ReadAgain(c) \/ ReadLedger(c)
        PROVE  UNCHANGED rows
    BY <2>6 DEF ProviderInvoices, StoreInvoice, Abort, FindIntent, FindTxn, ReadAgain,
                ReadLedger, Require, Leave
  <2>7. ASSUME NEW i \in Intents, NEW x \in Txns, Pay(i, x) PROVE UNCHANGED rows
    BY <2>7 DEF Pay
  <2>8. UNCHANGED vars => UNCHANGED rows
    BY DEF vars
  <2> QED
    BY <2>1, <2>2, <2>3, <2>4, <2>5, <2>6, <2>7, <2>8 DEF Next, Open, Finalize
<1>3. [Promise!Next]_<<Asked, ledger, balance>> =>
          [Promise!Next]_<<{i \in Intents : status[i] # "none"}, ledger, balance>>
  BY DEF Asked
<1> QED
  BY <1>1, <1>2, <1>3, Inductive, PTL DEF Spec, KeepsPromise, Promise!Spec
=============================================================================
