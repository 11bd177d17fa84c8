-------------------------------- MODULE AdDeal --------------------------------
(***************************************************************************)
(* Ad deals: the use cases of modules/application/addeal, started by        *)
(* DealsService and the internal controller.  A deal goes from its creation *)
(* over funding, escrow lock and the handshake of publisher and advertiser  *)
(* to settlement, refund or dispute.                                        *)
(*                                                                          *)
(* Each use case is one READ COMMITTED transaction without a row lock: it   *)
(* reads the deal, decides on what it has read, and at its end updates the  *)
(* rows by id.  So a call in flight keeps its snapshot of the deal (snap),  *)
(* another call may commit between any two of its reads, and its writes,    *)
(* seen by others only at its commit, are one action.  A call that throws   *)
(* or is cut off leaves nothing.                                            *)
(*                                                                          *)
(* Every deal is between the same advertiser and publisher and of the same  *)
(* amount; wallets are named by role.  X_Suffix is a wrong variant of X,    *)
(* kept to show that a property would notice it.                            *)
(***************************************************************************)
EXTENDS Integers, FiniteSets, Totals, AdDealLifecycle

CONSTANTS
    Deals,
    Refs,       \* provider references of payments
    Calls,      \* transactions that may be in flight at once
    NoDeal,     \* a reference that is bound to no deal
    NoRequest,  \* what a free slot is working on
    Amount,     \* amount of a deal
    Commission, \* commission of each deal, 0 if it has no percentage
    Opening,    \* opening balance of the advertiser's wallet
    Asked       \* which operations are asked for, of which deal

(* createDeal funds with the reference marketplace:<deal>, here the deal. *)
References == Refs \cup Deals
Wallets == {"advertiser", "publisher", "platform"}
Operation == {"fund", "lock", "accept", "decline", "confirm", "proof", "settle",
              "refund", "dispute"}
Provider == {"none", "wallet_balance", "internal_custody"}

(* resolves: the operation runs inside resolve-dispute's transaction. *)
Request ==
    {r \in [op : Operation, deal : Deals, actor : TransitionActor,
            ref : References, provider : Provider, resolves : BOOLEAN] :
        r.resolves => r.op \in {"settle", "refund"}}

Step == {"idle", "read", "event", "escrow", "ledger", "write"}

ASSUME CallAssumption == NoDeal \notin Deals /\ NoRequest \notin Request
ASSUME MoneyAssumption ==
    /\ Amount \in Nat \ {0}
    /\ Commission \in [Deals -> Nat]
    /\ Opening \in Nat
ASSUME AskedAssumption == Asked \subseteq Operation \X Deals

VARIABLES
    deal,       \* status and timestamps of each deal
    event,      \* deal each funding reference is bound to (AdDealFundingEvent)
    escrow,     \* AdDealEscrow.status per deal, "none" while there is no row
    dispute,    \* per deal: "none", "open" or the resolution
    ledger,     \* idempotency keys of the committed ledger entries
    balance,    \* wallet.balance
    pc, req,    \* step and request of each call
    snap,       \* the deal as each call has read it
    found       \* the call has found its ledger entry already there

rows == <<deal, event, escrow, dispute, ledger, balance>>
vars == <<rows, pc, req, snap, found>>

-----------------------------------------------------------------------------
(* Ledger *)

LedgerKeys ==
    {"deposit"} \X References
    \cup {"escrow_hold", "payout", "commission", "refund", "decline_refund"} \X Deals

(* calculateCommissionSplit *)
PayoutAmount_Gross(d) == Amount
PayoutAmount(d) == Amount - Commission[d]

EntryWallet(k) ==
    IF k[1] = "payout" THEN "publisher"
    ELSE IF k[1] = "commission" THEN "platform"
    ELSE "advertiser"

EntryAmount == [k \in LedgerKeys |->
    IF k[1] = "escrow_hold" THEN -Amount
    ELSE IF k[1] = "payout" THEN PayoutAmount(k[2])
    ELSE IF k[1] = "commission" THEN Commission[k[2]]
    ELSE Amount]

OpeningBalance(w) == IF w = "advertiser" THEN Opening ELSE 0

(* The ledger entries an operation on a deal read in status "from" writes, by *)
(* idempotency key                                                           *)
Keys(r, from) ==
    IF r.op = "fund" THEN
        IF r.provider = "wallet_balance" THEN {} ELSE {<<"deposit", r.ref>>}
    ELSE IF r.op = "lock" THEN
        IF from = "funded" THEN {<<"escrow_hold", r.deal>>} ELSE {}
    ELSE IF r.op = "decline" THEN {<<"decline_refund", r.deal>>}
    ELSE IF r.op = "refund" THEN {<<"refund", r.deal>>}
    ELSE IF r.op = "settle" THEN
        {<<"payout", r.deal>>}
        \cup (IF Commission[r.deal] > 0 THEN {<<"commission", r.deal>>} ELSE {})
    ELSE {}

-----------------------------------------------------------------------------
(* What each operation accepts, where it leads and which times it sets *)

From ==
    [fund |-> {"created"}, lock |-> {"funded", "escrow_locked"},
     accept |-> {"publisher_requested"}, decline |-> {"publisher_requested"},
     confirm |-> {"accepted"}, proof |-> {"advertiser_confirmed"},
     settle |-> {"proof_submitted", "disputed"}, refund |-> Refundable,
     dispute |-> Disputable]

To ==
    [fund |-> "funded", lock |-> "publisher_requested", accept |-> "accepted",
     decline |-> "publisher_declined", confirm |-> "advertiser_confirmed",
     proof |-> "proof_submitted", settle |-> "settled", refund |-> "refunded",
     dispute |-> "disputed"]

StampsOf ==
    [fund |-> {"funded"}, lock |-> {"locked", "requested"},
     accept |-> {"accepted"}, decline |-> {"declined"},
     confirm |-> {"confirmed"}, proof |-> {"proof"}, settle |-> {"settled"},
     refund |-> {"refunded"}, dispute |-> {"disputed"}]

(* The ledger reasons the use case tells assertAdDealMoneyMovement *)
Reasons(r, from) ==
    IF r.op = "fund" THEN {"deposit"}
    ELSE IF r.op = "lock" THEN IF from = "funded" THEN {"escrow_hold"} ELSE {}
    ELSE IF r.op \in {"decline", "refund"} THEN {"refund"}
    ELSE IF r.op = "settle" THEN
        {"payout"} \cup (IF Commission[r.deal] > 0 THEN {"commission"} ELSE {})
    ELSE {}

Rehydrates_Unchecked(d) == TRUE
Rehydrates(d) == RequiredStamps(d.status) \subseteq d.stamps

(* assertAdDealTransition, assertAdDealMoneyMovement and the aggregate, over  *)
(* the deal d as the call has read it                                        *)
DomainAllows(r, d) ==
    LET from == d.status
        to == To[r.op]
    IN
    /\ TransitionAllowed(AD_DEAL_TRANSITIONS, from, to, r.actor)
    /\ from # to => Reasons(r, from) = MoneyMovement(from, to)
    /\ Rehydrates(d)
    /\ Rehydrates([status |-> to, stamps |-> d.stamps \cup StampsOf[r.op]])

(* recordWalletMovement takes no empty amount, and no credit whose settlement *)
(* status is not given, as publisher-decline does not.                       *)
MovementAccepted(r) ==
    /\ r.op # "decline"
    /\ r.op = "settle" => PayoutAmount(r.deal) > 0

-----------------------------------------------------------------------------
(* Transactions *)

Begin(c, r) ==
    /\ pc[c] = "idle"
    /\ pc' = [pc EXCEPT ![c] = "read"]
    /\ req' = [req EXCEPT ![c] = r]
    /\ UNCHANGED <<snap, found>>

Goto(c, step) == pc' = [pc EXCEPT ![c] = step] /\ UNCHANGED <<rows, req>>

End(c) ==
    /\ pc' = [pc EXCEPT ![c] = "idle"]
    /\ req' = [req EXCEPT ![c] = NoRequest]
    /\ snap' = [snap EXCEPT ![c] = NoRequest]
    /\ found' = [found EXCEPT ![c] = FALSE]

Rollback(c) == End(c) /\ UNCHANGED rows

Ask(op, d, actor) ==
    [op |-> op, deal |-> d, actor |-> actor, ref |-> d, provider |-> "none",
     resolves |-> FALSE]

AskToFund(d, actor, ref, provider) ==
    [op |-> "fund", deal |-> d, actor |-> actor, ref |-> ref,
     provider |-> provider, resolves |-> FALSE]

AskToResolve(op, d) ==
    [op |-> op, deal |-> d, actor |-> "admin", ref |-> d, provider |-> "none",
     resolves |-> TRUE]

-----------------------------------------------------------------------------
(* The callers *)

(* createDeal: creates the deal or finds it by its idempotency key, then funds *)
(* it from the advertiser's wallet, as the advertiser.  The lock it would go on *)
(* with is never reached: the table lets no advertiser fund.                 *)
CreateDeal(c, d) ==
    /\ Begin(c, AskToFund(d, "advertiser", d, "wallet_balance"))
    /\ deal' = IF deal[d].status = "none"
               THEN [deal EXCEPT ![d] = [status |-> "created", stamps |-> {}]]
               ELSE deal
    /\ UNCHANGED <<event, escrow, dispute, ledger, balance>>

Exists(d) == deal[d].status # "none"

Call_Unchecked(c, r) == <<r.op, r.deal>> \in Asked /\ Begin(c, r) /\ UNCHANGED rows
Call(c, r) ==
    /\ <<r.op, r.deal>> \in Asked
    /\ Exists(r.deal)
    /\ Begin(c, r)
    /\ UNCHANGED rows

(* POST :id/fund *)
FundDeal(c, d) == \E ref \in Refs, provider \in Provider \ {"none"} :
    Call(c, AskToFund(d, "system", ref, provider))

LockDeal(c, d) == Call(c, Ask("lock", d, "system"))
AcceptDeal(c, d) == Call(c, Ask("accept", d, "publisher"))
RejectDeal(c, d) == Call(c, Ask("decline", d, "publisher"))
ConfirmDeal(c, d) == Call(c, Ask("confirm", d, "advertiser"))
MarkPosted(c, d) == Call(c, Ask("proof", d, "publisher"))

(* POST :id/settle is the admin's, completeDeal the advertiser's. *)
SettleDeal(c, d) == \E actor \in {"admin", "advertiser"} :
    Call(c, Ask("settle", d, actor))

OpenDispute(c, d) == \E actor \in {"advertiser", "publisher"} :
    Call(c, Ask("dispute", d, actor))

(* resolve-dispute reads the dispute, then settles or refunds in the same     *)
(* transaction; a dispute resolved before is left alone.                     *)
ResolveDispute(c, d) == \E op \in {"settle", "refund"} :
    /\ dispute[d] = "open"
    /\ Call(c, AskToResolve(op, d))

-----------------------------------------------------------------------------
(* The reads *)

After(op) ==
    IF op = "fund" THEN "event"
    ELSE IF op = "lock" THEN "ledger"
    ELSE IF op \in {"accept", "confirm", "proof"} THEN "write"
    ELSE "escrow"

(* Where the operation is already done the use case returns the deal as it     *)
(* is, which inside resolve-dispute leads on to the update of the dispute.   *)
AlreadyDone_Either(r, d) == r.resolves /\ d.status \in {"settled", "refunded"}
AlreadyDone(r, d) == r.resolves /\ d.status = To[r.op]

ReadDeal(c) ==
    LET r == req[c]
        d == deal[r.deal]
    IN
    /\ pc[c] = "read"
    /\ IF r.op = "fund" \/ d.status \in From[r.op] \/ AlreadyDone(r, d)
       THEN /\ snap' = [snap EXCEPT ![c] = d]
            /\ Goto(c, IF AlreadyDone(r, d) THEN "write" ELSE After(r.op))
            /\ UNCHANGED found
       ELSE Rollback(c)

(* fund: the event of the reference.  One that is bound to this deal lets the  *)
(* call go on from any status.                                               *)
ReadEvent_Binds(c) ==
    LET r == req[c] IN
    /\ pc[c] = "event"
    /\ event[r.ref] = r.deal \/ (event[r.ref] = NoDeal /\ snap[c].status = "created")
    /\ event' = [event EXCEPT ![r.ref] = r.deal]
    /\ pc' = [pc EXCEPT ![c] = "ledger"]
    /\ UNCHANGED <<deal, escrow, dispute, ledger, balance, req, snap, found>>

ReadEvent(c) ==
    LET r == req[c] IN
    /\ pc[c] = "event"
    /\ IF event[r.ref] = r.deal \/ (event[r.ref] = NoDeal /\ snap[c].status = "created")
       THEN Goto(c, "ledger") /\ UNCHANGED <<snap, found>>
       ELSE Rollback(c)

EscrowLocked(d) == escrow[d] = "locked"

(* decline, settle, refund: the escrow must be locked.  dispute: there must    *)
(* be no dispute yet.                                                        *)
ReadEscrow(c) ==
    LET r == req[c] IN
    /\ pc[c] = "escrow"
    /\ IF IF r.op = "dispute" THEN dispute[r.deal] = "none" ELSE EscrowLocked(r.deal)
       THEN /\ Goto(c, IF r.op = "dispute" THEN "write" ELSE "ledger")
            /\ UNCHANGED <<snap, found>>
       ELSE Rollback(c)

(* recordWalletMovement looks for its key and then, for a debit, at the        *)
(* balance; so does the funding from the wallet.                             *)
ReadLedger(c) ==
    LET r == req[c]
        keys == Keys(r, snap[c].status)
        seen == keys # {} /\ keys \subseteq ledger
        pays == \/ r.op = "lock" /\ keys # {} /\ ~ seen
                \/ r.op = "fund" /\ r.provider = "wallet_balance"
    IN
    /\ pc[c] = "ledger"
    /\ IF MovementAccepted(r) /\ (pays => balance["advertiser"] >= Amount)
       THEN /\ found' = [found EXCEPT ![c] = seen]
            /\ Goto(c, "write")
            /\ UNCHANGED snap
       ELSE Rollback(c)

-----------------------------------------------------------------------------
(* The writes *)

(* The ledger keys are unique: an entry that came in between the look and the  *)
(* insert makes the insert fail.  What was found is not written again.       *)
DuplicateEntry(c) == ~ found[c] /\ Keys(req[c], snap[c].status) \cap ledger # {}

(* An operation writes at most one entry of a wallet. *)
Gain(keys, w) ==
    IF \E k \in keys : EntryWallet(k) = w
    THEN EntryAmount[CHOOSE k \in keys : EntryWallet(k) = w] ELSE 0

MoveMoney_Again(c) ==
    LET keys == Keys(req[c], snap[c].status) IN
    /\ ledger' = ledger \cup keys
    /\ balance' = [w \in Wallets |-> balance[w] + Gain(keys, w)]
MoveMoney(c) ==
    LET new == IF found[c] THEN {} ELSE Keys(req[c], snap[c].status) IN
    /\ ledger' = ledger \cup new
    /\ balance' = [w \in Wallets |-> balance[w] + Gain(new, w)]

(* The update by id: the status and the times of this operation, whatever the  *)
(* row holds by now                                                          *)
Updated(c) ==
    [deal EXCEPT ![req[c].deal] = [status |-> To[req[c].op],
                                  stamps |-> @.stamps \cup StampsOf[req[c].op]]]

Commits(c, op) ==
    /\ pc[c] = "write"
    /\ req[c].op = op
    /\ ~ AlreadyDone(req[c], snap[c])
    /\ DomainAllows(req[c], snap[c])
    /\ ~ DuplicateEntry(c)
    /\ End(c)

(* The event is bound unless it is already; a deal that was funded before is   *)
(* returned as it is.                                                        *)
Fund(c) ==
    LET r == req[c] IN
    /\ Commits(c, "fund")
    /\ event' = IF event[r.ref] = NoDeal THEN [event EXCEPT ![r.ref] = r.deal]
                ELSE event
    /\ MoveMoney(c)
    /\ deal' = IF snap[c].status = "created" THEN Updated(c) ELSE deal
    /\ UNCHANGED <<escrow, dispute>>

(* The escrow row: created for a deal read as funded, kept if there is one *)
Escrowed_Reset(c) ==
    IF snap[c].status = "funded" THEN [escrow EXCEPT ![req[c].deal] = "locked"]
    ELSE escrow
Escrowed(c) ==
    IF snap[c].status = "funded" /\ escrow[req[c].deal] = "none"
    THEN [escrow EXCEPT ![req[c].deal] = "locked"] ELSE escrow

Lock(c) ==
    /\ Commits(c, "lock")
    /\ MoveMoney(c)
    /\ escrow' = Escrowed(c)
    /\ deal' = Updated(c)
    /\ UNCHANGED <<event, dispute>>

Accept(c) ==
    /\ Commits(c, "accept")
    /\ deal' = Updated(c)
    /\ UNCHANGED <<event, escrow, dispute, ledger, balance>>

Confirm(c) ==
    /\ Commits(c, "confirm")
    /\ deal' = Updated(c)
    /\ UNCHANGED <<event, escrow, dispute, ledger, balance>>

SubmitProof(c) ==
    /\ Commits(c, "proof")
    /\ deal' = Updated(c)
    /\ UNCHANGED <<event, escrow, dispute, ledger, balance>>

(* The update of the dispute that a settlement or refund is part of *)
Resolved(c) ==
    IF req[c].resolves THEN [dispute EXCEPT ![req[c].deal] = req[c].op] ELSE dispute

Settle(c) ==
    /\ Commits(c, "settle")
    /\ MoveMoney(c)
    /\ escrow' = [escrow EXCEPT ![req[c].deal] = "settled"]
    /\ deal' = Updated(c)
    /\ dispute' = Resolved(c)
    /\ UNCHANGED event

Refund(c) ==
    /\ Commits(c, "refund")
    /\ MoveMoney(c)
    /\ escrow' = [escrow EXCEPT ![req[c].deal] = "refunded"]
    /\ deal' = Updated(c)
    /\ dispute' = Resolved(c)
    /\ UNCHANGED event

(* publisher-decline has no write here: MovementAccepted refuses its credit,  *)
(* so none of its writes is ever committed.                                  *)

(* A second dispute of the deal violates its unique key. *)
Dispute(c) ==
    LET d == req[c].deal IN
    /\ Commits(c, "dispute")
    /\ dispute[d] = "none"
    /\ dispute' = [dispute EXCEPT ![d] = "open"]
    /\ deal' = Updated(c)
    /\ UNCHANGED <<event, escrow, ledger, balance>>

(* resolve-dispute over a deal that is where the resolution wants it *)
ResolveOnly(c) ==
    /\ pc[c] = "write"
    /\ AlreadyDone(req[c], snap[c])
    /\ dispute' = Resolved(c)
    /\ End(c)
    /\ UNCHANGED <<deal, event, escrow, ledger, balance>>

(* An assertion of the domain, a unique key, or the end of the process *)
Abort(c) == pc[c] # "idle" /\ Rollback(c)

-----------------------------------------------------------------------------
(* Specification *)

Init ==
    /\ deal = [d \in Deals |-> [status |-> "none", stamps |-> {}]]
    /\ event = [r \in References |-> NoDeal]
    /\ escrow = [d \in Deals |-> "none"]
    /\ dispute = [d \in Deals |-> "none"]
    /\ ledger = {}
    /\ balance = [w \in Wallets |-> OpeningBalance(w)]
    /\ pc = [c \in Calls |-> "idle"]
    /\ req = [c \in Calls |-> NoRequest]
    /\ snap = [c \in Calls |-> NoRequest]
    /\ found = [c \in Calls |-> FALSE]

Start(c, d) ==
    \/ CreateDeal(c, d) \/ FundDeal(c, d) \/ LockDeal(c, d)
    \/ AcceptDeal(c, d) \/ RejectDeal(c, d) \/ ConfirmDeal(c, d)
    \/ MarkPosted(c, d) \/ SettleDeal(c, d) \/ OpenDispute(c, d)
    \/ ResolveDispute(c, d)

Commit(c) ==
    \/ Fund(c) \/ Lock(c) \/ Accept(c) \/ Confirm(c) \/ SubmitProof(c)
    \/ Settle(c) \/ Refund(c) \/ Dispute(c) \/ ResolveOnly(c)

Next == \E c \in Calls :
    \/ \E d \in Deals : Start(c, d)
    \/ ReadDeal(c) \/ ReadEvent(c) \/ ReadEscrow(c) \/ ReadLedger(c)
    \/ Commit(c) \/ Abort(c)

Spec == Init /\ [][Next]_vars

(* A settlement and a refund of one deal, in flight at once, pay its money       *)
(* twice.  The code lets that happen; with it left out, everything else may   *)
(* overlap.                                                                  *)
InFlight(c, op) == pc[c] # "idle" /\ req[c].op = op

PaysApart == \A b, c \in Calls :
    InFlight(b, "settle") /\ InFlight(c, "refund") => req[b].deal # req[c].deal

PaysApartSpec == Init /\ [][Next /\ PaysApart']_vars

-----------------------------------------------------------------------------
(* Properties *)

Snapshot == [status : DealState, stamps : SUBSET Stamp]

(* Every variable keeps its type. *)
TypeOK ==
    /\ deal \in [Deals -> [status : DealState \cup {"none"}, stamps : SUBSET Stamp]]
    /\ event \in [References -> Deals \cup {NoDeal}]
    /\ escrow \in [Deals -> AdDealEscrowStatus \cup {"none"}]
    /\ dispute \in [Deals -> {"none", "open", "settle", "refund"}]
    /\ ledger \subseteq LedgerKeys
    /\ balance \in [Wallets -> Int]
    /\ pc \in [Calls -> Step]
    /\ req \in [Calls -> Request \cup {NoRequest}]
    /\ snap \in [Calls -> Snapshot \cup {NoRequest}]
    /\ found \in [Calls -> BOOLEAN]
    /\ \A c \in Calls : pc[c] # "idle" => req[c] \in Request
    /\ \A c \in Calls : pc[c] \notin {"idle", "read"} => snap[c] \in Snapshot

(* Calls overwrite each other's status blindly, yet what is stored is always  *)
(* a deal the aggregate accepts: no later call fails to rehydrate it         *)
(* (addeal.aggregate.ts, assertInvariant).                                   *)
RowsRehydrate == \A d \in Deals : Exists(d) => RequiredStamps(deal[d].status) \subseteq deal[d].stamps

(* The escrow row and the ledger agree: a row since the advertiser was        *)
(* debited, a payout or refund since it says so, none while it is locked.    *)
EscrowFollowsLedger == \A d \in Deals :
    LET paid == <<"payout", d>> \in ledger
        back == <<"refund", d>> \in ledger
    IN
    /\ escrow[d] # "none" <=> <<"escrow_hold", d>> \in ledger
    /\ escrow[d] = "settled" => paid
    /\ escrow[d] = "refunded" => back
    /\ escrow[d] = "locked" => ~ paid /\ ~ back
    /\ paid \/ back => escrow[d] # "none"

(* The publisher is paid only for a deal that was accepted, confirmed and     *)
(* proved, and the platform with the publisher or not at all.                *)
PaidForProof == \A d \in Deals :
    /\ <<"payout", d>> \in ledger =>
           {"requested", "accepted", "confirmed", "proof"} \subseteq deal[d].stamps
    /\ <<"commission", d>> \in ledger <=> <<"payout", d>> \in ledger

(* A dispute's resolution is what has become of the money. *)
ResolutionPaid == \A d \in Deals :
    /\ dispute[d] = "settle" => <<"payout", d>> \in ledger
    /\ dispute[d] = "refund" => <<"refund", d>> \in ledger

(* Whatever calls overlap, and however often a payment is reported again,     *)
(* each wallet moves by its ledger entries, each counted once                *)
(* (recordWalletMovement, idempotencyKey).                                   *)
BalanceIsLedger == \A w \in Wallets :
    balance[w] = OpeningBalance(w) + Total(EntryAmount, {k \in ledger : EntryWallet(k) = w})

(* Whichever of several fundings by one reference commits, and however many     *)
(* throw after they have looked at it or bound it: money that came in by a    *)
(* reference is bound to a deal, and a deal a reference is bound to was       *)
(* funded (fund-addeal.usecase.ts, adDealFundingEvent).                      *)
BindingFunds == \A r \in References :
    /\ <<"deposit", r>> \in ledger => event[r] # NoDeal
    /\ event[r] # NoDeal => "funded" \in deal[event[r]].stamps

(* Payments apart, what the ledger says of a deal's money is a hold, then a    *)
(* payout or a return, each once: the promise of the campaign escrow too.    *)
Place(d) ==
    IF <<"payout", d>> \in ledger THEN "paid"
    ELSE IF <<"refund", d>> \in ledger THEN "returned"
    ELSE IF <<"escrow_hold", d>> \in ledger THEN "escrow"
    ELSE "advertiser"

Deposited == Amount * Cardinality({k \in ledger : k[1] = "deposit"})

Promise == INSTANCE EscrowPromise WITH
    Targets <- Deals,
    Price <- [d \in Deals |-> Amount],
    place <- [d \in Deals |-> Place(d)],
    balance <- [balance EXCEPT !["advertiser"] = @ - Deposited]

KeepsPromise == Promise!Spec

(* What a call has read stays true enough: timestamps are only added, and an   *)
(* escrow row or ledger entry that was there stays.                          *)
Fits(c) ==
    LET r == req[c]
        s == snap[c]
    IN
    /\ found[c] => pc[c] = "write"
    /\ pc[c] = "event" => r.op = "fund"
    /\ pc[c] \notin {"idle", "read"} =>
        /\ s.stamps \subseteq deal[r.deal].stamps
        /\ r.op # "fund" => s.status \in From[r.op] \/ AlreadyDone(r, s)
        /\ found[c] => Keys(r, s.status) \subseteq ledger
        /\ pc[c] \in {"ledger", "write"} /\ r.op \in {"settle", "refund"}
               => escrow[r.deal] # "none"
        /\ s.status = "settled" => <<"payout", r.deal>> \in ledger
        /\ s.status = "refunded" => <<"refund", r.deal>> \in ledger

CallFits == \A c \in Calls : Fits(c)

StatusPaid == \A d \in Deals :
    /\ deal[d].status = "settled" => <<"payout", d>> \in ledger
    /\ deal[d].status = "refunded" => <<"refund", d>> \in ledger

CallExists == \A c \in Calls : pc[c] # "idle" => Exists(req[c].deal)
NothingBefore == \A d \in Deals : ~ Exists(d) => deal[d].stamps = {}

(* The inductive invariant of the proofs *)
IInv == /\ TypeOK
        /\ CallExists
        /\ NothingBefore
        /\ CallFits
        /\ StatusPaid
        /\ RowsRehydrate
        /\ EscrowFollowsLedger
        /\ PaidForProof
        /\ ResolutionPaid

(* Payments apart, the escrow a call pays from is locked or as the call will   *)
(* leave it, for another has done the same; and a settlement pays something   *)
(* out.                                                                      *)
StillPays(c) ==
    LET r == req[c]
        pays == r.op \in {"settle", "refund"} /\ ~ AlreadyDone(r, snap[c])
    IN
    /\ pc[c] = "write" /\ pays /\ r.op = "settle" => PayoutAmount(r.deal) > 0
    /\ pc[c] \in {"ledger", "write"} /\ pays => escrow[r.deal] \in {"locked", To[r.op]}

PaysTrue == \A c \in Calls : StillPays(c)

(* A call that funds a deal that is not new has found its reference bound.     *)
FundsKnown == \A c \in Calls :
    /\ pc[c] = "escrow" => req[c].op # "fund"
    /\ pc[c] \in {"ledger", "write"} /\ req[c].op = "fund" /\ snap[c].status # "created"
           => event[req[c].ref] # NoDeal
=============================================================================
