---------------------------- MODULE AdDeal_proofs ----------------------------
(***************************************************************************)
(* Proofs about AdDeal, for every set of deals, references and calls in     *)
(* flight, and every amount and commission.                                 *)
(***************************************************************************)
EXTENDS AdDeal, Totals_proofs

-----------------------------------------------------------------------------
(* What an operation writes *)

LEMMA KeysAreLedgerKeys ==
    ASSUME NEW r \in Request, NEW from
    PROVE  Keys(r, from) \subseteq LedgerKeys
BY DEF Keys, LedgerKeys, Request, Operation

LEMMA EntryAmountType == EntryAmount \in [LedgerKeys -> Int]
<1> SUFFICES ASSUME NEW k \in LedgerKeys PROVE EntryAmount[k] \in Int
  BY DEF EntryAmount
<1>1. CASE k \in {"deposit"} \X References
  BY <1>1, MoneyAssumption DEF EntryAmount
<1>2. CASE k \in {"escrow_hold", "payout", "commission", "refund", "decline_refund"} \X Deals
  BY <1>2, MoneyAssumption DEF EntryAmount, PayoutAmount
<1> QED
  BY <1>1, <1>2 DEF LedgerKeys

LEMMA GainType ==
    ASSUME NEW keys, keys \subseteq LedgerKeys, NEW w
    PROVE  Gain(keys, w) \in Int
<1>1. CASE \E k \in keys : EntryWallet(k) = w
  <2>1. (CHOOSE k \in keys : EntryWallet(k) = w) \in LedgerKeys
    BY <1>1
  <2> QED
    BY <1>1, <2>1, EntryAmountType DEF Gain
<1>2. CASE ~ \E k \in keys : EntryWallet(k) = w
  BY <1>2 DEF Gain
<1> QED
  BY <1>1, <1>2

LEMMA MoveMoneyType ==
    ASSUME TypeOK, NEW c \in Calls, req[c] \in Request, MoveMoney(c)
    PROVE  /\ ledger' \subseteq LedgerKeys
           /\ balance' \in [Wallets -> Int]
           /\ ledger \subseteq ledger'
           /\ \A k \in ledger' : k \in ledger \/ k \in Keys(req[c], snap[c].status)
           /\ ~ found[c] => Keys(req[c], snap[c].status) \subseteq ledger'
<1> DEFINE new == IF found[c] THEN {} ELSE Keys(req[c], snap[c].status)
<1>1. new \subseteq LedgerKeys
  BY KeysAreLedgerKeys
<1>2. ledger' = ledger \cup new /\ balance' = [w \in Wallets |-> balance[w] + Gain(new, w)]
  BY DEF MoveMoney
<1>3. \A w \in Wallets : balance[w] + Gain(new, w) \in Int
  <2> SUFFICES ASSUME NEW w \in Wallets PROVE balance[w] + Gain(new, w) \in Int
    OBVIOUS
  <2>1. Gain(new, w) \in Int
    BY <1>1, GainType
  <2>2. balance[w] \in Int
    BY DEF TypeOK
  <2> HIDE DEF new
  <2> QED
    BY <2>1, <2>2
<1>4. balance' \in [Wallets -> Int]
  <2> HIDE DEF new
  <2> QED BY <1>2, <1>3
<1>5. ledger' \subseteq LedgerKeys
  BY <1>1, <1>2 DEF TypeOK
<1> QED
  BY <1>2, <1>4, <1>5

-----------------------------------------------------------------------------
(* Steps that write no row *)

(* The parts of the invariant that speak of the rows only *)
RowsInv == NothingBefore /\ StatusPaid /\ RowsRehydrate /\ EscrowFollowsLedger /\ PaidForProof
           /\ ResolutionPaid

LEMMA RowsSteady ==
    ASSUME RowsInv, UNCHANGED rows
    PROVE  RowsInv'
BY DEF RowsInv, NothingBefore, StatusPaid, RowsRehydrate, EscrowFollowsLedger, PaidForProof,
       ResolutionPaid, rows, Exists

(* Rows only gain: timestamps, ledger entries, an escrow row. *)
Grow ==
    /\ \A d \in Deals : Exists(d) => Exists(d)' /\ deal[d].stamps \subseteq deal'[d].stamps
    /\ ledger \subseteq ledger'
    /\ \A d \in Deals : escrow[d] # "none" => escrow'[d] # "none"

LEMMA SteadyGrow ==
    ASSUME UNCHANGED rows
    PROVE  Grow
BY DEF Grow, rows, Exists

(* What a call knows stays true while the rows grow. *)
LEMMA OthersFit ==
    ASSUME IInv, Grow, NEW b \in Calls,
           pc'[b] = pc[b], req'[b] = req[b], snap'[b] = snap[b], found'[b] = found[b]
    PROVE  /\ Fits(b)'
           /\ (pc[b] # "idle" => Exists(req[b].deal))'
<1>1. Fits(b)
  BY DEF IInv, CallFits
<1>2. pc[b] # "idle" => req[b].deal \in Deals /\ Exists(req[b].deal)
  BY DEF IInv, TypeOK, CallExists, Request
<1>3. pc[b] # "idle" => /\ Exists(req[b].deal)'
                        /\ deal[req[b].deal].stamps \subseteq deal'[req[b].deal].stamps
                        /\ escrow[req[b].deal] # "none" => escrow'[req[b].deal] # "none"
  BY <1>2 DEF Grow
<1>4. Fits(b)'
  BY <1>1, <1>3 DEF Fits, Grow, AlreadyDone
<1> QED
  BY <1>3, <1>4 DEF Exists

(* A call that ends *)
LEMMA EndFits ==
    ASSUME IInv, Grow, NEW c \in Calls, End(c)
    PROVE  CallFits' /\ CallExists'
<1>1. /\ pc' = [pc EXCEPT ![c] = "idle"]
      /\ req' = [req EXCEPT ![c] = NoRequest]
      /\ snap' = [snap EXCEPT ![c] = NoRequest]
      /\ found' = [found EXCEPT ![c] = FALSE]
  BY DEF End
<1>2. ASSUME NEW b \in Calls PROVE Fits(b)' /\ (pc[b] # "idle" => Exists(req[b].deal))'
  <2>1. CASE b = c
    BY <2>1, <1>1 DEF IInv, TypeOK, Fits
  <2>2. CASE b # c
    BY <2>2, <1>1, OthersFit DEF IInv, TypeOK
  <2> QED
    BY <2>1, <2>2
<1> QED
  BY <1>2 DEF CallFits, CallExists, Exists

LEMMA RollbackKeeps ==
    ASSUME IInv, NEW c \in Calls, Rollback(c)
    PROVE  IInv'
<1>1. /\ UNCHANGED rows
      /\ pc' = [pc EXCEPT ![c] = "idle"]
      /\ req' = [req EXCEPT ![c] = NoRequest]
      /\ snap' = [snap EXCEPT ![c] = NoRequest]
      /\ found' = [found EXCEPT ![c] = FALSE]
  BY DEF Rollback, End
<1>2. TypeOK'
  BY <1>1 DEF IInv, TypeOK, rows, Step
<1>3. CallFits' /\ CallExists'
  BY <1>1, SteadyGrow, EndFits DEF Rollback
<1> QED
  BY <1>1, <1>2, <1>3, RowsSteady DEF IInv, RowsInv

(* A call that begins *)
LEMMA BeginFits ==
    ASSUME IInv, Grow, NEW c \in Calls, NEW r, Exists(r.deal)', Begin(c, r)
    PROVE  CallFits' /\ CallExists'
<1>1. /\ UNCHANGED <<snap, found>>
      /\ pc[c] = "idle"
      /\ pc' = [pc EXCEPT ![c] = "read"]
      /\ req' = [req EXCEPT ![c] = r]
  BY DEF Begin
<1>2. ASSUME NEW b \in Calls PROVE Fits(b)' /\ (pc[b] # "idle" => Exists(req[b].deal))'
  <2>1. CASE b = c
    <3>1. Fits(c)
      BY DEF IInv, CallFits
    <3>2. found'[c] = FALSE
      BY <1>1, <3>1 DEF IInv, TypeOK, Fits
    <3> QED
      BY <2>1, <1>1, <3>2 DEF IInv, TypeOK, Fits, Exists
  <2>2. CASE b # c
    BY <2>2, <1>1, OthersFit DEF IInv, TypeOK
  <2> QED
    BY <2>1, <2>2
<1> QED
  BY <1>2 DEF CallFits, CallExists, Exists

LEMMA CallKeeps ==
    ASSUME IInv, NEW c \in Calls, NEW r \in Request, Call(c, r)
    PROVE  IInv'
<1>1. /\ Exists(r.deal)
      /\ UNCHANGED <<rows, snap, found>>
      /\ pc' = [pc EXCEPT ![c] = "read"]
      /\ req' = [req EXCEPT ![c] = r]
  BY DEF Call, Begin
<1>2. TypeOK'
  BY <1>1 DEF IInv, TypeOK, rows, Step
<1>3. Exists(r.deal)'
  BY <1>1 DEF Exists, rows
<1>4. CallFits' /\ CallExists'
  BY <1>1, <1>3, SteadyGrow, BeginFits DEF Call
<1> QED
  BY <1>1, <1>2, <1>4, RowsSteady DEF IInv, RowsInv

LEMMA AskType ==
    ASSUME NEW op \in Operation, NEW d \in Deals, NEW actor \in TransitionActor
    PROVE  /\ Ask(op, d, actor) \in Request
           /\ op \in {"settle", "refund"} => AskToResolve(op, d) \in Request
           /\ \A ref \in References, p \in Provider :
                 AskToFund(d, actor, ref, p) \in Request
BY DEF Ask, AskToFund, AskToResolve, Request, References, Provider, Operation, TransitionActor

LEMMA StartKeeps ==
    ASSUME IInv, NEW c \in Calls, NEW d \in Deals, Start(c, d)
    PROVE  IInv'
<1> USE DEF Operation, TransitionActor
<1>1. CASE CreateDeal(c, d)
  <2> DEFINE r == AskToFund(d, "advertiser", d, "wallet_balance")
             new == [status |-> "created", stamps |-> {}]
  <2>1. /\ UNCHANGED <<event, escrow, dispute, ledger, balance, snap, found>>
        /\ pc' = [pc EXCEPT ![c] = "read"]
        /\ req' = [req EXCEPT ![c] = r]
        /\ deal' = IF deal[d].status = "none" THEN [deal EXCEPT ![d] = new] ELSE deal
    BY <1>1 DEF CreateDeal, Begin
  <2>2. r \in Request /\ r.deal = d
    BY DEF AskToFund, Request, References, Provider
  <2>3. new \in [status : DealState \cup {"none"}, stamps : SUBSET Stamp]
    BY DEF DealState
  <2>4. TypeOK'
    <3> HIDE DEF r, new
    <3> QED BY <2>1, <2>2, <2>3 DEF IInv, TypeOK, Step
  <2>5. Exists(d)' /\ \A e \in Deals : Exists(e) => Exists(e)'
    BY <2>1 DEF IInv, TypeOK, Exists
  <2>6. \A e \in Deals : deal[e].status # "none" => deal'[e] = deal[e]
    BY <2>1 DEF IInv, TypeOK
  <2>7. Grow
    BY <2>1, <2>5, <2>6 DEF Grow, Exists
  <2>8. CallFits' /\ CallExists'
    <3> HIDE DEF r
    <3> QED BY <1>1, <2>2, <2>5, <2>7, BeginFits DEF CreateDeal, r
  <2>9. \A e \in Deals : deal'[e] = deal[e] \/ (deal[e].status = "none" /\ deal'[e] = new)
    BY <2>1 DEF IInv, TypeOK
  <2>10. StatusPaid' /\ EscrowFollowsLedger' /\ ResolutionPaid'
    BY <2>1, <2>9 DEF IInv, StatusPaid, EscrowFollowsLedger, ResolutionPaid
  <2>11. RowsRehydrate'
    BY <2>9 DEF IInv, RowsRehydrate, RequiredStamps, Exists
  <2>12. PaidForProof'
    <3> SUFFICES ASSUME NEW e \in Deals
                 PROVE  /\ <<"payout", e>> \in ledger =>
                              {"requested", "accepted", "confirmed", "proof"} \subseteq deal'[e].stamps
                        /\ <<"commission", e>> \in ledger <=> <<"payout", e>> \in ledger
      BY <2>1 DEF PaidForProof
    <3>1. CASE deal'[e] = deal[e]
      BY <3>1 DEF IInv, PaidForProof
    <3>2. CASE deal[e].status = "none" /\ deal'[e] = new
      BY <3>2 DEF IInv, PaidForProof, NothingBefore, Exists
    <3> QED BY <2>9, <3>1, <3>2
  <2>13. NothingBefore'
    BY <2>9 DEF IInv, NothingBefore, Exists
  <2> QED
    BY <2>4, <2>8, <2>10, <2>11, <2>12, <2>13 DEF IInv
<1>2. CASE FundDeal(c, d)
  BY <1>2, AskType, CallKeeps DEF FundDeal, References
<1>3. CASE LockDeal(c, d)
  BY <1>3, AskType, CallKeeps DEF LockDeal
<1>4. CASE AcceptDeal(c, d)
  BY <1>4, AskType, CallKeeps DEF AcceptDeal
<1>5. CASE RejectDeal(c, d)
  BY <1>5, AskType, CallKeeps DEF RejectDeal
<1>6. CASE ConfirmDeal(c, d)
  BY <1>6, AskType, CallKeeps DEF ConfirmDeal
<1>7. CASE MarkPosted(c, d)
  BY <1>7, AskType, CallKeeps DEF MarkPosted
<1>8. CASE SettleDeal(c, d)
  BY <1>8, AskType, CallKeeps DEF SettleDeal
<1>9. CASE OpenDispute(c, d)
  BY <1>9, AskType, CallKeeps DEF OpenDispute
<1>10. CASE ResolveDispute(c, d)
  BY <1>10, AskType, CallKeeps DEF ResolveDispute
<1> QED
  BY <1>1, <1>2, <1>3, <1>4, <1>5, <1>6, <1>7, <1>8, <1>9, <1>10 DEF Start

-----------------------------------------------------------------------------
(* The reads *)

(* A call that goes on, with the rows as they are, keeps the invariant if what *)
(* it knows at its next step fits.                                           *)
LEMMA GoOnKeeps ==
    ASSUME IInv, NEW c \in Calls, pc[c] # "idle", NEW next \in Step \ {"idle", "read"},
           NEW s \in Snapshot, NEW f \in BOOLEAN,
           Goto(c, next),
           snap' = [snap EXCEPT ![c] = s],
           found' = [found EXCEPT ![c] = f],
           f => next = "write",
           next = "event" => req[c].op = "fund",
           s.stamps \subseteq deal[req[c].deal].stamps,
           req[c].op # "fund" => s.status \in From[req[c].op] \/ AlreadyDone(req[c], s),
           f => Keys(req[c], s.status) \subseteq ledger,
           next \in {"ledger", "write"} /\ req[c].op \in {"settle", "refund"} =>
               escrow[req[c].deal] # "none",
           s.status = "settled" => <<"payout", req[c].deal>> \in ledger,
           s.status = "refunded" => <<"refund", req[c].deal>> \in ledger
    PROVE  IInv'
<1>1. /\ UNCHANGED <<rows, req>>
      /\ pc' = [pc EXCEPT ![c] = next]
  BY DEF Goto
<1>2. TypeOK'
  BY <1>1 DEF IInv, TypeOK, rows
<1>3. CallExists'
  BY <1>1 DEF IInv, TypeOK, CallExists, rows, Exists
<1>4. Grow
  BY <1>1, SteadyGrow
<1>5. ASSUME NEW b \in Calls PROVE Fits(b)'
  <2>1. CASE b = c
    <3>1. /\ pc'[c] = next /\ req'[c] = req[c] /\ snap'[c] = s /\ found'[c] = f
          /\ deal' = deal /\ ledger' = ledger /\ escrow' = escrow
      BY <1>1 DEF IInv, TypeOK, rows
    <3> QED
      BY <2>1, <3>1 DEF Fits, AlreadyDone
  <2>2. CASE b # c
    BY <2>2, <1>1, <1>4, OthersFit DEF IInv, TypeOK
  <2> QED
    BY <2>1, <2>2
<1> QED
  BY <1>1, <1>2, <1>3, <1>5, RowsSteady DEF IInv, RowsInv, CallFits

LEMMA ReadKeeps ==
    ASSUME IInv, NEW c \in Calls,
           ReadDeal(c) \/ ReadEvent(c) \/ ReadEscrow(c) \/ ReadLedger(c)
    PROVE  IInv'
<1>1. CASE Rollback(c)
  BY <1>1, RollbackKeeps
<1> SUFFICES ASSUME ~ Rollback(c) PROVE IInv'
  BY <1>1
<1> DEFINE r == req[c]
<1>2. CASE ReadDeal(c)
  <2> DEFINE d == deal[r.deal]
             next == IF AlreadyDone(r, d) THEN "write" ELSE After(r.op)
  <2>1. /\ Goto(c, next)
        /\ snap' = [snap EXCEPT ![c] = d]
        /\ UNCHANGED found
        /\ pc[c] = "read"
        /\ r.op = "fund" \/ d.status \in From[r.op] \/ AlreadyDone(r, d)
    BY <1>2 DEF ReadDeal
  <2>2. r \in Request /\ r.deal \in Deals /\ Exists(r.deal)
    BY <2>1 DEF IInv, TypeOK, CallExists, Request
  <2>3. d \in Snapshot
    BY <2>2 DEF IInv, TypeOK, Snapshot, Exists
  <2>4. next \in Step \ {"idle", "read"} /\ (next = "event" => r.op = "fund")
    BY DEF After, Step
  <2>5. found' = [found EXCEPT ![c] = FALSE]
    BY <2>1 DEF IInv, TypeOK, CallFits, Fits
  <2>6. /\ d.status = "settled" => <<"payout", r.deal>> \in ledger
        /\ d.status = "refunded" => <<"refund", r.deal>> \in ledger
    BY <2>2 DEF IInv, StatusPaid
  <2>7. next \in {"ledger", "write"} /\ r.op \in {"settle", "refund"} =>
            escrow[r.deal] # "none"
    <3> SUFFICES ASSUME next \in {"ledger", "write"}, r.op \in {"settle", "refund"}
                 PROVE  escrow[r.deal] # "none"
      OBVIOUS
    <3>1. AlreadyDone(r, d)
      BY DEF After
    <3>2. d.status \in {"settled", "refunded"}
      BY <3>1 DEF AlreadyDone, To
    <3> QED
      BY <3>2, <2>2, <2>6 DEF IInv, EscrowFollowsLedger
  <2> HIDE DEF d, next, r
  <2> QED
    BY <2>1, <2>2, <2>3, <2>4, <2>5, <2>6, <2>7, GoOnKeeps DEF r, d
<1>3. ASSUME NEW next \in {"ledger", "write"}, NEW f \in BOOLEAN,
             Goto(c, next), UNCHANGED snap, found' = [found EXCEPT ![c] = f],
             pc[c] \in {"event", "escrow", "ledger"},
             f => next = "write" /\ Keys(r, snap[c].status) \subseteq ledger,
             r.op \in {"settle", "refund"} => escrow[r.deal] # "none"
      PROVE  IInv'
  <2>1. snap[c] \in Snapshot /\ snap' = [snap EXCEPT ![c] = snap[c]]
    BY <1>3 DEF IInv, TypeOK
  <2>2. Fits(c)
    BY DEF IInv, CallFits
  <2>3. next \in Step \ {"idle", "read"}
    BY DEF Step
  <2> QED
    BY <1>3, <2>1, <2>2, <2>3, GoOnKeeps DEF Fits
<1>4. CASE ReadEvent(c)
  <2>1. Goto(c, "ledger") /\ UNCHANGED <<snap, found>> /\ pc[c] = "event"
    BY <1>4 DEF ReadEvent
  <2>2. found' = [found EXCEPT ![c] = FALSE]
    BY <2>1 DEF IInv, TypeOK, CallFits, Fits
  <2>3. r.op \notin {"settle", "refund"}
    BY <2>1 DEF IInv, CallFits, Fits
  <2> QED
    BY <1>3, <2>1, <2>2, <2>3
<1>5. CASE ReadEscrow(c)
  <2>1. PICK next \in {"ledger", "write"} : Goto(c, next)
    BY <1>5 DEF ReadEscrow
  <2>2. /\ UNCHANGED <<snap, found>>
        /\ pc[c] = "escrow"
        /\ r.op # "dispute" => escrow[r.deal] = "locked"
    BY <1>5 DEF ReadEscrow, EscrowLocked
  <2>3. found' = [found EXCEPT ![c] = FALSE]
    BY <2>2 DEF IInv, TypeOK, CallFits, Fits
  <2> QED
    BY <1>3, <2>1, <2>2, <2>3
<1>6. CASE ReadLedger(c)
  <2> DEFINE keys == Keys(r, snap[c].status)
             seen == keys # {} /\ keys \subseteq ledger
  <2>1. /\ Goto(c, "write") /\ UNCHANGED snap /\ pc[c] = "ledger"
        /\ found' = [found EXCEPT ![c] = seen]
    BY <1>6 DEF ReadLedger
  <2>2. r.op \in {"settle", "refund"} => escrow[r.deal] # "none"
    BY <2>1 DEF IInv, CallFits, Fits
  <2>3. seen \in BOOLEAN
    OBVIOUS
  <2>4. seen => keys \subseteq ledger
    OBVIOUS
  <2> HIDE DEF seen
  <2> QED
    BY <1>3, <2>1, <2>2, <2>3, <2>4
<1> QED
  BY <1>2, <1>4, <1>5, <1>6

-----------------------------------------------------------------------------
(* The writes *)

RowsType ==
    /\ deal \in [Deals -> [status : DealState \cup {"none"}, stamps : SUBSET Stamp]]
    /\ event \in [References -> Deals \cup {NoDeal}]
    /\ escrow \in [Deals -> AdDealEscrowStatus \cup {"none"}]
    /\ dispute \in [Deals -> {"none", "open", "settle", "refund"}]
    /\ ledger \subseteq LedgerKeys
    /\ balance \in [Wallets -> Int]

(* A commit that lets the rows grow and keeps what holds of them *)
LEMMA CommitKeeps ==
    ASSUME IInv, NEW c \in Calls, End(c), Grow, RowsType', RowsInv'
    PROVE  IInv'
<1>1. /\ pc' = [pc EXCEPT ![c] = "idle"]
      /\ req' = [req EXCEPT ![c] = NoRequest]
      /\ snap' = [snap EXCEPT ![c] = NoRequest]
      /\ found' = [found EXCEPT ![c] = FALSE]
  BY DEF End
<1>2. TypeOK'
  BY <1>1 DEF IInv, TypeOK, RowsType, Step
<1>3. CallFits' /\ CallExists'
  BY EndFits
<1> QED
  BY <1>2, <1>3 DEF IInv, RowsInv

(* What the call knows when it commits *)
LEMMA CommitKnows ==
    ASSUME IInv, NEW c \in Calls, NEW op \in Operation, Commits(c, op)
    PROVE  /\ req[c] \in Request /\ req[c].op = op /\ req[c].deal \in Deals
           /\ Exists(req[c].deal)
           /\ snap[c] \in Snapshot /\ Fits(c) /\ pc[c] = "write"
           /\ DomainAllows(req[c], snap[c])
           /\ op # "fund" => snap[c].status \in From[op]
           /\ ~ DuplicateEntry(c)
           /\ End(c)
<1>1. pc[c] = "write" /\ req[c].op = op /\ ~ AlreadyDone(req[c], snap[c])
  BY DEF Commits
<1>2. req[c] \in Request /\ Fits(c) /\ snap[c] \in Snapshot
  BY <1>1 DEF IInv, TypeOK, CallFits
<1>3. op # "fund" => snap[c].status \in From[op]
  BY <1>1, <1>2 DEF Fits
<1> QED
  BY <1>1, <1>2, <1>3 DEF Commits, IInv, CallExists, Request

(* The update of the deal adds timestamps and leaves a row the aggregate       *)
(* accepts, whatever others have written since the deal was read.            *)
LEMMA UpdateKeeps ==
    ASSUME IInv, NEW c \in Calls, NEW op \in Operation, Commits(c, op),
           deal' = Updated(c)
    PROVE  /\ deal' \in [Deals -> [status : DealState \cup {"none"}, stamps : SUBSET Stamp]]
           /\ \A d \in Deals : Exists(d) => Exists(d)' /\ deal[d].stamps \subseteq deal'[d].stamps
           /\ RowsRehydrate'
           /\ NothingBefore'
           /\ \A d \in Deals : d # req[c].deal => deal'[d] = deal[d]
           /\ deal'[req[c].deal] = [status |-> To[op],
                                    stamps |-> deal[req[c].deal].stamps \cup StampsOf[op]]
<1> DEFINE d == req[c].deal
           new == [status |-> To[op], stamps |-> deal[d].stamps \cup StampsOf[op]]
<1>1. req[c].op = op /\ d \in Deals /\ Exists(d) /\ Fits(c) /\ pc[c] = "write"
      /\ snap[c] \in Snapshot /\ DomainAllows(req[c], snap[c])
  BY CommitKnows
<1>2. To[op] \in DealState /\ StampsOf[op] \subseteq Stamp
  BY DEF Operation, To, StampsOf, DealState, Stamp
<1>3. deal[d] \in [status : DealState \cup {"none"}, stamps : SUBSET Stamp]
  BY <1>1 DEF IInv, TypeOK
<1>4. deal' = [deal EXCEPT ![d] = new]
  BY <1>1, <1>3 DEF Updated, IInv, TypeOK
<1>5. new \in [status : DealState \cup {"none"}, stamps : SUBSET Stamp]
  BY <1>2, <1>3
<1>6. deal'[d] = new /\ \A e \in Deals : e # d => deal'[e] = deal[e]
  BY <1>1, <1>4 DEF IInv, TypeOK
<1>7. deal' \in [Deals -> [status : DealState \cup {"none"}, stamps : SUBSET Stamp]]
  <2> HIDE DEF new
  <2> QED BY <1>4, <1>5 DEF IInv, TypeOK
<1>8. To[op] # "none"
  BY <1>2 DEF DealState
<1>9. RequiredStamps(To[op]) \subseteq snap[c].stamps \cup StampsOf[op]
  BY <1>1 DEF DomainAllows, Rehydrates
<1>10. snap[c].stamps \subseteq deal[d].stamps
  BY <1>1 DEF Fits
<1>11. RowsRehydrate'
  BY <1>6, <1>9, <1>10 DEF RowsRehydrate, IInv, Exists
<1>12. NothingBefore'
  BY <1>6, <1>8 DEF NothingBefore, IInv, Exists
<1>13. \A e \in Deals : Exists(e) => Exists(e)' /\ deal[e].stamps \subseteq deal'[e].stamps
  BY <1>6, <1>8 DEF Exists
<1> QED
  BY <1>6, <1>7, <1>11, <1>12, <1>13

(* An update to another status than settled and refunded, by an operation that *)
(* writes no payout, commission or refund                                    *)
LEMMA UpdateKeepsPayments ==
    ASSUME IInv, NEW c \in Calls,
           NEW op \in {"fund", "lock", "accept", "confirm", "proof", "dispute"},
           Commits(c, op), deal' = Updated(c),
           \A d \in Deals : /\ <<"payout", d>> \in ledger' <=> <<"payout", d>> \in ledger
                            /\ <<"refund", d>> \in ledger' <=> <<"refund", d>> \in ledger
                            /\ <<"commission", d>> \in ledger' <=> <<"commission", d>> \in ledger
    PROVE  StatusPaid' /\ PaidForProof'
<1> op \in Operation
  BY DEF Operation
<1>1. /\ \A d \in Deals : d # req[c].deal => deal'[d] = deal[d]
      /\ deal'[req[c].deal] = [status |-> To[op],
                               stamps |-> deal[req[c].deal].stamps \cup StampsOf[op]]
  BY UpdateKeeps
<1>2. To[op] \notin {"settled", "refunded"}
  BY DEF To
<1>3. \A d \in Deals : /\ deal'[d].status \in {"settled", "refunded"} => deal'[d] = deal[d]
                       /\ deal[d].stamps \subseteq deal'[d].stamps
  BY <1>1, <1>2
<1>4. StatusPaid'
  BY <1>3 DEF StatusPaid, IInv
<1>5. PaidForProof'
  BY <1>3 DEF PaidForProof, IInv
<1> QED
  BY <1>4, <1>5

LEMMA SimpleKeeps ==
    ASSUME IInv, NEW c \in Calls, NEW op \in {"accept", "confirm", "proof"},
           Commits(c, op), deal' = Updated(c),
           UNCHANGED <<event, escrow, dispute, ledger, balance>>
    PROVE  IInv'
<1> op \in Operation
  BY DEF Operation
<1>1. RowsType' /\ Grow /\ RowsRehydrate' /\ NothingBefore'
  BY UpdateKeeps DEF IInv, TypeOK, RowsType, Grow
<1>2. StatusPaid' /\ PaidForProof'
  BY UpdateKeepsPayments
<1>3. EscrowFollowsLedger' /\ ResolutionPaid'
  BY DEF IInv, EscrowFollowsLedger, ResolutionPaid
<1> QED
  BY <1>1, <1>2, <1>3, CommitKeeps, CommitKnows DEF RowsInv

LEMMA DisputeKeeps ==
    ASSUME IInv, NEW c \in Calls, Dispute(c)
    PROVE  IInv'
<1> "dispute" \in Operation
  BY DEF Operation
<1> DEFINE d == req[c].deal
<1>1. /\ Commits(c, "dispute")
      /\ dispute' = [dispute EXCEPT ![d] = "open"]
      /\ deal' = Updated(c)
      /\ UNCHANGED <<event, escrow, ledger, balance>>
  BY DEF Dispute
<1>2. RowsType' /\ Grow /\ RowsRehydrate' /\ NothingBefore'
  BY <1>1, UpdateKeeps DEF IInv, TypeOK, RowsType, Grow
<1>3. StatusPaid' /\ PaidForProof'
  BY <1>1, UpdateKeepsPayments
<1>4. EscrowFollowsLedger' /\ ResolutionPaid'
  BY <1>1 DEF IInv, TypeOK, EscrowFollowsLedger, ResolutionPaid
<1> QED
  BY <1>1, <1>2, <1>3, <1>4, CommitKeeps, CommitKnows DEF RowsInv

LEMMA FundKeeps ==
    ASSUME IInv, NEW c \in Calls, Fund(c)
    PROVE  IInv'
<1> "fund" \in Operation
  BY DEF Operation
<1> DEFINE r == req[c]
<1>1. /\ Commits(c, "fund")
      /\ event' = IF event[r.ref] = NoDeal THEN [event EXCEPT ![r.ref] = r.deal] ELSE event
      /\ MoveMoney(c)
      /\ deal' = Updated(c) \/ deal' = deal
      /\ UNCHANGED <<escrow, dispute>>
  BY DEF Fund
<1>2. r \in Request /\ r.op = "fund" /\ r.deal \in Deals /\ End(c)
  BY <1>1, CommitKnows
<1>3. event' \in [References -> Deals \cup {NoDeal}]
  BY <1>1, <1>2 DEF IInv, TypeOK
<1>4. /\ ledger' \subseteq LedgerKeys /\ balance' \in [Wallets -> Int]
      /\ ledger \subseteq ledger'
      /\ \A k \in ledger' : k \in ledger \/ k \in Keys(r, snap[c].status)
  BY <1>1, <1>2, MoveMoneyType DEF IInv
<1>5. Keys(r, snap[c].status) \subseteq {<<"deposit", r.ref>>}
  BY <1>2 DEF Keys
<1>6. \A kind \in {"payout", "refund", "commission", "escrow_hold"}, d \in Deals :
         <<kind, d>> \in ledger' <=> <<kind, d>> \in ledger
  BY <1>4, <1>5
<1>7. EscrowFollowsLedger' /\ ResolutionPaid'
  BY <1>1, <1>6 DEF IInv, EscrowFollowsLedger, ResolutionPaid
<1>8. CASE deal' = Updated(c)
  <2>1. RowsType' /\ Grow /\ RowsRehydrate' /\ NothingBefore'
    BY <1>1, <1>3, <1>4, <1>8, UpdateKeeps DEF IInv, TypeOK, RowsType, Grow
  <2>2. StatusPaid' /\ PaidForProof'
    BY <1>1, <1>6, <1>8, UpdateKeepsPayments
  <2> QED
    BY <1>2, <1>7, <2>1, <2>2, CommitKeeps DEF RowsInv
<1>9. CASE deal' = deal
  <2>1. RowsType' /\ Grow /\ RowsRehydrate' /\ NothingBefore'
    BY <1>1, <1>3, <1>4, <1>9 DEF IInv, TypeOK, RowsType, Grow, RowsRehydrate,
       NothingBefore, Exists
  <2>2. StatusPaid' /\ PaidForProof'
    BY <1>6, <1>9 DEF IInv, StatusPaid, PaidForProof
  <2> QED
    BY <1>2, <1>7, <2>1, <2>2, CommitKeeps DEF RowsInv
<1> QED
  BY <1>1, <1>8, <1>9

LEMMA LockKeeps ==
    ASSUME IInv, NEW c \in Calls, Lock(c)
    PROVE  IInv'
<1> "lock" \in Operation
  BY DEF Operation
<1> DEFINE r == req[c]
           keys == Keys(r, snap[c].status)
<1>1. /\ Commits(c, "lock")
      /\ MoveMoney(c)
      /\ escrow' = Escrowed(c)
      /\ deal' = Updated(c)
      /\ UNCHANGED <<event, dispute>>
  BY DEF Lock
<1>2. r \in Request /\ r.op = "lock" /\ r.deal \in Deals /\ End(c) /\ Fits(c)
  BY <1>1, CommitKnows
<1>3. /\ ledger' \subseteq LedgerKeys /\ balance' \in [Wallets -> Int]
      /\ ledger \subseteq ledger'
      /\ \A k \in ledger' : k \in ledger \/ k \in keys
      /\ ~ found[c] => keys \subseteq ledger'
  BY <1>1, <1>2, MoveMoneyType DEF IInv
<1>4. keys = IF snap[c].status = "funded" THEN {<<"escrow_hold", r.deal>>} ELSE {}
  BY <1>2 DEF Keys
<1>5. found[c] => keys \subseteq ledger
  BY <1>2 DEF Fits
<1>6. \A kind \in {"payout", "refund", "commission"}, d \in Deals :
         <<kind, d>> \in ledger' <=> <<kind, d>> \in ledger
  BY <1>3, <1>4
<1>7. \A d \in Deals : <<"escrow_hold", d>> \in ledger' <=>
         <<"escrow_hold", d>> \in ledger \/ (d = r.deal /\ snap[c].status = "funded")
  BY <1>3, <1>4, <1>5
<1>8. \A d \in Deals : escrow'[d] =
         IF d = r.deal /\ snap[c].status = "funded" /\ escrow[d] = "none"
         THEN "locked" ELSE escrow[d]
  BY <1>1, <1>2 DEF Escrowed, IInv, TypeOK
<1>9. escrow' \in [Deals -> AdDealEscrowStatus \cup {"none"}]
  BY <1>1, <1>2 DEF Escrowed, IInv, TypeOK, AdDealEscrowStatus
<1>10. EscrowFollowsLedger'
  <2> SUFFICES ASSUME NEW d \in Deals
               PROVE  LET paid == <<"payout", d>> \in ledger'
                          back == <<"refund", d>> \in ledger'
                      IN
                      /\ escrow'[d] # "none" <=> <<"escrow_hold", d>> \in ledger'
                      /\ escrow'[d] = "settled" => paid
                      /\ escrow'[d] = "refunded" => back
                      /\ escrow'[d] = "locked" => ~ paid /\ ~ back
                      /\ paid \/ back => escrow'[d] # "none"
    BY DEF EscrowFollowsLedger
  <2> QED
    BY <1>6, <1>7, <1>8 DEF IInv, EscrowFollowsLedger
<1>11. ResolutionPaid'
  BY <1>1, <1>6 DEF IInv, ResolutionPaid
<1>12. RowsType' /\ Grow /\ RowsRehydrate' /\ NothingBefore'
  <2>1. \A d \in Deals : escrow[d] # "none" => escrow'[d] # "none"
    BY <1>8
  <2> QED
    BY <1>1, <1>3, <1>9, <2>1, UpdateKeeps DEF IInv, TypeOK, RowsType, Grow
<1>13. StatusPaid' /\ PaidForProof'
  BY <1>1, <1>6, UpdateKeepsPayments
<1> QED
  BY <1>2, <1>10, <1>11, <1>12, <1>13, CommitKeeps DEF RowsInv

(* A settlement pays publisher and platform, the row it leaves has every stamp *)
(* a settled deal needs, and its escrow row was there when the call read it.  *)
LEMMA SettleKeeps ==
    ASSUME IInv, NEW c \in Calls, Settle(c)
    PROVE  IInv'
<1> "settle" \in Operation
  BY DEF Operation
<1> DEFINE r == req[c]
           d == r.deal
           keys == Keys(r, snap[c].status)
<1>1. /\ Commits(c, "settle")
      /\ MoveMoney(c)
      /\ escrow' = [escrow EXCEPT ![d] = "settled"]
      /\ deal' = Updated(c)
      /\ dispute' = Resolved(c)
      /\ UNCHANGED event
  BY DEF Settle
<1>2. /\ r \in Request /\ r.op = "settle" /\ d \in Deals /\ End(c) /\ Fits(c)
      /\ pc[c] = "write" /\ DomainAllows(r, snap[c])
      /\ snap[c].status \in {"proof_submitted", "disputed"}
  BY <1>1, CommitKnows DEF From
<1>3. /\ ledger' \subseteq LedgerKeys /\ balance' \in [Wallets -> Int]
      /\ ledger \subseteq ledger'
      /\ \A k \in ledger' : k \in ledger \/ k \in keys
      /\ ~ found[c] => keys \subseteq ledger'
  BY <1>1, <1>2, MoveMoneyType DEF IInv
<1>4. keys = {<<"payout", d>>, <<"commission", d>>}
  <2>1. Reasons(r, snap[c].status) = MoneyMovement(snap[c].status, "settled")
    BY <1>2 DEF DomainAllows, To
  <2>2. MoneyMovement(snap[c].status, "settled") = {"payout", "commission"}
    BY <1>2 DEF MoneyMovement
  <2>3. Reasons(r, snap[c].status) =
            {"payout"} \cup (IF Commission[d] > 0 THEN {"commission"} ELSE {})
    BY <1>2 DEF Reasons
  <2>4. Commission[d] > 0
    BY <2>1, <2>2, <2>3
  <2> QED
    BY <1>2, <2>4 DEF Keys
<1>5. found[c] => keys \subseteq ledger
  BY <1>2 DEF Fits
<1>6. \A kind \in {"payout", "commission"}, e \in Deals :
         <<kind, e>> \in ledger' <=> <<kind, e>> \in ledger \/ e = d
  BY <1>2, <1>3, <1>4, <1>5
<1>7. \A kind \in {"refund", "escrow_hold"}, e \in Deals :
         <<kind, e>> \in ledger' <=> <<kind, e>> \in ledger
  BY <1>3, <1>4
<1>8. \A e \in Deals : escrow'[e] = IF e = d THEN "settled" ELSE escrow[e]
  BY <1>1, <1>2 DEF IInv, TypeOK
<1>9. escrow[d] # "none"
  BY <1>2 DEF Fits
<1>10. dispute' \in [Deals -> {"none", "open", "settle", "refund"}]
       /\ \A e \in Deals : dispute'[e] = dispute[e] \/ (e = d /\ dispute'[e] = "settle")
  BY <1>1, <1>2 DEF Resolved, IInv, TypeOK
<1>11. RowsType' /\ Grow /\ RowsRehydrate' /\ NothingBefore'
  <2>1. escrow' \in [Deals -> AdDealEscrowStatus \cup {"none"}]
    BY <1>1, <1>2 DEF IInv, TypeOK, AdDealEscrowStatus
  <2>2. \A e \in Deals : escrow[e] # "none" => escrow'[e] # "none"
    BY <1>8
  <2> QED
    BY <1>1, <1>3, <1>10, <2>1, <2>2, UpdateKeeps DEF IInv, TypeOK, RowsType, Grow
<1>12. /\ \A e \in Deals : e # d => deal'[e] = deal[e]
       /\ deal'[d].status = "settled"
       /\ \A e \in Deals : deal[e].stamps \subseteq deal'[e].stamps
  <2>1. /\ \A e \in Deals : e # d => deal'[e] = deal[e]
        /\ deal'[d] = [status |-> To["settle"],
                       stamps |-> deal[d].stamps \cup StampsOf["settle"]]
    BY <1>1, UpdateKeeps
  <2>2. To["settle"] = "settled"
    BY DEF To
  <2> QED
    BY <2>1, <2>2
<1>13. EscrowFollowsLedger'
  BY <1>6, <1>7, <1>8, <1>9 DEF IInv, EscrowFollowsLedger
<1>14. ResolutionPaid'
  BY <1>6, <1>7, <1>10 DEF IInv, ResolutionPaid
<1>15. StatusPaid'
  BY <1>6, <1>7, <1>12 DEF IInv, StatusPaid
<1>16. PaidForProof'
  <2>1. RequiredStamps("settled") \subseteq deal'[d].stamps
    BY <1>2, <1>11, <1>12 DEF RowsRehydrate, Exists
  <2>2. {"requested", "accepted", "confirmed", "proof"} \subseteq RequiredStamps("settled")
    BY DEF RequiredStamps
  <2> QED
    BY <1>6, <1>12, <2>1, <2>2 DEF IInv, PaidForProof
<1> QED
  BY <1>2, <1>11, <1>13, <1>14, <1>15, <1>16, CommitKeeps DEF RowsInv

LEMMA RefundKeeps ==
    ASSUME IInv, NEW c \in Calls, Refund(c)
    PROVE  IInv'
<1> "refund" \in Operation
  BY DEF Operation
<1> DEFINE r == req[c]
           d == r.deal
           keys == Keys(r, snap[c].status)
<1>1. /\ Commits(c, "refund")
      /\ MoveMoney(c)
      /\ escrow' = [escrow EXCEPT ![d] = "refunded"]
      /\ deal' = Updated(c)
      /\ dispute' = Resolved(c)
      /\ UNCHANGED event
  BY DEF Refund
<1>2. r \in Request /\ r.op = "refund" /\ d \in Deals /\ End(c) /\ Fits(c) /\ pc[c] = "write"
  BY <1>1, CommitKnows
<1>3. /\ ledger' \subseteq LedgerKeys /\ balance' \in [Wallets -> Int]
      /\ ledger \subseteq ledger'
      /\ \A k \in ledger' : k \in ledger \/ k \in keys
      /\ ~ found[c] => keys \subseteq ledger'
  BY <1>1, <1>2, MoveMoneyType DEF IInv
<1>4. keys = {<<"refund", d>>}
  BY <1>2 DEF Keys
<1>5. found[c] => keys \subseteq ledger
  BY <1>2 DEF Fits
<1>6. \A e \in Deals : <<"refund", e>> \in ledger' <=> <<"refund", e>> \in ledger \/ e = d
  BY <1>2, <1>3, <1>4, <1>5
<1>7. \A kind \in {"payout", "commission", "escrow_hold"}, e \in Deals :
         <<kind, e>> \in ledger' <=> <<kind, e>> \in ledger
  BY <1>3, <1>4
<1>8. \A e \in Deals : escrow'[e] = IF e = d THEN "refunded" ELSE escrow[e]
  BY <1>1, <1>2 DEF IInv, TypeOK
<1>9. escrow[d] # "none"
  BY <1>2 DEF Fits
<1>10. dispute' \in [Deals -> {"none", "open", "settle", "refund"}]
       /\ \A e \in Deals : dispute'[e] = dispute[e] \/ (e = d /\ dispute'[e] = "refund")
  BY <1>1, <1>2 DEF Resolved, IInv, TypeOK
<1>11. RowsType' /\ Grow /\ RowsRehydrate' /\ NothingBefore'
  <2>1. escrow' \in [Deals -> AdDealEscrowStatus \cup {"none"}]
    BY <1>1, <1>2 DEF IInv, TypeOK, AdDealEscrowStatus
  <2>2. \A e \in Deals : escrow[e] # "none" => escrow'[e] # "none"
    BY <1>8
  <2> QED
    BY <1>1, <1>3, <1>10, <2>1, <2>2, UpdateKeeps DEF IInv, TypeOK, RowsType, Grow
<1>12. /\ \A e \in Deals : e # d => deal'[e] = deal[e]
       /\ deal'[d].status = "refunded"
       /\ \A e \in Deals : deal[e].stamps \subseteq deal'[e].stamps
  <2>1. /\ \A e \in Deals : e # d => deal'[e] = deal[e]
        /\ deal'[d] = [status |-> To["refund"],
                       stamps |-> deal[d].stamps \cup StampsOf["refund"]]
    BY <1>1, UpdateKeeps
  <2>2. To["refund"] = "refunded"
    BY DEF To
  <2> QED
    BY <2>1, <2>2
<1>13. EscrowFollowsLedger'
  BY <1>6, <1>7, <1>8, <1>9 DEF IInv, EscrowFollowsLedger
<1>14. ResolutionPaid'
  BY <1>6, <1>7, <1>10 DEF IInv, ResolutionPaid
<1>15. StatusPaid'
  BY <1>6, <1>7, <1>12 DEF IInv, StatusPaid
<1>16. PaidForProof'
  BY <1>7, <1>12 DEF IInv, PaidForProof
<1> QED
  BY <1>2, <1>11, <1>13, <1>14, <1>15, <1>16, CommitKeeps DEF RowsInv

(* A dispute is closed over a deal whose status says what it was closed with,  *)
(* and the status says what was paid.                                        *)
LEMMA ResolveOnlyKeeps ==
    ASSUME IInv, NEW c \in Calls, ResolveOnly(c)
    PROVE  IInv'
<1> DEFINE r == req[c]
           d == r.deal
<1>1. /\ pc[c] = "write"
      /\ AlreadyDone(r, snap[c])
      /\ dispute' = Resolved(c)
      /\ End(c)
      /\ UNCHANGED <<deal, event, escrow, ledger, balance>>
  BY DEF ResolveOnly
<1>2. r \in Request /\ d \in Deals /\ Fits(c) /\ snap[c] \in Snapshot
  BY <1>1 DEF IInv, TypeOK, CallFits, Request
<1>3. r.op \in Operation /\ r.resolves /\ snap[c].status = To[r.op]
  BY <1>1, <1>2 DEF AlreadyDone, Request
<1>4. r.op \in {"settle", "refund"}
  BY <1>2, <1>3 DEF Request
<1>5. (r.op = "settle" => <<"payout", d>> \in ledger)
      /\ (r.op = "refund" => <<"refund", d>> \in ledger)
  BY <1>1, <1>2, <1>3 DEF Fits, To
<1>6. dispute' \in [Deals -> {"none", "open", "settle", "refund"}]
      /\ \A e \in Deals : dispute'[e] = dispute[e] \/ (e = d /\ dispute'[e] = r.op)
  BY <1>1, <1>2, <1>4 DEF Resolved, IInv, TypeOK
<1>7. ResolutionPaid'
  BY <1>1, <1>5, <1>6 DEF IInv, ResolutionPaid
<1>8. RowsType' /\ Grow
  BY <1>1, <1>6 DEF IInv, TypeOK, RowsType, Grow, Exists
<1>9. NothingBefore' /\ StatusPaid' /\ RowsRehydrate' /\ EscrowFollowsLedger' /\ PaidForProof'
  BY <1>1 DEF IInv, NothingBefore, StatusPaid, RowsRehydrate, EscrowFollowsLedger,
     PaidForProof, Exists
<1> QED
  BY <1>1, <1>7, <1>8, <1>9, CommitKeeps DEF RowsInv

LEMMA CommitsKeep ==
    ASSUME IInv, NEW c \in Calls, Commit(c)
    PROVE  IInv'
<1>1. CASE Fund(c)
  BY <1>1, FundKeeps
<1>2. CASE Lock(c)
  BY <1>2, LockKeeps
<1>3. CASE Accept(c)
  BY <1>3, SimpleKeeps DEF Accept
<1>4. CASE Confirm(c)
  BY <1>4, SimpleKeeps DEF Confirm
<1>5. CASE SubmitProof(c)
  BY <1>5, SimpleKeeps DEF SubmitProof
<1>6. CASE Settle(c)
  BY <1>6, SettleKeeps
<1>7. CASE Refund(c)
  BY <1>7, RefundKeeps
<1>8. CASE Dispute(c)
  BY <1>8, DisputeKeeps
<1>9. CASE ResolveOnly(c)
  BY <1>9, ResolveOnlyKeeps
<1> QED
  BY <1>1, <1>2, <1>3, <1>4, <1>5, <1>6, <1>7, <1>8, <1>9 DEF Commit

-----------------------------------------------------------------------------
(* The theorems *)

LEMMA InitHolds ==
    ASSUME Init
    PROVE  IInv
<1>1. OpeningBalance("advertiser") \in Int /\ \A w \in Wallets : OpeningBalance(w) \in Int
  BY MoneyAssumption DEF OpeningBalance
<1>2. TypeOK
  BY <1>1 DEF Init, TypeOK, Step
<1>3. CallExists /\ NothingBefore /\ CallFits
  BY DEF Init, CallExists, NothingBefore, CallFits, Fits
<1>4. StatusPaid /\ RowsRehydrate /\ EscrowFollowsLedger /\ PaidForProof /\ ResolutionPaid
  BY DEF Init, StatusPaid, RowsRehydrate, EscrowFollowsLedger, PaidForProof,
     ResolutionPaid, Exists
<1> QED
  BY <1>2, <1>3, <1>4 DEF IInv

LEMMA StepKeeps ==
    ASSUME IInv, [Next]_vars
    PROVE  IInv'
<1>1. CASE UNCHANGED vars
  BY <1>1 DEF vars, rows, IInv, TypeOK, CallExists, NothingBefore, CallFits, Fits,
     AlreadyDone, StatusPaid, RowsRehydrate, EscrowFollowsLedger, PaidForProof,
     ResolutionPaid, Exists
<1>2. ASSUME NEW c \in Calls, NEW d \in Deals, Start(c, d) PROVE IInv'
  BY <1>2, StartKeeps
<1>3. ASSUME NEW c \in Calls,
             ReadDeal(c) \/ ReadEvent(c) \/ ReadEscrow(c) \/ ReadLedger(c)
      PROVE  IInv'
  BY <1>3, ReadKeeps
<1>4. ASSUME NEW c \in Calls, Commit(c) PROVE IInv'
  BY <1>4, CommitsKeep
<1>5. ASSUME NEW c \in Calls, Abort(c) PROVE IInv'
  BY <1>5, RollbackKeeps DEF Abort
<1> QED
  BY <1>1, <1>2, <1>3, <1>4, <1>5 DEF Next


LEMMA Inductive == Spec => []IInv
<1>1. Init => IInv
  BY InitHolds
<1>2. IInv /\ [Next]_vars => IInv'
  BY StepKeeps
<1> QED
  BY <1>1, <1>2, PTL DEF Spec

(* What holds of a run holds of every part of the inductive invariant. *)
LEMMA Parts ==
    ASSUME IInv
    PROVE  /\ TypeOK
           /\ RowsRehydrate
           /\ EscrowFollowsLedger
           /\ PaidForProof
           /\ ResolutionPaid
BY DEF IInv

(* The state stays well typed; in particular the ledger holds no key the      *)
(* operations do not write.                                                  *)
THEOREM TypeCorrect == Spec => []TypeOK
BY Inductive, Parts, PTL

(* Whatever calls overlap and overwrite each other's status, a stored deal is *)
(* one that AdDeal.rehydrate accepts.                                        *)
THEOREM AlwaysRehydrates == Spec => []RowsRehydrate
BY Inductive, Parts, PTL

(* The escrow row never says other than the ledger what was held, paid or     *)
(* given back.                                                               *)
THEOREM EscrowAgrees == Spec => []EscrowFollowsLedger
BY Inductive, Parts, PTL

(* No interleaving pays a publisher for a deal without a proof, or pays a     *)
(* publisher and leaves the platform out.                                    *)
THEOREM PaidOnlyForProof == Spec => []PaidForProof
BY Inductive, Parts, PTL

(* A dispute is resolved only as its deal was: by the payment its resolution  *)
(* names.                                                                    *)
THEOREM ResolutionsPaid == Spec => []ResolutionPaid
BY Inductive, Parts, PTL
-----------------------------------------------------------------------------
(* The books *)

EntriesOf(L, w) == {k \in L : EntryWallet(k) = w}

(* A new entry adds its amount to what the entries of its wallet come to, and  *)
(* nothing to those of any other.                                            *)
LEMMA EntryAdds ==
    ASSUME NEW L, IsFiniteSet(L), L \subseteq LedgerKeys, NEW k \in LedgerKeys, k \notin L,
           NEW w
    PROVE  /\ IsFiniteSet(L \cup {k})
           /\ Total(EntryAmount, EntriesOf(L, w)) \in Int
           /\ Total(EntryAmount, EntriesOf(L \cup {k}, w)) =
                 Total(EntryAmount, EntriesOf(L, w)) + Gain({k}, w)
<1> DEFINE E == EntriesOf(L, w)
<1>1. IsFiniteSet(E) /\ k \notin E /\ E \subseteq LedgerKeys
  BY FS_Subset DEF EntriesOf
<1>2. \A j \in E \cup {k} : EntryAmount[j] \in Int
  BY <1>1, EntryAmountType
<1>3. Total(EntryAmount, E) \in Int
  BY <1>1, <1>2, TotalType
<1>4. CASE EntryWallet(k) = w
  <2>1. EntriesOf(L \cup {k}, w) = E \cup {k}
    BY <1>4 DEF EntriesOf
  <2>2. Total(EntryAmount, E \cup {k}) = Total(EntryAmount, E) + EntryAmount[k]
    BY <1>1, <1>2, TotalWith
  <2>3. Gain({k}, w) = EntryAmount[k]
    BY <1>4 DEF Gain
  <2> QED
    BY <1>3, <2>1, <2>2, <2>3, FS_AddElement
<1>5. CASE EntryWallet(k) # w
  <2>1. EntriesOf(L \cup {k}, w) = E
    BY <1>5 DEF EntriesOf
  <2>2. Gain({k}, w) = 0
    BY <1>5 DEF Gain
  <2> QED
    BY <1>3, <2>1, <2>2, FS_AddElement
<1> QED
  BY <1>4, <1>5

(* An operation writes no entry, one, or a payout and a commission.           *)
LEMMA KeysAreFew ==
    ASSUME NEW r \in Request, NEW from
    PROVE  \/ Keys(r, from) = {}
           \/ \E k \in LedgerKeys : Keys(r, from) = {k}
           \/ \E d \in Deals : Keys(r, from) = {<<"payout", d>>, <<"commission", d>>}
<1>1. r.deal \in Deals /\ r.ref \in References
  BY DEF Request
<1>2. CASE r.op = "settle" /\ Commission[r.deal] > 0
  BY <1>1, <1>2 DEF Keys
<1>3. CASE ~ (r.op = "settle" /\ Commission[r.deal] > 0)
  BY <1>1, <1>3 DEF Keys, LedgerKeys
<1> QED
  BY <1>2, <1>3

(* New entries add to each wallet's total what the wallet gains.              *)
LEMMA KeysAdd ==
    ASSUME NEW L, IsFiniteSet(L), L \subseteq LedgerKeys, NEW w,
           NEW r \in Request, NEW from, Keys(r, from) \cap L = {}
    PROVE  /\ IsFiniteSet(L \cup Keys(r, from))
           /\ Total(EntryAmount, EntriesOf(L, w)) \in Int
           /\ Total(EntryAmount, EntriesOf(L \cup Keys(r, from), w)) =
                 Total(EntryAmount, EntriesOf(L, w)) + Gain(Keys(r, from), w)
<1> DEFINE keys == Keys(r, from)
           before == Total(EntryAmount, EntriesOf(L, w))
           after == Total(EntryAmount, EntriesOf(L \cup keys, w))
<1>0. before \in Int
  <2>1. IsFiniteSet(EntriesOf(L, w)) /\ EntriesOf(L, w) \subseteq LedgerKeys
    BY FS_Subset DEF EntriesOf
  <2> QED
    BY <2>1, EntryAmountType, TotalType
<1>1. ASSUME keys = {}
      PROVE  IsFiniteSet(L \cup keys) /\ after = before + Gain(keys, w)
  <2>1. L \cup keys = L
    BY <1>1
  <2>2. Gain(keys, w) = 0
    BY <1>1 DEF Gain
  <2>3. after = before
    BY <2>1
  <2> HIDE DEF keys, before, after
  <2> QED
    BY <1>0, <2>1, <2>2, <2>3
<1>2. ASSUME NEW k \in LedgerKeys, keys = {k}
      PROVE  IsFiniteSet(L \cup keys) /\ after = before + Gain(keys, w)
  BY <1>2, EntryAdds
<1>3. ASSUME NEW d \in Deals, keys = {<<"payout", d>>, <<"commission", d>>}
      PROVE  IsFiniteSet(L \cup keys) /\ after = before + Gain(keys, w)
  <2> DEFINE p == <<"payout", d>>
             m == <<"commission", d>>
  <2>1. p \in LedgerKeys /\ m \in LedgerKeys /\ p \notin L /\ m \notin L \cup {p}
    BY <1>3 DEF LedgerKeys
  <2>2. EntryWallet(p) = "publisher" /\ EntryWallet(m) = "platform"
    BY DEF EntryWallet
  <2>3. L \cup keys = (L \cup {p}) \cup {m}
    BY <1>3
  <2>4. /\ IsFiniteSet(L \cup {p}) /\ L \cup {p} \subseteq LedgerKeys
        /\ Total(EntryAmount, EntriesOf(L \cup {p}, w)) = before + Gain({p}, w)
    BY <2>1, EntryAdds
  <2>5. /\ IsFiniteSet((L \cup {p}) \cup {m})
        /\ Total(EntryAmount, EntriesOf((L \cup {p}) \cup {m}, w)) =
              Total(EntryAmount, EntriesOf(L \cup {p}, w)) + Gain({m}, w)
    BY <2>1, <2>4, EntryAdds
  <2>6. Gain({p}, w) \in Int /\ Gain({m}, w) \in Int
    BY <2>1, GainType
  <2>7. Gain(keys, w) = Gain({p}, w) + Gain({m}, w)
    <3>1. CASE w = "publisher"
      <4>1. Gain(keys, w) = Gain({p}, w) /\ Gain({m}, w) = 0
        BY <1>3, <2>2, <3>1 DEF Gain
      <4> HIDE DEF keys, p, m
      <4> QED
        BY <2>6, <4>1
    <3>2. CASE w # "publisher"
      <4>1. Gain(keys, w) = Gain({m}, w) /\ Gain({p}, w) = 0
        BY <1>3, <2>2, <3>2 DEF Gain
      <4> HIDE DEF keys, p, m
      <4> QED
        BY <2>6, <4>1
    <3> QED
      BY <3>1, <3>2
  <2>8. after = Total(EntryAmount, EntriesOf((L \cup {p}) \cup {m}, w))
    BY <2>3
  <2>9. IsFiniteSet(L \cup keys)
    BY <2>3, <2>5
  <2> DEFINE gp == Gain({p}, w)
             gm == Gain({m}, w)
             gain == Gain(keys, w)
  <2>10. after = (before + gp) + gm /\ gain = gp + gm /\ gp \in Int /\ gm \in Int
    BY <2>4, <2>5, <2>6, <2>7, <2>8
  <2>11. after = before + gain
    <3> HIDE DEF gp, gm, gain, before, after
    <3> QED
      BY <1>0, <2>10
  <2> QED
    BY <2>9, <2>11
<1> HIDE DEF keys, before, after
<1>4. \/ keys = {} \/ \E k \in LedgerKeys : keys = {k}
      \/ \E d \in Deals : keys = {<<"payout", d>>, <<"commission", d>>}
  BY KeysAreFew DEF keys
<1>5. IsFiniteSet(L \cup keys) /\ after = before + Gain(keys, w)
  BY <1>1, <1>2, <1>3, <1>4
<1> QED
  BY <1>0, <1>5 DEF keys, before, after

Books == IsFiniteSet(ledger) /\ BalanceIsLedger

LEMMA MoneyMoves ==
    ASSUME IInv, Books, NEW c \in Calls, req[c] \in Request, MoveMoney(c),
           ~ DuplicateEntry(c)
    PROVE  Books'
<1> DEFINE keys == Keys(req[c], snap[c].status)
           new == IF found[c] THEN {} ELSE keys
<1>1. ledger' = ledger \cup new /\ balance' = [w \in Wallets |-> balance[w] + Gain(new, w)]
  BY DEF MoveMoney
<1>2. IsFiniteSet(ledger) /\ ledger \subseteq LedgerKeys
  BY DEF IInv, TypeOK, Books
<1>3. ASSUME NEW w \in Wallets
      PROVE  /\ IsFiniteSet(ledger')
             /\ balance'[w] = OpeningBalance(w) + Total(EntryAmount, EntriesOf(ledger', w))
  <2>1. balance[w] = OpeningBalance(w) + Total(EntryAmount, EntriesOf(ledger, w))
    BY DEF Books, BalanceIsLedger, EntriesOf
  <2>2. OpeningBalance(w) \in Int /\ balance[w] \in Int
    BY MoneyAssumption DEF OpeningBalance, IInv, TypeOK
  <2>3. CASE new = {}
    <3>1. ledger' = ledger /\ Gain(new, w) = 0
      BY <1>1, <2>3 DEF Gain
    <3>2. balance'[w] = balance[w]
      <4> HIDE DEF new
      <4> QED
        BY <1>1, <2>2, <3>1
    <3> QED
      BY <1>2, <2>1, <3>1, <3>2
  <2>4. CASE new # {}
    <3>1. new = keys /\ keys \cap ledger = {}
      BY <2>4 DEF DuplicateEntry
    <3>2. /\ IsFiniteSet(ledger \cup keys)
          /\ Total(EntryAmount, EntriesOf(ledger, w)) \in Int
          /\ Total(EntryAmount, EntriesOf(ledger \cup keys, w)) =
                Total(EntryAmount, EntriesOf(ledger, w)) + Gain(keys, w)
      BY <1>2, <3>1, KeysAdd
    <3>3. Gain(keys, w) \in Int
      BY KeysAreLedgerKeys, GainType
    <3> HIDE DEF keys, new
    <3>4. ledger' = ledger \cup keys /\ balance'[w] = balance[w] + Gain(keys, w)
      BY <1>1, <3>1
    <3> QED
      BY <2>1, <2>2, <3>2, <3>3, <3>4
  <2> QED
    BY <2>3, <2>4
<1>4. "platform" \in Wallets
  BY DEF Wallets
<1> QED
  BY <1>3, <1>4 DEF Books, BalanceIsLedger, EntriesOf

(* Only four commits move money. *)
LEMMA MoneyStays ==
    ASSUME [Next]_vars, \A c \in Calls : ~ (Commit(c) /\ MoveMoney(c))
    PROVE  UNCHANGED <<ledger, balance>>
<1>1. ASSUME NEW c \in Calls, NEW d \in Deals, Start(c, d) PROVE UNCHANGED <<ledger, balance>>
  BY <1>1 DEF Start, CreateDeal, FundDeal, LockDeal, AcceptDeal, RejectDeal, ConfirmDeal,
     MarkPosted, SettleDeal, OpenDispute, ResolveDispute, Call, rows
<1>2. ASSUME NEW c \in Calls,
             ReadDeal(c) \/ ReadEvent(c) \/ ReadEscrow(c) \/ ReadLedger(c) \/ Abort(c)
      PROVE  UNCHANGED <<ledger, balance>>
  BY <1>2 DEF ReadDeal, ReadEvent, ReadEscrow, ReadLedger, Abort, Goto, Rollback, rows
<1>3. ASSUME NEW c \in Calls, Commit(c) PROVE UNCHANGED <<ledger, balance>>
  <2>1. ~ MoveMoney(c)
    BY <1>3
  <2> QED
    BY <1>3, <2>1 DEF Commit, Fund, Lock, Accept, Confirm, SubmitProof, Settle, Refund,
       Dispute, ResolveOnly
<1>4. CASE UNCHANGED vars
  BY <1>4 DEF vars, rows
<1> QED
  BY <1>1, <1>2, <1>3, <1>4 DEF Next

(* What a commit that moves money has checked *)
LEMMA MoverKnows ==
    ASSUME IInv, NEW c \in Calls, Commit(c), MoveMoney(c)
    PROVE  \/ UNCHANGED <<ledger, balance>>
           \/ /\ Fund(c) \/ Lock(c) \/ Settle(c) \/ Refund(c)
              /\ pc[c] = "write"
              /\ req[c] \in Request
              /\ ~ DuplicateEntry(c)
<1>1. pc[c] # "idle" => req[c] \in Request
  BY DEF IInv, TypeOK
<1> QED
  BY <1>1 DEF Commit, Fund, Lock, Accept, Confirm, SubmitProof, Settle, Refund, Dispute,
     ResolveOnly, Commits

LEMMA BooksKept ==
    ASSUME IInv, Books, [Next]_vars
    PROVE  Books'
<1>1. CASE UNCHANGED <<ledger, balance>>
  BY <1>1 DEF Books, BalanceIsLedger
<1>2. ASSUME NEW c \in Calls, Commit(c), MoveMoney(c), ~ UNCHANGED <<ledger, balance>>
      PROVE  Books'
  BY <1>2, MoverKnows, MoneyMoves
<1> QED
  BY <1>1, <1>2, MoneyStays

LEMMA InitBalances ==
    ASSUME Init
    PROVE  Books
<1>1. IsFiniteSet(ledger)
  BY FS_EmptySet DEF Init
<1>2. ASSUME NEW w \in Wallets
      PROVE  balance[w] = OpeningBalance(w) + Total(EntryAmount, {k \in ledger : EntryWallet(k) = w})
  <2>1. {k \in ledger : EntryWallet(k) = w} = {}
    BY DEF Init
  <2>2. balance[w] = OpeningBalance(w) /\ OpeningBalance(w) \in Int
    BY MoneyAssumption DEF Init, OpeningBalance
  <2> QED
    BY <2>1, <2>2, TotalEmpty
<1> QED
  BY <1>1, <1>2 DEF Books, BalanceIsLedger

LEMMA BooksInductive == Spec => []Books
<1>1. Init => Books
  BY InitBalances
<1>2. IInv /\ Books /\ [Next]_vars => Books'
  BY BooksKept
<1> QED
  BY Inductive, <1>1, <1>2, PTL DEF Spec

(* Whatever calls overlap, every wallet is its opening balance and its ledger *)
(* entries: a movement that is retried or reported again counts once.        *)
THEOREM BalancesAreLedger == Spec => []BalanceIsLedger
<1>1. Books => BalanceIsLedger
  BY DEF Books
<1> QED
  BY BooksInductive, <1>1, PTL
-----------------------------------------------------------------------------
(* Payments apart *)

CallSteps(c) ==
    \/ \E d \in Deals : Start(c, d)
    \/ ReadDeal(c) \/ ReadEvent(c) \/ ReadEscrow(c) \/ ReadLedger(c)
    \/ Commit(c) \/ Abort(c)

(* A step of a call touches its own slot, binds a reference that it funds its  *)
(* deal with, and takes an escrow out of its lock only to settle or refund.  *)
LEMMA TouchesItsOwn ==
    ASSUME IInv, NEW c \in Calls, CallSteps(c)
    PROVE  /\ \A b \in Calls \ {c} :
                 pc'[b] = pc[b] /\ req'[b] = req[b] /\ snap'[b] = snap[b]
           /\ \A d \in Deals : \/ escrow'[d] = escrow[d]
                              \/ escrow[d] = "none"
                              \/ /\ pc[c] # "idle" /\ d = req[c].deal
                                 /\ req[c].op \in {"settle", "refund"}
                                 /\ escrow'[d] = To[req[c].op]
           /\ \A r \in References : \/ event'[r] = event[r]
                                   \/ /\ pc[c] # "idle" /\ r = req[c].ref
                                      /\ req[c].op = "fund"
                                      /\ event[r] = NoDeal /\ event'[r] = req[c].deal
<1>1. ASSUME NEW d \in Deals, Start(c, d)
      PROVE  /\ UNCHANGED <<escrow, event, snap>>
             /\ pc' = [pc EXCEPT ![c] = "read"]
             /\ \E r : req' = [req EXCEPT ![c] = r]
  BY <1>1 DEF Start, CreateDeal, FundDeal, LockDeal, AcceptDeal, RejectDeal, ConfirmDeal,
     MarkPosted, SettleDeal, OpenDispute, ResolveDispute, Call, Begin, rows
<1>2. ASSUME End(c)
      PROVE  \A b \in Calls \ {c} :
                 pc'[b] = pc[b] /\ req'[b] = req[b] /\ snap'[b] = snap[b]
  BY <1>2 DEF End, IInv, TypeOK
<1>3. ASSUME ReadDeal(c) \/ ReadEvent(c) \/ ReadEscrow(c) \/ ReadLedger(c), ~ Rollback(c)
      PROVE  /\ UNCHANGED <<escrow, event, req>>
             /\ \E step : pc' = [pc EXCEPT ![c] = step]
             /\ snap' = snap \/ \E s : snap' = [snap EXCEPT ![c] = s]
  BY <1>3 DEF ReadDeal, ReadEvent, ReadEscrow, ReadLedger, Goto, rows
<1>4. ASSUME Commit(c)
      PROVE  /\ End(c) /\ pc[c] # "idle"
             /\ \/ escrow' = escrow
                \/ /\ escrow[req[c].deal] = "none"
                   /\ escrow' = [escrow EXCEPT ![req[c].deal] = "locked"]
                \/ /\ req[c].op \in {"settle", "refund"}
                   /\ escrow' = [escrow EXCEPT ![req[c].deal] = To[req[c].op]]
             /\ \/ event' = event
                \/ /\ req[c].op = "fund" /\ event[req[c].ref] = NoDeal
                   /\ event' = [event EXCEPT ![req[c].ref] = req[c].deal]
  BY <1>4 DEF Commit, Fund, Lock, Accept, Confirm, SubmitProof, Settle, Refund, Dispute,
     ResolveOnly, Commits, Escrowed, To
<1>5. ASSUME Abort(c) \/ Rollback(c) PROVE End(c) /\ UNCHANGED <<escrow, event>>
  BY <1>5 DEF Abort, Rollback, rows
<1>6. CASE \E d \in Deals : Start(c, d)
  BY <1>1, <1>6 DEF IInv, TypeOK
<1>7. CASE (ReadDeal(c) \/ ReadEvent(c) \/ ReadEscrow(c) \/ ReadLedger(c)) /\ ~ Rollback(c)
  BY <1>3, <1>7 DEF IInv, TypeOK
<1>8. CASE Commit(c)
  <2>1. escrow \in [Deals -> AdDealEscrowStatus \cup {"none"}]
        /\ event \in [References -> Deals \cup {NoDeal}]
    BY DEF IInv, TypeOK
  <2>2. \A d \in Deals : \/ escrow'[d] = escrow[d]
                       \/ escrow[d] = "none"
                       \/ /\ d = req[c].deal /\ req[c].op \in {"settle", "refund"}
                          /\ escrow'[d] = To[req[c].op]
    BY <1>4, <1>8, <2>1
  <2>3. \A r \in References : \/ event'[r] = event[r]
                            \/ /\ r = req[c].ref /\ req[c].op = "fund"
                               /\ event[r] = NoDeal /\ event'[r] = req[c].deal
    BY <1>4, <1>8, <2>1
  <2> QED
    BY <1>2, <1>4, <1>8, <2>2, <2>3
<1>9. CASE Abort(c) \/ Rollback(c)
  BY <1>2, <1>5, <1>9
<1> QED
  BY <1>6, <1>7, <1>8, <1>9 DEF CallSteps

(* Which steps lead a call to the ledger and the write, and what they read     *)
LEMMA OwnStep ==
    ASSUME IInv, NEW c \in Calls, CallSteps(c)
    PROVE  \/ pc'[c] \in {"idle", "read"}
           \/ /\ ReadDeal(c) /\ UNCHANGED <<req, escrow, event>> /\ req[c].op \in Operation
              /\ snap'[c] = deal[req[c].deal]
              /\ pc'[c] = IF AlreadyDone(req[c], snap'[c]) THEN "write" ELSE After(req[c].op)
           \/ /\ ReadEvent(c) /\ UNCHANGED <<req, snap, escrow, event>>
              /\ pc[c] = "event" /\ pc'[c] = "ledger" /\ req[c].op = "fund"
              /\ event[req[c].ref] \in {NoDeal, req[c].deal}
           \/ /\ ReadEscrow(c) /\ UNCHANGED <<req, snap, escrow, event>>
              /\ pc[c] = "escrow"
              /\ IF req[c].op = "dispute" THEN pc'[c] = "write"
                 ELSE pc'[c] = "ledger" /\ escrow[req[c].deal] = "locked"
           \/ /\ ReadLedger(c) /\ UNCHANGED <<req, snap, escrow, event>>
              /\ pc[c] = "ledger" /\ pc'[c] = "write"
              /\ req[c].op = "settle" => PayoutAmount(req[c].deal) > 0
<1>1. ASSUME NEW d \in Deals, Start(c, d) PROVE pc'[c] = "read"
  <2>1. pc' = [pc EXCEPT ![c] = "read"]
    BY <1>1 DEF Start, CreateDeal, FundDeal, LockDeal, AcceptDeal, RejectDeal, ConfirmDeal,
       MarkPosted, SettleDeal, OpenDispute, ResolveDispute, Call, Begin
  <2> QED
    BY <2>1 DEF IInv, TypeOK
<1>2. ASSUME Commit(c) \/ Abort(c) \/ Rollback(c) PROVE pc'[c] = "idle"
  <2>1. End(c)
    BY <1>2 DEF Commit, Fund, Lock, Accept, Confirm, SubmitProof, Settle, Refund, Dispute,
       ResolveOnly, Commits, Abort, Rollback
  <2> QED
    BY <2>1 DEF End, IInv, TypeOK
<1>3. CASE ReadDeal(c) /\ ~ Rollback(c)
  <2>1. /\ pc' = [pc EXCEPT ![c] = IF AlreadyDone(req[c], deal[req[c].deal])
                                   THEN "write" ELSE After(req[c].op)]
        /\ snap' = [snap EXCEPT ![c] = deal[req[c].deal]]
        /\ UNCHANGED <<req, escrow, event>> /\ pc[c] = "read"
    BY <1>3 DEF ReadDeal, Goto, rows
  <2>2. req[c].op \in Operation
    BY <2>1 DEF IInv, TypeOK, Request
  <2> QED
    BY <1>3, <2>1, <2>2 DEF IInv, TypeOK
<1>4. CASE ReadEvent(c) /\ ~ Rollback(c)
  <2>1. /\ pc[c] = "event" /\ pc' = [pc EXCEPT ![c] = "ledger"]
        /\ UNCHANGED <<req, snap, escrow, event>>
        /\ event[req[c].ref] \in {NoDeal, req[c].deal}
    BY <1>4 DEF ReadEvent, Goto, rows
  <2> QED
    BY <1>4, <2>1 DEF IInv, TypeOK, CallFits, Fits
<1>5. CASE ReadEscrow(c) /\ ~ Rollback(c)
  <2>1. /\ pc[c] = "escrow" /\ UNCHANGED <<req, snap, escrow, event>>
        /\ pc' = [pc EXCEPT ![c] = IF req[c].op = "dispute" THEN "write" ELSE "ledger"]
        /\ req[c].op # "dispute" => escrow[req[c].deal] = "locked"
    BY <1>5 DEF ReadEscrow, Goto, rows, EscrowLocked
  <2> QED
    BY <1>5, <2>1 DEF IInv, TypeOK
<1>6. CASE ReadLedger(c) /\ ~ Rollback(c)
  <2>1. /\ pc[c] = "ledger" /\ UNCHANGED <<req, snap, escrow, event>>
        /\ pc' = [pc EXCEPT ![c] = "write"]
        /\ req[c].op = "settle" => PayoutAmount(req[c].deal) > 0
    BY <1>6 DEF ReadLedger, Goto, rows, MovementAccepted
  <2> QED
    BY <1>6, <2>1 DEF IInv, TypeOK
<1>7. CASE Commit(c) \/ Abort(c) \/ Rollback(c) \/ \E d \in Deals : Start(c, d)
  BY <1>1, <1>2, <1>7
<1> QED
  BY <1>3, <1>4, <1>5, <1>6, <1>7 DEF CallSteps

(* A call's own reads see to it that what it relies on holds.                 *)
LEMMA OwnPays ==
    ASSUME IInv, NEW c \in Calls, CallSteps(c), StillPays(c)
    PROVE  StillPays(c)'
<1>1. CASE pc'[c] \in {"idle", "read"}
  BY <1>1 DEF StillPays
<1>2. CASE /\ ReadDeal(c) /\ UNCHANGED req /\ req[c].op \in Operation
           /\ pc'[c] = IF AlreadyDone(req[c], snap'[c]) THEN "write" ELSE After(req[c].op)
  <2>1. AlreadyDone(req[c], snap[c])' <=> AlreadyDone(req[c], snap'[c])
    BY <1>2 DEF AlreadyDone
  <2>2. ~ AlreadyDone(req[c], snap'[c]) /\ req[c].op \in {"settle", "refund"} => pc'[c] = "escrow"
    BY <1>2 DEF After
  <2> QED
    BY <1>2, <2>1, <2>2 DEF StillPays
<1>3. CASE UNCHANGED <<req, snap, escrow>>
  <2>1. AlreadyDone(req[c], snap[c])' <=> AlreadyDone(req[c], snap[c])
    BY <1>3 DEF AlreadyDone
  <2>2. \/ pc'[c] \in {"idle", "read"}
        \/ pc'[c] = "ledger" /\ (req[c].op = "fund" \/ escrow[req[c].deal] = "locked")
        \/ pc'[c] = "write" /\ req[c].op = "dispute"
        \/ /\ pc'[c] = "write" /\ pc[c] = "ledger"
           /\ req[c].op = "settle" => PayoutAmount(req[c].deal) > 0
        \/ ReadDeal(c) /\ UNCHANGED req
    BY OwnStep
  <2>3. CASE ReadDeal(c) /\ pc'[c] \notin {"idle", "read"}
    BY <1>2, <2>3, OwnStep DEF ReadDeal, ReadEvent, ReadEscrow, ReadLedger
  <2> QED
    BY <1>1, <1>3, <2>1, <2>2, <2>3 DEF StillPays
<1> QED
  BY <1>1, <1>2, <1>3, OwnStep

(* What another call does meanwhile leaves it so: the escrow of the deal it     *)
(* pays for is locked still or as it will leave it.                           *)
LEMMA OthersKeepPays ==
    ASSUME IInv, PaysApart, NEW c \in Calls, CallSteps(c), NEW b \in Calls \ {c}, StillPays(b)
    PROVE  StillPays(b)'
<1> DEFINE r == req[b]
<1>1. pc'[b] = pc[b] /\ req'[b] = r /\ snap'[b] = snap[b]
  BY TouchesItsOwn
<1>2. CASE pc[b] \notin {"ledger", "write"}
  BY <1>1, <1>2 DEF StillPays
<1>3. CASE pc[b] \in {"ledger", "write"}
  <2>1. r.deal \in Deals
    BY <1>3 DEF IInv, TypeOK, Request
  <2>2. r.op \in {"settle", "refund"} /\ escrow[r.deal] \in {"locked", To[r.op]}
            => escrow'[r.deal] \in {"locked", To[r.op]}
    <3>1. CASE escrow'[r.deal] = escrow[r.deal]
      BY <3>1
    <3>2. CASE /\ pc[c] # "idle" /\ r.deal = req[c].deal
               /\ req[c].op \in {"settle", "refund"}
               /\ escrow'[r.deal] = To[req[c].op]
      BY <1>3, <3>2 DEF PaysApart, InFlight
    <3>3. CASE escrow[r.deal] = "none"
      BY <3>3 DEF To
    <3> QED
      BY <2>1, <3>1, <3>2, <3>3, TouchesItsOwn
  <2>3. AlreadyDone(req[b], snap[b])' <=> AlreadyDone(r, snap[b])
    BY <1>1 DEF AlreadyDone
  <2> QED
    BY <1>1, <1>3, <2>2, <2>3 DEF StillPays
<1> QED
  BY <1>2, <1>3

PaysInv == IInv /\ Books /\ PaysApart /\ PaysTrue

LEMMA PaysInductive == PaysApartSpec => []PaysInv
<1>1. Init => PaysInv
  BY InitHolds, InitBalances DEF Init, PaysInv, PaysApart, InFlight, PaysTrue, StillPays
<1>2. PaysInv /\ [Next /\ PaysApart']_vars => PaysInv'
  <2> SUFFICES ASSUME PaysInv, [Next /\ PaysApart']_vars PROVE PaysInv'
    OBVIOUS
  <2>1. IInv' /\ Books'
    BY StepKeeps, BooksKept DEF PaysInv
  <2>2. PaysApart'
    BY DEF PaysInv, PaysApart, InFlight, vars
  <2>3. ASSUME NEW c \in Calls, CallSteps(c) PROVE PaysTrue'
    BY <2>3, OwnPays, OthersKeepPays DEF PaysInv, PaysTrue
  <2>4. ASSUME UNCHANGED vars PROVE PaysTrue'
    <3>1. UNCHANGED <<pc, req, snap, escrow>> /\ PaysTrue
      BY <2>4 DEF PaysInv, vars, rows
    <3> QED
      BY <3>1 DEF PaysTrue, StillPays, AlreadyDone
  <2> QED
    BY <2>1, <2>2, <2>3, <2>4 DEF PaysInv, Next, CallSteps
<1> QED
  BY <1>1, <1>2, PTL DEF PaysApartSpec

-----------------------------------------------------------------------------
(* The references of the fundings *)

(* Timestamps are only added. *)
StampsStay == \A d \in Deals : deal[d].stamps \subseteq deal'[d].stamps

(* A step that binds nothing and brings no deposit *)
LEMMA BindingStays ==
    ASSUME IInv, BindingFunds, UNCHANGED event, StampsStay,
           \A k \in ledger' : k[1] = "deposit" => k \in ledger
    PROVE  BindingFunds'
<1>1. \A r \in References : <<"deposit", r>> \in ledger' => <<"deposit", r>> \in ledger
  OBVIOUS
<1>2. event \in [References -> Deals \cup {NoDeal}]
  BY DEF IInv, TypeOK
<1> QED
  BY <1>1, <1>2 DEF BindingFunds, StampsStay

(* What a funding commits: a reference that was free is bound to the deal, which *)
(* is funded with it; any other stays bound, to a deal that was funded.        *)
LEMMA FundBinds ==
    ASSUME IInv, FundsKnown, BindingFunds, NEW c \in Calls, Fund(c)
    PROVE  BindingFunds'
<1> "fund" \in Operation
  BY DEF Operation
<1> DEFINE r == req[c]
<1>1. /\ Commits(c, "fund")
      /\ event' = IF event[r.ref] = NoDeal THEN [event EXCEPT ![r.ref] = r.deal] ELSE event
      /\ MoveMoney(c)
      /\ deal' = IF snap[c].status = "created" THEN Updated(c) ELSE deal
  BY DEF Fund
<1>2. r \in Request /\ r.op = "fund" /\ r.deal \in Deals /\ r.ref \in References
      /\ pc[c] = "write"
  BY <1>1, CommitKnows DEF Request
<1>3. \A k \in ledger' : k \in ledger \/ k = <<"deposit", r.ref>>
  <2>1. Keys(r, snap[c].status) \subseteq {<<"deposit", r.ref>>}
    BY <1>2 DEF Keys
  <2>2. \A k \in ledger' : k \in ledger \/ k \in Keys(r, snap[c].status)
    BY <1>1, <1>2, MoveMoneyType DEF IInv
  <2> QED
    BY <2>1, <2>2
<1>4. StampsStay /\ (snap[c].status = "created" => "funded" \in deal'[r.deal].stamps)
  <2>1. CASE snap[c].status = "created"
    <3>1. deal' = Updated(c)
      BY <1>1, <2>1
    <3>2. /\ deal'[r.deal] = [status |-> To["fund"],
                              stamps |-> deal[r.deal].stamps \cup StampsOf["fund"]]
          /\ \A d \in Deals : d # r.deal => deal'[d] = deal[d]
      BY <1>1, <3>1, UpdateKeeps
    <3>3. deal'[r.deal].stamps = deal[r.deal].stamps \cup {"funded"}
      BY <3>2 DEF StampsOf
    <3> QED
      BY <3>2, <3>3 DEF StampsStay
  <2>2. CASE snap[c].status # "created"
    BY <1>1, <2>2 DEF StampsStay
  <2> QED
    BY <2>1, <2>2
<1>5. event[r.ref] = NoDeal => snap[c].status = "created"
  BY <1>2 DEF FundsKnown
<1>6. event \in [References -> Deals \cup {NoDeal}]
  BY DEF IInv, TypeOK
<1>7. event'[r.ref] # NoDeal /\ \A s \in References : s # r.ref => event'[s] = event[s]
  BY <1>1, <1>2, <1>6, CallAssumption
<1>8. ASSUME NEW s \in References, <<"deposit", s>> \in ledger' PROVE event'[s] # NoDeal
  <2>1. s = r.ref \/ <<"deposit", s>> \in ledger
    BY <1>3, <1>8
  <2> QED
    BY <1>7, <2>1 DEF BindingFunds
<1>9. ASSUME NEW s \in References, event'[s] # NoDeal
      PROVE  "funded" \in deal'[event'[s]].stamps
  <2>1. CASE event[s] # NoDeal
    <3>1. event'[s] = event[s] /\ event[s] \in Deals
      BY <1>1, <1>2, <1>6, <2>1
    <3> QED
      BY <1>4, <2>1, <3>1 DEF BindingFunds, StampsStay
  <2>2. CASE event[s] = NoDeal
    <3>1. s = r.ref /\ event'[s] = r.deal
      BY <1>1, <1>2, <1>6, <1>7, <1>9, <2>2
    <3> QED
      BY <1>4, <1>5, <2>2, <3>1
  <2> QED
    BY <2>1, <2>2
<1> QED
  BY <1>8, <1>9 DEF BindingFunds

LEMMA BindingKept ==
    ASSUME IInv, FundsKnown, BindingFunds, [Next]_vars
    PROVE  BindingFunds'
<1>1. CASE UNCHANGED <<deal, event, ledger>>
  BY <1>1, BindingStays DEF StampsStay
<1>2. ASSUME NEW c \in Calls, NEW d \in Deals, CreateDeal(c, d) PROVE BindingFunds'
  <2>1. UNCHANGED <<event, ledger>>
    BY <1>2 DEF CreateDeal
  <2>2. StampsStay
    BY <1>2 DEF CreateDeal, StampsStay, IInv, TypeOK, NothingBefore, Exists
  <2> QED
    BY <2>1, <2>2, BindingStays
<1>3. ASSUME NEW c \in Calls, NEW op \in Operation \ {"fund"}, Commits(c, op),
             deal' = Updated(c), UNCHANGED event, ledger' = ledger \/ MoveMoney(c)
      PROVE  BindingFunds'
  <2>1. StampsStay
    <3>1. /\ deal'[req[c].deal] = [status |-> To[op],
                                   stamps |-> deal[req[c].deal].stamps \cup StampsOf[op]]
          /\ \A d \in Deals : d # req[c].deal => deal'[d] = deal[d]
      BY <1>3, UpdateKeeps
    <3> QED
      BY <3>1 DEF StampsStay
  <2>2. req[c] \in Request /\ req[c].op # "fund"
    BY <1>3, CommitKnows
  <2>3. \A k \in Keys(req[c], snap[c].status) : k[1] # "deposit"
    BY <2>2 DEF Keys
  <2>4. \A k \in ledger' : k \in ledger \/ k \in Keys(req[c], snap[c].status)
    BY <1>3, <2>2, MoveMoneyType DEF IInv
  <2> QED
    BY <1>3, <2>1, <2>3, <2>4, BindingStays
<1>4. ASSUME NEW c \in Calls, Commit(c), ~ Fund(c), ~ UNCHANGED <<deal, event, ledger>>
      PROVE  \E op \in Operation \ {"fund"} :
                 /\ Commits(c, op) /\ deal' = Updated(c) /\ UNCHANGED event
                 /\ ledger' = ledger \/ MoveMoney(c)
  BY <1>4 DEF Commit, Lock, Accept, Confirm, SubmitProof, Settle, Refund, Dispute,
     ResolveOnly, Operation
<1>5. ASSUME NEW c \in Calls, Commit(c) PROVE BindingFunds'
  BY <1>1, <1>3, <1>4, <1>5, FundBinds
<1>6. ASSUME NEW c \in Calls, NEW d \in Deals, Start(c, d), ~ CreateDeal(c, d)
      PROVE  UNCHANGED <<deal, event, ledger>>
  BY <1>6 DEF Start, FundDeal, LockDeal, AcceptDeal, RejectDeal, ConfirmDeal,
     MarkPosted, SettleDeal, OpenDispute, ResolveDispute, Call, rows
<1>7. ASSUME NEW c \in Calls,
             ReadDeal(c) \/ ReadEvent(c) \/ ReadEscrow(c) \/ ReadLedger(c) \/ Abort(c)
      PROVE  UNCHANGED <<deal, event, ledger>>
  BY <1>7 DEF ReadDeal, ReadEvent, ReadEscrow, ReadLedger, Abort, Goto, Rollback, rows
<1>8. CASE UNCHANGED vars
  BY <1>1, <1>8 DEF vars, rows
<1> QED
  BY <1>1, <1>2, <1>5, <1>6, <1>7, <1>8 DEF Next

(* A funding learns at the event whether its reference is bound, and a bound    *)
(* reference stays bound.                                                    *)
LEMMA KnownKept ==
    ASSUME IInv, FundsKnown, [Next]_vars
    PROVE  FundsKnown'
<1>1. CASE UNCHANGED vars
  BY <1>1 DEF FundsKnown, vars, rows
<1>2. ASSUME NEW c \in Calls, CallSteps(c), NEW b \in Calls \ {c}
      PROVE  /\ pc'[b] = "escrow" => req'[b].op # "fund"
             /\ pc'[b] \in {"ledger", "write"} /\ req'[b].op = "fund"
                /\ snap'[b].status # "created" => event'[req'[b].ref] # NoDeal
  <2>1. pc'[b] = pc[b] /\ req'[b] = req[b] /\ snap'[b] = snap[b]
    BY <1>2, TouchesItsOwn
  <2>2. \A r \in References : event[r] # NoDeal => event'[r] # NoDeal
    BY <1>2, TouchesItsOwn
  <2>3. pc[b] # "idle" => req[b].ref \in References
    BY DEF IInv, TypeOK, Request
  <2> QED
    BY <2>1, <2>2, <2>3 DEF FundsKnown
<1>3. ASSUME NEW c \in Calls, CallSteps(c)
      PROVE  /\ pc'[c] = "escrow" => req'[c].op # "fund"
             /\ pc'[c] \in {"ledger", "write"} /\ req'[c].op = "fund"
                /\ snap'[c].status # "created" => event'[req'[c].ref] # NoDeal
  <2>1. CASE pc'[c] \in {"idle", "read"}
    BY <2>1
  <2>2. CASE /\ ReadDeal(c) /\ UNCHANGED <<req, escrow, event>> /\ req[c].op \in Operation
             /\ pc'[c] = IF AlreadyDone(req[c], snap'[c]) THEN "write" ELSE After(req[c].op)
    <3>1. req[c].op = "fund" => pc'[c] = "event"
      BY <2>2 DEF After, AlreadyDone, IInv, TypeOK, Request, ReadDeal
    <3> QED
      BY <2>2, <3>1
  <2>3. CASE ReadEvent(c) /\ UNCHANGED <<req, snap, escrow, event>> /\ pc'[c] = "ledger"
    <3>1. event[req[c].ref] = req[c].deal \/ snap[c].status = "created"
      BY <2>3 DEF ReadEvent, Rollback, End, IInv, TypeOK
    <3>2. req[c].deal \in Deals
      BY <2>3 DEF ReadEvent, IInv, TypeOK, Request
    <3> QED
      BY <2>3, <3>1, <3>2, CallAssumption
  <2>4. CASE pc[c] \in {"escrow", "ledger"} /\ UNCHANGED <<req, snap, event>>
             /\ pc'[c] \in {"ledger", "write"}
    BY <2>4 DEF FundsKnown
  <2> QED
    BY <1>3, <2>1, <2>2, <2>3, <2>4, OwnStep
<1> QED
  BY <1>1, <1>2, <1>3 DEF FundsKnown, Next, CallSteps

(* Whichever of several fundings by one reference commits: money that came in   *)
(* by a reference is bound to a deal, and the deal it is bound to was funded. *)
THEOREM BindingsFund == Spec => []BindingFunds
<1>1. Init => FundsKnown /\ BindingFunds
  BY DEF Init, FundsKnown, BindingFunds
<1>2. IInv /\ FundsKnown /\ BindingFunds /\ [Next]_vars => FundsKnown' /\ BindingFunds'
  BY BindingKept, KnownKept
<1> QED
  BY Inductive, <1>1, <1>2, PTL DEF Spec
-----------------------------------------------------------------------------
(* Refinement, payments apart *)

Where == [d \in Deals |-> Place(d)]
Net == [balance EXCEPT !["advertiser"] = @ - Deposited]
Deposits == {k \in ledger : k[1] = "deposit"}

LEMMA DepositedType ==
    ASSUME Books
    PROVE  /\ IsFiniteSet(Deposits)
           /\ Cardinality(Deposits) \in Nat
           /\ Deposited \in Int
<1>1. IsFiniteSet(Deposits)
  BY FS_Subset DEF Books, Deposits
<1>2. Cardinality(Deposits) \in Nat
  BY <1>1, FS_CardinalityType
<1> QED
  BY <1>1, <1>2, MoneyAssumption DEF Deposited, Deposits

(* No entry of a deposit, no change of what was deposited *)
LEMMA DepositsSame ==
    ASSUME NEW new, ledger' = ledger \cup new, \A k \in new : k[1] # "deposit"
    PROVE  Deposited' = Deposited
<1>1. Deposits' = Deposits
  BY DEF Deposits
<1> QED
  BY <1>1 DEF Deposited, Deposits

(* A movement found there already moves nothing. *)
LEMMA NothingNew ==
    ASSUME IInv, NEW c \in Calls, MoveMoney(c),
           found[c] \/ Keys(req[c], snap[c].status) = {}
    PROVE  UNCHANGED <<ledger, balance>>
<1> DEFINE new == IF found[c] THEN {} ELSE Keys(req[c], snap[c].status)
<1>1. ledger' = ledger \cup new /\ balance' = [w \in Wallets |-> balance[w] + Gain(new, w)]
  BY DEF MoveMoney
<1>2. new = {}
  OBVIOUS
<1>3. \A w : Gain(new, w) = 0
  BY <1>2 DEF Gain
<1>4. balance \in [Wallets -> Int]
  BY DEF IInv, TypeOK
<1> HIDE DEF new
<1>5. \A w \in Wallets : balance'[w] = balance[w]
  BY <1>1, <1>3, <1>4
<1> QED
  BY <1>1, <1>2, <1>4, <1>5

(* What a movement that is new does *)
LEMMA NewEntries ==
    ASSUME IInv, NEW c \in Calls, MoveMoney(c), ~ found[c],
           Keys(req[c], snap[c].status) # {}, ~ DuplicateEntry(c)
    PROVE  LET keys == Keys(req[c], snap[c].status) IN
           /\ keys \cap ledger = {}
           /\ ledger' = ledger \cup keys
           /\ balance' = [w \in Wallets |-> balance[w] + Gain(keys, w)]
BY DEF MoveMoney, DuplicateEntry

LEMMA GainOne ==
    ASSUME NEW k, NEW w
    PROVE  Gain({k}, w) = IF EntryWallet(k) = w THEN EntryAmount[k] ELSE 0
BY DEF Gain

LEMMA FundIsStutter ==
    ASSUME PaysInv, NEW c \in Calls, Fund(c)
    PROVE  UNCHANGED <<Where, Net>>
<1> DEFINE r == req[c]
           keys == Keys(r, snap[c].status)
           k == <<"deposit", r.ref>>
<1>1. /\ pc[c] = "write" /\ r.op = "fund" /\ MoveMoney(c) /\ ~ DuplicateEntry(c)
  BY DEF Fund, Commits
<1>2. r \in Request /\ r.ref \in References
  BY <1>1 DEF PaysInv, IInv, TypeOK, Request
<1>3. CASE found[c] \/ keys = {}
  <2>1. UNCHANGED <<ledger, balance>>
    BY <1>1, <1>3, NothingNew DEF PaysInv
  <2> QED
    BY <2>1 DEF Where, Place, Net, Deposited
<1>4. CASE ~ found[c] /\ keys # {}
  <2>1. keys = {k}
    BY <1>1, <1>4 DEF Keys
  <2>2. /\ k \notin ledger /\ ledger' = ledger \cup {k}
        /\ balance' = [w \in Wallets |-> balance[w] + Gain({k}, w)]
    BY <1>1, <1>4, <2>1, NewEntries DEF PaysInv
  <2>3. EntryWallet(k) = "advertiser" /\ EntryAmount[k] = Amount
    BY <1>2 DEF EntryWallet, EntryAmount, LedgerKeys
  <2>4. \A w : Gain({k}, w) = IF w = "advertiser" THEN Amount ELSE 0
    BY <2>3, GainOne
  <2>5. Where' = Where
    BY <2>2 DEF Where, Place
  <2>6. Deposited' = Deposited + Amount
    <3>1. Deposits' = Deposits \cup {k} /\ k \notin Deposits
      BY <2>2 DEF Deposits
    <3>2. IsFiniteSet(Deposits) /\ Cardinality(Deposits) \in Nat
      BY DepositedType DEF PaysInv
    <3>3. Cardinality(Deposits') = Cardinality(Deposits) + 1
      BY <3>1, <3>2, FS_AddElement
    <3> DEFINE n == Cardinality(Deposits)
               m == Cardinality(Deposits')
    <3>4. m = n + 1 /\ n \in Nat /\ Amount \in Nat
      BY <3>2, <3>3, MoneyAssumption
    <3>5. Amount * m = Amount * n + Amount
      <4> HIDE DEF n, m
      <4> QED
        BY <3>4
    <3> QED
      BY <3>5 DEF Deposited, Deposits
  <2>7. balance \in [Wallets -> Int] /\ Amount \in Int /\ Deposited \in Int
    BY MoneyAssumption, DepositedType DEF PaysInv, IInv, TypeOK
  <2> HIDE DEF k, keys, r
  <2>8. balance' \in [Wallets -> Int] /\ "advertiser" \in Wallets
        /\ \A w \in Wallets : balance'[w] =
               IF w = "advertiser" THEN balance[w] + Amount ELSE balance[w]
    <3> SUFFICES ASSUME NEW w \in Wallets
                 PROVE  /\ balance[w] + Gain({k}, w) \in Int
                        /\ balance[w] + Gain({k}, w) =
                               IF w = "advertiser" THEN balance[w] + Amount ELSE balance[w]
      BY <2>2 DEF Wallets
    <3> DEFINE gain == Gain({k}, w)
    <3>1. gain = (IF w = "advertiser" THEN Amount ELSE 0) /\ balance[w] \in Int
      BY <2>4, <2>7
    <3> HIDE DEF gain
    <3>2. balance[w] + gain \in Int
          /\ balance[w] + gain = IF w = "advertiser" THEN balance[w] + Amount ELSE balance[w]
      BY <2>7, <3>1
    <3> QED
      BY <3>2 DEF gain
  <2>9. balance'["advertiser"] - Deposited' = balance["advertiser"] - Deposited
    BY <2>6, <2>7, <2>8
  <2>10. Net' = Net
    BY <2>7, <2>8, <2>9 DEF Net
  <2> QED
    BY <2>5, <2>10
<1> QED
  BY <1>3, <1>4
(* Entries other than deposits move the net balances as they move the wallets. *)
LEMMA NetMoves ==
    ASSUME PaysInv, NEW keys, keys \subseteq LedgerKeys, \A k \in keys : k[1] # "deposit",
           ledger' = ledger \cup keys,
           balance' = [w \in Wallets |-> balance[w] + Gain(keys, w)]
    PROVE  /\ Net \in [Wallets -> Int]
           /\ Net' = [w \in Wallets |-> Net[w] + Gain(keys, w)]
<1>1. Deposited' = Deposited
  BY DepositsSame
<1>2. balance \in [Wallets -> Int] /\ Deposited \in Int
  BY DepositedType DEF PaysInv, IInv, TypeOK
<1>3. Net \in [Wallets -> Int]
      /\ \A w \in Wallets : Net[w] = IF w = "advertiser" THEN balance[w] - Deposited ELSE balance[w]
  BY <1>2 DEF Net, Wallets
<1>4. ASSUME NEW w \in Wallets PROVE Net'[w] = Net[w] + Gain(keys, w)
  <2> DEFINE gain == Gain(keys, w)
  <2>1. gain \in Int /\ balance'[w] = balance[w] + gain
    BY GainType
  <2>2. Net'[w] = IF w = "advertiser" THEN balance'[w] - Deposited ELSE balance'[w]
    BY <1>1 DEF Net
  <2> HIDE DEF gain
  <2>3. Net'[w] = Net[w] + gain
    BY <1>2, <1>3, <2>1, <2>2
  <2> QED
    BY <2>3 DEF gain
<1>5. Net' = [w \in Wallets |-> Net'[w]]
  BY DEF Net
<1> QED
  BY <1>3, <1>4, <1>5

LEMMA LockIsHold ==
    ASSUME PaysInv, NEW c \in Calls, Lock(c), ~ UNCHANGED <<ledger, balance>>
    PROVE  Promise!Hold(req[c].deal) /\ req[c].deal \in Deals
<1> DEFINE r == req[c]
           d == r.deal
           keys == Keys(r, snap[c].status)
           k == <<"escrow_hold", d>>
<1>1. /\ pc[c] = "write" /\ r.op = "lock" /\ MoveMoney(c) /\ ~ DuplicateEntry(c)
  BY DEF Lock, Commits
<1>2. d \in Deals
  BY <1>1 DEF PaysInv, IInv, TypeOK, Request
<1>3. ~ found[c] /\ keys # {}
  BY <1>1, NothingNew DEF PaysInv
<1>4. keys = {k}
  BY <1>1, <1>3 DEF Keys
<1>5. /\ k \notin ledger /\ ledger' = ledger \cup {k}
      /\ balance' = [w \in Wallets |-> balance[w] + Gain({k}, w)]
  BY <1>1, <1>3, <1>4, NewEntries DEF PaysInv
<1>6. EntryWallet(k) = "advertiser" /\ EntryAmount[k] = - Amount /\ k \in LedgerKeys
  BY <1>2 DEF EntryWallet, EntryAmount, LedgerKeys
<1>7. <<"payout", d>> \notin ledger /\ <<"refund", d>> \notin ledger
  BY <1>2, <1>5 DEF PaysInv, IInv, EscrowFollowsLedger
<1>8. Where[d] = "advertiser"
  BY <1>2, <1>5, <1>7 DEF Where, Place
<1>9. Where' = [Where EXCEPT ![d] = "escrow"]
  BY <1>2, <1>5, <1>7 DEF Where, Place
<1>10. Net \in [Wallets -> Int] /\ Net' = [w \in Wallets |-> Net[w] + Gain({k}, w)]
  <2>1. {k} \subseteq LedgerKeys /\ \A j \in {k} : j[1] # "deposit"
    BY <1>6
  <2> HIDE DEF k
  <2> QED
    BY <1>5, <2>1, NetMoves
<1>11. \A w : Gain({k}, w) = IF w = "advertiser" THEN - Amount ELSE 0
  BY <1>6, GainOne
<1>12. Net' = [Net EXCEPT !["advertiser"] = @ - Amount]
  <2> HIDE DEF k
  <2>1. Amount \in Int
    BY MoneyAssumption
  <2>2. ASSUME NEW w \in Wallets
        PROVE  Net[w] + Gain({k}, w) = IF w = "advertiser" THEN Net[w] - Amount ELSE Net[w]
    <3> DEFINE gain == Gain({k}, w)
    <3>1. gain = (IF w = "advertiser" THEN - Amount ELSE 0) /\ Net[w] \in Int
      BY <1>10, <1>11
    <3> HIDE DEF gain
    <3>2. Net[w] + gain = IF w = "advertiser" THEN Net[w] - Amount ELSE Net[w]
      BY <2>1, <3>1
    <3> QED
      BY <3>2 DEF gain
  <2> QED
    BY <1>10, <2>2
<1> QED
  BY <1>2, <1>8, <1>9, <1>12 DEF Promise!Hold, Where, Net

(* Payments apart, a settlement or refund that moves money takes it from the   *)
(* locked escrow.                                                            *)
LEMMA PaysFromEscrow ==
    ASSUME PaysInv, NEW c \in Calls, NEW op \in {"settle", "refund"}, Commits(c, op),
           MoveMoney(c), ~ UNCHANGED <<ledger, balance>>
    PROVE  LET d == req[c].deal IN
           /\ d \in Deals
           /\ ~ found[c]
           /\ <<"escrow_hold", d>> \in ledger
           /\ <<"payout", d>> \notin ledger
           /\ <<"commission", d>> \notin ledger
           /\ <<"refund", d>> \notin ledger
<1> DEFINE d == req[c].deal
<1>1. /\ pc[c] = "write" /\ req[c].op = op /\ ~ AlreadyDone(req[c], snap[c])
      /\ ~ DuplicateEntry(c)
  BY DEF Commits
<1>2. d \in Deals
  BY <1>1 DEF PaysInv, IInv, TypeOK, Request
<1>3. ~ found[c] /\ Keys(req[c], snap[c].status) \cap ledger = {}
  BY <1>1, NothingNew DEF PaysInv, DuplicateEntry
<1>4. /\ op = "settle" => <<"payout", d>> \notin ledger
      /\ op = "refund" => <<"refund", d>> \notin ledger
  BY <1>1, <1>3 DEF Keys
<1>5. escrow[d] # To[op]
  <2>1. /\ escrow[d] = "settled" => <<"payout", d>> \in ledger
        /\ escrow[d] = "refunded" => <<"refund", d>> \in ledger
    BY <1>2 DEF PaysInv, IInv, EscrowFollowsLedger
  <2>2. To["settle"] = "settled" /\ To["refund"] = "refunded"
    BY DEF To
  <2> QED
    BY <1>4, <2>1, <2>2
<1>6. escrow[d] = "locked"
  BY <1>1, <1>5 DEF PaysInv, PaysTrue, StillPays
<1> QED
  BY <1>2, <1>3, <1>6 DEF PaysInv, IInv, EscrowFollowsLedger, PaidForProof

LEMMA RefundIsReturn ==
    ASSUME PaysInv, NEW c \in Calls, Refund(c), ~ UNCHANGED <<ledger, balance>>
    PROVE  Promise!Return(req[c].deal) /\ req[c].deal \in Deals
<1> DEFINE r == req[c]
           d == r.deal
           keys == Keys(r, snap[c].status)
           k == <<"refund", d>>
<1>1. /\ r.op = "refund" /\ MoveMoney(c) /\ ~ DuplicateEntry(c) /\ pc[c] = "write"
  BY DEF Refund, Commits
<1>2. /\ d \in Deals /\ <<"escrow_hold", d>> \in ledger
      /\ <<"payout", d>> \notin ledger /\ k \notin ledger
  BY PaysFromEscrow DEF Refund
<1>3. keys = {k}
  BY <1>1 DEF Keys
<1>4. ~ found[c]
  BY <1>1, <1>2, <1>3 DEF PaysInv, IInv, CallFits, Fits
<1>5. /\ ledger' = ledger \cup {k}
      /\ balance' = [w \in Wallets |-> balance[w] + Gain({k}, w)]
  BY <1>1, <1>3, <1>4, NewEntries DEF PaysInv
<1>6. EntryWallet(k) = "advertiser" /\ EntryAmount[k] = Amount /\ k \in LedgerKeys
  BY <1>2 DEF EntryWallet, EntryAmount, LedgerKeys
<1>7. Where[d] = "escrow"
  BY <1>2 DEF Where, Place
<1>8. Where' = [Where EXCEPT ![d] = "returned"]
  BY <1>2, <1>5 DEF Where, Place
<1>9. Net \in [Wallets -> Int] /\ Net' = [w \in Wallets |-> Net[w] + Gain({k}, w)]
  <2>1. {k} \subseteq LedgerKeys /\ \A j \in {k} : j[1] # "deposit"
    BY <1>6
  <2> HIDE DEF k
  <2> QED
    BY <1>5, <2>1, NetMoves
<1>10. \A w : Gain({k}, w) = IF w = "advertiser" THEN Amount ELSE 0
  BY <1>6, GainOne
<1>11. Net' = [Net EXCEPT !["advertiser"] = @ + Amount]
  <2> HIDE DEF k
  <2>1. Amount \in Int
    BY MoneyAssumption
  <2>2. ASSUME NEW w \in Wallets
        PROVE  Net[w] + Gain({k}, w) = IF w = "advertiser" THEN Net[w] + Amount ELSE Net[w]
    <3> DEFINE gain == Gain({k}, w)
    <3>1. gain = (IF w = "advertiser" THEN Amount ELSE 0) /\ Net[w] \in Int
      BY <1>9, <1>10
    <3> HIDE DEF gain
    <3>2. Net[w] + gain = IF w = "advertiser" THEN Net[w] + Amount ELSE Net[w]
      BY <2>1, <3>1
    <3> QED
      BY <3>2 DEF gain
  <2> QED
    BY <1>9, <2>2
<1> QED
  BY <1>2, <1>7, <1>8, <1>11 DEF Promise!Return, Where, Net
LEMMA SettleIsPay ==
    ASSUME PaysInv, NEW c \in Calls, Settle(c), ~ UNCHANGED <<ledger, balance>>
    PROVE  Promise!Pay(req[c].deal) /\ req[c].deal \in Deals
<1> DEFINE r == req[c]
           d == r.deal
           keys == Keys(r, snap[c].status)
           p == <<"payout", d>>
           m == <<"commission", d>>
<1>1. /\ pc[c] = "write" /\ r.op = "settle" /\ MoveMoney(c) /\ ~ DuplicateEntry(c)
      /\ DomainAllows(r, snap[c]) /\ ~ AlreadyDone(r, snap[c])
  BY DEF Settle, Commits
<1>2. /\ d \in Deals /\ <<"escrow_hold", d>> \in ledger
      /\ p \notin ledger /\ m \notin ledger /\ <<"refund", d>> \notin ledger
  BY PaysFromEscrow DEF Settle
<1>3. PayoutAmount(d) > 0
  BY <1>1 DEF PaysInv, PaysTrue, StillPays
<1>4. keys = {p, m}
  <2>1. snap[c].status \in {"proof_submitted", "disputed"}
    BY CommitKnows DEF Settle, PaysInv, From, Operation
  <2>2. Reasons(r, snap[c].status) = MoneyMovement(snap[c].status, "settled")
    BY <1>1, <2>1 DEF DomainAllows, To
  <2>3. MoneyMovement(snap[c].status, "settled") = {"payout", "commission"}
    BY <2>1 DEF MoneyMovement
  <2>4. Reasons(r, snap[c].status) =
            {"payout"} \cup (IF Commission[d] > 0 THEN {"commission"} ELSE {})
    BY <1>1 DEF Reasons
  <2>5. Commission[d] > 0
    BY <2>2, <2>3, <2>4
  <2> QED
    BY <1>1, <2>5 DEF Keys
<1>5. ~ found[c]
  BY <1>1, <1>2, <1>4 DEF PaysInv, IInv, CallFits, Fits
<1>6. /\ ledger' = ledger \cup {p, m}
      /\ balance' = [w \in Wallets |-> balance[w] + Gain({p, m}, w)]
  BY <1>1, <1>4, <1>5, NewEntries DEF PaysInv
<1>7. /\ p \in LedgerKeys /\ m \in LedgerKeys
      /\ EntryWallet(p) = "publisher" /\ EntryAmount[p] = PayoutAmount(d)
      /\ EntryWallet(m) = "platform" /\ EntryAmount[m] = Commission[d]
  BY <1>2 DEF EntryWallet, EntryAmount, LedgerKeys
<1>8. Where[d] = "escrow"
  BY <1>2 DEF Where, Place
<1>9. Where' = [Where EXCEPT ![d] = "paid"]
  BY <1>2, <1>6 DEF Where, Place
<1>10. Net \in [Wallets -> Int] /\ Net' = [w \in Wallets |-> Net[w] + Gain({p, m}, w)]
  <2>1. {p, m} \subseteq LedgerKeys /\ \A j \in {p, m} : j[1] # "deposit"
    BY <1>7
  <2> HIDE DEF p, m
  <2> QED
    BY <1>6, <2>1, NetMoves
<1>11. \A w \in Wallets : Gain({p, m}, w) =
           IF w = "publisher" THEN PayoutAmount(d)
           ELSE IF w = "platform" THEN Commission[d] ELSE 0
  BY <1>7 DEF Gain
<1>12. PayoutAmount(d) = Amount - Commission[d] /\ Amount \in Int /\ Commission[d] \in Int
  BY <1>2, MoneyAssumption DEF PayoutAmount
<1>13. Commission[d] < Amount
  <2> HIDE DEF d
  <2> QED
    BY <1>3, <1>12
<1>14. Net' = [Net EXCEPT !["publisher"] = @ + (Amount - Commission[d]),
                          !["platform"] = @ + Commission[d]]
  <2> DEFINE after == [Net EXCEPT !["publisher"] = @ + (Amount - Commission[d]),
                                  !["platform"] = @ + Commission[d]]
  <2>1. ASSUME NEW w \in Wallets
        PROVE  Net[w] + Gain({p, m}, w) =
                   IF w = "publisher" THEN Net[w] + (Amount - Commission[d])
                   ELSE IF w = "platform" THEN Net[w] + Commission[d] ELSE Net[w]
    <3> DEFINE gain == Gain({p, m}, w)
    <3>1. /\ gain = IF w = "publisher" THEN Amount - Commission[d]
                    ELSE IF w = "platform" THEN Commission[d] ELSE 0
          /\ Net[w] \in Int
      BY <1>10, <1>11, <1>12
    <3> HIDE DEF gain, p, m, d
    <3>2. Net[w] + gain = IF w = "publisher" THEN Net[w] + (Amount - Commission[d])
                          ELSE IF w = "platform" THEN Net[w] + Commission[d] ELSE Net[w]
      BY <1>12, <3>1
    <3> QED
      BY <3>2 DEF gain
  <2> HIDE DEF p, m, d
  <2>2. after = [w \in Wallets |->
                     IF w = "publisher" THEN Net[w] + (Amount - Commission[d])
                     ELSE IF w = "platform" THEN Net[w] + Commission[d] ELSE Net[w]]
    BY <1>10 DEF Wallets
  <2>3. Net' = after
    BY <1>10, <2>1, <2>2
  <2> QED
    BY <2>3
<1> QED
  BY <1>2, <1>8, <1>9, <1>13, <1>14 DEF Promise!Pay, Where, Net

(* Every step of the deals is one of the promise or leaves its money alone.   *)
LEMMA PromiseStep ==
    ASSUME PaysInv, [Next]_vars
    PROVE  [Promise!Next]_<<Where, Net>>
<1>1. CASE UNCHANGED <<ledger, balance>>
  BY <1>1 DEF Where, Place, Net, Deposited
<1>2. ASSUME NEW c \in Calls, Commit(c), MoveMoney(c), ~ UNCHANGED <<ledger, balance>>
      PROVE  [Promise!Next]_<<Where, Net>>
  <2>1. Fund(c) \/ Lock(c) \/ Settle(c) \/ Refund(c)
    BY <1>2, MoverKnows DEF PaysInv
  <2> QED
    BY <1>2, <2>1, FundIsStutter, LockIsHold, SettleIsPay, RefundIsReturn DEF Promise!Next
<1> QED
  BY <1>1, <1>2, MoneyStays

(* As long as no deal is settled and refunded at once, whatever else overlaps, *)
(* the ad deals implement the escrow's promise: each deal's money is held,    *)
(* then paid or returned, once.                                              *)
THEOREM ImplementsPromise == PaysApartSpec => KeepsPromise
<1>1. Init => Promise!Init
  <2> SUFFICES ASSUME Init PROVE Promise!Init
    OBVIOUS
  <2>1. Deposits = {}
    BY DEF Init, Deposits
  <2>2. Deposited = 0
    <3>1. Cardinality(Deposits) = 0 /\ Amount * 0 = 0
      BY <2>1, FS_EmptySet, MoneyAssumption
    <3> QED
      BY <3>1 DEF Deposited, Deposits
  <2>3. Where = [d \in Deals |-> "advertiser"]
    BY DEF Init, Where, Place
  <2>4. Net = [advertiser |-> Opening, publisher |-> 0, platform |-> 0]
    <3>1. Opening - 0 = Opening
      BY MoneyAssumption
    <3> QED
      BY <2>2, <3>1 DEF Init, Net, Wallets, OpeningBalance
  <2> QED
    BY <2>3, <2>4 DEF Promise!Init, Where, Net
<1>2. PaysInv /\ [Next /\ PaysApart']_vars => [Promise!Next]_<<Where, Net>>
  BY PromiseStep
<1> QED
  BY PaysInductive, <1>1, <1>2, PTL DEF PaysApartSpec, KeepsPromise, Promise!Spec, Where, Net
-----------------------------------------------------------------------------
(* What the promise is worth *)

Sum(wallets) == wallets["advertiser"] + wallets["publisher"] + wallets["platform"]

InEscrow == {d \in Deals : Place(d) = "escrow"}

Conserved ==
    /\ IsFiniteSet(InEscrow)
    /\ Sum(Net) + Amount * Cardinality(InEscrow) = Opening

(* The wallets without what was deposited *)
LEMMA NetType ==
    ASSUME IInv, Books
    PROVE  /\ Net \in [Wallets -> Int]
           /\ Sum(Net) = Sum(balance) - Deposited
<1>1. balance \in [Wallets -> Int] /\ Deposited \in Int
  BY DepositedType DEF IInv, TypeOK
<1> QED
  BY <1>1 DEF Net, Sum, Wallets

LEMMA MoveConserves ==
    ASSUME NEW sum \in Int, NEW after \in Int, NEW n \in Nat, NEW m \in Nat,
           sum + Amount * n = Opening,
           \/ m = n + 1 /\ after = sum - Amount
           \/ m = n - 1 /\ after = sum + Amount
    PROVE  after + Amount * m = Opening
BY MoneyAssumption

(* Each step of the promise moves a price between the wallets and the escrow. *)
LEMMA PromiseConserves ==
    ASSUME Net \in [Wallets -> Int], Conserved, [Promise!Next]_<<Where, Net>>
    PROVE  Conserved'
<1> DEFINE n == Cardinality(InEscrow)
           m == Cardinality(InEscrow')
<1>1. InEscrow = {d \in Deals : Where[d] = "escrow"}
      /\ InEscrow' = {d \in Deals : Where'[d] = "escrow"}
  BY DEF InEscrow, Where
<1>2. n \in Nat /\ Amount \in Int /\ Opening \in Int /\ Sum(Net) + Amount * n = Opening
  BY FS_CardinalityType, MoneyAssumption DEF Conserved
<1>3. CASE UNCHANGED <<Where, Net>>
  BY <1>1, <1>3 DEF Conserved
<1>4. ASSUME NEW d \in Deals, Promise!Hold(d) PROVE Conserved'
  <2>1. /\ Where[d] = "advertiser" /\ Where' = [Where EXCEPT ![d] = "escrow"]
        /\ Net' = [Net EXCEPT !["advertiser"] = @ - Amount]
    BY <1>4 DEF Promise!Hold, Where, Net
  <2>2. InEscrow' = InEscrow \cup {d} /\ d \notin InEscrow
    BY <1>1, <2>1 DEF Where
  <2>3. IsFiniteSet(InEscrow') /\ m = n + 1
    BY <2>2, FS_AddElement DEF Conserved
  <2>4. Sum(Net') = Sum(Net) - Amount /\ Sum(Net) \in Int
    BY <1>2, <2>1 DEF Sum, Wallets
  <2> QED
    BY <1>2, <2>3, <2>4, MoveConserves DEF Conserved
<1>5. ASSUME NEW d \in Deals, Promise!Pay(d) PROVE Conserved'
  <2>1. /\ Where[d] = "escrow" /\ Where' = [Where EXCEPT ![d] = "paid"]
        /\ Net' = [Net EXCEPT !["publisher"] = @ + (Amount - Commission[d]),
                              !["platform"] = @ + Commission[d]]
    BY <1>5 DEF Promise!Pay, Where, Net
  <2>2. InEscrow' = InEscrow \ {d} /\ d \in InEscrow
    BY <1>1, <2>1 DEF Where
  <2>3. IsFiniteSet(InEscrow') /\ m = n - 1
    BY <2>2, FS_RemoveElement DEF Conserved
  <2>4. Sum(Net') = Sum(Net) + Amount /\ Sum(Net) \in Int
    <3>1. Commission[d] \in Int
      BY MoneyAssumption
    <3> QED
      BY <1>2, <2>1, <3>1 DEF Sum, Wallets
  <2> QED
    BY <1>2, <2>3, <2>4, MoveConserves DEF Conserved
<1>6. ASSUME NEW d \in Deals, Promise!Return(d) PROVE Conserved'
  <2>1. /\ Where[d] = "escrow" /\ Where' = [Where EXCEPT ![d] = "returned"]
        /\ Net' = [Net EXCEPT !["advertiser"] = @ + Amount]
    BY <1>6 DEF Promise!Return, Where, Net
  <2>2. InEscrow' = InEscrow \ {d} /\ d \in InEscrow
    BY <1>1, <2>1 DEF Where
  <2>3. IsFiniteSet(InEscrow') /\ m = n - 1
    BY <2>2, FS_RemoveElement DEF Conserved
  <2>4. Sum(Net') = Sum(Net) + Amount /\ Sum(Net) \in Int
    BY <1>2, <2>1 DEF Sum, Wallets
  <2> QED
    BY <1>2, <2>3, <2>4, MoveConserves DEF Conserved
<1> QED
  BY <1>3, <1>4, <1>5, <1>6 DEF Promise!Next

(* What was there at first and what was deposited is in a wallet or in the     *)
(* escrow of a deal, and what a deal has paid out or given back it no longer *)
(* holds.                                                                    *)
MoneyConserved ==
    balance["advertiser"] + balance["publisher"] + balance["platform"]
        + Amount * Cardinality(InEscrow) = Opening + Deposited

(* Payments apart, no money appears or is lost in the ad deals: a settlement   *)
(* or refund takes out of the escrow what it gives to the wallets.           *)
THEOREM MoneyIsConserved == PaysApartSpec => []MoneyConserved
<1>1. Init => Conserved
  <2> SUFFICES ASSUME Init PROVE Conserved
    OBVIOUS
  <2>1. InEscrow = {}
    BY DEF Init, InEscrow, Place
  <2>2. IsFiniteSet(InEscrow) /\ Cardinality(InEscrow) = 0
    BY <2>1, FS_EmptySet
  <2>3. Deposits = {}
    BY DEF Init, Deposits
  <2>4. Deposited = 0
    <3>1. Cardinality(Deposits) = 0 /\ Amount * 0 = 0
      BY <2>3, FS_EmptySet, MoneyAssumption
    <3> QED
      BY <3>1 DEF Deposited, Deposits
  <2>5. Sum(Net) = Opening
    BY <2>4, MoneyAssumption DEF Init, Sum, Net, Wallets, OpeningBalance
  <2> QED
    BY <2>2, <2>5, MoneyAssumption DEF Conserved
<1>2. PaysInv /\ Conserved /\ [Next /\ PaysApart']_vars => Conserved'
  BY PromiseStep, PromiseConserves, NetType DEF PaysInv
<1>3. PaysInv /\ Conserved => MoneyConserved
  <2> SUFFICES ASSUME PaysInv, Conserved PROVE MoneyConserved
    OBVIOUS
  <2> DEFINE held == Amount * Cardinality(InEscrow)
  <2>1. held \in Int /\ Sum(Net) + held = Opening
    BY FS_CardinalityType, MoneyAssumption DEF Conserved
  <2>2. Sum(Net) = Sum(balance) - Deposited /\ Sum(balance) \in Int /\ Deposited \in Int
    BY NetType, DepositedType DEF PaysInv, IInv, TypeOK, Sum, Wallets
  <2> HIDE DEF held
  <2>3. Sum(balance) + held = Opening + Deposited
    BY <2>1, <2>2, MoneyAssumption
  <2> QED
    BY <2>3 DEF MoneyConserved, Sum, held
<1> QED
  BY PaysInductive, <1>1, <1>2, <1>3, PTL DEF PaysApartSpec
=============================================================================
