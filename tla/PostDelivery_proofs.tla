------------------------ MODULE PostDelivery_proofs ------------------------
(***************************************************************************)
(* Proofs about PostDelivery, for all jobs, dispatchers, numbers of         *)
(* attempts and mishaps, and every finite set of workers.                   *)
(***************************************************************************)
EXTENDS PostDelivery, FiniteSetTheorems, TLAPS

Base == TypeOK /\ SentFits /\ HolderFits /\ LogFits /\ StatusTellsMoney /\ CompletedWasQueued

LEMMA WorkType ==
    ASSUME TypeOK, NEW c \in Workers, pc[c] # "idle"
    PROVE  /\ work[c] \in Work
           /\ work[c].job \in Jobs /\ work[c].seen \in PostJobStatus
           /\ work[c].made \in Nat /\ work[c].tries \in Nat /\ work[c].permanent \in BOOLEAN
BY DEF TypeOK, Work

LEMMA DoingType ==
    ASSUME NEW j \in Jobs, NEW seen \in PostJobStatus, NEW m \in Nat, NEW n \in Nat,
           NEW p \in BOOLEAN
    PROVE  /\ Doing(j, seen, m, n, p) \in Work
           /\ Doing(j, seen, m, n, p).job = j
BY DEF Doing, Work

(* A step of worker c that gives it some work w and sends it to step p *)
LEMMA NewWorkType ==
    ASSUME TypeOK, NEW c \in Workers, NEW w \in Work, work' = [work EXCEPT ![c] = w]
    PROVE  work' \in [Workers -> Work \cup {Nobody}] /\ work'[c] = w
BY DEF TypeOK

LEMMA TryAgainType ==
    ASSUME TypeOK, NEW c \in Workers, pc[c] # "idle", NEW p \in BOOLEAN, TryAgain(c, p)
    PROVE  /\ \E w \in Work : work' = [work EXCEPT ![c] = w] /\ w.job = work[c].job
           /\ pc' \in {[pc EXCEPT ![c] = "send"], [pc EXCEPT ![c] = "fail"]}
<1>1. work[c].job \in Jobs /\ work[c].seen \in PostJobStatus
      /\ work[c].made \in Nat /\ work[c].tries \in Nat
  BY WorkType
<1>2. CASE work[c].tries < SendAttempts
  <2>1. Doing(work[c].job, work[c].seen, work[c].made, work[c].tries + 1, FALSE) \in Work
        /\ Doing(work[c].job, work[c].seen, work[c].made, work[c].tries + 1, FALSE).job
           = work[c].job
    BY <1>1, work[c].tries + 1 \in Nat, DoingType
  <2> QED
    BY <1>2, <2>1 DEF TryAgain, Goto
<1>3. CASE ~ (work[c].tries < SendAttempts)
  <2>1. Doing(work[c].job, work[c].seen, work[c].made, work[c].tries, p) \in Work
        /\ Doing(work[c].job, work[c].seen, work[c].made, work[c].tries, p).job = work[c].job
    BY <1>1, DoingType
  <2> QED
    BY <1>3, <2>1 DEF TryAgain, Goto
<1> QED
  BY <1>2, <1>3

-----------------------------------------------------------------------------
(* Dispatchers: they write the outbox and add entries to the queue. *)

LEMMA ReserveBatchKeeps ==
    ASSUME Base, NEW d \in Dispatchers, ReserveBatch(d)
    PROVE  Base'
<1> USE DEF row, outbox, entry, ops, world
<1>1. TypeOK'
  BY NobodyAssumption DEF Base, TypeOK, ReserveBatch, Oldest
<1>2. SentFits' /\ CompletedWasQueued'
  BY NobodyAssumption DEF Base, TypeOK, SentFits, CompletedWasQueued, LogFits, ReserveBatch, Oldest
<1>3. HolderFits'
  BY NobodyAssumption DEF Base, TypeOK, HolderFits, ReserveBatch, Oldest
<1>4. LogFits'
  BY NobodyAssumption DEF Base, TypeOK, LogFits, ReserveBatch, Oldest
<1>5. StatusTellsMoney'
  BY NobodyAssumption DEF Base, TypeOK, StatusTellsMoney, ReserveBatch, Oldest
<1> QED
  BY <1>1, <1>2, <1>3, <1>4, <1>5 DEF Base

LEMMA EnqueueKeeps ==
    ASSUME Base, NEW d \in Dispatchers, NEW j \in Jobs, Enqueue(d, j)
    PROVE  Base'
<1> USE DEF row, outbox, entry, ops, world
<1>1. TypeOK'
  BY NobodyAssumption DEF Base, TypeOK, Enqueue, Add
<1>2. SentFits' /\ CompletedWasQueued'
  BY NobodyAssumption DEF Base, TypeOK, SentFits, CompletedWasQueued, LogFits, Enqueue, Add
<1>3. HolderFits'
  BY NobodyAssumption DEF Base, TypeOK, HolderFits, Enqueue, Add
<1>4. LogFits'
  BY NobodyAssumption DEF Base, TypeOK, LogFits, Enqueue, Add
<1>5. StatusTellsMoney'
  BY NobodyAssumption DEF Base, TypeOK, StatusTellsMoney, Enqueue, Add
<1> QED
  BY <1>1, <1>2, <1>3, <1>4, <1>5 DEF Base

LEMMA MarkCompletedKeeps ==
    ASSUME Base, NEW d \in Dispatchers, MarkCompleted(d)
    PROVE  Base'
<1> USE DEF row, outbox, entry, ops, world
<1>1. TypeOK'
  BY NobodyAssumption DEF Base, TypeOK, MarkCompleted
<1>2. SentFits' /\ CompletedWasQueued'
  BY NobodyAssumption DEF Base, TypeOK, SentFits, CompletedWasQueued, LogFits, MarkCompleted
<1>3. HolderFits'
  BY NobodyAssumption DEF Base, TypeOK, HolderFits, MarkCompleted
<1>4. LogFits'
  BY NobodyAssumption DEF Base, TypeOK, LogFits, MarkCompleted
<1>5. StatusTellsMoney'
  BY NobodyAssumption DEF Base, TypeOK, StatusTellsMoney, MarkCompleted
<1> QED
  BY <1>1, <1>2, <1>3, <1>4, <1>5 DEF Base

LEMMA DispatchFailsKeeps ==
    ASSUME Base, NEW d \in Dispatchers, NEW j \in Jobs, DispatchFails(d, j)
    PROVE  Base'
<1> USE DEF row, outbox, entry, ops, world
<1>1. TypeOK'
  BY NobodyAssumption DEF Base, TypeOK, DispatchFails
<1>2. SentFits' /\ CompletedWasQueued'
  BY NobodyAssumption DEF Base, TypeOK, SentFits, CompletedWasQueued, LogFits, DispatchFails
<1>3. HolderFits'
  BY NobodyAssumption DEF Base, TypeOK, HolderFits, DispatchFails
<1>4. LogFits'
  BY NobodyAssumption DEF Base, TypeOK, LogFits, DispatchFails
<1>5. StatusTellsMoney'
  BY NobodyAssumption DEF Base, TypeOK, StatusTellsMoney, DispatchFails
<1> QED
  BY <1>1, <1>2, <1>3, <1>4, <1>5 DEF Base

LEMMA DispatcherDiesKeeps ==
    ASSUME Base, NEW d \in Dispatchers, DispatcherDies(d)
    PROVE  Base'
<1> USE DEF row, outbox, entry, ops, world
<1>1. TypeOK'
  BY NobodyAssumption DEF Base, TypeOK, DispatcherDies
<1>2. SentFits' /\ CompletedWasQueued'
  BY NobodyAssumption DEF Base, TypeOK, SentFits, CompletedWasQueued, LogFits, DispatcherDies
<1>3. HolderFits'
  BY NobodyAssumption DEF Base, TypeOK, HolderFits, DispatcherDies
<1>4. LogFits'
  BY NobodyAssumption DEF Base, TypeOK, LogFits, DispatcherDies
<1>5. StatusTellsMoney'
  BY NobodyAssumption DEF Base, TypeOK, StatusTellsMoney, DispatcherDies
<1> QED
  BY <1>1, <1>2, <1>3, <1>4, <1>5 DEF Base

LEMMA LockExpiresKeeps ==
    ASSUME Base, NEW j \in Jobs, LockExpires(j)
    PROVE  Base'
<1> USE DEF row, outbox, entry, ops, world
<1>1. TypeOK'
  BY NobodyAssumption DEF Base, TypeOK, LockExpires
<1>2. SentFits' /\ CompletedWasQueued'
  BY NobodyAssumption DEF Base, TypeOK, SentFits, CompletedWasQueued, LogFits, LockExpires
<1>3. HolderFits'
  BY NobodyAssumption DEF Base, TypeOK, HolderFits, LockExpires
<1>4. LogFits'
  BY NobodyAssumption DEF Base, TypeOK, LogFits, LockExpires
<1>5. StatusTellsMoney'
  BY NobodyAssumption DEF Base, TypeOK, StatusTellsMoney, LockExpires
<1> QED
  BY <1>1, <1>2, <1>3, <1>4, <1>5 DEF Base

-----------------------------------------------------------------------------
(* The queue *)

LEMMA TakeKeeps ==
    ASSUME Base, NEW c \in Workers, NEW j \in Jobs, Take(c, j)
    PROVE  Base'
<1> USE DEF row, outbox, entry, ops, world
<1>1. TypeOK'
  <2>1. work' \in [Workers -> Work \cup {Nobody}] /\ work'[c] \in Work
    <3>1. made[j] \in Nat /\ "queued" \in PostJobStatus
      BY DEF Base, TypeOK, PostJobStatus
    <3>2. Doing(j, "queued", made[j], 0, FALSE) \in Work
      BY <3>1, DoingType
    <3>3. work \in [Workers -> Work \cup {Nobody}]
          /\ work' = [work EXCEPT ![c] = Doing(j, "queued", made[j], 0, FALSE)]
      BY DEF Base, TypeOK, Take
    <3> QED
      BY <3>2, <3>3
  <2>2. pc' \in [Workers -> Step]
    BY DEF Base, TypeOK, Take, Step
  <2>3. \A k \in Workers : pc'[k] # "idle" => work'[k] # Nobody
    BY <2>1, RecordAssumption DEF Base, TypeOK, Take
  <2> QED
    BY <2>1, <2>2, <2>3, NobodyAssumption DEF Base, TypeOK, Take
<1>2. SentFits' /\ CompletedWasQueued'
  BY NobodyAssumption DEF Base, TypeOK, SentFits, CompletedWasQueued, LogFits, Take, Step, Doing, Work, PostJobStatus
<1>3. HolderFits'
  BY NobodyAssumption DEF Base, TypeOK, HolderFits, Take, Step, Doing, Work, PostJobStatus
<1>4. LogFits'
  BY NobodyAssumption DEF Base, TypeOK, LogFits, Take, Step, Doing, Work, PostJobStatus
<1>5. StatusTellsMoney'
  BY NobodyAssumption DEF Base, TypeOK, StatusTellsMoney, Take, Step, Doing, Work, PostJobStatus
<1> QED
  BY <1>1, <1>2, <1>3, <1>4, <1>5 DEF Base

LEMMA LockLostKeeps ==
    ASSUME Base, NEW c \in Workers, LockLost(c)
    PROVE  Base'
<1> USE DEF row, outbox, entry, ops, world
<1>0. pc[c] # "idle" /\ work[c] \in Work /\ work[c].job \in Jobs
      /\ work[c].seen \in PostJobStatus /\ work[c].made \in Nat
      /\ work[c].tries \in Nat /\ work[c].permanent \in BOOLEAN
  BY WorkType DEF Base, LockLost
<1>1. TypeOK'
  BY <1>0, NobodyAssumption DEF Base, TypeOK, LockLost
<1>2. SentFits' /\ CompletedWasQueued'
  BY <1>0, NobodyAssumption DEF Base, TypeOK, SentFits, CompletedWasQueued, LogFits, LockLost
<1>3. HolderFits'
  BY <1>0, NobodyAssumption DEF Base, TypeOK, HolderFits, LockLost
<1>4. LogFits'
  BY <1>0, NobodyAssumption DEF Base, TypeOK, LogFits, LockLost
<1>5. StatusTellsMoney'
  BY <1>0, NobodyAssumption DEF Base, TypeOK, StatusTellsMoney, LockLost
<1> QED
  BY <1>1, <1>2, <1>3, <1>4, <1>5 DEF Base

LEMMA DiesKeeps ==
    ASSUME Base, NEW c \in Workers, Dies(c)
    PROVE  Base'
<1> USE DEF row, outbox, entry, ops, world
<1>0. pc[c] # "idle" /\ work[c] \in Work /\ work[c].job \in Jobs
      /\ work[c].seen \in PostJobStatus /\ work[c].made \in Nat
      /\ work[c].tries \in Nat /\ work[c].permanent \in BOOLEAN
  BY WorkType DEF Base, Dies
<1>1. TypeOK'
  BY <1>0, NobodyAssumption DEF Base, TypeOK, Dies, Step
<1>2. SentFits' /\ CompletedWasQueued'
  BY <1>0, NobodyAssumption DEF Base, TypeOK, SentFits, CompletedWasQueued, LogFits, Dies, Step
<1>3. HolderFits'
  BY <1>0, NobodyAssumption DEF Base, TypeOK, HolderFits, Dies, Step
<1>4. LogFits'
  BY <1>0, NobodyAssumption DEF Base, TypeOK, LogFits, Dies, Step
<1>5. StatusTellsMoney'
  BY <1>0, NobodyAssumption DEF Base, TypeOK, StatusTellsMoney, Dies, Step
<1> QED
  BY <1>1, <1>2, <1>3, <1>4, <1>5 DEF Base

LEMMA TakenBackKeeps ==
    ASSUME Base, NEW j \in Jobs, TakenBack(j)
    PROVE  Base'
<1> USE DEF row, outbox, entry, ops, world
<1>1. TypeOK'
  BY NobodyAssumption DEF Base, TypeOK, TakenBack
<1>2. SentFits' /\ CompletedWasQueued'
  BY NobodyAssumption DEF Base, TypeOK, SentFits, CompletedWasQueued, LogFits, TakenBack
<1>3. HolderFits'
  BY NobodyAssumption DEF Base, TypeOK, HolderFits, TakenBack
<1>4. LogFits'
  BY NobodyAssumption DEF Base, TypeOK, LogFits, TakenBack
<1>5. StatusTellsMoney'
  BY NobodyAssumption DEF Base, TypeOK, StatusTellsMoney, TakenBack
<1> QED
  BY <1>1, <1>2, <1>3, <1>4, <1>5 DEF Base

-----------------------------------------------------------------------------
(* The worker *)

LEMMA ReserveKeeps ==
    ASSUME Base, NEW c \in Workers, Reserve(c)
    PROVE  Base'
<1> USE DEF row, outbox, entry, ops, world
<1>0. pc[c] # "idle" /\ work[c] \in Work /\ work[c].job \in Jobs
      /\ work[c].seen \in PostJobStatus /\ work[c].made \in Nat
      /\ work[c].tries \in Nat /\ work[c].permanent \in BOOLEAN
  BY WorkType DEF Base, Reserve
<1>1. TypeOK'
  BY <1>0, NobodyAssumption, AttemptAssumption DEF Base, TypeOK, Reserve, Goto, Step, PostJobStatus
<1>2. SentFits' /\ CompletedWasQueued'
  BY <1>0, NobodyAssumption DEF Base, TypeOK, SentFits, CompletedWasQueued, LogFits, Reserve, Goto, Step, PostJobStatus
<1>3. HolderFits'
  BY <1>0, NobodyAssumption DEF Base, TypeOK, HolderFits, Reserve, Goto, Step, PostJobStatus
<1>4. LogFits'
  BY <1>0, NobodyAssumption DEF Base, TypeOK, LogFits, Reserve, Goto, Step, PostJobStatus
<1>5. StatusTellsMoney'
  BY <1>0, NobodyAssumption DEF Base, TypeOK, StatusTellsMoney, Reserve, Goto, Step, PostJobStatus
<1> QED
  BY <1>1, <1>2, <1>3, <1>4, <1>5 DEF Base

LEMMA ReadJobKeeps ==
    ASSUME Base, NEW c \in Workers, ReadJob(c)
    PROVE  Base'
<1> USE DEF row, outbox, entry, ops, world
<1>0. pc[c] # "idle" /\ work[c] \in Work /\ work[c].job \in Jobs
      /\ work[c].seen \in PostJobStatus /\ work[c].made \in Nat
      /\ work[c].tries \in Nat /\ work[c].permanent \in BOOLEAN
  BY WorkType DEF Base, ReadJob
<1>1. TypeOK'
  <2>1. work' \in [Workers -> Work \cup {Nobody}] /\ work'[c] \in Work
    BY <1>0, DoingType DEF Base, TypeOK, ReadJob, Goto
  <2>2. pc' \in [Workers -> Step]
    BY DEF Base, TypeOK, ReadJob, Goto, Step
  <2>3. \A k \in Workers : pc'[k] # "idle" => work'[k] # Nobody
    BY <2>1, RecordAssumption DEF Base, TypeOK, ReadJob, Goto
  <2> QED
    BY <2>1, <2>2, <2>3, <1>0, NobodyAssumption DEF Base, TypeOK, ReadJob, Goto
<1>2. SentFits' /\ CompletedWasQueued'
  BY <1>0, NobodyAssumption DEF Base, TypeOK, SentFits, CompletedWasQueued, LogFits, ReadJob, Goto, Step, Doing, Work
<1>3. HolderFits'
  BY <1>0, NobodyAssumption DEF Base, TypeOK, HolderFits, ReadJob, Goto, Step, Doing, Work
<1>4. LogFits'
  BY <1>0, NobodyAssumption DEF Base, TypeOK, LogFits, ReadJob, Goto, Step, Doing, Work
<1>5. StatusTellsMoney'
  BY <1>0, NobodyAssumption DEF Base, TypeOK, StatusTellsMoney, ReadJob, Goto, Step, Doing, Work
<1> QED
  BY <1>1, <1>2, <1>3, <1>4, <1>5 DEF Base

LEMMA ReserveThrowsKeeps ==
    ASSUME Base, NEW c \in Workers, ReserveThrows(c)
    PROVE  Base'
<1> USE DEF row, outbox, entry, ops, world
<1>0. pc[c] # "idle" /\ work[c] \in Work /\ work[c].job \in Jobs
  BY WorkType DEF Base, ReserveThrows
<1>1. TypeOK'
  BY <1>0 DEF Base, TypeOK, ReserveThrows, Goto, Step
<1>2. SentFits' /\ CompletedWasQueued'
  BY DEF Base, SentFits, CompletedWasQueued, ReserveThrows
<1>3. HolderFits'
  BY <1>0, NobodyAssumption DEF Base, TypeOK, HolderFits, ReserveThrows, Goto
<1>4. LogFits'
  BY <1>0 DEF Base, TypeOK, LogFits, ReserveThrows, Goto
<1>5. StatusTellsMoney'
  BY DEF Base, StatusTellsMoney, ReserveThrows
<1> QED
  BY <1>1, <1>2, <1>3, <1>4, <1>5 DEF Base

LEMMA LookThrowsKeeps ==
    ASSUME Base, NEW c \in Workers, LookThrows(c)
    PROVE  Base'
<1> USE DEF row, outbox, entry, ops, world
<1>0. pc[c] # "idle" /\ work[c] \in Work /\ work[c].job \in Jobs
  BY WorkType DEF Base, LookThrows
<1>1. TypeOK'
  BY <1>0 DEF Base, TypeOK, LookThrows, Goto, Step
<1>2. SentFits' /\ CompletedWasQueued'
  BY DEF Base, SentFits, CompletedWasQueued, LookThrows
<1>3. HolderFits'
  BY <1>0, NobodyAssumption DEF Base, TypeOK, HolderFits, LookThrows, Goto
<1>4. LogFits'
  BY <1>0 DEF Base, TypeOK, LogFits, LookThrows, Goto
<1>5. StatusTellsMoney'
  BY DEF Base, StatusTellsMoney, LookThrows
<1> QED
  BY <1>1, <1>2, <1>3, <1>4, <1>5 DEF Base

LEMMA DelayKeeps ==
    ASSUME Base, NEW c \in Workers, Delay(c)
    PROVE  Base'
<1> USE DEF row, outbox, entry, ops, world
<1>0. pc[c] # "idle" /\ work[c] \in Work /\ work[c].job \in Jobs
      /\ work[c].seen \in PostJobStatus /\ work[c].made \in Nat
      /\ work[c].tries \in Nat /\ work[c].permanent \in BOOLEAN
  BY WorkType DEF Base, Delay
<1>1. TypeOK'
  <2>1. \/ UNCHANGED <<queue, holder, work>> /\ pc' = [pc EXCEPT ![c] = "fail"]
        \/ /\ queue' = [queue EXCEPT ![work[c].job] = "waiting"]
           /\ holder' = [holder EXCEPT ![work[c].job] = Nobody]
           /\ work' = [work EXCEPT ![c] = Nobody]
           /\ pc' = [pc EXCEPT ![c] = "idle"]
    BY DEF Delay, Goto, Quit
  <2>2. UNCHANGED <<row, log, escrow, outbox, made, stalls, ops, world>>
    BY DEF Delay
  <2>3. /\ queue' \in [Jobs -> {"none", "waiting", "active", "failed"}]
        /\ holder' \in [Jobs -> Workers \cup {Nobody}]
    BY <1>0, <2>1 DEF Base, TypeOK
  <2>4. /\ pc' \in [Workers -> Step]
        /\ work' \in [Workers -> Work \cup {Nobody}]
        /\ \A k \in Workers : pc'[k] # "idle" => work'[k] # Nobody
    BY <1>0, <2>1 DEF Base, TypeOK, Step
  <2> QED
    BY <2>2, <2>3, <2>4 DEF Base, TypeOK
<1>2. SentFits' /\ CompletedWasQueued'
  BY <1>0, NobodyAssumption DEF Base, TypeOK, SentFits, CompletedWasQueued, LogFits, Delay, Goto, Quit, Step
<1>3. HolderFits'
  BY <1>0, NobodyAssumption DEF Base, TypeOK, HolderFits, Delay, Goto, Quit, Step
<1>4. LogFits'
  BY <1>0, NobodyAssumption DEF Base, TypeOK, LogFits, Delay, Goto, Quit, Step
<1>5. StatusTellsMoney'
  BY <1>0, NobodyAssumption DEF Base, TypeOK, StatusTellsMoney, Delay, Goto, Quit, Step
<1> QED
  BY <1>1, <1>2, <1>3, <1>4, <1>5 DEF Base

LEMMA LookKeeps ==
    ASSUME Base, NEW c \in Workers, Look(c)
    PROVE  Base'
<1> USE DEF row, outbox, entry, ops, world
<1>0. pc[c] # "idle" /\ work[c] \in Work /\ work[c].job \in Jobs
      /\ work[c].seen \in PostJobStatus /\ work[c].made \in Nat
      /\ work[c].tries \in Nat /\ work[c].permanent \in BOOLEAN
  BY WorkType DEF Base, Look
<1>1. TypeOK'
  <2>0. Doing(work[c].job, work[c].seen, work[c].made, 1, FALSE) \in Work
    BY <1>0, DoingType
  <2>1. \/ UNCHANGED work /\ pc' = [pc EXCEPT ![c] = "finish"]
        \/ \E w \in Work : work' = [work EXCEPT ![c] = w] /\ pc' = [pc EXCEPT ![c] = "send"]
    <3>1. CASE Published(work[c].job) \/ status[work[c].job] = "success"
      BY <3>1 DEF Look, Goto
    <3>2. CASE ~ (Published(work[c].job) \/ status[work[c].job] = "success")
      BY <2>0, <3>2 DEF Look, Goto
    <3> QED
      BY <3>1, <3>2
  <2>2. pc' \in [Workers -> Step] /\ \A k \in Workers \ {c} : pc'[k] = pc[k]
    BY <2>1 DEF Base, TypeOK, Step
  <2>3. work' \in [Workers -> Work \cup {Nobody}] /\ work'[c] \in Work
        /\ \A k \in Workers \ {c} : work'[k] = work[k]
    BY <1>0, <2>1 DEF Base, TypeOK
  <2>6. \A k \in Workers : pc'[k] # "idle" => work'[k] # Nobody
    BY <2>2, <2>3, RecordAssumption DEF Base, TypeOK
  <2>4. message' \in [Jobs -> BOOLEAN]
    BY <1>0 DEF Base, TypeOK, Look, Published
  <2>5. UNCHANGED <<status, attempts, late, log, escrow, outbox, entry, ops, world>>
    BY DEF Look
  <2> QED
    BY <2>2, <2>3, <2>4, <2>5, <2>6 DEF Base, TypeOK
<1>2. SentFits' /\ CompletedWasQueued'
  BY <1>0, NobodyAssumption DEF Base, TypeOK, SentFits, CompletedWasQueued, LogFits, Look, Published, Goto, Step, Doing, Work
<1>3. HolderFits'
  BY <1>0, NobodyAssumption DEF Base, TypeOK, HolderFits, Look, Published, Goto, Step, Doing, Work
<1>4. LogFits'
  BY <1>0, NobodyAssumption DEF Base, TypeOK, LogFits, Look, Published, Goto, Step, Doing, Work
<1>5. StatusTellsMoney'
  BY <1>0, NobodyAssumption DEF Base, TypeOK, StatusTellsMoney, Look, Published, Goto, Step, Doing, Work
<1> QED
  BY <1>1, <1>2, <1>3, <1>4, <1>5 DEF Base

LEMMA AnsweredKeeps ==
    ASSUME Base, NEW c \in Workers, Answered(c)
    PROVE  Base'
<1> USE DEF row, outbox, entry, ops, world
<1>0. pc[c] # "idle" /\ work[c] \in Work /\ work[c].job \in Jobs
      /\ work[c].seen \in PostJobStatus /\ work[c].made \in Nat
      /\ work[c].tries \in Nat /\ work[c].permanent \in BOOLEAN
  BY WorkType DEF Base, Answered
<1>1. TypeOK'
  BY <1>0, NobodyAssumption DEF Base, TypeOK, Answered, Goto, Step
<1>2. SentFits' /\ CompletedWasQueued'
  BY <1>0, NobodyAssumption DEF Base, TypeOK, SentFits, CompletedWasQueued, LogFits, Answered, Goto, Step
<1>3. HolderFits'
  BY <1>0, NobodyAssumption DEF Base, TypeOK, HolderFits, Answered, Goto, Step
<1>4. LogFits'
  BY <1>0, NobodyAssumption DEF Base, TypeOK, LogFits, Answered, Goto, Step
<1>5. StatusTellsMoney'
  BY <1>0, NobodyAssumption DEF Base, TypeOK, StatusTellsMoney, Answered, Goto, Step
<1> QED
  BY <1>1, <1>2, <1>3, <1>4, <1>5 DEF Base

LEMMA RefusedKeeps ==
    ASSUME Base, NEW c \in Workers, Refused(c)
    PROVE  Base'
<1> USE DEF row, outbox, entry, ops, world
<1>0. pc[c] # "idle" /\ work[c].job \in Jobs
  BY WorkType DEF Base, Refused
<1>a. PICK w \in Work : work' = [work EXCEPT ![c] = w] /\ w.job = work[c].job
  BY <1>0, TryAgainType DEF Base, Refused
<1>b. pc' \in {[pc EXCEPT ![c] = "send"], [pc EXCEPT ![c] = "fail"]}
  BY <1>0, TryAgainType DEF Base, Refused
<1>1. TypeOK'
  <2>1. work' \in [Workers -> Work \cup {Nobody}] /\ work'[c] = w
    BY <1>a, NewWorkType DEF Base
  <2>2. pc' \in [Workers -> Step] /\ \A k \in Workers : pc'[k] # "idle" => work'[k] # Nobody
    BY <1>a, <1>b, <2>1, RecordAssumption DEF Base, TypeOK, Step
  <2> QED
    BY <1>0, <2>1, <2>2 DEF Base, TypeOK, Refused
<1>2. SentFits' /\ CompletedWasQueued'
  BY DEF Base, TypeOK, SentFits, CompletedWasQueued, LogFits, Refused
<1>3. HolderFits'
  BY <1>0, <1>a, <1>b, NobodyAssumption DEF Base, TypeOK, HolderFits, Refused
<1>4. LogFits'
  BY <1>0, <1>a, <1>b DEF Base, TypeOK, LogFits, Refused
<1>5. StatusTellsMoney'
  BY DEF Base, TypeOK, StatusTellsMoney, Refused
<1> QED
  BY <1>1, <1>2, <1>3, <1>4, <1>5 DEF Base

LEMMA TimedOutKeeps ==
    ASSUME Base, NEW c \in Workers, TimedOut(c)
    PROVE  Base'
<1> USE DEF row, outbox, entry, ops, world
<1>0. pc[c] # "idle" /\ work[c].job \in Jobs
  BY WorkType DEF Base, TimedOut
<1>a. PICK w \in Work : work' = [work EXCEPT ![c] = w] /\ w.job = work[c].job
  BY <1>0, TryAgainType DEF Base, TimedOut
<1>b. pc' \in {[pc EXCEPT ![c] = "send"], [pc EXCEPT ![c] = "fail"]}
  BY <1>0, TryAgainType DEF Base, TimedOut
<1>1. TypeOK'
  <2>1. work' \in [Workers -> Work \cup {Nobody}] /\ work'[c] = w
    BY <1>a, NewWorkType DEF Base
  <2>2. pc' \in [Workers -> Step] /\ \A k \in Workers : pc'[k] # "idle" => work'[k] # Nobody
    BY <1>a, <1>b, <2>1, RecordAssumption DEF Base, TypeOK, Step
  <2> QED
    BY <1>0, <2>1, <2>2 DEF Base, TypeOK, TimedOut
<1>2. SentFits' /\ CompletedWasQueued'
  BY DEF Base, TypeOK, SentFits, CompletedWasQueued, LogFits, TimedOut
<1>3. HolderFits'
  BY <1>0, <1>a, <1>b, NobodyAssumption DEF Base, TypeOK, HolderFits, TimedOut
<1>4. LogFits'
  BY <1>0, <1>a, <1>b DEF Base, TypeOK, LogFits, TimedOut
<1>5. StatusTellsMoney'
  BY DEF Base, TypeOK, StatusTellsMoney, TimedOut
<1> QED
  BY <1>1, <1>2, <1>3, <1>4, <1>5 DEF Base

LEMMA LogDeliveryKeeps ==
    ASSUME Base, NEW c \in Workers, LogDelivery(c)
    PROVE  Base'
<1> USE DEF row, outbox, entry, ops, world
<1>0. pc[c] # "idle" /\ work[c] \in Work /\ work[c].job \in Jobs
      /\ work[c].seen \in PostJobStatus /\ work[c].made \in Nat
      /\ work[c].tries \in Nat /\ work[c].permanent \in BOOLEAN
  BY WorkType DEF Base, LogDelivery
<1>1. TypeOK'
  BY <1>0, NobodyAssumption DEF Base, TypeOK, LogDelivery, Goto, Step
<1>2. SentFits' /\ CompletedWasQueued'
  BY <1>0, NobodyAssumption DEF Base, TypeOK, SentFits, CompletedWasQueued, LogFits, LogDelivery, Goto, Step
<1>3. HolderFits'
  BY <1>0, NobodyAssumption DEF Base, TypeOK, HolderFits, LogDelivery, Goto, Step
<1>4. LogFits'
  BY <1>0, NobodyAssumption DEF Base, TypeOK, LogFits, LogDelivery, Goto, Step
<1>5. StatusTellsMoney'
  BY <1>0, NobodyAssumption DEF Base, TypeOK, StatusTellsMoney, LogDelivery, Goto, Step
<1> QED
  BY <1>1, <1>2, <1>3, <1>4, <1>5 DEF Base

LEMMA LogFailsKeeps ==
    ASSUME Base, NEW c \in Workers, LogFails(c)
    PROVE  Base'
<1> USE DEF row, outbox, entry, ops, world
<1>0. pc[c] # "idle" /\ work[c].job \in Jobs
  BY WorkType DEF Base, LogFails
<1>a. PICK w \in Work : work' = [work EXCEPT ![c] = w] /\ w.job = work[c].job
  BY <1>0, TryAgainType DEF Base, LogFails
<1>b. pc' \in {[pc EXCEPT ![c] = "send"], [pc EXCEPT ![c] = "fail"]}
  BY <1>0, TryAgainType DEF Base, LogFails
<1>1. TypeOK'
  <2>1. work' \in [Workers -> Work \cup {Nobody}] /\ work'[c] = w
    BY <1>a, NewWorkType DEF Base
  <2>2. pc' \in [Workers -> Step] /\ \A k \in Workers : pc'[k] # "idle" => work'[k] # Nobody
    BY <1>a, <1>b, <2>1, RecordAssumption DEF Base, TypeOK, Step
  <2> QED
    BY <1>0, <2>1, <2>2 DEF Base, TypeOK, LogFails
<1>2. SentFits' /\ CompletedWasQueued'
  BY DEF Base, TypeOK, SentFits, CompletedWasQueued, LogFits, LogFails
<1>3. HolderFits'
  BY <1>0, <1>a, <1>b, NobodyAssumption DEF Base, TypeOK, HolderFits, LogFails
<1>4. LogFits'
  BY <1>0, <1>a, <1>b DEF Base, TypeOK, LogFits, LogFails
<1>5. StatusTellsMoney'
  BY DEF Base, TypeOK, StatusTellsMoney, LogFails
<1> QED
  BY <1>1, <1>2, <1>3, <1>4, <1>5 DEF Base

LEMMA SucceedsKeeps ==
    ASSUME Base, NEW c \in Workers, Succeeds(c)
    PROVE  Base'
<1> USE DEF row, outbox, entry, ops, world
<1>0. pc[c] # "idle" /\ work[c] \in Work /\ work[c].job \in Jobs
      /\ work[c].seen \in PostJobStatus /\ work[c].made \in Nat
      /\ work[c].tries \in Nat /\ work[c].permanent \in BOOLEAN
  BY WorkType DEF Base, Succeeds
<1>1. TypeOK'
  BY <1>0, NobodyAssumption DEF Base, TypeOK, Succeeds, WriteStatus, Release, Payable, Goto, Step, PostJobStatus
<1>2. SentFits' /\ CompletedWasQueued'
  BY <1>0, NobodyAssumption DEF Base, TypeOK, SentFits, CompletedWasQueued, LogFits, Succeeds, WriteStatus, Release, Payable, Goto, Step, PostJobStatus
<1>3. HolderFits'
  BY <1>0, NobodyAssumption DEF Base, TypeOK, HolderFits, Succeeds, WriteStatus, Release, Payable, Goto, Step, PostJobStatus
<1>4. LogFits'
  BY <1>0, NobodyAssumption DEF Base, TypeOK, LogFits, Succeeds, WriteStatus, Release, Payable, Goto, Step, PostJobStatus
<1>5. StatusTellsMoney'
  BY <1>0, NobodyAssumption DEF Base, TypeOK, StatusTellsMoney, Succeeds, WriteStatus, Release, Payable, Goto, Step, PostJobStatus
<1> QED
  BY <1>1, <1>2, <1>3, <1>4, <1>5 DEF Base

LEMMA SuccessThrowsKeeps ==
    ASSUME Base, NEW c \in Workers, SuccessThrows(c)
    PROVE  Base'
<1> USE DEF row, outbox, entry, ops, world
<1>0. pc[c] # "idle" /\ work[c] \in Work /\ work[c].job \in Jobs
      /\ work[c].seen \in PostJobStatus /\ work[c].made \in Nat
      /\ work[c].tries \in Nat /\ work[c].permanent \in BOOLEAN
  BY WorkType DEF Base, SuccessThrows
<1>1. TypeOK'
  BY <1>0, NobodyAssumption DEF Base, TypeOK, SuccessThrows, Goto, Step
<1>2. SentFits' /\ CompletedWasQueued'
  BY <1>0, NobodyAssumption DEF Base, TypeOK, SentFits, CompletedWasQueued, LogFits, SuccessThrows, Goto, Step
<1>3. HolderFits'
  BY <1>0, NobodyAssumption DEF Base, TypeOK, HolderFits, SuccessThrows, Goto, Step
<1>4. LogFits'
  BY <1>0, NobodyAssumption DEF Base, TypeOK, LogFits, SuccessThrows, Goto, Step
<1>5. StatusTellsMoney'
  BY <1>0, NobodyAssumption DEF Base, TypeOK, StatusTellsMoney, SuccessThrows, Goto, Step
<1> QED
  BY <1>1, <1>2, <1>3, <1>4, <1>5 DEF Base

LEMMA FailsKeeps ==
    ASSUME Base, NEW c \in Workers, Fails(c)
    PROVE  Base'
<1> USE DEF row, outbox, entry, ops, world
<1>0. pc[c] # "idle" /\ work[c] \in Work /\ work[c].job \in Jobs
      /\ work[c].seen \in PostJobStatus /\ work[c].made \in Nat
      /\ work[c].tries \in Nat /\ work[c].permanent \in BOOLEAN
  BY WorkType DEF Base, Fails
<1>1. TypeOK'
  BY <1>0, NobodyAssumption DEF Base, TypeOK, Fails, WriteStatus, Refund, Refundable, FailStatus, Goto, Step, PostJobStatus
<1>2. SentFits' /\ CompletedWasQueued'
  BY <1>0, NobodyAssumption DEF Base, TypeOK, SentFits, CompletedWasQueued, LogFits, Fails, WriteStatus, Refund, Refundable, FailStatus, Goto, Step, PostJobStatus
<1>3. HolderFits'
  BY <1>0, NobodyAssumption DEF Base, TypeOK, HolderFits, Fails, WriteStatus, Refund, Refundable, FailStatus, Goto, Step, PostJobStatus
<1>4. LogFits'
  BY <1>0, NobodyAssumption DEF Base, TypeOK, LogFits, Fails, WriteStatus, Refund, Refundable, FailStatus, Goto, Step, PostJobStatus
<1>5. StatusTellsMoney'
  BY <1>0, NobodyAssumption DEF Base, TypeOK, StatusTellsMoney, Fails, WriteStatus, Refund, Refundable, FailStatus, Goto, Step, PostJobStatus
<1> QED
  BY <1>1, <1>2, <1>3, <1>4, <1>5 DEF Base

LEMMA FailThrowsKeeps ==
    ASSUME Base, NEW c \in Workers, FailThrows(c)
    PROVE  Base'
<1> USE DEF row, outbox, entry, ops, world
<1>0. pc[c] # "idle" /\ work[c] \in Work /\ work[c].job \in Jobs
      /\ work[c].seen \in PostJobStatus /\ work[c].made \in Nat
      /\ work[c].tries \in Nat /\ work[c].permanent \in BOOLEAN
  BY WorkType DEF Base, FailThrows
<1>1. TypeOK'
  <2>1. work' \in [Workers -> Work \cup {Nobody}] /\ work'[c] \in Work
    BY <1>0, DoingType DEF Base, TypeOK, FailThrows, Goto
  <2>2. pc' \in [Workers -> Step]
    BY DEF Base, TypeOK, FailThrows, Goto, Step
  <2>3. \A k \in Workers : pc'[k] # "idle" => work'[k] # Nobody
    BY <2>1, RecordAssumption DEF Base, TypeOK, FailThrows, Goto
  <2> QED
    BY <2>1, <2>2, <2>3, <1>0, NobodyAssumption DEF Base, TypeOK, FailThrows, Goto
<1>2. SentFits' /\ CompletedWasQueued'
  BY <1>0, NobodyAssumption DEF Base, TypeOK, SentFits, CompletedWasQueued, LogFits, FailThrows, Goto, Step, Doing, Work
<1>3. HolderFits'
  BY <1>0, NobodyAssumption DEF Base, TypeOK, HolderFits, FailThrows, Goto, Step, Doing, Work
<1>4. LogFits'
  BY <1>0, NobodyAssumption DEF Base, TypeOK, LogFits, FailThrows, Goto, Step, Doing, Work
<1>5. StatusTellsMoney'
  BY <1>0, NobodyAssumption DEF Base, TypeOK, StatusTellsMoney, FailThrows, Goto, Step, Doing, Work
<1> QED
  BY <1>1, <1>2, <1>3, <1>4, <1>5 DEF Base

LEMMA QueueCompletesKeeps ==
    ASSUME Base, NEW c \in Workers, QueueCompletes(c)
    PROVE  Base'
<1> USE DEF row, outbox, entry, ops, world
<1>0. pc[c] # "idle" /\ work[c] \in Work /\ work[c].job \in Jobs
      /\ work[c].seen \in PostJobStatus /\ work[c].made \in Nat
      /\ work[c].tries \in Nat /\ work[c].permanent \in BOOLEAN
  BY WorkType DEF Base, QueueCompletes
<1>1. TypeOK'
  BY <1>0, NobodyAssumption DEF Base, TypeOK, QueueCompletes, Goto, Quit, Step
<1>2. SentFits' /\ CompletedWasQueued'
  BY <1>0, NobodyAssumption DEF Base, TypeOK, SentFits, CompletedWasQueued, LogFits, QueueCompletes, Goto, Quit, Step
<1>3. HolderFits'
  BY <1>0, NobodyAssumption DEF Base, TypeOK, HolderFits, QueueCompletes, Goto, Quit, Step
<1>4. LogFits'
  BY <1>0, NobodyAssumption DEF Base, TypeOK, LogFits, QueueCompletes, Goto, Quit, Step
<1>5. StatusTellsMoney'
  BY <1>0, NobodyAssumption DEF Base, TypeOK, StatusTellsMoney, QueueCompletes, Goto, Quit, Step
<1> QED
  BY <1>1, <1>2, <1>3, <1>4, <1>5 DEF Base

LEMMA QueueFailsKeeps ==
    ASSUME Base, NEW c \in Workers, QueueFails(c)
    PROVE  Base'
<1> USE DEF row, outbox, entry, ops, world
<1>0. pc[c] # "idle" /\ work[c] \in Work /\ work[c].job \in Jobs
      /\ work[c].seen \in PostJobStatus /\ work[c].made \in Nat
      /\ work[c].tries \in Nat /\ work[c].permanent \in BOOLEAN
  BY WorkType DEF Base, QueueFails
<1>1. TypeOK'
  BY <1>0, NobodyAssumption DEF Base, TypeOK, QueueFails, Goto, Quit, Step
<1>2. SentFits' /\ CompletedWasQueued'
  BY <1>0, NobodyAssumption DEF Base, TypeOK, SentFits, CompletedWasQueued, LogFits, QueueFails, Goto, Quit, Step
<1>3. HolderFits'
  BY <1>0, NobodyAssumption DEF Base, TypeOK, HolderFits, QueueFails, Goto, Quit, Step
<1>4. LogFits'
  BY <1>0, NobodyAssumption DEF Base, TypeOK, LogFits, QueueFails, Goto, Quit, Step
<1>5. StatusTellsMoney'
  BY <1>0, NobodyAssumption DEF Base, TypeOK, StatusTellsMoney, QueueFails, Goto, Quit, Step
<1> QED
  BY <1>1, <1>2, <1>3, <1>4, <1>5 DEF Base

-----------------------------------------------------------------------------
(* Recovery, admin and watchdog *)

LEMMA StallSeenKeeps ==
    ASSUME Base, NEW j \in Jobs, StallSeen(j)
    PROVE  Base'
<1> USE DEF row, outbox, entry, ops, world
<1>1. TypeOK'
  BY NobodyAssumption DEF Base, TypeOK, StallSeen
<1>2. SentFits' /\ CompletedWasQueued'
  BY NobodyAssumption DEF Base, TypeOK, SentFits, CompletedWasQueued, LogFits, StallSeen
<1>3. HolderFits'
  BY NobodyAssumption DEF Base, TypeOK, HolderFits, StallSeen
<1>4. LogFits'
  BY NobodyAssumption DEF Base, TypeOK, LogFits, StallSeen
<1>5. StatusTellsMoney'
  BY NobodyAssumption DEF Base, TypeOK, StatusTellsMoney, StallSeen
<1> QED
  BY <1>1, <1>2, <1>3, <1>4, <1>5 DEF Base

LEMMA FindStalledKeeps ==
    ASSUME Base, NEW j \in Jobs, FindStalled(j)
    PROVE  Base'
<1> USE DEF row, outbox, entry, ops, world
<1>1. TypeOK'
  BY NobodyAssumption DEF Base, TypeOK, FindStalled, Outcome, Find
<1>2. SentFits' /\ CompletedWasQueued'
  BY NobodyAssumption DEF Base, TypeOK, SentFits, CompletedWasQueued, LogFits, FindStalled, Outcome, Find
<1>3. HolderFits'
  BY NobodyAssumption DEF Base, TypeOK, HolderFits, FindStalled, Outcome, Find
<1>4. LogFits'
  BY NobodyAssumption DEF Base, TypeOK, LogFits, FindStalled, Outcome, Find
<1>5. StatusTellsMoney'
  BY NobodyAssumption DEF Base, TypeOK, StatusTellsMoney, FindStalled, Outcome, Find
<1> QED
  BY <1>1, <1>2, <1>3, <1>4, <1>5 DEF Base

LEMMA RecoverKeeps ==
    ASSUME Base, Recover
    PROVE  Base'
<1> USE DEF row, outbox, entry, ops, world
<1>0. found.job \in Jobs /\ found.to \in {"success", "failed", "queued"}
  BY DEF Base, TypeOK, Recover, Find
<1>1. TypeOK'
  BY <1>0, NobodyAssumption
  DEF Base, TypeOK, Recover, WriteStatus, Payable, Release, Refundable, Refund, PostJobStatus
<1>2. SentFits' /\ CompletedWasQueued'
  BY <1>0, NobodyAssumption
  DEF Base, TypeOK, SentFits, CompletedWasQueued, LogFits, Recover, WriteStatus
<1>3. HolderFits'
  BY <1>0, NobodyAssumption DEF Base, TypeOK, HolderFits, Recover, WriteStatus
<1>4. LogFits'
  BY <1>0, NobodyAssumption DEF Base, TypeOK, LogFits, Recover, WriteStatus
<1>5. StatusTellsMoney'
  BY <1>0, NobodyAssumption
  DEF Base, TypeOK, StatusTellsMoney, Recover, WriteStatus, Payable, Release, Refundable, Refund
<1> QED
  BY <1>1, <1>2, <1>3, <1>4, <1>5 DEF Base

LEMMA RecoverThrowsKeeps ==
    ASSUME Base, RecoverThrows
    PROVE  Base'
<1> USE DEF row, outbox, entry, ops, world
<1>1. TypeOK'
  BY NobodyAssumption DEF Base, TypeOK, RecoverThrows
<1>2. SentFits' /\ CompletedWasQueued'
  BY NobodyAssumption DEF Base, TypeOK, SentFits, CompletedWasQueued, LogFits, RecoverThrows
<1>3. HolderFits'
  BY NobodyAssumption DEF Base, TypeOK, HolderFits, RecoverThrows
<1>4. LogFits'
  BY NobodyAssumption DEF Base, TypeOK, LogFits, RecoverThrows
<1>5. StatusTellsMoney'
  BY NobodyAssumption DEF Base, TypeOK, StatusTellsMoney, RecoverThrows
<1> QED
  BY <1>1, <1>2, <1>3, <1>4, <1>5 DEF Base

LEMMA RetryReadKeeps ==
    ASSUME Base, NEW j \in Jobs, RetryRead(j)
    PROVE  Base'
<1> USE DEF row, outbox, entry, ops, world
<1>1. TypeOK'
  BY NobodyAssumption DEF Base, TypeOK, RetryRead
<1>2. SentFits' /\ CompletedWasQueued'
  BY NobodyAssumption DEF Base, TypeOK, SentFits, CompletedWasQueued, LogFits, RetryRead
<1>3. HolderFits'
  BY NobodyAssumption DEF Base, TypeOK, HolderFits, RetryRead
<1>4. LogFits'
  BY NobodyAssumption DEF Base, TypeOK, LogFits, RetryRead
<1>5. StatusTellsMoney'
  BY NobodyAssumption DEF Base, TypeOK, StatusTellsMoney, RetryRead
<1> QED
  BY <1>1, <1>2, <1>3, <1>4, <1>5 DEF Base

LEMMA RetryWriteKeeps ==
    ASSUME Base, RetryWrite
    PROVE  Base'
<1> USE DEF row, outbox, entry, ops, world
<1>1. TypeOK'
  BY NobodyAssumption DEF Base, TypeOK, RetryWrite, PostJobStatus
<1>2. SentFits' /\ CompletedWasQueued'
  BY NobodyAssumption DEF Base, TypeOK, SentFits, CompletedWasQueued, LogFits, RetryWrite, PostJobStatus
<1>3. HolderFits'
  BY NobodyAssumption DEF Base, TypeOK, HolderFits, RetryWrite, PostJobStatus
<1>4. LogFits'
  BY NobodyAssumption DEF Base, TypeOK, LogFits, RetryWrite, PostJobStatus
<1>5. StatusTellsMoney'
  BY NobodyAssumption DEF Base, TypeOK, StatusTellsMoney, RetryWrite, PostJobStatus
<1> QED
  BY <1>1, <1>2, <1>3, <1>4, <1>5 DEF Base

LEMMA WatchdogRefundsKeeps ==
    ASSUME Base, NEW j \in Jobs, WatchdogRefunds(j)
    PROVE  Base'
<1> USE DEF row, outbox, entry, ops, world
<1>1. TypeOK'
  BY NobodyAssumption DEF Base, TypeOK, WatchdogRefunds, Refund, PostJobOutcomeAllows
<1>2. SentFits' /\ CompletedWasQueued'
  BY NobodyAssumption DEF Base, TypeOK, SentFits, CompletedWasQueued, LogFits, WatchdogRefunds, Refund, PostJobOutcomeAllows
<1>3. HolderFits'
  BY NobodyAssumption DEF Base, TypeOK, HolderFits, WatchdogRefunds, Refund, PostJobOutcomeAllows
<1>4. LogFits'
  BY NobodyAssumption DEF Base, TypeOK, LogFits, WatchdogRefunds, Refund, PostJobOutcomeAllows
<1>5. StatusTellsMoney'
  BY NobodyAssumption DEF Base, TypeOK, StatusTellsMoney, WatchdogRefunds, Refund, PostJobOutcomeAllows
<1> QED
  BY <1>1, <1>2, <1>3, <1>4, <1>5 DEF Base

-----------------------------------------------------------------------------
(* The messages that are out and those still to come *)

LEMMA CountSplit ==
    ASSUME NEW S \in SUBSET Workers, NEW c \in Workers
    PROVE  /\ Cardinality(S) \in Nat /\ Cardinality(S \ {c}) \in Nat
           /\ Cardinality(S) = Cardinality(S \ {c}) + (IF c \in S THEN 1 ELSE 0)
<1>1. IsFiniteSet(S)
  BY FS_Subset, WorkersAssumption
<1>2. IsFiniteSet(S \ {c}) /\ Cardinality(S) \in Nat /\ Cardinality(S \ {c}) \in Nat
  BY <1>1, FS_Subset, FS_CardinalityType
<1>3. CASE c \in S
  BY <1>1, <1>2, <1>3, FS_RemoveElement
<1>4. CASE c \notin S
  <2>1. S \ {c} = S
    BY <1>4
  <2> QED
    BY <1>2, <1>4, <2>1
<1> QED
  BY <1>3, <1>4

(* What worker c and the entry of job j may still add, with what is there *)
Cost(j, c) == posts[j] + (IF Sends(j, c) THEN 1 ELSE 0) + Unheld(j) - excused[j]

(* A step that makes none of the other workers a sender and costs nothing *)
LEMMA Balance ==
    ASSUME TypeOK, TypeOK', Accounted, NEW c \in Workers,
           \A j \in Jobs, d \in Workers \ {c} : Sends(j, d)' => Sends(j, d),
           \A j \in Jobs : Cost(j, c)' <= Cost(j, c)
    PROVE  Accounted'
<1> SUFFICES ASSUME NEW j \in Jobs
             PROVE  posts'[j] + Cardinality(Senders(j)') + Unheld(j)' <= 1 + excused'[j]
  BY DEF Accounted
<1> DEFINE S == Senders(j)
           T == Senders(j)'
<1>1. S \in SUBSET Workers /\ T \in SUBSET Workers /\ T \ {c} \subseteq S \ {c}
  BY DEF Senders
<1>2. (c \in S <=> Sends(j, c)) /\ (c \in T <=> Sends(j, c)')
  BY DEF Senders
<1>3. Cardinality(T \ {c}) <= Cardinality(S \ {c})
  <2>1. IsFiniteSet(S \ {c})
    BY <1>1, FS_Subset, WorkersAssumption
  <2> QED
    BY <1>1, <2>1, FS_Subset
<1>4. /\ Cardinality(S) \in Nat /\ Cardinality(S \ {c}) \in Nat
      /\ Cardinality(S) = Cardinality(S \ {c}) + (IF Sends(j, c) THEN 1 ELSE 0)
  BY <1>1, <1>2, CountSplit
<1>5. /\ Cardinality(T) \in Nat /\ Cardinality(T \ {c}) \in Nat
      /\ Cardinality(T) = Cardinality(T \ {c}) + (IF Sends(j, c)' THEN 1 ELSE 0)
  BY <1>1, <1>2, CountSplit
<1>6. posts[j] + Cardinality(S) + Unheld(j) <= 1 + excused[j]
  BY DEF Accounted
<1>7. /\ posts[j] \in Nat /\ excused[j] \in Nat /\ posts'[j] \in Nat /\ excused'[j] \in Nat
      /\ Unheld(j) \in {0, 1} /\ Unheld(j)' \in {0, 1}
  BY DEF TypeOK, Unheld
<1>8. posts'[j] + (IF Sends(j, c)' THEN 1 ELSE 0) + Unheld(j)' - excused'[j]
      <= posts[j] + (IF Sends(j, c) THEN 1 ELSE 0) + Unheld(j) - excused[j]
  BY DEF Cost
<1>9. posts'[j] + Cardinality(T) + Unheld(j)' <= 1 + excused'[j]
  BY <1>3, <1>4, <1>5, <1>6, <1>7, <1>8
<1> QED
  BY <1>9

LEMMA OthersSend ==
    ASSUME NEW c \in Workers,
           \A d \in Workers \ {c} : pc'[d] = pc[d] /\ work'[d] = work[d],
           \A j \in Jobs : log[j] => log'[j],
           \A j \in Jobs, d \in Workers \ {c} : holder'[j] = d => holder[j] = d
    PROVE  \A j \in Jobs, d \in Workers \ {c} : Sends(j, d)' => Sends(j, d)
BY DEF Sends, Unlogged

LEMMA TakeAccounts ==
    ASSUME Base, TypeOK', Accounted, NEW c \in Workers, NEW j \in Jobs, Take(c, j)
    PROVE  Accounted'
<1> USE DEF row, outbox, entry, ops, world
<1>a. work'[c].job = j
  <2>1. work'[c] = Doing(j, "queued", made[j], 0, FALSE)
    BY DEF Base, TypeOK, Take
  <2> QED
    BY <2>1 DEF Doing
<1>1. \A k \in Jobs, d \in Workers \ {c} : Sends(k, d)' => Sends(k, d)
  BY OthersSend, NobodyAssumption DEF Base, TypeOK, Take
<1>2. ASSUME NEW k \in Jobs PROVE Cost(k, c)' <= Cost(k, c)
  <2>1. posts'[k] = posts[k] /\ excused'[k] = excused[k] /\ posts[k] \in Nat /\ excused[k] \in Nat
    BY DEF Base, TypeOK, Take
  <2>2. CASE k = j
    BY <1>a, <2>1, <2>2, NobodyAssumption
    DEF Base, TypeOK, LogFits, HolderFits, Cost, Sends, Unlogged, Unheld, Take
  <2>3. CASE k # j
    <3>1. ~ Sends(k, c)'
      BY <1>a, <2>3 DEF Base, TypeOK, Sends, Take
    <3>2. Unheld(k)' = Unheld(k) /\ Unheld(k) \in {0, 1}
      BY <2>3 DEF Base, TypeOK, Unheld, Take
    <3> QED
      BY <2>1, <3>1, <3>2 DEF Cost
  <2> QED
    BY <2>2, <2>3
<1> QED
  BY <1>1, <1>2, Balance DEF Base

LEMMA LockLostAccounts ==
    ASSUME Base, TypeOK', Accounted, NEW c \in Workers, LockLost(c)
    PROVE  Accounted'
<1> USE DEF row, outbox, entry, ops, world
<1>0. pc[c] # "idle" /\ work[c].job \in Jobs
  BY WorkType DEF Base, LockLost
<1>1. \A k \in Jobs, d \in Workers \ {c} : Sends(k, d)' => Sends(k, d)
  BY <1>0, OthersSend, NobodyAssumption DEF Base, TypeOK, LockLost
<1>2. \A k \in Jobs : Cost(k, c)' <= Cost(k, c)
  BY <1>0, NobodyAssumption
  DEF Base, TypeOK, LogFits, HolderFits, Cost, Sends, Unlogged, Unheld, LockLost
<1> QED
  BY <1>1, <1>2, Balance DEF Base

LEMMA DiesAccounts ==
    ASSUME Base, TypeOK', Accounted, NEW c \in Workers, Dies(c)
    PROVE  Accounted'
<1> USE DEF row, outbox, entry, ops, world
<1>0. pc[c] # "idle" /\ work[c].job \in Jobs
  BY WorkType DEF Base, Dies
<1>1. \A k \in Jobs, d \in Workers \ {c} : Sends(k, d)' => Sends(k, d)
  BY <1>0, OthersSend, NobodyAssumption DEF Base, TypeOK, Dies
<1>2. ASSUME NEW k \in Jobs PROVE Cost(k, c)' <= Cost(k, c)
  <2>0. pc'[c] = "idle"
    BY DEF Base, TypeOK, Dies
  <2>1. posts'[k] = posts[k] /\ posts[k] \in Nat /\ excused[k] \in Nat /\ log'[k] = log[k]
    BY DEF Base, TypeOK, Dies
  <2>2. CASE k = work[c].job /\ holder[k] = c
    <3>1. excused'[k] = IF pc[c] = "log" THEN excused[k] + 1 ELSE excused[k]
      BY <1>0, <2>2 DEF Base, TypeOK, Dies
    <3>2. log[k] \/ pc[c] = "log" \/ Sends(k, c)
      BY <1>0, <2>2 DEF Base, TypeOK, LogFits, Sends, Unlogged, Step
    <3> QED
      BY <2>0, <2>1, <2>2, <3>1, <3>2 DEF Cost, Sends, Unheld
  <2>3. CASE ~ (k = work[c].job /\ holder[k] = c)
    <3>1. excused'[k] \in Nat /\ excused'[k] >= excused[k]
      BY <1>0, <2>1 DEF Base, TypeOK, Dies
    <3>2. Unheld(k)' = Unheld(k) /\ Unheld(k) \in {0, 1}
      BY <1>0, <2>3, NobodyAssumption DEF Base, TypeOK, HolderFits, Dies, Unheld
    <3> QED
      BY <2>0, <2>1, <3>1, <3>2 DEF Cost, Sends
  <2> QED
    BY <2>2, <2>3
<1> QED
  BY <1>1, <1>2, Balance DEF Base

LEMMA ReserveAccounts ==
    ASSUME Base, TypeOK', Accounted, NEW c \in Workers, Reserve(c)
    PROVE  Accounted'
<1> USE DEF row, outbox, entry, ops, world
<1>0. pc[c] # "idle" /\ work[c].job \in Jobs
  BY WorkType DEF Base, Reserve
<1>1. \A k \in Jobs, d \in Workers \ {c} : Sends(k, d)' => Sends(k, d)
  BY <1>0, OthersSend, NobodyAssumption DEF Base, TypeOK, Reserve, Goto
<1>2. \A k \in Jobs : Cost(k, c)' <= Cost(k, c)
  BY <1>0, NobodyAssumption
  DEF Base, TypeOK, LogFits, HolderFits, Cost, Sends, Unlogged, Unheld, Reserve, Goto
<1> QED
  BY <1>1, <1>2, Balance DEF Base

LEMMA ReadJobAccounts ==
    ASSUME Base, TypeOK', Accounted, NEW c \in Workers, ReadJob(c)
    PROVE  Accounted'
<1> USE DEF row, outbox, entry, ops, world
<1>0. pc[c] # "idle" /\ work[c].job \in Jobs
  BY WorkType DEF Base, ReadJob
<1>a. work'[c].job = work[c].job
  <2>1. work'[c] = Doing(work[c].job, status[work[c].job], work[c].made, 0, FALSE)
    BY DEF Base, TypeOK, ReadJob
  <2> QED
    BY <2>1 DEF Doing
<1>1. \A k \in Jobs, d \in Workers \ {c} : Sends(k, d)' => Sends(k, d)
  BY <1>0, OthersSend, NobodyAssumption DEF Base, TypeOK, ReadJob, Goto
<1>2. ASSUME NEW k \in Jobs PROVE Cost(k, c)' <= Cost(k, c)
  <2>1. posts'[k] = posts[k] /\ excused'[k] = excused[k] /\ posts[k] \in Nat /\ excused[k] \in Nat
    BY DEF Base, TypeOK, ReadJob
  <2>2. CASE k = work[c].job
    BY <1>0, <1>a, <2>1, <2>2, NobodyAssumption
    DEF Base, TypeOK, LogFits, HolderFits, Cost, Sends, Unlogged, Unheld, ReadJob, Goto
  <2>3. CASE k # work[c].job
    <3>1. ~ Sends(k, c)'
      BY <1>0, <1>a, <2>3 DEF Base, TypeOK, Sends, ReadJob, Goto
    <3>2. Unheld(k)' = Unheld(k) /\ Unheld(k) \in {0, 1}
      BY <1>0, <2>3 DEF Base, TypeOK, Unheld, ReadJob, Goto
    <3> QED
      BY <2>1, <3>1, <3>2 DEF Cost
  <2> QED
    BY <2>2, <2>3
<1> QED
  BY <1>1, <1>2, Balance DEF Base

LEMMA ReserveThrowsAccounts ==
    ASSUME Base, TypeOK', Accounted, NEW c \in Workers, ReserveThrows(c)
    PROVE  Accounted'
<1> USE DEF row, outbox, entry, ops, world
<1>0. pc[c] # "idle" /\ work[c].job \in Jobs
  BY WorkType DEF Base, ReserveThrows
<1>1. \A k \in Jobs, d \in Workers \ {c} : Sends(k, d)' => Sends(k, d)
  BY <1>0, OthersSend, NobodyAssumption DEF Base, TypeOK, ReserveThrows, Goto
<1>2. \A k \in Jobs : Cost(k, c)' <= Cost(k, c)
  BY <1>0, NobodyAssumption
  DEF Base, TypeOK, LogFits, HolderFits, Cost, Sends, Unlogged, Unheld, ReserveThrows, Goto
<1> QED
  BY <1>1, <1>2, Balance DEF Base

LEMMA LookThrowsAccounts ==
    ASSUME Base, TypeOK', Accounted, NEW c \in Workers, LookThrows(c)
    PROVE  Accounted'
<1> USE DEF row, outbox, entry, ops, world
<1>0. pc[c] # "idle" /\ work[c].job \in Jobs
  BY WorkType DEF Base, LookThrows
<1>1. \A k \in Jobs, d \in Workers \ {c} : Sends(k, d)' => Sends(k, d)
  BY <1>0, OthersSend, NobodyAssumption DEF Base, TypeOK, LookThrows, Goto
<1>2. \A k \in Jobs : Cost(k, c)' <= Cost(k, c)
  BY <1>0, NobodyAssumption
  DEF Base, TypeOK, LogFits, HolderFits, Cost, Sends, Unlogged, Unheld, LookThrows, Goto
<1> QED
  BY <1>1, <1>2, Balance DEF Base

LEMMA DelayAccounts ==
    ASSUME Base, TypeOK', Accounted, NEW c \in Workers, Delay(c)
    PROVE  Accounted'
<1> USE DEF row, outbox, entry, ops, world
<1>0. pc[c] # "idle" /\ work[c].job \in Jobs
  BY WorkType DEF Base, Delay
<1>1. \A k \in Jobs, d \in Workers \ {c} : Sends(k, d)' => Sends(k, d)
  BY <1>0, OthersSend, NobodyAssumption DEF Base, TypeOK, Delay, Goto, Quit
<1>2. \A k \in Jobs : Cost(k, c)' <= Cost(k, c)
  BY <1>0, NobodyAssumption
  DEF Base, TypeOK, LogFits, HolderFits, Cost, Sends, Unlogged, Unheld, Delay, Goto, Quit
<1> QED
  BY <1>1, <1>2, Balance DEF Base

LEMMA LookAccounts ==
    ASSUME Base, TypeOK', Accounted, NEW c \in Workers, Look(c)
    PROVE  Accounted'
<1> USE DEF row, outbox, entry, ops, world
<1>0. pc[c] # "idle" /\ work[c].job \in Jobs
  BY WorkType DEF Base, Look
<1>a. PICK w : work' = [work EXCEPT ![c] = w] /\ w.job = work[c].job
  <2>1. CASE Published(work[c].job) \/ status[work[c].job] = "success"
    <3>1. work' = [work EXCEPT ![c] = work[c]]
      BY <2>1 DEF Base, TypeOK, Look
    <3> QED
      BY <3>1
  <2>2. CASE ~ (Published(work[c].job) \/ status[work[c].job] = "success")
    <3>1. work' = [work EXCEPT ![c] = Doing(work[c].job, work[c].seen, work[c].made, 1, FALSE)]
      BY <2>2 DEF Look
    <3>2. Doing(work[c].job, work[c].seen, work[c].made, 1, FALSE).job = work[c].job
      BY DEF Doing
    <3> QED
      BY <3>1, <3>2
  <2> QED
    BY <2>1, <2>2
<1>b. work'[c].job = work[c].job /\ \A d \in Workers \ {c} : work'[d] = work[d]
  BY <1>a DEF Base, TypeOK
<1>c. pc' = [pc EXCEPT ![c] = IF Published(work[c].job) \/ status[work[c].job] = "success"
                             THEN "finish" ELSE "send"]
  BY DEF Look, Goto
<1>1. \A k \in Jobs, d \in Workers \ {c} : Sends(k, d)' => Sends(k, d)
  BY <1>b, <1>c, OthersSend DEF Base, TypeOK, Look
<1>2. ASSUME NEW k \in Jobs PROVE Cost(k, c)' <= Cost(k, c)
  <2>1. posts'[k] = posts[k] /\ excused'[k] = excused[k] /\ posts[k] \in Nat /\ excused[k] \in Nat
    BY DEF Base, TypeOK, Look
  <2>2. CASE k = work[c].job
    BY <1>0, <1>b, <1>c, <2>1, <2>2, NobodyAssumption
    DEF Base, TypeOK, LogFits, HolderFits, Cost, Sends, Unlogged, Unheld, Look, Goto, Published
  <2>3. CASE k # work[c].job
    <3>1. ~ Sends(k, c)'
      BY <1>0, <1>b, <1>c, <2>3 DEF Base, TypeOK, Sends, Look
    <3>2. Unheld(k)' = Unheld(k) /\ Unheld(k) \in {0, 1}
      BY <1>0, <2>3 DEF Base, TypeOK, Unheld, Look
    <3> QED
      BY <2>1, <3>1, <3>2 DEF Cost
  <2> QED
    BY <2>2, <2>3
<1> QED
  BY <1>1, <1>2, Balance DEF Base

LEMMA AnsweredAccounts ==
    ASSUME Base, TypeOK', Accounted, NEW c \in Workers, Answered(c)
    PROVE  Accounted'
<1> USE DEF row, outbox, entry, ops, world
<1>0. pc[c] # "idle" /\ work[c].job \in Jobs
  BY WorkType DEF Base, Answered
<1>1. \A k \in Jobs, d \in Workers \ {c} : Sends(k, d)' => Sends(k, d)
  BY <1>0, OthersSend, NobodyAssumption DEF Base, TypeOK, Answered, Goto
<1>2. \A k \in Jobs : Cost(k, c)' <= Cost(k, c)
  BY <1>0, NobodyAssumption
  DEF Base, TypeOK, LogFits, HolderFits, Cost, Sends, Unlogged, Unheld, Answered, Goto
<1> QED
  BY <1>1, <1>2, Balance DEF Base

LEMMA RefusedAccounts ==
    ASSUME Base, TypeOK', Accounted, NEW c \in Workers, Refused(c)
    PROVE  Accounted'
<1> USE DEF row, outbox, entry, ops, world
<1>0. pc[c] # "idle" /\ work[c].job \in Jobs
  BY WorkType DEF Base, Refused
<1>a. PICK w \in Work : work' = [work EXCEPT ![c] = w] /\ w.job = work[c].job
  BY <1>0, TryAgainType DEF Base, Refused
<1>b. pc' \in {[pc EXCEPT ![c] = "send"], [pc EXCEPT ![c] = "fail"]}
  BY <1>0, TryAgainType DEF Base, Refused
<1>1. \A k \in Jobs, d \in Workers \ {c} : Sends(k, d)' => Sends(k, d)
  BY <1>0, <1>a, <1>b, OthersSend, NobodyAssumption DEF Base, TypeOK, Refused
<1>2. \A k \in Jobs : Cost(k, c)' <= Cost(k, c)
  BY <1>0, <1>a, <1>b, NobodyAssumption
  DEF Base, TypeOK, LogFits, HolderFits, Cost, Sends, Unlogged, Unheld, Refused
<1> QED
  BY <1>1, <1>2, Balance DEF Base

LEMMA TimedOutAccounts ==
    ASSUME Base, TypeOK', Accounted, NEW c \in Workers, TimedOut(c)
    PROVE  Accounted'
<1> USE DEF row, outbox, entry, ops, world
<1>0. pc[c] # "idle" /\ work[c].job \in Jobs
  BY WorkType DEF Base, TimedOut
<1>a. PICK w \in Work : work' = [work EXCEPT ![c] = w] /\ w.job = work[c].job
  BY <1>0, TryAgainType DEF Base, TimedOut
<1>b. pc' \in {[pc EXCEPT ![c] = "send"], [pc EXCEPT ![c] = "fail"]}
  BY <1>0, TryAgainType DEF Base, TimedOut
<1>1. \A k \in Jobs, d \in Workers \ {c} : Sends(k, d)' => Sends(k, d)
  BY <1>0, <1>a, <1>b, OthersSend, NobodyAssumption DEF Base, TypeOK, TimedOut
<1>2. \A k \in Jobs : Cost(k, c)' <= Cost(k, c)
  BY <1>0, <1>a, <1>b, NobodyAssumption
  DEF Base, TypeOK, LogFits, HolderFits, Cost, Sends, Unlogged, Unheld, TimedOut
<1> QED
  BY <1>1, <1>2, Balance DEF Base

LEMMA LogDeliveryAccounts ==
    ASSUME Base, TypeOK', Accounted, NEW c \in Workers, LogDelivery(c)
    PROVE  Accounted'
<1> USE DEF row, outbox, entry, ops, world
<1>0. pc[c] # "idle" /\ work[c].job \in Jobs
  BY WorkType DEF Base, LogDelivery
<1>1. \A k \in Jobs, d \in Workers \ {c} : Sends(k, d)' => Sends(k, d)
  BY <1>0, OthersSend, NobodyAssumption DEF Base, TypeOK, LogDelivery, Goto
<1>2. \A k \in Jobs : Cost(k, c)' <= Cost(k, c)
  BY <1>0, NobodyAssumption
  DEF Base, TypeOK, LogFits, HolderFits, Cost, Sends, Unlogged, Unheld, LogDelivery, Goto
<1> QED
  BY <1>1, <1>2, Balance DEF Base

LEMMA LogFailsAccounts ==
    ASSUME Base, TypeOK', Accounted, NEW c \in Workers, LogFails(c)
    PROVE  Accounted'
<1> USE DEF row, outbox, entry, ops, world
<1>0. pc[c] # "idle" /\ work[c].job \in Jobs
  BY WorkType DEF Base, LogFails
<1>a. PICK w \in Work : work' = [work EXCEPT ![c] = w] /\ w.job = work[c].job
  BY <1>0, TryAgainType DEF Base, LogFails
<1>b. pc' \in {[pc EXCEPT ![c] = "send"], [pc EXCEPT ![c] = "fail"]}
  BY <1>0, TryAgainType DEF Base, LogFails
<1>1. \A k \in Jobs, d \in Workers \ {c} : Sends(k, d)' => Sends(k, d)
  BY <1>0, <1>a, <1>b, OthersSend, NobodyAssumption DEF Base, TypeOK, LogFails
<1>2. \A k \in Jobs : Cost(k, c)' <= Cost(k, c)
  BY <1>0, <1>a, <1>b, NobodyAssumption
  DEF Base, TypeOK, LogFits, HolderFits, Cost, Sends, Unlogged, Unheld, LogFails
<1> QED
  BY <1>1, <1>2, Balance DEF Base

LEMMA SucceedsAccounts ==
    ASSUME Base, TypeOK', Accounted, NEW c \in Workers, Succeeds(c)
    PROVE  Accounted'
<1> USE DEF row, outbox, entry, ops, world
<1>0. pc[c] # "idle" /\ work[c].job \in Jobs
  BY WorkType DEF Base, Succeeds
<1>1. \A k \in Jobs, d \in Workers \ {c} : Sends(k, d)' => Sends(k, d)
  BY <1>0, OthersSend, NobodyAssumption DEF Base, TypeOK, Succeeds, Goto
<1>2. \A k \in Jobs : Cost(k, c)' <= Cost(k, c)
  BY <1>0, NobodyAssumption
  DEF Base, TypeOK, LogFits, HolderFits, Cost, Sends, Unlogged, Unheld, Succeeds, Goto
<1> QED
  BY <1>1, <1>2, Balance DEF Base

LEMMA SuccessThrowsAccounts ==
    ASSUME Base, TypeOK', Accounted, NEW c \in Workers, SuccessThrows(c)
    PROVE  Accounted'
<1> USE DEF row, outbox, entry, ops, world
<1>0. pc[c] # "idle" /\ work[c].job \in Jobs
  BY WorkType DEF Base, SuccessThrows
<1>1. \A k \in Jobs, d \in Workers \ {c} : Sends(k, d)' => Sends(k, d)
  BY <1>0, OthersSend, NobodyAssumption DEF Base, TypeOK, SuccessThrows, Goto
<1>2. \A k \in Jobs : Cost(k, c)' <= Cost(k, c)
  BY <1>0, NobodyAssumption
  DEF Base, TypeOK, LogFits, HolderFits, Cost, Sends, Unlogged, Unheld, SuccessThrows, Goto
<1> QED
  BY <1>1, <1>2, Balance DEF Base

LEMMA FailsAccounts ==
    ASSUME Base, TypeOK', Accounted, NEW c \in Workers, Fails(c)
    PROVE  Accounted'
<1> USE DEF row, outbox, entry, ops, world
<1>0. pc[c] # "idle" /\ work[c].job \in Jobs
  BY WorkType DEF Base, Fails
<1>1. \A k \in Jobs, d \in Workers \ {c} : Sends(k, d)' => Sends(k, d)
  BY <1>0, OthersSend, NobodyAssumption DEF Base, TypeOK, Fails, Goto
<1>2. \A k \in Jobs : Cost(k, c)' <= Cost(k, c)
  BY <1>0, NobodyAssumption
  DEF Base, TypeOK, LogFits, HolderFits, Cost, Sends, Unlogged, Unheld, Fails, Goto
<1> QED
  BY <1>1, <1>2, Balance DEF Base

LEMMA FailThrowsAccounts ==
    ASSUME Base, TypeOK', Accounted, NEW c \in Workers, FailThrows(c)
    PROVE  Accounted'
<1> USE DEF row, outbox, entry, ops, world
<1>0. pc[c] # "idle" /\ work[c].job \in Jobs
  BY WorkType DEF Base, FailThrows
<1>a. work'[c].job = work[c].job
  <2>1. work'[c] = Doing(work[c].job, work[c].seen, work[c].made, work[c].tries, FALSE)
    BY DEF Base, TypeOK, FailThrows
  <2> QED
    BY <2>1 DEF Doing
<1>1. \A k \in Jobs, d \in Workers \ {c} : Sends(k, d)' => Sends(k, d)
  BY <1>0, OthersSend, NobodyAssumption DEF Base, TypeOK, FailThrows, Goto
<1>2. ASSUME NEW k \in Jobs PROVE Cost(k, c)' <= Cost(k, c)
  <2>1. posts'[k] = posts[k] /\ excused'[k] = excused[k] /\ posts[k] \in Nat /\ excused[k] \in Nat
    BY DEF Base, TypeOK, FailThrows
  <2>2. CASE k = work[c].job
    BY <1>0, <1>a, <2>1, <2>2, NobodyAssumption
    DEF Base, TypeOK, LogFits, HolderFits, Cost, Sends, Unlogged, Unheld, FailThrows, Goto
  <2>3. CASE k # work[c].job
    <3>1. ~ Sends(k, c)'
      BY <1>0, <1>a, <2>3 DEF Base, TypeOK, Sends, FailThrows, Goto
    <3>2. Unheld(k)' = Unheld(k) /\ Unheld(k) \in {0, 1}
      BY <1>0, <2>3 DEF Base, TypeOK, Unheld, FailThrows, Goto
    <3> QED
      BY <2>1, <3>1, <3>2 DEF Cost
  <2> QED
    BY <2>2, <2>3
<1> QED
  BY <1>1, <1>2, Balance DEF Base

LEMMA QueueCompletesAccounts ==
    ASSUME Base, TypeOK', Accounted, NEW c \in Workers, QueueCompletes(c)
    PROVE  Accounted'
<1> USE DEF row, outbox, entry, ops, world
<1>0. pc[c] # "idle" /\ work[c].job \in Jobs
  BY WorkType DEF Base, QueueCompletes
<1>1. \A k \in Jobs, d \in Workers \ {c} : Sends(k, d)' => Sends(k, d)
  BY <1>0, OthersSend, NobodyAssumption DEF Base, TypeOK, QueueCompletes, Goto, Quit
<1>2. \A k \in Jobs : Cost(k, c)' <= Cost(k, c)
  BY <1>0, NobodyAssumption
  DEF Base, TypeOK, LogFits, HolderFits, Cost, Sends, Unlogged, Unheld, QueueCompletes, Goto, Quit
<1> QED
  BY <1>1, <1>2, Balance DEF Base

LEMMA QueueFailsAccounts ==
    ASSUME Base, TypeOK', Accounted, NEW c \in Workers, QueueFails(c)
    PROVE  Accounted'
<1> USE DEF row, outbox, entry, ops, world
<1>0. pc[c] # "idle" /\ work[c].job \in Jobs
  BY WorkType DEF Base, QueueFails
<1>1. \A k \in Jobs, d \in Workers \ {c} : Sends(k, d)' => Sends(k, d)
  BY <1>0, OthersSend, NobodyAssumption DEF Base, TypeOK, QueueFails, Goto, Quit
<1>2. \A k \in Jobs : Cost(k, c)' <= Cost(k, c)
  BY <1>0, NobodyAssumption
  DEF Base, TypeOK, LogFits, HolderFits, Cost, Sends, Unlogged, Unheld, QueueFails, Goto, Quit
<1> QED
  BY <1>1, <1>2, Balance DEF Base

(* The steps of dispatchers and operators, which nothing of this is about *)
LEMMA OthersAccount ==
    ASSUME Accounted, UNCHANGED <<posts, excused, log, holder, pc, work>>
    PROVE  Accounted'
BY DEF Accounted, Senders, Sends, Unlogged, Unheld

-----------------------------------------------------------------------------
(* The invariant *)

LEMMA InitKeeps == Init => IInv
<1> SUFFICES ASSUME Init PROVE IInv
  OBVIOUS
<1>1. TypeOK
  BY AttemptAssumption DEF Init, TypeOK, Step, PostJobStatus
<1>2. StatusTellsMoney /\ CompletedWasQueued /\ SentFits /\ HolderFits /\ LogFits
  BY NobodyAssumption
  DEF Init, StatusTellsMoney, CompletedWasQueued, SentFits, HolderFits, LogFits
<1>3. Accounted
  <2> SUFFICES ASSUME NEW j \in Jobs
               PROVE  posts[j] + Cardinality(Senders(j)) + Unheld(j) <= 1 + excused[j]
    BY DEF Accounted
  <2>1. Senders(j) = {}
    BY DEF Init, Senders, Sends
  <2>2. Cardinality(Senders(j)) = 0
    BY <2>1, FS_EmptySet
  <2>3. Unheld(j) \in {0, 1} /\ posts[j] = 0 /\ excused[j] = 0
    BY DEF Init, Unheld
  <2> QED
    BY <2>2, <2>3
<1> QED
  BY <1>1, <1>2, <1>3 DEF IInv

LEMMA StepKeeps == IInv /\ [Next]_vars => IInv'
<1> SUFFICES ASSUME IInv, [Next]_vars PROVE IInv'
  OBVIOUS
<1> USE DEF row, outbox, entry, ops, world
<1>0. Base /\ Accounted
  BY DEF IInv, Base
<1>1. CASE Dispatch
  <2>1. Base'
    BY <1>0, <1>1, ReserveBatchKeeps, MarkCompletedKeeps, DispatcherDiesKeeps, EnqueueKeeps,
       DispatchFailsKeeps, LockExpiresKeeps DEF Dispatch
  <2>2. Accounted'
    BY <1>0, <1>1, OthersAccount
    DEF Dispatch, ReserveBatch, MarkCompleted, DispatcherDies, Enqueue, DispatchFails, LockExpires
  <2> QED
    BY <2>1, <2>2 DEF IInv, Base
<1>2. CASE Queue
  <2>1. Base'
    BY <1>0, <1>2, LockLostKeeps, DiesKeeps, TakeKeeps, TakenBackKeeps DEF Queue
  <2>2. Accounted'
    BY <1>0, <1>2, <2>1, LockLostAccounts, DiesAccounts, TakeAccounts, OthersAccount
    DEF Queue, TakenBack, Base
  <2> QED
    BY <2>1, <2>2 DEF IInv, Base
<1>3. ASSUME NEW c \in Workers, Worker(c) PROVE IInv'
  <2>1. Base'
    BY <1>0, <1>3, ReserveKeeps, ReadJobKeeps, ReserveThrowsKeeps,
       DelayKeeps, LookKeeps, LookThrowsKeeps, AnsweredKeeps, RefusedKeeps,
       TimedOutKeeps, LogDeliveryKeeps, LogFailsKeeps, SucceedsKeeps, SuccessThrowsKeeps,
       FailsKeeps, FailThrowsKeeps, QueueCompletesKeeps, QueueFailsKeeps DEF Worker
  <2>2. TypeOK'
    BY <2>1 DEF Base
  <2>3. Accounted'
    BY <1>0, <1>3, <2>2, ReserveAccounts, ReadJobAccounts, ReserveThrowsAccounts,
       DelayAccounts, LookAccounts, LookThrowsAccounts,
       AnsweredAccounts, RefusedAccounts, TimedOutAccounts, LogDeliveryAccounts,
       LogFailsAccounts, SucceedsAccounts, SuccessThrowsAccounts, FailsAccounts,
       FailThrowsAccounts, QueueCompletesAccounts, QueueFailsAccounts DEF Worker
  <2> QED
    BY <2>1, <2>3 DEF IInv, Base
<1>4. CASE Operators
  <2>1. Base'
    BY <1>0, <1>4, RecoverKeeps, RecoverThrowsKeeps, RetryWriteKeeps, StallSeenKeeps,
       FindStalledKeeps, RetryReadKeeps, WatchdogRefundsKeeps DEF Operators
  <2>2. Accounted'
    BY <1>0, <1>4, OthersAccount
    DEF Operators, Recover, RecoverThrows, RetryWrite, StallSeen, FindStalled, RetryRead,
        WatchdogRefunds
  <2> QED
    BY <2>1, <2>2 DEF IInv, Base
<1>5. CASE UNCHANGED vars
  <2>1. TypeOK'
    BY <1>0, <1>5 DEF Base, TypeOK, vars
  <2>2. StatusTellsMoney' /\ CompletedWasQueued' /\ SentFits' /\ HolderFits' /\ LogFits'
    BY <1>0, <1>5
    DEF Base, StatusTellsMoney, CompletedWasQueued, SentFits, HolderFits, LogFits, vars
  <2>3. Accounted'
    BY <1>0, <1>5, OthersAccount DEF vars
  <2> QED
    BY <2>1, <2>2, <2>3 DEF IInv
<1> QED
  BY <1>1, <1>2, <1>3, <1>4, <1>5 DEF Next

LEMMA Inductive == Spec => []IInv
BY InitKeeps, StepKeeps, PTL DEF Spec

(* Every variable keeps its type; attempts never passes MaxAttempts.          *)
THEOREM TypeCorrect == Spec => []TypeOK
<1>1. IInv => TypeOK
  BY DEF IInv
<1> QED
  BY <1>1, Inductive, PTL

(* A job that says success was paid and one that says failed was refunded,    *)
(* whatever workers, recovery, admins and watchdog write over each other.    *)
THEOREM MoneyFollowsStatus == Spec => []StatusTellsMoney
<1>1. IInv => StatusTellsMoney
  BY DEF IInv
<1> QED
  BY <1>1, Inductive, PTL

(* No event is completed before its job has reached the queue.               *)
THEOREM NoJobLost == Spec => []CompletedWasQueued
<1>1. IInv => CompletedWasQueued
  BY DEF IInv
<1> QED
  BY <1>1, Inductive, PTL

(* For every number of workers, attempts and tries, a post appears again only *)
(* once for each lost answer and each lost lock.                             *)
THEOREM RepostsBounded == Spec => []RepostsExcused
<1>1. IInv => RepostsExcused
  <2> SUFFICES ASSUME IInv, NEW j \in Jobs PROVE posts[j] <= 1 + excused[j]
    BY DEF RepostsExcused
  <2>1. posts[j] + Cardinality(Senders(j)) + Unheld(j) <= 1 + excused[j]
    BY DEF IInv, Accounted
  <2>2. Senders(j) \in SUBSET Workers
    BY DEF Senders
  <2>3. Cardinality(Senders(j)) \in Nat
    BY <2>2, FS_Subset, FS_CardinalityType, WorkersAssumption
  <2>4. Unheld(j) \in {0, 1} /\ posts[j] \in Nat /\ excused[j] \in Nat
    BY DEF IInv, TypeOK, Unheld
  <2> QED
    BY <2>1, <2>3, <2>4
<1> QED
  BY <1>1, Inductive, PTL

-----------------------------------------------------------------------------
(* Every step that moves money or publishes is one the promise allows.        *)

LEMMA StepPromised ==
    ASSUME IInv, [Next]_vars
    PROVE  [Promise!Next]_<<posts, escrow>>
<1> USE DEF row, outbox, entry, ops, world
<1>0. TypeOK /\ LogFits
  BY DEF IInv
<1>1. CASE Dispatch
  BY <1>1
  DEF Dispatch, ReserveBatch, MarkCompleted, DispatcherDies, Enqueue, DispatchFails, LockExpires
<1>2. CASE Queue
  BY <1>2 DEF Queue, LockLost, Dies, Take, TakenBack
<1>3. ASSUME NEW c \in Workers, Worker(c) PROVE [Promise!Next]_<<posts, escrow>>
  <2>1. CASE Answered(c) \/ TimedOut(c)
    <3>1. work[c].job \in Jobs
      BY <1>0, <2>1, WorkType DEF Answered, TimedOut
    <3>2. Promise!Publish(work[c].job)
      BY <2>1 DEF Answered, TimedOut, Promise!Publish
    <3> QED
      BY <3>1, <3>2 DEF Promise!Next
  <2>2. CASE Succeeds(c)
    <3>1. work[c].job \in Jobs /\ posts[work[c].job] > 0
      BY <1>0, <2>2, WorkType DEF Succeeds, LogFits
    <3>2. Promise!Pay(work[c].job) \/ UNCHANGED <<posts, escrow>>
      BY <1>0, <2>2, <3>1 DEF Succeeds, Payable, Release, TypeOK, Promise!Pay
    <3> QED
      BY <3>1, <3>2 DEF Promise!Next
  <2>3. CASE Fails(c)
    <3>1. work[c].job \in Jobs
      BY <1>0, <2>3, WorkType DEF Fails
    <3>2. Promise!GiveBack(work[c].job) \/ UNCHANGED <<posts, escrow>>
      BY <1>0, <2>3, <3>1 DEF Fails, Refundable, Refund, TypeOK, Promise!GiveBack
    <3> QED
      BY <3>1, <3>2 DEF Promise!Next
  <2>4. CASE ~ (Answered(c) \/ TimedOut(c) \/ Succeeds(c) \/ Fails(c))
    BY <1>3, <2>4
    DEF Worker, Reserve, ReadJob, ReserveThrows, Delay, Look, LookThrows, Refused, LogDelivery, LogFails, SuccessThrows,
        FailThrows, QueueCompletes, QueueFails
  <2> QED
    BY <2>1, <2>2, <2>3, <2>4
<1>4. CASE Operators
  <2>1. CASE Recover
    <3>1. found.job \in Jobs /\ (found.to = "success" => posts[found.job] > 0)
      BY <1>0, <2>1 DEF Recover, TypeOK, Find, LogFits
    <3>2. Promise!Pay(found.job) \/ Promise!GiveBack(found.job) \/ UNCHANGED <<posts, escrow>>
      BY <1>0, <2>1, <3>1
      DEF Recover, Payable, Release, Refundable, Refund, TypeOK, Promise!Pay, Promise!GiveBack
    <3> QED
      BY <3>1, <3>2 DEF Promise!Next
  <2>2. ASSUME NEW j \in Jobs, WatchdogRefunds(j) PROVE [Promise!Next]_<<posts, escrow>>
    <3>1. Promise!GiveBack(j)
      BY <2>2 DEF WatchdogRefunds, Refund, Promise!GiveBack
    <3> QED
      BY <3>1 DEF Promise!Next
  <2> QED
    BY <1>4, <2>1, <2>2
    DEF Operators, RecoverThrows, RetryWrite, StallSeen, FindStalled, RetryRead
<1>5. CASE UNCHANGED vars
  BY <1>5 DEF vars
<1> QED
  BY <1>1, <1>2, <1>3, <1>4, <1>5 DEF Next

(* The publisher is paid only for a post that is in the channel, and no job is *)
(* both paid and refunded: the delivery implements DeliveryPromise.           *)
THEOREM ImplementsPromise == Spec => KeepsPromise
<1>1. Init => Promise!Init
  BY DEF Init, Promise!Init
<1>2. IInv /\ [Next]_vars => [Promise!Next]_<<posts, escrow>>
  BY StepPromised
<1> QED
  BY <1>1, <1>2, Inductive, PTL DEF Spec, KeepsPromise, Promise!Spec
=============================================================================
