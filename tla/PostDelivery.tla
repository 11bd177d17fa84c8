---------------------------- MODULE PostDelivery ----------------------------
(***************************************************************************)
(* The way of a post from its job row into the channel: the outbox event,   *)
(* the queue, post.worker.ts with TelegramService.sendCampaignPost, the     *)
(* recovery of stalled jobs, and an admin's retry.                          *)
(*                                                                          *)
(* Between two steps of a worker anything may happen: another worker, the   *)
(* recovery, a crash, the loss of its queue lock.  The escrow is one word   *)
(* per job here; CampaignEscrow has its transactions, of which this module  *)
(* keeps that they commit or throw, with the job's write or without.        *)
(*                                                                          *)
(* BullMQ is external.  It holds one entry per job id, gives it to one      *)
(* worker under a lock, takes it back once if the lock is not renewed and   *)
(* fails it the second time; failed entries stay, completed ones go.        *)
(*                                                                          *)
(* X_Suffix is a wrong variant of X, kept to show that a property would     *)
(* notice it.                                                               *)
(***************************************************************************)
EXTENDS Integers, FiniteSets, Lifecycle

CONSTANTS
    Jobs,           \* post jobs
    Workers,        \* slots of the workers, over all processes
    Dispatchers,    \* runs of the outbox cron
    Nobody,         \* no worker, no job, no find
    MaxAttempts,    \* POST_JOB_MAX_ATTEMPTS
    SendAttempts,   \* tries of one call of sendCampaignPost
    BatchSize,      \* events that one run of the outbox cron takes
    Created,        \* place of each job's event in the order of createdAt
    MaxExcuses,     \* bound on what excused counts
    Active          \* the mishaps that happen

Mishaps == {"crash", "dispatcher", "timeout", "lock", "log", "switch", "throw", "stall",
            "watchdog", "retry"}

ASSUME WorkersAssumption == IsFiniteSet(Workers)
ASSUME NobodyAssumption == Nobody \notin Workers \cup Jobs
ASSUME AttemptAssumption ==
    /\ MaxAttempts \in Nat \ {0}
    /\ SendAttempts \in Nat \ {0}
    /\ MaxExcuses \in Nat
ASSUME OrderAssumption ==
    /\ BatchSize \in Nat \ {0}
    /\ Created \in [Jobs -> Nat]
    /\ \A j, k \in Jobs : Created[j] = Created[k] => j = k
ASSUME ActiveAssumption == Active \subseteq Mishaps

Step == {"idle", "reserve", "read", "look", "send", "log", "finish", "done", "fail", "failed"}

(* What a worker knows: its job, the status it read, the entry's attempts so  *)
(* far, the try it is at, and whether the failure is permanent.              *)
Work == [job : Jobs, seen : PostJobStatus, made : Nat, tries : Nat, permanent : BOOLEAN]
Doing(j, seen, made, tries, permanent) ==
    [job |-> j, seen |-> seen, made |-> made, tries |-> tries, permanent |-> permanent]

(* A stalled job the recovery has read, and what it decided to do with it     *)
Find == [job : Jobs, to : {"success", "failed", "queued"}]

ASSUME RecordAssumption == Nobody \notin Work \cup Find

VARIABLES
    status, attempts, message,  \* postJob.status, attempts, telegramMessageId is set
    late,       \* sendingAt is before the cutoff of the recovery
    log,        \* the row post_delivery:id exists, with its message id
    escrow,     \* what has become of the job's escrow
    event,      \* the outbox event of each job
    overdue,    \* the event's lock is older than lockTimeoutMs
    todo, sent, \* events a dispatcher still has in hand, and the one just queued
    queue,      \* the queue's entry of each job
    made,       \* its attemptsMade
    stalls,     \* how often it was taken back
    holder,     \* the worker whose lock it carries
    pc, work,   \* the workers
    found,      \* what the recovery is about to write
    retrying,   \* the job an admin is about to queue again
    posts,      \* messages of each job in its channel
    excused     \* answers of Telegram that were lost, and locks lost by live workers

row == <<status, attempts, message, late>>
outbox == <<event, overdue, todo, sent>>
entry == <<queue, made, stalls, holder>>
ops == <<found, retrying>>
world == <<posts, excused>>
vars == <<row, log, escrow, outbox, entry, pc, work, ops, world>>

-----------------------------------------------------------------------------
(* OutboxService *)

(* reserveBatch *)
Reservable_Pending(j) == event[j] = "pending"
Reservable(j) == event[j] = "pending" \/ (event[j] = "processing" /\ overdue[j])

Oldest(events) ==
    {j \in events : Cardinality({k \in events : Created[k] < Created[j]}) < BatchSize}

ReserveBatch(d) ==
    LET batch == Oldest({j \in Jobs : Reservable(j)}) IN
    /\ todo[d] = {} /\ sent[d] = Nobody
    /\ batch # {}
    /\ todo' = [todo EXCEPT ![d] = batch]
    /\ event' = [j \in Jobs |-> IF j \in batch THEN "processing" ELSE event[j]]
    /\ overdue' = [j \in Jobs |-> overdue[j] /\ j \notin batch]
    /\ UNCHANGED <<row, log, escrow, sent, entry, pc, work, ops, world>>

(* An entry is added, or ignored if the queue has one of that id. *)
Add(j) == queue' = [queue EXCEPT ![j] = IF @ = "none" THEN "waiting" ELSE @]

(* dispatch: postQueue.add *)
Enqueue(d, j) ==
    /\ sent[d] = Nobody
    /\ j \in todo[d]
    /\ todo' = [todo EXCEPT ![d] = @ \ {j}]
    /\ sent' = [sent EXCEPT ![d] = j]
    /\ Add(j)
    /\ made' = [made EXCEPT ![j] = IF queue[j] = "none" THEN 0 ELSE @]
    /\ stalls' = [stalls EXCEPT ![j] = IF queue[j] = "none" THEN 0 ELSE @]
    /\ UNCHANGED <<row, log, escrow, event, overdue, holder, pc, work, ops, world>>

MarkCompleted(d) ==
    /\ sent[d] # Nobody
    /\ event' = [event EXCEPT ![sent[d]] = "completed"]
    /\ overdue' = [overdue EXCEPT ![sent[d]] = FALSE]
    /\ sent' = [sent EXCEPT ![d] = Nobody]
    /\ UNCHANGED <<row, log, escrow, todo, entry, pc, work, ops, world>>

(* The catch of dispatch: Redis or the update failed, the event is pending    *)
(* again.                                                                    *)
DispatchFails(d, j) ==
    /\ "throw" \in Active
    /\ j = sent[d] \/ (sent[d] = Nobody /\ j \in todo[d])
    /\ event' = [event EXCEPT ![j] = "pending"]
    /\ overdue' = [overdue EXCEPT ![j] = FALSE]
    /\ todo' = [todo EXCEPT ![d] = @ \ {j}]
    /\ sent' = [sent EXCEPT ![d] = Nobody]
    /\ UNCHANGED <<row, log, escrow, entry, pc, work, ops, world>>

(* The process dies with the rest of its batch in hand. *)
DispatcherDies(d) ==
    /\ "dispatcher" \in Active
    /\ todo[d] # {} \/ sent[d] # Nobody
    /\ todo' = [todo EXCEPT ![d] = {}]
    /\ sent' = [sent EXCEPT ![d] = Nobody]
    /\ UNCHANGED <<row, log, escrow, event, overdue, entry, pc, work, ops, world>>

(* Its run is dead, or is slower than lockTimeoutMs. *)
LockExpires(j) ==
    /\ "dispatcher" \in Active
    /\ event[j] = "processing"
    /\ overdue' = [overdue EXCEPT ![j] = TRUE]
    /\ UNCHANGED <<row, log, escrow, event, todo, sent, entry, pc, work, ops, world>>

-----------------------------------------------------------------------------
(* The queue *)

Take(c, j) ==
    /\ pc[c] = "idle"
    /\ queue[j] = "waiting"
    /\ queue' = [queue EXCEPT ![j] = "active"]
    /\ holder' = [holder EXCEPT ![j] = c]
    /\ pc' = [pc EXCEPT ![c] = "reserve"]
    /\ work' = [work EXCEPT ![c] = Doing(j, "queued", made[j], 0, FALSE)]
    /\ UNCHANGED <<row, log, escrow, outbox, made, stalls, ops, world>>

(* The lock of a live worker is not renewed: Redis is away or the event loop  *)
(* is blocked.                                                               *)
LockLost(c) ==
    LET j == work[c].job IN
    /\ "lock" \in Active
    /\ pc[c] # "idle"
    /\ holder[j] = c
    /\ excused[j] < MaxExcuses
    /\ holder' = [holder EXCEPT ![j] = Nobody]
    /\ excused' = [excused EXCEPT ![j] = @ + 1]
    /\ UNCHANGED <<row, log, escrow, outbox, queue, made, stalls, pc, work, ops, posts>>

(* The process dies.  A message that went out unlogged is an answer lost.     *)
Dies(c) ==
    LET j == work[c].job IN
    /\ "crash" \in Active
    /\ pc[c] # "idle"
    /\ pc[c] = "log" => excused[j] < MaxExcuses
    /\ excused' = [excused EXCEPT ![j] = IF pc[c] = "log" THEN @ + 1 ELSE @]
    /\ holder' = [holder EXCEPT ![j] = IF @ = c THEN Nobody ELSE @]
    /\ pc' = [pc EXCEPT ![c] = "idle"]
    /\ work' = [work EXCEPT ![c] = Nobody]
    /\ UNCHANGED <<row, log, escrow, outbox, queue, made, stalls, ops, posts>>

TakenBack(j) ==
    /\ queue[j] = "active" /\ holder[j] = Nobody
    /\ queue' = [queue EXCEPT ![j] = IF stalls[j] = 0 THEN "waiting" ELSE "failed"]
    /\ stalls' = [stalls EXCEPT ![j] = 1]
    /\ UNCHANGED <<row, log, escrow, outbox, made, holder, pc, work, ops, world>>

-----------------------------------------------------------------------------
(* The worker *)

Goto(c, step) == pc' = [pc EXCEPT ![c] = step]
Quit(c) == Goto(c, "idle") /\ work' = [work EXCEPT ![c] = Nobody]

(* The reservation; a worker that reserves nothing only logs it and goes on.  *)
Reserve(c) ==
    LET j == work[c].job
        mine == status[j] = "queued"
    IN
    /\ pc[c] = "reserve"
    /\ status' = [status EXCEPT ![j] = IF mine THEN "sending" ELSE @]
    /\ attempts' = [attempts EXCEPT ![j] = IF mine /\ @ < MaxAttempts THEN @ + 1 ELSE @]
    /\ late' = [late EXCEPT ![j] = @ /\ ~ mine]
    /\ Goto(c, "read")
    /\ UNCHANGED <<message, log, escrow, outbox, entry, work, ops, world>>

ReadJob(c) ==
    LET w == work[c] IN
    /\ pc[c] = "read"
    /\ work' = [work EXCEPT ![c] = Doing(w.job, status[w.job], w.made, 0, FALSE)]
    /\ Goto(c, "look")
    /\ UNCHANGED <<row, log, escrow, outbox, entry, ops, world>>

(* What throws before the worker's try, at the reservation or when the job is *)
(* read, ends the run without the catch's transaction.                       *)
ReserveThrows(c) ==
    /\ "throw" \in Active
    /\ pc[c] \in {"reserve", "read"}
    /\ Goto(c, "failed")
    /\ UNCHANGED <<row, log, escrow, outbox, entry, work, ops, world>>

(* A kill switch is off: moveToDelayed, without a token, so that it moves the  *)
(* entry of whoever holds it and throws if nobody does.                      *)
Delay(c) ==
    LET j == work[c].job IN
    /\ "switch" \in Active
    /\ pc[c] = "look"
    /\ IF queue[j] = "active"
       THEN /\ queue' = [queue EXCEPT ![j] = "waiting"]
            /\ holder' = [holder EXCEPT ![j] = Nobody]
            /\ Quit(c)
       ELSE /\ Goto(c, "fail")
            /\ UNCHANGED <<queue, holder, work>>
    /\ UNCHANGED <<row, log, escrow, outbox, made, stalls, ops, world>>

-----------------------------------------------------------------------------
(* sendCampaignPost *)

Published_Blind(j) == status[j] = "success"
Published(j) == message[j] \/ log[j]

(* The job, its executions and the delivery log are read once, before the     *)
(* first try.                                                                *)
Look(c) ==
    LET w == work[c]
        j == w.job
    IN
    /\ pc[c] = "look"
    /\ IF Published(j) \/ status[j] = "success"
       THEN /\ message' = [message EXCEPT ![j] = @ \/ log[j]]
            /\ Goto(c, "finish")
            /\ UNCHANGED work
       ELSE /\ Goto(c, "send")
            /\ work' = [work EXCEPT ![c] = Doing(j, w.seen, w.made, 1, FALSE)]
            /\ UNCHANGED message
    /\ UNCHANGED <<status, attempts, late, log, escrow, outbox, entry, ops, world>>

(* A kill switch cannot be read, or sendCampaignPost throws before its loop:   *)
(* the worker's catch takes it for a failure that may be tried again.  The   *)
(* update of the message may be stored although its answer was lost.         *)
LookThrows(c) ==
    LET j == work[c].job IN
    /\ "throw" \in Active
    /\ pc[c] = "look"
    /\ \E kept \in BOOLEAN : message' = [message EXCEPT ![j] = @ \/ (kept /\ log[j])]
    /\ Goto(c, "fail")
    /\ UNCHANGED <<status, attempts, late, log, escrow, outbox, entry, work, ops, world>>

(* The catch of the loop: every error is tried again, permanent ones too. *)
TryAgain(c, permanent) ==
    LET w == work[c] IN
    IF w.tries < SendAttempts
    THEN /\ Goto(c, "send")
         /\ work' = [work EXCEPT ![c] = Doing(w.job, w.seen, w.made, w.tries + 1, FALSE)]
    ELSE /\ Goto(c, "fail")
         /\ work' = [work EXCEPT ![c] = Doing(w.job, w.seen, w.made, w.tries, permanent)]

(* Telegram publishes the message and its answer arrives. *)
Answered(c) ==
    LET j == work[c].job IN
    /\ pc[c] = "send"
    /\ posts' = [posts EXCEPT ![j] = @ + 1]
    /\ Goto(c, "log")
    /\ UNCHANGED <<row, log, escrow, outbox, entry, work, ops, excused>>

(* Telegram refuses, is not reached, or the circuit is open. *)
Refused(c) ==
    /\ pc[c] = "send"
    /\ \E permanent \in BOOLEAN : TryAgain(c, permanent)
    /\ UNCHANGED <<row, log, escrow, outbox, entry, ops, world>>

(* withTelegramTimeout gives up on a message that is published all the same.  *)
TimedOut(c) ==
    LET j == work[c].job IN
    /\ "timeout" \in Active
    /\ pc[c] = "send"
    /\ excused[j] < MaxExcuses
    /\ posts' = [posts EXCEPT ![j] = @ + 1]
    /\ excused' = [excused EXCEPT ![j] = @ + 1]
    /\ TryAgain(c, FALSE)
    /\ UNCHANGED <<row, log, escrow, outbox, entry, ops>>

LogDelivery(c) ==
    /\ pc[c] = "log"
    /\ log' = [log EXCEPT ![work[c].job] = TRUE]
    /\ Goto(c, "finish")
    /\ UNCHANGED <<row, escrow, outbox, entry, work, ops, world>>

(* The upsert is inside the loop: if it fails, or is stored and its answer     *)
(* lost, the message is sent again.                                          *)
LogFails(c) ==
    LET j == work[c].job IN
    /\ "log" \in Active
    /\ pc[c] = "log"
    /\ excused[j] < MaxExcuses
    /\ excused' = [excused EXCEPT ![j] = @ + 1]
    /\ \E kept \in BOOLEAN : log' = [log EXCEPT ![j] = @ \/ kept]
    /\ \E permanent \in BOOLEAN : TryAgain(c, permanent)
    /\ UNCHANGED <<row, escrow, outbox, entry, ops, posts>>

-----------------------------------------------------------------------------
(* The outcome, written by id over whatever the row says by now.  A release    *)
(* or refund that was done before commits again; the other way it throws.    *)

Payable(j) == escrow[j] \in {"held", "released"}
Refundable_Always(j) == TRUE
Refundable(j) == escrow[j] \in {"held", "refunded"}

WriteStatus(j, to) ==
    /\ status' = [status EXCEPT ![j] = to]
    /\ late' = [late EXCEPT ![j] = FALSE]
    /\ UNCHANGED attempts

Release(j) == escrow' = [escrow EXCEPT ![j] = "released"]

Refund_Forgotten(j) == UNCHANGED escrow
Refund(j) == escrow' = [escrow EXCEPT ![j] = "refunded"]

Succeeds(c) ==
    LET j == work[c].job IN
    /\ pc[c] = "finish"
    /\ TransitionAllowed(postJobTransitions, work[c].seen, "success", "worker")
    /\ Payable(j)
    /\ WriteStatus(j, "success")
    /\ message' = [message EXCEPT ![j] = @ \/ log[j]]
    /\ Release(j)
    /\ Goto(c, "done")
    /\ UNCHANGED <<log, outbox, entry, work, ops, world>>

(* The transition or the release is refused: the worker's catch takes the     *)
(* published post for a failed delivery.                                     *)
SuccessThrows(c) ==
    /\ pc[c] = "finish"
    /\ \/ "throw" \in Active
       \/ ~ TransitionAllowed(postJobTransitions, work[c].seen, "success", "worker")
       \/ ~ Payable(work[c].job)
    /\ Goto(c, "fail")
    /\ UNCHANGED <<row, log, escrow, outbox, entry, work, ops, world>>

ShouldRetry(c) == ~ work[c].permanent /\ work[c].made + 1 < MaxAttempts
FailStatus(c) == IF ShouldRetry(c) THEN "queued" ELSE "failed"

Fails(c) ==
    LET j == work[c].job IN
    /\ pc[c] = "fail"
    /\ TransitionAllowed(postJobTransitions, work[c].seen, FailStatus(c), "worker")
    /\ WriteStatus(j, FailStatus(c))
    /\ IF ShouldRetry(c) THEN UNCHANGED escrow ELSE Refundable(j) /\ Refund(j)
    /\ Goto(c, "failed")
    /\ UNCHANGED <<message, log, outbox, entry, work, ops, world>>

(* The transaction of the catch throws; job.discard is not reached. *)
FailThrows(c) ==
    LET w == work[c] IN
    /\ pc[c] = "fail"
    /\ \/ "throw" \in Active
       \/ ~ TransitionAllowed(postJobTransitions, w.seen, FailStatus(c), "worker")
       \/ ~ ShouldRetry(c) /\ ~ Refundable(w.job)
    /\ work' = [work EXCEPT ![c] = Doing(w.job, w.seen, w.made, w.tries, FALSE)]
    /\ Goto(c, "failed")
    /\ UNCHANGED <<row, log, escrow, outbox, entry, ops, world>>

(* The queue hears of the outcome, if the worker still holds the lock. *)
QueueCompletes(c) ==
    LET j == work[c].job IN
    /\ pc[c] = "done"
    /\ queue' = [queue EXCEPT ![j] = IF holder[j] = c THEN "none" ELSE @]
    /\ holder' = [holder EXCEPT ![j] = IF @ = c THEN Nobody ELSE @]
    /\ Quit(c)
    /\ UNCHANGED <<row, log, escrow, outbox, made, stalls, ops, world>>

QueueFails(c) ==
    LET j == work[c].job
        mine == holder[j] = c
        again == ~ work[c].permanent /\ made[j] + 1 < MaxAttempts
    IN
    /\ pc[c] = "failed"
    /\ made' = [made EXCEPT ![j] = IF mine THEN @ + 1 ELSE @]
    /\ queue' = [queue EXCEPT ![j] = IF ~ mine THEN @ ELSE IF again THEN "waiting" ELSE "failed"]
    /\ holder' = [holder EXCEPT ![j] = IF mine THEN Nobody ELSE @]
    /\ Quit(c)
    /\ UNCHANGED <<row, log, escrow, outbox, stalls, ops, world>>

-----------------------------------------------------------------------------
(* requeueStalledPostJobs *)

Outcome_Kept(j) == IF log[j] THEN "success"
                   ELSE IF attempts[j] >= MaxAttempts THEN "failed" ELSE status[j]
Outcome(j) == IF log[j] THEN "success"
              ELSE IF attempts[j] >= MaxAttempts THEN "failed" ELSE "queued"

StallSeen(j) ==
    /\ "stall" \in Active
    /\ status[j] = "sending"
    /\ late' = [late EXCEPT ![j] = TRUE]
    /\ UNCHANGED <<status, attempts, message, log, escrow, outbox, entry, pc, work, ops, world>>

FindStalled(j) ==
    /\ found = Nobody
    /\ status[j] = "sending" /\ late[j]
    /\ found' = [job |-> j, to |-> Outcome(j)]
    /\ UNCHANGED <<row, log, escrow, outbox, entry, pc, work, retrying, world>>

(* Success with the release, failure with the refund, or back to queued; the  *)
(* event of the job is there already, and the upsert leaves it as it is.     *)
Recover ==
    LET j == found.job
        to == found.to
    IN
    /\ found # Nobody
    /\ WriteStatus(j, to)
    /\ message' = [message EXCEPT ![j] = @ \/ to = "success"]
    /\ \/ to = "success" /\ Payable(j) /\ Release(j)
       \/ to = "failed" /\ Refundable(j) /\ Refund(j)
       \/ to = "queued" /\ UNCHANGED escrow
    /\ found' = Nobody
    /\ UNCHANGED <<log, outbox, entry, pc, work, retrying, world>>

RecoverThrows ==
    /\ found # Nobody
    /\ \/ "throw" \in Active
       \/ found.to = "success" /\ ~ Payable(found.job)
       \/ found.to = "failed" /\ ~ Refundable(found.job)
    /\ found' = Nobody
    /\ UNCHANGED <<row, log, escrow, outbox, entry, pc, work, retrying, world>>

-----------------------------------------------------------------------------
(* retryPost of an admin, and the escrow watchdog *)

RetryRead(j) ==
    /\ "retry" \in Active
    /\ retrying = Nobody
    /\ TransitionAllowed(postJobTransitions, status[j], "queued", "admin")
    /\ status[j] # "queued"
    /\ retrying' = j
    /\ UNCHANGED <<row, log, escrow, outbox, entry, pc, work, found, world>>

RetryWrite ==
    /\ retrying # Nobody
    /\ status' = [status EXCEPT ![retrying] = "queued"]
    /\ retrying' = Nobody
    /\ UNCHANGED <<attempts, message, late, log, escrow, outbox, entry, pc, work, found, world>>

(* An escrow whose post is hours late is refunded if the job is not success.  *)
WatchdogRefunds(j) ==
    /\ "watchdog" \in Active
    /\ escrow[j] = "held"
    /\ PostJobOutcomeAllows("refund", status[j], "system")
    /\ Refund(j)
    /\ UNCHANGED <<row, log, outbox, entry, pc, work, ops, world>>

-----------------------------------------------------------------------------
(* An approved target leaves its job queued and its event pending. *)
Init ==
    /\ status = [j \in Jobs |-> "queued"]
    /\ attempts = [j \in Jobs |-> 0]
    /\ message = [j \in Jobs |-> FALSE]
    /\ late = [j \in Jobs |-> FALSE]
    /\ log = [j \in Jobs |-> FALSE]
    /\ escrow = [j \in Jobs |-> "held"]
    /\ event = [j \in Jobs |-> "pending"]
    /\ overdue = [j \in Jobs |-> FALSE]
    /\ todo = [d \in Dispatchers |-> {}]
    /\ sent = [d \in Dispatchers |-> Nobody]
    /\ queue = [j \in Jobs |-> "none"]
    /\ made = [j \in Jobs |-> 0]
    /\ stalls = [j \in Jobs |-> 0]
    /\ holder = [j \in Jobs |-> Nobody]
    /\ pc = [c \in Workers |-> "idle"]
    /\ work = [c \in Workers |-> Nobody]
    /\ found = Nobody
    /\ retrying = Nobody
    /\ posts = [j \in Jobs |-> 0]
    /\ excused = [j \in Jobs |-> 0]

Dispatch ==
    \/ \E d \in Dispatchers : ReserveBatch(d) \/ MarkCompleted(d) \/ DispatcherDies(d)
    \/ \E d \in Dispatchers, j \in Jobs : Enqueue(d, j) \/ DispatchFails(d, j)
    \/ \E j \in Jobs : LockExpires(j)

Queue ==
    \/ \E c \in Workers : LockLost(c) \/ Dies(c) \/ \E j \in Jobs : Take(c, j)
    \/ \E j \in Jobs : TakenBack(j)

Worker(c) ==
    \/ Reserve(c) \/ ReadJob(c) \/ ReserveThrows(c) \/ Delay(c)
    \/ Look(c) \/ LookThrows(c) \/ Answered(c) \/ Refused(c) \/ TimedOut(c) \/ LogDelivery(c) \/ LogFails(c)
    \/ Succeeds(c) \/ SuccessThrows(c) \/ Fails(c) \/ FailThrows(c)
    \/ QueueCompletes(c) \/ QueueFails(c)

Operators ==
    \/ Recover \/ RecoverThrows \/ RetryWrite
    \/ \E j \in Jobs : StallSeen(j) \/ FindStalled(j) \/ RetryRead(j) \/ WatchdogRefunds(j)

Next == Dispatch \/ Queue \/ (\E c \in Workers : Worker(c)) \/ Operators

Spec == Init /\ [][Next]_vars

(* No other run has the event in hand. *)
Alone(d, j) == \A e \in Dispatchers \ {d} : j \notin todo[e] /\ sent[e] # j

(* The cron fires every minute and a run that goes on ends; not every run dies *)
(* or fails at the same event, nor every run that has the event to itself;   *)
(* time passes.                                                              *)
FairSpec ==
    /\ Spec
    /\ SF_vars(\E d \in Dispatchers : ReserveBatch(d))
    /\ \A j \in Jobs :
        /\ WF_vars(LockExpires(j))
        /\ SF_vars(\E d \in Dispatchers : Enqueue(d, j))
        /\ SF_vars(\E d \in Dispatchers : sent[d] = j /\ MarkCompleted(d))
        /\ SF_vars(\E d \in Dispatchers : Alone(d, j) /\ Enqueue(d, j))
        /\ SF_vars(\E d \in Dispatchers : Alone(d, j) /\ sent[d] = j /\ MarkCompleted(d))

-----------------------------------------------------------------------------
(* Properties *)

TypeOK ==
    /\ status \in [Jobs -> PostJobStatus]
    /\ attempts \in [Jobs -> 0..MaxAttempts]
    /\ message \in [Jobs -> BOOLEAN]
    /\ late \in [Jobs -> BOOLEAN]
    /\ log \in [Jobs -> BOOLEAN]
    /\ escrow \in [Jobs -> {"held", "released", "refunded"}]
    /\ event \in [Jobs -> {"pending", "processing", "completed"}]
    /\ overdue \in [Jobs -> BOOLEAN]
    /\ todo \in [Dispatchers -> SUBSET Jobs]
    /\ sent \in [Dispatchers -> Jobs \cup {Nobody}]
    /\ queue \in [Jobs -> {"none", "waiting", "active", "failed"}]
    /\ made \in [Jobs -> Nat]
    /\ stalls \in [Jobs -> {0, 1}]
    /\ holder \in [Jobs -> Workers \cup {Nobody}]
    /\ pc \in [Workers -> Step]
    /\ work \in [Workers -> Work \cup {Nobody}]
    /\ \A c \in Workers : pc[c] # "idle" => work[c] # Nobody
    /\ found \in Find \cup {Nobody}
    /\ retrying \in Jobs \cup {Nobody}
    /\ posts \in [Jobs -> Nat]
    /\ excused \in [Jobs -> Nat]

(* A message appears in the channel a second time only where an answer of     *)
(* Telegram or a worker's lock was lost, and then once for each: retries,    *)
(* re-sent events, the recovery and admins add none of their own             *)
(* (sendCampaignPost looks for the delivery log before it sends).            *)
RepostsExcused == \A j \in Jobs : posts[j] <= 1 + excused[j]

(* However late workers, recovery and admins overwrite each other's status,   *)
(* a job that says success was paid and one that says failed was refunded.   *)
StatusTellsMoney == \A j \in Jobs :
    /\ status[j] = "success" => escrow[j] = "released"
    /\ status[j] = "failed" => escrow[j] = "refunded"

(* A completed event has reached the queue: no crash between the two, and no  *)
(* second dispatcher, loses a job that was never given to a worker.          *)
CompletedWasQueued == \A j \in Jobs :
    event[j] = "completed" => queue[j] # "none" \/ log[j]

(* The publisher is paid only for a post that is in the channel, and the      *)
(* escrow goes one way.                                                      *)
Promise == INSTANCE DeliveryPromise

KeepsPromise == Promise!Spec

(* Every event gets through, and is not done with before its job has, whatever *)
(* dies or fails on the way.                                                 *)
EventsDispatched == \A j \in Jobs :
    event[j] = "pending" ~> event[j] = "completed" /\ (queue[j] # "none" \/ log[j])

-----------------------------------------------------------------------------
(* The inductive invariant of the proofs *)

(* An entry under a lock is active, and its holder works on it. *)
HolderFits == \A j \in Jobs : holder[j] # Nobody =>
    /\ queue[j] = "active"
    /\ pc[holder[j]] # "idle"
    /\ work[holder[j]].job = j

(* What a dispatcher has just queued is in the queue, or was.                 *)
SentFits == \A d \in Dispatchers :
    sent[d] # Nobody => queue[sent[d]] # "none" \/ log[sent[d]]

(* What takes a post for published rests on the log, and the log on a post.   *)
LogFits ==
    /\ \A c \in Workers :
        /\ pc[c] = "log" => posts[work[c].job] > 0
        /\ pc[c] \in {"finish", "done"} => log[work[c].job]
    /\ found # Nobody /\ found.to = "success" => log[found.job]
    /\ \A j \in Jobs :
        /\ log[j] => posts[j] > 0
        /\ message[j] => log[j]
        /\ status[j] = "success" => log[j]

(* Those who may still send job j: workers past their look at the log, and    *)
(* while there is no log all who have not looked yet or hold the entry after *)
(* a failure.                                                                *)
Unlogged(j, c) ==
    /\ ~ log[j]
    /\ pc[c] \in {"reserve", "read", "look"} \/ (pc[c] \in {"fail", "failed"} /\ holder[j] = c)

Sends(j, c) == pc[c] # "idle" /\ work[c].job = j /\ (pc[c] = "send" \/ Unlogged(j, c))
Senders(j) == {c \in Workers : Sends(j, c)}

(* ... and whoever will take the entry that nobody holds *)
Unheld(j) == IF ~ log[j] /\ holder[j] = Nobody THEN 1 ELSE 0

Accounted == \A j \in Jobs :
    posts[j] + Cardinality(Senders(j)) + Unheld(j) <= 1 + excused[j]

IInv == TypeOK /\ StatusTellsMoney /\ CompletedWasQueued
        /\ SentFits /\ HolderFits /\ LogFits /\ Accounted
=============================================================================
