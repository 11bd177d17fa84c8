-------------------------- MODULE BotConversation --------------------------
(***************************************************************************)
(* The conversation of the bot with one Telegram user: one record in Redis,*)
(* the handlers that read it and write it back whole, and the user's lock, *)
(* a key with a time to live that a handler sets if it is not there and    *)
(* deletes when it is done, whoever has set it by then                     *)
(* (telegram/handlers, application/telegram/telegram-fsm.service.ts,       *)
(* telegram/telegram-user-lock.service.ts). Both keys carry the user's id, *)
(* so users do not meet.                                                   *)
(*                                                                         *)
(* A handler is a slot c of Calls from the lock to its release. Every wait *)
(* for Redis or the back end is a step, so /start, which takes no lock,    *)
(* and the lock's end of life may come in between. A message that finds    *)
(* the lock is told to wait and changes nothing. What the back end does    *)
(* with a deal is AdDeal's, with a deposit PaymentIntents'; here an order  *)
(* is that it was asked to make one, under a key drawn for this message.   *)
(***************************************************************************)

CONSTANTS
    Calls,      \* handlers that may run at a time
    Nobody,
    Subjects,   \* publishers and deals a conversation may be about
    NoSubject,
    Granted,    \* the roles the user is granted
    Flows       \* the buttons the user presses, by the steps they lead to

ASSUME NobodyAssumption == Nobody \notin Calls
ASSUME SubjectAssumption == NoSubject \notin Subjects
ASSUME GrantedAssumption == Granted \subseteq {"advertiser", "publisher"}

VARIABLES
    fsm,        \* the conversation: role, flow and step, and its payload
    lock,       \* who has set the lock's key, which holds no name itself
    pc,         \* next step of each handler
    req,        \* what each handler is to do
    snap,       \* the conversation as it has it in hand
    (* history *)
    prompt,     \* the question for an amount that is still to be answered
    restarted,  \* handlers a /start has come upon since they read
    outlived    \* a handler was still at work when its lock ended, and not
                \* all that ran with it have finished

vars == <<fsm, lock, pc, req, snap, prompt, restarted, outlived>>

TelegramRole == {"none", "advertiser", "publisher", "admin"}

(* a flow with its step; "onboarding" is PUBLISHER_ONBOARDING without one *)
AdvertiserStep == {"balance", "publisher", "amount", "campaign"}
PublisherStep == {"onboarding", "public", "private", "proof"}
FlowStep == {"none"} \cup AdvertiserStep \cup PublisherStep

Conversation == [role : TelegramRole, step : FlowStep, subject : Subjects \cup {NoSubject}]

Home(role) == [role |-> role, step |-> "none", subject |-> NoSubject]
WithRole(f, role) == [role |-> role, step |-> f.step, subject |-> f.subject]

(* what an answer in this conversation would order *)
NoPrompt == <<"none", NoSubject>>
Asks(f) ==
    IF f.step = "balance" \/ (f.step = "amount" /\ f.subject # NoSubject)
        THEN <<f.step, f.subject>> ELSE NoPrompt

(* a handler's kind, the role it ensures and the step it is to write *)
Request == [role : {"advertiser", "publisher"},
            step : FlowStep, subject : Subjects \cup {NoSubject},
            kind : {"enter", "look", "begin", "text", "proof", "ordered"}]

Ask(kind, role, step, subject) ==
    [role |-> role, step |-> step, subject |-> subject, kind |-> kind]

(* a handler with nothing left to do but what its next step says, and one     *)
(* that has ordered                                                          *)
Nothing == Ask("look", "publisher", "none", NoSubject)
Ordered == Ask("ordered", "advertiser", "none", NoSubject)

Idle(c) == pc[c] = "idle"
Alone(c) == \A d \in Calls \ {c} : Idle(d)

history == <<prompt, restarted, outlived>>

-----------------------------------------------------------------------------
(* Updates of Telegram *)

(* without NX *)
Handle_Anyway(c, r, first) ==
    /\ Idle(c)
    /\ lock' = c
    /\ req' = [req EXCEPT ![c] = r]
    /\ pc' = [pc EXCEPT ![c] = first]
    /\ UNCHANGED <<fsm, snap, history>>

(* withUserLock: SET NX, or the message is turned away *)
Handle(c, r, first) ==
    /\ Idle(c) /\ lock = Nobody
    /\ lock' = c
    /\ req' = [req EXCEPT ![c] = r]
    /\ pc' = [pc EXCEPT ![c] = first]
    /\ UNCHANGED <<fsm, snap, history>>

(* ROLE_ADVERTISER, ROLE_PUBLISHER *)
EnterPanel(c) == \E role \in {"advertiser", "publisher"} :
    Handle(c, Ask("enter", role, "none", NoSubject), "ensure")

(* lists, balances, earnings, the check of a private channel *)
Show(c) == \E role \in {"advertiser", "publisher"} :
    Handle(c, Ask("look", role, "none", NoSubject), "ensure")

(* buttons that go to the back end, or nowhere, without the conversation *)
PressDeal(c) == Handle(c, Nothing, "free")

(* the buttons that begin a flow; the one of a channel brings its publisher *)
BeginFlow(c) ==
    \/ \E step \in {"balance", "publisher", "campaign"} \cap Flows :
           Handle(c, Ask("begin", "advertiser", step, NoSubject), "ensure")
    \/ \E s \in Subjects : Handle(c, Ask("begin", "advertiser", "amount", s), "ensure")
    \/ \E step \in {"onboarding", "public", "private"} \cap Flows :
           Handle(c, Ask("begin", "publisher", step, NoSubject), "ensure")

CancelFlow(c) == Handle(c, Nothing, "cancel")

(* A text is offered to the handler of either role. *)
OnText(c) == \E role \in {"advertiser", "publisher"} :
    Handle(c, Ask("text", role, "none", NoSubject), "role")

(* /start asks the back end who this is and sets the conversation, unlocked.  *)
Start ==
    LET role == IF "publisher" \in Granted THEN "publisher"
                ELSE IF "advertiser" \in Granted THEN "advertiser" ELSE "admin"
    IN
    /\ fsm' = Home(role)
    /\ restarted' = {c \in Calls : ~ Idle(c)}
    /\ prompt' = IF \A c \in Calls : Idle(c) THEN NoPrompt ELSE prompt
    /\ UNCHANGED <<lock, pc, req, snap, outlived>>

-----------------------------------------------------------------------------
(* Steps of a handler *)

Goto(c, step) == pc' = [pc EXCEPT ![c] = step] /\ UNCHANGED <<req, snap>>

(* on to a wait for which the handler keeps r and has s in hand *)
Proceed(c, step, r, s) ==
    /\ pc' = [pc EXCEPT ![c] = step]
    /\ req' = [req EXCEPT ![c] = r]
    /\ snap' = [snap EXCEPT ![c] = s]

Done(c) == Proceed(c, "free", Nothing, Home("none"))

(* get of the conversation, as the text handler looks for its role *)
CheckRole(c) ==
    /\ pc[c] = "role"
    /\ IF fsm.role = req[c].role THEN Goto(c, "ensure") ELSE Done(c)
    /\ UNCHANGED <<fsm, lock, history>>

(* only a text is understood by what the conversation says *)
Context(c, f) == IF req[c].kind = "text" THEN f ELSE Home("none")

(* ensureAdvertiser, ensurePublisher: the back end knows the role; get *)
Ensure(c) ==
    /\ pc[c] = "ensure" /\ req[c].role \in Granted
    /\ IF fsm.role = req[c].role
           THEN Proceed(c, "act", req[c], Context(c, fsm)) ELSE Goto(c, "sync")
    /\ restarted' = restarted \ {c}
    /\ UNCHANGED <<fsm, lock, prompt, outlived>>

(* updateRole: get, ... *)
SyncRole(c) ==
    /\ pc[c] = "sync"
    /\ Proceed(c, "synced", req[c], WithRole(fsm, req[c].role))
    /\ restarted' = restarted \ {c}
    /\ UNCHANGED <<fsm, lock, prompt, outlived>>

(* ... and set *)
UpdateRole(c) ==
    /\ pc[c] = "synced"
    /\ fsm' = snap[c]
    /\ Proceed(c, "act", req[c], Context(c, snap[c]))
    /\ UNCHANGED <<lock, history>>

(* as transitionStep does, the payload is kept if none is given *)
GetFlow_KeepPayload(c, r, step, subject) ==
    /\ Proceed(c, "set", r,
           [role |-> fsm.role, step |-> step,
            subject |-> IF subject = NoSubject THEN fsm.subject ELSE subject])
    /\ restarted' = restarted \ {c}
    /\ UNCHANGED <<fsm, lock, prompt, outlived>>

(* startFlow, clearFlow: get, ... *)
GetFlow(c, r, step, subject) ==
    /\ Proceed(c, "set", r,
           [role |-> fsm.role, step |-> step, subject |-> subject])
    /\ restarted' = restarted \ {c}
    /\ UNCHANGED <<fsm, lock, prompt, outlived>>

(* ... and set *)
SetFlow(c) ==
    /\ pc[c] = "set"
    /\ fsm' = snap[c]
    /\ prompt' = Asks(snap[c])
    /\ Done(c)
    /\ UNCHANGED <<lock, restarted, outlived>>

Acts(c, kind) == pc[c] = "act" /\ req[c].kind = kind

(* the panel's set needs no get *)
SetHome(c) ==
    /\ Acts(c, "enter")
    /\ fsm' = Home(req[c].role)
    /\ prompt' = NoPrompt
    /\ Done(c)
    /\ UNCHANGED <<lock, restarted, outlived>>

(* A list is shown, a command on a deal is passed on, an input is refused.    *)
Finish(c) ==
    /\ Acts(c, "look") \/ Acts(c, "text")
    /\ Done(c)
    /\ UNCHANGED <<fsm, lock, history>>

StartFlow(c) == Acts(c, "begin") /\ GetFlow(c, Nothing, req[c].step, req[c].subject)

Texts(c, role, step) == Acts(c, "text") /\ req[c].role = role /\ snap[c].step = step

(* the answer names a publisher, whom the back end resolves *)
ChoosePublisher(c) ==
    /\ Texts(c, "advertiser", "publisher")
    /\ \E s \in Subjects : GetFlow(c, Nothing, "amount", s)

(* an amount for no publisher: the record is older than the flow *)
AskPublisherFirst(c) ==
    /\ Texts(c, "advertiser", "amount") /\ snap[c].subject = NoSubject
    /\ GetFlow(c, Nothing, "publisher", NoSubject)

(* createDepositIntent, createAdDeal: the back end has made it *)
Order(c) ==
    /\ \/ Texts(c, "advertiser", "balance")
       \/ Texts(c, "advertiser", "amount") /\ snap[c].subject # NoSubject
    /\ Proceed(c, "answer", Ordered, Home("none"))
    /\ prompt' = NoPrompt
    /\ UNCHANGED <<fsm, lock, restarted, outlived>>

(* the flow is not ended *)
Answer_LeaveFlow(c) ==
    /\ pc[c] = "answer"
    /\ Done(c)
    /\ UNCHANGED <<fsm, lock, history>>

(* ... its answer is here, or an error upon which the flow ends as well *)
Answer(c) ==
    /\ pc[c] = "answer"
    /\ GetFlow(c, Ordered, "none", NoSubject)

(* PAYMENTS_DISABLED, INSUFFICIENT_WALLET_BALANCE, and nothing made; the name  *)
(* of a campaign; a public channel that was verified; a proof for no deal    *)
EndFlow(c) ==
    /\ \/ Texts(c, "advertiser", "balance") \/ Texts(c, "advertiser", "amount")
       \/ Texts(c, "advertiser", "campaign") \/ Texts(c, "publisher", "public")
       \/ Texts(c, "publisher", "proof") /\ snap[c].subject = NoSubject
    /\ GetFlow(c, Nothing, "none", NoSubject)

ClearFlow(c) == pc[c] = "cancel" /\ GetFlow(c, Nothing, "none", NoSubject)

(* /submit_proof with a deal and no proof *)
AskProof(c) ==
    /\ Acts(c, "text") /\ req[c].role = "publisher"
    /\ \E d \in Subjects : GetFlow(c, Nothing, "proof", d)

(* handleProofSubmission, with the deal of the command or of the flow, begins  *)
(* by ensuring the role once more                                            *)
TakeProof(c) ==
    /\ Acts(c, "text") /\ req[c].role = "publisher"
    /\ Proceed(c, "ensure", Ask("proof", "publisher", "none", NoSubject), Home("none"))
    /\ UNCHANGED <<fsm, lock, history>>

(* submitProof, then settleAdDeal *)
SubmitProof(c) == Acts(c, "proof") /\ GetFlow(c, Nothing, "none", NoSubject)

-----------------------------------------------------------------------------
(* How a handler ends *)

(* An order whose answer or whose end of the flow is lost leaves the           *)
(* conversation as it is: the user is still asked.                           *)
AskedAgain(c) == IF req[c].kind = "ordered" THEN Asks(fsm) ELSE prompt

(* the back end or Redis throws *)
Throw(c) ==
    /\ pc[c] \notin {"idle", "free"}
    /\ Done(c)
    /\ prompt' = AskedAgain(c)
    /\ UNCHANGED <<fsm, lock, restarted, outlived>>

(* with the last of those that overlapped, the overlap is over *)
Ends(c, asked) ==
    /\ Proceed(c, "idle", Nothing, Home("none"))
    /\ restarted' = restarted \ {c}
    /\ outlived' = (outlived /\ ~ Alone(c))
    /\ prompt' = IF outlived /\ Alone(c) THEN Asks(fsm) ELSE asked
    /\ UNCHANGED fsm

(* release deletes the key, whoever has set it *)
Release(c) ==
    /\ pc[c] = "free"
    /\ lock' = Nobody
    /\ Ends(c, prompt)

(* the process dies, or the release fails: the key stays *)
Crash(c) ==
    /\ ~ Idle(c)
    /\ UNCHANGED lock
    /\ Ends(c, AskedAgain(c))

(* the key's time to live is over *)
Expire ==
    /\ lock # Nobody
    /\ lock' = Nobody
    /\ outlived' = (outlived \/ ~ Idle(lock))
    /\ UNCHANGED <<fsm, pc, req, snap, prompt, restarted>>

-----------------------------------------------------------------------------
(* what a record from before flows and steps had a name is read as *)
mapLegacyState == {"none", "balance", "campaign", "publisher", "amount",
                   "public", "private", "proof"}

(* no record, one without flow and step, or one of an earlier run *)
Init ==
    /\ fsm \in [role : TelegramRole, step : mapLegacyState, subject : {NoSubject}]
    /\ lock = Nobody
    /\ pc = [c \in Calls |-> "idle"]
    /\ req = [c \in Calls |-> Nothing]
    /\ snap = [c \in Calls |-> Home("none")]
    /\ prompt = Asks(fsm)
    /\ restarted = {}
    /\ outlived = FALSE

Update(c) == EnterPanel(c) \/ Show(c) \/ PressDeal(c) \/ BeginFlow(c)
             \/ CancelFlow(c) \/ OnText(c)

StepOf(c) ==
    \/ CheckRole(c) \/ Ensure(c) \/ SyncRole(c) \/ UpdateRole(c)
    \/ SetFlow(c) \/ SetHome(c) \/ Finish(c)
    \/ StartFlow(c) \/ ClearFlow(c) \/ ChoosePublisher(c) \/ AskPublisherFirst(c)
    \/ Order(c) \/ Answer(c) \/ EndFlow(c)
    \/ AskProof(c) \/ TakeProof(c) \/ SubmitProof(c)

Next ==
    \/ \E c \in Calls : Update(c) \/ StepOf(c) \/ Throw(c) \/ Release(c) \/ Crash(c)
    \/ Start
    \/ Expire

Spec == Init /\ [][Next]_vars

-----------------------------------------------------------------------------
(* Properties *)

WorkStep == {"role", "ensure", "sync", "synced", "act", "answer", "cancel", "set", "free"}

(* Every value keeps its type, and a conversation carries the subject of its    *)
(* own step only: no flow begins with what another was about.                *)
TypeOK ==
    /\ fsm \in Conversation
    /\ fsm.subject # NoSubject => fsm.step \in {"amount", "proof"}
    /\ lock \in Calls \cup {Nobody}
    /\ pc \in [Calls -> WorkStep \cup {"idle"}]
    /\ req \in [Calls -> Request]
    /\ snap \in [Calls -> Conversation]
    /\ prompt \in FlowStep \X (Subjects \cup {NoSubject})
    /\ restarted \subseteq Calls
    /\ outlived \in BOOLEAN

(* What a handler has read is what the conversation says until it has written  *)
(* it back, though the two are several waits apart, unless a /start has come *)
(* in between or a handler has outlived the lock that ends by itself.        *)
ReadIsCurrent ==
    ~ outlived =>
        \A c \in Calls \ restarted :
            /\ pc[c] = "act" /\ req[c].kind = "text" => snap[c] = fsm
            /\ pc[c] = "synced" => snap[c] = WithRole(fsm, req[c].role)
            /\ pc[c] = "set" => snap[c].role = fsm.role

(* A deal or deposit is ordered only in answer to the question last asked, and *)
(* once: neither a cancelled flow, nor one a /start between messages has     *)
(* ended, nor a second message orders anything. An answer that is lost asks  *)
(* the question again, and nothing is said of handlers that overlap because  *)
(* one has outlived its lock: each message draws a key of its own.           *)
OrderAnswersPrompt ==
    [][\A c \in Calls : pc[c] = "act" /\ pc'[c] = "answer" =>
            outlived \/ Asks(snap[c]) = prompt]_vars

-----------------------------------------------------------------------------
(* The inductive invariant of the proofs *)

(* While no handler has outlived its lock, whoever works holds it. *)
OneAtATime == ~ outlived => \A c \in Calls : ~ Idle(c) => lock = c

(* Subjects belong to the steps that ask about them, also where they are to be *)
(* written; an order is known to its handler until the flow is ended.        *)
SlotsFit == \A c \in Calls :
    /\ snap[c].subject # NoSubject => snap[c].step \in {"amount", "proof"}
    /\ req[c].subject # NoSubject => req[c].step \in {"amount", "proof"}
    /\ req[c].kind = "ordered" => pc[c] \in {"answer", "set"}

(* What the conversation asks, and what a handler takes it to ask, is the last *)
(* question, or nothing.                                                     *)
Asked(f) == Asks(f) \in {prompt, NoPrompt}

PromptFits == ~ outlived =>
    /\ (\A c \in Calls : req[c].kind # "ordered") => Asked(fsm)
    /\ \A c \in Calls : pc[c] = "synced" \/ Acts(c, "text") => Asked(snap[c])

IInv == TypeOK /\ OneAtATime /\ SlotsFit /\ ReadIsCurrent /\ PromptFits
=============================================================================
