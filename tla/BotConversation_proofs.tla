----------------------- MODULE BotConversation_proofs -----------------------
(***************************************************************************)
(* Proofs about BotConversation, for every number of handlers, publishers   *)
(* and deals. While no handler has outlived its lock, at most one handler   *)
(* works (OneAtATime), so what one of them does is looked at alone: a step   *)
(* of a handler keeps the invariant if what it leaves in hand fits what it   *)
(* leaves in the conversation (WorkKeeps).                                  *)
(***************************************************************************)
EXTENDS BotConversation, TLAPS

Prompts == FlowStep \X (Subjects \cup {NoSubject})

(* A subject belongs to a step that asks about it. *)
SubjectFits(f) == f.subject # NoSubject => f.step \in {"amount", "proof"}

-----------------------------------------------------------------------------
(* What is asked depends on step and subject only. *)
LEMMA AsksFacts ==
    /\ NoPrompt \in Prompts
    /\ \A f \in Conversation : Asks(f) \in Prompts
    /\ \A role : Asks(Home(role)) = NoPrompt
    /\ \A role : \A f \in Conversation : Asks(WithRole(f, role)) = Asks(f)
    /\ \A f \in Conversation :
           f.step = "balance" \/ (f.step = "amount" /\ f.subject # NoSubject)
               => Asks(f) # NoPrompt
BY SMTT(30) DEF Prompts, NoPrompt, Asks, Home, WithRole, Conversation, FlowStep,
     AdvertiserStep, PublisherStep, TelegramRole

(* The records the handlers build have their types. *)
LEMMA RecordFacts ==
    /\ \A role \in TelegramRole : Home(role) \in Conversation /\ SubjectFits(Home(role))
    /\ \A role \in TelegramRole : \A f \in Conversation :
           /\ WithRole(f, role) \in Conversation
           /\ SubjectFits(f) => SubjectFits(WithRole(f, role))
    /\ Nothing \in Request /\ SubjectFits(Nothing) /\ Nothing.kind = "look"
    /\ Ordered \in Request /\ SubjectFits(Ordered) /\ Ordered.kind = "ordered"
BY SMTT(30) DEF Home, WithRole, Conversation, FlowStep, AdvertiserStep, PublisherStep,
     TelegramRole, SubjectFits, Nothing, Ordered, Ask, Request

-----------------------------------------------------------------------------
(* What a handler at step p with request r and record s in hand may rely on,   *)
(* where the conversation is f and the question q                            *)
HandFits(p, r, s, f, q) ==
    /\ r.kind # "ordered" => Asks(f) \in {q, NoPrompt}
    /\ p = "synced" \/ (p = "act" /\ r.kind = "text") => Asks(s) \in {q, NoPrompt}

HandCurrent(p, r, s, f) ==
    /\ p = "act" /\ r.kind = "text" => s = f
    /\ p = "synced" => s = WithRole(f, r.role)
    /\ p = "set" => s.role = f.role

(* The handler that works has the lock, and the others are idle. *)
LEMMA OnlyOne ==
    ASSUME IInv, ~ outlived, NEW c \in Calls, ~ Idle(c)
    PROVE  /\ lock = c
           /\ \A d \in Calls \ {c} : Idle(d)
           /\ \A d \in Calls \ {c} : req[d].kind # "ordered"
BY DEF IInv, OneAtATime, SlotsFit, Idle

(* A step of a working handler keeps the invariant, if what it goes on with     *)
(* fits what it leaves behind.                                               *)
LEMMA WorkKeeps ==
    ASSUME IInv, NEW c \in Calls, ~ Idle(c),
           NEW p \in WorkStep, NEW r \in Request, NEW s \in Conversation,
           Proceed(c, p, r, s),
           UNCHANGED <<lock, outlived>>,
           restarted' \in {restarted, restarted \ {c}},
           fsm' \in Conversation, SubjectFits(fsm'), prompt' \in Prompts,
           SubjectFits(r), SubjectFits(s),
           r.kind = "ordered" => p \in {"answer", "set"},
           ~ outlived => HandFits(p, r, s, fsm', prompt'),
           ~ outlived /\ c \notin restarted' => HandCurrent(p, r, s, fsm')
    PROVE  IInv'
<1>1. TypeOK'
  BY DEF IInv, TypeOK, Proceed, WorkStep, SubjectFits, Prompts
<1>2. /\ \A d \in Calls \ {c} : pc'[d] = pc[d] /\ req'[d] = req[d] /\ snap'[d] = snap[d]
      /\ pc'[c] = p /\ req'[c] = r /\ snap'[c] = s
  BY DEF IInv, TypeOK, Proceed
<1>3. p # "idle"
  BY DEF WorkStep
<1>4. OneAtATime'
  BY <1>2, <1>3, OnlyOne DEF OneAtATime, Idle
<1>5. SlotsFit'
  BY <1>2 DEF IInv, SlotsFit, SubjectFits
<1>6. ReadIsCurrent'
  <2> SUFFICES ASSUME ~ outlived, NEW d \in Calls, d \notin restarted'
               PROVE  HandCurrent(pc'[d], req'[d], snap'[d], fsm')
    BY DEF ReadIsCurrent, HandCurrent
  <2>1. CASE d = c
    BY <2>1, <1>2
  <2>2. CASE d # c
    <3>1. pc'[d] = "idle"
      BY <2>2, <1>2, OnlyOne DEF Idle
    <3>2. QED  BY <3>1 DEF HandCurrent
  <2>3. QED  BY <2>1, <2>2
<1>7. PromptFits'
  <2> SUFFICES ASSUME ~ outlived
               PROVE  /\ (\A d \in Calls : req'[d].kind # "ordered") => Asks(fsm') \in {prompt', NoPrompt}
                      /\ \A d \in Calls : pc'[d] = "synced" \/ (pc'[d] = "act" /\ req'[d].kind = "text")
                             => Asks(snap'[d]) \in {prompt', NoPrompt}
    <3>1. Asks(fsm)' = Asks(fsm') /\ \A d \in Calls : Asks(snap[d])' = Asks(snap'[d])
      BY DEF Asks, NoPrompt
    <3>2. NoPrompt' = NoPrompt
      BY DEF NoPrompt
    <3>3. QED  BY <3>1, <3>2 DEF PromptFits, Asked, Acts
  <2>1. (\A d \in Calls : req'[d].kind # "ordered") => Asks(fsm') \in {prompt', NoPrompt}
    BY <1>2 DEF HandFits
  <2>2. ASSUME NEW d \in Calls, pc'[d] = "synced" \/ (pc'[d] = "act" /\ req'[d].kind = "text")
        PROVE  Asks(snap'[d]) \in {prompt', NoPrompt}
    <3>1. CASE d = c
      BY <3>1, <1>2, <2>2 DEF HandFits
    <3>2. CASE d # c
      BY <3>2, <1>2, <2>2, OnlyOne DEF Idle
    <3>3. QED  BY <3>1, <3>2
  <2>3. QED  BY <2>1, <2>2
<1>8. QED  BY <1>1, <1>4, <1>5, <1>6, <1>7 DEF IInv

(* A handler that has nothing more to write leaves the question as it is asked. *)
LEMMA DoneKeeps ==
    ASSUME IInv, NEW c \in Calls, ~ Idle(c), Done(c),
           UNCHANGED <<lock, restarted, outlived>>,
           fsm' \in Conversation, SubjectFits(fsm'), prompt' \in Prompts,
           ~ outlived => Asks(fsm') \in {prompt', NoPrompt}
    PROVE  IInv'
<1>1. "free" \in WorkStep /\ "none" \in TelegramRole
  BY DEF WorkStep, TelegramRole
<1>2. QED
  BY <1>1, WorkKeeps, RecordFacts DEF Done, HandFits, HandCurrent

(* startFlow and clearFlow read the role and keep it. *)
LEMMA GetFlowKeeps ==
    ASSUME IInv, NEW c \in Calls, ~ Idle(c),
           NEW r \in {Nothing, Ordered}, NEW step \in FlowStep,
           NEW subject \in Subjects \cup {NoSubject},
           subject # NoSubject => step \in {"amount", "proof"},
           GetFlow(c, r, step, subject),
           r = Ordered \/ req[c].kind # "ordered"
    PROVE  IInv'
<1> DEFINE s == [role |-> fsm.role, step |-> step, subject |-> subject]
<1>1. s \in Conversation /\ SubjectFits(s) /\ s.role = fsm.role
  BY DEF IInv, TypeOK, Conversation, SubjectFits
<1>2. fsm' = fsm /\ prompt' = prompt /\ fsm \in Conversation /\ SubjectFits(fsm) /\ prompt \in Prompts
  BY DEF GetFlow, IInv, TypeOK, SubjectFits, Prompts
<1>3. Proceed(c, "set", r, s) /\ UNCHANGED <<lock, outlived>> /\ restarted' = restarted \ {c}
  BY DEF GetFlow
<1>4. r \in Request /\ SubjectFits(r) /\ "set" \in WorkStep
  BY RecordFacts DEF WorkStep
<1>5. ~ outlived => HandFits("set", r, s, fsm', prompt')
  <2> SUFFICES ASSUME ~ outlived, r.kind # "ordered"
               PROVE  Asks(fsm) \in {prompt, NoPrompt}
    BY <1>2 DEF HandFits
  <2>1. \A d \in Calls : req[d].kind # "ordered"
    BY OnlyOne, RecordFacts
  <2>2. QED  BY <2>1 DEF IInv, PromptFits, Asked
<1>6. HandCurrent("set", r, s, fsm')
  BY <1>1, <1>2 DEF HandCurrent
<1>7. QED
  BY <1>1, <1>2, <1>3, <1>4, <1>5, <1>6, WorkKeeps

-----------------------------------------------------------------------------
(* A message that finds the lock free takes it. *)
LEMMA HandleKeeps ==
    ASSUME IInv, NEW c \in Calls, NEW r \in Request,
           NEW first \in {"ensure", "role", "cancel", "free"},
           Handle(c, r, first), SubjectFits(r), r.kind # "ordered"
    PROVE  IInv'
<1>1. /\ \A d \in Calls \ {c} : pc'[d] = pc[d] /\ req'[d] = req[d]
      /\ pc'[c] = first /\ req'[c] = r
      /\ Idle(c) /\ lock = Nobody /\ lock' = c
  BY DEF Handle, IInv, TypeOK
<1>2. TypeOK'
  BY DEF Handle, history, IInv, TypeOK, WorkStep
<1>3. OneAtATime'
  BY <1>1, NobodyAssumption DEF IInv, OneAtATime, Handle, history, Idle
<1>4. SlotsFit'
  BY <1>1 DEF Handle, IInv, SlotsFit, SubjectFits, Idle
<1>5. ReadIsCurrent'
  BY <1>1 DEF Handle, history, IInv, ReadIsCurrent
<1>6. PromptFits'
  <2>1. req[c].kind # "ordered"
    BY <1>1 DEF IInv, SlotsFit, Idle
  <2>2. UNCHANGED <<fsm, snap, prompt, outlived>>
    BY DEF Handle, history
  <2>3. (\A d \in Calls : req'[d].kind # "ordered") => \A d \in Calls : req[d].kind # "ordered"
    BY <1>1, <2>1
  <2>4. \A d \in Calls : pc'[d] = "synced" \/ (pc'[d] = "act" /\ req'[d].kind = "text")
            => pc[d] = "synced" \/ (pc[d] = "act" /\ req[d].kind = "text")
    BY <1>1
  <2>5. QED
    BY <2>2, <2>3, <2>4 DEF IInv, PromptFits, Asked, Acts, Asks, NoPrompt
<1>7. QED  BY <1>2, <1>3, <1>4, <1>5, <1>6 DEF IInv

LEMMA UpdateKeeps ==
    ASSUME IInv, NEW c \in Calls, Update(c)
    PROVE  IInv'
<1>1. ASSUME NEW kind \in {"enter", "look", "begin", "text"},
             NEW role \in {"advertiser", "publisher"}, NEW step \in FlowStep,
             NEW subject \in Subjects \cup {NoSubject},
             subject # NoSubject => step = "amount"
      PROVE  /\ Ask(kind, role, step, subject) \in Request
             /\ SubjectFits(Ask(kind, role, step, subject))
             /\ Ask(kind, role, step, subject).kind # "ordered"
  BY <1>1 DEF Ask, Request, SubjectFits
<1>2. "none" \in FlowStep /\ AdvertiserStep \subseteq FlowStep /\ PublisherStep \subseteq FlowStep
  BY DEF FlowStep
<1>3. CASE EnterPanel(c)
  BY <1>1, <1>2, <1>3, HandleKeeps DEF EnterPanel
<1>4. CASE Show(c)
  BY <1>1, <1>2, <1>4, HandleKeeps DEF Show
<1>5. CASE PressDeal(c)
  BY <1>5, RecordFacts, HandleKeeps DEF PressDeal
<1>6. CASE BeginFlow(c)
  <2>1. CASE \E step \in {"balance", "publisher", "campaign"} \cap Flows :
                 Handle(c, Ask("begin", "advertiser", step, NoSubject), "ensure")
    BY <2>1, <1>1, <1>2, HandleKeeps DEF AdvertiserStep
  <2>2. CASE \E s \in Subjects : Handle(c, Ask("begin", "advertiser", "amount", s), "ensure")
    BY <2>2, <1>1, <1>2, HandleKeeps DEF AdvertiserStep
  <2>3. CASE \E step \in {"onboarding", "public", "private"} \cap Flows :
                 Handle(c, Ask("begin", "publisher", step, NoSubject), "ensure")
    BY <2>3, <1>1, <1>2, HandleKeeps DEF PublisherStep
  <2>4. QED  BY <1>6, <2>1, <2>2, <2>3 DEF BeginFlow
<1>7. CASE CancelFlow(c)
  BY <1>7, RecordFacts, HandleKeeps DEF CancelFlow
<1>8. CASE OnText(c)
  BY <1>1, <1>2, <1>8, HandleKeeps DEF OnText
<1>9. QED  BY <1>3, <1>4, <1>5, <1>6, <1>7, <1>8 DEF Update

-----------------------------------------------------------------------------
(* What the invariant says of the conversation while only c works *)
LEMMA AtWork ==
    ASSUME IInv, NEW c \in Calls, ~ Idle(c)
    PROVE  /\ fsm \in Conversation /\ SubjectFits(fsm) /\ prompt \in Prompts
           /\ req[c] \in Request /\ SubjectFits(req[c]) /\ pc[c] \in WorkStep
           /\ snap[c] \in Conversation /\ SubjectFits(snap[c])
           /\ req[c].kind = "ordered" => pc[c] \in {"answer", "set"}
           /\ ~ outlived /\ req[c].kind # "ordered" => Asks(fsm) \in {prompt, NoPrompt}
           /\ ~ outlived /\ (pc[c] = "synced" \/ Acts(c, "text"))
                  => Asks(snap[c]) \in {prompt, NoPrompt}
<1>1. ~ outlived /\ req[c].kind # "ordered" => Asks(fsm) \in {prompt, NoPrompt}
  BY OnlyOne DEF IInv, PromptFits, Asked
<1>2. ~ outlived /\ (pc[c] = "synced" \/ Acts(c, "text")) => Asks(snap[c]) \in {prompt, NoPrompt}
  BY DEF IInv, PromptFits, Asked
<1>3. fsm \in Conversation /\ SubjectFits(fsm) /\ prompt \in Prompts
  BY DEF IInv, TypeOK, SubjectFits, Prompts
<1>4. /\ req[c] \in Request /\ SubjectFits(req[c]) /\ pc[c] \in WorkStep
      /\ snap[c] \in Conversation /\ SubjectFits(snap[c])
      /\ req[c].kind = "ordered" => pc[c] \in {"answer", "set"}
  BY DEF IInv, TypeOK, SlotsFit, SubjectFits, Idle
<1>5. QED  BY <1>1, <1>2, <1>3, <1>4

(* A handler that goes on with what it has, is a step like any other. *)
LEMMA GotoProceeds ==
    ASSUME IInv, NEW c \in Calls, NEW p, Goto(c, p)
    PROVE  Proceed(c, p, req[c], snap[c])
BY DEF IInv, TypeOK, Goto, Proceed

LEMMA CheckRoleKeeps ==
    ASSUME IInv, NEW c \in Calls, CheckRole(c)
    PROVE  IInv'
<1>1. ~ Idle(c) /\ UNCHANGED <<fsm, lock, history>> /\ req[c].kind # "ordered"
  BY AtWork DEF CheckRole, Idle
<1>2. CASE Goto(c, "ensure")
  <2>1. HandFits("ensure", req[c], snap[c], fsm', prompt') \/ outlived
    BY <1>1, AtWork DEF HandFits, history
  <2>2. HandCurrent("ensure", req[c], snap[c], fsm')
    BY DEF HandCurrent
  <2>3. QED
    BY <1>1, <1>2, <2>1, <2>2, AtWork, GotoProceeds, WorkKeeps DEF history, WorkStep
<1>3. CASE Done(c)
  BY <1>1, <1>3, AtWork, DoneKeeps DEF history
<1>4. QED  BY <1>2, <1>3 DEF CheckRole

LEMMA EnsureKeeps ==
    ASSUME IInv, NEW c \in Calls, Ensure(c)
    PROVE  IInv'
<1>1. ~ Idle(c) /\ UNCHANGED <<fsm, lock, prompt, outlived>> /\ restarted' = restarted \ {c}
  BY DEF Ensure, Idle
<1>2. req[c].kind # "ordered"
  BY <1>1, AtWork DEF Ensure
<1>3. CASE Proceed(c, "act", req[c], Context(c, fsm))
  <2>1. /\ Context(c, fsm) \in Conversation /\ SubjectFits(Context(c, fsm))
        /\ req[c].kind = "text" => Context(c, fsm) = fsm
    BY <1>1, AtWork, RecordFacts DEF Context, TelegramRole
  <2>2. HandFits("act", req[c], Context(c, fsm), fsm', prompt') \/ outlived
    BY <1>1, <1>2, <2>1, AtWork DEF HandFits
  <2>3. HandCurrent("act", req[c], Context(c, fsm), fsm')
    BY <1>1, <2>1 DEF HandCurrent
  <2>4. QED
    BY <1>1, <1>2, <1>3, <2>1, <2>2, <2>3, AtWork, WorkKeeps DEF WorkStep
<1>4. CASE Goto(c, "sync")
  <2>1. HandFits("sync", req[c], snap[c], fsm', prompt') \/ outlived
    BY <1>1, <1>2, AtWork DEF HandFits
  <2>2. HandCurrent("sync", req[c], snap[c], fsm')
    BY DEF HandCurrent
  <2>3. QED
    BY <1>1, <1>2, <1>4, <2>1, <2>2, AtWork, GotoProceeds, WorkKeeps DEF WorkStep
<1>5. QED  BY <1>3, <1>4 DEF Ensure

LEMMA SyncRoleKeeps ==
    ASSUME IInv, NEW c \in Calls, SyncRole(c)
    PROVE  IInv'
<1>1. ~ Idle(c) /\ UNCHANGED <<fsm, lock, prompt, outlived>> /\ restarted' = restarted \ {c}
  BY DEF SyncRole, Idle
<1>2. req[c].kind # "ordered"
  BY <1>1, AtWork DEF SyncRole
<1> DEFINE s == WithRole(fsm, req[c].role)
<1>3. /\ s \in Conversation /\ SubjectFits(s) /\ Asks(s) = Asks(fsm)
      /\ Proceed(c, "synced", req[c], s)
  BY <1>1, AtWork, RecordFacts, AsksFacts DEF Request, TelegramRole, SyncRole
<1>4. HandFits("synced", req[c], s, fsm', prompt') \/ outlived
  BY <1>1, <1>2, <1>3, AtWork DEF HandFits
<1>5. HandCurrent("synced", req[c], s, fsm')
  BY <1>1 DEF HandCurrent
<1>6. QED
  BY <1>1, <1>2, <1>3, <1>4, <1>5, AtWork, WorkKeeps DEF WorkStep

LEMMA UpdateRoleKeeps ==
    ASSUME IInv, NEW c \in Calls, UpdateRole(c)
    PROVE  IInv'
<1>1. ~ Idle(c) /\ fsm' = snap[c] /\ UNCHANGED <<lock, history>>
  BY DEF UpdateRole, Idle
<1>2. req[c].kind # "ordered"
  BY <1>1, AtWork DEF UpdateRole
<1> DEFINE s == Context(c, snap[c])
<1>3. /\ s \in Conversation /\ SubjectFits(s)
      /\ req[c].kind = "text" => s = snap[c]
      /\ Proceed(c, "act", req[c], s)
  BY <1>1, AtWork, RecordFacts DEF Context, TelegramRole, UpdateRole
<1>4. HandFits("act", req[c], s, fsm', prompt') \/ outlived
  BY <1>1, <1>3, AtWork DEF HandFits, history, UpdateRole
<1>5. HandCurrent("act", req[c], s, fsm')
  BY <1>1, <1>3 DEF HandCurrent
<1>6. QED
  BY <1>1, <1>2, <1>3, <1>4, <1>5, AtWork, WorkKeeps DEF WorkStep, history

LEMMA SetFlowKeeps ==
    ASSUME IInv, NEW c \in Calls, SetFlow(c)
    PROVE  IInv'
<1>1. ~ Idle(c)
  BY DEF SetFlow, Idle
<1>2. fsm' = snap[c] /\ prompt' = Asks(snap[c]) /\ prompt' \in Prompts
  BY <1>1, AtWork, AsksFacts DEF SetFlow
<1>3. QED
  BY <1>1, <1>2, AtWork, DoneKeeps DEF SetFlow

LEMMA SetHomeKeeps ==
    ASSUME IInv, NEW c \in Calls, SetHome(c)
    PROVE  IInv'
<1>1. ~ Idle(c)
  BY DEF SetHome, Acts, Idle
<1>2. /\ fsm' = Home(req[c].role) /\ prompt' = NoPrompt
      /\ fsm' \in Conversation /\ SubjectFits(fsm') /\ Asks(fsm') = NoPrompt
  BY <1>1, AtWork, RecordFacts, AsksFacts DEF SetHome, Request, TelegramRole
<1>3. QED
  BY <1>1, <1>2, AsksFacts, DoneKeeps DEF SetHome

LEMMA FinishKeeps ==
    ASSUME IInv, NEW c \in Calls, Finish(c)
    PROVE  IInv'
<1>1. ~ Idle(c) /\ req[c].kind # "ordered" /\ UNCHANGED <<fsm, lock, history>>
  BY DEF Finish, Acts, Idle
<1>2. QED
  BY <1>1, AtWork, DoneKeeps DEF Finish, history

(* The steps that end in a write of the flow *)
LEMMA FlowKeeps ==
    ASSUME IInv, NEW c \in Calls,
           \/ StartFlow(c) \/ ChoosePublisher(c) \/ AskPublisherFirst(c)
           \/ Answer(c) \/ EndFlow(c) \/ ClearFlow(c) \/ AskProof(c) \/ SubmitProof(c)
    PROVE  IInv'
<1>1. ~ Idle(c)
  BY DEF StartFlow, ChoosePublisher, AskPublisherFirst, Answer, EndFlow, ClearFlow,
         AskProof, SubmitProof, Texts, Acts, Idle
<1>2. pc[c] \in {"act", "cancel"} => req[c].kind # "ordered"
  BY <1>1, AtWork
<1>3. {"none", "amount", "publisher", "proof"} \subseteq FlowStep
  BY DEF FlowStep, AdvertiserStep, PublisherStep
<1>4. CASE StartFlow(c)
  <2>1. /\ req[c].step \in FlowStep /\ req[c].subject \in Subjects \cup {NoSubject}
        /\ req[c].subject # NoSubject => req[c].step \in {"amount", "proof"}
    BY <1>1, AtWork DEF Request, SubjectFits
  <2>2. QED
    BY <1>1, <1>2, <1>4, <2>1, GetFlowKeeps DEF StartFlow, Acts
<1>5. CASE ChoosePublisher(c)
  <2>1. PICK s \in Subjects : GetFlow(c, Nothing, "amount", s)
    BY <1>5 DEF ChoosePublisher
  <2>2. QED
    BY <1>1, <1>2, <1>3, <1>5, <2>1, GetFlowKeeps DEF ChoosePublisher, Texts, Acts
<1>6. CASE AskPublisherFirst(c)
  BY <1>1, <1>2, <1>3, <1>6, GetFlowKeeps DEF AskPublisherFirst, Texts, Acts
<1>7. CASE Answer(c)
  BY <1>1, <1>3, <1>7, GetFlowKeeps DEF Answer
<1>8. CASE EndFlow(c)
  BY <1>1, <1>2, <1>3, <1>8, GetFlowKeeps DEF EndFlow, Texts, Acts
<1>9. CASE ClearFlow(c)
  BY <1>1, <1>2, <1>3, <1>9, GetFlowKeeps DEF ClearFlow
<1>10. CASE AskProof(c)
  <2>1. PICK s \in Subjects : GetFlow(c, Nothing, "proof", s)
    BY <1>10 DEF AskProof
  <2>2. QED
    BY <1>1, <1>2, <1>3, <1>10, <2>1, GetFlowKeeps DEF AskProof, Acts
<1>11. CASE SubmitProof(c)
  BY <1>1, <1>2, <1>3, <1>11, GetFlowKeeps DEF SubmitProof, Acts
<1>12. QED
  BY <1>4, <1>5, <1>6, <1>7, <1>8, <1>9, <1>10, <1>11

LEMMA OrderKeeps ==
    ASSUME IInv, NEW c \in Calls, Order(c)
    PROVE  IInv'
<1>1. ~ Idle(c) /\ prompt' = NoPrompt /\ UNCHANGED <<fsm, lock, restarted, outlived>>
  BY DEF Order, Texts, Acts, Idle
<1>2. Home("none") \in Conversation /\ SubjectFits(Home("none"))
  BY RecordFacts DEF TelegramRole
<1>3. HandFits("answer", Ordered, Home("none"), fsm', prompt')
  BY RecordFacts DEF HandFits
<1>4. HandCurrent("answer", Ordered, Home("none"), fsm')
  BY DEF HandCurrent
<1>5. QED
  BY <1>1, <1>2, <1>3, <1>4, AtWork, AsksFacts, RecordFacts, WorkKeeps DEF Order, WorkStep

LEMMA TakeProofKeeps ==
    ASSUME IInv, NEW c \in Calls, TakeProof(c)
    PROVE  IInv'
<1> DEFINE r == Ask("proof", "publisher", "none", NoSubject)
<1>1. ~ Idle(c) /\ UNCHANGED <<fsm, lock, history>> /\ req[c].kind # "ordered"
  BY DEF TakeProof, Acts, Idle
<1>2. r \in Request /\ SubjectFits(r) /\ r.kind = "proof"
  BY DEF Ask, Request, FlowStep, SubjectFits
<1>3. Home("none") \in Conversation /\ SubjectFits(Home("none"))
  BY RecordFacts DEF TelegramRole
<1>4. HandFits("ensure", r, Home("none"), fsm', prompt') \/ outlived
  BY <1>1, AtWork DEF HandFits, history
<1>5. HandCurrent("ensure", r, Home("none"), fsm')
  BY DEF HandCurrent
<1>6. QED
  BY <1>1, <1>2, <1>3, <1>4, <1>5, AtWork, WorkKeeps DEF TakeProof, WorkStep, history

LEMMA ThrowKeeps ==
    ASSUME IInv, NEW c \in Calls, Throw(c)
    PROVE  IInv'
<1>1. ~ Idle(c) /\ UNCHANGED <<fsm, lock, restarted, outlived>> /\ prompt' = AskedAgain(c)
  BY DEF Throw, Idle
<1>2. prompt' \in Prompts /\ (~ outlived => Asks(fsm') \in {prompt', NoPrompt})
  BY <1>1, AtWork, AsksFacts DEF AskedAgain
<1>3. QED
  BY <1>1, <1>2, AtWork, DoneKeeps DEF Throw

LEMMA StepKeeps ==
    ASSUME IInv, NEW c \in Calls, StepOf(c)
    PROVE  IInv'
BY CheckRoleKeeps, EnsureKeeps, SyncRoleKeeps, UpdateRoleKeeps, SetFlowKeeps, SetHomeKeeps,
   FinishKeeps, FlowKeeps, OrderKeeps, TakeProofKeeps DEF StepOf

-----------------------------------------------------------------------------
(* Where a handler ends, whether or not the key goes with it, the others that   *)
(* overlap with it go on; with the last of them the conversation is what asks. *)
LEMMA EndsKeeps ==
    ASSUME IInv, NEW c \in Calls, ~ Idle(c), NEW asked \in Prompts, Ends(c, asked),
           lock' \in Calls \cup {Nobody},
           ~ outlived => Asks(fsm) \in {asked, NoPrompt}
    PROVE  IInv'
<1>1. /\ \A d \in Calls \ {c} : pc'[d] = pc[d] /\ req'[d] = req[d] /\ snap'[d] = snap[d]
      /\ pc'[c] = "idle" /\ req'[c] = Nothing /\ snap'[c] = Home("none")
  BY DEF Ends, Proceed, IInv, TypeOK
<1>2. ~ outlived' => \A d \in Calls : pc'[d] = "idle"
  BY <1>1, OnlyOne DEF Ends, Alone, Idle
<1>3. fsm' = fsm /\ Asks(fsm)' = Asks(fsm) /\ NoPrompt' = NoPrompt
  BY DEF Ends, Asks, NoPrompt
<1>4. TypeOK'
  <2>1. Home("none") \in Conversation /\ Nothing \in Request /\ Asks(fsm) \in Prompts
    BY AtWork, RecordFacts, AsksFacts DEF TelegramRole
  <2>2. QED
    BY <2>1, <1>3 DEF Ends, Proceed, IInv, TypeOK, Prompts
<1>5. OneAtATime'
  BY <1>2 DEF OneAtATime, Idle
<1>6. SlotsFit'
  BY <1>1, RecordFacts DEF IInv, SlotsFit, SubjectFits, Home
<1>7. ReadIsCurrent'
  BY <1>2 DEF ReadIsCurrent
<1>8. PromptFits'
  <2> SUFFICES ASSUME ~ outlived'
               PROVE  Asks(fsm) \in {prompt', NoPrompt}
    BY <1>2, <1>3 DEF PromptFits, Asked, Acts
  <2>1. QED  BY DEF Ends
<1>9. QED  BY <1>4, <1>5, <1>6, <1>7, <1>8 DEF IInv

LEMMA ReleaseKeeps ==
    ASSUME IInv, NEW c \in Calls, Release(c)
    PROVE  IInv'
<1>1. ~ Idle(c) /\ pc[c] = "free"
  BY DEF Release, Idle
<1>2. QED
  BY <1>1, AtWork, EndsKeeps DEF Release

LEMMA CrashKeeps ==
    ASSUME IInv, NEW c \in Calls, Crash(c)
    PROVE  IInv'
<1>1. ~ Idle(c)
  BY DEF Crash
<1>2. AskedAgain(c) \in Prompts /\ (~ outlived => Asks(fsm) \in {AskedAgain(c), NoPrompt})
  BY <1>1, AtWork, AsksFacts DEF AskedAgain
<1>3. lock' \in Calls \cup {Nobody}
  BY DEF Crash, IInv, TypeOK
<1>4. QED
  BY <1>1, <1>2, <1>3, EndsKeeps DEF Crash

(* /start writes no question, and whoever it comes upon knows it has come. *)
LEMMA StartKeeps ==
    ASSUME IInv, Start
    PROVE  IInv'
<1>1. PICK role \in TelegramRole : fsm' = Home(role)
  BY DEF Start, TelegramRole
<1>2. /\ fsm' \in Conversation /\ SubjectFits(fsm') /\ Asks(fsm') = NoPrompt
  BY <1>1, RecordFacts, AsksFacts
<1>3. TypeOK'
  BY <1>2, AsksFacts DEF Start, IInv, TypeOK, SubjectFits, Prompts, Idle
<1>4. OneAtATime' /\ SlotsFit'
  BY DEF Start, IInv, OneAtATime, SlotsFit, Idle
<1>5. ReadIsCurrent'
  BY DEF Start, ReadIsCurrent, Idle
<1>6. PromptFits'
  <2> SUFFICES ASSUME ~ outlived
               PROVE  \A c \in Calls : pc[c] = "synced" \/ Acts(c, "text")
                          => Asks(snap[c]) \in {prompt', NoPrompt}
    <3>1. Asks(fsm)' = NoPrompt /\ NoPrompt' = NoPrompt
      BY <1>2 DEF Asks, NoPrompt
    <3>2. \A c \in Calls : Asks(snap[c])' = Asks(snap[c])
      BY DEF Start, Asks, NoPrompt
    <3>3. QED  BY <3>1, <3>2 DEF Start, PromptFits, Asked, Acts
  <2>1. ASSUME NEW c \in Calls, pc[c] = "synced" \/ Acts(c, "text")
        PROVE  Asks(snap[c]) \in {prompt', NoPrompt}
    <3>1. ~ Idle(c)
      BY <2>1 DEF Acts, Idle
    <3>2. prompt' = prompt
      BY <3>1 DEF Start
    <3>3. QED  BY <2>1, <3>1, <3>2, AtWork
  <2>2. QED  BY <2>1
<1>7. QED  BY <1>3, <1>4, <1>5, <1>6 DEF IInv

(* A lock ends under a handler, or as that of one that has died. *)
LEMMA ExpireKeeps ==
    ASSUME IInv, Expire
    PROVE  IInv'
<1>1. ~ outlived' => ~ outlived /\ \A c \in Calls : Idle(c)
  BY DEF Expire, IInv, OneAtATime, TypeOK, Idle
<1>2. UNCHANGED <<fsm, pc, req, snap, prompt, restarted>>
  BY DEF Expire
<1>3. TypeOK' /\ SlotsFit'
  BY <1>2 DEF Expire, IInv, TypeOK, SlotsFit, Idle
<1>4. OneAtATime' /\ ReadIsCurrent'
  BY <1>1, <1>2 DEF OneAtATime, ReadIsCurrent, Idle
<1>5. PromptFits'
  BY <1>1, <1>2 DEF IInv, PromptFits, Asked, Acts, Asks, NoPrompt, Idle
<1>6. QED  BY <1>3, <1>4, <1>5 DEF IInv

LEMMA Initially == Init => IInv
<1> SUFFICES ASSUME Init PROVE IInv
  OBVIOUS
<1>1. fsm \in Conversation /\ fsm.subject = NoSubject
  BY DEF Init, Conversation, mapLegacyState, FlowStep, AdvertiserStep, PublisherStep
<1>2. TypeOK
  BY <1>1, AsksFacts, RecordFacts DEF Init, TypeOK, Prompts, TelegramRole
<1>3. OneAtATime /\ SlotsFit /\ ReadIsCurrent /\ PromptFits
  BY RecordFacts DEF Init, OneAtATime, SlotsFit, ReadIsCurrent, PromptFits, Asked, Acts,
     Idle, SubjectFits, Home
<1>4. QED  BY <1>2, <1>3 DEF IInv

LEMMA Inductive == IInv /\ [Next]_vars => IInv'
<1>1. ASSUME IInv, Next PROVE IInv'
  BY <1>1, UpdateKeeps, StepKeeps, ThrowKeeps, ReleaseKeeps, CrashKeeps, StartKeeps,
     ExpireKeeps DEF Next
<1>2. ASSUME IInv, UNCHANGED vars PROVE IInv'
  BY <1>2 DEF vars, IInv, TypeOK, OneAtATime, SlotsFit, ReadIsCurrent, PromptFits,
     Asked, Acts, Asks, NoPrompt, Idle
<1>3. QED  BY <1>1, <1>2

LEMMA AlwaysIInv == Spec => []IInv
BY Initially, Inductive, PTL DEF Spec

-----------------------------------------------------------------------------
(* Every value keeps its type, and no flow begins with another's subject.     *)
THEOREM TypeCorrect == Spec => []TypeOK
<1>1. IInv => TypeOK
  BY DEF IInv
<1>2. QED  BY <1>1, AlwaysIInv, PTL

(* What a handler under the lock has read stays current until it writes.      *)
THEOREM ReadStaysCurrent == Spec => []ReadIsCurrent
<1>1. IInv => ReadIsCurrent
  BY DEF IInv
<1>2. QED  BY <1>1, AlwaysIInv, PTL

(* An order step is taken by Order only, and Order acts on a question. *)
LEMMA OrderSteps ==
    ASSUME IInv, [Next]_vars, NEW c \in Calls, pc[c] = "act", pc'[c] = "answer"
    PROVE  outlived \/ Asks(snap[c]) = prompt
<1>1. Order(c)
  <2>1. ASSUME NEW d \in Calls, Update(d) \/ StepOf(d) \/ Throw(d) \/ Release(d) \/ Crash(d)
        PROVE  Order(c)
    <3>1. CASE d = c
      BY <2>1, <3>1 DEF IInv, TypeOK, Update, EnterPanel, Show, PressDeal, BeginFlow,
         CancelFlow, OnText, Handle, Idle, StepOf, CheckRole, Ensure, SyncRole, UpdateRole,
         SetFlow, SetHome, Finish, StartFlow, ChoosePublisher, AskPublisherFirst, Answer,
         EndFlow, ClearFlow, AskProof, TakeProof, SubmitProof, GetFlow, Goto, Proceed,
         Done, Throw, Release, Crash, Ends
    <3>2. CASE d # c
      <4>1. pc'[c] = pc[c]
        BY <2>1, <3>2 DEF IInv, TypeOK, Update, EnterPanel, Show, PressDeal, BeginFlow,
           CancelFlow, OnText, Handle, Idle, StepOf, CheckRole, Ensure, SyncRole, UpdateRole,
           SetFlow, SetHome, Finish, StartFlow, ChoosePublisher, AskPublisherFirst, Answer,
           EndFlow, ClearFlow, AskProof, TakeProof, SubmitProof, GetFlow, Goto, Proceed,
           Done, Throw, Release, Crash, Ends, Order
      <4>2. QED  BY <4>1
    <3>3. QED  BY <3>1, <3>2
  <2>2. CASE Start \/ Expire \/ UNCHANGED vars
    BY <2>2 DEF Start, Expire, vars
  <2>3. QED  BY <2>1, <2>2 DEF Next
<1>2. Asks(snap[c]) # NoPrompt
  BY <1>1, AsksFacts DEF Order, Texts, Acts, IInv, TypeOK
<1>3. ~ outlived => Asks(snap[c]) \in {prompt, NoPrompt}
  BY <1>1, AtWork DEF Order, Texts, Acts, Idle
<1>4. QED  BY <1>2, <1>3

(* Only the question last asked is answered with an order, and only once.     *)
THEOREM OrdersAnswerPrompts == Spec => OrderAnswersPrompt
<1>1. IInv /\ [Next]_vars =>
          [\A c \in Calls : pc[c] = "act" /\ pc'[c] = "answer" =>
               outlived \/ Asks(snap[c]) = prompt]_vars
  BY OrderSteps
<1>2. QED
  BY <1>1, AlwaysIInv, PTL DEF Spec, OrderAnswersPrompt
=============================================================================
