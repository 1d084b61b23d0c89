--------------------------- MODULE WfsBertProofs ---------------------------
(***************************************************************************)
(* The BERT requester on the work queue, for every number of helper        *)
(* worlds, every burst and every set of buffers.                           *)
(*                                                                         *)
(* The proof rests on the invariant of the queue (WqInv): the requester is *)
(* one caller of it.  What it adds is when the work is at rest (AtRest):   *)
(* not pending and not executing, which by the token means that it is      *)
(* nowhere.  The work is at rest whenever a start or the freeing of the    *)
(* packet may come (RestWhenOff), because cancel_work_sync() has brought   *)
(* it there; and a run that sends holds off the next one, because the bit  *)
(* is set again only by its own call at the end (Senders).                 *)
(***************************************************************************)
EXTENDS WfsBert, VmkWorkqueueProofs

AtRest == ~pending[myRequest] /\ \A t \in Tracker : tracker[t].item # myRequest

(* The states in which the requester relies on the work being at rest.      *)
Off == \/ user \in {"init", "enter", "free", "flush", "destroy", "gone"}
       \/ user = "idle" /\ ~on
       \/ user = "cancel" /\ cancel[myRequest].pc = "none"
RestWhenOff == Off => AtRest

(* bert_request_main() runs in the callouts of the work, and nowhere else.  *)
Bodies == \A t \in Tracker :
    body[t].pc # "none" <=> (tracker[t].item = myRequest /\ tracker[t].pc = "running")

(* While one run sends, no other does, and only a cancel can have the bit.  *)
Sending(t) == body[t].pc \in {"send", "copy"}
Senders == \A t \in Tracker : Sending(t) =>
    /\ pending[myRequest] => cancel[myRequest].grabbed
    /\ \A u \in Tracker : Sending(u) => u = t

(* The switches and the packet, by where the caller is.                     *)
Switches ==
    /\ user # "cancel" => cancel[myRequest].pc = "none"
    /\ user \in {"init", "enter", "entered"} => on
    /\ user \in {"cancel", "free", "flush", "destroy", "gone"} => ~on
Packet ==
    /\ live = {skb} \ {NULL}
    /\ user \in {"flush", "destroy", "gone"} \/ (user = "idle" /\ ~on) => skb = NULL /\ ~cfgOn
    /\ \A t \in Tracker : body[t].pc = "copy" => body[t].using = skb /\ skb # NULL /\ body[t].left > 0

BertInv == /\ WqInv /\ BertTypeOK /\ RestWhenOff /\ Bodies /\ Senders /\ Switches /\ Packet

-----------------------------------------------------------------------------
LEMMA OneWork == /\ Work = {myRequest} /\ myRequest \in Work /\ World = {module} /\ module \in World
                 /\ module # myRequest /\ Burst \in Nat /\ NULL \notin Skb /\ NULL # myRequest
BY BertAssumption, WorkqueueAssumption DEF Nat1

(* At rest, the work is nowhere.                                            *)
LEMMA RestIsIdle == ASSUME WqInv, AtRest PROVE WorkIdle
<1>1. Token(myRequest)
  BY OneWork DEF WqInv, Tokens
<1>2. /\ ~pending[myRequest] /\ entering[myRequest] = NULL /\ timer[myRequest] = "off"
      /\ ~cancel[myRequest].grabbed /\ myRequest \notin Queue
  BY <1>1 DEF AtRest, Token
<1>3. Executing(myRequest) = {}
  BY DEF AtRest, Executing
<1>4. PendingToken
  BY TokenHolders DEF WqInv
<1>5. Holders(myRequest) = {}
  BY <1>2, <1>4, OneWork DEF PendingToken
<1>6. QED BY <1>2, <1>3, <1>5 DEF WorkIdle

(* What the queue's own steps can do to the work: run it, and cancel it.    *)
(* The steps that leave its bit, its cancel and the trackers alone.         *)
LEMMA StepCases ==
    ASSUME WqStep
    PROVE  \/ UNCHANGED <<pending, cancel, tracker>>
           \/ \E t \in Tracker : CalloutTake(t) \/ CalloutRun(t)
           \/ \E w \in Work : CancelSteps(w)
<1>1. CASE Posting \/ CalloutEmpty \/ \E k \in 1..posting : SubmitFails(k)
  BY <1>1 DEF Posting, Submit, Uncount, Timeout, SubmitFails, CalloutEmpty, WakePosted, items, callers
<1>2. ASSUME NEW t \in Tracker, PlungerComplete(t) PROVE UNCHANGED <<pending, cancel, tracker>>
  BY <1>2 DEF PlungerComplete, items
<1>3. ASSUME NEW w \in Work, Entering(w) PROVE UNCHANGED <<pending, cancel, tracker>>
  BY <1>3 DEF Entering, EnterNow, EnterDelayed, TimerFires, delayed_work_timer_fn, AddToQueue, callers
<1>4. ASSUME NEW d \in World, FlushSteps(d) PROVE UNCHANGED <<pending, cancel, tracker>>
  BY <1>4 DEF FlushSteps, FlushLock, AddToQueue, FlushDrain, FlushReturn, DestroyWait, DestroyFree, items
<1>5. QED BY <1>1, <1>2, <1>3, <1>4 DEF WqStep, Callout

LEMMA StepQueued == ASSUME WqStep PROVE queued' = queued
BY DEF WqStep, Posting, Submit, Uncount, Timeout, SubmitFails, CalloutEmpty, Callout, CalloutTake,
       CalloutRun, PlungerComplete, Entering, EnterNow, EnterDelayed, TimerFires, delayed_work_timer_fn,
       CancelSteps, CancelGrab, CancelTimer, CancelScan, CancelRescan, CancelClear,
       FlushSteps, FlushLock, FlushDrain, FlushReturn, DestroyWait, DestroyFree

(* Types of the requester's own variables.                                  *)
BertTypes ==
    /\ on \in BOOLEAN /\ cfgOn \in BOOLEAN /\ cleaning \in BOOLEAN
    /\ skb \in Skb \cup {NULL} /\ live \subseteq Skb
    /\ user \in {"idle", "init", "enter", "entered", "cancel", "free", "flush", "destroy", "gone"}
    /\ body \in [Tracker -> [pc : {"none", "send", "copy", "return"}, left : 0..Burst,
                             using : Skb \cup {NULL}]]

LEMMA BertTypeStep == ASSUME BertInv, BertNext PROVE BertTypes'
<1>a. BertTypes
  BY DEF BertInv, BertTypeOK, BertTypes
<1>b. \A t \in Tracker : body[t].pc = "copy" => body[t].left > 0
  BY DEF BertInv, Packet
<1>c. NoBody \in [pc : {"none", "send", "copy", "return"}, left : 0..Burst, using : Skb \cup {NULL}]
  BY OneWork DEF NoBody
<1> USE OneWork DEF BertTypes
<1>1. ASSUME NEW b \in Skb \cup {NULL}, StartRequest(b) PROVE BertTypes'
  BY <1>1, <1>a DEF StartRequest
<1>2. ASSUME NEW last \in BOOLEAN, StopRequest(last) PROVE BertTypes'
  BY <1>2, <1>a DEF StopRequest
<1>3. CASE Start
  BY <1>3, <1>a DEF Start, StartInit, StartQueue, StartReturn, cfg
<1>4. CASE Stop
  BY <1>4, <1>a DEF Stop, StopCancelled, StopFree, CleanupFlush, CleanupDestroy, cfg
<1>5. ASSUME NEW t \in Tracker, Body(t) PROVE BertTypes'
  <2>1. CASE BodyLoad(t)
    <3>1. UNCHANGED <<cfg, user, cleaning>>
      BY <2>1 DEF BodyLoad
    <3>2. CASE skb = NULL
      <4>1. body' = [body EXCEPT ![t] = [body[t] EXCEPT !.left = body[t].left - 1]] /\ body[t].left > 0
        BY <2>1, <3>2, <1>a DEF BodyLoad
      <4>2. body[t].left - 1 \in 0..Burst
        BY <4>1, <1>a
      <4>3. QED BY <1>a, <3>1, <4>1, <4>2 DEF cfg
    <3>3. CASE skb # NULL
      <4>1. body' = [body EXCEPT ![t] = [body[t] EXCEPT !.pc = "copy", !.using = skb]]
        BY <2>1, <3>3, <1>a DEF BodyLoad
      <4>2. QED BY <1>a, <3>1, <4>1 DEF cfg
    <3>4. QED BY <3>2, <3>3
  <2>2. CASE BodyCopy(t)
    <3>1. body[t].left - 1 \in 0..Burst
      BY <2>2, <1>a, <1>b DEF BodyCopy
    <3>2. [pc |-> "send", left |-> body[t].left - 1, using |-> NULL]
             \in [pc : {"none", "send", "copy", "return"}, left : 0..Burst, using : Skb \cup {NULL}]
      BY <3>1
    <3>3. QED BY <2>2, <1>a, <3>2 DEF BodyCopy, cfg
  <2>3. CASE BodyRequeue(t)
    BY <2>3, <1>a DEF BodyRequeue, cfg
  <2>4. CASE BodyReturn(t)
    BY <2>4, <1>a, <1>c DEF BodyReturn, cfg
  <2>5. QED BY <1>5, <2>1, <2>2, <2>3, <2>4 DEF Body
<1>6. CASE QueueStep
  <2>1. [pc |-> "send", left |-> Burst, using |-> NULL]
           \in [pc : {"none", "send", "copy", "return"}, left : 0..Burst, using : Skb \cup {NULL}]
    OBVIOUS
  <2>2. QED BY <1>6, <1>a, <2>1 DEF QueueStep, cfg
<1>7. QED BY <1>1, <1>2, <1>3, <1>4, <1>5, <1>6 DEF BertNext

-----------------------------------------------------------------------------
(* At rest, no bert_request_main() runs.                                    *)
LEMMA RestNoBody == ASSUME BertInv, AtRest PROVE \A t \in Tracker : body[t].pc = "none"
BY DEF BertInv, AtRest, Bodies

(* The queue's invariant: every step of the requester is a step of the      *)
(* queue, a call of its functions, or nothing to it.  INIT_DELAYED_WORK,    *)
(* which writes the bit without asking, finds it clear.                     *)
LEMMA BertQueue == ASSUME BertInv, BertNext PROVE WqInv'
<1>a. WqInv /\ TypeOK
  BY DEF BertInv, WqInv
<1>b. queued \in 0..MaxQueued
  BY <1>a DEF TypeOK
<1> USE OneWork
<1>1. ASSUME NEW b \in Skb \cup {NULL}, StartRequest(b) PROVE WqInv'
  BY <1>1, <1>a, WqInvStutter DEF StartRequest
<1>2. ASSUME NEW last \in BOOLEAN, StopRequest(last) PROVE WqInv'
  BY <1>2, <1>a, <1>b, WqInvAction DEF StopRequest, CancelStart, WqAction
<1>3. CASE StartInit
  <2>1. AtRest
    BY <1>3 DEF BertInv, RestWhenOff, Off, StartInit
  <2>2. Token(myRequest)
    BY <1>a DEF WqInv, Tokens
  <2>3. (pending[myRequest] <=> FALSE) /\ timer[myRequest] = "off"
    BY <2>1, <2>2 DEF AtRest, Token
  <2>4. timer' = timer
    BY <1>3, <1>a, <2>3 DEF StartInit, TypeOK
  <2>5. pending' = pending
    <3>1. pending \in [Work -> BOOLEAN] /\ pending' = [pending EXCEPT ![myRequest] = FALSE]
      BY <1>3, <1>a DEF StartInit, TypeOK
    <3>2. pending[myRequest] = FALSE
      BY <3>1, <2>3
    <3>3. QED BY <3>1, <3>2
  <2>6. UNCHANGED wqvars
    BY <1>3, <2>4, <2>5 DEF StartInit, wqvars, items
  <2>7. QED BY <1>a, <2>6, WqInvStutter
<1>4. CASE StartQueue
  BY <1>4, <1>a, <1>b, WqInvAction DEF StartQueue, WqAction
<1>5. CASE StartReturn
  BY <1>5, <1>a, WqInvStutter DEF StartReturn
<1>6. CASE StopCancelled \/ StopFree
  BY <1>6, <1>a, WqInvStutter DEF StopCancelled, StopFree
<1>7. CASE CleanupFlush
  BY <1>7, <1>a, <1>b, WqInvAction DEF CleanupFlush, FlushStart, WqAction
<1>8. CASE CleanupDestroy
  BY <1>8, <1>a, <1>b, WqInvAction DEF CleanupDestroy, DestroyStart, WqAction
<1>9. ASSUME NEW t \in Tracker, Body(t) PROVE WqInv'
  <2>1. CASE BodyLoad(t) \/ BodyCopy(t)
    BY <2>1, <1>a, WqInvStutter DEF BodyLoad, BodyCopy
  <2>2. CASE BodyRequeue(t)
    BY <2>2, <1>a, <1>b, WqInvAction DEF BodyRequeue, Requeue, WqAction
  <2>3. CASE BodyReturn(t)
    BY <2>3, <1>a, <1>b, WqInvAction DEF BodyReturn, CalloutDone, WqAction
  <2>4. QED BY <1>9, <2>1, <2>2, <2>3 DEF Body
<1>10. CASE WqStep
  BY <1>10, <1>a, <1>b, StepQueued, WqInvAction DEF WqAction
<1>11. QED BY <1>1, <1>2, <1>3, <1>4, <1>5, <1>6, <1>7, <1>8, <1>9, <1>10 DEF BertNext, Start, Stop

(* A cancel moves only while the caller is in it.                           *)
LEMMA CancelMoves ==
    ASSUME BertInv, NEW w \in Work, CancelSteps(w)
    PROVE  w = myRequest /\ user = "cancel" /\ cancel[myRequest].pc # "none"
BY OneWork DEF BertInv, Switches, CancelSteps, CancelGrab, CancelTimer, CancelScan, CancelRescan, CancelClear

(* It is through only at CancelClear.                                       *)
LEMMA CancelEnds ==
    ASSUME BertInv, NEW w \in Work, CancelSteps(w), cancel'[myRequest].pc = "none"
    PROVE  CancelClear(myRequest)
<1>1. w = myRequest /\ cancel \in [Work -> [pc : {"none", "grab", "timer", "scan", "asleep", "rescan", "clear"},
                                            grabbed : BOOLEAN]]
  BY CancelMoves DEF BertInv, WqInv, TypeOK
<1>2. CASE CancelGrab(myRequest)
  BY <1>1, <1>2, OneWork DEF CancelGrab
<1>3. CASE CancelTimer(myRequest)
  BY <1>1, <1>3, OneWork DEF CancelTimer
<1>4. CASE CancelScan(myRequest)
  BY <1>1, <1>4, OneWork DEF CancelScan, AfterScan
<1>5. CASE CancelRescan(myRequest)
  BY <1>1, <1>5, OneWork DEF CancelRescan, AfterScan
<1>6. QED BY <1>1, <1>2, <1>3, <1>4, <1>5 DEF CancelSteps

(* Waking the worlds that wait moves no cancel to its end, nor the bit.     *)
LEMMA WokenCancel ==
    ASSUME BertInv, WakeWaiting
    PROVE  /\ cancel'[myRequest].pc = "none" <=> cancel[myRequest].pc = "none"
           /\ cancel'[myRequest].grabbed <=> cancel[myRequest].grabbed
<1>1. cancel[myRequest] \in [pc : {"none", "grab", "timer", "scan", "asleep", "rescan", "clear"}, grabbed : BOOLEAN]
  BY OneWork DEF BertInv, WqInv, TypeOK
<1>2. cancel'[myRequest] = IF cancel[myRequest].pc = "asleep" THEN [cancel[myRequest] EXCEPT !.pc = "rescan"]
                                                              ELSE cancel[myRequest]
  BY OneWork DEF WakeWaiting
<1>3. QED BY <1>1, <1>2

(* A callout takes the work only when its bit is set.                       *)
LEMMA TakenPending ==
    ASSUME BertInv, NEW t \in Tracker, CalloutTake(t), AtRest
    PROVE  Head(head) # myRequest
<1>1. TypeOK /\ Distinct /\ Token(myRequest)
  BY OneWork DEF BertInv, WqInv, Tokens
<1>2. Head(head) \in Queue
  BY <1>1, QueueTail DEF CalloutTake
<1>3. myRequest \notin Queue
  BY <1>1 DEF AtRest, Token
<1>4. QED BY <1>2, <1>3

(* Rest lasts: the queue's own steps do not queue or run a work at rest,    *)
(* and a cancel that returns has brought the work to rest.                  *)
LEMMA RestStep == ASSUME BertInv, BertNext PROVE RestWhenOff'
<1>a. /\ RestWhenOff /\ Switches /\ TypeOK /\ Cancels
      /\ \A t \in Tracker : tracker[t].pc = "free" <=> tracker[t].item = NULL
  BY DEF BertInv, WqInv, Trackers
<1>b. tracker \in [Tracker -> [item : Item \cup {NULL}, pc : {"free", "taken", "running"}]]
  BY <1>a DEF TypeOK
<1> USE OneWork DEF RestWhenOff, Off, AtRest
<1>1. ASSUME NEW b \in Skb \cup {NULL}, StartRequest(b) PROVE RestWhenOff'
  BY <1>1, <1>a DEF StartRequest, wqvars, items, callers
<1>2. ASSUME NEW last \in BOOLEAN, StopRequest(last) PROVE RestWhenOff'
  <2>1. cancel'[myRequest].pc = "grab"
    BY <1>2, <1>a DEF StopRequest, CancelStart, Cancelling, TypeOK
  <2>2. user' = "cancel"
    BY <1>2 DEF StopRequest
  <2>3. QED BY <2>1, <2>2
<1>3. CASE StartInit
  BY <1>3, <1>a DEF StartInit, TypeOK
<1>4. CASE StartQueue
  BY <1>4 DEF StartQueue
<1>5. CASE StartReturn
  BY <1>5, <1>a DEF StartReturn, cfg, Switches
<1>6. CASE StopCancelled \/ StopFree
  BY <1>6, <1>a DEF StopCancelled, StopFree, wqvars, items
<1>7. CASE CleanupFlush \/ CleanupDestroy
  BY <1>7, <1>a DEF CleanupFlush, FlushStart, CleanupDestroy, DestroyStart, items
<1>8. ASSUME NEW t \in Tracker, Body(t) PROVE RestWhenOff'
  <2>1. CASE BodyLoad(t) \/ BodyCopy(t)
    BY <2>1, <1>a DEF BodyLoad, BodyCopy, wqvars, items, callers, cfg
  <2>2. CASE BodyRequeue(t)
    <3>1. tracker[t].item = myRequest
      BY <2>2 DEF BodyRequeue, Requeue
    <3>2. UNCHANGED <<user, on, cancel>>
      BY <2>2 DEF BodyRequeue, Requeue, Enter, cfg, callers
    <3>3. QED BY <1>a, <3>1, <3>2
  <2>3. CASE BodyReturn(t)
    <3>1. CalloutDone(t) /\ UNCHANGED <<user, on>>
      BY <2>3 DEF BodyReturn, cfg
    <3>2. cancel'[myRequest].pc = "none" <=> cancel[myRequest].pc = "none"
      BY <3>1, WokenCancel DEF CalloutDone
    <3>3. UNCHANGED pending /\ tracker' = [tracker EXCEPT ![t] = Idle]
      BY <3>1 DEF CalloutDone, items
    <3>4. \A u \in Tracker : tracker'[u].item = tracker[u].item \/ tracker'[u].item = NULL
      BY <3>3, <1>b DEF Idle
    <3>5. QED BY <1>a, <3>1, <3>2, <3>3, <3>4
  <2>4. QED BY <1>8, <2>1, <2>2, <2>3 DEF Body
<1>9. CASE WqStep /\ QueueStep
  <2>0. UNCHANGED <<user, on>>
    BY <1>9 DEF QueueStep, cfg
  <2>1. CASE UNCHANGED <<pending, cancel, tracker>>
    BY <2>0, <2>1, <1>a
  <2>2. ASSUME NEW t \in Tracker, CalloutTake(t) PROVE RestWhenOff'
    <3>1. UNCHANGED <<pending, cancel>> /\ tracker' = [tracker EXCEPT ![t] = [item |-> Head(head), pc |-> "taken"]]
      BY <2>2 DEF CalloutTake, items, callers
    <3>2. AtRest => Head(head) # myRequest
      BY <2>2, TakenPending
    <3>3. AtRest => AtRest'
      BY <1>b, <3>1, <3>2
    <3>4. QED BY <1>a, <2>0, <3>1, <3>3
  <2>3. ASSUME NEW t \in Tracker, CalloutRun(t) PROVE RestWhenOff'
    <3>1. UNCHANGED cancel /\ \A u \in Tracker : tracker'[u].item = tracker[u].item
      BY <2>3, <1>b DEF CalloutRun, callers
    <3>2. ~pending[myRequest] => ~pending'[myRequest]
      BY <2>3, <1>a DEF CalloutRun, TypeOK
    <3>3. QED BY <1>a, <2>0, <3>1, <3>2
  <2>4. ASSUME NEW w \in Work, CancelSteps(w) PROVE RestWhenOff'
    <3>1. user = "cancel"
      BY <2>4, CancelMoves
    <3>2. SUFFICES ASSUME cancel'[myRequest].pc = "none" PROVE AtRest'
      BY <2>0, <3>1
    <3>3. CancelClear(myRequest)
      BY <2>4, <3>2, CancelEnds
    <3>4. ~pending'[myRequest] /\ tracker' = tracker
      BY <3>3, <1>a DEF CancelClear, TypeOK
    <3>5. \A t \in Tracker : tracker[t].item # myRequest
      BY <3>3, <1>a DEF CancelClear, Cancels
    <3>6. QED BY <3>4, <3>5
  <2>5. QED BY <1>9, StepCases, <2>1, <2>2, <2>3, <2>4
<1>10. QED BY <1>1, <1>2, <1>3, <1>4, <1>5, <1>6, <1>7, <1>8, <1>9 DEF BertNext, Start, Stop

(* Steps of the queue that leave the trackers alone start no function.      *)
LEMMA BodyFrame == ASSUME BertInv, QueueStep, UNCHANGED tracker PROVE body' = body
BY DEF BertInv, BertTypeOK, QueueStep

(* The bodies belong to the callouts that run the work.                     *)
LEMMA BodiesStep == ASSUME BertInv, BertNext PROVE Bodies'
<1>a. /\ Bodies /\ TypeOK
      /\ \A t \in Tracker : tracker[t].pc = "free" <=> tracker[t].item = NULL
      /\ body \in [Tracker -> [pc : {"none", "send", "copy", "return"}, left : 0..Burst, using : Skb \cup {NULL}]]
  BY DEF BertInv, WqInv, Trackers, BertTypeOK
<1>b. tracker \in [Tracker -> [item : Item \cup {NULL}, pc : {"free", "taken", "running"}]]
  BY <1>a DEF TypeOK
<1> USE OneWork DEF Bodies
<1>1. ASSUME UNCHANGED <<tracker, body>> PROVE Bodies'
  BY <1>1, <1>a
<1>2. ASSUME NEW b \in Skb \cup {NULL}, StartRequest(b) PROVE UNCHANGED <<tracker, body>>
  BY <1>2 DEF StartRequest, wqvars
<1>3. ASSUME NEW last \in BOOLEAN, StopRequest(last) PROVE UNCHANGED <<tracker, body>>
  BY <1>3 DEF StopRequest, CancelStart
<1>4. ASSUME Start \/ Stop PROVE UNCHANGED <<tracker, body>>
  BY <1>4 DEF Start, StartInit, StartQueue, Enter, StartReturn, Stop, StopCancelled, StopFree,
              CleanupFlush, FlushStart, CleanupDestroy, DestroyStart, wqvars
<1>5. ASSUME NEW t \in Tracker, Body(t) PROVE Bodies'
  <2>1. CASE BodyLoad(t)
    <3>1. tracker' = tracker /\ body[t].pc = "send"
      BY <2>1 DEF BodyLoad, wqvars
    <3>2. \A u \in Tracker : u # t => body'[u] = body[u]
      BY <2>1, <1>a DEF BodyLoad
    <3>3. body'[t].pc \in {"send", "copy"}
      BY <2>1, <1>a, <3>1 DEF BodyLoad
    <3>4. QED BY <1>a, <3>1, <3>2, <3>3
  <2>2. CASE BodyCopy(t)
    BY <2>2, <1>a DEF BodyCopy, wqvars
  <2>3. CASE BodyRequeue(t)
    BY <2>3, <1>a DEF BodyRequeue, Requeue, Enter
  <2>4. CASE BodyReturn(t)
    <3>1. tracker' = [tracker EXCEPT ![t] = Idle] /\ body' = [body EXCEPT ![t] = NoBody]
      BY <2>4 DEF BodyReturn, CalloutDone
    <3>2. QED BY <1>a, <1>b, <3>1 DEF Idle, NoBody
  <2>5. QED BY <1>5, <2>1, <2>2, <2>3, <2>4 DEF Body
<1>6. CASE WqStep /\ QueueStep
  <2>1. CASE UNCHANGED tracker
    BY <1>1, <1>6, <2>1, BodyFrame
  <2>2. ASSUME NEW t \in Tracker, CalloutTake(t) PROVE Bodies'
    <3>1. tracker' = [tracker EXCEPT ![t] = [item |-> Head(head), pc |-> "taken"]] /\ tracker[t].pc = "free"
      BY <2>2 DEF CalloutTake
    <3>2. \A u \in Tracker : body'[u] = body[u]
      BY <1>6, <1>b, <3>1 DEF QueueStep
    <3>3. QED BY <1>a, <1>b, <3>1, <3>2
  <2>3. ASSUME NEW t \in Tracker, CalloutRun(t) PROVE Bodies'
    <3>1. tracker' = [tracker EXCEPT ![t].pc = "running"] /\ tracker[t].pc = "taken"
      BY <2>3 DEF CalloutRun
    <3>2. \A u \in Tracker : body'[u] = IF u = t /\ tracker[t].item = myRequest
             THEN [pc |-> "send", left |-> Burst, using |-> NULL] ELSE body[u]
      BY <1>6, <1>b, <3>1 DEF QueueStep
    <3>3. QED BY <1>a, <1>b, <3>1, <3>2
  <2>4. ASSUME NEW w \in Work, CancelSteps(w) PROVE UNCHANGED tracker
    BY <2>4 DEF CancelSteps, CancelGrab, CancelTimer, CancelScan, CancelRescan, CancelClear
  <2>5. QED BY <1>6, StepCases, <2>1, <2>2, <2>3, <2>4
<1>7. QED BY <1>1, <1>2, <1>3, <1>4, <1>5, <1>6 DEF BertNext

(* The switches by where the caller is.                                     *)
LEMMA SwitchesStep == ASSUME BertInv, BertNext PROVE Switches'
<1>a. Switches /\ TypeOK
  BY DEF BertInv, WqInv
<1> USE OneWork DEF Switches
<1>1. ASSUME NEW b \in Skb \cup {NULL}, StartRequest(b) PROVE Switches'
  BY <1>1, <1>a DEF StartRequest, wqvars, callers
<1>2. ASSUME NEW last \in BOOLEAN, StopRequest(last) PROVE Switches'
  BY <1>2, <1>a DEF StopRequest
<1>3. CASE Start
  BY <1>3, <1>a DEF Start, StartInit, StartQueue, Enter, StartReturn, wqvars, callers, cfg
<1>4. CASE Stop
  BY <1>4, <1>a DEF Stop, StopCancelled, StopFree, CleanupFlush, FlushStart, CleanupDestroy, DestroyStart,
                    wqvars, callers, cfg
<1>5. ASSUME NEW t \in Tracker, Body(t) PROVE Switches'
  <2>1. CASE BodyLoad(t) \/ BodyCopy(t) \/ BodyRequeue(t)
    BY <2>1, <1>a DEF BodyLoad, BodyCopy, BodyRequeue, Requeue, Enter, wqvars, callers, cfg
  <2>2. CASE BodyReturn(t)
    BY <2>2, <1>a, WokenCancel DEF BodyReturn, CalloutDone, cfg
  <2>3. QED BY <1>5, <2>1, <2>2 DEF Body
<1>6. CASE WqStep /\ QueueStep
  <2>0. UNCHANGED <<user, on>>
    BY <1>6 DEF QueueStep, cfg
  <2>1. CASE UNCHANGED cancel
    BY <2>0, <2>1, <1>a
  <2>2. ASSUME NEW t \in Tracker, CalloutTake(t) \/ CalloutRun(t) PROVE UNCHANGED cancel
    BY <2>2 DEF CalloutTake, CalloutRun, callers
  <2>3. ASSUME NEW w \in Work, CancelSteps(w) PROVE Switches'
    BY <2>0, <2>3, <1>a, CancelMoves
  <2>4. QED BY <1>6, StepCases, <2>1, <2>2, <2>3
<1>7. QED BY <1>1, <1>2, <1>3, <1>4, <1>5, <1>6 DEF BertNext

(* A cancel that moves has the bit if it is set while a run sends.          *)
LEMMA CancelKeepsSender ==
    ASSUME BertInv, NEW w \in Work, CancelSteps(w), pending[myRequest] => cancel[myRequest].grabbed
    PROVE  pending'[myRequest] => cancel'[myRequest].grabbed
<1>1. /\ w = myRequest /\ Cancels /\ pending \in [Work -> BOOLEAN]
      /\ cancel \in [Work -> [pc : {"none", "grab", "timer", "scan", "asleep", "rescan", "clear"}, grabbed : BOOLEAN]]
  BY CancelMoves DEF BertInv, WqInv, TypeOK
<1> USE OneWork
<1>2. CASE CancelGrab(myRequest)
  BY <1>1, <1>2 DEF CancelGrab
<1>3. CASE CancelTimer(myRequest)
  BY <1>1, <1>3 DEF CancelTimer, Cancels
<1>4. CASE CancelScan(myRequest)
  <2> DEFINE got == cancel[myRequest].grabbed \/ Found(myRequest)
  <2>1. /\ cancel' = [cancel EXCEPT ![myRequest] = [pc |-> AfterScan(myRequest, got), grabbed |-> got]]
        /\ pending' = pending /\ (cancel[myRequest].grabbed => got)
    BY <1>4 DEF CancelScan, items
  <2> HIDE DEF got
  <2>2. cancel'[myRequest].grabbed <=> got
    BY <1>1, <2>1
  <2>3. QED BY <2>1, <2>2
<1>5. CASE CancelRescan(myRequest)
  BY <1>1, <1>5 DEF CancelRescan, items
<1>6. CASE CancelClear(myRequest)
  BY <1>1, <1>6 DEF CancelClear
<1>7. QED BY <1>1, <1>2, <1>3, <1>4, <1>5, <1>6 DEF CancelSteps

(* One sender: the bit is clear while it sends, so nobody else can take the *)
(* work; it sets the bit when it does not send any longer.                  *)
LEMMA SendersStep == ASSUME BertInv, BertNext PROVE Senders'
<1>a. /\ Senders /\ TypeOK /\ RestWhenOff
      /\ body \in [Tracker -> [pc : {"none", "send", "copy", "return"}, left : 0..Burst, using : Skb \cup {NULL}]]
  BY DEF BertInv, WqInv, BertTypeOK
<1>b. tracker \in [Tracker -> [item : Item \cup {NULL}, pc : {"free", "taken", "running"}]]
  BY <1>a DEF TypeOK
<1>c. ASSUME AtRest, body' = body PROVE Senders'
  BY <1>c, RestNoBody DEF Senders, Sending
<1>d. ASSUME body' = body, pending' = pending, cancel'[myRequest].grabbed <=> cancel[myRequest].grabbed
      PROVE  Senders'
  BY <1>a, <1>d DEF Senders, Sending
<1> USE OneWork
<1>1. ASSUME NEW b \in Skb \cup {NULL}, StartRequest(b) PROVE Senders'
  BY <1>1, <1>d DEF StartRequest, wqvars, items, callers
<1>2. ASSUME NEW last \in BOOLEAN, StopRequest(last) PROVE Senders'
  <2>1. cancel' = [cancel EXCEPT ![myRequest].pc = "grab"] /\ body' = body /\ pending' = pending
    BY <1>2 DEF StopRequest, CancelStart, Cancelling, items
  <2>2. cancel'[myRequest].grabbed <=> cancel[myRequest].grabbed
    BY <2>1, <1>a DEF TypeOK
  <2>3. QED BY <2>1, <2>2, <1>d
<1>3. CASE StartInit \/ StartQueue
  BY <1>3, <1>a, <1>c DEF StartInit, StartQueue, RestWhenOff, Off
<1>4. CASE StartReturn \/ Stop
  BY <1>4, <1>d DEF StartReturn, Stop, StopCancelled, StopFree, CleanupFlush, FlushStart,
                    CleanupDestroy, DestroyStart, wqvars, items, callers
<1>5. ASSUME NEW t \in Tracker, Body(t) PROVE Senders'
  <2>1. CASE BodyLoad(t) \/ BodyCopy(t)
    <3>1. UNCHANGED <<pending, cancel>>
      BY <2>1 DEF BodyLoad, BodyCopy, wqvars, items, callers
    <3>2. \A u \in Tracker : u # t => body'[u] = body[u]
      BY <2>1, <1>a DEF BodyLoad, BodyCopy
    <3>3. body[t].pc \in {"send", "copy"} /\ body'[t].pc \in {"send", "copy"}
      <4>1. CASE BodyLoad(t)
        <5>1. body[t].pc = "send"
          BY <4>1 DEF BodyLoad
        <5>2. body'[t].pc \in {"send", "copy"}
          BY <4>1, <5>1, <1>a DEF BodyLoad
        <5>3. QED BY <5>1, <5>2
      <4>2. CASE BodyCopy(t)
        BY <4>2, <1>a DEF BodyCopy
      <4>3. QED BY <2>1, <4>1, <4>2
    <3>4. \A u \in Tracker : Sending(u)' <=> Sending(u)
      BY <3>2, <3>3 DEF Sending
    <3>5. QED BY <1>a, <3>1, <3>4 DEF Senders
  <2>2. CASE BodyRequeue(t)
    <3>1. Sending(t) /\ body' = [body EXCEPT ![t].pc = "return"]
      BY <2>2 DEF BodyRequeue, Sending
    <3>2. \A u \in Tracker : ~Sending(u)'
      BY <1>a, <3>1 DEF Senders, Sending
    <3>3. QED BY <3>2 DEF Senders
  <2>3. CASE BodyReturn(t)
    <3>1. /\ pending' = pending /\ WakeWaiting
          /\ body' = [body EXCEPT ![t] = NoBody]
      BY <2>3 DEF BodyReturn, CalloutDone, items
    <3>2. cancel'[myRequest].grabbed <=> cancel[myRequest].grabbed
      BY <3>1, WokenCancel
    <3>3. \A u \in Tracker : Sending(u)' => Sending(u)
      BY <1>a, <3>1 DEF Sending, NoBody
    <3>4. QED BY <1>a, <3>1, <3>2, <3>3 DEF Senders
  <2>4. QED BY <1>5, <2>1, <2>2, <2>3 DEF Body
<1>6. CASE WqStep /\ QueueStep
  <2>1. CASE UNCHANGED <<pending, cancel, tracker>>
    BY <1>6, <2>1, <1>d, BodyFrame
  <2>2. ASSUME NEW t \in Tracker, CalloutTake(t) PROVE Senders'
    <3>1. /\ tracker' = [tracker EXCEPT ![t] = [item |-> Head(head), pc |-> "taken"]] /\ tracker[t].pc = "free"
          /\ UNCHANGED <<pending, cancel>>
      BY <2>2 DEF CalloutTake, items, callers
    <3>2. \A u \in Tracker : body'[u] = body[u]
      BY <1>6, <1>b, <3>1 DEF QueueStep
    <3>3. QED BY <1>a, <3>1, <3>2 DEF Senders, Sending
  <2>3. ASSUME NEW t \in Tracker, CalloutRun(t) PROVE Senders'
    <3>1. tracker' = [tracker EXCEPT ![t].pc = "running"] /\ tracker[t].pc = "taken" /\ cancel' = cancel
      BY <2>3 DEF CalloutRun, callers
    <3>2. \A u \in Tracker : body'[u] = IF u = t /\ tracker[t].item = myRequest
             THEN [pc |-> "send", left |-> Burst, using |-> NULL] ELSE body[u]
      BY <1>6, <1>b, <3>1 DEF QueueStep
    <3>3. CASE tracker[t].item = myRequest
      <4>1. Token(myRequest) /\ TakenBy(t, myRequest)
        BY <3>1, <3>3 DEF BertInv, WqInv, Tokens, TakenBy
      <4>2. pending[myRequest] /\ ~cancel[myRequest].grabbed
        BY <4>1 DEF Token, NotTaken
      <4>3. \A u \in Tracker : ~Sending(u)
        BY <1>a, <4>2 DEF Senders
      <4>4. ~pending'[myRequest]
        BY <2>3, <3>3, <1>a DEF CalloutRun, TypeOK
      <4>5. \A u \in Tracker : Sending(u)' => u = t
        BY <3>2, <4>3 DEF Sending
      <4>6. QED BY <4>4, <4>5 DEF Senders
    <3>4. CASE tracker[t].item # myRequest
      <4>1. pending' = pending
        BY <2>3, <3>4 DEF CalloutRun
      <4>2. QED BY <1>a, <3>1, <3>2, <3>4, <4>1 DEF Senders, Sending
    <3>5. QED BY <3>3, <3>4
  <2>4. ASSUME NEW w \in Work, CancelSteps(w) PROVE Senders'
    <3>1. UNCHANGED tracker
      BY <2>4 DEF CancelSteps, CancelGrab, CancelTimer, CancelScan, CancelRescan, CancelClear
    <3>2. body' = body
      BY <1>6, <3>1, BodyFrame
    <3>3. QED BY <1>a, <2>4, <3>2, CancelKeepsSender DEF Senders, Sending
  <2>5. QED BY <1>6, StepCases, <2>1, <2>2, <2>3, <2>4
<1>7. QED BY <1>1, <1>2, <1>3, <1>4, <1>5, <1>6 DEF BertNext, Start

(* The packet: built when the work is at rest, freed when it is at rest, so *)
(* it is there, and the same one, for as long as a run works with it.       *)
LEMMA PacketStep == ASSUME BertInv, BertNext PROVE Packet'
<1>a. /\ Packet /\ RestWhenOff /\ BertTypes
  BY DEF BertInv, BertTypeOK, BertTypes
<1>b. tracker \in [Tracker -> [item : Item \cup {NULL}, pc : {"free", "taken", "running"}]]
  BY DEF BertInv, WqInv, TypeOK
<1> USE OneWork DEF Packet
<1>1. ASSUME NEW b \in Skb \cup {NULL}, StartRequest(b) PROVE Packet'
  <2>1. AtRest /\ body' = body
    BY <1>1, <1>a DEF StartRequest, RestWhenOff, Off
  <2>2. \A t \in Tracker : body'[t].pc # "copy"
    BY <2>1, RestNoBody
  <2>3. QED BY <1>1, <1>a, <2>2 DEF StartRequest
<1>2. ASSUME NEW last \in BOOLEAN, StopRequest(last) PROVE Packet'
  BY <1>2, <1>a DEF StopRequest
<1>3. CASE Start
  <2>1. StartReturn => on
    BY DEF StartReturn, BertInv, Switches
  <2>2. QED BY <1>3, <1>a, <2>1 DEF Start, StartInit, StartQueue, StartReturn, cfg
<1>4. CASE StopFree
  <2>1. AtRest /\ body' = body
    BY <1>4, <1>a DEF StopFree, RestWhenOff, Off
  <2>2. \A t \in Tracker : body'[t].pc # "copy"
    BY <2>1, RestNoBody
  <2>3. live' = {} /\ skb' = NULL /\ ~cfgOn'
    BY <1>4, <1>a DEF StopFree
  <2>4. QED BY <2>2, <2>3
<1>5. CASE StopCancelled \/ CleanupFlush \/ CleanupDestroy
  BY <1>5, <1>a DEF StopCancelled, CleanupFlush, CleanupDestroy, cfg
<1>6. ASSUME NEW t \in Tracker, Body(t) PROVE Packet'
  <2>0. UNCHANGED <<on, cfgOn, skb, live, user>>
    BY <1>6 DEF Body, BodyLoad, BodyCopy, BodyRequeue, BodyReturn, cfg
  <2>1. ASSUME \A u \in Tracker : body'[u].pc = "copy" => body'[u].using = skb /\ skb # NULL /\ body'[u].left > 0
        PROVE  Packet'
    BY <1>a, <2>0, <2>1
  <2>2. CASE BodyLoad(t)
    <3>1. \A u \in Tracker : u # t => body'[u] = body[u]
      BY <2>2, <1>a DEF BodyLoad, BertTypes
    <3>2. body[t] \in [pc : {"none", "send", "copy", "return"}, left : 0..Burst, using : Skb \cup {NULL}]
      BY <1>a DEF BertTypes
    <3>3. body'[t] = IF skb = NULL THEN [body[t] EXCEPT !.left = body[t].left - 1]
                     ELSE [body[t] EXCEPT !.pc = "copy", !.using = skb]
      BY <2>2, <1>a DEF BodyLoad, BertTypes
    <3>4. body'[t].pc = "copy" => body'[t].using = skb /\ skb # NULL /\ body'[t].left > 0
      BY <2>2, <3>2, <3>3 DEF BodyLoad
    <3>5. QED BY <1>a, <2>1, <3>1, <3>4
  <2>3. CASE BodyCopy(t)
    BY <1>a, <2>1, <2>3 DEF BodyCopy, BertTypes
  <2>4. CASE BodyRequeue(t)
    BY <1>a, <2>1, <2>4 DEF BodyRequeue, BertTypes
  <2>5. CASE BodyReturn(t)
    BY <1>a, <2>1, <2>5 DEF BodyReturn, NoBody, BertTypes
  <2>6. QED BY <1>6, <2>2, <2>3, <2>4, <2>5 DEF Body
<1>7. CASE QueueStep
  <2>1. UNCHANGED <<on, cfgOn, skb, live, user>>
    BY <1>7 DEF QueueStep, cfg
  <2>2. \A t \in Tracker : body'[t].pc = "copy" => body'[t] = body[t]
    BY <1>7 DEF QueueStep
  <2>3. QED BY <1>a, <2>1, <2>2
<1>8. QED BY <1>1, <1>2, <1>3, <1>4, <1>5, <1>6, <1>7 DEF BertNext, Stop

-----------------------------------------------------------------------------
(* The requester and its queue keep their invariant, under any interleaving *)
(* of the ioctls, the helper worlds and the timer.                          *)
THEOREM BertInvariant == BertSpec => []BertInv
<1>1. BertInit => BertInv
  <2> SUFFICES ASSUME BertInit PROVE BertInv
    OBVIOUS
  <2>1. WqInv /\ TypeOK
    BY WqInvInit DEF BertInit, WqInv
  <2>2. BertTypeOK
    <3>1. NoBody \in [pc : {"none", "send", "copy", "return"}, left : 0..Burst, using : Skb \cup {NULL}]
      BY OneWork DEF NoBody
    <3>2. QED BY <2>1, <3>1 DEF BertInit, BertTypeOK
  <2>3. RestWhenOff /\ Bodies /\ Senders /\ Switches /\ Packet
    BY OneWork DEF BertInit, WqInit, RestWhenOff, AtRest, Bodies, Senders, Sending, Switches, Packet,
                   NoBody, Idle, NoCancel
  <2>4. QED BY <2>1, <2>2, <2>3 DEF BertInv
<1>2. BertInv /\ [BertNext]_bvars => BertInv'
  <2> SUFFICES ASSUME BertInv, [BertNext]_bvars PROVE BertInv'
    OBVIOUS
  <2>1. CASE BertNext
    <3>1. WqInv' /\ TypeOK'
      BY <2>1, BertQueue DEF WqInv
    <3>2. BertTypeOK'
      BY <2>1, <3>1, BertTypeStep DEF BertTypes, BertTypeOK
    <3>3. QED BY <2>1, <3>1, <3>2, RestStep, BodiesStep, SendersStep, SwitchesStep, PacketStep DEF BertInv
  <2>2. CASE UNCHANGED bvars
    <3>1. WqInv' /\ TypeOK'
      BY <2>2, WqInvStutter DEF BertInv, WqInv, bvars
    <3>2. UNCHANGED <<pending, tracker, cancel, on, cfgOn, skb, live, user, cleaning, body>>
      BY <2>2 DEF bvars, wqvars, items, callers
    <3>3. BertTypeOK'
      BY <3>1, <3>2 DEF BertInv, BertTypeOK
    <3>4. RestWhenOff' /\ Bodies' /\ Senders' /\ Switches' /\ Packet'
      BY <3>2 DEF BertInv, RestWhenOff, Off, AtRest, Bodies, Senders, Sending, Switches, Packet
    <3>5. QED BY <3>1, <3>3, <3>4 DEF BertInv
  <2>3. QED BY <2>1, <2>2
<1>3. QED BY <1>1, <1>2, PTL DEF BertSpec

(* The packet of a test stays allocated while bert_request_main() works     *)
(* with it: the stop frees it only after cancel_delayed_work_sync().        *)
THEOREM PacketAliveAlways == BertSpec => []PacketAlive
<1>1. BertInv => PacketAlive
  BY DEF BertInv, Packet, PacketAlive
<1>2. QED BY <1>1, BertInvariant, PTL

(* ixgbe_wfs_bert_start_request() finds the work idle and the packet freed. *)
THEOREM StartsCleanAlways == BertSpec => []StartsClean
<1>1. BertInv => StartsClean
  BY RestIsIdle DEF BertInv, RestWhenOff, Off, Packet, StartsClean
<1>2. QED BY <1>1, BertInvariant, PTL

(* Two helper worlds never send the packets of a test at the same time.     *)
THEOREM OneSenderAlways == BertSpec => []OneSender
<1>1. BertInv => OneSender
  BY DEF BertInv, Senders, Sending, OneSender
<1>2. QED BY <1>1, BertInvariant, PTL
=============================================================================
