---------------------------- MODULE VmkWorkqueue ----------------------------
(***************************************************************************)
(* One work queue of vmklinux (linux_workqueue.c), on which the driver's   *)
(* service tasks and the BERT requester run: work items and their delay    *)
(* timers, the requests posted to the vmkernel's helper worlds, the        *)
(* trackers of the callouts in progress, and the worlds that cancel work,  *)
(* flush the queue and destroy it.                                         *)
(*                                                                         *)
(* Every critical section of wqLock is one step; what the code does before *)
(* or after it, without the lock, is a step of its own.  The fields that   *)
(* only count a list (qLen, curDispatch, waiting) are the sizes of the     *)
(* lists.                                                                  *)
(***************************************************************************)
EXTENDS Integers, Sequences, FiniteSets

CONSTANTS
    Work,          \* the work_structs used with this queue
    Delayed,       \* those that are delayed_works, with a timer
    World,         \* worlds that flush or destroy the queue
    maxDispatch,   \* most callouts at a time
    NULL,
    UncountPrompt, \* a refused request is uncounted before delayTimer fires
    MaxQueued      \* bound: calls of queue_work and queue_delayed_work

Nat1 == Nat \ {0}

ASSUME WorkqueueAssumption ==
    /\ Delayed \subseteq Work /\ Work \cap World = {}
    /\ NULL \notin Work \cup World /\ NULL \notin [how : {"now", "delayed"}, by : Nat]
    /\ maxDispatch \in Nat1 /\ MaxQueued \in Nat /\ UncountPrompt \in BOOLEAN

Tracker == 1..maxDispatch
Item    == Work \cup World       \* a world stands for the plunger of its flush

VARIABLES
    pending,     \* __WORK_PENDING of each work
    timer,       \* the timer of each delayed work: "off", "armed" or "firing"
    entering,    \* who is between setting pending and adding the work: NULL,
                 \* or [how, by] with by the tracker of the callout, 0 for others
    head,        \* the queue
    tracker,     \* what each tracker's callout executes, and how far it is
    trackFlush,  \* trackFlushList; the other busy trackers are on trackList
    curPosted,
    posting,     \* requests counted in curPosted and not submitted yet
    failing,     \* requests refused by the helper and not uncounted yet
    requests,    \* requests the helper has accepted
    delayTimer,  \* TRUE while armed
    cancel,      \* the cancel_work_sync() of each work: [pc, grabbed]
    flush,       \* where each world is in flush_workqueue or destroy_workqueue
    flushMutex,  \* NULL or the world that holds it
    setExitFlag,
    owing,       \* history: callouts each flush has to wait for
    queued       \* calls of queue_work and queue_delayed_work, at most MaxQueued

items   == <<pending, timer, entering>>
posts   == <<curPosted, posting, failing, requests, delayTimer>>
callers == <<cancel, flush, flushMutex, setExitFlag>>
wqvars  == <<items, head, tracker, trackFlush, posts, callers, owing, queued>>

Idle == [item |-> NULL, pc |-> "free"]
NoCancel == [pc |-> "none", grabbed |-> FALSE]

Busy        == {t \in Tracker : tracker[t].pc # "free"}
curDispatch == Cardinality(Busy)
Executing(i) == {t \in Tracker : tracker[t].item = i}
OnQueue(i)  == \E n \in DOMAIN head : head[n] = i

TypeOK ==
    /\ pending \in [Work -> BOOLEAN]
    /\ timer \in [Work -> {"off", "armed", "firing"}]
    /\ entering \in [Work -> {NULL} \cup [how : {"now", "delayed"}, by : {0} \cup Tracker]]
    /\ head \in Seq(Item)
    /\ tracker \in [Tracker -> [item : Item \cup {NULL}, pc : {"free", "taken", "running"}]]
    /\ trackFlush \subseteq Tracker
    /\ curPosted \in Nat /\ posting \in Nat /\ failing \in Nat /\ requests \in Nat
    /\ delayTimer \in BOOLEAN /\ setExitFlag \in BOOLEAN
    /\ cancel \in [Work -> [pc : {"none", "grab", "timer", "scan", "asleep", "rescan", "clear"},
                            grabbed : BOOLEAN]]
    /\ flush \in [World -> {"none", "lock", "plunge", "drain", "asleep", "flushed",
                            "posted", "asleepPosted", "deltimer", "gone"}]
    /\ flushMutex \in World \cup {NULL}
    /\ owing \in [World -> SUBSET Tracker]
    /\ queued \in 0..MaxQueued

-----------------------------------------------------------------------------
(* Mutant: what is posted already is not subtracted from the room.          *)
PostDeficitFull(n, d, p) ==
    LET room == maxDispatch - d
        want == n - p
        deficit == IF room < want THEN room ELSE want
    IN  IF deficit <= 0 THEN 0 ELSE deficit

(* vmklnx_workqueue_dispatch(), under wqLock: count the requests that are   *)
(* missing for a queue of length n with d callouts in progress and p posted *)
(* already.  They are submitted once the lock is dropped.                   *)
PostDeficit(n, d, p) ==
    LET room == maxDispatch - (d + p)
        want == n - p
        deficit == IF room < want THEN room ELSE want
    IN  IF deficit <= 0 THEN 0 ELSE deficit

Dispatch(n, d, p) ==
    /\ curPosted' = p + PostDeficit(n, d, p)
    /\ posting' = posting + PostDeficit(n, d, p)

(* One vmk_HelperSubmitRequest() ...                                        *)
Submit ==
    /\ posting > 0
    /\ posting' = posting - 1 /\ requests' = requests + 1
    /\ UNCHANGED <<items, head, tracker, trackFlush, curPosted, failing, delayTimer, callers, owing, queued>>

(* Mutant: no timer is armed for the requests that were refused.            *)
SubmitFailsNoTimer(k) ==
    /\ k \in 1..posting
    /\ posting' = posting - k /\ failing' = failing + k
    /\ UNCHANGED <<items, head, tracker, trackFlush, curPosted, requests, delayTimer, callers, owing, queued>>

(* ... or the helper takes no more: a timer will try again for the k left   *)
(* in this loop, and ...                                                    *)
SubmitFails(k) ==
    /\ k \in 1..posting
    /\ posting' = posting - k /\ failing' = failing + k /\ delayTimer' = TRUE
    /\ UNCHANGED <<items, head, tracker, trackFlush, curPosted, requests, callers, owing, queued>>

(* Mutant: only the worlds in cancel are woken.                             *)
WakeCancels ==
    /\ cancel' = [w \in Work |-> IF cancel[w].pc = "asleep" THEN [cancel[w] EXCEPT !.pc = "rescan"]
                                                            ELSE cancel[w]]
    /\ UNCHANGED flush

(* vmk_WorldWakeup() of the worlds waiting for a callout to end, and of one *)
(* waiting for the posted requests.                                         *)
WakeWaiting ==
    /\ cancel' = [w \in Work |-> IF cancel[w].pc = "asleep" THEN [cancel[w] EXCEPT !.pc = "rescan"]
                                                            ELSE cancel[w]]
    /\ flush' = [d \in World |-> IF flush[d] = "asleep" THEN "drain" ELSE flush[d]]
WakePosted ==
    /\ flush' = [d \in World |-> IF flush[d] = "asleepPosted" /\ setExitFlag /\ curPosted' = 0
                                 THEN "posted" ELSE flush[d]]
    /\ UNCHANGED cancel

(* ... the requests it did not get are not counted any longer.              *)
Uncount(k) ==
    /\ k \in 1..failing
    /\ failing' = failing - k /\ curPosted' = curPosted - k
    /\ WakePosted
    /\ UNCHANGED <<items, head, tracker, trackFlush, posting, requests, delayTimer, flushMutex, setExitFlag, owing, queued>>

(* vmklnx_workqueue_timeout(), VMKLNX_MAX_QBLOCK_TIME later                 *)
Timeout ==
    /\ delayTimer /\ delayTimer' = FALSE
    /\ UncountPrompt => failing = 0
    /\ Dispatch(Len(head), curDispatch, curPosted)
    /\ UNCHANGED <<items, head, tracker, trackFlush, failing, requests, callers, owing, queued>>

(* __queue_work()                                                           *)
AddToQueue(i) ==
    /\ head' = Append(head, i)
    /\ Dispatch(Len(head) + 1, curDispatch, curPosted)
    /\ UNCHANGED <<failing, requests, delayTimer, tracker, trackFlush>>

-----------------------------------------------------------------------------
(* Mutant: the bit is set without a look at what it was.                    *)
EnterNoTest(w, how, by) ==
    /\ ~setExitFlag /\ (how = "delayed" => w \in Delayed)
    /\ pending' = [pending EXCEPT ![w] = TRUE]
    /\ entering' = [entering EXCEPT ![w] = [how |-> how, by |-> by]]
    /\ UNCHANGED <<timer, head, tracker, trackFlush, posts, callers, owing>>

(* queue_work() and queue_delayed_work(), called from outside (by = 0) or   *)
(* by the callout of tracker by.  A work that is pending is left alone.     *)
(* queue_work() refuses work for a queue that is being destroyed; that      *)
(* queue_delayed_work() is not called then is up to the callers.            *)
Enter(w, how, by) ==
    /\ ~setExitFlag
    /\ how = "delayed" => w \in Delayed
    /\ IF pending[w] THEN UNCHANGED <<pending, entering>>
       ELSE /\ pending' = [pending EXCEPT ![w] = TRUE]
            /\ entering' = [entering EXCEPT ![w] = [how |-> how, by |-> by]]
    /\ UNCHANGED <<timer, head, tracker, trackFlush, posts, callers, owing>>

Count == queued < MaxQueued /\ queued' = queued + 1

(* The work's function queues its own work again.                           *)
Requeue(t, how) ==
    /\ tracker[t].pc = "running" /\ tracker[t].item \in Work
    /\ \A w \in Work : entering[w] # NULL => entering[w].by # t
    /\ Enter(tracker[t].item, how, t)

(* The second half of queue_work() ...                                      *)
EnterNow(w) ==
    /\ entering[w] # NULL /\ entering[w].how = "now"
    /\ entering' = [entering EXCEPT ![w] = NULL]
    /\ AddToQueue(w)
    /\ UNCHANGED <<pending, timer, callers, owing, queued>>

(* ... and of queue_delayed_work().                                         *)
EnterDelayed(w) ==
    /\ entering[w] # NULL /\ entering[w].how = "delayed"
    /\ entering' = [entering EXCEPT ![w] = NULL]
    /\ timer' = [timer EXCEPT ![w] = "armed"]
    /\ UNCHANGED <<pending, head, tracker, trackFlush, posts, callers, owing, queued>>

(* The delay is over, delayed_work_timer_fn() runs and queues the work.     *)
TimerFires(w) ==
    /\ timer[w] = "armed" /\ timer' = [timer EXCEPT ![w] = "firing"]
    /\ UNCHANGED <<pending, entering, head, tracker, trackFlush, posts, callers, owing, queued>>

delayed_work_timer_fn(w) ==
    /\ timer[w] = "firing" /\ timer' = [timer EXCEPT ![w] = "off"]
    /\ AddToQueue(w)
    /\ UNCHANGED <<pending, entering, callers, owing, queued>>

-----------------------------------------------------------------------------
(* vmklnx_workqueue_callout(), in a helper world.  Nothing left to do: the  *)
(* item was cancelled after the request was posted.                         *)
CalloutEmpty ==
    /\ requests > 0 /\ head = <<>>
    /\ requests' = requests - 1 /\ curPosted' = curPosted - 1
    /\ WakePosted
    /\ UNCHANGED <<items, head, tracker, trackFlush, posting, failing, delayTimer, flushMutex, setExitFlag, owing, queued>>

(* Take the first item; flushes whose plunger is still behind it wait for   *)
(* this callout.  (The return for curDispatch >= maxDispatch is never       *)
(* taken: Capacity.)                                                        *)
CalloutTake(t) ==
    /\ requests > 0 /\ head # <<>>
    /\ tracker[t].pc = "free"
    /\ requests' = requests - 1 /\ curPosted' = curPosted - 1
    /\ head' = Tail(head)
    /\ tracker' = [tracker EXCEPT ![t] = [item |-> Head(head), pc |-> "taken"]]
    /\ owing' = [d \in World |-> IF \E n \in 2..Len(head) : head[n] = d
                                 THEN owing[d] \cup {t} ELSE owing[d]]
    /\ UNCHANGED <<items, trackFlush, posting, failing, delayTimer, callers, queued>>

(* "Clear the pending bit, as technically, we're now executing."            *)
CalloutRun(t) ==
    /\ tracker[t].pc = "taken"
    /\ tracker' = [tracker EXCEPT ![t].pc = "running"]
    /\ pending' = IF tracker[t].item \in Work THEN [pending EXCEPT ![tracker[t].item] = FALSE] ELSE pending
    /\ UNCHANGED <<timer, entering, head, trackFlush, posts, callers, owing, queued>>

(* Mutant: the plunger completes without moving the trackList.              *)
PlungerCompleteNoSplice(t) ==
    /\ tracker[t].pc = "running" /\ tracker[t].item \in World
    /\ flush[tracker[t].item] = "plunge"
    /\ flush' = [flush EXCEPT ![tracker[t].item] = "drain"]
    /\ UNCHANGED <<items, head, tracker, trackFlush, posts, cancel, flushMutex, setExitFlag, owing, queued>>

(* vmklnx_plunger_complete(): the trackList moves to the trackFlushList,    *)
(* and the flushing world goes on.                                          *)
PlungerComplete(t) ==
    /\ tracker[t].pc = "running" /\ tracker[t].item \in World
    /\ flush[tracker[t].item] = "plunge"
    /\ trackFlush' = Busy
    /\ flush' = [flush EXCEPT ![tracker[t].item] = "drain"]
    /\ UNCHANGED <<items, head, tracker, posts, cancel, flushMutex, setExitFlag, owing, queued>>

(* Mutant: a callout ends without posting for what is left on the queue.    *)
CalloutDoneNoDispatch(t) ==
    /\ tracker[t].pc = "running"
    /\ tracker[t].item \in World => flush[tracker[t].item] # "plunge"
    /\ \A w \in Work : entering[w] # NULL => entering[w].by # t
    /\ tracker' = [tracker EXCEPT ![t] = Idle]
    /\ trackFlush' = trackFlush \ {t}
    /\ owing' = [d \in World |-> owing[d] \ {t}]
    /\ WakeWaiting
    /\ UNCHANGED <<items, head, posts, flushMutex, setExitFlag, queued>>

(* The function has returned: release the tracker, wake who waits, and post *)
(* what is missing.                                                         *)
CalloutDone(t) ==
    /\ tracker[t].pc = "running"
    /\ tracker[t].item \in World => flush[tracker[t].item] # "plunge"
    /\ \A w \in Work : entering[w] # NULL => entering[w].by # t
    /\ tracker' = [tracker EXCEPT ![t] = Idle]
    /\ trackFlush' = trackFlush \ {t}
    /\ owing' = [d \in World |-> owing[d] \ {t}]
    /\ WakeWaiting
    /\ Dispatch(Len(head), curDispatch - 1, curPosted)
    /\ UNCHANGED <<items, head, failing, requests, delayTimer, flushMutex, setExitFlag, queued>>

-----------------------------------------------------------------------------
(* cancel_work_sync() and cancel_delayed_work_sync()                        *)

Cancelling(w, from, to) ==
    /\ cancel[w].pc = from /\ cancel' = [cancel EXCEPT ![w].pc = to]

CancelStart(w) ==
    /\ ~setExitFlag /\ Cancelling(w, "none", "grab")
    /\ UNCHANGED <<items, head, tracker, trackFlush, posts, flush, flushMutex, setExitFlag, owing, queued>>

(* "try to grab the pending bit directly"                                   *)
CancelGrab(w) ==
    /\ cancel[w].pc = "grab"
    /\ IF ~pending[w]
       THEN /\ pending' = [pending EXCEPT ![w] = TRUE]
            /\ cancel' = [cancel EXCEPT ![w] = [pc |-> "scan", grabbed |-> TRUE]]
       ELSE /\ cancel' = [cancel EXCEPT ![w].pc = IF w \in Delayed THEN "timer" ELSE "scan"]
            /\ UNCHANGED pending
    /\ UNCHANGED <<timer, entering, head, tracker, trackFlush, posts, flush, flushMutex, setExitFlag, owing, queued>>

(* "try to grab pending from the timer": del_timer_sync() waits for a       *)
(* handler that is running.                                                 *)
CancelTimer(w) ==
    /\ cancel[w].pc = "timer" /\ timer[w] # "firing"
    /\ timer' = [timer EXCEPT ![w] = "off"]
    /\ cancel' = [cancel EXCEPT ![w] = [pc |-> "scan", grabbed |-> timer[w] = "armed"]]
    /\ UNCHANGED <<pending, entering, head, tracker, trackFlush, posts, flush, flushMutex, setExitFlag, owing, queued>>

(* With no callout of w left: done if the bit is ours, else try again       *)
(* (after a nap when nobody woke us).                                       *)
AfterScan(w, grabbed) ==
    IF Executing(w) # {} THEN "asleep" ELSE IF grabbed THEN "clear" ELSE "grab"

(* list_del_init() of the n-th entry of the queue.                          *)
WithoutEntry(n) == SubSeq(head, 1, n - 1) \o SubSeq(head, n + 1, Len(head))

(* The entry of w, if it is on the queue, is taken off it.                  *)
Found(w)  == pending[w] /\ OnQueue(w)
TakeOff(w) == IF Found(w) THEN \E n \in DOMAIN head : head[n] = w /\ head' = WithoutEntry(n)
                          ELSE UNCHANGED head

(* Mutant: whoever grabbed the bit does not look for callouts.              *)
CancelScanNoWait(w) ==
    LET got == cancel[w].grabbed \/ Found(w)
    IN  /\ cancel[w].pc = "scan" /\ TakeOff(w)
        /\ cancel' = [cancel EXCEPT ![w] = [pc |-> IF got THEN "clear" ELSE AfterScan(w, got), grabbed |-> got]]
        /\ UNCHANGED <<items, tracker, trackFlush, posts, flush, flushMutex, setExitFlag, owing, queued>>

(* "try to grab pending from the work queue", and "scan the trackList for   *)
(* our work structure".                                                     *)
CancelScan(w) ==
    LET got == cancel[w].grabbed \/ Found(w)
    IN  /\ cancel[w].pc = "scan" /\ TakeOff(w)
        /\ cancel' = [cancel EXCEPT ![w] = [pc |-> AfterScan(w, got), grabbed |-> got]]
        /\ UNCHANGED <<items, tracker, trackFlush, posts, flush, flushMutex, setExitFlag, owing, queued>>

CancelRescan(w) ==
    /\ cancel[w].pc = "rescan"
    /\ cancel' = [cancel EXCEPT ![w].pc = AfterScan(w, cancel[w].grabbed)]
    /\ UNCHANGED <<items, head, tracker, trackFlush, posts, flush, flushMutex, setExitFlag, owing, queued>>

(* clear_bit(__WORK_PENDING), and return.                                   *)
CancelClear(w) ==
    /\ cancel[w].pc = "clear"
    /\ pending' = [pending EXCEPT ![w] = FALSE]
    /\ cancel' = [cancel EXCEPT ![w] = NoCancel]
    /\ UNCHANGED <<timer, entering, head, tracker, trackFlush, posts, flush, flushMutex, setExitFlag, owing, queued>>

-----------------------------------------------------------------------------
(* flush_workqueue()                                                        *)

FlushStart(d) ==
    /\ ~setExitFlag /\ flush[d] = "none" /\ flush' = [flush EXCEPT ![d] = "lock"]
    /\ UNCHANGED <<items, head, tracker, trackFlush, posts, cancel, flushMutex, setExitFlag, owing, queued>>

FlushLock(d) ==
    /\ flush[d] = "lock" /\ flushMutex = NULL
    /\ flushMutex' = d /\ flush' = [flush EXCEPT ![d] = "plunge"]
    /\ AddToQueue(d)
    /\ owing' = [owing EXCEPT ![d] = Busy]
    /\ UNCHANGED <<items, cancel, setExitFlag, queued>>

(* "Wait for the trackFlushList to drain out"                               *)
FlushDrain(d) ==
    /\ flush[d] = "drain"
    /\ IF trackFlush # {} THEN flush' = [flush EXCEPT ![d] = "asleep"] /\ UNCHANGED flushMutex
       ELSE flush' = [flush EXCEPT ![d] = "flushed"] /\ flushMutex' = NULL
    /\ UNCHANGED <<items, head, tracker, trackFlush, posts, cancel, setExitFlag, owing, queued>>

FlushReturn(d) ==
    /\ flush[d] = "flushed" /\ ~setExitFlag /\ flush' = [flush EXCEPT ![d] = "none"]
    /\ UNCHANGED <<items, head, tracker, trackFlush, posts, cancel, flushMutex, setExitFlag, owing, queued>>

(* destroy_workqueue(), called when no work is pending or executing and     *)
(* nobody cancels or flushes, as its comment asks.                          *)
Quiet ==
    /\ \A w \in Work : ~pending[w] /\ Executing(w) = {} /\ cancel[w] = NoCancel
    /\ \A d \in World : flush[d] = "none"

DestroyStart(d) ==
    /\ Quiet /\ ~setExitFlag /\ setExitFlag' = TRUE
    /\ flush' = [flush EXCEPT ![d] = "lock"]
    /\ UNCHANGED <<items, head, tracker, trackFlush, posts, cancel, flushMutex, owing, queued>>

(* Mutant: the posted requests are not waited for.                          *)
DestroyNoWait(d) ==
    /\ setExitFlag /\ flush[d] \in {"flushed", "posted"}
    /\ flush' = [flush EXCEPT ![d] = "deltimer"]
    /\ UNCHANGED <<items, head, tracker, trackFlush, posts, cancel, flushMutex, setExitFlag, owing, queued>>

(* "Wait for all helping Q postings to drain out."                          *)
DestroyWait(d) ==
    /\ setExitFlag /\ flush[d] \in {"flushed", "posted"}
    /\ flush' = [flush EXCEPT ![d] = IF curPosted > 0 THEN "asleepPosted" ELSE "deltimer"]
    /\ UNCHANGED <<items, head, tracker, trackFlush, posts, cancel, flushMutex, setExitFlag, owing, queued>>

(* "kill a possibly pending timer now", and kfree(wqPtr).                   *)
DestroyFree(d) ==
    /\ flush[d] = "deltimer" /\ flush' = [flush EXCEPT ![d] = "gone"] /\ delayTimer' = FALSE
    /\ UNCHANGED <<items, head, tracker, trackFlush, curPosted, posting, failing, requests, cancel, flushMutex, setExitFlag, owing, queued>>

-----------------------------------------------------------------------------
(* __create_workqueue()                                                     *)
WqInit ==
    /\ pending = [w \in Work |-> FALSE] /\ timer = [w \in Work |-> "off"]
    /\ entering = [w \in Work |-> NULL]
    /\ head = <<>> /\ tracker = [t \in Tracker |-> Idle] /\ trackFlush = {}
    /\ curPosted = 0 /\ posting = 0 /\ failing = 0 /\ requests = 0 /\ delayTimer = FALSE
    /\ cancel = [w \in Work |-> NoCancel] /\ flush = [d \in World |-> "none"]
    /\ flushMutex = NULL /\ setExitFlag = FALSE
    /\ owing = [d \in World |-> {}] /\ queued = 0

Posting == Submit \/ (\E k \in 1..failing : Uncount(k)) \/ Timeout

Callout(t) == CalloutTake(t) \/ CalloutRun(t) \/ PlungerComplete(t)

Entering(w) == EnterNow(w) \/ EnterDelayed(w) \/ TimerFires(w) \/ delayed_work_timer_fn(w)

CancelSteps(w) == CancelGrab(w) \/ CancelTimer(w) \/ CancelScan(w) \/ CancelRescan(w) \/ CancelClear(w)

FlushSteps(d) == FlushLock(d) \/ FlushDrain(d) \/ FlushReturn(d) \/ DestroyWait(d) \/ DestroyFree(d)

(* What the queue and the worlds inside its functions do by themselves,     *)
(* whatever the work items are for; when a callout ends is up to the work.  *)
WqStep ==
    \/ Posting \/ (\E k \in 1..posting : SubmitFails(k)) \/ CalloutEmpty
    \/ \E t \in Tracker : Callout(t)
    \/ \E w \in Work : Entering(w) \/ CancelSteps(w)
    \/ \E d \in World : FlushSteps(d)

WqNext ==
    \/ WqStep \/ \E t \in Tracker : CalloutDone(t)
    \/ \E how \in {"now", "delayed"} :
          /\ Count
          /\ (\E t \in Tracker : Requeue(t, how)) \/ (\E w \in Work : Enter(w, how, 0))
    \/ \E w \in Work : CancelStart(w)
    \/ \E d \in World : FlushStart(d) \/ DestroyStart(d)

WqSpec == WqInit /\ [][WqNext]_wqvars

-----------------------------------------------------------------------------
(* Where the pending bit of w has been: set by a caller that has not added  *)
(* the work yet, with the timer, on the queue, taken by a callout, or       *)
(* grabbed by a cancel.                                                     *)
Holders(w) ==
    (IF entering[w] # NULL THEN {<<"entering", 0>>} ELSE {})
    \cup (IF timer[w] # "off" THEN {<<"timer", 0>>} ELSE {})
    \cup (IF cancel[w].grabbed THEN {<<"cancel", 0>>} ELSE {})
    \cup {<<"queue", n>> : n \in {m \in DOMAIN head : head[m] = w}}
    \cup {<<"taken", t>> : t \in {u \in Tracker : tracker[u] = [item |-> w, pc |-> "taken"]}}

(* The pending bit is a token: whoever set or took it over is alone, so a   *)
(* work is never on the queue twice, nor queued while a cancel believes it  *)
(* has it (the assertions of __queue_work(), queue_delayed_work() and       *)
(* vmklnx_cancel_work_sync()).                                              *)
PendingToken ==
    \A w \in Work :
        /\ pending[w] <=> Holders(w) # {}
        /\ \A a, b \in Holders(w) : a = b

(* No more callouts than trackers, although requests are counted before     *)
(* they are submitted and uncounted after they are refused ("too many       *)
(* dispatches" in vmklnx_workqueue_dispatch(), and its assertion).          *)
Capacity ==
    /\ curPosted + curDispatch <= maxDispatch
    /\ curPosted = posting + failing + requests

(* An item on the queue has somebody to run it: as many requests as items,  *)
(* or all the callouts allowed (each posts the next one when it ends), or   *)
(* the timer that posts again.                                              *)
NoStuckWork ==
    Len(head) > curPosted => curPosted + curDispatch = maxDispatch \/ delayTimer

(* When cancel_work_sync() is about to return, no invocation of the work is *)
(* running and none will start: "will block until all invocations have      *)
(* completed", for a work that re-queues itself too.                        *)
CancelSync ==
    \A w \in Work : cancel[w].pc = "clear" =>
        /\ cancel[w].grabbed /\ Executing(w) = {} /\ ~OnQueue(w)
        /\ timer[w] = "off" /\ entering[w] = NULL

(* flush_workqueue() "guarantees that all callbacks associated with the     *)
(* drained work items have run to completion": those executing when the     *)
(* plunger was queued, and those taken off the queue before it.             *)
FlushSync ==
    \A d \in World :
        flush[d] \in {"flushed", "posted", "asleepPosted", "deltimer", "gone"} => owing[d] = {}

(* Nothing refers to the queue when it is freed: no request, no callout, no *)
(* loop that is still submitting, no timer (the assertions at the end of    *)
(* destroy_workqueue()).                                                    *)
FreedQuiet ==
    \A d \in World : flush[d] = "gone" =>
        /\ curPosted = 0 /\ posting = 0 /\ failing = 0 /\ requests = 0 /\ ~delayTimer
        /\ head = <<>> /\ Busy = {} /\ trackFlush = {} /\ flushMutex = NULL
        /\ \A w \in Work : timer[w] = "off" /\ entering[w] = NULL

(* What was queued gets its turn, even when the helper refuses requests.    *)
QueuedRuns == \A w \in Work : OnQueue(w) ~> ~OnQueue(w)
=============================================================================
