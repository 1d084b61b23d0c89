------------------------- MODULE VmkWorkqueueProofs -------------------------
(***************************************************************************)
(* The work queue of vmklinux for every set of works and worlds and every  *)
(* number of helper worlds (maxDispatch).                                  *)
(*                                                                         *)
(* The properties hang together.  The pending bit is a token (Tokens), and *)
(* so is the plunger of a flush (Plungers); the queue holds nothing twice  *)
(* because of both (Distinct).  With the token a cancel knows that nobody  *)
(* can queue the work behind its back (Cancels); with the plunger a flush  *)
(* knows what it has to wait for (Flushes); and a destroy needs all of it  *)
(* to find the queue empty (Destroys).                                     *)
(***************************************************************************)
EXTENDS VmkWorkqueue, FiniteSetTheorems, SequenceTheorems, TLAPS

(* The items on the queue.                                                  *)
Queue == {head[n] : n \in DOMAIN head}
Distinct == \A n, m \in DOMAIN head : head[n] = head[m] => n = m

(* A tracker on no list executes nothing, and only busy ones are flushed.   *)
Trackers ==
    /\ \A t \in Tracker : tracker[t].pc = "free" <=> tracker[t].item = NULL
    /\ trackFlush \subseteq Busy

(* A callout that has the work and has not cleared its pending bit yet.     *)
TakenBy(t, w) == tracker[t].item = w /\ tracker[t].pc = "taken"
NotTaken(w) == \A t \in Tracker : ~TakenBy(t, w)

(* The bit is set when one of five has it, and the five exclude each other. *)
Token(w) ==
    /\ pending[w] <=> \/ entering[w] # NULL \/ timer[w] # "off" \/ cancel[w].grabbed
                      \/ w \in Queue \/ ~NotTaken(w)
    /\ entering[w] # NULL => timer[w] = "off" /\ ~cancel[w].grabbed /\ w \notin Queue /\ NotTaken(w)
    /\ timer[w] # "off" => ~cancel[w].grabbed /\ w \notin Queue /\ NotTaken(w)
    /\ cancel[w].grabbed => w \notin Queue /\ NotTaken(w)
    /\ w \in Queue => NotTaken(w)
    /\ \A t, u \in Tracker : TakenBy(t, w) /\ TakenBy(u, w) => t = u
Tokens == \A w \in Work : Token(w)

(* A cancel has the token or not, as its place in the code says, and before *)
(* it returns it has it and has seen the last callout end.                  *)
Cancels ==
    \A w \in Work :
        /\ cancel[w].pc \in {"none", "grab", "timer"} => ~cancel[w].grabbed
        /\ cancel[w].pc = "clear" => cancel[w].grabbed /\ \A t \in Tracker : tracker[t].item # w

(* The plunger of d is on the queue or with one callout while d waits for   *)
(* it; that callout may still have to end while d drains the trackers.      *)
Plunging(d) == flush[d] \in {"plunge", "drain", "asleep"}
Plunger(d) ==
    /\ d \in Queue => flush[d] = "plunge" /\ \A t \in Tracker : tracker[t].item # d
    /\ \A t, u \in Tracker : tracker[t].item = d /\ tracker[u].item = d => t = u
    /\ \A t \in Tracker : tracker[t].item = d =>
          flush[d] = "plunge" \/ (flush[d] \in {"drain", "asleep"} /\ t \in trackFlush /\ tracker[t].pc = "running")
Plungers == \A d \in World : Plunger(d)

(* What a flush waits for, and that only one does.                          *)
Flushes ==
    \A d \in World :
        /\ Plunging(d) <=> flushMutex = d
        /\ owing[d] \subseteq IF flush[d] = "plunge" THEN Busy
                              ELSE IF flush[d] \in {"drain", "asleep"} THEN trackFlush ELSE {}

(* A queue that is being destroyed has no work and no caller but the one    *)
(* that destroys it, which goes on when nothing is posted any longer.       *)
Destroys ==
    /\ setExitFlag =>
         /\ \A w \in Work : ~pending[w] /\ cancel[w] = NoCancel /\ \A t \in Tracker : tracker[t].item # w
         /\ \A d, e \in World : flush[d] # "none" /\ flush[e] # "none" => d = e
    /\ \A d \in World :
         /\ flush[d] \in {"posted", "asleepPosted", "deltimer", "gone"} => setExitFlag
         /\ flush[d] \in {"deltimer", "gone"} => curPosted = 0
         /\ flush[d] = "gone" => ~delayTimer

(* A request that was refused has left the timer armed that tries again.    *)
Retries == UncountPrompt => (failing > 0 => delayTimer) /\ NoStuckWork

WqInv ==
    /\ TypeOK /\ Trackers /\ Distinct /\ Tokens /\ Cancels
    /\ Plungers /\ Flushes /\ Destroys /\ Capacity /\ Retries

(* A step of the queue or a call of one of its functions, whoever calls:    *)
(* the number of calls (queued) is the callers' business.                   *)
WqAction ==
    \/ WqStep \/ \E t \in Tracker : CalloutDone(t)
    \/ \E w \in Work, how \in {"now", "delayed"}, by \in {0} \cup Tracker : Enter(w, how, by)
    \/ \E w \in Work : CancelStart(w)
    \/ \E d \in World : FlushStart(d) \/ DestroyStart(d)

-----------------------------------------------------------------------------
(* The three ways the queue changes.                                        *)
LEMMA QueueAppend ==
    ASSUME TypeOK, Distinct, NEW i \in Item, head' = Append(head, i), i \notin Queue
    PROVE  Distinct' /\ Queue' = Queue \cup {i} /\ Len(head') = Len(head) + 1
<1>1. /\ Len(head') = Len(head) + 1 /\ Len(head) \in Nat
      /\ DOMAIN head = 1..Len(head) /\ DOMAIN head' = 1..(Len(head) + 1)
      /\ \A n \in 1..Len(head) : head'[n] = head[n]
      /\ head'[Len(head) + 1] = i
  BY AppendProperties, LenProperties DEF TypeOK
<1>2. Queue' = Queue \cup {i}
  BY <1>1 DEF Queue
<1>3. \A n \in 1..Len(head) : head[n] # i
  BY <1>1 DEF Queue
<1>4. Distinct'
  BY <1>1, <1>3 DEF Distinct
<1>5. QED BY <1>1, <1>2, <1>4

LEMMA QueueTail ==
    ASSUME TypeOK, Distinct, head # <<>>, head' = Tail(head)
    PROVE  /\ Distinct' /\ Queue' = Queue \ {Head(head)} /\ Len(head') = Len(head) - 1
           /\ Head(head) \in Queue /\ Head(head) \in Item
           /\ \A i : (\E n \in 2..Len(head) : head[n] = i) <=> i \in Queue'
<1>1. /\ Len(head) \in Nat /\ Len(head) >= 1 /\ DOMAIN head = 1..Len(head)
      /\ Len(head') = Len(head) - 1 /\ DOMAIN head' = 1..(Len(head) - 1)
      /\ \A n \in 1..(Len(head) - 1) : head'[n] = head[n + 1]
      /\ Head(head) = head[1] /\ Head(head) \in Item
  BY HeadTailProperties, LenProperties, EmptySeq DEF TypeOK
<1>2. Distinct'
  BY <1>1 DEF Distinct
<1>3. Head(head) \in Queue
  BY <1>1 DEF Queue
<1>4. ASSUME NEW i PROVE i \in Queue' <=> \E n \in 2..Len(head) : head[n] = i
  <2>1. ASSUME i \in Queue' PROVE \E n \in 2..Len(head) : head[n] = i
    <3>1. PICK n \in 1..(Len(head) - 1) : head'[n] = i
      BY <1>1, <2>1 DEF Queue
    <3>2. n + 1 \in 2..Len(head) /\ head[n + 1] = i
      BY <1>1, <3>1
    <3>3. QED BY <3>2
  <2>2. ASSUME NEW n \in 2..Len(head), head[n] = i PROVE i \in Queue'
    <3>1. n - 1 \in 1..(Len(head) - 1) /\ head'[n - 1] = i
      BY <1>1, <2>2
    <3>2. QED BY <1>1, <3>1 DEF Queue
  <2>3. QED BY <2>1, <2>2
<1>5. Queue' = Queue \ {Head(head)}
  <2>1. \A n \in 2..Len(head) : head[n] # Head(head)
    BY <1>1 DEF Distinct
  <2>2. ASSUME NEW i PROVE i \in Queue <=> i = Head(head) \/ \E n \in 2..Len(head) : head[n] = i
    BY <1>1 DEF Queue
  <2>3. ASSUME NEW i PROVE i \in Queue' <=> i \in Queue /\ i # Head(head)
    BY <1>4, <2>1, <2>2
  <2>4. QED BY <2>3
<1>6. QED BY <1>1, <1>2, <1>3, <1>4, <1>5

LEMMA QueueWithout ==
    ASSUME TypeOK, Distinct, NEW n \in DOMAIN head, head' = WithoutEntry(n)
    PROVE  /\ Distinct' /\ Queue' = Queue \ {head[n]} /\ Len(head') = Len(head) - 1
           /\ head' \in Seq(Item)
<1> DEFINE a == SubSeq(head, 1, n - 1)
           b == SubSeq(head, n + 1, Len(head))
<1>1. Len(head) \in Nat /\ DOMAIN head = 1..Len(head) /\ n \in 1..Len(head) /\ head \in Seq(Item)
  BY LenProperties DEF TypeOK
<1>2. /\ a \in Seq(Item) /\ Len(a) = n - 1
      /\ \A m \in 1..(n - 1) : a[m] = head[m]
  BY <1>1, SubSeqProperties, SMTT(30)
<1>3. /\ b \in Seq(Item) /\ Len(b) = Len(head) - n
      /\ \A m \in 1..(Len(head) - n) : b[m] = head[n + m]
  BY <1>1, SubSeqProperties, SMTT(30)
<1>4. /\ head' \in Seq(Item) /\ Len(head') = Len(head) - 1
      /\ \A m \in 1..(Len(head) - 1) : head'[m] = IF m < n THEN head[m] ELSE head[m + 1]
  <2> HIDE DEF a, b
  <2>1. head' = a \o b
    BY DEF WithoutEntry, a, b
  <2>2. /\ a \o b \in Seq(Item) /\ Len(a \o b) = Len(a) + Len(b)
        /\ \A m \in 1..(Len(a) + Len(b)) : (a \o b)[m] = IF m <= Len(a) THEN a[m] ELSE b[m - Len(a)]
    BY <1>2, <1>3, ConcatProperties
  <2>3. ASSUME NEW m \in 1..(Len(head) - 1)
        PROVE  head'[m] = IF m < n THEN head[m] ELSE head[m + 1]
    <3>1. CASE m < n
      BY <1>1, <1>2, <1>3, <2>1, <2>2, <3>1
    <3>2. CASE ~(m < n)
      <4>1. m - (n - 1) \in 1..(Len(head) - n) /\ n + (m - (n - 1)) = m + 1
        BY <1>1, <3>2
      <4>2. b[m - (n - 1)] = head[m + 1]
        BY <1>3, <4>1
      <4>3. head'[m] = b[m - (n - 1)]
        BY <1>1, <1>2, <1>3, <2>1, <2>2, <3>2, SMTT(30)
      <4>4. QED BY <3>2, <4>2, <4>3
    <3>3. QED BY <3>1, <3>2
  <2>4. QED BY <1>1, <1>2, <1>3, <2>1, <2>2, <2>3
<1>5. DOMAIN head' = 1..(Len(head) - 1)
  BY <1>4, LenProperties
<1>6. Distinct'
  <2>1. SUFFICES ASSUME NEW m \in 1..(Len(head) - 1), NEW k \in 1..(Len(head) - 1), head'[m] = head'[k]
                 PROVE  m = k
    BY <1>5 DEF Distinct
  <2>2. /\ head'[m] = IF m < n THEN head[m] ELSE head[m + 1]
        /\ head'[k] = IF k < n THEN head[k] ELSE head[k + 1]
    BY <1>4
  <2>3. \A x, y \in 1..Len(head) : head[x] = head[y] => x = y
    BY <1>1 DEF Distinct
  <2> DEFINE p == IF m < n THEN m ELSE m + 1
             q == IF k < n THEN k ELSE k + 1
  <2>4. p \in 1..Len(head) /\ q \in 1..Len(head) /\ (p = q => m = k)
    BY <1>1
  <2>5. head'[m] = head[p] /\ head'[k] = head[q]
    BY <2>2
  <2>6. p = q
    <3> HIDE DEF p, q
    <3>1. QED BY <2>1, <2>3, <2>4, <2>5
  <2>7. QED BY <2>4, <2>6
<1>7. ASSUME NEW i PROVE i \in Queue' <=> i \in Queue /\ i # head[n]
  <2>1. ASSUME i \in Queue' PROVE i \in Queue /\ i # head[n]
    BY <1>1, <1>4, <1>5, <2>1 DEF Queue, Distinct
  <2>2. ASSUME i \in Queue, i # head[n] PROVE i \in Queue'
    <3>1. PICK m \in DOMAIN head : head[m] = i
      BY <2>2 DEF Queue
    <3>2. CASE m < n
      BY <1>1, <1>4, <1>5, <3>1, <3>2 DEF Queue
    <3>3. CASE m > n
      <4>1. m - 1 \in 1..(Len(head) - 1) /\ head'[m - 1] = i
        BY <1>1, <1>4, <3>1, <3>3
      <4>2. QED BY <1>5, <4>1 DEF Queue
    <3>4. m # n
      BY <2>2, <3>1
    <3>5. QED BY <1>1, <3>2, <3>3, <3>4
  <2>3. QED BY <2>1, <2>2
<1>8. QED BY <1>4, <1>6, <1>7

LEMMA QueueMember ==
    ASSUME NEW i PROVE OnQueue(i) <=> i \in Queue
BY DEF OnQueue, Queue

(* A cancel takes the work off the queue, if it is there.                   *)
LEMMA QueueTakeOff ==
    ASSUME TypeOK, Distinct, NEW w \in Work, TakeOff(w), w \in Queue => pending[w]
    PROVE  /\ Distinct' /\ Queue' = Queue \ {w} /\ head' \in Seq(Item)
           /\ Len(head') \in Nat /\ Len(head') <= Len(head)
           /\ Found(w) <=> w \in Queue
<1>1. Found(w) <=> w \in Queue
  BY QueueMember DEF Found
<1>2. CASE w \in Queue
  <2>1. PICK n \in DOMAIN head : head[n] = w /\ head' = WithoutEntry(n)
    BY <1>1, <1>2 DEF TakeOff
  <2>2. QED BY <1>1, <2>1, QueueWithout, LenProperties DEF TypeOK
<1>3. CASE w \notin Queue
  <2>1. head' = head
    BY <1>1, <1>3 DEF TakeOff
  <2>2. Distinct' /\ Queue' = Queue
    BY <2>1 DEF Distinct, Queue
  <2>3. QED BY <1>1, <1>3, <2>1, <2>2, LenProperties DEF TypeOK
<1>4. QED BY <1>2, <1>3

-----------------------------------------------------------------------------
(* Counting the trackers.                                                   *)
LEMMA BusyCount ==
    /\ IsFiniteSet(Busy) /\ curDispatch \in Nat
    /\ IsFiniteSet(Busy') /\ curDispatch' \in Nat
<1>1. IsFiniteSet(Tracker)
  BY FS_Interval, WorkqueueAssumption DEF Tracker, Nat1
<1>2. IsFiniteSet(Busy) /\ IsFiniteSet(Busy')
  BY <1>1, FS_Subset DEF Busy
<1>3. QED BY <1>2, FS_CardinalityType DEF curDispatch

LEMMA BusyTake ==
    ASSUME TypeOK, NEW t \in Tracker, CalloutTake(t)
    PROVE  /\ t \notin Busy /\ Busy' = Busy \cup {t} /\ curDispatch' = curDispatch + 1
           /\ \A u \in Tracker : tracker'[u] = IF u = t THEN [item |-> Head(head), pc |-> "taken"] ELSE tracker[u]
<1>1. \A u \in Tracker : tracker'[u] = IF u = t THEN [item |-> Head(head), pc |-> "taken"] ELSE tracker[u]
  BY DEF CalloutTake, TypeOK
<1>2. t \notin Busy /\ Busy' = Busy \cup {t}
  BY <1>1 DEF CalloutTake, Busy
<1>3. QED BY <1>1, <1>2, BusyCount, FS_AddElement DEF curDispatch

LEMMA BusyRun ==
    ASSUME TypeOK, NEW t \in Tracker, CalloutRun(t)
    PROVE  /\ Busy' = Busy /\ curDispatch' = curDispatch
           /\ \A u \in Tracker : /\ tracker'[u].item = tracker[u].item
                                 /\ tracker'[u].pc = IF u = t THEN "running" ELSE tracker[u].pc
<1>1. \A u \in Tracker : /\ tracker'[u].item = tracker[u].item
                         /\ tracker'[u].pc = IF u = t THEN "running" ELSE tracker[u].pc
  BY DEF CalloutRun, TypeOK
<1>2. Busy' = Busy
  BY <1>1 DEF CalloutRun, Busy
<1>3. QED BY <1>1, <1>2 DEF curDispatch

LEMMA BusyDone ==
    ASSUME TypeOK, NEW t \in Tracker, CalloutDone(t)
    PROVE  /\ t \in Busy /\ Busy' = Busy \ {t} /\ curDispatch' = curDispatch - 1
           /\ \A u \in Tracker : tracker'[u] = IF u = t THEN Idle ELSE tracker[u]
<1>1. \A u \in Tracker : tracker'[u] = IF u = t THEN Idle ELSE tracker[u]
  BY DEF CalloutDone, TypeOK
<1>2. t \in Busy /\ Busy' = Busy \ {t}
  BY <1>1 DEF CalloutDone, Busy, Idle
<1>3. QED BY <1>1, <1>2, BusyCount, FS_RemoveElement DEF curDispatch

(* What vmklnx_workqueue_dispatch() may count, and what it leaves.          *)
LEMMA DispatchFacts ==
    ASSUME NEW n \in Nat, NEW d \in Nat, NEW p \in Nat, posting \in Nat,
           p + d <= maxDispatch, Dispatch(n, d, p)
    PROVE  \E k \in Nat : /\ curPosted' = p + k /\ posting' = posting + k
                          /\ p + k + d <= maxDispatch
                          /\ n > p + k => p + k + d = maxDispatch
                          /\ n <= p => k = 0
<1>1. PostDeficit(n, d, p) \in Nat
  BY WorkqueueAssumption DEF PostDeficit, Nat1
<1>2. \A k \in Nat : k = PostDeficit(n, d, p) =>
         /\ p + k + d <= maxDispatch
         /\ n > p + k => p + k + d = maxDispatch
         /\ n <= p => k = 0
  BY WorkqueueAssumption DEF PostDeficit, Nat1
<1>3. curPosted' = p + PostDeficit(n, d, p) /\ posting' = posting + PostDeficit(n, d, p)
  BY DEF Dispatch
<1>4. QED BY <1>1, <1>2, <1>3

LEMMA DispatchPosted ==
    ASSUME NEW n \in Nat, NEW d \in Nat, NEW p \in Nat, posting \in Nat,
           p + d <= maxDispatch, Dispatch(n, d, p)
    PROVE  /\ curPosted' \in Nat /\ (n <= p => curPosted' = p)
           /\ n > curPosted' => curPosted' + d = maxDispatch
<1>1. PICK k \in Nat : /\ curPosted' = p + k /\ posting' = posting + k
                       /\ p + k + d <= maxDispatch
                       /\ n > p + k => p + k + d = maxDispatch
                       /\ n <= p => k = 0
  BY DispatchFacts, ZenonT(30)
<1>2. QED BY <1>1

LEMMA CapacityStep ==
    ASSUME TypeOK, Capacity, WqAction
    PROVE  Capacity' /\ curPosted' \in Nat /\ posting' \in Nat /\ failing' \in Nat /\ requests' \in Nat
<1> DEFINE Goal == Capacity' /\ curPosted' \in Nat /\ posting' \in Nat /\ failing' \in Nat /\ requests' \in Nat
<1> SUFFICES Goal
  OBVIOUS
<1>a. /\ curPosted \in Nat /\ posting \in Nat /\ failing \in Nat /\ requests \in Nat
      /\ curDispatch \in Nat /\ curDispatch' \in Nat /\ Len(head) \in Nat /\ maxDispatch \in Nat
  BY BusyCount, LenProperties, WorkqueueAssumption DEF TypeOK, Nat1
<1>b. curPosted + curDispatch <= maxDispatch /\ curPosted = posting + failing + requests
  BY DEF Capacity
<1>c. UNCHANGED tracker => curDispatch' = curDispatch
  BY DEF curDispatch, Busy
<1>0. CASE UNCHANGED <<posts, tracker>>
  BY <1>0, <1>a, <1>b, <1>c DEF Capacity, posts
<1>1. CASE Submit
  BY <1>1, <1>a, <1>b, <1>c DEF Submit, Capacity
<1>2. ASSUME NEW k \in 1..failing, Uncount(k) PROVE Goal
  BY <1>2, <1>a, <1>b, <1>c DEF Uncount, Capacity
<1>3. CASE Timeout
  <2>1. Dispatch(Len(head), curDispatch, curPosted) /\ UNCHANGED <<failing, requests, tracker>>
    BY <1>3 DEF Timeout
  <2>2. PICK k \in Nat : /\ curPosted' = curPosted + k /\ posting' = posting + k
                         /\ curPosted + k + curDispatch <= maxDispatch
    BY <1>a, <1>b, <2>1, DispatchFacts
  <2>3. QED BY <1>a, <1>b, <1>c, <2>1, <2>2 DEF Capacity
<1>4. ASSUME NEW k \in 1..posting, SubmitFails(k) PROVE Goal
  BY <1>4, <1>a, <1>b, <1>c DEF SubmitFails, Capacity
<1>5. CASE CalloutEmpty
  BY <1>5, <1>a, <1>b, <1>c DEF CalloutEmpty, Capacity
<1>6. ASSUME NEW t \in Tracker, CalloutTake(t) PROVE Goal
  <2>1. /\ curDispatch' = curDispatch + 1 /\ requests > 0 /\ requests' = requests - 1
        /\ curPosted' = curPosted - 1 /\ UNCHANGED <<posting, failing>>
    BY <1>6, BusyTake DEF CalloutTake
  <2>2. QED BY <1>a, <1>b, <2>1 DEF Capacity
<1>7. ASSUME NEW t \in Tracker, CalloutRun(t) PROVE Goal
  BY <1>7, <1>a, <1>b, BusyRun DEF CalloutRun, Capacity, posts
<1>8. ASSUME NEW i, AddToQueue(i) PROVE Goal
  <2>1. Dispatch(Len(head) + 1, curDispatch, curPosted) /\ UNCHANGED <<failing, requests, tracker>>
    BY <1>8 DEF AddToQueue
  <2>a. Len(head) + 1 \in Nat
    BY <1>a
  <2>2. PICK k \in Nat : /\ curPosted' = curPosted + k /\ posting' = posting + k
                         /\ curPosted + k + curDispatch <= maxDispatch
    BY <1>a, <1>b, <2>1, <2>a, DispatchFacts
  <2>3. QED BY <1>a, <1>b, <1>c, <2>1, <2>2 DEF Capacity
<1>9. ASSUME NEW t \in Tracker, CalloutDone(t) PROVE Goal
  <2>1. /\ curDispatch' = curDispatch - 1 /\ curDispatch - 1 \in Nat
        /\ Dispatch(Len(head), curDispatch - 1, curPosted) /\ UNCHANGED <<failing, requests>>
    BY <1>9, <1>a, BusyDone DEF CalloutDone
  <2>2. PICK k \in Nat : /\ curPosted' = curPosted + k /\ posting' = posting + k
                         /\ curPosted + k + (curDispatch - 1) <= maxDispatch
    <3>1. curPosted + (curDispatch - 1) <= maxDispatch
      BY <1>a, <1>b
    <3>2. QED BY <1>a, <2>1, <3>1, DispatchFacts
  <2>3. QED BY <1>a, <1>b, <2>1, <2>2 DEF Capacity
<1>10. ASSUME NEW t \in Tracker, PlungerComplete(t) PROVE Goal
  BY <1>10, <1>0 DEF PlungerComplete
<1>11. ASSUME NEW w \in Work, Entering(w) PROVE Goal
  BY <1>11, <1>0, <1>8 DEF Entering, EnterNow, EnterDelayed, TimerFires, delayed_work_timer_fn
<1>12. ASSUME NEW w \in Work, CancelSteps(w) \/ CancelStart(w) PROVE Goal
  BY <1>12, <1>0 DEF CancelSteps, CancelStart, CancelGrab, CancelTimer, CancelScan, CancelRescan, CancelClear
<1>13. ASSUME NEW d \in World, FlushSteps(d) PROVE Goal
  <2>1. CASE FlushLock(d)
    BY <2>1, <1>8 DEF FlushLock
  <2>2. CASE FlushDrain(d) \/ FlushReturn(d) \/ DestroyWait(d)
    BY <2>2, <1>0 DEF FlushDrain, FlushReturn, DestroyWait
  <2>3. CASE DestroyFree(d)
    BY <2>3, <1>a, <1>b, <1>c DEF DestroyFree, Capacity
  <2>4. QED BY <1>13, <2>1, <2>2, <2>3 DEF FlushSteps
<1>14. ASSUME NEW d \in World, FlushStart(d) \/ DestroyStart(d) PROVE Goal
  BY <1>14, <1>0 DEF FlushStart, DestroyStart
<1>15. ASSUME NEW w \in Work, NEW how, NEW by, Enter(w, how, by) PROVE Goal
  BY <1>15, <1>0 DEF Enter
<1> HIDE DEF Goal
<1>16. CASE WqStep
  BY <1>16, <1>1, <1>2, <1>3, <1>4, <1>5, <1>6, <1>7, <1>10, <1>11, <1>12, <1>13
     DEF WqStep, Posting, Callout
<1>17. QED
  BY <1>9, <1>12, <1>14, <1>15, <1>16 DEF WqAction

-----------------------------------------------------------------------------
LEMMA TypeStep ==
    ASSUME TypeOK, Capacity, WqAction, queued' \in 0..MaxQueued
    PROVE  TypeOK'
<1>a. curPosted' \in Nat /\ posting' \in Nat /\ failing' \in Nat /\ requests' \in Nat
  BY CapacityStep
<1>b. Idle \in [item : Item \cup {NULL}, pc : {"free", "taken", "running"}]
  BY DEF Idle
<1>c. \A i \in Item : Append(head, i) \in Seq(Item)
  BY AppendProperties DEF TypeOK
<1> DEFINE Goal == TypeOK'
<1> SUFFICES Goal
  OBVIOUS
<1> USE DEF TypeOK
<1>0. ASSUME UNCHANGED <<items, head, tracker, trackFlush, callers, owing>>, delayTimer' \in BOOLEAN PROVE Goal
  BY <1>0, <1>a DEF items, callers
<1>1. CASE Submit \/ Timeout
  BY <1>1, <1>0 DEF Submit, Timeout
<1>2. ASSUME NEW k \in 1..failing, Uncount(k) PROVE Goal
  <2>1. flush' \in [World -> {"none", "lock", "plunge", "drain", "asleep", "flushed",
                             "posted", "asleepPosted", "deltimer", "gone"}]
    BY <1>2 DEF Uncount, WakePosted
  <2>2. QED BY <1>2, <1>a, <2>1 DEF Uncount, WakePosted, items, callers
<1>3. ASSUME NEW k \in 1..posting, SubmitFails(k) PROVE Goal
  BY <1>3, <1>0 DEF SubmitFails
<1>4. CASE CalloutEmpty
  <2>1. flush' \in [World -> {"none", "lock", "plunge", "drain", "asleep", "flushed",
                             "posted", "asleepPosted", "deltimer", "gone"}]
    BY <1>4 DEF CalloutEmpty, WakePosted
  <2>2. QED BY <1>4, <1>a, <2>1 DEF CalloutEmpty, WakePosted, items, callers
<1>5. ASSUME NEW t \in Tracker, CalloutTake(t) PROVE Goal
  <2>1. Tail(head) \in Seq(Item) /\ Head(head) \in Item
    BY <1>5, HeadTailProperties DEF CalloutTake
  <2>2. tracker' \in [Tracker -> [item : Item \cup {NULL}, pc : {"free", "taken", "running"}]]
    BY <1>5, <2>1 DEF CalloutTake
  <2>3. owing' \in [World -> SUBSET Tracker]
    BY <1>5 DEF CalloutTake
  <2>4. QED BY <1>5, <1>a, <2>1, <2>2, <2>3 DEF CalloutTake, items, callers
<1>6. ASSUME NEW t \in Tracker, CalloutRun(t) PROVE Goal
  BY <1>6, <1>a DEF CalloutRun, posts, callers
<1>7. ASSUME NEW t \in Tracker, PlungerComplete(t) PROVE Goal
  BY <1>7, <1>a DEF PlungerComplete, posts, items, Busy
<1>8. ASSUME NEW w \in Work, Entering(w) PROVE Goal
  <2>1. CASE EnterNow(w)
    BY <2>1, <1>a, <1>c DEF EnterNow, AddToQueue, callers, Item
  <2>2. CASE EnterDelayed(w) \/ TimerFires(w)
    BY <2>2, <1>a DEF EnterDelayed, TimerFires, posts, callers
  <2>3. CASE delayed_work_timer_fn(w)
    BY <2>3, <1>a, <1>c DEF delayed_work_timer_fn, AddToQueue, callers, Item
  <2>4. QED BY <1>8, <2>1, <2>2, <2>3 DEF Entering
<1>9. ASSUME NEW w \in Work, CancelSteps(w) \/ CancelStart(w) PROVE Goal
  <2>1. CASE CancelGrab(w)
    <3>1. [pc |-> "scan", grabbed |-> TRUE]
             \in [pc : {"none", "grab", "timer", "scan", "asleep", "rescan", "clear"}, grabbed : BOOLEAN]
      OBVIOUS
    <3>2. cancel' \in [Work -> [pc : {"none", "grab", "timer", "scan", "asleep", "rescan", "clear"},
                                grabbed : BOOLEAN]]
      <4>1. CASE ~pending[w]
        BY <2>1, <3>1, <4>1, ZenonT(30) DEF CancelGrab
      <4>2. CASE pending[w]
        <5>1. PICK c \in {"timer", "scan"} : cancel' = [cancel EXCEPT ![w].pc = c]
          BY <2>1, <4>2 DEF CancelGrab
        <5>2. QED BY <5>1
      <4>3. QED BY <4>1, <4>2
    <3>3. pending' \in [Work -> BOOLEAN]
      BY <2>1 DEF CancelGrab
    <3>4. QED BY <2>1, <1>a, <3>2, <3>3 DEF CancelGrab, posts
  <2>2. CASE CancelTimer(w)
    <3>1. [pc |-> "scan", grabbed |-> timer[w] = "armed"]
             \in [pc : {"none", "grab", "timer", "scan", "asleep", "rescan", "clear"}, grabbed : BOOLEAN]
      OBVIOUS
    <3>2. cancel' \in [Work -> [pc : {"none", "grab", "timer", "scan", "asleep", "rescan", "clear"},
                                grabbed : BOOLEAN]]
      BY <2>2, <3>1 DEF CancelTimer
    <3>3. QED BY <2>2, <1>a, <3>2 DEF CancelTimer, posts
  <2>3. CASE CancelScan(w)
    <3>1. head' \in Seq(Item)
      <4>1. ASSUME NEW n \in DOMAIN head PROVE WithoutEntry(n) \in Seq(Item)
        <5>1. n \in 1..Len(head) /\ Len(head) \in Nat
          BY LenProperties
        <5>2. SubSeq(head, 1, n - 1) \in Seq(Item) /\ SubSeq(head, n + 1, Len(head)) \in Seq(Item)
          BY <5>1, SubSeqProperties
        <5>3. QED BY <5>2, ConcatProperties DEF WithoutEntry
      <4>2. QED BY <2>3, <4>1 DEF CancelScan, TakeOff
    <3>2. cancel' \in [Work -> [pc : {"none", "grab", "timer", "scan", "asleep", "rescan", "clear"},
                                grabbed : BOOLEAN]]
      <4>1. (cancel[w].grabbed \/ Found(w)) \in BOOLEAN
        OBVIOUS
      <4>2. QED BY <2>3, <4>1 DEF CancelScan, AfterScan
    <3>3. QED BY <2>3, <1>a, <3>1, <3>2 DEF CancelScan, posts, items
  <2>4. CASE CancelRescan(w)
    BY <2>4, <1>a DEF CancelRescan, AfterScan, posts, items
  <2>5. CASE CancelClear(w)
    <3>1. NoCancel \in [pc : {"none", "grab", "timer", "scan", "asleep", "rescan", "clear"}, grabbed : BOOLEAN]
      BY DEF NoCancel
    <3>2. QED BY <2>5, <1>a, <3>1 DEF CancelClear, posts
  <2>6. CASE CancelStart(w)
    BY <2>6, <1>a, SMTT(30) DEF CancelStart, Cancelling, posts, items
  <2>7. QED BY <1>9, <2>1, <2>2, <2>3, <2>4, <2>5, <2>6 DEF CancelSteps
<1>10. ASSUME NEW d \in World, FlushSteps(d) \/ FlushStart(d) \/ DestroyStart(d) PROVE Goal
  <2>1. CASE FlushLock(d)
    BY <2>1, <1>a, <1>c DEF FlushLock, AddToQueue, items, Item, Busy
  <2>2. CASE FlushDrain(d) \/ FlushReturn(d) \/ DestroyWait(d)
    BY <2>2, <1>a DEF FlushDrain, FlushReturn, DestroyWait, posts, items
  <2>3. CASE DestroyFree(d) \/ FlushStart(d) \/ DestroyStart(d)
    BY <2>3, <1>a DEF DestroyFree, FlushStart, DestroyStart, posts, items
  <2>4. QED BY <1>10, <2>1, <2>2, <2>3 DEF FlushSteps
<1>11. ASSUME NEW t \in Tracker, CalloutDone(t) PROVE Goal
  <2>1. tracker' \in [Tracker -> [item : Item \cup {NULL}, pc : {"free", "taken", "running"}]]
    BY <1>11, <1>b DEF CalloutDone
  <2>2. owing' \in [World -> SUBSET Tracker]
    BY <1>11 DEF CalloutDone
  <2>3. /\ cancel' \in [Work -> [pc : {"none", "grab", "timer", "scan", "asleep", "rescan", "clear"},
                                grabbed : BOOLEAN]]
        /\ flush' \in [World -> {"none", "lock", "plunge", "drain", "asleep", "flushed",
                             "posted", "asleepPosted", "deltimer", "gone"}]
    BY <1>11, ZenonT(30) DEF CalloutDone, WakeWaiting
  <2>4. QED BY <1>11, <1>a, <2>1, <2>2, <2>3 DEF CalloutDone, items
<1>12. ASSUME NEW w \in Work, NEW how \in {"now", "delayed"}, NEW by \in {0} \cup Tracker, Enter(w, how, by)
       PROVE Goal
  <2>1. [how |-> how, by |-> by] \in [how : {"now", "delayed"}, by : {0} \cup Tracker]
    OBVIOUS
  <2>2. entering' \in [Work -> {NULL} \cup [how : {"now", "delayed"}, by : {0} \cup Tracker]]
    BY <1>12, <2>1 DEF Enter
  <2>3. QED BY <1>12, <1>a, <2>2 DEF Enter, posts, callers
<1> HIDE DEF Goal
<1>13. CASE WqStep
  BY <1>13, <1>1, <1>2, <1>3, <1>4, <1>5, <1>6, <1>7, <1>8, <1>9, <1>10
     DEF WqStep, Posting, Callout
<1>14. QED
  BY <1>9, <1>10, <1>11, <1>12, <1>13 DEF WqAction

(* Trackers on no list are idle; a flush waits for busy ones only.          *)
LEMMA TrackersStep ==
    ASSUME TypeOK, Trackers, WqAction
    PROVE  Trackers'
<1>0. CASE UNCHANGED <<tracker, trackFlush>>
  BY <1>0 DEF Trackers, Busy
<1>1. ASSUME NEW t \in Tracker, CalloutTake(t) PROVE Trackers'
  <2>1. head \in Seq(Item) /\ head # <<>> /\ trackFlush' = trackFlush
    BY <1>1 DEF CalloutTake, TypeOK
  <2>2. Head(head) \in Item /\ NULL \notin Item
    BY <2>1, HeadTailProperties, WorkqueueAssumption DEF Item
  <2>3. Head(head) # NULL
    BY <2>2
  <2>4. \A u \in Tracker : tracker'[u].pc = "free" <=> tracker'[u].item = NULL
    BY <1>1, <2>3, BusyTake DEF Trackers
  <2>5. trackFlush' \subseteq Busy'
    BY <1>1, <2>1, BusyTake DEF Trackers
  <2>6. QED BY <2>4, <2>5 DEF Trackers
<1>2. ASSUME NEW t \in Tracker, CalloutRun(t) PROVE Trackers'
  <2>1. tracker[t].pc = "taken" /\ trackFlush' = trackFlush
    BY <1>2 DEF CalloutRun
  <2>2. \A u \in Tracker : tracker'[u].pc = "free" <=> tracker'[u].item = NULL
    BY <1>2, <2>1, BusyRun DEF Trackers
  <2>3. trackFlush' \subseteq Busy'
    BY <1>2, <2>1, BusyRun DEF Trackers
  <2>4. QED BY <2>2, <2>3 DEF Trackers
<1>3. ASSUME NEW t \in Tracker, PlungerComplete(t) PROVE Trackers'
  BY <1>3 DEF Trackers, PlungerComplete, Busy
<1>4. ASSUME NEW t \in Tracker, CalloutDone(t) PROVE Trackers'
  <2>1. trackFlush' = trackFlush \ {t}
    BY <1>4 DEF CalloutDone
  <2>2. \A u \in Tracker : tracker'[u].pc = "free" <=> tracker'[u].item = NULL
    BY <1>4, BusyDone DEF Trackers, Idle
  <2>3. trackFlush' \subseteq Busy'
    BY <1>4, <2>1, BusyDone DEF Trackers
  <2>4. QED BY <2>2, <2>3 DEF Trackers
<1>5. ASSUME NEW w \in Work, Entering(w) \/ CancelSteps(w) \/ CancelStart(w) PROVE Trackers'
  BY <1>5, <1>0 DEF Entering, EnterNow, EnterDelayed, TimerFires, delayed_work_timer_fn, AddToQueue,
       CancelSteps, CancelStart, CancelGrab, CancelTimer, CancelScan, CancelRescan, CancelClear
<1>6. ASSUME NEW d \in World, FlushSteps(d) \/ FlushStart(d) \/ DestroyStart(d) PROVE Trackers'
  BY <1>6, <1>0 DEF FlushSteps, FlushLock, AddToQueue, FlushDrain, FlushReturn, DestroyWait, DestroyFree,
       FlushStart, DestroyStart
<1>7. ASSUME NEW w, NEW how, NEW by, Enter(w, how, by) PROVE Trackers'
  BY <1>7, <1>0 DEF Enter
<1>8. ASSUME NEW k, Submit \/ Timeout \/ CalloutEmpty \/ Uncount(k) \/ SubmitFails(k) PROVE Trackers'
  BY <1>8, <1>0 DEF Submit, Timeout, CalloutEmpty, Uncount, SubmitFails
<1>9. CASE WqStep
  BY <1>9, <1>1, <1>2, <1>3, <1>5, <1>6, <1>8 DEF WqStep, Posting, Callout
<1>10. QED
  BY <1>4, <1>5, <1>6, <1>7, <1>9 DEF WqAction

(* A work or a plunger is put on the queue only when it is not there: the   *)
(* caller holds its token, or has yet to plunge.                            *)
LEMMA DistinctStep ==
    ASSUME TypeOK, Distinct, Tokens, Plungers, WqAction
    PROVE  Distinct'
<1>0. CASE UNCHANGED head
  BY <1>0 DEF Distinct
<1>1. ASSUME NEW t \in Tracker, CalloutTake(t) PROVE Distinct'
  BY <1>1, QueueTail DEF CalloutTake
<1>2. ASSUME NEW w \in Work, Entering(w) PROVE Distinct'
  <2>1. CASE EnterNow(w)
    <3>1. w \notin Queue /\ w \in Item /\ head' = Append(head, w)
      BY <2>1 DEF EnterNow, AddToQueue, Tokens, Token, Item
    <3>2. QED BY <3>1, QueueAppend
  <2>2. CASE delayed_work_timer_fn(w)
    <3>1. w \notin Queue /\ w \in Item /\ head' = Append(head, w)
      BY <2>2 DEF delayed_work_timer_fn, AddToQueue, Tokens, Token, Item
    <3>2. QED BY <3>1, QueueAppend
  <2>3. CASE EnterDelayed(w) \/ TimerFires(w)
    BY <2>3, <1>0 DEF EnterDelayed, TimerFires
  <2>4. QED BY <1>2, <2>1, <2>2, <2>3 DEF Entering
<1>3. ASSUME NEW w \in Work, CancelSteps(w) \/ CancelStart(w) PROVE Distinct'
  <2>1. CASE CancelScan(w)
    <3>1. TakeOff(w) /\ (w \in Queue => pending[w])
      BY <2>1 DEF CancelScan, Tokens, Token
    <3>2. QED BY <3>1, QueueTakeOff
  <2>2. QED BY <1>3, <2>1, <1>0 DEF CancelSteps, CancelStart, CancelGrab, CancelTimer, CancelRescan, CancelClear
<1>4. ASSUME NEW d \in World, FlushSteps(d) \/ FlushStart(d) \/ DestroyStart(d) PROVE Distinct'
  <2>1. CASE FlushLock(d)
    <3>1. d \notin Queue /\ d \in Item /\ head' = Append(head, d)
      BY <2>1 DEF FlushLock, AddToQueue, Plungers, Plunger, Item
    <3>2. QED BY <3>1, QueueAppend
  <2>2. QED BY <1>4, <2>1, <1>0 DEF FlushSteps, FlushDrain, FlushReturn, DestroyWait, DestroyFree,
       FlushStart, DestroyStart
<1>5. ASSUME NEW t, CalloutRun(t) \/ PlungerComplete(t) \/ CalloutDone(t) PROVE Distinct'
  BY <1>5, <1>0 DEF CalloutRun, PlungerComplete, CalloutDone
<1>6. ASSUME NEW w, NEW how, NEW by, Enter(w, how, by) PROVE Distinct'
  BY <1>6, <1>0 DEF Enter
<1>7. ASSUME NEW k, Submit \/ Timeout \/ CalloutEmpty \/ Uncount(k) \/ SubmitFails(k) PROVE Distinct'
  BY <1>7, <1>0 DEF Submit, Timeout, CalloutEmpty, Uncount, SubmitFails
<1>8. CASE WqStep
  BY <1>8, <1>1, <1>2, <1>3, <1>4, <1>5, <1>7 DEF WqStep, Posting, Callout
<1>9. QED
  BY <1>3, <1>4, <1>5, <1>6, <1>8 DEF WqAction

(* The pending bit is handed on, never duplicated and never dropped.        *)
LEMMA TokensStep ==
    ASSUME TypeOK, Trackers, Distinct, Tokens, Cancels, Plungers, WqAction
    PROVE  Tokens'
<1> USE DEF Tokens, Token, NotTaken, TakenBy
<1>a. Work \cap World = {} /\ NULL \notin Work
  BY WorkqueueAssumption
<1>0. ASSUME UNCHANGED <<pending, timer, entering, head, tracker>>,
             \A x \in Work : cancel'[x].grabbed <=> cancel[x].grabbed
      PROVE  Tokens'
  BY <1>0 DEF Queue
<1>1. ASSUME NEW t \in Tracker, CalloutTake(t) PROVE Tokens'
  <2>1. UNCHANGED <<pending, timer, entering, cancel>>
    BY <1>1 DEF CalloutTake, items, callers
  <2>2. Queue' = Queue \ {Head(head)} /\ Head(head) \in Queue
    BY <1>1, QueueTail DEF CalloutTake
  <2>3. /\ tracker[t].pc = "free"
        /\ \A u \in Tracker : tracker'[u] = IF u = t THEN [item |-> Head(head), pc |-> "taken"] ELSE tracker[u]
    BY <1>1, BusyTake DEF CalloutTake
  <2>4. QED BY <2>1, <2>2, <2>3
<1>2. ASSUME NEW t \in Tracker, CalloutRun(t) PROVE Tokens'
  <2>1. /\ UNCHANGED <<timer, entering, cancel>> /\ Queue' = Queue
        /\ tracker[t].pc = "taken"
        /\ \A x \in Work : pending'[x] <=> x # tracker[t].item /\ pending[x]
    BY <1>2 DEF CalloutRun, callers, TypeOK, Queue
  <2>2. \A u \in Tracker : /\ tracker'[u].item = tracker[u].item
                           /\ tracker'[u].pc = IF u = t THEN "running" ELSE tracker[u].pc
    BY <1>2, BusyRun
  <2>3. QED BY <2>1, <2>2
<1>3. ASSUME NEW t \in Tracker, CalloutDone(t) PROVE Tokens'
  <2>1. /\ UNCHANGED <<timer, entering, pending>> /\ Queue' = Queue
        /\ tracker[t].pc = "running"
        /\ \A x \in Work : cancel'[x].grabbed <=> cancel[x].grabbed
    BY <1>3 DEF CalloutDone, WakeWaiting, items, TypeOK, Queue
  <2>2. \A u \in Tracker : tracker'[u] = IF u = t THEN Idle ELSE tracker[u]
    BY <1>3, BusyDone
  <2>3. QED BY <2>1, <2>2 DEF Idle
<1>4. ASSUME NEW w \in Work, EnterNow(w) PROVE Tokens'
  <2>1. /\ UNCHANGED <<timer, pending, cancel, tracker>> /\ entering[w] # NULL
        /\ \A x \in Work : entering'[x] = IF x = w THEN NULL ELSE entering[x]
    BY <1>4 DEF EnterNow, AddToQueue, callers, TypeOK
  <2>2. Queue' = Queue \cup {w}
    BY <1>4, QueueAppend DEF EnterNow, AddToQueue, Item
  <2>3. QED BY <2>1, <2>2
<1>5. ASSUME NEW w \in Work, EnterDelayed(w) PROVE Tokens'
  <2>1. /\ UNCHANGED <<pending, cancel, tracker>> /\ entering[w] # NULL /\ Queue' = Queue
        /\ \A x \in Work : entering'[x] = IF x = w THEN NULL ELSE entering[x]
        /\ \A x \in Work : timer'[x] = IF x = w THEN "armed" ELSE timer[x]
    BY <1>5 DEF EnterDelayed, callers, TypeOK, Queue
  <2>2. QED BY <2>1
<1>6. ASSUME NEW w \in Work, TimerFires(w) PROVE Tokens'
  <2>1. /\ UNCHANGED <<pending, cancel, tracker, entering>> /\ timer[w] = "armed" /\ Queue' = Queue
        /\ \A x \in Work : timer'[x] = IF x = w THEN "firing" ELSE timer[x]
    BY <1>6 DEF TimerFires, callers, TypeOK, Queue
  <2>2. QED BY <2>1
<1>7. ASSUME NEW w \in Work, delayed_work_timer_fn(w) PROVE Tokens'
  <2>1. /\ UNCHANGED <<pending, cancel, tracker, entering>> /\ timer[w] = "firing"
        /\ \A x \in Work : timer'[x] = IF x = w THEN "off" ELSE timer[x]
    BY <1>7 DEF delayed_work_timer_fn, AddToQueue, callers, TypeOK
  <2>2. Queue' = Queue \cup {w}
    BY <1>7, QueueAppend DEF delayed_work_timer_fn, AddToQueue, Item
  <2>3. QED BY <2>1, <2>2
<1>8. ASSUME NEW w \in Work, CancelGrab(w) PROVE Tokens'
  <2>1. /\ UNCHANGED <<timer, tracker, entering>> /\ Queue' = Queue /\ cancel[w].pc = "grab"
        /\ \A x \in Work : pending'[x] <=> x = w \/ pending[x]
        /\ \A x \in Work : cancel'[x].grabbed <=> cancel[x].grabbed \/ (x = w /\ ~pending[w])
    BY <1>8, SMTT(30) DEF CancelGrab, TypeOK, Queue
  <2>2. QED BY <2>1 DEF Cancels
<1>9. ASSUME NEW w \in Work, CancelTimer(w) PROVE Tokens'
  <2>1. /\ UNCHANGED <<pending, tracker, entering>> /\ Queue' = Queue
        /\ cancel[w].pc = "timer" /\ timer[w] # "firing"
        /\ \A x \in Work : timer'[x] = IF x = w THEN "off" ELSE timer[x]
        /\ cancel'[w].grabbed <=> timer[w] = "armed"
        /\ \A x \in Work : x # w => cancel'[x] = cancel[x]
    <3> DEFINE got == timer[w] = "armed"
    <3>1. cancel' = [cancel EXCEPT ![w] = [pc |-> "scan", grabbed |-> got]]
      BY <1>9 DEF CancelTimer
    <3>2. cancel'[w].grabbed = got /\ \A x \in Work : x # w => cancel'[x] = cancel[x]
      <4> HIDE DEF got
      <4>1. QED BY <3>1 DEF TypeOK
    <3>3. cancel'[w].grabbed <=> timer[w] = "armed"
      BY <3>2
    <3>4. Queue' = Queue /\ UNCHANGED <<pending, tracker, entering>>
      BY <1>9 DEF CancelTimer, Queue
    <3>5. /\ cancel[w].pc = "timer" /\ timer[w] # "firing"
          /\ \A x \in Work : timer'[x] = IF x = w THEN "off" ELSE timer[x]
      BY <1>9 DEF CancelTimer, TypeOK
    <3>6. QED BY <3>2, <3>3, <3>4, <3>5
  <2>2. ~cancel[w].grabbed /\ timer[w] \in {"off", "armed"}
    BY <2>1 DEF Cancels, TypeOK
  <2>3. QED BY <2>1, <2>2
<1>10. ASSUME NEW w \in Work, CancelScan(w) PROVE Tokens'
  <2>1. /\ UNCHANGED <<pending, timer, tracker, entering>> /\ TakeOff(w)
        /\ cancel'[w].grabbed <=> cancel[w].grabbed \/ Found(w)
        /\ \A x \in Work : x # w => cancel'[x] = cancel[x]
    <3> DEFINE got == cancel[w].grabbed \/ Found(w)
    <3>1. cancel' = [cancel EXCEPT ![w] = [pc |-> AfterScan(w, got), grabbed |-> got]]
      BY <1>10 DEF CancelScan
    <3>2. cancel'[w].grabbed = got /\ \A x \in Work : x # w => cancel'[x] = cancel[x]
      <4> HIDE DEF got
      <4>1. QED BY <3>1 DEF TypeOK
    <3>3. QED BY <1>10, <3>2 DEF CancelScan, items
  <2>2. Queue' = Queue \ {w} /\ (Found(w) <=> w \in Queue)
    <3>1. TakeOff(w) /\ (w \in Queue => pending[w])
      BY <2>1
    <3> HIDE DEF Tokens, Token, NotTaken, TakenBy
    <3>2. QED BY <3>1, QueueTakeOff
  <2>3. QED BY <2>1, <2>2
<1>11. ASSUME NEW w \in Work, CancelRescan(w) \/ CancelStart(w) PROVE Tokens'
  BY <1>11, <1>0, SMTT(30) DEF CancelRescan, CancelStart, Cancelling, items, TypeOK
<1>12. ASSUME NEW w \in Work, CancelClear(w) PROVE Tokens'
  <2>1. /\ UNCHANGED <<timer, tracker, entering>> /\ Queue' = Queue /\ cancel[w].pc = "clear"
        /\ \A x \in Work : pending'[x] <=> x # w /\ pending[x]
        /\ \A x \in Work : cancel'[x].grabbed <=> x # w /\ cancel[x].grabbed
    BY <1>12 DEF CancelClear, NoCancel, TypeOK, Queue
  <2>2. cancel[w].grabbed
    BY <2>1 DEF Cancels
  <2>3. QED BY <2>1, <2>2
<1>13. ASSUME NEW d \in World, FlushLock(d) PROVE Tokens'
  <2>1. UNCHANGED <<pending, timer, entering, cancel, tracker>>
    BY <1>13 DEF FlushLock, AddToQueue, items
  <2>2. Queue' = Queue \cup {d}
    <3>1. d \notin Queue /\ d \in Item /\ head' = Append(head, d)
      BY <1>13 DEF FlushLock, AddToQueue, Plungers, Plunger, Item
    <3>2. QED BY <3>1, QueueAppend
  <2>3. QED BY <2>1, <2>2, <1>a
<1>14. ASSUME NEW d \in World, \/ FlushDrain(d) \/ FlushReturn(d) \/ DestroyWait(d) \/ DestroyFree(d)
                              \/ FlushStart(d) \/ DestroyStart(d)
       PROVE  Tokens'
  BY <1>14, <1>0 DEF FlushDrain, FlushReturn, DestroyWait, DestroyFree, FlushStart, DestroyStart, items
<1>15. ASSUME NEW w \in Work, NEW how \in {"now", "delayed"}, NEW by \in {0} \cup Tracker, Enter(w, how, by)
       PROVE  Tokens'
  <2>0. UNCHANGED <<timer, tracker, cancel>> /\ Queue' = Queue
    BY <1>15 DEF Enter, callers, Queue
  <2>1. CASE pending[w]
    BY <1>15, <2>0, <2>1 DEF Enter
  <2>2. CASE ~pending[w]
    <3>1. /\ \A x \in Work : pending'[x] <=> x = w \/ pending[x]
          /\ \A x \in Work : x # w => entering'[x] = entering[x]
          /\ entering'[w] = [how |-> how, by |-> by]
      BY <1>15, <2>2 DEF Enter, TypeOK
    <3>2. entering'[w] # NULL
      <4>1. by \in Nat
        BY WorkqueueAssumption DEF Tracker, Nat1
      <4>2. QED BY <3>1, <4>1, WorkqueueAssumption
    <3>3. QED BY <2>0, <2>2, <3>1, <3>2
  <2>3. QED BY <2>1, <2>2
<1>16. ASSUME NEW t \in Tracker, PlungerComplete(t) PROVE Tokens'
  BY <1>16, <1>0 DEF PlungerComplete, items
<1>17. ASSUME NEW k, Submit \/ Timeout \/ CalloutEmpty \/ Uncount(k) \/ SubmitFails(k) PROVE Tokens'
  BY <1>17, <1>0 DEF Submit, Timeout, CalloutEmpty, Uncount, SubmitFails, WakePosted, items, callers
<1> HIDE DEF Tokens, Token, NotTaken, TakenBy
<1>18. CASE WqStep
  BY <1>18, <1>1, <1>2, <1>4, <1>5, <1>6, <1>7, <1>8, <1>9, <1>10, <1>11, <1>12, <1>13, <1>14, <1>16, <1>17
     DEF WqStep, Posting, Callout, Entering, CancelSteps, FlushSteps
<1>19. QED
  BY <1>3, <1>11, <1>14, <1>15, <1>18 DEF WqAction

(* A cancel that returns has the bit, and no callout of the work starts     *)
(* again: to be taken the work would have to be on the queue.               *)
LEMMA CancelsStep ==
    ASSUME TypeOK, Distinct, Tokens, Cancels, WqAction
    PROVE  Cancels'
<1> USE DEF Cancels
<1>0. ASSUME UNCHANGED <<cancel, tracker>> PROVE Cancels'
  BY <1>0
<1>1. ASSUME NEW t \in Tracker, CalloutTake(t) PROVE Cancels'
  <2>1. cancel' = cancel /\ Head(head) \in Queue
    BY <1>1, QueueTail DEF CalloutTake, callers
  <2>2. \A u \in Tracker : tracker'[u] = IF u = t THEN [item |-> Head(head), pc |-> "taken"] ELSE tracker[u]
    BY <1>1, BusyTake
  <2>3. \A w \in Work : cancel[w].pc = "clear" => w # Head(head)
    BY <2>1 DEF Tokens, Token
  <2>4. QED BY <2>1, <2>2, <2>3
<1>2. ASSUME NEW t \in Tracker, CalloutRun(t) PROVE Cancels'
  BY <1>2, BusyRun DEF CalloutRun, callers
<1>3. ASSUME NEW t \in Tracker, CalloutDone(t) PROVE Cancels'
  <2>1. \A u \in Tracker : tracker'[u] = IF u = t THEN Idle ELSE tracker[u]
    BY <1>3, BusyDone
  <2>2. \A w \in Work : /\ cancel'[w].grabbed <=> cancel[w].grabbed
                        /\ cancel'[w].pc = IF cancel[w].pc = "asleep" THEN "rescan" ELSE cancel[w].pc
    BY <1>3 DEF CalloutDone, WakeWaiting, TypeOK
  <2>3. NULL \notin Work
    BY WorkqueueAssumption
  <2>4. QED BY <2>1, <2>2, <2>3 DEF Idle
<1>4. ASSUME NEW w \in Work, CancelStart(w) PROVE Cancels'
  BY <1>4 DEF CancelStart, Cancelling, TypeOK
<1>5. ASSUME NEW w \in Work, CancelGrab(w) PROVE Cancels'
  <2>1. /\ tracker' = tracker /\ cancel[w].pc = "grab" /\ \A x \in Work : x # w => cancel'[x] = cancel[x]
        /\ cancel'[w].pc \in {"scan", "timer"}
        /\ cancel'[w].pc = "timer" => (cancel'[w].grabbed <=> cancel[w].grabbed)
    BY <1>5 DEF CancelGrab, TypeOK
  <2>2. QED BY <2>1
<1>6. ASSUME NEW w \in Work, CancelTimer(w) PROVE Cancels'
  <2>1. /\ tracker' = tracker /\ \A x \in Work : x # w => cancel'[x] = cancel[x]
        /\ cancel'[w].pc = "scan"
    BY <1>6 DEF CancelTimer, TypeOK
  <2>2. QED BY <2>1
<1>7. ASSUME NEW w \in Work, CancelScan(w) PROVE Cancels'
  <2> DEFINE got == cancel[w].grabbed \/ Found(w)
  <2>1. cancel' = [cancel EXCEPT ![w] = [pc |-> AfterScan(w, got), grabbed |-> got]] /\ tracker' = tracker
    BY <1>7 DEF CancelScan
  <2>2. got \in BOOLEAN
    OBVIOUS
  <2> HIDE DEF got
  <2>3. /\ \A x \in Work : x # w => cancel'[x] = cancel[x]
        /\ cancel'[w].pc = AfterScan(w, got) /\ (cancel'[w].grabbed <=> got)
    BY <2>1, <2>2 DEF TypeOK
  <2>4. /\ AfterScan(w, got) = "grab" => ~got
        /\ AfterScan(w, got) = "clear" => got /\ \A t \in Tracker : tracker[t].item # w
        /\ AfterScan(w, got) \in {"grab", "clear", "asleep"}
    BY DEF AfterScan, Executing
  <2>5. QED BY <2>1, <2>3, <2>4
<1>8. ASSUME NEW w \in Work, CancelRescan(w) PROVE Cancels'
  <2> DEFINE got == cancel[w].grabbed
  <2>1. /\ \A x \in Work : x # w => cancel'[x] = cancel[x]
        /\ cancel'[w].pc = AfterScan(w, got) /\ (cancel'[w].grabbed <=> got) /\ tracker' = tracker
    BY <1>8 DEF CancelRescan, TypeOK
  <2>2. /\ AfterScan(w, got) = "grab" => ~got
        /\ AfterScan(w, got) = "clear" => got /\ \A t \in Tracker : tracker[t].item # w
        /\ AfterScan(w, got) \in {"grab", "clear", "asleep"}
    BY DEF AfterScan, Executing
  <2>3. QED BY <2>1, <2>2
<1>9. ASSUME NEW w \in Work, CancelClear(w) PROVE Cancels'
  <2>1. /\ tracker' = tracker /\ \A x \in Work : x # w => cancel'[x] = cancel[x]
        /\ cancel'[w].pc = "none" /\ ~cancel'[w].grabbed
    BY <1>9 DEF CancelClear, NoCancel, TypeOK
  <2>2. QED BY <2>1
<1>10. ASSUME NEW w \in Work, Entering(w) PROVE Cancels'
  BY <1>10, <1>0 DEF Entering, EnterNow, EnterDelayed, TimerFires, delayed_work_timer_fn, AddToQueue, callers
<1>11. ASSUME NEW d \in World, FlushSteps(d) \/ FlushStart(d) \/ DestroyStart(d) PROVE Cancels'
  BY <1>11, <1>0 DEF FlushSteps, FlushLock, AddToQueue, FlushDrain, FlushReturn, DestroyWait, DestroyFree,
       FlushStart, DestroyStart
<1>12. ASSUME NEW w, NEW how, NEW by, Enter(w, how, by) PROVE Cancels'
  BY <1>12, <1>0 DEF Enter, callers
<1>13. ASSUME NEW t, PlungerComplete(t) PROVE Cancels'
  BY <1>13, <1>0 DEF PlungerComplete
<1>14. ASSUME NEW k, Submit \/ Timeout \/ CalloutEmpty \/ Uncount(k) \/ SubmitFails(k) PROVE Cancels'
  BY <1>14, <1>0 DEF Submit, Timeout, CalloutEmpty, Uncount, SubmitFails, WakePosted, callers
<1> HIDE DEF Cancels
<1>15. CASE WqStep
  BY <1>15, <1>1, <1>2, <1>5, <1>6, <1>7, <1>8, <1>9, <1>10, <1>11, <1>13, <1>14
     DEF WqStep, Posting, Callout, CancelSteps
<1>16. QED
  BY <1>3, <1>4, <1>11, <1>12, <1>15 DEF WqAction

(* The plunger of a flush is handed on like a token too.                    *)
LEMMA PlungersStep ==
    ASSUME TypeOK, Trackers, Distinct, Tokens, Plungers, WqAction
    PROVE  Plungers'
<1> USE DEF Plungers, Plunger
<1>a. Work \cap World = {} /\ NULL \notin World
  BY WorkqueueAssumption
<1>0. ASSUME UNCHANGED <<tracker, trackFlush>>, \A d \in World : d \in Queue' => d \in Queue,
             \A d \in World : flush'[d] = flush[d] \/ (flush[d] \notin {"plunge", "drain", "asleep"})
      PROVE  Plungers'
  BY <1>0
<1>1. ASSUME NEW t \in Tracker, CalloutTake(t) PROVE Plungers'
  <2>1. UNCHANGED <<flush, trackFlush>> /\ tracker[t].pc = "free"
    BY <1>1 DEF CalloutTake, callers
  <2>2. Queue' = Queue \ {Head(head)} /\ Head(head) \in Queue
    BY <1>1, QueueTail DEF CalloutTake
  <2>3. \A u \in Tracker : tracker'[u] = IF u = t THEN [item |-> Head(head), pc |-> "taken"] ELSE tracker[u]
    BY <1>1, BusyTake
  <2>4. QED BY <2>1, <2>2, <2>3
<1>2. ASSUME NEW t \in Tracker, CalloutRun(t) PROVE Plungers'
  <2>1. UNCHANGED <<flush, trackFlush>> /\ Queue' = Queue /\ tracker[t].pc = "taken"
    BY <1>2 DEF CalloutRun, callers, Queue
  <2>2. QED BY <1>2, <2>1, BusyRun
<1>3. ASSUME NEW t \in Tracker, PlungerComplete(t) PROVE Plungers'
  <2> DEFINE d == tracker[t].item
  <2>1. /\ tracker' = tracker /\ Queue' = Queue /\ trackFlush' = Busy
        /\ d \in World /\ flush[d] = "plunge" /\ tracker[t].pc = "running"
        /\ \A e \in World : flush'[e] = IF e = d THEN "drain" ELSE flush[e]
    BY <1>3 DEF PlungerComplete, TypeOK, Queue
  <2>2. t \in Busy /\ trackFlush \subseteq Busy
    BY <2>1 DEF Busy, Trackers
  <2>3. QED BY <2>1, <2>2
<1>4. ASSUME NEW t \in Tracker, CalloutDone(t) PROVE Plungers'
  <2>1. /\ Queue' = Queue /\ trackFlush' = trackFlush \ {t}
        /\ \A d \in World : flush'[d] = IF flush[d] = "asleep" THEN "drain" ELSE flush[d]
    BY <1>4 DEF CalloutDone, WakeWaiting, Queue
  <2>2. \A u \in Tracker : tracker'[u] = IF u = t THEN Idle ELSE tracker[u]
    BY <1>4, BusyDone
  <2>3. QED BY <2>1, <2>2, <1>a DEF Idle
<1>5. ASSUME NEW w \in Work, Entering(w) PROVE Plungers'
  <2>1. CASE EnterNow(w) \/ delayed_work_timer_fn(w)
    <3>1. w \notin Queue /\ w \in Item /\ head' = Append(head, w)
      BY <2>1 DEF EnterNow, delayed_work_timer_fn, AddToQueue, Tokens, Token, Item
    <3>2. Queue' = Queue \cup {w}
      BY <3>1, QueueAppend
    <3>3. QED BY <2>1, <3>2, <1>a, <1>0 DEF EnterNow, delayed_work_timer_fn, AddToQueue, callers
  <2>2. CASE EnterDelayed(w) \/ TimerFires(w)
    BY <2>2, <1>0 DEF EnterDelayed, TimerFires, callers, Queue
  <2>3. QED BY <1>5, <2>1, <2>2 DEF Entering
<1>6. ASSUME NEW w \in Work, CancelSteps(w) \/ CancelStart(w) PROVE Plungers'
  <2>1. CASE CancelScan(w)
    <3>1. TakeOff(w) /\ (w \in Queue => pending[w])
      BY <2>1 DEF CancelScan, Tokens, Token
    <3>2. Queue' = Queue \ {w}
      BY <3>1, QueueTakeOff
    <3>3. QED BY <2>1, <3>2, <1>0 DEF CancelScan
  <2>2. QED BY <1>6, <2>1, <1>0 DEF CancelSteps, CancelStart, CancelGrab, CancelTimer, CancelRescan, CancelClear, Queue
<1>7. ASSUME NEW d \in World, FlushLock(d) PROVE Plungers'
  <2>1. /\ d \notin Queue /\ d \in Item /\ head' = Append(head, d) /\ flush[d] = "lock"
        /\ \A e \in World : flush'[e] = IF e = d THEN "plunge" ELSE flush[e]
        /\ UNCHANGED <<tracker, trackFlush>>
    BY <1>7 DEF FlushLock, AddToQueue, Item, TypeOK
  <2>2. Queue' = Queue \cup {d}
    BY <2>1, QueueAppend
  <2>3. QED BY <2>1, <2>2
<1>8. ASSUME NEW d \in World, FlushDrain(d) PROVE Plungers'
  <2>1. /\ Queue' = Queue /\ UNCHANGED <<tracker, trackFlush>> /\ flush[d] = "drain"
        /\ flush'[d] = "asleep" \/ (flush'[d] = "flushed" /\ trackFlush = {})
        /\ \A e \in World : e # d => flush'[e] = flush[e]
    BY <1>8 DEF FlushDrain, Queue, TypeOK
  <2>2. QED BY <2>1
<1>9. ASSUME NEW d \in World, \/ FlushReturn(d) \/ DestroyWait(d) \/ DestroyFree(d)
                              \/ FlushStart(d) \/ DestroyStart(d)
      PROVE  Plungers'
  <2>1. CASE FlushReturn(d) \/ FlushStart(d)
    BY <2>1, <1>0 DEF FlushReturn, FlushStart, Queue, TypeOK
  <2>2. CASE DestroyWait(d) \/ DestroyFree(d)
    BY <2>2, <1>0 DEF DestroyWait, DestroyFree, Queue, TypeOK
  <2>3. CASE DestroyStart(d)
    BY <2>3, <1>0 DEF DestroyStart, Quiet, Queue, TypeOK
  <2>4. QED BY <1>9, <2>1, <2>2, <2>3
<1>10. ASSUME NEW k, CalloutEmpty \/ Uncount(k) PROVE Plungers'
  <2>1. /\ Queue' = Queue /\ UNCHANGED <<tracker, trackFlush>>
        /\ \A d \in World : flush'[d] = flush[d] \/ flush[d] = "asleepPosted"
    BY <1>10 DEF CalloutEmpty, Uncount, WakePosted, Queue
  <2>2. QED BY <2>1, <1>0
<1>11. ASSUME NEW k, Submit \/ Timeout \/ SubmitFails(k) PROVE Plungers'
  BY <1>11, <1>0 DEF Submit, Timeout, SubmitFails, callers, Queue
<1>12. ASSUME NEW w, NEW how, NEW by, Enter(w, how, by) PROVE Plungers'
  BY <1>12, <1>0 DEF Enter, callers, Queue
<1> HIDE DEF Plungers, Plunger
<1>13. CASE WqStep
  BY <1>13, <1>1, <1>2, <1>3, <1>5, <1>6, <1>7, <1>8, <1>9, <1>10, <1>11
     DEF WqStep, Posting, Callout, FlushSteps
<1>14. QED
  BY <1>4, <1>6, <1>9, <1>12, <1>13 DEF WqAction

(* A flush waits for every callout it owes, and one flush at a time does.   *)
LEMMA FlushesStep ==
    ASSUME TypeOK, Trackers, Distinct, Plungers, Flushes, WqAction
    PROVE  Flushes'
<1> USE DEF Flushes, Plunging
<1>a. NULL \notin World
  BY WorkqueueAssumption
<1>0. ASSUME UNCHANGED <<trackFlush, flushMutex, owing>>, Busy' = Busy,
             \A d \in World : flush'[d] = flush[d] \/ {flush[d], flush'[d]} \cap {"plunge", "drain", "asleep"} = {}
      PROVE  Flushes'
  BY <1>0
<1>1. ASSUME NEW t \in Tracker, CalloutTake(t) PROVE Flushes'
  <2>1. UNCHANGED <<flush, trackFlush, flushMutex>> /\ Busy' = Busy \cup {t}
    BY <1>1, BusyTake DEF CalloutTake, callers
  <2>2. \A d \in World : owing'[d] = IF d \in Queue' THEN owing[d] \cup {t} ELSE owing[d]
    BY <1>1, QueueTail DEF CalloutTake
  <2>3. \A d \in World : d \in Queue' => flush[d] = "plunge"
    BY <1>1, QueueTail DEF CalloutTake, Plungers, Plunger
  <2>4. QED BY <2>1, <2>2, <2>3
<1>2. ASSUME NEW t \in Tracker, CalloutRun(t) PROVE Flushes'
  BY <1>2, <1>0, BusyRun DEF CalloutRun, callers
<1>3. ASSUME NEW t \in Tracker, PlungerComplete(t) PROVE Flushes'
  <2> DEFINE d == tracker[t].item
  <2>1. /\ Busy' = Busy /\ trackFlush' = Busy /\ d \in World /\ flush[d] = "plunge"
        /\ \A e \in World : flush'[e] = IF e = d THEN "drain" ELSE flush[e]
        /\ UNCHANGED <<flushMutex, owing>>
    BY <1>3 DEF PlungerComplete, TypeOK, Busy
  <2>2. flushMutex = d /\ trackFlush \subseteq Busy
    BY <2>1 DEF Trackers
  <2> HIDE DEF d
  <2>3. QED BY <2>1, <2>2
<1>4. ASSUME NEW t \in Tracker, CalloutDone(t) PROVE Flushes'
  <2>1. /\ Busy' = Busy \ {t} /\ trackFlush' = trackFlush \ {t} /\ flushMutex' = flushMutex
        /\ \A d \in World : flush'[d] = IF flush[d] = "asleep" THEN "drain" ELSE flush[d]
        /\ \A d \in World : owing'[d] = owing[d] \ {t}
    BY <1>4, BusyDone DEF CalloutDone, WakeWaiting
  <2>2. QED BY <2>1
<1>5. ASSUME NEW d \in World, FlushLock(d) PROVE Flushes'
  <2>1. /\ Busy' = Busy /\ trackFlush' = trackFlush /\ flushMutex' = d /\ flushMutex = NULL
        /\ \A e \in World : flush'[e] = IF e = d THEN "plunge" ELSE flush[e]
        /\ \A e \in World : owing'[e] = IF e = d THEN Busy ELSE owing[e]
    BY <1>5 DEF FlushLock, AddToQueue, TypeOK, Busy
  <2>2. QED BY <2>1, <1>a
<1>6. ASSUME NEW d \in World, FlushDrain(d) PROVE Flushes'
  <2>1. /\ Busy' = Busy /\ UNCHANGED <<trackFlush, owing>> /\ flush[d] = "drain"
        /\ \A e \in World : e # d => flush'[e] = flush[e]
        /\ \/ flush'[d] = "asleep" /\ flushMutex' = flushMutex
           \/ flush'[d] = "flushed" /\ trackFlush = {} /\ flushMutex' = NULL
    BY <1>6 DEF FlushDrain, Busy, TypeOK
  <2>2. QED BY <2>1, <1>a
<1>7. ASSUME NEW d \in World, \/ FlushReturn(d) \/ DestroyWait(d) \/ DestroyFree(d)
                              \/ FlushStart(d) \/ DestroyStart(d)
      PROVE  Flushes'
  <2>1. CASE FlushReturn(d) \/ FlushStart(d)
    BY <2>1, <1>0 DEF FlushReturn, FlushStart, Busy, TypeOK
  <2>2. CASE DestroyWait(d) \/ DestroyFree(d)
    BY <2>2, <1>0 DEF DestroyWait, DestroyFree, Busy, TypeOK
  <2>3. CASE DestroyStart(d)
    BY <2>3, <1>0 DEF DestroyStart, Quiet, Busy, TypeOK
  <2>4. QED BY <1>7, <2>1, <2>2, <2>3
<1>8. ASSUME NEW k, CalloutEmpty \/ Uncount(k) PROVE Flushes'
  <2>1. /\ Busy' = Busy /\ UNCHANGED <<trackFlush, flushMutex, owing>>
        /\ \A d \in World : flush'[d] = flush[d] \/ (flush[d] = "asleepPosted" /\ flush'[d] = "posted")
    BY <1>8 DEF CalloutEmpty, Uncount, WakePosted, Busy
  <2>2. QED BY <2>1, <1>0
<1>9. ASSUME NEW k, Submit \/ Timeout \/ SubmitFails(k) PROVE Flushes'
  BY <1>9, <1>0 DEF Submit, Timeout, SubmitFails, callers, Busy
<1>10. ASSUME NEW w, NEW how, NEW by, Enter(w, how, by) PROVE Flushes'
  BY <1>10, <1>0 DEF Enter, callers, Busy
<1>11. ASSUME NEW w \in Work, Entering(w) \/ CancelSteps(w) \/ CancelStart(w) PROVE Flushes'
  BY <1>11, <1>0 DEF Entering, EnterNow, EnterDelayed, TimerFires, delayed_work_timer_fn, AddToQueue, callers, Busy,
       CancelSteps, CancelStart, CancelGrab, CancelTimer, CancelScan, CancelRescan, CancelClear
<1> HIDE DEF Flushes, Plunging
<1>12. CASE WqStep
  BY <1>12, <1>1, <1>2, <1>3, <1>5, <1>6, <1>7, <1>8, <1>9, <1>11
     DEF WqStep, Posting, Callout, FlushSteps
<1>13. QED
  BY <1>4, <1>7, <1>10, <1>11, <1>12 DEF WqAction

(* When a queue being destroyed has been flushed, nothing is left on it.    *)
LEMMA Emptied ==
    ASSUME TypeOK, Trackers, Tokens, Plungers, Destroys, setExitFlag,
           NEW d \in World, flush[d] \in {"flushed", "posted", "asleepPosted", "deltimer", "gone"}
    PROVE  head = <<>> /\ Len(head) = 0 /\ Busy = {}
<1>1. \A e \in World : flush[e] \notin {"plunge", "drain", "asleep"}
  BY DEF Destroys
<1>2. Queue = {}
  <2>1. \A n \in DOMAIN head : head[n] \in Work \cup World
    BY ElementOfSeq, LenProperties DEF TypeOK, Item
  <2>2. \A w \in Work : w \notin Queue
    BY DEF Destroys, Tokens, Token
  <2>3. \A e \in World : e \notin Queue
    BY <1>1 DEF Plungers, Plunger
  <2>4. QED BY <2>1, <2>2, <2>3 DEF Queue
<1>3. Len(head) \in Nat /\ DOMAIN head = 1..Len(head)
  BY LenProperties DEF TypeOK
<1>4. Len(head) = 0
  <2>1. SUFFICES ASSUME Len(head) # 0 PROVE FALSE
    OBVIOUS
  <2>2. 1 \in DOMAIN head
    BY <1>3, <2>1
  <2>3. head[1] \in Queue
    BY <2>2 DEF Queue
  <2>4. QED BY <1>2, <2>3
<1>5. head = <<>>
  BY <1>4, EmptySeq DEF TypeOK
<1>6. Busy = {}
  <2>1. SUFFICES ASSUME NEW t \in Tracker, tracker[t].pc # "free" PROVE FALSE
    BY DEF Busy
  <2>2. tracker[t].item \in Work \cup World
    BY <2>1 DEF Trackers, TypeOK, Item
  <2>3. tracker[t].item \notin Work
    BY DEF Destroys
  <2>4. tracker[t].item \notin World
    BY <1>1 DEF Plungers, Plunger
  <2>5. QED BY <2>2, <2>3, <2>4
<1>7. QED BY <1>4, <1>5, <1>6

(* Once the destroy has begun nobody brings work, and once it has found no  *)
(* request posted none is posted again.                                     *)
LEMMA DestroysStep ==
    ASSUME TypeOK, Trackers, Distinct, Tokens, Plungers, Destroys, Capacity, WqAction
    PROVE  Destroys'
<1> DEFINE Late == {"posted", "asleepPosted", "deltimer", "gone"}
<1> USE DEF Destroys
<1>a. Work \cap World = {} /\ NULL \notin Work \cup World
  BY WorkqueueAssumption
<1>b. setExitFlag => \A w \in Work : entering[w] = NULL /\ timer[w] = "off" /\ w \notin Queue
  BY DEF Tokens, Token
<1>c. ASSUME NEW d \in World, flush[d] \in {"deltimer", "gone"}
      PROVE  curPosted = 0 /\ posting = 0 /\ failing = 0 /\ requests = 0 /\ Len(head) = 0 /\ Busy = {}
  <2>1. setExitFlag /\ curPosted = 0
    BY <1>c
  <2>2. posting = 0 /\ failing = 0 /\ requests = 0
    BY <2>1 DEF Capacity, TypeOK
  <2>3. QED BY <1>c, <2>1, <2>2, Emptied
<1>0. ASSUME UNCHANGED <<setExitFlag, pending, cancel, flush>>, curPosted = 0 => curPosted' = 0,
             delayTimer' => delayTimer, \A t \in Tracker : tracker'[t].item = tracker[t].item
      PROVE  Destroys'
  BY <1>0
<1>1. ASSUME ~setExitFlag, ~setExitFlag', \A d \in World : flush'[d] = flush[d] \/ flush'[d] \notin Late
      PROVE  Destroys'
  BY <1>1
<1>2. CASE Submit
  BY <1>2, <1>0 DEF Submit, items, callers
<1>3. ASSUME NEW k \in 1..failing, Uncount(k) PROVE Destroys'
  <2>1. /\ UNCHANGED <<setExitFlag, pending, cancel, tracker, delayTimer>> /\ failing > 0
        /\ \A d \in World : flush'[d] = flush[d] \/ (flush[d] = "asleepPosted" /\ flush'[d] = "posted")
    BY <1>3 DEF Uncount, WakePosted, items, TypeOK
  <2>2. QED BY <2>1, <1>c
<1>4. CASE Timeout
  <2>1. UNCHANGED <<setExitFlag, pending, cancel, flush, tracker>> /\ delayTimer' = FALSE
    BY <1>4 DEF Timeout, items, callers
  <2>2. ASSUME NEW d \in World, flush[d] \in {"deltimer", "gone"} PROVE curPosted' = 0
    <3>1. Len(head) = 0 /\ curPosted = 0 /\ Dispatch(Len(head), curDispatch, curPosted)
      BY <1>4, <1>c, <2>2 DEF Timeout
    <3>2. curDispatch \in Nat /\ curPosted + curDispatch <= maxDispatch /\ posting \in Nat
      BY BusyCount DEF Capacity, TypeOK
    <3>3. QED BY <3>1, <3>2, DispatchPosted
  <2>3. QED BY <2>1, <2>2
<1>5. ASSUME NEW k \in 1..posting, SubmitFails(k) PROVE Destroys'
  <2>1. /\ UNCHANGED <<setExitFlag, pending, cancel, tracker, flush, curPosted>> /\ posting > 0
    BY <1>5 DEF SubmitFails, items, callers, TypeOK
  <2>2. QED BY <2>1, <1>c
<1>6. CASE CalloutEmpty
  <2>1. /\ UNCHANGED <<setExitFlag, pending, cancel, tracker, delayTimer>> /\ requests > 0
        /\ \A d \in World : flush'[d] = flush[d] \/ (flush[d] = "asleepPosted" /\ flush'[d] = "posted")
    BY <1>6 DEF CalloutEmpty, WakePosted, items
  <2>2. QED BY <2>1, <1>c
<1>7. ASSUME NEW t \in Tracker, CalloutTake(t) PROVE Destroys'
  <2>1. UNCHANGED <<setExitFlag, pending, cancel, flush, delayTimer>> /\ requests > 0
    BY <1>7 DEF CalloutTake, items, callers
  <2>2. Head(head) \in Queue
    BY <1>7, QueueTail DEF CalloutTake
  <2>3. \A u \in Tracker : tracker'[u] = IF u = t THEN [item |-> Head(head), pc |-> "taken"] ELSE tracker[u]
    BY <1>7, BusyTake
  <2>4. QED BY <2>1, <2>2, <2>3, <1>b, <1>c
<1>8. ASSUME NEW t \in Tracker, CalloutRun(t) PROVE Destroys'
  <2>1. /\ UNCHANGED <<setExitFlag, cancel, flush, curPosted, delayTimer>>
        /\ \A w \in Work : pending'[w] => pending[w]
    BY <1>8 DEF CalloutRun, callers, posts, TypeOK
  <2>2. QED BY <1>8, <2>1, BusyRun
<1>9. ASSUME NEW t \in Tracker, PlungerComplete(t) PROVE Destroys'
  <2> DEFINE d == tracker[t].item
  <2>1. /\ UNCHANGED <<setExitFlag, cancel, pending, tracker, curPosted, delayTimer>>
        /\ d \in World /\ flush[d] = "plunge"
        /\ \A e \in World : flush'[e] = IF e = d THEN "drain" ELSE flush[e]
    BY <1>9 DEF PlungerComplete, items, posts, TypeOK
  <2> HIDE DEF d
  <2>2. QED BY <2>1
<1>10. ASSUME NEW t \in Tracker, CalloutDone(t) PROVE Destroys'
  <2>1. /\ UNCHANGED <<setExitFlag, pending, delayTimer>>
        /\ \A d \in World : flush'[d] = IF flush[d] = "asleep" THEN "drain" ELSE flush[d]
        /\ \A w \in Work : cancel[w].pc = "asleep" \/ cancel'[w] = cancel[w]
    BY <1>10 DEF CalloutDone, WakeWaiting, items
  <2>2. t \in Busy /\ \A u \in Tracker : tracker'[u] = IF u = t THEN Idle ELSE tracker[u]
    BY <1>10, BusyDone
  <2>3. \A d \in World : flush[d] \notin {"deltimer", "gone"}
    BY <2>2, <1>c
  <2>4. QED BY <2>1, <2>2, <2>3, <1>a DEF NoCancel, Idle
<1>11. ASSUME NEW w \in Work, Entering(w) PROVE Destroys'
  <2>1. ~setExitFlag /\ UNCHANGED <<setExitFlag, flush>>
    BY <1>11, <1>b DEF Entering, EnterNow, EnterDelayed, TimerFires, delayed_work_timer_fn, callers
  <2>2. QED BY <2>1, <1>1
<1>12. ASSUME NEW w \in Work, CancelSteps(w) \/ CancelStart(w) PROVE Destroys'
  <2>1. ~setExitFlag /\ UNCHANGED <<setExitFlag, flush>>
    BY <1>12 DEF CancelSteps, CancelStart, CancelGrab, CancelTimer, CancelScan, CancelRescan, CancelClear, NoCancel
  <2>2. QED BY <2>1, <1>1
<1>13. ASSUME NEW d \in World, FlushLock(d) PROVE Destroys'
  <2>1. /\ flush[d] = "lock" /\ UNCHANGED <<setExitFlag, pending, cancel, tracker, delayTimer>>
        /\ \A e \in World : flush'[e] = IF e = d THEN "plunge" ELSE flush[e]
    BY <1>13 DEF FlushLock, AddToQueue, items, TypeOK
  <2>2. \A e \in World : flush[e] \notin {"deltimer", "gone"}
    BY <2>1
  <2>3. QED BY <2>1, <2>2
<1>14. ASSUME NEW d \in World, FlushDrain(d) PROVE Destroys'
  <2>1. /\ flush[d] = "drain" /\ UNCHANGED <<setExitFlag, pending, cancel, tracker, delayTimer, curPosted>>
        /\ \A e \in World : e # d => flush'[e] = flush[e]
        /\ flush'[d] \in {"asleep", "flushed"}
    BY <1>14 DEF FlushDrain, items, posts, TypeOK
  <2>2. QED BY <2>1
<1>15. ASSUME NEW d \in World, FlushReturn(d) \/ FlushStart(d) PROVE Destroys'
  <2>1. /\ ~setExitFlag /\ setExitFlag' = setExitFlag
        /\ \A e \in World : flush'[e] = flush[e] \/ flush'[e] \in {"none", "lock"}
    BY <1>15 DEF FlushReturn, FlushStart, TypeOK
  <2>2. QED BY <2>1, <1>1
<1>16. ASSUME NEW d \in World, DestroyWait(d) PROVE Destroys'
  <2>1. /\ setExitFlag /\ flush[d] \in {"flushed", "posted"}
        /\ UNCHANGED <<setExitFlag, pending, cancel, tracker, delayTimer, curPosted>>
        /\ \A e \in World : e # d => flush'[e] = flush[e]
        /\ flush'[d] = "asleepPosted" \/ (flush'[d] = "deltimer" /\ curPosted = 0)
    BY <1>16 DEF DestroyWait, items, posts, TypeOK
  <2>2. QED BY <2>1
<1>17. ASSUME NEW d \in World, DestroyFree(d) PROVE Destroys'
  <2>1. /\ flush[d] = "deltimer" /\ ~delayTimer'
        /\ UNCHANGED <<setExitFlag, pending, cancel, tracker, curPosted>>
        /\ \A e \in World : flush'[e] = IF e = d THEN "gone" ELSE flush[e]
    BY <1>17 DEF DestroyFree, items, TypeOK
  <2>2. QED BY <2>1
<1>18. ASSUME NEW d \in World, DestroyStart(d) PROVE Destroys'
  <2>1. /\ UNCHANGED <<pending, cancel, tracker>>
        /\ \A w \in Work : ~pending[w] /\ cancel[w] = NoCancel /\ \A t \in Tracker : tracker[t].item # w
        /\ \A e \in World : flush[e] = "none" /\ flush'[e] = IF e = d THEN "lock" ELSE "none"
    BY <1>18 DEF DestroyStart, Quiet, Executing, items, TypeOK
  <2>2. QED BY <2>1
<1>19. ASSUME NEW w, NEW how, NEW by, Enter(w, how, by) PROVE Destroys'
  BY <1>19, <1>1 DEF Enter, callers
<1> HIDE DEF Destroys
<1>20. CASE WqStep
  BY <1>20, <1>2, <1>3, <1>4, <1>5, <1>6, <1>7, <1>8, <1>9, <1>11, <1>12, <1>13, <1>14, <1>15, <1>16, <1>17
     DEF WqStep, Posting, Callout, FlushSteps
<1>21. QED
  BY <1>10, <1>12, <1>15, <1>18, <1>19, <1>20 DEF WqAction

(* With prompt uncounting, what is on the queue has somebody to run it.     *)
LEMMA RetriesStep ==
    ASSUME TypeOK, Trackers, Distinct, Tokens, Plungers, Destroys, Capacity, Retries, WqAction
    PROVE  Retries'
<1> SUFFICES ASSUME UncountPrompt PROVE (failing' > 0 => delayTimer') /\ NoStuckWork'
  BY DEF Retries
<1> DEFINE Goal == (failing' > 0 => delayTimer') /\ NoStuckWork'
<1> SUFFICES Goal
  OBVIOUS
<1>a. /\ curPosted \in Nat /\ posting \in Nat /\ failing \in Nat /\ requests \in Nat
      /\ curDispatch \in Nat /\ curDispatch' \in Nat /\ Len(head) \in Nat /\ maxDispatch \in Nat
  BY BusyCount, LenProperties, WorkqueueAssumption DEF TypeOK, Nat1
<1>b. /\ curPosted + curDispatch <= maxDispatch /\ curPosted = posting + failing + requests
      /\ failing > 0 => delayTimer
      /\ Len(head) > curPosted => curPosted + curDispatch = maxDispatch \/ delayTimer
  BY DEF Capacity, Retries, NoStuckWork
<1>c. UNCHANGED tracker => curDispatch' = curDispatch
  BY DEF curDispatch, Busy
<1>0. ASSUME UNCHANGED <<tracker, curPosted, failing, delayTimer>>,
             Len(head') \in Nat, Len(head') <= Len(head)
      PROVE  Goal
  BY <1>0, <1>a, <1>b, <1>c DEF NoStuckWork
<1>00. ASSUME UNCHANGED <<tracker, head, posts>> PROVE Goal
  BY <1>00, <1>0, <1>a DEF posts
<1>1. CASE Submit
  BY <1>1, <1>0, <1>a DEF Submit
<1>2. ASSUME NEW k \in 1..failing, Uncount(k) PROVE Goal
  <2>1. failing > 0 /\ delayTimer' = delayTimer
    BY <1>2, <1>a DEF Uncount
  <2>2. QED BY <2>1, <1>b DEF NoStuckWork
<1>3. CASE Timeout
  <2>1. /\ Dispatch(Len(head), curDispatch, curPosted) /\ UNCHANGED <<head, failing, tracker>> /\ failing = 0
    BY <1>3 DEF Timeout
  <2>2. curPosted' \in Nat /\ (Len(head) > curPosted' => curPosted' + curDispatch = maxDispatch)
    BY <1>a, <1>b, <2>1, DispatchPosted
  <2>3. Len(head') = Len(head) /\ curDispatch' = curDispatch /\ ~(failing' > 0)
    BY <1>a, <1>c, <2>1
  <2>4. QED BY <1>a, <2>2, <2>3 DEF NoStuckWork
<1>4. ASSUME NEW k \in 1..posting, SubmitFails(k) PROVE Goal
  BY <1>4 DEF SubmitFails, NoStuckWork
<1>5. CASE CalloutEmpty
  <2>1. /\ Len(head') = 0 /\ curPosted' = curPosted - 1 /\ requests > 0 /\ UNCHANGED <<failing, delayTimer>>
    BY <1>5, EmptySeq DEF CalloutEmpty
  <2>2. curPosted' \in Nat
    BY <1>a, <1>b, <2>1
  <2>3. QED BY <1>b, <2>1, <2>2 DEF NoStuckWork
<1>6. ASSUME NEW t \in Tracker, CalloutTake(t) PROVE Goal
  <2>1. /\ curDispatch' = curDispatch + 1 /\ curPosted' = curPosted - 1 /\ UNCHANGED <<failing, delayTimer>>
        /\ Len(head') = Len(head) - 1
    BY <1>6, BusyTake, QueueTail DEF CalloutTake
  <2>2. QED BY <1>a, <1>b, <2>1 DEF NoStuckWork
<1>7. ASSUME NEW t \in Tracker, CalloutRun(t) PROVE Goal
  <2>1. curDispatch' = curDispatch /\ UNCHANGED <<head, curPosted, failing, delayTimer>>
    BY <1>7, BusyRun DEF CalloutRun, posts
  <2>2. QED BY <1>b, <2>1 DEF NoStuckWork
<1>8. ASSUME NEW i \in Item, AddToQueue(i) PROVE Goal
  <2>1. /\ Dispatch(Len(head) + 1, curDispatch, curPosted) /\ UNCHANGED <<failing, tracker, delayTimer>>
        /\ Len(head') = Len(head) + 1 /\ Len(head) + 1 \in Nat
    BY <1>8, <1>a, AppendProperties DEF AddToQueue, TypeOK
  <2>2. curPosted' \in Nat /\ (Len(head) + 1 > curPosted' => curPosted' + curDispatch = maxDispatch)
    BY <1>a, <1>b, <2>1, DispatchPosted
  <2>3. QED BY <1>a, <1>b, <1>c, <2>1, <2>2 DEF NoStuckWork
<1>9. ASSUME NEW t \in Tracker, CalloutDone(t) PROVE Goal
  <2>1. /\ curDispatch' = curDispatch - 1 /\ curDispatch - 1 \in Nat
        /\ Dispatch(Len(head), curDispatch - 1, curPosted) /\ UNCHANGED <<head, failing, delayTimer>>
    BY <1>9, <1>a, BusyDone DEF CalloutDone
  <2>2. curPosted + (curDispatch - 1) <= maxDispatch
    BY <1>a, <1>b
  <2>3. curPosted' \in Nat /\ (Len(head) > curPosted' => curPosted' + (curDispatch - 1) = maxDispatch)
    BY <1>a, <2>1, <2>2, DispatchPosted
  <2>4. QED BY <1>a, <1>b, <2>1, <2>3 DEF NoStuckWork
<1>10. ASSUME NEW t \in Tracker, PlungerComplete(t) PROVE Goal
  BY <1>10, <1>00 DEF PlungerComplete
<1>11. ASSUME NEW w \in Work, Entering(w) PROVE Goal
  BY <1>11, <1>00, <1>8 DEF Entering, EnterNow, EnterDelayed, TimerFires, delayed_work_timer_fn, Item
<1>12. ASSUME NEW w \in Work, CancelSteps(w) \/ CancelStart(w) PROVE Goal
  <2>1. CASE CancelScan(w)
    <3>1. TakeOff(w) /\ (w \in Queue => pending[w])
      BY <2>1 DEF CancelScan, Tokens, Token
    <3>2. Len(head') \in Nat /\ Len(head') <= Len(head)
      BY <3>1, QueueTakeOff
    <3>3. QED BY <2>1, <3>2, <1>0 DEF CancelScan, posts
  <2>2. QED BY <1>12, <1>00, <2>1 DEF CancelSteps, CancelStart, CancelGrab, CancelTimer, CancelRescan, CancelClear
<1>13. ASSUME NEW d \in World, FlushSteps(d) PROVE Goal
  <2>1. CASE FlushLock(d)
    BY <2>1, <1>8 DEF FlushLock, Item
  <2>2. CASE FlushDrain(d) \/ FlushReturn(d) \/ DestroyWait(d)
    BY <2>2, <1>00 DEF FlushDrain, FlushReturn, DestroyWait
  <2>3. CASE DestroyFree(d)
    <3>1. flush[d] = "deltimer" /\ UNCHANGED <<head, curPosted, failing>>
      BY <2>3 DEF DestroyFree
    <3>2. setExitFlag /\ curPosted = 0
      BY <3>1 DEF Destroys
    <3>3. Len(head) = 0 /\ failing = 0
      BY <3>1, <3>2, <1>a, <1>b, Emptied
    <3>4. QED BY <3>1, <3>2, <3>3 DEF NoStuckWork
  <2>4. QED BY <1>13, <2>1, <2>2, <2>3 DEF FlushSteps
<1>14. ASSUME NEW d \in World, FlushStart(d) \/ DestroyStart(d) PROVE Goal
  BY <1>14, <1>00 DEF FlushStart, DestroyStart
<1>15. ASSUME NEW w \in Work, NEW how, NEW by, Enter(w, how, by) PROVE Goal
  BY <1>15, <1>00 DEF Enter
<1> HIDE DEF Goal
<1>16. CASE WqStep
  BY <1>16, <1>1, <1>2, <1>3, <1>4, <1>5, <1>6, <1>7, <1>10, <1>11, <1>12, <1>13
     DEF WqStep, Posting, Callout
<1>17. QED
  BY <1>9, <1>12, <1>14, <1>15, <1>16 DEF WqAction

-----------------------------------------------------------------------------
(* Every step of the queue and every call keeps the invariant, whoever      *)
(* calls and however often.                                                 *)
LEMMA WqInvAction ==
    ASSUME WqInv, WqAction, queued' \in 0..MaxQueued
    PROVE  WqInv'
BY CapacityStep, TypeStep, TrackersStep, DistinctStep, TokensStep, CancelsStep, PlungersStep,
   FlushesStep, DestroysStep, RetriesStep DEF WqInv

LEMMA WqInvStutter == ASSUME WqInv, UNCHANGED wqvars PROVE WqInv'
<1>1. UNCHANGED <<pending, timer, entering, head, tracker, trackFlush, curPosted, posting, failing, requests,
                  delayTimer, cancel, flush, flushMutex, setExitFlag, owing, queued>>
  BY DEF wqvars, items, posts, callers
<1>2. TypeOK' /\ Trackers' /\ Distinct' /\ Capacity'
  BY <1>1 DEF WqInv, TypeOK, Trackers, Distinct, Capacity, curDispatch, Busy
<1>3. Tokens' /\ Cancels' /\ Plungers'
  BY <1>1 DEF WqInv, Tokens, Token, NotTaken, TakenBy, Cancels, Plungers, Plunger, Queue
<1>4. Flushes' /\ Destroys' /\ Retries'
  BY <1>1 DEF WqInv, Flushes, Plunging, Destroys, Retries, NoStuckWork, curDispatch, Busy
<1>5. QED BY <1>2, <1>3, <1>4 DEF WqInv

LEMMA WqInvInit == WqInit => WqInv
<1> SUFFICES ASSUME WqInit PROVE WqInv
  OBVIOUS
<1> USE DEF WqInit
<1>1. Busy = {} /\ Queue = {} /\ Len(head) = 0 /\ head \in Seq(Item)
  BY EmptySeq DEF Busy, Idle, Queue
<1>2. curDispatch = 0 /\ maxDispatch \in Nat
  BY <1>1, FS_EmptySet, WorkqueueAssumption DEF curDispatch, Nat1
<1>3. TypeOK
  <2>1. /\ Idle \in [item : Item \cup {NULL}, pc : {"free", "taken", "running"}]
        /\ NoCancel \in [pc : {"none", "grab", "timer", "scan", "asleep", "rescan", "clear"}, grabbed : BOOLEAN]
    BY DEF Idle, NoCancel
  <2>2. 0 \in 0..MaxQueued
    BY WorkqueueAssumption
  <2>3. QED BY <1>1, <2>1, <2>2 DEF TypeOK
<1>4. Trackers /\ Distinct /\ Capacity /\ Retries
  BY <1>1, <1>2 DEF Trackers, Distinct, Capacity, Retries, NoStuckWork, Idle
<1>5. Tokens /\ Cancels
  BY <1>1 DEF Tokens, Token, NotTaken, TakenBy, Cancels, Idle, NoCancel
<1>6. Plungers /\ Flushes /\ Destroys
  BY <1>1, WorkqueueAssumption DEF Plungers, Plunger, Flushes, Plunging, Destroys, Idle
<1>7. QED BY <1>3, <1>4, <1>5, <1>6 DEF WqInv

(* The inductive invariant of the queue with arbitrary callers.             *)
THEOREM WorkqueueInvariant == WqSpec => []WqInv
<1>1. WqInv /\ [WqNext]_wqvars => WqInv'
  <2> SUFFICES ASSUME WqInv, [WqNext]_wqvars PROVE WqInv'
    OBVIOUS
  <2>0. TypeOK
    BY DEF WqInv
  <2>1. CASE UNCHANGED wqvars
    BY <2>1, WqInvStutter
  <2>2. CASE WqStep
    <3>1. queued' = queued
      BY <2>2 DEF WqStep, Posting, Submit, Uncount, Timeout, SubmitFails, CalloutEmpty, Callout, CalloutTake,
           CalloutRun, PlungerComplete, Entering, EnterNow, EnterDelayed, TimerFires, delayed_work_timer_fn,
           CancelSteps, CancelGrab, CancelTimer, CancelScan, CancelRescan, CancelClear,
           FlushSteps, FlushLock, FlushDrain, FlushReturn, DestroyWait, DestroyFree
    <3>2. QED BY <2>0, <2>2, <3>1, WqInvAction DEF WqAction, TypeOK
  <2>3. ASSUME NEW t \in Tracker, CalloutDone(t) PROVE WqInv'
    BY <2>0, <2>3, WqInvAction DEF WqAction, TypeOK, CalloutDone
  <2>4. ASSUME NEW how \in {"now", "delayed"}, Count,
               (\E t \in Tracker : Requeue(t, how)) \/ (\E w \in Work : Enter(w, how, 0))
        PROVE  WqInv'
    <3>1. queued' \in 0..MaxQueued
      BY <2>0, <2>4, WorkqueueAssumption DEF Count, TypeOK
    <3>2. WqAction
      BY <2>4 DEF Requeue, WqAction
    <3>3. QED BY <3>1, <3>2, WqInvAction
  <2>5. ASSUME NEW w \in Work, CancelStart(w) PROVE WqInv'
    BY <2>0, <2>5, WqInvAction DEF WqAction, TypeOK, CancelStart
  <2>6. ASSUME NEW d \in World, FlushStart(d) \/ DestroyStart(d) PROVE WqInv'
    BY <2>0, <2>6, WqInvAction DEF WqAction, TypeOK, FlushStart, DestroyStart
  <2>7. QED BY <2>1, <2>2, <2>3, <2>4, <2>5, <2>6 DEF WqNext
<1>2. QED BY <1>1, WqInvInit, PTL DEF WqSpec

(* The token in the form of PendingToken: one holder, and only with the bit *)
(* set.                                                                     *)
LEMMA TokenHolders == ASSUME TypeOK, Distinct, Tokens PROVE PendingToken
<1> SUFFICES ASSUME NEW w \in Work
             PROVE  /\ pending[w] <=> Holders(w) # {}
                    /\ \A a, b \in Holders(w) : a = b
  BY DEF PendingToken
<1> DEFINE E == entering[w] # NULL
           T == timer[w] # "off"
           C == cancel[w].grabbed
<1>1. Token(w)
  BY DEF Tokens
<1>2. \A a : a \in Holders(w) <=>
         \/ E /\ a = <<"entering", 0>>
         \/ T /\ a = <<"timer", 0>>
         \/ C /\ a = <<"cancel", 0>>
         \/ \E n \in DOMAIN head : head[n] = w /\ a = <<"queue", n>>
         \/ \E t \in Tracker : TakenBy(t, w) /\ a = <<"taken", t>>
  <2>1. \A t \in Tracker : tracker[t] = [item |-> w, pc |-> "taken"] <=> TakenBy(t, w)
    BY DEF TypeOK, TakenBy
  <2>2. QED BY <2>1 DEF Holders
<1>3. w \in Queue <=> \E n \in DOMAIN head : head[n] = w
  BY DEF Queue
<1>4. pending[w] <=> Holders(w) # {}
  <2>1. pending[w] <=> E \/ T \/ C \/ (\E n \in DOMAIN head : head[n] = w) \/ (\E t \in Tracker : TakenBy(t, w))
    BY <1>1, <1>3 DEF Token, NotTaken
  <2>2. Holders(w) # {} <=> E \/ T \/ C \/ (\E n \in DOMAIN head : head[n] = w) \/ (\E t \in Tracker : TakenBy(t, w))
    BY <1>2
  <2>3. QED BY <2>1, <2>2
<1>5. ASSUME NEW a \in Holders(w), NEW b \in Holders(w) PROVE a = b
  <2>1. \A n, m \in DOMAIN head : head[n] = w /\ head[m] = w => n = m
    BY DEF Distinct
  <2>2. \A t, u \in Tracker : TakenBy(t, w) /\ TakenBy(u, w) => t = u
    BY <1>1 DEF Token
  <2>3. /\ E => ~T /\ ~C /\ (\A n \in DOMAIN head : head[n] # w) /\ (\A t \in Tracker : ~TakenBy(t, w))
        /\ T => ~C /\ (\A n \in DOMAIN head : head[n] # w) /\ (\A t \in Tracker : ~TakenBy(t, w))
        /\ C => (\A n \in DOMAIN head : head[n] # w) /\ (\A t \in Tracker : ~TakenBy(t, w))
        /\ \A n \in DOMAIN head : head[n] = w => \A t \in Tracker : ~TakenBy(t, w)
    BY <1>1, <1>3 DEF Token, NotTaken
  <2> HIDE DEF E, T, C
  <2>4. QED BY <1>2, <2>1, <2>2, <2>3
<1>6. QED BY <1>4, <1>5

(* A work is never on the queue twice, nor queued while a cancel has it.    *)
THEOREM PendingIsToken == WqSpec => []PendingToken
<1>1. WqInv => PendingToken
  BY TokenHolders DEF WqInv
<1>2. QED BY <1>1, WorkqueueInvariant, PTL

(* Never more callouts than trackers, with requests in every stage between  *)
(* counted and refused.                                                     *)
THEOREM WithinCapacity == WqSpec => []Capacity
<1>1. WqInv => Capacity
  BY DEF WqInv
<1>2. QED BY <1>1, WorkqueueInvariant, PTL

(* If refused requests are uncounted before the retry timer fires, an item  *)
(* on the queue never waits for nobody.                                     *)
THEOREM NothingStuck == ASSUME UncountPrompt = TRUE PROVE WqSpec => []NoStuckWork
<1>1. WqInv => NoStuckWork
  BY DEF WqInv, Retries
<1>2. QED BY <1>1, WorkqueueInvariant, PTL

(* cancel_work_sync() returns with no invocation running or to come.        *)
THEOREM CancelIsSync == WqSpec => []CancelSync
<1>1. WqInv => CancelSync
  <2> SUFFICES ASSUME WqInv, NEW w \in Work, cancel[w].pc = "clear"
               PROVE  /\ cancel[w].grabbed /\ Executing(w) = {} /\ ~OnQueue(w)
                      /\ timer[w] = "off" /\ entering[w] = NULL
    BY DEF CancelSync
  <2>1. cancel[w].grabbed /\ Executing(w) = {}
    BY DEF WqInv, Cancels, Executing
  <2>2. w \notin Queue /\ timer[w] = "off" /\ entering[w] = NULL
    BY <2>1 DEF WqInv, Tokens, Token
  <2>3. QED BY <2>1, <2>2, QueueMember
<1>2. QED BY <1>1, WorkqueueInvariant, PTL

(* flush_workqueue() returns when every callout it found, and every one     *)
(* started before its plunger, has completed.                               *)
THEOREM FlushIsSync == WqSpec => []FlushSync
<1>1. WqInv => FlushSync
  BY DEF WqInv, Flushes, FlushSync
<1>2. QED BY <1>1, WorkqueueInvariant, PTL

(* destroy_workqueue() frees a queue that nothing refers to.                *)
THEOREM FreedIsQuiet == WqSpec => []FreedQuiet
<1>1. WqInv => FreedQuiet
  <2> SUFFICES ASSUME WqInv, NEW d \in World, flush[d] = "gone"
               PROVE  /\ curPosted = 0 /\ posting = 0 /\ failing = 0 /\ requests = 0 /\ ~delayTimer
                      /\ head = <<>> /\ Busy = {} /\ trackFlush = {} /\ flushMutex = NULL
                      /\ \A w \in Work : timer[w] = "off" /\ entering[w] = NULL
    BY DEF FreedQuiet
  <2>1. setExitFlag /\ curPosted = 0 /\ ~delayTimer
    BY DEF WqInv, Destroys
  <2>2. posting = 0 /\ failing = 0 /\ requests = 0
    BY <2>1 DEF WqInv, Capacity, TypeOK
  <2>3. head = <<>> /\ Busy = {}
    BY <2>1, Emptied DEF WqInv
  <2>4. trackFlush = {}
    BY <2>3 DEF WqInv, Trackers
  <2>5. flushMutex = NULL
    <3>1. \A e \in World : ~Plunging(e)
      BY <2>1 DEF WqInv, Destroys, Plunging
    <3>2. QED BY <3>1 DEF WqInv, Flushes, TypeOK
  <2>6. \A w \in Work : timer[w] = "off" /\ entering[w] = NULL
    BY <2>1 DEF WqInv, Destroys, Tokens, Token
  <2>7. QED BY <2>1, <2>2, <2>3, <2>4, <2>5, <2>6
<1>2. QED BY <1>1, WorkqueueInvariant, PTL
=============================================================================
