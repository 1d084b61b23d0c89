------------------------------ MODULE WfsBert -------------------------------
(***************************************************************************)
(* The requester of the bit error rate test (ixgbe_wfs_bert.c) on top of   *)
(* the vmklinux work queue it runs on: start and stop by ioctl, the stop   *)
(* of close, the cleanup when the module goes, and bert_request_main(),    *)
(* the delayed work that sends a burst of packets and queues itself again. *)
(*                                                                         *)
(* vmklinux calls ioctl and close with the rtnl lock, and the cleanup      *)
(* comes after the device is unregistered, so start, stop and cleanup      *)
(* never overlap each other; the work and the worlds of the work queue run *)
(* beside them.                                                            *)
(***************************************************************************)
EXTENDS VmkWorkqueue

CONSTANTS
    myRequest,   \* the work of iwa->bert_ctrl
    module,      \* the world that runs ixgbe_wfs_bert_cleanup()
    Skb,         \* buffers the packet of a test may be built in
    Burst        \* packets per run of bert_request_main()

ASSUME BertAssumption ==
    /\ Work = {myRequest} /\ Delayed = {myRequest} /\ World = {module}
    /\ Burst \in Nat1 /\ NULL \notin Skb

VARIABLES
    on,       \* myRequest.on
    cfgOn,    \* bertcfg->on
    skb,      \* bertcfg->skb
    live,     \* the buffers that are allocated
    user,     \* where the caller of start, stop or cleanup is
    cleaning, \* this stop is the cleanup's
    body      \* where the bert_request_main() of each tracker is: packets left,
              \* and the buffer it is working with

bvars == <<wqvars, on, cfgOn, skb, live, user, cleaning, body>>
cfg   == <<on, cfgOn, skb, live>>

NoBody == [pc |-> "none", left |-> 0, using |-> NULL]

BertTypeOK ==
    /\ TypeOK
    /\ on \in BOOLEAN /\ cfgOn \in BOOLEAN /\ cleaning \in BOOLEAN
    /\ skb \in Skb \cup {NULL} /\ live \subseteq Skb
    /\ user \in {"idle", "init", "enter", "entered", "cancel", "free", "flush", "destroy", "gone"}
    /\ body \in [Tracker -> [pc : {"none", "send", "copy", "return"}, left : 0..Burst,
                             using : Skb \cup {NULL}]]

-----------------------------------------------------------------------------
(* ixgbe_wfs_bert_start_request() with no request on, under bert_lock: the  *)
(* packet is built in buffer b, or cannot be built (b = NULL) ...           *)
StartRequest(b) ==
    /\ user = "idle" /\ ~on
    /\ b \in (Skb \ live) \cup {NULL} /\ skb' = b
    /\ IF b = NULL THEN UNCHANGED <<on, cfgOn, live, user>>
       ELSE on' = TRUE /\ cfgOn' = TRUE /\ live' = live \cup {b} /\ user' = "init"
    /\ UNCHANGED <<wqvars, cleaning, body>>

(* ... and the lock dropped: INIT_DELAYED_WORK, and ...                     *)
StartInit ==
    /\ user = "init" /\ user' = "enter"
    /\ pending' = [pending EXCEPT ![myRequest] = FALSE]
    /\ timer' = [timer EXCEPT ![myRequest] = "off"]
    /\ UNCHANGED <<entering, head, tracker, trackFlush, posts, callers, owing, queued, cfg, cleaning, body>>

(* ... queue_delayed_work(), to its return.                                 *)
StartQueue ==
    /\ user = "enter" /\ user' = "entered"
    /\ Enter(myRequest, "delayed", 0)
    /\ UNCHANGED <<queued, cfg, cleaning, body>>

StartReturn ==
    /\ user = "entered" /\ entering[myRequest] = NULL /\ user' = "idle"
    /\ UNCHANGED <<wqvars, cfg, cleaning, body>>

(* Mutants: the stop does not cancel the work; it does not wait for it.     *)
StopNoCancel(last) ==
    /\ user = "idle" /\ on' = FALSE /\ user' = "free" /\ cleaning' = last
    /\ UNCHANGED <<wqvars, cfgOn, skb, live, body>>
StopNoWait ==
    /\ user = "cancel" /\ user' = "free"
    /\ UNCHANGED <<wqvars, cfg, cleaning, body>>

(* ixgbe_wfs_bert_stop_request(), under bert_lock up to the end of the      *)
(* cancel: called by the ioctl, by close, and by the cleanup.               *)
StopRequest(last) ==
    /\ user = "idle" /\ on' = FALSE /\ user' = "cancel" /\ cleaning' = last
    /\ CancelStart(myRequest)
    /\ UNCHANGED <<cfgOn, skb, live, body>>

StopCancelled ==
    /\ user = "cancel" /\ cancel[myRequest].pc = "none" /\ user' = "free"
    /\ UNCHANGED <<wqvars, cfg, cleaning, body>>

(* "clean up BERT configuration", without the lock                          *)
StopFree ==
    /\ user = "free" /\ user' = IF cleaning THEN "flush" ELSE "idle"
    /\ cfgOn' = FALSE /\ live' = live \ {skb} /\ skb' = NULL
    /\ UNCHANGED <<wqvars, on, cleaning, body>>

(* ixgbe_wfs_bert_cleanup() after the stop: flush_workqueue(),              *)
(* destroy_workqueue().                                                     *)
CleanupFlush ==
    /\ user = "flush" /\ flush[module] = "none" /\ user' = "destroy"
    /\ FlushStart(module)
    /\ UNCHANGED <<cfg, cleaning, body>>

CleanupDestroy ==
    /\ user = "destroy" /\ flush[module] = "none" /\ user' = "gone"
    /\ DestroyStart(module)
    /\ UNCHANGED <<cfg, cleaning, body>>

-----------------------------------------------------------------------------
(* bert_request_main(): Burst times ixgbe_wfs_send_bert(), which looks at   *)
(* bertcfg->skb, and with a packet there ...                                *)
BodyLoad(t) ==
    /\ body[t].pc = "send" /\ body[t].left > 0
    /\ body' = [body EXCEPT ![t] = IF skb = NULL THEN [@ EXCEPT !.left = body[t].left - 1]
                                   ELSE [@ EXCEPT !.pc = "copy", !.using = skb]]
    /\ UNCHANGED <<wqvars, cfg, user, cleaning>>

(* ... copies it, sends the copy and counts bertcfg->skb->len.              *)
BodyCopy(t) ==
    /\ body[t].pc = "copy"
    /\ body' = [body EXCEPT ![t] = [pc |-> "send", left |-> @.left - 1, using |-> NULL]]
    /\ UNCHANGED <<wqvars, cfg, user, cleaning>>

(* Mutant: the work queues itself before the burst too.                     *)
BodyRequeueTwice(t) ==
    /\ body[t].pc = "send" /\ body[t].left \in {0, Burst}
    /\ Requeue(t, "delayed")
    /\ body' = [body EXCEPT ![t] = IF @.left = 0 THEN [@ EXCEPT !.pc = "return"] ELSE [@ EXCEPT !.left = @ - 1]]
    /\ UNCHANGED <<queued, cfg, user, cleaning>>

(* The burst is out: queue_delayed_work() for the next second, whether the  *)
(* request is still on or not.                                              *)
BodyRequeue(t) ==
    /\ body[t].pc = "send" /\ body[t].left = 0
    /\ Requeue(t, "delayed")
    /\ body' = [body EXCEPT ![t].pc = "return"]
    /\ UNCHANGED <<queued, cfg, user, cleaning>>

BodyReturn(t) ==
    /\ tracker[t].item = myRequest => body[t].pc = "return"
    /\ CalloutDone(t)
    /\ body' = [body EXCEPT ![t] = NoBody]
    /\ UNCHANGED <<cfg, user, cleaning>>

(* The queue's own steps; a callout that begins to run enters the function. *)
QueueStep ==
    /\ body' = [t \in Tracker |->
                  IF tracker[t] = [item |-> myRequest, pc |-> "taken"] /\ tracker'[t].pc = "running"
                  THEN [pc |-> "send", left |-> Burst, using |-> NULL] ELSE body[t]]
    /\ UNCHANGED <<cfg, user, cleaning>>

BertInit ==
    /\ WqInit /\ on = FALSE /\ cfgOn = FALSE /\ skb = NULL /\ live = {}
    /\ user = "idle" /\ cleaning = FALSE /\ body = [t \in Tracker |-> NoBody]

Start == StartInit \/ StartQueue \/ StartReturn
Stop  == StopCancelled \/ StopFree \/ CleanupFlush \/ CleanupDestroy
Body(t) == BodyLoad(t) \/ BodyCopy(t) \/ BodyRequeue(t) \/ BodyReturn(t)

BertNext ==
    \/ \E b \in Skb \cup {NULL} : StartRequest(b)
    \/ \E last \in BOOLEAN : StopRequest(last)
    \/ Start \/ Stop
    \/ \E t \in Tracker : Body(t)
    \/ WqStep /\ QueueStep

BertSpec == BertInit /\ [][BertNext]_bvars

BertFairSpec ==
    /\ BertSpec /\ WF_bvars(Start) /\ WF_bvars(Stop)
    /\ WF_bvars(Posting /\ QueueStep) /\ SF_bvars(Submit /\ QueueStep) /\ WF_bvars(CalloutEmpty /\ QueueStep)
    /\ \A t \in Tracker : WF_bvars(Body(t)) /\ WF_bvars(Callout(t) /\ QueueStep)
    /\ WF_bvars(Entering(myRequest) /\ QueueStep) /\ WF_bvars(CancelSteps(myRequest) /\ QueueStep)
    /\ WF_bvars(FlushSteps(module) /\ QueueStep)

-----------------------------------------------------------------------------
(* The packet a run of bert_request_main() copies stays allocated, and the  *)
(* one bertcfg points to (its length is read again after the send), until   *)
(* the run is through: a stop frees it only after the cancel.               *)
PacketAlive ==
    \A t \in Tracker : body[t].pc = "copy" => body[t].using \in live /\ skb = body[t].using

(* INIT_DELAYED_WORK never hits a work in use, and no packet of an earlier  *)
(* test is left behind: whoever finds the request off has the work idle and *)
(* the packet freed.                                                        *)
WorkIdle == /\ Holders(myRequest) = {} /\ Executing(myRequest) = {} /\ ~pending[myRequest]
StartsClean == /\ user = "init" => WorkIdle
               /\ user = "idle" /\ ~on => WorkIdle /\ skb = NULL /\ ~cfgOn
               /\ live = {skb} \ {NULL}

(* Two runs of the work never send at the same time, although the queue has *)
(* several helpers and the work queues itself before it returns.            *)
OneSender == \A t, u \in Tracker : {body[t].pc, body[u].pc} \subseteq {"send", "copy"} => t = u

(* A stop comes back: one that never did would see the delay timer run out  *)
(* again and again between its two attempts to take the pending bit.  And   *)
(* the cleanup ends with the queue freed.                                   *)
StopReturns ==
    /\ <>[](user = "cancel") => []<>(timer[myRequest] = "firing")
    /\ (user \in {"free", "flush"}) ~> (user = "idle" \/ flush[module] = "gone")
=============================================================================
