----------------------------- MODULE RapsTimer -----------------------------
(***************************************************************************)
(* How the RAPS engine is started and stopped: raps_timer, the one-shot    *)
(* timer whose handler raps_main() arms it again, raps_lock, and           *)
(* ixgbe_wfs_raps_start() and ixgbe_wfs_raps_stop() under ixgbe_open() and *)
(* ixgbe_close().  What a run of raps_main() does is in module WfsRaps.    *)
(*                                                                         *)
(* The timers of the kernel (vmklinux over vmkapi) are external: a timer   *)
(* fires once, its handler runs on another processor, vmk_handle names the *)
(* timer scheduled last.                                                   *)
(***************************************************************************)
EXTENDS Naturals, FiniteSets

CONSTANTS Handle,            \* names of vmkapi timers
          VMK_INVALID_TIMER, \* names none
          Free, Stopper      \* owners of raps_lock other than a handler

ASSUME HandleAssumption ==
    /\ VMK_INVALID_TIMER \notin Handle /\ Free \notin Handle /\ Stopper \notin Handle
    /\ Free # Stopper

VARIABLES
    state,      \* iwa->state: "opened" or "closed"
    ctl,        \* where open or close is
    h,          \* del_timer_sync's copy of the handle
    vmk_handle, \* raps_timer.vmk_handle
    pending,    \* timers scheduled and not yet fired
    handler,    \* where raps_main() is, for each timer that has fired
    raps_lock,  \* its owner
    bug         \* the BUG_ON(timer_pending()) of add_timer() has fired

vars == <<state, ctl, h, vmk_handle, pending, handler, raps_lock, bug>>

TypeOK ==
    /\ state \in {"opened", "closed"}
    /\ ctl \in {"idle", "start", "stop", "del", "unlock", "down"}
    /\ h \in Handle \cup {VMK_INVALID_TIMER}
    /\ vmk_handle \in Handle \cup {VMK_INVALID_TIMER}
    /\ pending \in SUBSET Handle
    /\ handler \in [Handle -> {"none", "lock", "body", "unlock"}]
    /\ raps_lock \in Handle \cup {Free, Stopper}
    /\ bug \in BOOLEAN

(* add_timer(): BUG_ON(timer_pending(timer)), then vmk_TimerSchedule hands   *)
(* out a timer nothing refers to.                                           *)
add_timer(current) ==
    IF current \in pending
    THEN bug' = TRUE /\ UNCHANGED <<pending, vmk_handle>>
    ELSE /\ \E n \in Handle \ (pending \cup {current, h}) :
              handler[n] = "none" /\ vmk_handle' = n /\ pending' = pending \cup {n}
         /\ UNCHANGED bug

-----------------------------------------------------------------------------
(* The timer goes off: raps_main() starts ...                               *)
Fire(t) ==
    /\ t \in pending
    /\ pending' = pending \ {t} /\ handler' = [handler EXCEPT ![t] = "lock"]
    /\ UNCHANGED <<state, ctl, h, vmk_handle, raps_lock, bug>>

(* Mutant: the timer is not armed again.                                    *)
MainNoRearm(t) ==
    /\ handler[t] = "body" /\ handler' = [handler EXCEPT ![t] = "unlock"]
    /\ UNCHANGED <<state, ctl, h, vmk_handle, pending, raps_lock, bug>>

(* ... takes raps_lock ...                                                  *)
MainLock(t) ==
    /\ handler[t] = "lock" /\ raps_lock = Free
    /\ raps_lock' = t /\ handler' = [handler EXCEPT ![t] = "body"]
    /\ UNCHANGED <<state, ctl, h, vmk_handle, pending, bug>>

(* ... arms the timer again when its work is done ...                       *)
MainRearm(t) ==
    /\ handler[t] = "body" /\ add_timer(vmk_handle)
    /\ handler' = [handler EXCEPT ![t] = "unlock"]
    /\ UNCHANGED <<state, ctl, h, raps_lock>>

(* ... and releases the lock.                                               *)
MainUnlock(t) ==
    /\ handler[t] = "unlock"
    /\ raps_lock' = Free /\ handler' = [handler EXCEPT ![t] = "none"]
    /\ UNCHANGED <<state, ctl, h, vmk_handle, pending, bug>>

-----------------------------------------------------------------------------
(* ixgbe_open() and the first part of raps_start(): state is opened and     *)
(* raps_lock is initialised, whoever holds it.                              *)
Open ==
    /\ state = "closed" /\ ctl = "idle"
    /\ state' = "opened" /\ ctl' = "start" /\ raps_lock' = Free
    /\ UNCHANGED <<h, vmk_handle, pending, handler, bug>>

(* The end of raps_start(): init_timer() forgets the handle, add_timer().   *)
Start ==
    /\ ctl = "start" /\ add_timer(VMK_INVALID_TIMER)
    /\ ctl' = "idle"
    /\ UNCHANGED <<state, h, handler, raps_lock>>

(* ixgbe_close(): only when opened.                                         *)
Close ==
    /\ state = "opened" /\ ctl = "idle" /\ ctl' = "stop"
    /\ UNCHANGED <<state, h, vmk_handle, pending, handler, raps_lock, bug>>

(* raps_stop(): raps_lock, and in it del_timer_sync() ...                   *)
StopLock ==
    /\ ctl = "stop" /\ raps_lock = Free
    /\ raps_lock' = Stopper /\ ctl' = "del" /\ h' = vmk_handle
    /\ UNCHANGED <<state, vmk_handle, pending, handler, bug>>

(* Mutant: del_timer() instead, which does not wait for the handler.        *)
StopDelNoWait ==
    /\ ctl = "del"
    /\ pending' = pending \ {h}
    /\ IF h \in pending \/ h = vmk_handle THEN ctl' = "unlock" /\ UNCHANGED h
                                          ELSE ctl' = "del" /\ h' = vmk_handle
    /\ UNCHANGED <<state, vmk_handle, handler, raps_lock, bug>>

(* ... which takes a pending timer off, else waits for its handler, and     *)
(* tries again when the handle is another one by then ...                   *)
StopDel ==
    /\ ctl = "del" /\ handler[h] = "none"
    /\ pending' = pending \ {h}
    /\ IF h \in pending \/ h = vmk_handle THEN ctl' = "unlock" /\ UNCHANGED h
                                          ELSE ctl' = "del" /\ h' = vmk_handle
    /\ UNCHANGED <<state, vmk_handle, handler, raps_lock, bug>>

StopUnlock ==
    /\ ctl = "unlock" /\ raps_lock' = Free /\ ctl' = "down"
    /\ UNCHANGED <<state, h, vmk_handle, pending, handler, bug>>

(* ... and the rest of ixgbe_close().                                       *)
Down ==
    /\ ctl = "down" /\ ctl' = "idle" /\ state' = "closed" /\ h' = VMK_INVALID_TIMER
    /\ UNCHANGED <<vmk_handle, pending, handler, raps_lock, bug>>

-----------------------------------------------------------------------------
Init ==
    /\ state = "closed" /\ ctl = "idle" /\ h = VMK_INVALID_TIMER
    /\ vmk_handle = VMK_INVALID_TIMER /\ pending = {}
    /\ handler = [t \in Handle |-> "none"] /\ raps_lock = Free /\ bug = FALSE

Engine(t) == Fire(t) \/ MainLock(t) \/ MainRearm(t) \/ MainUnlock(t)
Control == Open \/ Start \/ Close \/ StopLock \/ StopDel \/ StopUnlock \/ Down
Next == Control \/ \E t \in Handle : Engine(t)

Spec == Init /\ [][Next]_vars

(* Timers fire, handlers and close() run on; a spinlock waited for is got.  *)
FairSpec ==
    /\ Spec
    /\ SF_vars(StopLock) /\ WF_vars(Start \/ StopDel \/ StopUnlock \/ Down)
    /\ \A t \in Handle : WF_vars(Fire(t)) /\ SF_vars(MainLock(t)) /\ WF_vars(MainRearm(t) \/ MainUnlock(t))

-----------------------------------------------------------------------------
(* Handlers that have yet to arm the timer.                                 *)
Active == {t \in Handle : handler[t] \in {"lock", "body"}}

(* The engine never runs twice: of all timers scheduled and handlers that   *)
(* will schedule one there is at most one, through any number of opens and  *)
(* closes, and so add_timer() never finds raps_timer pending.               *)
OneEngine == Cardinality(pending \cup Active) <= 1 /\ ~bug

(* A closed device has no timer and no raps_main() left that would touch    *)
(* the adapters and arm the timer again.                                    *)
QuietWhenClosed == state = "closed" => pending = {} /\ Active = {}

(* While the device is open, and nobody is closing it, the engine is alive: *)
(* a lost timer would stop announces, aging and protection for good.        *)
EngineAlive == state = "opened" /\ ctl = "idle" => pending \cup Active # {}

(* A close that was begun completes.                                        *)
CloseCompletes == ctl = "stop" ~> ctl = "idle"
=============================================================================
