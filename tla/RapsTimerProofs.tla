-------------------------- MODULE RapsTimerProofs --------------------------
(***************************************************************************)
(* Starting and stopping the RAPS engine, for any number of timers the     *)
(* kernel may hand out and any number of opens and closes.                 *)
(*                                                                         *)
(* That there is one engine (OneEngine) is not inductive.  It follows from *)
(* what raps_timer.vmk_handle names: whatever timer is pending, whatever   *)
(* handler has yet to arm one, it is the timer of that handle (Named).     *)
(* raps_stop() compares handles too, so it also needs that nobody arms the *)
(* timer behind it: raps_lock is held by whoever is in its section         *)
(* (LockOwner), and raps_stop() looks at a handle that is still the last   *)
(* one (Stopping).                                                         *)
(***************************************************************************)
EXTENDS RapsTimer, FiniteSetTheorems, TLAPS

(* The engine is the timer vmk_handle names, pending or in its handler.     *)
Named ==
    /\ pending \cup Active \subseteq {vmk_handle}
    /\ \A t \in pending : handler[t] = "none"
    /\ ~bug

(* A handler between lock and unlock owns raps_lock.                        *)
LockOwner == \A t \in Handle : handler[t] \in {"body", "unlock"} => raps_lock = t

(* raps_stop() owns raps_lock while it deletes the timer, and the handle it *)
(* has read is still that of the timer.                                     *)
Stopping ==
    /\ ctl \in {"del", "unlock"} => raps_lock = Stopper
    /\ ctl = "del" => h = vmk_handle

(* Stopped, and not started again yet: nothing is left of the engine, not   *)
(* even a handler about to release the lock that raps_start() initialises.  *)
Stopped ==
    state = "closed" \/ ctl \in {"start", "unlock", "down"} =>
        pending = {} /\ \A t \in Handle : handler[t] = "none"

(* Started, and not stopped yet: there is an engine.                        *)
Started ==
    state = "opened" /\ ctl \in {"idle", "stop", "del"} => pending \cup Active # {}

ClosedIdle == state = "closed" => ctl = "idle"

IInv == /\ TypeOK /\ Named /\ LockOwner /\ Stopping
        /\ Stopped /\ Started /\ ClosedIdle

-----------------------------------------------------------------------------
(* Types are kept by every step of the control path and of the handlers.    *)
LEMMA TypeStep == TypeOK /\ [Next]_vars => TypeOK'
<1> SUFFICES ASSUME TypeOK, [Next]_vars PROVE TypeOK'
  OBVIOUS
<1> USE DEF TypeOK
<1>1. CASE Control
  BY <1>1 DEF Control, Open, Start, Close, StopLock, StopDel, StopUnlock, Down, add_timer
<1>2. ASSUME NEW t \in Handle, Engine(t) PROVE TypeOK'
  BY <1>2 DEF Engine, Fire, MainLock, MainRearm, MainUnlock, add_timer
<1>3. CASE UNCHANGED vars
  BY <1>3 DEF vars
<1>4. QED BY <1>1, <1>2, <1>3 DEF Next

(* What add_timer() does when raps_timer is not pending: the new timer is   *)
(* one nothing refers to, and it is the engine from now on.                 *)
LEMMA AddTimer ==
    ASSUME TypeOK, NEW c, c \notin pending, add_timer(c)
    PROVE  /\ bug' = bug
           /\ vmk_handle' \in Handle /\ pending' = pending \cup {vmk_handle'}
           /\ vmk_handle' # c /\ handler[vmk_handle'] = "none"
BY DEF add_timer, TypeOK

LEMMA InitIInv == Init => IInv
BY HandleAssumption
   DEF Init, IInv, TypeOK, Named, LockOwner, Stopping, Stopped, Started, ClosedIdle, Active

(* The control path: ixgbe_open() and ixgbe_close().                        *)
LEMMA ControlStep == ASSUME IInv, Control PROVE IInv'
<1> USE HandleAssumption DEF IInv, TypeOK, Named, LockOwner, Stopping, Stopped, Started, ClosedIdle, Active
<1>0. TypeOK'
  BY TypeStep DEF Next
<1>1. CASE Open
  BY <1>0, <1>1 DEF Open
<1>2. CASE Start
  <2>1. VMK_INVALID_TIMER \notin pending
    OBVIOUS
  <2>2. /\ bug' = bug /\ vmk_handle' \in Handle /\ pending' = pending \cup {vmk_handle'}
        /\ ctl' = "idle" /\ UNCHANGED <<state, h, handler, raps_lock>>
    BY <1>2, <2>1, AddTimer DEF Start
  <2>3. pending = {} /\ (\A t \in Handle : handler[t] = "none") /\ state = "opened"
    BY <1>2 DEF Start
  <2>4. QED BY <1>0, <2>2, <2>3
<1>3. CASE Close
  BY <1>0, <1>3 DEF Close
<1>4. CASE StopLock
  BY <1>0, <1>4 DEF StopLock
<1>5. CASE StopDel
  <2>1. ctl = "del" /\ h = vmk_handle /\ raps_lock = Stopper /\ handler[h] = "none"
    BY <1>5 DEF StopDel
  <2>2. /\ pending' = pending \ {h} /\ ctl' = "unlock"
        /\ UNCHANGED <<state, h, vmk_handle, handler, raps_lock, bug>>
    BY <1>5, <2>1 DEF StopDel
  <2>3. pending' = {} /\ \A t \in Handle : handler[t] = "none"
    BY <2>1, <2>2
  <2>4. QED BY <1>0, <2>1, <2>2, <2>3
<1>6. CASE StopUnlock
  BY <1>0, <1>6 DEF StopUnlock
<1>7. CASE Down
  BY <1>0, <1>7 DEF Down
<1>8. QED
  BY <1>1, <1>2, <1>3, <1>4, <1>5, <1>6, <1>7 DEF Control

(* The engine itself: the timer goes off, and raps_main() runs.             *)
LEMMA EngineStep == ASSUME IInv, NEW t \in Handle, Engine(t) PROVE IInv'
<1> USE HandleAssumption DEF IInv, TypeOK, Named, LockOwner, Stopping, Stopped, Started, ClosedIdle, Active
<1>0. TypeOK'
  BY TypeStep DEF Next
<1>1. CASE Fire(t)
  BY <1>0, <1>1 DEF Fire
<1>2. CASE MainLock(t)
  BY <1>0, <1>2 DEF MainLock
<1>3. CASE MainRearm(t)
  <2>1. t = vmk_handle /\ pending = {} /\ handler[t] = "body" /\ raps_lock = t
    BY <1>3 DEF MainRearm
  <2>2. /\ bug' = bug /\ vmk_handle' \in Handle /\ pending' = pending \cup {vmk_handle'}
        /\ vmk_handle' # t /\ handler[vmk_handle'] = "none"
    BY <1>3, <2>1, AddTimer DEF MainRearm
  <2>3. handler' = [handler EXCEPT ![t] = "unlock"] /\ UNCHANGED <<state, ctl, h, raps_lock>>
    BY <1>3 DEF MainRearm
  <2>4. QED BY <1>0, <2>1, <2>2, <2>3
<1>4. CASE MainUnlock(t)
  BY <1>0, <1>4 DEF MainUnlock
<1>5. QED BY <1>1, <1>2, <1>3, <1>4 DEF Engine

(* The inductive invariant holds throughout.                                *)
THEOREM TimerInvariant == Spec => []IInv
<1>1. IInv /\ [Next]_vars => IInv'
  <2> SUFFICES ASSUME IInv, [Next]_vars PROVE IInv'
    OBVIOUS
  <2>1. CASE UNCHANGED vars
    BY <2>1 DEF vars, IInv, TypeOK, Named, LockOwner, Stopping, Stopped, Started, ClosedIdle, Active
  <2>2. QED BY <2>1, ControlStep, EngineStep DEF Next
<1>2. QED BY <1>1, InitIInv, PTL DEF Spec

(* At most one timer or handler carries the engine on, through any number   *)
(* of opens and closes, and the BUG_ON() of add_timer() never fires.        *)
THEOREM OneEngineAlways == Spec => []OneEngine
<1>1. IInv => OneEngine
  <2> SUFFICES ASSUME IInv PROVE OneEngine
    OBVIOUS
  <2>1. pending \cup Active \in SUBSET {vmk_handle} /\ ~bug
    BY DEF IInv, Named
  <2>2. IsFiniteSet({vmk_handle}) /\ Cardinality({vmk_handle}) = 1
    BY FS_Singleton
  <2>3. Cardinality(pending \cup Active) <= 1
    BY <2>1, <2>2, FS_Subset
  <2>4. QED BY <2>1, <2>3 DEF OneEngine
<1>2. QED BY <1>1, TimerInvariant, PTL

(* ixgbe_close() leaves no timer and no handler that would arm one.         *)
THEOREM QuietWhenClosedAlways == Spec => []QuietWhenClosed
<1>1. IInv => QuietWhenClosed
  BY DEF IInv, Stopped, QuietWhenClosed, Active
<1>2. QED BY <1>1, TimerInvariant, PTL

(* An open device that nobody closes has its engine.                        *)
THEOREM EngineAliveAlways == Spec => []EngineAlive
<1>1. IInv => EngineAlive
  BY DEF IInv, Started, EngineAlive
<1>2. QED BY <1>1, TimerInvariant, PTL
=============================================================================
