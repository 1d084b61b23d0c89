--------------------------- MODULE WfsRapsProofs ---------------------------
(***************************************************************************)
(* The safety of the RAPS engine for every number of stations, every       *)
(* number of event buffers and every setting of the timers.                *)
(*                                                                         *)
(* The BUG_ON()s of wfs_fsm_run() (ActiveChannel) are not inductive: they  *)
(* need that the state of a remote peer follows its channels, that an      *)
(* announce in the queue carries the port it came through, and that the    *)
(* local station keeps the two ports it was started with.                  *)
(*                                                                         *)
(* Three properties rest on the event buffers.  They are never shared,     *)
(* whatever happens (BufferInv).  While they last (Spare) no event is      *)
(* lost: then every expiry is on its way, and the end of a failure is      *)
(* queued behind its begin (Recovery).                                     *)
(***************************************************************************)
EXTENDS WfsRaps, TLAPS, FiniteSetTheorems, FunctionTheorems

(* The part of StateFollowsChannels and DistinctChannels about one record.  *)
Follows(p) == p.fsm_state = IF p.channel_pri # NULL THEN "S_idle"
                            ELSE IF p.channel_sec # NULL THEN "S_protect" ELSE "S_init"
Distinct(p) == p.channel_pri # NULL => p.channel_pri # p.channel_sec

(* The local station: not entered yet, or with both its ports for good.     *)
LocalChannels ==
    LET p == wfspeer[myID]
    IN  \/ p.fsm_state = "S_init" /\ p.channel_pri = NULL /\ p.channel_sec = NULL
        \/ p.channel_pri = primary /\ p.channel_sec = secondary

(* A queued announce of a remote peer names the port it came through.       *)
Carries(ev) == ev.event = "E_discover" => ev.recv # NULL
AnnouncesCarryPort ==
    \A id \in Remote : \A i \in 1..Len(queue[id]) : Carries(queue[id][i])

(* While raps_main() is between the load and the store of a clear, the      *)
(* other contexts can only have raised FSM_EVENT, and nobody has woken a    *)
(* peer.                                                                    *)
ClearPending ==
    /\ rm \in {"clrNR", "clrTTL"} => reg \ {"FSM_EVENT"} = flag \ {"FSM_EVENT"}
    /\ rm = "clrTTL" => \A id \in Remote : wfspeer[id].fsm_state = "S_init"

-----------------------------------------------------------------------------
LEMMA CardinalityType ==
    ASSUME NEW K \in SUBSET WfsId
    PROVE  Cardinality(K) \in Nat
<1>1. IsFiniteSet(WfsId)
  BY FS_Interval, ConstantsAssumption DEF WfsId, Nat1
<1>2. IsFiniteSet(K)
  BY <1>1, FS_Subset
<1>3. QED BY <1>2, FS_CardinalityType

LEMMA AllocType ==
    ASSUME free \in Nat, count \in 0..EVBUF_MAX_NUM, NEW n \in Nat, AllocEvents(n)
    PROVE  free' \in Nat /\ count' \in 0..EVBUF_MAX_NUM
BY ConstantsAssumption DEF AllocEvents

LEMMA SetEventType ==
    ASSUME TypeOK, NEW ids \in SUBSET WfsId, NEW ev \in Event, set_event(ids, ev)
    PROVE  /\ queue' \in [WfsId -> Seq(Event)]
           /\ free' \in Nat /\ count' \in 0..EVBUF_MAX_NUM
           /\ flag' \in SUBSET Flags /\ raced' \in BOOLEAN
<1>1. CASE iwa \in {"closed", "opening"}
  BY <1>1 DEF set_event, TypeOK
<1>2. CASE iwa \notin {"closed", "opening"}
  <2>1. PICK K \in SUBSET ids : Enqueue(K, ev)
    BY <1>2 DEF set_event
  <2>2. Cardinality(K) \in Nat
    BY <2>1, CardinalityType
  <2>3. free' \in Nat /\ count' \in 0..EVBUF_MAX_NUM
    BY <2>1, <2>2, AllocType DEF Enqueue, TypeOK
  <2>4. queue' \in [WfsId -> Seq(Event)]
    BY <2>1 DEF Enqueue, TypeOK
  <2>5. flag' \in SUBSET Flags /\ raced' \in BOOLEAN
    BY <2>1 DEF Enqueue, TypeOK, Flags
  <2>6. QED BY <2>3, <2>4, <2>5
<1>3. QED BY <1>1, <1>2

LEMMA FailoverType ==
    ASSUME NEW s \in wfs_fsm_state, NEW pri \in BOOLEAN, NEW sec \in BOOLEAN,
           NEW local \in BOOLEAN
    PROVE  Failover(s, pri, sec, local) \in wfs_fsm_state
BY DEF Failover, wfs_fsm_state

LEMMA TransitType ==
    ASSUME NEW id \in WfsId, NEW p \in Peer, NEW ev \in Event
    PROVE  Transit(id, p, ev) \in Peer
<1>0. RAPS_PEER_TIMEOUT \in Nat /\ NULL \in Channel
  BY ConstantsAssumption DEF Nat1, Channel
<1>1. CASE ev.event = "E_discover"
  <2>1. UpdateChannels(p, ev) \in Peer
    BY <1>0 DEF UpdateChannels, Peer, Event
  <2>2. \A q \in Peer : [q EXCEPT !.fsm_state = DiscoverState(q)] \in Peer
    BY DEF DiscoverState, Peer, wfs_fsm_state
  <2>3. QED BY <1>1, <2>1, <2>2 DEF Transit, action_discover
<1>2. CASE ev.event = "E_expire"
  <2>1. action_expire(p) \in Peer
    BY <1>0 DEF action_expire, Peer, wfs_fsm_state, Failover, Up
  <2>2. QED BY <1>2, <2>1 DEF Transit
<1>3. CASE ev.event = "E_localSF"
  <2>1. action_localSF(id, p) \in Peer
    BY <1>0 DEF action_localSF, Peer, wfs_fsm_state, Failover, LinkUp
  <2>2. QED BY <1>3, <2>1 DEF Transit
<1>4. CASE ev.event \in {"E_clear_localSF", "E_rapsNR"}
  BY <1>4 DEF Transit, RevertToPrimary, Peer, wfs_fsm_state
<1>5. CASE ev.event = "E_rapsSF"
  <2>1. action_rapsSF(p, ev) \in Peer
    BY <1>0 DEF action_rapsSF, Peer, wfs_fsm_state, Failover, Up
  <2>2. QED BY <1>5, <2>1 DEF Transit
<1>6. QED BY <1>1, <1>2, <1>3, <1>4, <1>5 DEF Event, wfs_fsm_event

LEMMA ControlType ==
    ASSUME TypeOK, NEW id \in WfsId, NEW ev \in Event, Control(id, ev)
    PROVE  /\ flag' \in SUBSET Flags
           /\ t_announce' \in Nat /\ t_rapsSF' \in Nat /\ t_rapsNR' \in Nat /\ c_rapsNR' \in Nat
<1> USE ConstantsAssumption DEF Nat1, timers, Control, TypeOK
<1>1. CASE ev.event = "E_discover" /\ id = myID
  BY <1>1 DEF Flags
<1>2. CASE ev.event = "E_discover" /\ id # myID
  BY <1>2 DEF Flags
<1>3. CASE ev.event = "E_localSF" /\ id = myID
  BY <1>3 DEF Flags
<1>4. CASE ev.event = "E_clear_localSF"
  BY <1>4 DEF Flags
<1>5. CASE /\ ev.event \notin {"E_discover", "E_clear_localSF"}
           /\ ~(ev.event = "E_localSF" /\ id = myID)
  BY <1>5
<1>6. QED BY <1>1, <1>2, <1>3, <1>4, <1>5

(* A queue with an event more, and the queue of a station just started.     *)
LEMMA AppendType ==
    ASSUME NEW q \in [WfsId -> Seq(Event)], NEW K, NEW ev \in Event
    PROVE  [id \in WfsId |-> IF id \in K THEN Append(q[id], ev) ELSE q[id]]
              \in [WfsId -> Seq(Event)]
OBVIOUS

LEMMA EvType == \A e \in wfs_fsm_event : Ev(e) \in Event
BY DEF Ev, Event, Channel

(* Type correctness of every step of the engine, its inputs and open/close. *)
LEMMA TypeStep == TypeOK /\ [Next]_vars => TypeOK'
<1> SUFFICES ASSUME TypeOK, [Next]_vars PROVE TypeOK'
  OBVIOUS
<1> USE ConstantsAssumption
<1>1. CASE UNCHANGED vars
  BY <1>1 DEF vars, timers, links, TypeOK
<1>2. CASE RapsMain
  BY <1>2 DEF RapsMain, timers, links, TypeOK
<1>3. ASSUME NEW id \in WfsId, FsmEvent(id) PROVE TypeOK'
  <2>1. wfspeer[id] \in Peer /\ Head(queue[id]) \in Event /\ Tail(queue[id]) \in Seq(Event)
    BY <1>3 DEF FsmEvent, TypeOK
  <2>2. Transit(id, wfspeer[id], Head(queue[id])) \in Peer
    BY <2>1, TransitType
  <2>3. wfspeer' \in [WfsId -> Peer]
    BY <1>3, <2>2 DEF FsmEvent, TypeOK
  <2>4. queue' \in [WfsId -> Seq(Event)]
    BY <1>3, <2>1 DEF FsmEvent, TypeOK
  <2>5. /\ flag' \in SUBSET Flags
        /\ t_announce' \in Nat /\ t_rapsSF' \in Nat /\ t_rapsNR' \in Nat /\ c_rapsNR' \in Nat
    <3>1. \/ Control(id, Head(queue[id]))
          \/ UNCHANGED <<flag, timers>>
      BY <1>3 DEF FsmEvent
    <3>2. CASE Control(id, Head(queue[id]))
      BY <3>2, ControlType, <2>1
    <3>3. CASE UNCHANGED <<flag, timers>>
      BY <3>3 DEF TypeOK, timers
    <3>4. QED BY <3>1, <3>2, <3>3
  <2>6. QED BY <1>3, <2>3, <2>4, <2>5 DEF FsmEvent, TypeOK, links
<1>4. CASE FsmDone
  BY <1>4 DEF FsmDone, timers, links, TypeOK
<1>5. CASE RapsTimers
  <2>1. /\ t_announce' \in Nat /\ t_rapsSF' \in Nat /\ t_rapsNR' \in Nat /\ c_rapsNR' \in Nat
    BY <1>5 DEF RapsTimers, Dec, TypeOK, Nat1
  <2>2. /\ sent' \in SUBSET {"announce", "NR", "SF"}
        /\ rm' \in {"idle", "fsm", "timers", "clrNR", "ttl", "clrTTL"}
        /\ reg' \in SUBSET Flags /\ raced' \in BOOLEAN
    BY <1>5 DEF RapsTimers, TypeOK
  <2>3. QED BY <1>5, <2>1, <2>2 DEF RapsTimers, TypeOK, links
<1>6. CASE RapsClearNR
  BY <1>6 DEF RapsClearNR, ClearFlag, timers, links, TypeOK
<1>7. CASE RapsUpdatePeers
  <2>1. \A p \in Peer : AgePeer(p) \in Peer
    <3> SUFFICES ASSUME NEW p \in Peer PROVE AgePeer(p) \in Peer
      OBVIOUS
    <3>1. Dec(p.ttl_pri) \in Nat /\ Dec(p.ttl_sec) \in Nat
      BY DEF Dec, Peer
    <3>2. QED BY <3>1 DEF AgePeer, Peer
  <2>2. wfspeer' \in [WfsId -> Peer]
    BY <1>7, <2>1 DEF RapsUpdatePeers, TypeOK
  <2>3. PICK K \in SUBSET ActivePeers :
          /\ AllocEvents(Cardinality(K))
          /\ queue' = [id \in WfsId |-> IF id \in K THEN Append(queue[id], Ev("E_expire"))
                                                    ELSE queue[id]]
          /\ flag' = IF K = {} THEN flag ELSE flag \cup {"FSM_EVENT"}
    BY <1>7 DEF RapsUpdatePeers
  <2>4. Cardinality(K) \in Nat
    BY CardinalityType DEF ActivePeers, Remote
  <2>5. free' \in Nat /\ count' \in 0..EVBUF_MAX_NUM
    BY <2>3, <2>4, AllocType DEF TypeOK
  <2>6. queue' \in [WfsId -> Seq(Event)] /\ flag' \in SUBSET Flags
    <3>1. Ev("E_expire") \in Event
      BY EvType DEF wfs_fsm_event
    <3>2. queue' \in [WfsId -> Seq(Event)]
      BY <2>3, <3>1, AppendType DEF TypeOK
    <3>3. QED BY <2>3, <3>2 DEF TypeOK, Flags
  <2>7. QED BY <1>7, <2>2, <2>5, <2>6 DEF RapsUpdatePeers, TypeOK, timers, links
<1>8. CASE RapsNoPeers
  BY <1>8 DEF RapsNoPeers, timers, links, TypeOK
<1>9. CASE RapsClearTTL
  BY <1>9 DEF RapsClearTTL, ClearFlag, timers, links, TypeOK
<1>10. ASSUME NEW id \in Remote, NEW p \in Port, NEW pri \in BOOLEAN, RecvAnnounce(id, p, pri)
       PROVE  TypeOK'
  <2>1. [event |-> "E_discover", onPrimary |-> pri, recv |-> p] \in Event /\ {id} \in SUBSET WfsId
    BY DEF Event, wfs_fsm_event, Channel, Remote
  <2>2. inputs' \in 0..MaxInputs
    BY <1>10 DEF RecvAnnounce, Input, TypeOK
  <2>3. set_event({id}, [event |-> "E_discover", onPrimary |-> pri, recv |-> p])
    BY <1>10 DEF RecvAnnounce
  <2>4. QED BY <1>10, <2>1, <2>2, <2>3, SetEventType DEF RecvAnnounce, TypeOK, timers, links
<1>11. ASSUME NEW id \in Remote, NEW p \in Port, RecvRapsNR(id, p) PROVE TypeOK'
  <2>1. Ev("E_rapsNR") \in Event /\ {id} \in SUBSET WfsId
    BY EvType DEF wfs_fsm_event, Remote
  <2>2. inputs' \in 0..MaxInputs
    BY <1>11 DEF RecvRapsNR, Input, TypeOK
  <2>3. QED BY <1>11, <2>1, <2>2, SetEventType DEF RecvRapsNR, TypeOK, timers, links
<1>12. ASSUME NEW id \in Remote, NEW p \in Port, RecvRapsSF(id, p) PROVE TypeOK'
  BY <1>12 DEF RecvRapsSF, Input, TypeOK, timers, links
<1>13. ASSUME NEW p \in Port, QueueRapsSF(p) PROVE TypeOK'
  <2>1. rx[p] \in [id : Remote, onPrimary : BOOLEAN]
    BY <1>13 DEF QueueRapsSF, TypeOK
  <2>2. /\ [event |-> "E_rapsSF", onPrimary |-> rx[p].onPrimary, recv |-> NULL] \in Event
        /\ {rx[p].id} \in SUBSET WfsId
    BY <2>1 DEF Event, wfs_fsm_event, Channel, Remote
  <2>3. QED BY <1>13, <2>2, SetEventType DEF QueueRapsSF, TypeOK, timers, links
<1>14. ASSUME NEW p \in Port, LinkChange(p) PROVE TypeOK'
  BY <1>14 DEF LinkChange, Input, TypeOK, timers
<1>15. ASSUME NEW p \in Port, LinkIsUp(p) PROVE TypeOK'
  BY <1>15 DEF LinkIsUp, TypeOK, timers
<1>16. ASSUME NEW p \in Port, LinkClearSF(p) PROVE TypeOK'
  <2>1. Ev("E_clear_localSF") \in Event
    BY EvType DEF wfs_fsm_event
  <2>2. QED BY <1>16, <2>1, SetEventType DEF LinkClearSF, TypeOK, timers
<1>17. ASSUME NEW p \in Port, LinkIsDown(p) PROVE TypeOK'
  <2>1. Ev("E_localSF") \in Event
    BY EvType DEF wfs_fsm_event
  <2>2. QED BY <1>17, <2>1, SetEventType DEF LinkIsDown, TypeOK, timers
<1>18. CASE Open \/ Opened
  BY <1>18 DEF Open, Opened, timers, links, TypeOK
<1>19. CASE RapsStart
  <2>1. NoPeer \in Peer /\ LocalPeer \in Peer
    BY DEF NoPeer, LocalPeer, Peer, wfs_fsm_state, Channel, Port, Nat1
  <2>2. PICK K \in SUBSET {myID} :
          /\ AllocEvents(Cardinality(K))
          /\ queue' = [id \in WfsId |-> IF id \in K THEN <<Ev("E_discover")>> ELSE <<>>]
          /\ flag' = IF K = {} THEN {} ELSE {"FSM_EVENT"}
    BY <1>19 DEF RapsStart
  <2>3. Cardinality(K) \in Nat
    BY CardinalityType DEF WfsId
  <2>4. free' \in Nat /\ count' \in 0..EVBUF_MAX_NUM
    BY <2>2, <2>3, AllocType DEF TypeOK
  <2>5. queue' \in [WfsId -> Seq(Event)] /\ flag' \in SUBSET Flags
    <3>1. Ev("E_discover") \in Event
      BY EvType DEF wfs_fsm_event
    <3>2. <<Ev("E_discover")>> \in Seq(Event) /\ <<>> \in Seq(Event)
      BY <3>1
    <3>3. QED BY <2>2, <3>2 DEF Flags
  <2>6. QED BY <1>19, <2>1, <2>4, <2>5 DEF RapsStart, TypeOK, links
<1>20. CASE RapsStop
  <2>1. inputs' \in 0..MaxInputs
    BY <1>20 DEF RapsStop, Input, TypeOK
  <2>2. QED BY <1>20, <2>1 DEF RapsStop, timers, links, TypeOK
<1>21. CASE Close
  BY <1>21 DEF Close, timers, links, TypeOK
<1>22. QED
  BY <1>1, <1>2, <1>3, <1>4, <1>5, <1>6, <1>7, <1>8, <1>9, <1>10, <1>11, <1>12, <1>13,
     <1>14, <1>15, <1>16, <1>17, <1>18, <1>19, <1>20, <1>21
  DEF Next, Engine, Announced, Watchdog

LEMMA TypeInit == Init => TypeOK
<1> SUFFICES ASSUME Init PROVE TypeOK
  OBVIOUS
<1>1. NoPeer \in Peer
  BY DEF NoPeer, Peer, wfs_fsm_state, Channel
<1>2. wfspeer \in [WfsId -> Peer] /\ queue \in [WfsId -> Seq(Event)]
  BY <1>1 DEF Init
<1>3. free \in Nat /\ count \in 0..EVBUF_MAX_NUM /\ inputs \in 0..MaxInputs
  BY ConstantsAssumption DEF Init
<1>4. rx \in [Port -> {NULL} \cup [id : Remote, onPrimary : BOOLEAN]]
  BY DEF Init
<1>5. QED BY <1>2, <1>3, <1>4 DEF Init, TypeOK

(* Type correctness, with it the bound on the event buffers ever allocated  *)
(* (wfs_fsm_alloc_event tests fsmEvBuf_count before every kmalloc).         *)
THEOREM TypeCorrect == Spec => []TypeOK
BY TypeInit, TypeStep, PTL DEF Spec
-----------------------------------------------------------------------------
(* The inductive invariant.                                                 *)
IInv ==
    /\ TypeOK
    /\ StateFollowsChannels /\ DistinctChannels /\ LocalChannels /\ AnnouncesCarryPort
    /\ AgingActive /\ ClearPending /\ OneAlert

(* What every event of the table does to the record of a remote peer ...    *)
LEMMA TransitRemote ==
    ASSUME NEW id \in Remote, NEW p \in Peer, NEW ev \in Event,
           Follows(p), Distinct(p), Carries(ev)
    PROVE  Follows(Transit(id, p, ev)) /\ Distinct(Transit(id, p, ev))
<1>0. id # myID
  BY DEF Remote
<1>1. CASE ev.event = "E_discover"
  <2>1. UpdateChannels(p, ev) \in Peer /\ UpdateChannels(p, ev).fsm_state = p.fsm_state
    BY ConstantsAssumption DEF UpdateChannels, Peer, Event, Nat1, Channel
  <2>2. Transit(id, p, ev) = [UpdateChannels(p, ev) EXCEPT !.fsm_state = DiscoverState(UpdateChannels(p, ev))]
    BY <1>0, <1>1 DEF Transit, action_discover
  <2>3. CASE ev.onPrimary
    BY <1>1, <2>1, <2>2, <2>3 DEF UpdateChannels, DiscoverState, Up, Follows, Distinct, Carries, Peer, Event
  <2>4. CASE ~ev.onPrimary
    BY <1>1, <2>1, <2>2, <2>4 DEF UpdateChannels, DiscoverState, Up, Follows, Distinct, Carries, Peer, Event
  <2>5. QED BY <2>3, <2>4
<1>2. CASE ev.event = "E_expire"
  <2>1. Follows(action_expire(p)) /\ Distinct(action_expire(p))
    BY DEF action_expire, Failover, Up, Follows, Distinct, Peer, wfs_fsm_state
  <2>2. QED BY <1>2, <2>1 DEF Transit
<1>3. CASE ev.event = "E_localSF"
  <2>1. Follows(action_localSF(id, p)) /\ Distinct(action_localSF(id, p))
    BY <1>0 DEF action_localSF, Failover, LinkUp, Follows, Distinct, Peer, wfs_fsm_state
  <2>2. QED BY <1>3, <2>1 DEF Transit
<1>4. CASE ev.event \in {"E_clear_localSF", "E_rapsNR"}
  BY <1>4 DEF Transit, RevertToPrimary, LinkUp, Follows, Distinct, Peer, wfs_fsm_state
<1>5. CASE ev.event = "E_rapsSF"
  <2>1. Follows(action_rapsSF(p, ev)) /\ Distinct(action_rapsSF(p, ev))
    BY DEF action_rapsSF, Failover, Up, Follows, Distinct, Peer, wfs_fsm_state
  <2>2. QED BY <1>5, <2>1 DEF Transit
<1>6. QED BY <1>1, <1>2, <1>3, <1>4, <1>5 DEF Event, wfs_fsm_event

(* ... and to the local station, among the events the table admits for it.  *)
LEMMA TransitLocal ==
    ASSUME NEW p \in Peer, NEW ev \in Event, valid_entry(p.fsm_state, ev.event, TRUE)
    PROVE  LET q == Transit(myID, p, ev)
           IN  /\ q.channel_pri = p.channel_pri /\ q.channel_sec = p.channel_sec
               /\ p.channel_pri = NULL /\ p.channel_sec = NULL /\ p.fsm_state = "S_init"
                     => q.fsm_state = "S_init"
<1>1. CASE ev.event = "E_discover"
  BY <1>1 DEF Transit, action_discover, DiscoverState, Up, Peer, wfs_fsm_state
<1>2. CASE ev.event = "E_localSF"
  BY <1>2 DEF Transit, action_localSF, Failover, LinkUp, Peer, wfs_fsm_state
<1>3. CASE ev.event = "E_clear_localSF"
  BY <1>3 DEF Transit, RevertToPrimary, Peer, wfs_fsm_state
<1>4. QED BY <1>1, <1>2, <1>3 DEF valid_entry, Event, wfs_fsm_event

(* Queueing an event disturbs only the queue and FSM_EVENT ...              *)
LEMMA SetEventKeeps ==
    ASSUME TypeOK, AnnouncesCarryPort, NEW ids \in SUBSET WfsId, NEW ev \in Event,
           Carries(ev), set_event(ids, ev)
    PROVE  AnnouncesCarryPort' /\ flag' \ {"FSM_EVENT"} = flag \ {"FSM_EVENT"}
<1>1. CASE iwa \in {"closed", "opening"}
  BY <1>1 DEF set_event, AnnouncesCarryPort
<1>2. CASE iwa \notin {"closed", "opening"}
  <2>1. PICK K \in SUBSET ids : Enqueue(K, ev)
    BY <1>2 DEF set_event
  <2>2. \A id \in Remote : queue[id] \in Seq(Event) /\ queue'[id] \in {queue[id], Append(queue[id], ev)}
    BY <2>1 DEF Enqueue, TypeOK, Remote
  <2>3. AnnouncesCarryPort'
    BY <2>2, SMTT(30) DEF AnnouncesCarryPort
  <2>4. QED BY <2>1, <2>3 DEF Enqueue
<1>3. QED BY <1>1, <1>2

(* ... which leaves what is known of the other flags.                       *)
LEMMA FlagFrame ==
    ASSUME AgingActive, ClearPending, OneAlert,
           flag' \ {"FSM_EVENT"} = flag \ {"FSM_EVENT"}, UNCHANGED <<wfspeer, rm, reg, sent>>
    PROVE  AgingActive' /\ ClearPending' /\ OneAlert'
<1>1. AgingActive'
  BY DEF AgingActive
<1>2. ClearPending'
  BY DEF ClearPending
<1>3. OneAlert'
  BY DEF OneAlert
<1>4. QED BY <1>1, <1>2, <1>3

LEMMA PeerFrame ==
    ASSUME StateFollowsChannels, DistinctChannels, LocalChannels, UNCHANGED wfspeer
    PROVE  StateFollowsChannels' /\ DistinctChannels' /\ LocalChannels'
BY DEF StateFollowsChannels, DistinctChannels, LocalChannels

(* One event of wfs_fsm_run().                                              *)
LEMMA FsmEventStep ==
    ASSUME IInv, NEW id \in WfsId, FsmEvent(id)
    PROVE  /\ StateFollowsChannels' /\ DistinctChannels' /\ LocalChannels' /\ AnnouncesCarryPort'
           /\ AgingActive' /\ ClearPending' /\ OneAlert'
<1> DEFINE ev == Head(queue[id])
           p  == wfspeer[id]
<1>1. /\ p \in Peer /\ ev \in Event /\ queue[id] \in Seq(Event) /\ queue[id] # <<>>
      /\ wfspeer \in [WfsId -> Peer] /\ myID \in WfsId
  BY ConstantsAssumption DEF FsmEvent, IInv, TypeOK, WfsId
<1>2. id \in Remote => Carries(ev)
  BY <1>1 DEF IInv, AnnouncesCarryPort
<1>3. AnnouncesCarryPort'
  <2>1. \A k \in Remote : \A i \in 1..Len(queue'[k]) :
           \E j \in 1..Len(queue[k]) : queue'[k][i] = queue[k][j]
    <3> SUFFICES ASSUME NEW k \in Remote, NEW i \in 1..Len(queue'[k])
                 PROVE  \E j \in 1..Len(queue[k]) : queue'[k][i] = queue[k][j]
      OBVIOUS
    <3>1. queue \in [WfsId -> Seq(Event)] /\ k \in WfsId
      BY DEF IInv, TypeOK, Remote
    <3>2. CASE k = id
      <4>1. queue'[k] = Tail(queue[id])
        BY <3>1, <3>2 DEF FsmEvent
      <4>2. i + 1 \in 1..Len(queue[k]) /\ queue'[k][i] = queue[k][i + 1]
        BY <1>1, <3>2, <4>1
      <4>3. QED BY <4>2
    <3>3. CASE k # id
      BY <3>1, <3>3 DEF FsmEvent
    <3>4. QED BY <3>2, <3>3
  <2>2. QED BY <2>1 DEF IInv, AnnouncesCarryPort
<1>4. rm' = "fsm" /\ rm = "fsm" /\ sent' = sent
  BY DEF FsmEvent
<1>5. CASE ~valid_entry(p.fsm_state, ev.event, id = myID)
  <2>1. UNCHANGED <<wfspeer, flag>>
    BY <1>5 DEF FsmEvent
  <2>2. QED
    BY <1>3, <1>4, <2>1, PeerFrame DEF IInv, AgingActive, ClearPending, OneAlert
<1>6. CASE valid_entry(p.fsm_state, ev.event, id = myID)
  <2> DEFINE q == Transit(id, p, ev)
  <2>1. wfspeer' = [wfspeer EXCEPT ![id] = q] /\ Control(id, ev)
    BY <1>6 DEF FsmEvent
  <2>2. \A k \in WfsId : wfspeer'[k] = IF k = id THEN q ELSE wfspeer[k]
    BY <1>1, <2>1
  <2> HIDE DEF ev, p, q
  <2>3. CASE id \in Remote
    <3>1. Follows(p) /\ Distinct(p)
      BY <2>3 DEF IInv, StateFollowsChannels, DistinctChannels, Follows, Distinct, p, Remote
    <3>2. Follows(q) /\ Distinct(q)
      BY <1>1, <1>2, <2>3, <3>1, TransitRemote DEF p, q, ev
    <3>3. StateFollowsChannels'
      BY <2>2, <3>2 DEF IInv, StateFollowsChannels, Follows, Remote
    <3>4. DistinctChannels'
      BY <2>2, <3>2 DEF IInv, DistinctChannels, Distinct
    <3>5. LocalChannels'
      BY <1>1, <2>2, <2>3 DEF IInv, LocalChannels, Remote
    <3>6. AgingActive'
      <4>1. CASE ev.event = "E_discover"
        BY <2>1, <2>3, <4>1 DEF Control, AgingActive, Remote
      <4>2. CASE ev.event # "E_discover"
        <5>1. p.fsm_state # "S_init"
          BY <1>1, <1>6, <4>2 DEF valid_entry, Event, wfs_fsm_event
        <5>2. "PEER_TTL" \in flag
          BY <2>3, <5>1 DEF IInv, AgingActive, p
        <5>3. flag' = flag
          <6>1. id # myID
            BY <2>3 DEF Remote
          <6>2. ev.event # "E_clear_localSF"
            BY <1>6, <6>1 DEF valid_entry
          <6>3. QED BY <2>1, <4>2, <6>1, <6>2 DEF Control
        <5>4. QED BY <5>2, <5>3 DEF AgingActive
      <4>3. QED BY <4>1, <4>2
    <3>7. OneAlert'
      BY <1>4, <2>1, <2>3 DEF Control, IInv, OneAlert, Remote
    <3>8. ClearPending'
      BY <1>4 DEF ClearPending
    <3>9. QED BY <1>3, <3>3, <3>4, <3>5, <3>6, <3>7, <3>8
  <2>4. CASE id = myID
    <3>1. /\ q.channel_pri = p.channel_pri /\ q.channel_sec = p.channel_sec
          /\ p.channel_pri = NULL /\ p.channel_sec = NULL /\ p.fsm_state = "S_init"
               => q.fsm_state = "S_init"
      BY <1>1, <1>6, <2>4, TransitLocal DEF q
    <3>2. StateFollowsChannels'
      BY <2>2, <2>4 DEF IInv, StateFollowsChannels, Remote
    <3>3. DistinctChannels'
      BY <2>2, <2>4, <3>1 DEF IInv, DistinctChannels, p
    <3>4. LocalChannels'
      BY <1>1, <2>2, <2>4, <3>1 DEF IInv, LocalChannels, p
    <3>5. AgingActive'
      <4>1. \A k \in Remote : wfspeer'[k] = wfspeer[k]
        BY <2>2, <2>4 DEF Remote
      <4>2. "PEER_TTL" \in flag => "PEER_TTL" \in flag'
        BY <2>1, <2>4 DEF Control
      <4>3. QED BY <4>1, <4>2 DEF IInv, AgingActive
    <3>6. OneAlert'
      BY <1>4, <2>1, <2>4 DEF Control, IInv, OneAlert
    <3>7. ClearPending'
      BY <1>4 DEF ClearPending
    <3>8. QED BY <1>3, <3>2, <3>3, <3>4, <3>5, <3>6, <3>7
  <2>5. QED BY <2>3, <2>4 DEF Remote
<1>7. QED BY <1>5, <1>6

(* Every step preserves the invariant.  Most actions touch neither the      *)
(* peers nor the flags other than FSM_EVENT; the engine's do.               *)
LEMMA InvStep == IInv /\ [Next]_vars => IInv'
<1> SUFFICES ASSUME IInv, [Next]_vars PROVE IInv'
  OBVIOUS
<1>0. /\ TypeOK /\ StateFollowsChannels /\ DistinctChannels /\ LocalChannels
      /\ AnnouncesCarryPort /\ AgingActive /\ ClearPending /\ OneAlert
  BY DEF IInv
<1>t. TypeOK'
  BY <1>0, TypeStep
<1>q. ASSUME NEW ids \in SUBSET WfsId, NEW ev \in Event, Carries(ev), set_event(ids, ev),
             UNCHANGED <<wfspeer, rm, reg, sent>>
      PROVE  IInv'
  BY <1>0, <1>t, <1>q, SetEventKeeps, FlagFrame, PeerFrame DEF IInv
<1>f. ASSUME UNCHANGED <<wfspeer, queue, flag, rm, reg, sent>>
      PROVE  IInv'
  <2>1. AnnouncesCarryPort'
    BY <1>0, <1>f DEF AnnouncesCarryPort
  <2>2. QED BY <1>0, <1>t, <1>f, <2>1, FlagFrame, PeerFrame DEF IInv
<1>1. CASE UNCHANGED vars
  BY <1>1, <1>f DEF vars
<1>2. CASE RapsMain
  <2>1. UNCHANGED <<wfspeer, queue, flag>> /\ rm' \in {"fsm", "timers"} /\ sent' = {}
    BY <1>2 DEF RapsMain
  <2>2. AnnouncesCarryPort' /\ AgingActive' /\ ClearPending' /\ OneAlert'
    BY <1>0, <2>1 DEF AnnouncesCarryPort, AgingActive, ClearPending, OneAlert
  <2>3. QED BY <1>0, <1>t, <2>1, <2>2, PeerFrame DEF IInv
<1>3. ASSUME NEW id \in WfsId, FsmEvent(id) PROVE IInv'
  BY <1>t, <1>3, FsmEventStep DEF IInv
<1>4. CASE FsmDone
  <2>1. UNCHANGED <<wfspeer, queue, sent>> /\ rm' = "timers" /\ flag' = flag \ {"FSM_EVENT"}
    BY <1>4 DEF FsmDone
  <2>2. AnnouncesCarryPort' /\ AgingActive' /\ ClearPending' /\ OneAlert'
    BY <1>0, <2>1 DEF AnnouncesCarryPort, AgingActive, ClearPending, OneAlert
  <2>3. QED BY <1>0, <1>t, <2>1, <2>2, PeerFrame DEF IInv
<1>5. CASE RapsTimers
  <2>1. /\ UNCHANGED <<wfspeer, queue, flag>>
        /\ (rm' = "clrNR" /\ reg' = flag) \/ rm' = "ttl"
    BY <1>5 DEF RapsTimers
  <2>2. ("NR" \in sent' => "NR" \in flag) /\ ("SF" \in sent' => "SF" \in flag)
    BY <1>5 DEF RapsTimers
  <2>3. AnnouncesCarryPort' /\ AgingActive' /\ ClearPending' /\ OneAlert'
    BY <1>0, <2>1, <2>2 DEF AnnouncesCarryPort, AgingActive, ClearPending, OneAlert
  <2>4. QED BY <1>0, <1>t, <2>1, <2>3, PeerFrame DEF IInv
<1>6. CASE RapsClearNR
  <2>1. /\ UNCHANGED <<wfspeer, queue, sent>> /\ rm = "clrNR" /\ rm' = "ttl"
        /\ flag' \in {flag \ {"NR"}, reg \ {"NR"}, flag}
    BY <1>6 DEF RapsClearNR, ClearFlag
  <2>2. flag' \ {"FSM_EVENT"} \in {flag \ {"FSM_EVENT"}, flag \ {"FSM_EVENT", "NR"}}
    BY <1>0, <2>1 DEF ClearPending
  <2>3. AnnouncesCarryPort' /\ AgingActive' /\ ClearPending' /\ OneAlert'
    BY <1>0, <2>1, <2>2 DEF AnnouncesCarryPort, AgingActive, ClearPending, OneAlert
  <2>4. QED BY <1>0, <1>t, <2>1, <2>3, PeerFrame DEF IInv
<1>7. CASE RapsUpdatePeers
  <2>1. \A p \in Peer : /\ AgePeer(p).fsm_state = p.fsm_state
                        /\ AgePeer(p).channel_pri = p.channel_pri
                        /\ AgePeer(p).channel_sec = p.channel_sec
    BY DEF AgePeer, Peer
  <2>2. \A id \in WfsId : /\ wfspeer'[id].fsm_state = wfspeer[id].fsm_state
                          /\ wfspeer'[id].channel_pri = wfspeer[id].channel_pri
                          /\ wfspeer'[id].channel_sec = wfspeer[id].channel_sec
    <3>1. \A id \in WfsId : wfspeer[id] \in Peer /\ wfspeer'[id] \in {wfspeer[id], AgePeer(wfspeer[id])}
      BY <1>0, <1>7 DEF RapsUpdatePeers, TypeOK
    <3>2. QED BY <2>1, <3>1
  <2>3. StateFollowsChannels' /\ DistinctChannels'
    BY <1>0, <2>2 DEF StateFollowsChannels, DistinctChannels, Remote
  <2>4. LocalChannels'
    BY <1>0, <2>2, ConstantsAssumption DEF LocalChannels, WfsId
  <2>5. PICK K \in SUBSET ActivePeers :
          /\ queue' = [id \in WfsId |-> IF id \in K THEN Append(queue[id], Ev("E_expire"))
                                                    ELSE queue[id]]
          /\ flag' = IF K = {} THEN flag ELSE flag \cup {"FSM_EVENT"}
    BY <1>7 DEF RapsUpdatePeers
  <2>6. AnnouncesCarryPort'
    <3>1. Carries(Ev("E_expire"))
      BY DEF Carries, Ev
    <3>2. \A id \in Remote : queue[id] \in Seq(Event)
                    /\ queue'[id] \in {queue[id], Append(queue[id], Ev("E_expire"))}
      BY <1>0, <2>5 DEF TypeOK, Remote
    <3>3. QED BY <1>0, <3>1, <3>2 DEF AnnouncesCarryPort
  <2>7. AgingActive'
    BY <1>7, <2>5 DEF AgingActive, RapsUpdatePeers
  <2>8. ClearPending'
    <3>1. CASE ActivePeers = {}
      <4>1. rm' = "clrTTL" /\ reg' = flag /\ flag' = flag
        BY <1>7, <2>5, <3>1 DEF RapsUpdatePeers
      <4>2. \A id \in Remote : wfspeer'[id].fsm_state = "S_init"
        BY <2>2, <3>1 DEF ActivePeers, Remote
      <4>3. QED BY <4>1, <4>2 DEF ClearPending
    <3>2. CASE ActivePeers # {}
      BY <1>7, <3>2 DEF RapsUpdatePeers, ClearPending
    <3>3. QED BY <3>1, <3>2
  <2>9. OneAlert'
    BY <1>0, <1>7, <2>5 DEF OneAlert, RapsUpdatePeers
  <2>10. QED BY <1>t, <2>3, <2>4, <2>6, <2>7, <2>8, <2>9 DEF IInv
<1>8. CASE RapsNoPeers
  <2>1. UNCHANGED <<wfspeer, queue, flag, sent>> /\ rm' = "idle"
    BY <1>8 DEF RapsNoPeers
  <2>2. AnnouncesCarryPort' /\ AgingActive' /\ ClearPending' /\ OneAlert'
    BY <1>0, <2>1 DEF AnnouncesCarryPort, AgingActive, ClearPending, OneAlert
  <2>3. QED BY <1>0, <1>t, <2>1, <2>2, PeerFrame DEF IInv
<1>9. CASE RapsClearTTL
  <2>1. /\ UNCHANGED <<wfspeer, queue, sent>> /\ rm = "clrTTL" /\ rm' = "idle"
        /\ flag' \in {flag \ {"PEER_TTL"}, reg \ {"PEER_TTL"}, flag}
    BY <1>9 DEF RapsClearTTL, ClearFlag
  <2>2. \A id \in Remote : wfspeer'[id].fsm_state = "S_init"
    BY <1>0, <2>1 DEF ClearPending
  <2>3. OneAlert'
    BY <1>0, <2>1 DEF ClearPending, OneAlert
  <2>4. AnnouncesCarryPort' /\ AgingActive' /\ ClearPending'
    BY <1>0, <2>1, <2>2 DEF AnnouncesCarryPort, AgingActive, ClearPending
  <2>5. QED BY <1>0, <1>t, <2>1, <2>3, <2>4, PeerFrame DEF IInv
<1>10. ASSUME NEW id \in Remote, NEW p \in Port, NEW pri \in BOOLEAN, RecvAnnounce(id, p, pri)
       PROVE  IInv'
  <2> DEFINE ev == [event |-> "E_discover", onPrimary |-> pri, recv |-> p]
  <2>1. ev \in Event /\ Carries(ev) /\ {id} \in SUBSET WfsId
    BY ConstantsAssumption DEF Event, wfs_fsm_event, Channel, Remote, Carries, Port
  <2>2. set_event({id}, ev) /\ UNCHANGED <<wfspeer, rm, reg, sent>>
    BY <1>10 DEF RecvAnnounce
  <2> HIDE DEF ev
  <2>3. QED BY <1>q, <2>1, <2>2
<1>11. ASSUME NEW id \in Remote, NEW p \in Port, RecvRapsNR(id, p) PROVE IInv'
  <2>1. Ev("E_rapsNR") \in Event /\ Carries(Ev("E_rapsNR")) /\ {id} \in SUBSET WfsId
    BY EvType DEF wfs_fsm_event, Remote, Carries, Ev
  <2>2. set_event({id}, Ev("E_rapsNR")) /\ UNCHANGED <<wfspeer, rm, reg, sent>>
    BY <1>11 DEF RecvRapsNR
  <2>3. QED BY <1>q, <2>1, <2>2
<1>12. ASSUME NEW id \in Remote, NEW p \in Port, RecvRapsSF(id, p) PROVE IInv'
  BY <1>12, <1>f DEF RecvRapsSF
<1>13. ASSUME NEW p \in Port, QueueRapsSF(p) PROVE IInv'
  <2> DEFINE ev == [event |-> "E_rapsSF", onPrimary |-> rx[p].onPrimary, recv |-> NULL]
  <2>0. rx[p] \in [id : Remote, onPrimary : BOOLEAN]
    BY <1>0, <1>13 DEF QueueRapsSF, TypeOK
  <2>1. ev \in Event /\ Carries(ev) /\ {rx[p].id} \in SUBSET WfsId
    BY <2>0 DEF Event, wfs_fsm_event, Channel, Remote, Carries
  <2>2. set_event({rx[p].id}, ev) /\ UNCHANGED <<wfspeer, rm, reg, sent>>
    BY <1>13 DEF QueueRapsSF
  <2> HIDE DEF ev
  <2>3. QED BY <1>q, <2>1, <2>2
<1>14. ASSUME NEW p \in Port, LinkChange(p) \/ LinkIsUp(p) PROVE IInv'
  BY <1>14, <1>f DEF LinkChange, LinkIsUp
<1>15. ASSUME NEW p \in Port, LinkClearSF(p) PROVE IInv'
  <2>1. Ev("E_clear_localSF") \in Event /\ Carries(Ev("E_clear_localSF"))
    BY EvType DEF wfs_fsm_event, Carries, Ev
  <2>2. set_event(WfsId, Ev("E_clear_localSF")) /\ UNCHANGED <<wfspeer, rm, reg, sent>>
    BY <1>15 DEF LinkClearSF
  <2>3. QED BY <1>q, <2>1, <2>2
<1>16. ASSUME NEW p \in Port, LinkIsDown(p) PROVE IInv'
  <2>1. Ev("E_localSF") \in Event /\ Carries(Ev("E_localSF"))
    BY EvType DEF wfs_fsm_event, Carries, Ev
  <2>2. set_event(WfsId, Ev("E_localSF")) /\ UNCHANGED <<wfspeer, rm, reg, sent>>
    BY <1>16 DEF LinkIsDown
  <2>3. QED BY <1>q, <2>1, <2>2
<1>17. CASE Open \/ Opened \/ RapsStop \/ Close
  BY <1>17, <1>f DEF Open, Opened, RapsStop, Close
<1>18. CASE RapsStart
  <2>1. /\ wfspeer' = [id \in WfsId |-> IF id = myID THEN LocalPeer ELSE NoPeer]
        /\ rm' = "idle" /\ UNCHANGED sent
        /\ \A id \in Remote : queue'[id] = <<>>
        /\ flag' \in {{}, {"FSM_EVENT"}}
    BY <1>18 DEF RapsStart, Remote
  <2>2. StateFollowsChannels' /\ AgingActive'
    BY <2>1 DEF StateFollowsChannels, AgingActive, Remote, NoPeer
  <2>3. DistinctChannels' /\ LocalChannels'
    BY <2>1, ConstantsAssumption DEF DistinctChannels, LocalChannels, NoPeer, LocalPeer, WfsId
  <2>4. AnnouncesCarryPort' /\ ClearPending' /\ OneAlert'
    BY <1>0, <2>1 DEF AnnouncesCarryPort, ClearPending, OneAlert
  <2>5. QED BY <1>t, <2>2, <2>3, <2>4 DEF IInv
<1>19. QED
  BY <1>1, <1>2, <1>3, <1>4, <1>5, <1>6, <1>7, <1>8, <1>9, <1>10, <1>11, <1>12, <1>13,
     <1>14, <1>15, <1>16, <1>17, <1>18
  DEF Next, Engine, Announced, Watchdog

LEMMA InvInit == Init => IInv
<1> SUFFICES ASSUME Init PROVE IInv
  OBVIOUS
<1>1. StateFollowsChannels /\ DistinctChannels /\ AgingActive
  BY DEF Init, StateFollowsChannels, DistinctChannels, AgingActive, NoPeer, Remote
<1>2. LocalChannels
  BY ConstantsAssumption DEF Init, LocalChannels, NoPeer, WfsId
<1>3. AnnouncesCarryPort
  BY DEF Init, AnnouncesCarryPort, Remote
<1>4. ClearPending /\ OneAlert
  BY DEF Init, ClearPending, OneAlert
<1>5. QED BY TypeInit, <1>1, <1>2, <1>3, <1>4 DEF IInv

THEOREM Invariant == Spec => []IInv
BY InvInit, InvStep, PTL DEF Spec

(* The state of every remote peer is a function of the channels known to it *)
(* after any sequence of announces, alerts, expiries and link failures, so  *)
(* the actions of the state machine agree on what a state means.            *)
THEOREM StatesFollow == Spec => []StateFollowsChannels
BY Invariant, PTL DEF IInv

(* The BUG_ON()s at the end of every event of wfs_fsm_run() cannot fire.    *)
THEOREM NoBugOn == Spec => []ActiveChannel
<1>1. IInv => ActiveChannel
  <2> SUFFICES ASSUME IInv, NEW id \in WfsId
               PROVE  /\ wfspeer[id].fsm_state = "S_idle" => wfspeer[id].channel_pri # NULL
                      /\ wfspeer[id].fsm_state = "S_protect" => wfspeer[id].channel_sec # NULL
    BY DEF ActiveChannel
  <2>1. CASE id = myID
    BY <2>1, ConstantsAssumption DEF IInv, LocalChannels
  <2>2. CASE id # myID
    BY <2>2 DEF IInv, StateFollowsChannels, Remote
  <2>3. QED BY <2>1, <2>2
<1>2. QED BY <1>1, Invariant, PTL

(* No port is the way to both ports of one peer.                            *)
THEOREM ChannelsDistinct == Spec => []DistinctChannels
BY Invariant, PTL DEF IInv

(* Aging never stops while a peer is active, although raps_main() clears    *)
(* RAPS_CTRL_PEER_TTL without fsm_lock: the only concurrent writers raise   *)
(* FSM_EVENT, and nobody but raps_main() itself wakes a peer.               *)
THEOREM AgingNeverStops == Spec => []AgingActive
BY Invariant, PTL DEF IInv

(* Failure and recovery are never signalled together.                       *)
THEOREM AlertsExclusive == Spec => []OneAlert
BY Invariant, PTL DEF IInv

(* The handler of E_rapsNR changes nothing: a peer it is valid for has no   *)
(* primary channel, which is what StateFollowsChannels says of S_protect.   *)
THEOREM RapsNRIdle ==
    ASSUME StateFollowsChannels, NEW id \in Remote, NEW ev \in Event,
           ev.event = "E_rapsNR", wfspeer[id].fsm_state = "S_protect"
    PROVE  Transit(id, wfspeer[id], ev) = wfspeer[id]
BY DEF StateFollowsChannels, Transit, RevertToPrimary, LinkUp
-----------------------------------------------------------------------------
(* The refinement of PeerTable.  Known(p) is what the table knows of the    *)
(* peer with record p, side by side.                                        *)
Known(p) == [s \in {"pri", "sec"} |-> IF s = "pri" THEN p.channel_pri ELSE p.channel_sec]
KnownBar == [id \in Remote |-> Known(wfspeer[id])]
RouteBar == [id \in Remote |-> EgressPort(wfspeer[id])]

LEMMA RouteIsChoice ==
    ASSUME NEW p \in Peer, Follows(p)
    PROVE  EgressPort(p) = Table!Choice(Known(p))
BY DEF EgressPort, Follows, Table!Choice, Known, Peer, wfs_fsm_state

Learnt(k, s, port) == [k EXCEPT ![s] = port, ![Table!other(s)] = IF @ = port THEN NULL ELSE @]
Lost(k, S) == [s \in {"pri", "sec"} |-> IF s \in S THEN NULL ELSE k[s]]

(* An event teaches one side of the peer or loses some.                     *)
LEMMA TransitTable ==
    ASSUME NEW id \in Remote, NEW p \in Peer, NEW ev \in Event, Follows(p), Carries(ev)
    PROVE  \/ \E s \in {"pri", "sec"}, port \in Port :
                 Known(Transit(id, p, ev)) = Learnt(Known(p), s, port)
           \/ \E S \in SUBSET {"pri", "sec"} : Known(Transit(id, p, ev)) = Lost(Known(p), S)
<1> DEFINE q == Transit(id, p, ev)
<1>0. id # myID
  BY DEF Remote
<1>1. CASE ev.event = "E_discover"
  <2>1. /\ q.channel_pri = UpdateChannels(p, ev).channel_pri
        /\ q.channel_sec = UpdateChannels(p, ev).channel_sec
    BY <1>0, <1>1 DEF Transit, action_discover, UpdateChannels, Peer, Event
  <2>2. ev.recv \in Port
    BY <1>1 DEF Carries, Event, Channel
  <2>3. CASE ev.onPrimary
    <3>1. /\ q.channel_pri = ev.recv
          /\ q.channel_sec = IF p.channel_sec = ev.recv THEN NULL ELSE p.channel_sec
      BY <2>1, <2>3 DEF UpdateChannels, Peer, Event
    <3>2. Known(q) = Learnt(Known(p), "pri", ev.recv)
      BY <3>1 DEF Known, Learnt, Table!other
    <3>3. QED BY <2>2, <3>2
  <2>4. CASE ~ev.onPrimary
    <3>1. /\ q.channel_sec = ev.recv
          /\ q.channel_pri = IF p.channel_pri = ev.recv THEN NULL ELSE p.channel_pri
      BY <2>1, <2>4 DEF UpdateChannels, Peer, Event
    <3>2. Known(q) = Learnt(Known(p), "sec", ev.recv)
      BY <3>1 DEF Known, Learnt, Table!other
    <3>3. QED BY <2>2, <3>2
  <2>5. QED BY <2>3, <2>4
<1>2. CASE ev.event # "E_discover"
  <2>1. q.channel_pri \in {p.channel_pri, NULL} /\ q.channel_sec \in {p.channel_sec, NULL}
    <3>1. CASE ev.event = "E_expire"
      BY <3>1 DEF Transit, action_expire, Peer
    <3>2. CASE ev.event = "E_localSF"
      BY <1>0, <3>2 DEF Transit, action_localSF, Peer
    <3>3. CASE ev.event \in {"E_clear_localSF", "E_rapsNR"}
      BY <3>3 DEF Transit, RevertToPrimary, Peer
    <3>4. CASE ev.event = "E_rapsSF"
      BY <3>4 DEF Transit, action_rapsSF, Peer
    <3>5. QED BY <1>2, <3>1, <3>2, <3>3, <3>4 DEF Event, wfs_fsm_event
  <2> DEFINE S == {s \in {"pri", "sec"} : Known(q)[s] = NULL}
  <2>2. Known(q) = Lost(Known(p), S)
    BY <2>1 DEF Known, Lost
  <2>3. QED BY <2>2
<1>3. QED BY <1>1, <1>2

(* A step that replaces the record of one peer is a step of the table.      *)
LEMMA RecordStep ==
    ASSUME IInv, IInv', NEW id \in Remote, NEW q \in Peer,
           wfspeer' = [wfspeer EXCEPT ![id] = q],
           \/ \E s \in {"pri", "sec"}, port \in Port : Known(q) = Learnt(Known(wfspeer[id]), s, port)
           \/ \E S \in SUBSET {"pri", "sec"} : Known(q) = Lost(Known(wfspeer[id]), S)
    PROVE  Table!TNext
<1>1. wfspeer \in [WfsId -> Peer] /\ wfspeer' \in [WfsId -> Peer] /\ Remote \subseteq WfsId
  BY DEF IInv, TypeOK, Remote
<1>2. KnownBar' = [KnownBar EXCEPT ![id] = Known(q)]
  BY <1>1 DEF KnownBar
<1>3. Follows(q)
  BY <1>1 DEF IInv, StateFollowsChannels, Follows
<1>4. RouteBar' = [RouteBar EXCEPT ![id] = Table!Choice(Known(q))]
  BY <1>1, <1>3, RouteIsChoice DEF RouteBar
<1>5. KnownBar[id] = Known(wfspeer[id])
  BY DEF KnownBar
<1>6. CASE \E s \in {"pri", "sec"}, port \in Port : Known(q) = Learnt(Known(wfspeer[id]), s, port)
  <2>1. PICK s \in {"pri", "sec"}, port \in Port : Known(q) = Learnt(Known(wfspeer[id]), s, port)
    BY <1>6
  <2>2. /\ KnownBar' = [KnownBar EXCEPT ![id] = Learnt(KnownBar[id], s, port)]
        /\ RouteBar' = [RouteBar EXCEPT ![id] = Table!Choice(Learnt(KnownBar[id], s, port))]
    BY <1>2, <1>4, <1>5, <2>1
  <2>3. Table!Learn(id, s, port)
    BY <2>2 DEF Table!Learn, Table!Update, Learnt, KnownBar, RouteBar, Known
  <2>4. QED BY <2>3 DEF Table!TNext, Table!Side
<1>7. CASE \E S \in SUBSET {"pri", "sec"} : Known(q) = Lost(Known(wfspeer[id]), S)
  <2>1. PICK S \in SUBSET {"pri", "sec"} : Known(q) = Lost(Known(wfspeer[id]), S)
    BY <1>7
  <2>2. /\ KnownBar' = [KnownBar EXCEPT ![id] = Lost(KnownBar[id], S)]
        /\ RouteBar' = [RouteBar EXCEPT ![id] = Table!Choice(Lost(KnownBar[id], S))]
    BY <1>2, <1>4, <1>5, <2>1
  <2>3. Table!Lose(id, S)
    BY <2>2 DEF Table!Lose, Table!Update, Table!Side, Lost, KnownBar, RouteBar, Known
  <2>4. QED BY <2>3 DEF Table!TNext, Table!Side
<1>8. QED BY <1>6, <1>7

LEMMA TableStep == IInv /\ IInv' /\ [Next]_vars => [Table!TNext]_Table!tvars
<1> SUFFICES ASSUME IInv, IInv', [Next]_vars PROVE [Table!TNext]_Table!tvars
  OBVIOUS
<1>0. /\ wfspeer \in [WfsId -> Peer] /\ wfspeer' \in [WfsId -> Peer]
      /\ Remote = WfsId \ {myID} /\ myID \in WfsId
  BY ConstantsAssumption DEF IInv, TypeOK, Remote, WfsId
<1>s. ASSUME KnownBar' = KnownBar, RouteBar' = RouteBar PROVE UNCHANGED Table!tvars
  BY <1>s DEF KnownBar, RouteBar, Known, Table!tvars
<1>u. ASSUME UNCHANGED wfspeer PROVE UNCHANGED Table!tvars
  BY <1>u, <1>s DEF KnownBar, RouteBar
<1>1. ASSUME NEW id \in WfsId, FsmEvent(id) PROVE [Table!TNext]_Table!tvars
  <2> DEFINE ev == Head(queue[id])
             p  == wfspeer[id]
  <2>1. p \in Peer /\ ev \in Event /\ queue[id] \in Seq(Event) /\ queue[id] # <<>>
    BY <1>0, <1>1 DEF FsmEvent, IInv, TypeOK
  <2>2. CASE UNCHANGED wfspeer
    BY <1>u, <2>2
  <2>3. CASE id = myID
    <3>1. \A k \in Remote : wfspeer'[k] = wfspeer[k]
      BY <1>0, <1>1, <2>3 DEF FsmEvent
    <3>2. QED BY <1>s, <3>1 DEF KnownBar, RouteBar
  <2>4. CASE id # myID /\ wfspeer' = [wfspeer EXCEPT ![id] = Transit(id, p, ev)]
    <3>1. id \in Remote /\ Follows(p)
      BY <1>0, <2>4 DEF IInv, StateFollowsChannels, Follows
    <3>2. Carries(ev)
      BY <2>1, <3>1 DEF IInv, AnnouncesCarryPort
    <3>3. Transit(id, p, ev) \in Peer
      BY <1>1, <2>1, TransitType
    <3>4. Table!TNext
      BY <2>1, <2>4, <3>1, <3>2, <3>3, TransitTable, RecordStep
    <3>5. QED BY <3>4
  <2>5. QED BY <1>1, <2>2, <2>3, <2>4 DEF FsmEvent
<1>2. CASE RapsUpdatePeers
  <2>1. \A k \in Remote : /\ wfspeer'[k].fsm_state = wfspeer[k].fsm_state
                           /\ wfspeer'[k].channel_pri = wfspeer[k].channel_pri
                           /\ wfspeer'[k].channel_sec = wfspeer[k].channel_sec
    BY <1>0, <1>2 DEF RapsUpdatePeers, AgePeer, Peer
  <2>2. \A k \in Remote : Known(wfspeer'[k]) = Known(wfspeer[k])
    BY <2>1 DEF Known
  <2>3. \A k \in Remote : EgressPort(wfspeer'[k]) = EgressPort(wfspeer[k])
    BY <2>1 DEF EgressPort
  <2>4. QED BY <1>s, <2>2, <2>3 DEF KnownBar, RouteBar
<1>3. CASE RapsStart
  <2>1. \A k \in Remote : wfspeer'[k] = NoPeer
    BY <1>0, <1>3 DEF RapsStart
  <2>2. KnownBar' = [k \in Remote |-> [s \in {"pri", "sec"} |-> NULL]] /\ RouteBar' = [k \in Remote |-> NULL]
    BY <2>1 DEF KnownBar, RouteBar, Known, EgressPort, NoPeer
  <2>3. Table!Restart
    BY <2>2 DEF Table!Restart, Table!Nothing, Table!Side, KnownBar, RouteBar, Known
  <2>4. QED BY <2>3 DEF Table!TNext
<1>4. CASE UNCHANGED wfspeer
  BY <1>u, <1>4
<1>5. QED
  BY <1>1, <1>2, <1>3, <1>4
  DEF Next, vars, Engine, Announced, Watchdog, RapsMain, FsmDone, RapsTimers, RapsClearNR,
      RapsNoPeers, RapsClearTTL, RecvAnnounce, RecvRapsNR, RecvRapsSF, QueueRapsSF, LinkChange,
      LinkIsUp, LinkClearSF, LinkIsDown, Open, Opened, RapsStop, Close

(* The engine implements PeerTable for every number of stations, buffers    *)
(* and every setting of the timers: queue, flags, aging and lost            *)
(* allocations never show in the table but as one announce learnt, sides    *)
(* of one peer lost, or a restart, and the port the transmit path picks is  *)
(* always the preferred one of those known.                                 *)
THEOREM TableImplemented == Spec => ImplementsTable
<1>1. Init => Table!TInit
  <2> SUFFICES ASSUME Init PROVE Table!TInit
    OBVIOUS
  <2>1. \A k \in Remote : wfspeer[k] = NoPeer
    BY DEF Init, Remote
  <2>2. QED BY <2>1 DEF Table!TInit, Table!Nothing, Table!Side, EgressPort, NoPeer
<1>2. QED BY <1>1, TableStep, Invariant, PTL DEF Spec, ImplementsTable, Table!TSpec

-----------------------------------------------------------------------------
(* The event buffers.  What is queued is counted by the places it takes.    *)
LEMMA LinkedAppend ==
    ASSUME NEW q \in [WfsId -> Seq(Event)], NEW ev \in Event, NEW K \in SUBSET WfsId, IsFiniteSet(Linked(q))
    PROVE  LET r == [id \in WfsId |-> IF id \in K THEN Append(q[id], ev) ELSE q[id]]
           IN  IsFiniteSet(Linked(r)) /\ Cardinality(Linked(r)) <= Cardinality(Linked(q)) + Cardinality(K)
<1> DEFINE r == [id \in WfsId |-> IF id \in K THEN Append(q[id], ev) ELSE q[id]]
           f == [id \in K |-> <<id, Len(q[id]) + 1>>]
           T == {f[id] : id \in K}
<1>1. IsFiniteSet(K) /\ Cardinality(K) \in Nat
  <2>1. 1 \in Int /\ WFSID_MAX \in Int
    BY ConstantsAssumption DEF Nat1
  <2>2. IsFiniteSet(WfsId)
    BY <2>1, FS_Interval DEF WfsId
  <2>3. QED BY <2>2, FS_Subset, CardinalityType
<1>2. IsFiniteSet(T) /\ Cardinality(T) <= Cardinality(K) /\ Cardinality(T) \in Nat
  <2>1. f \in Surjection(K, T)
    BY DEF Surjection
  <2> HIDE DEF f, T
  <2>2. QED BY <2>1, <1>1, FS_Surjection, FS_CardinalityType
<1>3. \A id \in WfsId : q[id] \in Seq(Event) /\ Len(q[id]) \in Nat /\ DOMAIN q[id] = 1..Len(q[id])
  OBVIOUS
<1>4. \A id \in WfsId : DOMAIN r[id] = IF id \in K THEN DOMAIN q[id] \cup {Len(q[id]) + 1} ELSE DOMAIN q[id]
  <2> SUFFICES ASSUME NEW id \in WfsId
               PROVE  DOMAIN r[id] = IF id \in K THEN DOMAIN q[id] \cup {Len(q[id]) + 1} ELSE DOMAIN q[id]
    OBVIOUS
  <2>1. CASE id \in K
    <3>1. r[id] = Append(q[id], ev)
      BY <2>1
    <3>2. DOMAIN Append(q[id], ev) = 1..(Len(q[id]) + 1)
      BY <1>3
    <3>3. QED BY <3>1, <3>2, <1>3, <2>1
  <2>2. CASE id \notin K
    BY <2>2
  <2>3. QED BY <2>1, <2>2
<1> HIDE DEF r
<1>5. Linked(r) = Linked(q) \cup T
  <2>1. ASSUME NEW x \in Linked(r) PROVE x \in Linked(q) \cup T
    <3>0. PICK id \in WfsId : \E i \in DOMAIN r[id] : x = <<id, i>>
      BY DEF Linked
    <3>1. PICK i \in DOMAIN r[id] : x = <<id, i>>
      BY <3>0
    <3>2. CASE i \in DOMAIN q[id]
      BY <3>1, <3>2 DEF Linked
    <3>3. CASE i \notin DOMAIN q[id]
      BY <3>1, <3>3, <1>4
    <3>4. QED BY <3>2, <3>3
  <2>2. ASSUME NEW x \in T PROVE x \in Linked(r)
    <3>1. PICK id \in K : x = <<id, Len(q[id]) + 1>>
      OBVIOUS
    <3> HIDE DEF T
    <3>2. id \in WfsId /\ Len(q[id]) + 1 \in DOMAIN r[id]
      BY <3>1, <1>4
    <3>3. QED BY <3>1, <3>2 DEF Linked
  <2>3. ASSUME NEW x \in Linked(q) PROVE x \in Linked(r)
    <3>0. PICK id \in WfsId : \E i \in DOMAIN q[id] : x = <<id, i>>
      BY DEF Linked
    <3>1. PICK i \in DOMAIN q[id] : x = <<id, i>>
      BY <3>0
    <3>2. i \in DOMAIN r[id]
      BY <3>1, <1>4
    <3>3. QED BY <3>1, <3>2 DEF Linked
  <2>4. QED BY <2>1, <2>2, <2>3
<1> HIDE DEF T
<1>6. /\ IsFiniteSet(Linked(q) \cup T)
      /\ Cardinality(Linked(q) \cup T) = Cardinality(Linked(q)) + Cardinality(T) - Cardinality(Linked(q) \cap T)
  BY <1>2, FS_Union
<1>7. Cardinality(Linked(q)) \in Nat /\ Cardinality(Linked(q) \cap T) \in Nat
  <2>1. IsFiniteSet(Linked(q) \cap T)
    BY FS_Intersection
  <2>2. QED BY <2>1, FS_CardinalityType
<1>8. Cardinality(Linked(q) \cup T) <= Cardinality(Linked(q)) + Cardinality(K)
  BY <1>1, <1>2, <1>6, <1>7
<1>9. QED BY <1>5, <1>6, <1>8 DEF r

LEMMA LinkedTail ==
    ASSUME NEW q \in [WfsId -> Seq(Event)], NEW id \in WfsId, q[id] # <<>>, IsFiniteSet(Linked(q))
    PROVE  LET r == [q EXCEPT ![id] = Tail(@)]
           IN  IsFiniteSet(Linked(r)) /\ Cardinality(Linked(r)) = Cardinality(Linked(q)) - 1
<1> DEFINE r == [q EXCEPT ![id] = Tail(@)]
           l == Len(q[id])
<1>1. q[id] \in Seq(Event) /\ l \in Nat /\ l > 0 /\ DOMAIN q[id] = 1..l /\ DOMAIN Tail(q[id]) = 1..(l - 1)
  OBVIOUS
<1>2. DOMAIN r[id] = DOMAIN q[id] \ {l} /\ l \in DOMAIN q[id]
  BY <1>1
<1>3. \A k \in WfsId : k # id => r[k] = q[k]
  OBVIOUS
<1> HIDE DEF r, l
<1>4. \A x : x \in Linked(r) <=> \E k \in WfsId : \E i \in DOMAIN r[k] : x = <<k, i>>
  BY DEF Linked
<1>5. \A x : x \in Linked(q) <=> \E k \in WfsId : \E i \in DOMAIN q[k] : x = <<k, i>>
  BY DEF Linked
<1>6. Linked(r) = Linked(q) \ {<<id, l>>} /\ <<id, l>> \in Linked(q)
  <2>1. <<id, l>> \in Linked(q)
    BY <1>2, <1>5
  <2>2. ASSUME NEW x \in Linked(r) PROVE x \in Linked(q) /\ x # <<id, l>>
    <3>0. PICK k \in WfsId : \E i \in DOMAIN r[k] : x = <<k, i>>
      BY <1>4
    <3>1. PICK i \in DOMAIN r[k] : x = <<k, i>>
      BY <3>0
    <3>2. i \in DOMAIN q[k] /\ ~(k = id /\ i = l)
      BY <3>1, <1>2, <1>3
    <3>3. QED BY <3>1, <3>2, <1>5
  <2>3. ASSUME NEW x \in Linked(q), x # <<id, l>> PROVE x \in Linked(r)
    <3>0. PICK k \in WfsId : \E i \in DOMAIN q[k] : x = <<k, i>>
      BY <1>5
    <3>1. PICK i \in DOMAIN q[k] : x = <<k, i>>
      BY <3>0
    <3>2. i \in DOMAIN r[k]
      BY <3>1, <2>3, <1>2, <1>3
    <3>3. QED BY <3>1, <3>2, <1>4
  <2>4. QED BY <2>1, <2>2, <2>3
<1>7. IsFiniteSet(Linked(r)) /\ Cardinality(Linked(r)) = Cardinality(Linked(q)) - 1
  BY <1>6, FS_RemoveElement
<1>8. QED BY <1>7 DEF r

(* Every step counts the buffers right: they are linked into one list only. *)
BufferInv == IsFiniteSet(Linked(queue)) /\ BuffersNotShared

LEMMA AllocCount ==
    ASSUME free \in Nat, count \in Nat, NEW n \in Nat, AllocEvents(n), NEW a \in Nat, free + a <= count,
           NEW c \in Nat, c <= a + n
    PROVE  free' + c <= count'
<1>1. CASE n <= free
  BY <1>1 DEF AllocEvents
<1>2. CASE ~(n <= free)
  BY <1>2 DEF AllocEvents
<1>3. QED BY <1>1, <1>2

LEMMA BuffersAlloc ==
    ASSUME TypeOK, BufferInv, NEW K \in SUBSET WfsId, NEW ev \in Event, AllocEvents(Cardinality(K)),
           NEW q \in [WfsId -> Seq(Event)], IsFiniteSet(Linked(q)),
           Cardinality(Linked(q)) <= Cardinality(Linked(queue)),
           queue' = [id \in WfsId |-> IF id \in K THEN Append(q[id], ev) ELSE q[id]]
    PROVE  BufferInv'
<1> DEFINE n == Cardinality(K)
<1>1. n \in Nat
  BY CardinalityType
<1>2. IsFiniteSet(Linked(queue')) /\ Cardinality(Linked(queue')) <= Cardinality(Linked(q)) + n
  BY LinkedAppend
<1>3. /\ Cardinality(Linked(queue)) \in Nat /\ Cardinality(Linked(q)) \in Nat /\ Cardinality(Linked(queue')) \in Nat
  BY <1>2, FS_CardinalityType DEF BufferInv
<1>4. free \in Nat /\ count \in Nat /\ free + Cardinality(Linked(queue)) <= count
  BY DEF TypeOK, BufferInv, BuffersNotShared
<1>5. AllocEvents(n)
  OBVIOUS
<1> DEFINE a == Cardinality(Linked(queue))
           b == Cardinality(Linked(q))
           c == Cardinality(Linked(queue'))
<1>6. a \in Nat /\ b \in Nat /\ c \in Nat /\ c <= b + n /\ b <= a /\ free + a <= count
  BY <1>2, <1>3, <1>4
<1> HIDE DEF a, b, c, n
<1>7. c <= a + n
  BY <1>1, <1>6
<1>8. free' + c <= count'
  BY <1>1, <1>4, <1>5, <1>6, <1>7, AllocCount
<1>9. QED BY <1>2, <1>8 DEF BufferInv, BuffersNotShared, c

LEMMA BuffersStep == TypeOK /\ BufferInv /\ [Next]_vars => BufferInv'
<1> SUFFICES ASSUME TypeOK, BufferInv, [Next]_vars PROVE BufferInv'
  OBVIOUS
<1>0. queue \in [WfsId -> Seq(Event)] /\ IsFiniteSet(Linked(queue)) /\ Cardinality(Linked(queue)) \in Nat
  BY FS_CardinalityType DEF TypeOK, BufferInv
<1>f. ASSUME UNCHANGED <<queue, free, count>> PROVE BufferInv'
  BY <1>f DEF BufferInv, BuffersNotShared
<1>q. ASSUME NEW ids \in SUBSET WfsId, NEW ev \in Event, set_event(ids, ev) PROVE BufferInv'
  <2>1. CASE iwa \in {"closed", "opening"}
    BY <2>1, <1>q, <1>f DEF set_event
  <2>2. CASE iwa \notin {"closed", "opening"}
    <3>1. PICK K \in SUBSET ids : Enqueue(K, ev)
      BY <2>2, <1>q DEF set_event
    <3>2. K \in SUBSET WfsId /\ AllocEvents(Cardinality(K))
          /\ queue' = [id \in WfsId |-> IF id \in K THEN Append(queue[id], ev) ELSE queue[id]]
      BY <3>1 DEF Enqueue
    <3>3. QED BY <3>2, <1>0, BuffersAlloc
  <2>3. QED BY <2>1, <2>2
<1>1. CASE UNCHANGED vars
  BY <1>1, <1>f DEF vars
<1>2. CASE RapsMain \/ FsmDone \/ RapsTimers \/ RapsClearNR \/ RapsNoPeers \/ RapsClearTTL
  BY <1>2, <1>f DEF RapsMain, FsmDone, RapsTimers, RapsClearNR, RapsNoPeers, RapsClearTTL
<1>3. ASSUME NEW id \in WfsId, FsmEvent(id) PROVE BufferInv'
  <2>1. queue[id] # <<>> /\ queue' = [queue EXCEPT ![id] = Tail(@)] /\ free' = free + 1 /\ count' = count
    BY <1>3 DEF FsmEvent
  <2>2. IsFiniteSet(Linked(queue')) /\ Cardinality(Linked(queue')) = Cardinality(Linked(queue)) - 1
    BY <2>1, <1>0, LinkedTail
  <2>3. free \in Nat /\ count \in Nat
    BY DEF TypeOK
  <2>4. QED BY <2>1, <2>2, <2>3, <1>0 DEF BufferInv, BuffersNotShared
<1>4. CASE RapsUpdatePeers
  <2>1. PICK K \in SUBSET ActivePeers :
          /\ AllocEvents(Cardinality(K))
          /\ queue' = [id \in WfsId |-> IF id \in K THEN Append(queue[id], Ev("E_expire")) ELSE queue[id]]
    BY <1>4 DEF RapsUpdatePeers
  <2>2. K \in SUBSET WfsId /\ Ev("E_expire") \in Event
    BY <2>1, EvType DEF ActivePeers, Remote, wfs_fsm_event
  <2>3. QED BY <2>1, <2>2, <1>0, BuffersAlloc
<1>5. CASE RapsStart
  <2> DEFINE none == [id \in WfsId |-> <<>>]
  <2>1. PICK K \in SUBSET {myID} :
          /\ AllocEvents(Cardinality(K))
          /\ queue' = [id \in WfsId |-> IF id \in K THEN <<Ev("E_discover")>> ELSE <<>>]
    BY <1>5 DEF RapsStart
  <2>2. K \in SUBSET WfsId /\ Ev("E_discover") \in Event
    BY <2>1, EvType, ConstantsAssumption DEF WfsId, wfs_fsm_event
  <2>3. none \in [WfsId -> Seq(Event)] /\ Linked(none) = {}
    BY DEF Linked
  <2>4. IsFiniteSet(Linked(none)) /\ Cardinality(Linked(none)) <= Cardinality(Linked(queue))
    <3> HIDE DEF none
    <3>1. Cardinality(Linked(none)) = 0 /\ IsFiniteSet(Linked(none))
      BY <2>3, FS_EmptySet
    <3>2. QED BY <3>1, <1>0
  <2>5. queue' = [id \in WfsId |-> IF id \in K THEN Append(none[id], Ev("E_discover")) ELSE none[id]]
    BY <2>1, <2>2
  <2> HIDE DEF none
  <2>6. QED BY <2>1, <2>2, <2>3, <2>4, <2>5, BuffersAlloc
<1>6. ASSUME NEW id \in Remote, NEW p \in Port, NEW pri \in BOOLEAN, RecvAnnounce(id, p, pri) PROVE BufferInv'
  <2> DEFINE ev == [event |-> "E_discover", onPrimary |-> pri, recv |-> p]
  <2>1. ev \in Event /\ {id} \in SUBSET WfsId /\ set_event({id}, ev)
    BY <1>6 DEF RecvAnnounce, Event, wfs_fsm_event, Channel, Remote
  <2> HIDE DEF ev
  <2>2. QED BY <2>1, <1>q
<1>7. ASSUME NEW id \in Remote, NEW p \in Port, RecvRapsNR(id, p) PROVE BufferInv'
  <2>1. Ev("E_rapsNR") \in Event /\ {id} \in SUBSET WfsId /\ set_event({id}, Ev("E_rapsNR"))
    BY <1>7, EvType DEF RecvRapsNR, wfs_fsm_event, Remote
  <2>2. QED BY <2>1, <1>q
<1>8. ASSUME NEW id \in Remote, NEW p \in Port, RecvRapsSF(id, p) PROVE BufferInv'
  BY <1>8, <1>f DEF RecvRapsSF
<1>9. ASSUME NEW p \in Port, QueueRapsSF(p) PROVE BufferInv'
  <2> DEFINE ev == [event |-> "E_rapsSF", onPrimary |-> rx[p].onPrimary, recv |-> NULL]
  <2>1. rx[p] \in [id : Remote, onPrimary : BOOLEAN]
    BY <1>9 DEF QueueRapsSF, TypeOK
  <2>2. ev \in Event /\ {rx[p].id} \in SUBSET WfsId /\ set_event({rx[p].id}, ev)
    BY <2>1, <1>9 DEF QueueRapsSF, Event, wfs_fsm_event, Channel, Remote
  <2> HIDE DEF ev
  <2>3. QED BY <2>2, <1>q
<1>10. ASSUME NEW p \in Port, LinkChange(p) \/ LinkIsUp(p) PROVE BufferInv'
  BY <1>10, <1>f DEF LinkChange, LinkIsUp
<1>11. ASSUME NEW p \in Port, LinkClearSF(p) PROVE BufferInv'
  <2>1. Ev("E_clear_localSF") \in Event /\ WfsId \in SUBSET WfsId /\ set_event(WfsId, Ev("E_clear_localSF"))
    BY <1>11, EvType DEF LinkClearSF, wfs_fsm_event
  <2>2. QED BY <2>1, <1>q
<1>12. ASSUME NEW p \in Port, LinkIsDown(p) PROVE BufferInv'
  <2>1. Ev("E_localSF") \in Event /\ WfsId \in SUBSET WfsId /\ set_event(WfsId, Ev("E_localSF"))
    BY <1>12, EvType DEF LinkIsDown, wfs_fsm_event
  <2>2. QED BY <2>1, <1>q
<1>13. CASE Open \/ Opened \/ RapsStop \/ Close
  BY <1>13, <1>f DEF Open, Opened, RapsStop, Close
<1>14. QED
  BY <1>1, <1>2, <1>3, <1>4, <1>5, <1>6, <1>7, <1>8, <1>9, <1>10, <1>11, <1>12, <1>13
  DEF Next, Engine, Announced, Watchdog

LEMMA BuffersInit == Init => BufferInv
<1> SUFFICES ASSUME Init PROVE BufferInv
  OBVIOUS
<1>1. Linked(queue) = {} /\ free = count /\ count \in Nat
  BY ConstantsAssumption DEF Init, Linked
<1>2. QED BY <1>1, FS_EmptySet DEF BufferInv, BuffersNotShared

(* wfs_fsm_alloc_event() never hands out a buffer that is still queued, and *)
(* the buffers raps_start() forgets are never found free: for any number of *)
(* stations and buffers, and wherever an allocation fails.                  *)
THEOREM BuffersNeverShared == Spec => []BuffersNotShared
<1>1. TypeOK /\ BufferInv /\ [Next]_vars => TypeOK' /\ BufferInv'
  BY TypeStep, BuffersStep
<1>2. BufferInv => BuffersNotShared
  BY DEF BufferInv
<1>3. QED BY TypeInit, BuffersInit, <1>1, <1>2, PTL DEF Spec

-----------------------------------------------------------------------------
(* What an event that is not lost achieves.  With kmalloc() working, an     *)
(* allocation fails only when the free list is empty and no more may be     *)
(* allocated; Spare says that it does not come to that.                     *)
Spare == free > 0 \/ count < EVBUF_MAX_NUM

(* A channel of p has run out; an E_expire is queued.                       *)
Overdue(p) == (p.channel_pri # NULL /\ p.ttl_pri = 0) \/ (p.channel_sec # NULL /\ p.ttl_sec = 0)
Holds(q, e) == \E i \in DOMAIN q : q[i].event = e

(* The local alerts in the queue: a failure, and a recovery after the last  *)
(* failure.                                                                 *)
Cleared(q) ==
    \E i \in DOMAIN q : q[i].event = "E_clear_localSF" /\ \A j \in DOMAIN q : j > i => q[j].event # "E_localSF"

BothUp == \A p \in Port : link_up[p]
Alarmed == "SF" \in flag \/ wfspeer[myID].fsm_state = "S_protect" \/ Holds(queue[myID], "E_localSF")

(* An alarm that both links have outlived will be called off: the recovery  *)
(* is queued behind it, or a watchdog is about to queue it.                 *)
Recovery ==
    /\ \A p \in Port : wd[p] = "down" => ~link_up[p]
    /\ iwa = "opened" =>
         /\ wfspeer[myID].fsm_state = "S_init" => "SF" \notin flag /\ ~Holds(queue[myID], "E_localSF")
         /\ BothUp /\ Alarmed => Cleared(queue[myID]) \/ \E p \in Port : wd[p] \in {"up", "clear"}

LEMMA NoFailure ==
    ASSUME ~KmallocFails, TypeOK', Spare' PROVE ~AllocFailed
BY ConstantsAssumption DEF AllocFailed, Spare, TypeOK

LEMMA HoldsTail ==
    ASSUME NEW q \in Seq(Event), q # <<>>
    PROVE  /\ Tail(q) \in Seq(Event) /\ Head(q) \in Event
           /\ \A e : Holds(Tail(q), e) => Holds(q, e)
           /\ \A e : Holds(q, e) /\ Head(q).event # e => Holds(Tail(q), e)
           /\ Cleared(q) /\ (Head(q).event # "E_clear_localSF" \/ Holds(Tail(q), "E_localSF")) => Cleared(Tail(q))
<1> DEFINE t == Tail(q)
<1>1. /\ t \in Seq(Event) /\ Head(q) \in Event /\ Head(q) = q[1] /\ Len(q) \in Nat /\ Len(q) > 0
      /\ DOMAIN q = 1..Len(q) /\ DOMAIN t = 1..(Len(q) - 1) /\ \A i \in 1..(Len(q) - 1) : t[i] = q[i + 1]
  OBVIOUS
<1>2. \A i \in DOMAIN t : i \in Int /\ i + 1 \in DOMAIN q /\ t[i] = q[i + 1]
  BY <1>1
<1>3. \A i \in DOMAIN q : i \in Int /\ (i = 1 \/ (i > 1 /\ i - 1 \in DOMAIN t /\ t[i - 1] = q[i]))
  BY <1>1
<1> HIDE DEF t
<1>4. \A e : Holds(t, e) => Holds(q, e)
  BY <1>2 DEF Holds
<1>5. \A e : Holds(q, e) /\ q[1].event # e => Holds(t, e)
  BY <1>3 DEF Holds
<1>6. ASSUME Cleared(q), q[1].event # "E_clear_localSF" \/ Holds(t, "E_localSF") PROVE Cleared(t)
  <2>1. PICK i \in DOMAIN q : q[i].event = "E_clear_localSF" /\ \A j \in DOMAIN q : j > i => q[j].event # "E_localSF"
    BY <1>6 DEF Cleared
  <2>2. i # 1
    <3>1. ASSUME i = 1, Holds(t, "E_localSF") PROVE FALSE
      <4>1. PICK k \in DOMAIN t : t[k].event = "E_localSF"
        BY <3>1 DEF Holds
      <4>2. k + 1 \in DOMAIN q /\ q[k + 1].event = "E_localSF" /\ k + 1 > 1
        BY <4>1, <1>1, <1>2
      <4>3. QED BY <4>2, <3>1, <2>1
    <3>2. QED BY <3>1, <2>1, <1>6
  <2>3. i \in Int /\ i > 1 /\ i - 1 \in DOMAIN t /\ t[i - 1] = q[i]
    BY <2>2, <1>3
  <2>4. ASSUME NEW j \in DOMAIN t, j > i - 1 PROVE t[j].event # "E_localSF"
    <3>1. j + 1 \in DOMAIN q /\ t[j] = q[j + 1] /\ j + 1 > i
      BY <2>3, <2>4, <1>2
    <3>2. QED BY <3>1, <2>1
  <2>5. QED BY <2>1, <2>3, <2>4 DEF Cleared
<1>7. QED BY <1>1, <1>4, <1>5, <1>6 DEF t

LEMMA HoldsAppend ==
    ASSUME NEW q \in Seq(Event), NEW ev \in Event
    PROVE  /\ \A e : Holds(Append(q, ev), e) <=> Holds(q, e) \/ ev.event = e
           /\ ev.event = "E_clear_localSF" => Cleared(Append(q, ev))
<1> DEFINE t == Append(q, ev)
           l == Len(q) + 1
<1>1. /\ Len(q) \in Nat /\ DOMAIN q = 1..Len(q) /\ DOMAIN t = 1..l /\ t[l] = ev
      /\ \A i \in 1..Len(q) : t[i] = q[i]
  OBVIOUS
<1>2. DOMAIN t = DOMAIN q \cup {l} /\ t[l] = ev /\ (\A i \in DOMAIN q : t[i] = q[i]) /\ \A j \in DOMAIN t : ~(j > l)
  BY <1>1
<1> HIDE DEF t, l
<1>3. \A e : Holds(t, e) <=> Holds(q, e) \/ ev.event = e
  BY <1>2 DEF Holds
<1>4. ev.event = "E_clear_localSF" => Cleared(t)
  BY <1>2 DEF Cleared
<1>5. QED BY <1>3, <1>4 DEF t

(* An event is queued for whom it is valid, if nothing fails.               *)
LEMMA SetEventAll ==
    ASSUME TypeOK, NEW ids \in SUBSET WfsId, NEW ev \in Event, set_event(ids, ev)
    PROVE  /\ flag' \ {"FSM_EVENT"} = flag \ {"FSM_EVENT"}
           /\ \A id \in WfsId : queue'[id] \in {queue[id], Append(queue[id], ev)}
           /\ \A id \in WfsId : id \notin ids \/ ~valid_entry(wfspeer[id].fsm_state, ev.event, id = myID)
                                    => queue'[id] = queue[id]
           /\ iwa = "opened" /\ ~AllocFailed =>
                 \A id \in ids : valid_entry(wfspeer[id].fsm_state, ev.event, id = myID)
                                    => queue'[id] = Append(queue[id], ev)
<1>1. CASE iwa \in {"closed", "opening"}
  BY <1>1 DEF set_event
<1>2. CASE iwa \notin {"closed", "opening"}
  <2> DEFINE valid == {id \in ids : valid_entry(wfspeer[id].fsm_state, ev.event, id = myID)}
  <2>1. PICK K \in SUBSET valid : Enqueue(K, ev) /\ (K # valid => AllocFailed)
    BY <1>2 DEF set_event
  <2>2. \A id \in WfsId : queue'[id] = IF id \in K THEN Append(queue[id], ev) ELSE queue[id]
    BY <2>1 DEF Enqueue
  <2>3. flag' \ {"FSM_EVENT"} = flag \ {"FSM_EVENT"}
    BY <2>1 DEF Enqueue
  <2>4. QED BY <2>1, <2>2, <2>3
<1>3. QED BY <1>1, <1>2

(* An E_expire leaves no channel overdue, and no other event makes one so.  *)
LEMMA TransitAge ==
    ASSUME NEW id \in Remote, NEW p \in Peer, NEW ev \in Event
    PROVE  /\ ev.event = "E_expire" => ~Overdue(Transit(id, p, ev))
           /\ Overdue(Transit(id, p, ev)) => Overdue(p)
<1>0. id # myID /\ RAPS_PEER_TIMEOUT # 0
  BY ConstantsAssumption DEF Remote, Nat1
<1>1. CASE ev.event = "E_discover"
  <2> DEFINE q == UpdateChannels(p, ev)
  <2>1. q \in Peer /\ (Overdue(q) => Overdue(p))
    BY <1>0, ConstantsAssumption DEF UpdateChannels, Overdue, Peer, Event, Nat1, Channel
  <2>2. Transit(id, p, ev) = [q EXCEPT !.fsm_state = DiscoverState(q)]
    BY <1>0, <1>1 DEF Transit, action_discover
  <2> HIDE DEF q
  <2>3. QED BY <1>1, <2>1, <2>2 DEF Overdue, Peer
<1>2. CASE ev.event = "E_expire"
  <2>1. ~Overdue(action_expire(p))
    BY DEF action_expire, Overdue, Peer
  <2>2. QED BY <1>2, <2>1 DEF Transit
<1>3. CASE ev.event = "E_localSF"
  <2>1. Overdue(action_localSF(id, p)) => Overdue(p)
    BY <1>0 DEF action_localSF, Overdue, Peer
  <2>2. QED BY <1>3, <2>1 DEF Transit
<1>4. CASE ev.event \in {"E_clear_localSF", "E_rapsNR"}
  BY <1>4 DEF Transit, RevertToPrimary, Overdue, Peer
<1>5. CASE ev.event = "E_rapsSF"
  <2>1. Overdue(action_rapsSF(p, ev)) => Overdue(p)
    BY DEF action_rapsSF, Overdue, Peer
  <2>2. QED BY <1>5, <2>1 DEF Transit
<1>6. QED BY <1>1, <1>2, <1>3, <1>4, <1>5 DEF Event, wfs_fsm_event

(* ExpiryPending, peer by peer.                                             *)
Awaited(id) == Overdue(wfspeer[id]) => Holds(queue[id], "E_expire")

LEMMA ExpiryByPeer == ExpiryPending <=> \A id \in Remote : Awaited(id)
BY DEF ExpiryPending, Awaited, Overdue, Holds

LEMMA ExpiryEvent ==
    ASSUME IInv, ExpiryPending, NEW id \in WfsId, FsmEvent(id) PROVE ExpiryPending'
<1>1. wfspeer \in [WfsId -> Peer] /\ queue \in [WfsId -> Seq(Event)]
  BY DEF IInv, TypeOK
<1>2. queue[id] # <<>> /\ queue' = [queue EXCEPT ![id] = Tail(@)]
  BY DEF FsmEvent
<1>3. \A k \in WfsId : k # id => queue'[k] = queue[k] /\ wfspeer'[k] = wfspeer[k]
  BY <1>1 DEF FsmEvent
<1> DEFINE p  == wfspeer[id]
           ev == Head(queue[id])
           t  == Tail(queue[id])
<1>4. queue'[id] = t
  BY <1>1, <1>2
<1>5. /\ ev \in Event /\ p \in Peer
      /\ Holds(queue[id], "E_expire") /\ ev.event # "E_expire" => Holds(t, "E_expire")
  BY <1>1, <1>2, HoldsTail
<1>6. ASSUME id \in Remote, Overdue(wfspeer'[id]) PROVE Holds(t, "E_expire")
  <2>1. CASE valid_entry(p.fsm_state, ev.event, id = myID)
    <3>1. wfspeer'[id] = Transit(id, p, ev)
      BY <2>1, <1>1 DEF FsmEvent
    <3>2. ev.event # "E_expire" /\ Overdue(p)
      BY <3>1, <1>5, <1>6, TransitAge
    <3>3. Holds(queue[id], "E_expire")
      BY <3>2, <1>6, ExpiryByPeer DEF Awaited
    <3>4. QED BY <3>2, <3>3, <1>5
  <2>2. CASE ~valid_entry(p.fsm_state, ev.event, id = myID)
    <3>1. wfspeer'[id] = p
      BY <2>2 DEF FsmEvent
    <3>2. p.fsm_state # "S_init"
      BY <3>1, <1>6, <1>5 DEF IInv, StateFollowsChannels, Overdue, Peer
    <3>3. ev.event # "E_expire"
      BY <3>2, <2>2, <1>6 DEF valid_entry, Remote
    <3>4. Holds(queue[id], "E_expire")
      BY <3>1, <1>6, ExpiryByPeer DEF Awaited
    <3>5. QED BY <3>3, <3>4, <1>5
  <2>3. QED BY <2>1, <2>2
<1>7. ASSUME NEW k \in Remote PROVE Awaited(k)'
  <2>1. CASE k = id
    BY <2>1, <1>4, <1>6 DEF Awaited
  <2>2. CASE k # id
    <3>1. k \in WfsId /\ Awaited(k)
      BY ExpiryByPeer DEF Remote
    <3>2. QED BY <3>1, <2>2, <1>3 DEF Awaited
  <2>3. QED BY <2>1, <2>2
<1>8. (\A k \in Remote : Awaited(k))' => ExpiryPending'
  BY DEF ExpiryPending, Awaited, Overdue, Holds
<1>9. QED BY <1>7, <1>8

LEMMA ExpiryAging ==
    ASSUME IInv, ExpiryPending, RapsUpdatePeers, ~AllocFailed PROVE ExpiryPending'
<1> DEFINE expired == {id \in ActivePeers : JustExpired(wfspeer[id])}
<1>1. PICK K \in SUBSET expired :
        /\ K # expired => AllocFailed
        /\ queue' = [id \in WfsId |-> IF id \in K THEN Append(queue[id], Ev("E_expire")) ELSE queue[id]]
  BY DEF RapsUpdatePeers
<1>2. K = expired
  BY <1>1
<1>3. Ev("E_expire") \in Event /\ Ev("E_expire").event = "E_expire"
  BY EvType DEF wfs_fsm_event, Ev
<1>4. ASSUME NEW k \in Remote PROVE Awaited(k)'
  <2>1. k \in WfsId /\ wfspeer[k] \in Peer /\ queue[k] \in Seq(Event) /\ Awaited(k)
    BY ExpiryByPeer DEF IInv, TypeOK, Remote
  <2>2. CASE k \in expired
    <3>1. queue'[k] = Append(queue[k], Ev("E_expire"))
      BY <2>1, <2>2, <1>1, <1>2
    <3>2. Holds(queue'[k], "E_expire")
      BY <3>1, <2>1, <1>3, HoldsAppend
    <3>3. QED BY <3>2 DEF Awaited
  <2>3. CASE k \notin expired
    <3>1. queue'[k] = queue[k]
      BY <2>1, <2>3, <1>1
    <3>2. CASE k \in ActivePeers
      <4>1. wfspeer'[k] = AgePeer(wfspeer[k])
        BY <3>2, <2>1 DEF RapsUpdatePeers
      <4>2. wfspeer[k].ttl_pri # 1 /\ wfspeer[k].ttl_sec # 1
        BY <3>2, <2>3 DEF JustExpired
      <4>3. Overdue(AgePeer(wfspeer[k])) => Overdue(wfspeer[k])
        BY <4>2, <2>1 DEF AgePeer, Overdue, Peer, Dec
      <4>4. QED BY <4>1, <4>3, <3>1, <2>1 DEF Awaited
    <3>3. CASE k \notin ActivePeers
      <4>1. wfspeer'[k] = wfspeer[k]
        BY <3>3, <2>1 DEF RapsUpdatePeers
      <4>2. QED BY <4>1, <3>1, <2>1 DEF Awaited
    <3>4. QED BY <3>2, <3>3
  <2>4. QED BY <2>2, <2>3
<1>5. (\A k \in Remote : Awaited(k))' => ExpiryPending'
  BY DEF ExpiryPending, Awaited, Overdue, Holds
<1>6. QED BY <1>4, <1>5

LEMMA ExpiryStep ==
    ASSUME ~KmallocFails, IInv, TypeOK', ExpiryPending, [Next]_vars, Spare' PROVE ExpiryPending'
<1>0. TypeOK /\ queue \in [WfsId -> Seq(Event)]
  BY DEF IInv, TypeOK
<1>f. ASSUME UNCHANGED <<queue, wfspeer>> PROVE ExpiryPending'
  BY <1>f DEF ExpiryPending
<1>q. ASSUME NEW ids \in SUBSET WfsId, NEW ev \in Event, set_event(ids, ev), UNCHANGED wfspeer PROVE ExpiryPending'
  <2>1. \A id \in WfsId : queue'[id] \in {queue[id], Append(queue[id], ev)}
    BY <1>0, <1>q, SetEventAll
  <2>2. ASSUME NEW id \in Remote PROVE Awaited(id)'
    <3>1. Awaited(id) /\ id \in WfsId /\ queue[id] \in Seq(Event)
      BY <1>0, ExpiryByPeer DEF Remote
    <3>2. Holds(queue[id], "E_expire") => Holds(queue'[id], "E_expire")
      <4>1. CASE queue'[id] = queue[id]
        BY <4>1
      <4>2. CASE queue'[id] = Append(queue[id], ev)
        <5>1. Holds(queue[id], "E_expire") => Holds(Append(queue[id], ev), "E_expire")
          BY <3>1, <1>q, HoldsAppend, Zenon
        <5>2. QED BY <4>2, <5>1, Zenon
      <4>3. QED BY <3>1, <2>1, <4>1, <4>2, Zenon
    <3>3. QED BY <3>1, <3>2, <1>q DEF Awaited
  <2>3. (\A k \in Remote : Awaited(k))' => ExpiryPending'
    BY DEF ExpiryPending, Awaited, Overdue, Holds
  <2>4. QED BY <2>2, <2>3
<1>1. CASE UNCHANGED vars
  BY <1>1, <1>f DEF vars
<1>2. CASE RapsMain \/ FsmDone \/ RapsTimers \/ RapsClearNR \/ RapsNoPeers \/ RapsClearTTL
  BY <1>2, <1>f DEF RapsMain, FsmDone, RapsTimers, RapsClearNR, RapsNoPeers, RapsClearTTL
<1>3. ASSUME NEW id \in WfsId, FsmEvent(id) PROVE ExpiryPending'
  BY <1>3, ExpiryEvent
<1>4. CASE RapsUpdatePeers
  BY <1>4, NoFailure, ExpiryAging
<1>5. CASE RapsStart
  BY <1>5 DEF RapsStart, ExpiryPending, Remote, NoPeer
<1>6. ASSUME NEW id \in Remote, NEW p \in Port, NEW pri \in BOOLEAN, RecvAnnounce(id, p, pri) PROVE ExpiryPending'
  <2> DEFINE ev == [event |-> "E_discover", onPrimary |-> pri, recv |-> p]
  <2>1. ev \in Event /\ {id} \in SUBSET WfsId /\ set_event({id}, ev) /\ UNCHANGED wfspeer
    BY <1>6 DEF RecvAnnounce, Event, wfs_fsm_event, Channel, Remote
  <2> HIDE DEF ev
  <2>2. QED BY <2>1, <1>q
<1>7. ASSUME NEW id \in Remote, NEW p \in Port, RecvRapsNR(id, p) PROVE ExpiryPending'
  <2>1. Ev("E_rapsNR") \in Event /\ {id} \in SUBSET WfsId /\ set_event({id}, Ev("E_rapsNR")) /\ UNCHANGED wfspeer
    BY <1>7, EvType DEF RecvRapsNR, wfs_fsm_event, Remote
  <2>2. QED BY <2>1, <1>q
<1>8. ASSUME NEW id \in Remote, NEW p \in Port, RecvRapsSF(id, p) PROVE ExpiryPending'
  BY <1>8, <1>f DEF RecvRapsSF
<1>9. ASSUME NEW p \in Port, QueueRapsSF(p) PROVE ExpiryPending'
  <2> DEFINE ev == [event |-> "E_rapsSF", onPrimary |-> rx[p].onPrimary, recv |-> NULL]
  <2>1. rx[p] \in [id : Remote, onPrimary : BOOLEAN]
    BY <1>0, <1>9 DEF QueueRapsSF, TypeOK
  <2>2. ev \in Event /\ {rx[p].id} \in SUBSET WfsId /\ set_event({rx[p].id}, ev) /\ UNCHANGED wfspeer
    BY <2>1, <1>9 DEF QueueRapsSF, Event, wfs_fsm_event, Channel, Remote
  <2> HIDE DEF ev
  <2>3. QED BY <2>2, <1>q
<1>10. ASSUME NEW p \in Port, LinkChange(p) \/ LinkIsUp(p) PROVE ExpiryPending'
  BY <1>10, <1>f DEF LinkChange, LinkIsUp
<1>11. ASSUME NEW p \in Port, LinkClearSF(p) PROVE ExpiryPending'
  <2>1. /\ Ev("E_clear_localSF") \in Event /\ WfsId \in SUBSET WfsId /\ set_event(WfsId, Ev("E_clear_localSF"))
        /\ UNCHANGED wfspeer
    BY <1>11, EvType DEF LinkClearSF, wfs_fsm_event
  <2>2. QED BY <2>1, <1>q
<1>12. ASSUME NEW p \in Port, LinkIsDown(p) PROVE ExpiryPending'
  <2>1. /\ Ev("E_localSF") \in Event /\ WfsId \in SUBSET WfsId /\ set_event(WfsId, Ev("E_localSF"))
        /\ UNCHANGED wfspeer
    BY <1>12, EvType DEF LinkIsDown, wfs_fsm_event
  <2>2. QED BY <2>1, <1>q
<1>13. CASE Open \/ Opened \/ RapsStop \/ Close
  BY <1>13, <1>f DEF Open, Opened, RapsStop, Close
<1>14. QED
  BY <1>1, <1>2, <1>3, <1>4, <1>5, <1>6, <1>7, <1>8, <1>9, <1>10, <1>11, <1>12, <1>13
  DEF Next, Engine, Announced, Watchdog

(* While the event buffers last, wfs_update_peers() loses no expiry: a      *)
(* channel whose time is up has its E_expire queued, for any number of      *)
(* peers and any timeout, however often it is heard again in between.       *)
THEOREM ExpiryNeverLost ==
    ASSUME ~KmallocFails PROVE Spec /\ []Spare => []ExpiryPending
<1>1. Init => ExpiryPending
  BY DEF Init, ExpiryPending, NoPeer, Remote
<1>2. IInv /\ IInv' /\ ExpiryPending /\ [Next]_vars /\ Spare' => ExpiryPending'
  BY ExpiryStep DEF IInv
<1>3. QED BY <1>1, <1>2, Invariant, PTL DEF Spec

-----------------------------------------------------------------------------
(* The recovery of the links.  Steps that leave the local station alone.    *)
LEMMA RecoveryFrame ==
    ASSUME Recovery, UNCHANGED <<link_up, wd>>, iwa' = "opened" => iwa = "opened",
           wfspeer'[myID] = wfspeer[myID], queue'[myID] = queue[myID], "SF" \in flag' => "SF" \in flag
    PROVE  Recovery'
BY DEF Recovery, BothUp, Alarmed

(* wfs_fsm_run() takes an event of the local station.                       *)
LEMMA RecoveryLocalEvent ==
    ASSUME IInv, Recovery, FsmEvent(myID) PROVE Recovery'
<1> DEFINE p  == wfspeer[myID]
           q  == queue[myID]
           ev == Head(q)
           t  == Tail(q)
           r  == wfspeer'[myID]
<1>1. /\ myID \in WfsId /\ wfspeer \in [WfsId -> Peer] /\ queue \in [WfsId -> Seq(Event)]
      /\ q \in Seq(Event) /\ q # <<>> /\ p \in Peer
  BY ConstantsAssumption DEF IInv, TypeOK, WfsId, FsmEvent
<1>2. queue'[myID] = t /\ UNCHANGED <<iwa, link_up, wd>>
  BY <1>1 DEF FsmEvent, links
<1>3. /\ ev \in Event /\ (Holds(t, "E_localSF") => Holds(q, "E_localSF"))
      /\ Cleared(q) /\ (ev.event # "E_clear_localSF" \/ Holds(t, "E_localSF")) => Cleared(t)
      /\ Holds(q, "E_localSF") \/ ev.event # "E_localSF"
  <2>1. ev = q[1] /\ 1 \in DOMAIN q
    BY <1>1
  <2>2. Holds(q, "E_localSF") \/ ev.event # "E_localSF"
    BY <2>1 DEF Holds
  <2>3. QED BY <2>2, <1>1, HoldsTail
<1>4. CASE iwa # "opened"
  BY <1>2, <1>4 DEF Recovery
<1>5. CASE iwa = "opened"
  <2>1. /\ p.fsm_state = "S_init" => "SF" \notin flag /\ ~Holds(q, "E_localSF")
        /\ BothUp /\ Alarmed => Cleared(q) \/ \E c \in Port : wd[c] \in {"up", "clear"}
    BY <1>5 DEF Recovery
  <2>2. SUFFICES /\ r.fsm_state = "S_init" => "SF" \notin flag' /\ ~Holds(t, "E_localSF")
                 /\ BothUp /\ ("SF" \in flag' \/ r.fsm_state = "S_protect" \/ Holds(t, "E_localSF"))
                       => Cleared(t) \/ \E c \in Port : wd[c] \in {"up", "clear"}
    BY <1>2, <1>5 DEF Recovery, BothUp, Alarmed
  <2>3. CASE ~valid_entry(p.fsm_state, ev.event, TRUE)
    <3>1. r = p /\ flag' = flag
      BY <2>3 DEF FsmEvent
    <3>2. CASE p.fsm_state = "S_init"
      BY <3>1, <3>2, <2>1, <1>3
    <3>3. CASE p.fsm_state # "S_init"
      <4>1. ev.event # "E_clear_localSF"
        BY <2>3, <3>3 DEF valid_entry
      <4>2. QED BY <4>1, <3>1, <3>3, <2>1, <1>3 DEF Alarmed
    <3>4. QED BY <3>2, <3>3
  <2>4. CASE valid_entry(p.fsm_state, ev.event, TRUE)
    <3>1. r = Transit(myID, p, ev) /\ Control(myID, ev)
      BY <2>4, <1>1 DEF FsmEvent
    <3>2. CASE ev.event = "E_discover"
      <4>1. p.fsm_state = "S_init"
        BY <2>4, <3>2 DEF valid_entry
      <4>2. "SF" \notin flag'
        BY <4>1, <3>1, <3>2, <2>1 DEF Control
      <4>3. r.fsm_state # "S_protect"
        <5>1. r = [p EXCEPT !.fsm_state = DiscoverState(p)]
          BY <3>1, <3>2 DEF Transit, action_discover
        <5>2. DiscoverState(p) # "S_protect"
          BY <4>1, ConstantsAssumption DEF DiscoverState, Up, IInv, LocalChannels
        <5>3. QED BY <5>1, <5>2, <1>1 DEF Peer
      <4>4. QED BY <4>1, <4>2, <4>3, <2>1, <1>3
    <3>3. CASE ev.event = "E_localSF"
      <4>1. p.fsm_state # "S_init"
        BY <2>4, <3>3 DEF valid_entry
      <4>2. r.fsm_state # "S_init"
        <5>1. r = action_localSF(myID, p)
          BY <3>1, <3>3 DEF Transit
        <5>2. QED BY <4>1, <5>1, <1>1 DEF action_localSF, Failover, Peer
      <4>3. Alarmed /\ (Cleared(q) => Cleared(t))
        BY <3>3, <1>3 DEF Alarmed
      <4>4. QED BY <4>2, <4>3, <2>1
    <3>4. CASE ev.event = "E_clear_localSF"
      <4>1. p.fsm_state # "S_init"
        BY <2>4, <3>4 DEF valid_entry
      <4>2. "SF" \notin flag'
        BY <3>1, <3>4 DEF Control
      <4>3. r = RevertToPrimary(p)
        BY <3>1, <3>4 DEF Transit
      <4>4. r.fsm_state # "S_init"
        BY <4>1, <4>3, <1>1 DEF RevertToPrimary, Peer
      <4>5. BothUp => r.fsm_state # "S_protect"
        <5>1. p.channel_pri = primary /\ p.channel_sec = secondary
          BY <4>1 DEF IInv, LocalChannels
        <5>2. BothUp => LinkUp(p.channel_pri) /\ LinkUp(p.channel_sec)
          BY <5>1, ConstantsAssumption DEF BothUp, LinkUp, Port
        <5>3. QED BY <5>2, <4>3, <1>1 DEF RevertToPrimary, Peer
      <4>6. Holds(t, "E_localSF") => Alarmed /\ (Cleared(q) => Cleared(t))
        BY <1>3 DEF Alarmed
      <4>7. QED BY <4>2, <4>4, <4>5, <4>6, <2>1
    <3>5. QED BY <3>2, <3>3, <3>4, <2>4, <1>3 DEF valid_entry, Event, wfs_fsm_event
  <2>5. QED BY <2>3, <2>4
<1>6. QED BY <1>4, <1>5

LEMMA RecoveryRemoteEvent ==
    ASSUME IInv, Recovery, NEW id \in Remote, FsmEvent(id) PROVE Recovery'
<1>1. id # myID /\ myID \in WfsId /\ id \in WfsId /\ wfspeer \in [WfsId -> Peer] /\ queue \in [WfsId -> Seq(Event)]
  BY ConstantsAssumption DEF Remote, WfsId, IInv, TypeOK
<1>2. wfspeer'[myID] = wfspeer[myID] /\ queue'[myID] = queue[myID] /\ UNCHANGED <<iwa, link_up, wd>>
  BY <1>1 DEF FsmEvent, links
<1> DEFINE ev == Head(queue[id])
           s  == wfspeer[id].fsm_state
<1>3. "SF" \in flag' => "SF" \in flag
  <2>1. CASE ~valid_entry(s, ev.event, id = myID)
    BY <2>1 DEF FsmEvent
  <2>2. CASE valid_entry(s, ev.event, id = myID)
    <3>1. Control(id, ev)
      BY <2>2 DEF FsmEvent
    <3>2. ev.event # "E_clear_localSF"
      BY <2>2, <1>1 DEF valid_entry
    <3> HIDE DEF ev
    <3>3. QED BY <3>1, <3>2, <1>1 DEF Control
  <2>3. QED BY <2>1, <2>2
<1>4. QED BY <1>2, <1>3, RecoveryFrame

(* The watchdogs.                                                           *)
LEMMA RecoveryWatchdog ==
    ASSUME IInv, Recovery, NEW p \in Port, LinkChange(p) \/ LinkIsUp(p) PROVE Recovery'
<1>1. UNCHANGED <<iwa, wfspeer, queue, flag>> /\ link_up \in [Port -> BOOLEAN] /\ DOMAIN wd = Port
  BY DEF LinkChange, LinkIsUp, IInv, TypeOK
<1>2. \A c \in Port : c # p => link_up'[c] = link_up[c] /\ wd'[c] = wd[c]
  BY <1>1 DEF LinkChange, LinkIsUp
<1>3. \/ link_up[p] /\ ~link_up'[p] /\ wd'[p] = "down"
      \/ wd'[p] = "up" /\ link_up'[p]
      \/ wd'[p] = (IF link_up[wfs_other(p)] THEN "clear" ELSE "idle") /\ link_up' = link_up
  BY <1>1 DEF LinkChange, LinkIsUp
<1>4. wfs_other(p) \in Port
  BY DEF wfs_other, Port
<1>5. (\A c \in Port : wd[c] = "down" => ~link_up[c])'
  BY <1>2, <1>3 DEF Recovery
<1>6. BothUp' => \E c \in Port : wd'[c] \in {"up", "clear"}
  BY <1>3, <1>4 DEF BothUp
<1>7. QED BY <1>1, <1>5, <1>6 DEF Recovery

LEMMA RecoveryQueued ==
    ASSUME IInv, Recovery, ~AllocFailed, NEW p \in Port, LinkClearSF(p) PROVE Recovery'
<1> DEFINE ev == Ev("E_clear_localSF")
<1>1. /\ set_event(WfsId, ev) /\ UNCHANGED <<iwa, link_up, wfspeer>> /\ wd[p] = "clear"
      /\ wd' = [wd EXCEPT ![p] = "idle"] /\ wd \in [Port -> {"idle", "up", "clear", "down"}]
  BY DEF LinkClearSF, IInv, TypeOK
<1>2. ev \in Event /\ ev.event = "E_clear_localSF" /\ WfsId \in SUBSET WfsId /\ myID \in WfsId /\ queue[myID] \in Seq(Event)
  BY EvType, ConstantsAssumption DEF wfs_fsm_event, WfsId, Ev, IInv, TypeOK
<1> HIDE DEF ev
<1>3. /\ flag' \ {"FSM_EVENT"} = flag \ {"FSM_EVENT"}
      /\ ~valid_entry(wfspeer[myID].fsm_state, ev.event, myID = myID) => queue'[myID] = queue[myID]
      /\ iwa = "opened" /\ valid_entry(wfspeer[myID].fsm_state, ev.event, myID = myID)
           => queue'[myID] = Append(queue[myID], ev)
  BY <1>1, <1>2, SetEventAll DEF IInv
<1>4. (\A c \in Port : wd[c] = "down" => ~link_up[c])'
  BY <1>1 DEF Recovery
<1>5. CASE wfspeer[myID].fsm_state = "S_init"
  <2>1. queue'[myID] = queue[myID]
    BY <1>2, <1>3, <1>5 DEF valid_entry
  <2>2. "SF" \in flag' => "SF" \in flag
    BY <1>3
  <2>3. QED BY <2>1, <2>2, <1>1, <1>4, <1>5 DEF Recovery, Alarmed
<1>6. CASE wfspeer[myID].fsm_state # "S_init"
  <2>1. valid_entry(wfspeer[myID].fsm_state, ev.event, myID = myID)
    BY <1>2, <1>6 DEF valid_entry
  <2>2. iwa = "opened" => Cleared(queue'[myID])
    BY <2>1, <1>2, <1>3, HoldsAppend
  <2>3. QED BY <2>2, <1>1, <1>4, <1>6 DEF Recovery
<1>7. QED BY <1>5, <1>6

LEMMA RecoveryFailed ==
    ASSUME IInv, Recovery, NEW p \in Port, LinkIsDown(p) PROVE Recovery'
<1> DEFINE ev == Ev("E_localSF")
<1>1. /\ set_event(WfsId, ev) /\ UNCHANGED <<iwa, link_up, wfspeer>> /\ wd[p] = "down"
      /\ wd' = [wd EXCEPT ![p] = "idle"] /\ wd \in [Port -> {"idle", "up", "clear", "down"}]
  BY DEF LinkIsDown, IInv, TypeOK
<1>2. ev \in Event /\ ev.event = "E_localSF" /\ WfsId \in SUBSET WfsId /\ myID \in WfsId
  BY EvType, ConstantsAssumption DEF wfs_fsm_event, WfsId, Ev
<1> HIDE DEF ev
<1>3. /\ flag' \ {"FSM_EVENT"} = flag \ {"FSM_EVENT"}
      /\ ~valid_entry(wfspeer[myID].fsm_state, ev.event, myID = myID) => queue'[myID] = queue[myID]
  BY <1>1, <1>2, SetEventAll DEF IInv
<1>4. (\A c \in Port : wd[c] = "down" => ~link_up[c])'
  BY <1>1 DEF Recovery
<1>5. ~BothUp'
  BY <1>1 DEF Recovery, BothUp
<1>6. wfspeer[myID].fsm_state = "S_init" => queue'[myID] = queue[myID]
  BY <1>2, <1>3 DEF valid_entry
<1>7. "SF" \in flag' => "SF" \in flag
  BY <1>3
<1>8. QED BY <1>1, <1>4, <1>5, <1>6, <1>7 DEF Recovery

LEMMA RecoveryStep ==
    ASSUME ~KmallocFails, IInv, TypeOK', Recovery, [Next]_vars, Spare' PROVE Recovery'
<1>0. TypeOK /\ myID \in WfsId /\ myID \notin Remote /\ Remote \subseteq WfsId
  BY ConstantsAssumption DEF IInv, WfsId, Remote
<1>q. ASSUME NEW id \in Remote, NEW ev \in Event, set_event({id}, ev), UNCHANGED <<iwa, wfspeer, link_up, wd>>
      PROVE  Recovery'
  <2>1. {id} \in SUBSET WfsId
    BY <1>0
  <2>2. queue'[myID] = queue[myID] /\ flag' \ {"FSM_EVENT"} = flag \ {"FSM_EVENT"}
    BY <2>1, <1>0, <1>q, SetEventAll
  <2>3. QED BY <2>2, <1>q, RecoveryFrame
<1>1. CASE UNCHANGED vars
  BY <1>1, RecoveryFrame DEF vars
<1>2. CASE RapsMain \/ FsmDone \/ RapsTimers \/ RapsNoPeers
  <2>1. UNCHANGED <<iwa, link_up, wd, wfspeer, queue>> /\ flag' \subseteq flag
    BY <1>2 DEF RapsMain, FsmDone, RapsTimers, RapsNoPeers, links
  <2>2. QED BY <2>1, RecoveryFrame
<1>3. CASE RapsClearNR \/ RapsClearTTL
  <2>1. UNCHANGED <<iwa, link_up, wd, wfspeer, queue>>
    BY <1>3 DEF RapsClearNR, RapsClearTTL, links
  <2>2. (flag' \subseteq flag \/ flag' \subseteq reg) /\ rm \in {"clrNR", "clrTTL"}
    BY <1>3 DEF RapsClearNR, RapsClearTTL, ClearFlag
  <2>3. "SF" \in flag' => "SF" \in flag
    BY <2>2 DEF IInv, ClearPending
  <2>4. QED BY <2>1, <2>3, RecoveryFrame
<1>4. ASSUME NEW id \in WfsId, FsmEvent(id) PROVE Recovery'
  <2>1. CASE id = myID
    BY <2>1, <1>4, RecoveryLocalEvent
  <2>2. CASE id # myID
    BY <2>2, <1>4, RecoveryRemoteEvent DEF Remote
  <2>3. QED BY <2>1, <2>2
<1>5. CASE RapsUpdatePeers
  <2>1. PICK K \in SUBSET ActivePeers :
          /\ queue' = [id \in WfsId |-> IF id \in K THEN Append(queue[id], Ev("E_expire")) ELSE queue[id]]
          /\ flag' = IF K = {} THEN flag ELSE flag \cup {"FSM_EVENT"}
    BY <1>5 DEF RapsUpdatePeers
  <2>2. myID \notin ActivePeers
    BY <1>0 DEF ActivePeers
  <2>3. UNCHANGED <<iwa, link_up, wd>> /\ wfspeer'[myID] = wfspeer[myID]
    BY <1>0, <1>5, <2>2 DEF RapsUpdatePeers, links
  <2>4. queue'[myID] = queue[myID] /\ ("SF" \in flag' => "SF" \in flag)
    BY <1>0, <2>1, <2>2
  <2>5. QED BY <2>3, <2>4, RecoveryFrame
<1>6. CASE RapsStart
  <2>1. /\ UNCHANGED <<link_up, wd>> /\ wfspeer'[myID] = LocalPeer /\ flag' \in {{}, {"FSM_EVENT"}}
        /\ queue'[myID] \in {<<Ev("E_discover")>>, <<>>}
    BY <1>0, <1>6 DEF RapsStart, links
  <2>2. ~Holds(queue'[myID], "E_localSF")
    BY <2>1 DEF Holds, Ev
  <2>3. LocalPeer.fsm_state = "S_init"
    BY DEF LocalPeer, NoPeer
  <2>4. QED BY <2>1, <2>2, <2>3 DEF Recovery, Alarmed
<1>7. ASSUME NEW id \in Remote, NEW p \in Port, NEW pri \in BOOLEAN, RecvAnnounce(id, p, pri) PROVE Recovery'
  <2> DEFINE ev == [event |-> "E_discover", onPrimary |-> pri, recv |-> p]
  <2>1. ev \in Event /\ set_event({id}, ev) /\ UNCHANGED <<iwa, wfspeer, link_up, wd>>
    BY <1>7 DEF RecvAnnounce, Event, wfs_fsm_event, Channel, links
  <2> HIDE DEF ev
  <2>2. QED BY <2>1, <1>q
<1>8. ASSUME NEW id \in Remote, NEW p \in Port, RecvRapsNR(id, p) PROVE Recovery'
  <2>1. Ev("E_rapsNR") \in Event /\ set_event({id}, Ev("E_rapsNR")) /\ UNCHANGED <<iwa, wfspeer, link_up, wd>>
    BY <1>8, EvType DEF RecvRapsNR, wfs_fsm_event, links
  <2>2. QED BY <2>1, <1>q
<1>9. ASSUME NEW id \in Remote, NEW p \in Port, RecvRapsSF(id, p) PROVE Recovery'
  BY <1>9, RecoveryFrame DEF RecvRapsSF, links
<1>10. ASSUME NEW p \in Port, QueueRapsSF(p) PROVE Recovery'
  <2> DEFINE ev == [event |-> "E_rapsSF", onPrimary |-> rx[p].onPrimary, recv |-> NULL]
  <2>1. rx[p] \in [id : Remote, onPrimary : BOOLEAN]
    BY <1>0, <1>10 DEF QueueRapsSF, TypeOK
  <2>2. ev \in Event /\ rx[p].id \in Remote /\ set_event({rx[p].id}, ev) /\ UNCHANGED <<iwa, wfspeer, link_up, wd>>
    BY <2>1, <1>10 DEF QueueRapsSF, Event, wfs_fsm_event, Channel, links
  <2> HIDE DEF ev
  <2>3. QED BY <2>2, <1>q
<1>11. ASSUME NEW p \in Port, LinkChange(p) \/ LinkIsUp(p) PROVE Recovery'
  BY <1>11, RecoveryWatchdog
<1>12. ASSUME NEW p \in Port, LinkClearSF(p) PROVE Recovery'
  BY <1>12, NoFailure, RecoveryQueued
<1>13. ASSUME NEW p \in Port, LinkIsDown(p) PROVE Recovery'
  BY <1>13, RecoveryFailed
<1>14. CASE Open \/ Opened \/ RapsStop \/ Close
  <2>1. UNCHANGED <<link_up, wd, wfspeer, queue, flag>> /\ iwa' # "opened"
    BY <1>14 DEF Open, Opened, RapsStop, Close, links
  <2>2. QED BY <2>1, RecoveryFrame
<1>15. QED
  BY <1>1, <1>2, <1>3, <1>4, <1>5, <1>6, <1>7, <1>8, <1>9, <1>10, <1>11, <1>12, <1>13, <1>14
  DEF Next, Engine, Announced, Watchdog

(* While the event buffers last, the two watchdogs between them never miss  *)
(* that both links are back, in whatever order they saw them flap: once     *)
(* they are at rest and the local events are processed, no SF alert goes    *)
(* on and the local station is off its secondary.                           *)
THEOREM RecoveryNeverMissed ==
    ASSUME ~KmallocFails PROVE Spec /\ []Spare => []RecoveryNoticed
<1>1. Init => Recovery
  BY DEF Init, Recovery
<1>2. IInv /\ IInv' /\ Recovery /\ [Next]_vars /\ Spare' => Recovery'
  BY RecoveryStep DEF IInv
<1>3. Recovery => RecoveryNoticed
  <2> SUFFICES ASSUME Recovery, iwa = "opened", queue[myID] = <<>>, \A p \in Port : wd[p] = "idle" /\ link_up[p]
               PROVE  "SF" \notin flag /\ wfspeer[myID].fsm_state # "S_protect"
    BY DEF RecoveryNoticed
  <2>1. BothUp /\ ~Cleared(queue[myID]) /\ ~\E p \in Port : wd[p] \in {"up", "clear"}
    BY DEF BothUp, Cleared
  <2>2. QED BY <2>1 DEF Recovery, Alarmed
<1>4. QED BY <1>1, <1>2, <1>3, Invariant, PTL DEF Spec
=============================================================================
