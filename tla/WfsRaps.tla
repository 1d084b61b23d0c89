------------------------------ MODULE WfsRaps ------------------------------
(***************************************************************************)
(* The ring protection engine of one workstation (ixgbe_wfs_raps.c): the   *)
(* table of peers, the finite state machine that chooses the channel used  *)
(* towards each peer, the queue of events that feeds it, the event buffers *)
(* behind the queue, and raps_main(), the one-second timer handler that    *)
(* runs it all.  Around it: the receive path that turns control packets    *)
(* into events (ixgbe_wfs.c), the two per-port watchdogs that turn link    *)
(* changes into events (ixgbe_main.c), and open/close of the device.       *)
(*                                                                         *)
(* raps_main() runs under raps_lock, the queue and the peers' states are   *)
(* under fsm_lock, and raps_ctrl.flag is written under fsm_lock by         *)
(* ixgbe_wfs_fsm_set_event() but under raps_lock only by raps_main(): the  *)
(* two clears raps_main() does are therefore split into a load and a store *)
(* here, with every outcome two unsynchronised read-modify-writes have.    *)
(*                                                                         *)
(* Time is counted in RAPS_TICKs.  Events of different peers touch         *)
(* disjoint state, so the one queue of the code is kept as one FIFO per    *)
(* peer.  Buffers are interchangeable, so the free list is a number.       *)
(***************************************************************************)
EXTENDS Integers, Sequences, FiniteSets

CONSTANTS
    WFSID_MAX,     \* highest workstation id; ids are 1..WFSID_MAX
    myID,          \* iwa->wfs_id
    primary,       \* iwa->primary, the first probed adapter
    secondary,     \* iwa->secondary
    NULL,          \* no channel, no pending event
    EVBUF_MIN_NUM, \* event buffers allocated at initialisation
    EVBUF_MAX_NUM, \* most event buffers ever allocated
    RAPS_ANNOUNCE_INT, RAPS_PEER_TIMEOUT, RAPS_SF_INT, RAPS_NR_INT, \* in ticks
    RAPS_NR_COUNT, \* rapsNR packets sent after a link recovered
    KmallocFails,  \* whether kmalloc(GFP_ATOMIC) may return NULL
    MaxInputs      \* bound: packets received, link changes and closes

Nat1 == Nat \ {0}

ASSUME ConstantsAssumption ==
    /\ WFSID_MAX \in Nat1 /\ myID \in 1..WFSID_MAX
    /\ primary # secondary /\ NULL \notin {primary, secondary}
    /\ EVBUF_MIN_NUM \in Nat /\ EVBUF_MAX_NUM \in Nat
    /\ EVBUF_MIN_NUM <= EVBUF_MAX_NUM
    /\ RAPS_ANNOUNCE_INT \in Nat1 /\ RAPS_PEER_TIMEOUT \in Nat1
    /\ RAPS_SF_INT \in Nat1 /\ RAPS_NR_INT \in Nat1 /\ RAPS_NR_COUNT \in Nat
    /\ KmallocFails \in BOOLEAN /\ MaxInputs \in Nat

WfsId    == 1..WFSID_MAX
Remote   == WfsId \ {myID}
Port     == {primary, secondary}
Channel  == Port \cup {NULL}
wfs_other(p) == IF p = primary THEN secondary ELSE primary

wfs_fsm_state == {"S_init", "S_idle", "S_protect"}
wfs_fsm_event == {"E_discover", "E_expire", "E_localSF", "E_clear_localSF",
                  "E_rapsSF", "E_rapsNR"}
Flags == {"PEER_TTL", "ANNOUNCE", "NR", "SF", "FSM_EVENT"}

(* An event buffer: the event and the union of its data.  onPrimary is      *)
(* is_primary_annouce of an announce and failure_on_primary of a rapsSF.    *)
Event == [event : wfs_fsm_event, onPrimary : BOOLEAN, recv : Channel]

Ev(e) == [event |-> e, onPrimary |-> FALSE, recv |-> NULL]

(* struct wfs_peer, without the addresses the ioctl layer shows.            *)
Peer == [fsm_state : wfs_fsm_state, channel_pri : Channel, channel_sec : Channel,
         ttl_pri : Nat, ttl_sec : Nat]

VARIABLES
    iwa,        \* open/close: "closed", "opening", "starting", "opened", "stopping"
    link_up,    \* adapter->link_up of each port
    wd,         \* what each port's watchdog still has to do
    rx,         \* rapsSF event each port's receive path is about to queue
    wfspeer,    \* iwa->wfspeer
    queue,      \* raps_ctrl.fsm_event_head, one FIFO per peer
    free,       \* length of the free buffer list
    count,      \* fsmEvBuf_count
    flag,       \* raps_ctrl.flag
    reg,        \* raps_main's copy of flag between a load and a store
    raced,      \* a set_event wrote flag between that load and store
    t_announce, t_rapsSF, t_rapsNR, c_rapsNR,
    rm,         \* where raps_main is
    sent,       \* control packets this run of raps_main has sent
    inputs      \* inputs from outside so far, at most MaxInputs

vars == <<iwa, link_up, wd, rx, wfspeer, queue, free, count, flag, reg, raced,
          t_announce, t_rapsSF, t_rapsNR, c_rapsNR, rm, sent, inputs>>
timers == <<t_announce, t_rapsSF, t_rapsNR, c_rapsNR>>
links  == <<link_up, wd>>

TypeOK ==
    /\ iwa \in {"closed", "opening", "starting", "opened", "stopping"}
    /\ link_up \in [Port -> BOOLEAN]
    /\ wd \in [Port -> {"idle", "up", "clear", "down"}]
    /\ rx \in [Port -> {NULL} \cup [id : Remote, onPrimary : BOOLEAN]]
    /\ wfspeer \in [WfsId -> Peer]
    /\ queue \in [WfsId -> Seq(Event)]
    /\ free \in Nat /\ count \in 0..EVBUF_MAX_NUM
    /\ flag \in SUBSET Flags /\ reg \in SUBSET Flags /\ raced \in BOOLEAN
    /\ t_announce \in Nat /\ t_rapsSF \in Nat /\ t_rapsNR \in Nat
    /\ c_rapsNR \in Nat
    /\ rm \in {"idle", "fsm", "timers", "clrNR", "ttl", "clrTTL"}
    /\ sent \in SUBSET {"announce", "NR", "SF"}
    /\ inputs \in 0..MaxInputs

-----------------------------------------------------------------------------
(* Mutant: the recovery of a link is ignored in S_idle.                     *)
valid_entryNoClear(s, e, local) ==
    CASE e = "E_discover"      -> ~local \/ s = "S_init"
      [] e = "E_expire"        -> ~local /\ s # "S_init"
      [] e = "E_localSF"       -> s # "S_init"
      [] e = "E_clear_localSF" -> local /\ s = "S_protect"
      [] e = "E_rapsSF"        -> ~local /\ s # "S_init"
      [] e = "E_rapsNR"        -> ~local /\ s = "S_protect"

(* The transition table fsm[state][event][local?].valid_entry.              *)
valid_entry(s, e, local) ==
    CASE e = "E_discover"      -> ~local \/ s = "S_init"
      [] e = "E_expire"        -> ~local /\ s # "S_init"
      [] e = "E_localSF"       -> s # "S_init"
      [] e = "E_clear_localSF" -> local /\ s # "S_init"
      [] e = "E_rapsSF"        -> ~local /\ s # "S_init"
      [] e = "E_rapsNR"        -> ~local /\ s = "S_protect"

(* Plausible slips, for the runs' mutants: the limit is not tested, or the  *)
(* buffer taken is not unlinked from the free list.                         *)
AllocEventsNoLimit(n) ==
    LET reuse == IF n <= free THEN n ELSE free
    IN  free' = free - reuse /\ count' = count + (n - reuse)
AllocEventsKept(n) ==
    /\ free' = free
    /\ count' = IF n <= free THEN count ELSE count + (n - free)
    /\ count' <= EVBUF_MAX_NUM

(* wfs_fsm_alloc_event(), n times: free buffers first, then kmalloc.        *)
AllocEvents(n) ==
    LET reuse == IF n <= free THEN n ELSE free
    IN  /\ free' = free - reuse
        /\ count' = count + (n - reuse)
        /\ count' <= EVBUF_MAX_NUM

(* An allocation failed: no buffer was free, and kmalloc was not allowed    *)
(* any more or returned NULL.                                               *)
AllocFailed == free' = 0 /\ (count' = EVBUF_MAX_NUM \/ KmallocFails)

(* Queue event ev for every peer of K, and raise RAPS_CTRL_FSM_EVENT.       *)
Enqueue(K, ev) ==
    /\ AllocEvents(Cardinality(K))
    /\ queue' = [id \in WfsId |-> IF id \in K THEN Append(queue[id], ev)
                                              ELSE queue[id]]
    /\ flag' = IF K = {} THEN flag ELSE flag \cup {"FSM_EVENT"}
    /\ raced' = (rm \in {"clrNR", "clrTTL"} /\ (raced \/ K # {}))

(* ixgbe_wfs_fsm_set_event() for the peers in ids (one, or all of them for  *)
(* WFSID_ALL): nothing unless iwa->state is opened; fsm_lock excludes       *)
(* wfs_fsm_run(); peers the table has no entry for are skipped; the loop    *)
(* goes through the ids upwards and stops at the first failed allocation.   *)
set_event(ids, ev) ==
    IF iwa \in {"closed", "opening"}
    THEN UNCHANGED <<queue, free, count, flag, raced>>
    ELSE LET valid == {id \in ids : valid_entry(wfspeer[id].fsm_state, ev.event, id = myID)}
         IN  /\ rm # "fsm"
             /\ \E K \in SUBSET valid :
                   /\ \A i \in K, j \in valid \ K : i < j
                   /\ Enqueue(K, ev)
                   /\ K # valid => AllocFailed

-----------------------------------------------------------------------------
(* The actions of the state machine, as functions of the peer's record.     *)

Up(c)     == c # NULL
LinkUp(c) == c # NULL /\ link_up[c]

(* Next state after the channels went from known to pri/sec up or not:      *)
(* protection switching of expire, localSF and rapsSF.  The local station   *)
(* never falls back to S_init.                                              *)
Failover(s, pri, sec, local) ==
    CASE s = "S_idle" /\ ~pri /\ sec                -> "S_protect"
      [] s = "S_protect" /\ ~sec /\ pri             -> "S_idle"
      [] s # "S_init" /\ ~pri /\ ~sec /\ ~local     -> "S_init"
      [] OTHER                                      -> s

(* Mutant: an announce forgets the other side, whatever port it was on.     *)
UpdateChannelsForget(p, ev) ==
    IF ev.onPrimary
    THEN [p EXCEPT !.channel_pri = ev.recv, !.ttl_pri = RAPS_PEER_TIMEOUT, !.channel_sec = NULL]
    ELSE [p EXCEPT !.channel_sec = ev.recv, !.ttl_sec = RAPS_PEER_TIMEOUT, !.channel_pri = NULL]

(* wfs_fsm_action_discover, "update channels"                               *)
UpdateChannels(p, ev) ==
    IF ev.onPrimary
    THEN [p EXCEPT !.channel_pri = ev.recv, !.ttl_pri = RAPS_PEER_TIMEOUT,
                   !.channel_sec = IF @ = ev.recv THEN NULL ELSE @]
    ELSE [p EXCEPT !.channel_sec = ev.recv, !.ttl_sec = RAPS_PEER_TIMEOUT,
                   !.channel_pri = IF @ = ev.recv THEN NULL ELSE @]

(* Mutant: no step from S_idle to S_protect.                                *)
DiscoverStateNoProtect(p) ==
    CASE p.fsm_state = "S_init" /\ Up(p.channel_pri)     -> "S_idle"
      [] p.fsm_state = "S_init" /\ ~Up(p.channel_pri)
                                /\ Up(p.channel_sec)     -> "S_protect"
      [] p.fsm_state = "S_protect" /\ Up(p.channel_pri)  -> "S_idle"
      [] OTHER                                           -> p.fsm_state

(* wfs_fsm_action_discover, state check on the discovered channels          *)
DiscoverState(p) ==
    CASE p.fsm_state = "S_init" /\ Up(p.channel_pri)     -> "S_idle"
      [] p.fsm_state = "S_init" /\ ~Up(p.channel_pri)
                                /\ Up(p.channel_sec)     -> "S_protect"
      [] p.fsm_state = "S_idle" /\ ~Up(p.channel_pri)    -> "S_protect"
      [] p.fsm_state = "S_protect" /\ Up(p.channel_pri)  -> "S_idle"
      [] OTHER                                           -> p.fsm_state

action_discover(id, p, ev) ==
    LET q == IF id = myID THEN p ELSE UpdateChannels(p, ev)
    IN  [q EXCEPT !.fsm_state = DiscoverState(q)]

action_expire(p) ==
    LET q == [p EXCEPT !.channel_pri = IF p.ttl_pri = 0 THEN NULL ELSE @,
                       !.channel_sec = IF p.ttl_sec = 0 THEN NULL ELSE @]
    IN  [q EXCEPT !.fsm_state =
            IF @ = "S_protect" /\ Up(q.channel_pri) THEN "S_idle"
            ELSE Failover(@, Up(q.channel_pri), Up(q.channel_sec), FALSE)]

(* Mutant: the channels of a remote peer are not cleared.                   *)
action_localSFKeep(id, p) ==
    [p EXCEPT !.fsm_state =
        Failover(@, LinkUp(p.channel_pri), LinkUp(p.channel_sec), id = myID)]

action_localSF(id, p) ==
    LET pri == LinkUp(p.channel_pri)
        sec == LinkUp(p.channel_sec)
        q == IF id = myID THEN p
             ELSE [p EXCEPT !.channel_pri = IF pri THEN @ ELSE NULL,
                            !.channel_sec = IF sec THEN @ ELSE NULL]
    IN  [q EXCEPT !.fsm_state = Failover(@, pri, sec, id = myID)]

(* clear_localSF of the local station and rapsNR of a peer: back to the     *)
(* primary when both channels are physically up (rapsNR does not look at    *)
(* the state, but the table admits it in S_protect only).                   *)
RevertToPrimary(p) ==
    IF LinkUp(p.channel_pri) /\ LinkUp(p.channel_sec) /\ p.fsm_state = "S_protect"
    THEN [p EXCEPT !.fsm_state = "S_idle"] ELSE p

action_rapsSF(p, ev) ==
    LET q == IF ev.onPrimary THEN [p EXCEPT !.channel_pri = NULL]
                             ELSE [p EXCEPT !.channel_sec = NULL]
    IN  [q EXCEPT !.fsm_state =
            Failover(@, Up(q.channel_pri), Up(q.channel_sec), FALSE)]

(* The peer after fsm[state][event][local?].action()                        *)
Transit(id, p, ev) ==
    CASE ev.event = "E_discover"      -> action_discover(id, p, ev)
      [] ev.event = "E_expire"        -> action_expire(p)
      [] ev.event = "E_localSF"       -> action_localSF(id, p)
      [] ev.event = "E_clear_localSF" -> RevertToPrimary(p)
      [] ev.event = "E_rapsSF"        -> action_rapsSF(p, ev)
      [] ev.event = "E_rapsNR"        -> RevertToPrimary(p)

(* Mutant: E_localSF leaves a running NR burst on.                          *)
ControlKeepNR(id, ev) ==
    CASE ev.event = "E_discover" /\ id = myID ->
            /\ flag' = flag \cup {"ANNOUNCE"} /\ t_announce' = RAPS_ANNOUNCE_INT
            /\ UNCHANGED <<t_rapsSF, t_rapsNR, c_rapsNR>>
      [] ev.event = "E_discover" /\ id # myID ->
            flag' = flag \cup {"PEER_TTL"} /\ UNCHANGED timers
      [] ev.event = "E_localSF" /\ id = myID ->
            /\ flag' = flag \cup {"SF"} /\ t_rapsSF' = RAPS_SF_INT
            /\ UNCHANGED <<t_announce, t_rapsNR, c_rapsNR>>
      [] ev.event = "E_clear_localSF" ->
            /\ flag' = (flag \cup {"NR"}) \ {"SF"}
            /\ t_rapsNR' = RAPS_NR_INT /\ c_rapsNR' = RAPS_NR_COUNT
            /\ UNCHANGED <<t_announce, t_rapsSF>>
      [] OTHER -> UNCHANGED <<flag, timers>>

(* What the actions do to raps_ctrl: the local station's events start and   *)
(* stop the announce, SF and NR timers, a discovered peer starts t_peer.    *)
Control(id, ev) ==
    CASE ev.event = "E_discover" /\ id = myID ->
            /\ flag' = flag \cup {"ANNOUNCE"} /\ t_announce' = RAPS_ANNOUNCE_INT
            /\ UNCHANGED <<t_rapsSF, t_rapsNR, c_rapsNR>>
      [] ev.event = "E_discover" /\ id # myID ->
            flag' = flag \cup {"PEER_TTL"} /\ UNCHANGED timers
      [] ev.event = "E_localSF" /\ id = myID ->
            /\ flag' = (flag \cup {"SF"}) \ {"NR"} /\ t_rapsSF' = RAPS_SF_INT
            /\ UNCHANGED <<t_announce, t_rapsNR, c_rapsNR>>
      [] ev.event = "E_clear_localSF" ->
            /\ flag' = (flag \cup {"NR"}) \ {"SF"}
            /\ t_rapsNR' = RAPS_NR_INT /\ c_rapsNR' = RAPS_NR_COUNT
            /\ UNCHANGED <<t_announce, t_rapsSF>>
      [] OTHER -> UNCHANGED <<flag, timers>>

-----------------------------------------------------------------------------
(* raps_main()                                                              *)

(* The timer fires and takes raps_lock; with events pending it goes on into *)
(* wfs_fsm_run() and takes fsm_lock.                                        *)
RapsMain ==
    /\ iwa = "opened" /\ rm = "idle"
    /\ rm' = IF "FSM_EVENT" \in flag THEN "fsm" ELSE "timers"
    /\ sent' = {}
    /\ UNCHANGED <<iwa, links, rx, wfspeer, queue, free, count, flag, reg, raced, timers, inputs>>

(* wfs_fsm_run(): one event, validated again against the state the peer is  *)
(* in by now; its buffer goes back to the free list either way.             *)
FsmEvent(id) ==
    /\ rm = "fsm" /\ queue[id] # <<>>
    /\ LET ev == Head(queue[id])
           p  == wfspeer[id]
       IN  IF valid_entry(p.fsm_state, ev.event, id = myID)
           THEN /\ wfspeer' = [wfspeer EXCEPT ![id] = Transit(id, p, ev)]
                /\ Control(id, ev)
           ELSE UNCHANGED <<wfspeer, flag, timers>>
    /\ queue' = [queue EXCEPT ![id] = Tail(@)]
    /\ free' = free + 1
    /\ UNCHANGED <<iwa, links, rx, count, reg, raced, rm, sent, inputs>>

(* End of wfs_fsm_run(): the queue is empty, its flag cleared, fsm_lock     *)
(* released.                                                                *)
FsmDone ==
    /\ rm = "fsm" /\ \A id \in WfsId : queue[id] = <<>>
    /\ flag' = flag \ {"FSM_EVENT"} /\ rm' = "timers"
    /\ UNCHANGED <<iwa, links, rx, wfspeer, queue, free, count, reg, raced, timers, sent, inputs>>

Dec(t) == IF t > 0 THEN t - 1 ELSE 0  \* only "<= 0" is ever tested

(* The announce, NR and SF timers.  The SF branch restarts t_rapsNR, not    *)
(* t_rapsSF, as the code does.  An exhausted NR burst loads flag for the    *)
(* clear that the next step stores.                                         *)
RapsTimers ==
    /\ rm = "timers"
    /\ LET announce == "ANNOUNCE" \in flag /\ Dec(t_announce) = 0
           nrDue    == "NR" \in flag /\ Dec(t_rapsNR) = 0
           nr       == nrDue /\ c_rapsNR > 0
           sf       == "SF" \in flag /\ Dec(t_rapsSF) = 0
       IN  /\ t_announce' = IF announce THEN RAPS_ANNOUNCE_INT
                            ELSE IF "ANNOUNCE" \in flag THEN Dec(t_announce) ELSE t_announce
           /\ t_rapsSF' = IF "SF" \in flag THEN Dec(t_rapsSF) ELSE t_rapsSF
           /\ t_rapsNR' = IF sf THEN RAPS_SF_INT
                          ELSE IF nr THEN RAPS_NR_INT
                          ELSE IF "NR" \in flag THEN Dec(t_rapsNR) ELSE t_rapsNR
           /\ c_rapsNR' = IF nr THEN c_rapsNR - 1 ELSE c_rapsNR
           /\ sent' = (IF announce THEN {"announce"} ELSE {})
                      \cup (IF nr THEN {"NR"} ELSE {}) \cup (IF sf THEN {"SF"} ELSE {})
           /\ IF nrDue /\ ~nr
              THEN rm' = "clrNR" /\ reg' = flag /\ raced' = FALSE
              ELSE rm' = "ttl" /\ UNCHANGED <<reg, raced>>
    /\ UNCHANGED <<iwa, links, rx, wfspeer, queue, free, count, flag, inputs>>

(* The store of flag &= ~bit.  With a set_event in between, either write    *)
(* may be the one that survives.                                            *)
ClearFlag(bit) ==
    /\ \/ flag' = flag \ {bit}
       \/ raced /\ flag' = reg \ {bit}
       \/ raced /\ flag' = flag
    /\ reg' = {} /\ raced' = FALSE

RapsClearNR ==
    /\ rm = "clrNR" /\ ClearFlag("NR") /\ rm' = "ttl"
    /\ UNCHANGED <<iwa, links, rx, wfspeer, queue, free, count, timers, sent, inputs>>

(* Mutants: the secondary is not aged, its expiry not noticed, or only idle *)
(* peers keep t_peer running.                                               *)
AgePeerPri(p) == [p EXCEPT !.ttl_pri = Dec(@)]
JustExpiredPri(p) == p.ttl_pri = 1
IdlePeers == {id \in Remote : wfspeer[id].fsm_state = "S_idle"}

(* wfs_update_peers(): age the channels of the active peers, queue E_expire *)
(* for those that have just run out (each allocation may fail on its own);  *)
(* with no active peer, stop t_peer.                                        *)
AgePeer(p) == [p EXCEPT !.ttl_pri = Dec(@), !.ttl_sec = Dec(@)]
JustExpired(p) == p.ttl_pri = 1 \/ p.ttl_sec = 1
ActivePeers == {id \in Remote : wfspeer[id].fsm_state # "S_init"}

RapsUpdatePeers ==
    /\ rm = "ttl" /\ "PEER_TTL" \in flag
    /\ wfspeer' = [id \in WfsId |-> IF id \in ActivePeers THEN AgePeer(wfspeer[id])
                                                          ELSE wfspeer[id]]
    /\ LET expired == {id \in ActivePeers : JustExpired(wfspeer[id])}
       IN  \E K \in SUBSET expired :
              /\ AllocEvents(Cardinality(K))
              /\ K # expired => AllocFailed
              /\ queue' = [id \in WfsId |-> IF id \in K THEN Append(queue[id], Ev("E_expire"))
                                                        ELSE queue[id]]
              /\ flag' = IF K = {} THEN flag ELSE flag \cup {"FSM_EVENT"}
    /\ IF ActivePeers = {}
       THEN rm' = "clrTTL" /\ reg' = flag /\ raced' = FALSE
       ELSE rm' = "idle" /\ UNCHANGED <<reg, raced>>
    /\ UNCHANGED <<iwa, links, rx, timers, sent, inputs>>

RapsNoPeers ==
    /\ rm = "ttl" /\ "PEER_TTL" \notin flag /\ rm' = "idle"
    /\ UNCHANGED <<iwa, links, rx, wfspeer, queue, free, count, flag, reg, raced, timers, sent, inputs>>

RapsClearTTL ==
    /\ rm = "clrTTL" /\ ClearFlag("PEER_TTL") /\ rm' = "idle"
    /\ UNCHANGED <<iwa, links, rx, wfspeer, queue, free, count, timers, sent, inputs>>

-----------------------------------------------------------------------------
(* Something happens outside the driver: bounded, see MaxInputs.            *)
Input == inputs < MaxInputs /\ inputs' = inputs + 1

(* The receive path, in soft interrupt context on either port.  Packets of  *)
(* our own were dropped as loops before; id is the packet's source.         *)

Listening == iwa # "closed"

(* wfs_process_announce()                                                   *)
RecvAnnounce(id, p, pri) ==
    /\ Input /\ Listening /\ rx[p] = NULL
    /\ set_event({id}, [event |-> "E_discover", onPrimary |-> pri, recv |-> p])
    /\ UNCHANGED <<iwa, links, rx, wfspeer, reg, timers, rm, sent>>

(* wfs_process_raps(), request NR                                           *)
RecvRapsNR(id, p) ==
    /\ Input /\ Listening /\ rx[p] = NULL
    /\ set_event({id}, Ev("E_rapsNR"))
    /\ UNCHANGED <<iwa, links, rx, wfspeer, reg, timers, rm, sent>>

(* wfs_process_raps(), request SF: the failed side is the other one than    *)
(* the channel the alert came through.  The peer's channels are read        *)
(* without a lock, before set_event takes fsm_lock.                         *)
RecvRapsSF(id, p) ==
    /\ Input /\ Listening /\ rx[p] = NULL
    /\ p \in {wfspeer[id].channel_pri, wfspeer[id].channel_sec}
    /\ rx' = [rx EXCEPT ![p] = [id |-> id, onPrimary |-> p # wfspeer[id].channel_pri]]
    /\ UNCHANGED <<iwa, links, wfspeer, queue, free, count, flag, reg, raced, timers, rm, sent>>

QueueRapsSF(p) ==
    /\ rx[p] # NULL
    /\ set_event({rx[p].id}, [event |-> "E_rapsSF", onPrimary |-> rx[p].onPrimary, recv |-> NULL])
    /\ rx' = [rx EXCEPT ![p] = NULL]
    /\ UNCHANGED <<iwa, links, wfspeer, reg, timers, rm, sent, inputs>>

-----------------------------------------------------------------------------
(* The watchdog of each port (ixgbe_service_task runs once per adapter).    *)

(* ixgbe_watchdog_update_link() found the link in the other state.          *)
LinkChange(p) ==
    /\ Input /\ Listening /\ wd[p] = "idle"
    /\ link_up' = [link_up EXCEPT ![p] = ~@]
    /\ wd' = [wd EXCEPT ![p] = IF link_up[p] THEN "down" ELSE "up"]
    /\ UNCHANGED <<iwa, rx, wfspeer, queue, free, count, flag, reg, raced, timers, rm, sent>>

(* ixgbe_watchdog_link_is_up(): look at the other port, and then ...        *)
LinkIsUp(p) ==
    /\ wd[p] = "up"
    /\ wd' = [wd EXCEPT ![p] = IF link_up[wfs_other(p)] THEN "clear" ELSE "idle"]
    /\ UNCHANGED <<iwa, link_up, rx, wfspeer, queue, free, count, flag, reg, raced, timers, rm, sent, inputs>>

(* ... "both link up, send E_clear_localSF"                                 *)
LinkClearSF(p) ==
    /\ wd[p] = "clear"
    /\ set_event(WfsId, Ev("E_clear_localSF"))
    /\ wd' = [wd EXCEPT ![p] = "idle"]
    /\ UNCHANGED <<iwa, link_up, rx, wfspeer, reg, timers, rm, sent, inputs>>

(* ixgbe_watchdog_link_is_down()                                            *)
LinkIsDown(p) ==
    /\ wd[p] = "down"
    /\ set_event(WfsId, Ev("E_localSF"))
    /\ wd' = [wd EXCEPT ![p] = "idle"]
    /\ UNCHANGED <<iwa, link_up, rx, wfspeer, reg, timers, rm, sent, inputs>>

-----------------------------------------------------------------------------
(* ixgbe_open(): the adapters are up and receiving, iwa->state is not yet   *)
(* opened and events are dropped ...                                        *)
Open ==
    /\ iwa = "closed" /\ iwa' = "opening"
    /\ UNCHANGED <<links, rx, wfspeer, queue, free, count, flag, reg, raced, timers, rm, sent, inputs>>

(* ... iwa->state = opened; events are queued ...                           *)
Opened ==
    /\ iwa = "opening" /\ iwa' = "starting"
    /\ UNCHANGED <<links, rx, wfspeer, queue, free, count, flag, reg, raced, timers, rm, sent, inputs>>

NoPeer == [fsm_state |-> "S_init", channel_pri |-> NULL, channel_sec |-> NULL,
           ttl_pri |-> 0, ttl_sec |-> 0]
LocalPeer == [NoPeer EXCEPT !.channel_pri = primary, !.channel_sec = secondary,
                            !.ttl_pri = RAPS_PEER_TIMEOUT, !.ttl_sec = RAPS_PEER_TIMEOUT]

(* ... then ixgbe_wfs_raps_start(): raps_ctrl and wfspeer are zeroed (the   *)
(* event buffers still queued are forgotten), the local station is entered, *)
(* its E_discover queued and the timer armed.                               *)
RapsStart ==
    /\ iwa = "starting" /\ iwa' = "opened" /\ rm' = "idle"
    /\ wfspeer' = [id \in WfsId |-> IF id = myID THEN LocalPeer ELSE NoPeer]
    /\ t_announce' = 0 /\ t_rapsSF' = 0 /\ t_rapsNR' = 0 /\ c_rapsNR' = 0
    /\ \E K \in SUBSET {myID} :
          /\ AllocEvents(Cardinality(K))
          /\ K = {} => AllocFailed
          /\ queue' = [id \in WfsId |-> IF id \in K THEN <<Ev("E_discover")>> ELSE <<>>]
          /\ flag' = IF K = {} THEN {} ELSE {"FSM_EVENT"}
    /\ UNCHANGED <<links, rx, reg, raced, sent, inputs>>

(* ixgbe_close(): ixgbe_wfs_raps_stop() with no handler running (module     *)
(* RapsTimer has the case of one that is), then both adapters go down while *)
(* iwa->state is still opened.  What the engine had queued stays queued.    *)
RapsStop ==
    /\ Input /\ iwa = "opened" /\ rm = "idle" /\ iwa' = "stopping"
    /\ UNCHANGED <<links, rx, wfspeer, queue, free, count, flag, reg, raced, timers, rm, sent>>

Close ==
    /\ iwa = "stopping" /\ \A p \in Port : rx[p] = NULL
    /\ iwa' = "closed"
    /\ UNCHANGED <<links, rx, wfspeer, queue, free, count, flag, reg, raced, timers, rm, sent, inputs>>

-----------------------------------------------------------------------------
(* ixgbe_wfs_fsm_init(): EVBUF_MIN_NUM buffers, all free; links unknown to  *)
(* the watchdogs count as down.                                             *)
Init ==
    /\ iwa = "closed"
    /\ link_up = [p \in Port |-> FALSE] /\ wd = [p \in Port |-> "idle"]
    /\ rx = [p \in Port |-> NULL]
    /\ wfspeer = [id \in WfsId |-> NoPeer]
    /\ queue = [id \in WfsId |-> <<>>]
    /\ free = EVBUF_MIN_NUM /\ count = EVBUF_MIN_NUM
    /\ flag = {} /\ reg = {} /\ raced = FALSE
    /\ t_announce = 0 /\ t_rapsSF = 0 /\ t_rapsNR = 0 /\ c_rapsNR = 0
    /\ rm = "idle" /\ sent = {} /\ inputs = 0

Engine ==
    \/ RapsMain \/ FsmDone \/ RapsTimers \/ RapsClearNR
    \/ RapsUpdatePeers \/ RapsNoPeers \/ RapsClearTTL
    \/ \E id \in WfsId : FsmEvent(id)

Watchdog(p) == LinkIsUp(p) \/ LinkClearSF(p) \/ LinkIsDown(p)

Announced == \E id \in Remote, p \in Port, pri \in BOOLEAN : RecvAnnounce(id, p, pri)

Next ==
    \/ Engine \/ Announced
    \/ \E id \in Remote, p \in Port : RecvRapsNR(id, p) \/ RecvRapsSF(id, p)
    \/ \E p \in Port : QueueRapsSF(p) \/ LinkChange(p) \/ Watchdog(p)
    \/ Open \/ Opened \/ RapsStart \/ RapsStop \/ Close

Spec == Init /\ [][Next]_vars

(* The timer, the receive path and the watchdogs finish what they began.    *)
FairSpec ==
    /\ Spec /\ WF_vars(Engine) /\ WF_vars(RapsStart)
    /\ \A p \in Port : WF_vars(QueueRapsSF(p)) /\ WF_vars(Watchdog(p))
-----------------------------------------------------------------------------
(* What the engine must keep true.                                          *)

(* The two BUG_ON()s of wfs_fsm_run(): a station the transmit path reaches  *)
(* through its primary (S_idle) or secondary (S_protect) channel has one.   *)
ActiveChannel ==
    \A id \in WfsId :
        /\ wfspeer[id].fsm_state = "S_idle" => wfspeer[id].channel_pri # NULL
        /\ wfspeer[id].fsm_state = "S_protect" => wfspeer[id].channel_sec # NULL

(* Whatever the order of announces, alerts, expiries and link failures, the *)
(* state of a remote peer is a function of the channels known to it: the    *)
(* primary whenever there is one, else the secondary, else nothing.         *)
StateFollowsChannels ==
    \A id \in Remote : LET p == wfspeer[id] IN
        p.fsm_state = IF p.channel_pri # NULL THEN "S_idle"
                      ELSE IF p.channel_sec # NULL THEN "S_protect" ELSE "S_init"

(* A local port never counts as the way to both ports of the same peer      *)
(* ("in case peer switch ports" in wfs_fsm_action_discover).                *)
DistinctChannels ==
    \A id \in WfsId : LET p == wfspeer[id] IN
        p.channel_pri # NULL => p.channel_pri # p.channel_sec

(* While a peer is active its channels are being aged, although             *)
(* RAPS_CTRL_PEER_TTL is cleared outside fsm_lock.                          *)
AgingActive ==
    (\E id \in Remote : wfspeer[id].fsm_state # "S_init") => "PEER_TTL" \in flag

(* A station never signals failure and recovery at once.                    *)
OneAlert == ~({"SF", "NR"} \subseteq flag) /\ ~({"SF", "NR"} \subseteq sent)

(* No buffer is both free and queued, or queued twice: the two lists never  *)
(* hold more buffers than were allocated.                                   *)
Linked(q) == UNION {{id} \X DOMAIN q[id] : id \in WfsId}
BuffersNotShared == free + Cardinality(Linked(queue)) <= count

(* A channel whose time to live ran out stays in the table only while its   *)
(* E_expire is on the way.                                                  *)
ExpiryPending ==
    \A id \in Remote : LET p == wfspeer[id] IN
        \/ p.channel_pri # NULL /\ p.ttl_pri = 0
        \/ p.channel_sec # NULL /\ p.ttl_sec = 0
        => \E i \in DOMAIN queue[id] : queue[id][i].event = "E_expire"

(* With both watchdogs at rest, both links up and the local events          *)
(* processed, the recovery has been noticed, whatever the order in which    *)
(* the two watchdogs saw the links flap: no SF alert goes on and the local  *)
(* station is not left on its secondary.                                    *)
RecoveryNoticed ==
    /\ iwa = "opened" /\ queue[myID] = <<>>
    /\ \A p \in Port : wd[p] = "idle" /\ link_up[p]
    => "SF" \notin flag /\ wfspeer[myID].fsm_state # "S_protect"

(* Once the peers fall silent (the inputs are bounded), an open station     *)
(* forgets them: t_peer, E_expire and the engine get every one to S_init.   *)
PeersForgotten ==
    <>[](iwa = "opened" => \A id \in Remote : wfspeer[id].fsm_state = "S_init")

(* The port ixgbe_xmit_frame() sends a frame for peer p by, NULL to drop it *)
EgressPort(p) ==
    CASE p.fsm_state = "S_idle"    -> p.channel_pri
      [] p.fsm_state = "S_protect" -> p.channel_sec
      [] p.fsm_state = "S_init"    -> NULL

(* The engine implements the table of peers: whatever queue, flags, timers  *)
(* and lost allocations do, every step changes what is known of one peer as *)
(* one announce, one loss or a restart would, and the port the transmit     *)
(* path picks from the state machine is the preferred one of those known.   *)
Table == INSTANCE PeerTable WITH
    Peers <- Remote, Ports <- Port,
    known <- [id \in Remote |-> [s \in {"pri", "sec"} |->
                 IF s = "pri" THEN wfspeer[id].channel_pri ELSE wfspeer[id].channel_sec]],
    route <- [id \in Remote |-> EgressPort(wfspeer[id])]
ImplementsTable == Table!TSpec
==============================================================================
