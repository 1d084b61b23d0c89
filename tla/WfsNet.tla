------------------------------- MODULE WfsNet -------------------------------
(***************************************************************************)
(* The protected ring: the workstations of WfsRing with the peer tables of *)
(* PeerTable, to show what the two are for.  Every workstation announces   *)
(* itself both ways, learns from the announces of the others which port    *)
(* leads to them, and, when a cable is cut, signals the failure until it   *)
(* is mended; whoever hears an alert forgets the way that does not work    *)
(* and passes on an alert of its own.                                      *)
(*                                                                         *)
(* raps_main() runs once a second at every workstation, in an order that   *)
(* stays the same, and a frame crosses the ring in far less: here it       *)
(* crosses in no time, up to the first port or cable that is down (frames  *)
(* that meet a cut, or each other, under way are in WfsRing).  Events wait *)
(* for the next run, in one queue per peer; an event has the effect of one *)
(* step of PeerTable (theorem TableImplemented).  A watchdog reads the     *)
(* other port's link and queues its event in one step here, in two in      *)
(* WfsRaps.  An NR alert changes no table (theorem RapsNRIdle) and is left *)
(* out; so is the aging of silent peers, which takes thirty seconds: what  *)
(* protects the ring until then are the alerts.                            *)
(***************************************************************************)
EXTENDS Integers, Sequences, SequencesExt

CONSTANTS
    N,           \* how many workstations
    Flipped,     \* those whose primary port faces counterclockwise
    NULL,        \* no port
    ANNOUNCE_INT, \* seconds between announces
    MaxChanges   \* bound: cables cut or mended

ASSUME NetAssumption ==
    /\ N \in Nat \ {0, 1} /\ Flipped \subseteq 0..(N - 1) /\ MaxChanges \in Nat
    /\ ANNOUNCE_INT \in Nat \ {0} /\ NULL \notin {"cw", "ccw"}

Station == 0..(N - 1)
Way     == {"cw", "ccw"}
Side    == {"pri", "sec"}
Turn(w) == IF w = "cw" THEN "ccw" ELSE "cw"
Next1(s, w)  == (IF w = "cw" THEN s + 1 ELSE s + N - 1) % N
Cable(s, w)  == IF w = "cw" THEN s ELSE Next1(s, w)
SideOf(s, w) == IF (w = "cw") = (s \in Flipped) THEN "sec" ELSE "pri"

VARIABLES
    cable,    \* which cables work
    link_up,  \* adapter->link_up of each port
    news,     \* whether the watchdog has yet to tell of a change it noticed
    known,    \* the port that leads to each side of each peer, or NULL
    events,   \* events not processed yet, by peer; those of the station itself
              \* at its own place
    alert,    \* RAPS_CTRL_SF
    t_announce, \* raps_ctrl.t_announce
    turn,     \* the workstation that runs raps_main next
    changes   \* how often a cable was cut or mended

net_vars == <<cable, link_up, news, known, events, alert, t_announce, turn, changes>>

Event  == [event : {"E_discover", "E_rapsSF", "E_localSF", "E_clear_localSF"},
           side : Side, port : Way \cup {NULL}]
Ev(e)  == [event |-> e, side |-> "pri", port |-> NULL]

Nothing  == [d \in Side |-> NULL]
other(d) == IF d = "pri" THEN "sec" ELSE "pri"
Choice(k) == IF k["pri"] # NULL THEN k["pri"] ELSE k["sec"]
route    == [s \in Station |-> [t \in Station |-> Choice(known[s][t])]]

NetTypeOK ==
    /\ cable \in [Station -> BOOLEAN]
    /\ link_up \in [Station -> [Way -> BOOLEAN]] /\ news \in [Station -> [Way -> BOOLEAN]]
    /\ known \in [Station -> [Station -> [Side -> Way \cup {NULL}]]]
    /\ \A s, t \in Station : events[s][t] \in Seq(Event)
    /\ alert \in [Station -> BOOLEAN]
    /\ t_announce \in [Station -> 1..ANNOUNCE_INT]
    /\ turn \in Station /\ changes \in 0..MaxChanges

-----------------------------------------------------------------------------
(* Frames from s in direction w are forwarded as far as t: every port that  *)
(* sends them is taken to be up, and every cable works.                     *)
Walk(s, w, i) == (IF w = "cw" THEN s + i ELSE s + N - i) % N
Hears(s, w, t) ==
    \E n \in 1..(N - 1) : /\ Walk(s, w, n) = t
                          /\ \A i \in 0..(n - 1) : LET x == Walk(s, w, i)
                                                   IN  link_up[x][w] /\ cable[Cable(x, w)]

(* Mutant: a local failure forgets both channels, whatever port they use.   *)
StillUpNone(s, p) == FALSE

(* A channel outlives the failure of a local link if its own port is up.    *)
StillUp(s, p) == p # NULL /\ link_up[s][p]

(* The actions of the state machine on the channels of a peer.              *)
Learnt(k, d, w) == [k EXCEPT ![d] = w, ![other(d)] = IF @ = w THEN NULL ELSE @]

Transit(s, k, ev) ==
    CASE ev.event = "E_discover" -> Learnt(k, ev.side, ev.port)
      [] ev.event = "E_rapsSF"   -> [k EXCEPT ![ev.side] = NULL]
      [] ev.event = "E_localSF"  -> [d \in Side |-> IF StillUp(s, k[d]) THEN k[d] ELSE NULL]

(* An announce s sends in direction w.  wfs_process_announce(): the port it *)
(* arrives at leads to the side announced.  E are the events queued so far. *)
Announced(E, s, w) ==
    [x \in Station |-> IF ~Hears(s, w, x) THEN E[x] ELSE
        [E[x] EXCEPT ![s] = Append(@, [event |-> "E_discover", side |-> SideOf(s, w), port |-> Turn(w)])]]

(* An alert s sends in direction w, with the tables K.  wfs_process_raps(): *)
(* the side of the sender that the alert did not come from has failed; an   *)
(* alert from a peer not known on that port is ignored.  The others pass on *)
(* an alert of their own in the same direction.                             *)
From(K, x, t, w)   == {d \in Side : K[x][t][d] = Turn(w)}

Failed(K, x, t, w) == {[event |-> "E_rapsSF", side |-> other(d), port |-> NULL] : d \in From(K, x, t, w)}

(* Mutant: nobody passes on an alert of its own.                            *)
AlertsFirst(K, s, w, x, t) == t = s /\ Hears(s, w, x)

Alerts(K, s, w, x, t) ==
    IF t = s THEN Hears(s, w, x)
    ELSE Hears(s, w, t) /\ From(K, t, s, w) # {} /\ Hears(t, w, x)

Alerted(E, K, s, w) ==
    [x \in Station |-> [t \in Station |-> E[x][t] \o
        IF Alerts(K, s, w, x, t) THEN SetToSeq(Failed(K, x, t, w)) ELSE <<>>]]

(* Mutant: a recovery does not take the alert back.                         *)
SignalsOn(s) == alert[s] \/ (events[s][s] # <<>> /\ Last(events[s][s]).event = "E_localSF")

(* The events of the workstation itself raise the alert or take it back.    *)
Signals(s) == IF events[s][s] = <<>> THEN alert[s] ELSE Last(events[s][s]).event = "E_localSF"

Countdown(n) == IF n = 1 THEN ANNOUNCE_INT ELSE n - 1

(* raps_main(): the events, then the announce if it is due and, if a        *)
(* failure is to be signalled, the alert, on every link that is up.  Which  *)
(* of the two alerts a peer hears first is a matter of the way; announces   *)
(* of two sides do not meet in the table.                                   *)
Tick(s) ==
    LET sf == Signals(s)
        K  == [known EXCEPT ![s] = [t \in Station |->
                  IF t = s THEN Nothing
                  ELSE FoldLeft(LAMBDA k, ev : Transit(s, k, ev), known[s][t], events[s][t])]]
        E  == [events EXCEPT ![s] = [t \in Station |-> <<>>]]
        A  == IF t_announce[s] = 1 THEN Announced(Announced(E, s, "cw"), s, "ccw") ELSE E
    IN  /\ s = turn /\ turn' = (turn + 1) % N
        /\ known' = K /\ alert' = [alert EXCEPT ![s] = sf]
        /\ t_announce' = [t_announce EXCEPT ![s] = Countdown(@)]
        /\ IF sf THEN \E w \in Way : events' = Alerted(Alerted(A, K, s, w), K, s, Turn(w))
                 ELSE events' = A
        /\ UNCHANGED <<cable, link_up, news, changes>>

-----------------------------------------------------------------------------
(* A cable is cut, or mended.  One at a time: two cuts part the ring.       *)
Cut(c) ==
    /\ changes < MaxChanges /\ \A b \in Station : cable[b]
    /\ cable' = [cable EXCEPT ![c] = FALSE] /\ changes' = changes + 1
    /\ UNCHANGED <<link_up, news, known, events, alert, t_announce, turn>>

Mend(c) ==
    /\ changes < MaxChanges /\ ~cable[c]
    /\ cable' = [cable EXCEPT ![c] = TRUE] /\ changes' = changes + 1
    /\ UNCHANGED <<link_up, news, known, events, alert, t_announce, turn>>

(* The watchdog of a port notices ...                                       *)
Notice(s, w) ==
    /\ ~news[s][w] /\ link_up[s][w] # cable[Cable(s, w)]
    /\ link_up' = [link_up EXCEPT ![s][w] = ~@] /\ news' = [news EXCEPT ![s][w] = TRUE]
    /\ UNCHANGED <<cable, known, events, alert, t_announce, turn, changes>>

(* ... and tells the engine: of a failure, for every peer, and when both    *)
(* links are up again.                                                      *)
Tell(s, w) ==
    /\ news[s][w] /\ news' = [news EXCEPT ![s][w] = FALSE]
    /\ events' = [events EXCEPT ![s] = [t \in Station |->
           IF ~link_up[s][w] /\ (t = s \/ known[s][t] # Nothing) THEN Append(@[t], Ev("E_localSF"))
           ELSE IF link_up[s][w] /\ link_up[s][Turn(w)] /\ t = s THEN Append(@[t], Ev("E_clear_localSF"))
           ELSE @[t]]]
    /\ UNCHANGED <<cable, link_up, known, alert, t_announce, turn, changes>>

-----------------------------------------------------------------------------
NetInit ==
    /\ cable = [s \in Station |-> TRUE] /\ link_up = [s \in Station |-> [w \in Way |-> TRUE]]
    /\ news = [s \in Station |-> [w \in Way |-> FALSE]]
    /\ known = [s \in Station |-> [t \in Station |-> Nothing]]
    /\ events = [s \in Station |-> [t \in Station |-> <<>>]]
    /\ alert = [s \in Station |-> FALSE] /\ turn = 0 /\ changes = 0
    /\ t_announce \in [Station -> 1..ANNOUNCE_INT]

Engine    == \E s \in Station : Tick(s)
Watchdogs == \E s \in Station, w \in Way : Notice(s, w) \/ Tell(s, w)

NetNext == Engine \/ Watchdogs \/ \E c \in Station : Cut(c) \/ Mend(c)

NetSpec == NetInit /\ [][NetNext]_net_vars

(* raps_timer and the service timers keep firing.  The engines take turns   *)
(* and are always ready, and the watchdogs have finitely much to tell after *)
(* the last change: one condition for all of each is weak fairness for      *)
(* every workstation.                                                       *)
NetFairSpec == NetSpec /\ []<><<Engine>>_net_vars /\ WF_net_vars(Watchdogs)

-----------------------------------------------------------------------------
(* Protection: after the last change, with one cable cut or none, every     *)
(* workstation comes to know a port towards every other one that works, and *)
(* keeps to it.                                                             *)
Protected ==
    <>[](\A s \in Station : \A t \in Station \ {s} :
            route[s][t] # NULL /\ Hears(s, route[s][t], t))

(* The first failure leaves no peer without a route: until the cable is     *)
(* mended no event, of this workstation or of an alert, makes one forget a  *)
(* way that works.  (After a mend both alerts of a workstation arrive, each *)
(* against the side of the other, and a peer is forgotten until it next     *)
(* announces itself.)                                                       *)
NeverForgotten ==
    [][changes' <= 1 => \A s \in Station : \A t \in Station \ {s} :
           known[s][t] # Nothing /\ known'[s][t] = Nothing =>
               \A d \in Side : known[s][t][d] # NULL => ~Hears(s, known[s][t][d], t)]_net_vars

(* After the last change a workstation signals a failure if and only if one *)
(* of its own links is down.                                                *)
AlertsSettle ==
    <>[](\A s \in Station : alert[s] = \E w \in Way : ~cable[Cable(s, w)])
=============================================================================
