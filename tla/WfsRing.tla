------------------------------- MODULE WfsRing -------------------------------
(***************************************************************************)
(* Packets on the ring: what a workstation does with a packet it sends     *)
(* (ixgbe_xmit_frame, ixgbe_wfs_send_raps) and with one it receives        *)
(* (ixgbe_process_skb_fields and wfs_process_raps): drop its own, forward  *)
(* what is not for it alone, deliver data, answer an alert with one of its *)
(* own.                                                                    *)
(*                                                                         *)
(* N workstations stand in a ring; cable s joins s and its successor.  A   *)
(* port is named after the way it faces: which of the two is the primary   *)
(* makes no difference here.  Every workstation is open.  The peer table   *)
(* (WfsRaps) and the forwarding table (WfsFib) are choices: any port for   *)
(* a unicast packet, any known peer.  Announces take the path of broadcast *)
(* data.                                                                   *)
(***************************************************************************)
EXTENDS Integers, Sequences, FiniteSets

CONSTANTS
    N,           \* how many workstations
    InitCuts,    \* how many cables may be cut at the start
    MaxChanges,  \* bound: cables cut or mended
    MaxSends     \* bound: data packets and rounds of alerts sent

ASSUME RingAssumption ==
    /\ N \in Nat \ {0, 1} /\ InitCuts \in Nat
    /\ MaxChanges \in Nat /\ MaxSends \in Nat

Station == 0..(N - 1)
Way     == {"cw", "ccw"}
All     == N                  \* WFSID_ALL
Id      == 1..MaxSends
Kind    == {"data", "SF", "NR"}

Walk(s, w, i) == (IF w = "cw" THEN s + i ELSE s + N - i) % N
Cable(s, w)   == IF w = "cw" THEN s ELSE Walk(s, w, 1)
Turn(w)       == IF w = "cw" THEN "ccw" ELSE "cw"

VARIABLES
    cable,    \* which cables work
    link_up,  \* adapter->link_up of each port
    news,     \* whether the watchdog has yet to tell of a change it noticed
    events,   \* events of the watchdogs that the RAPS engine has not processed
    alert,    \* RAPS_CTRL_SF, RAPS_CTRL_NR: the alert the engine repeats
    wire,     \* the packets under way: at which station they arrive next
    sent,     \* what was sent, in order
    got,      \* how often a packet was delivered to a station, from each way
    lost,     \* whether a frame was not sent
    launched, \* how many alerts were sent on account of one round
    changes   \* how often a cable was cut or mended

link_vars == <<cable, link_up, news, changes>>
raps_vars == <<events, alert>>
hist_vars == <<sent, got, lost, launched>>
vars      == <<link_vars, raps_vars, wire, hist_vars>>

Packet == [id : Id, kind : Kind, src : Station, dest : Station \cup {All},
           dnf : BOOLEAN, way : Way, at : Station]

(* The counters of what happened stop one above what is allowed.  Packets   *)
(* sent at different times do not meet: none of these actions reads another *)
(* packet.                                                                  *)
MaxGot      == 2
MaxLaunched == 2 * N + 1
Count(n, d, max) == IF n + d > max THEN max ELSE n + d

TypeOK ==
    /\ cable \in [Station -> BOOLEAN] /\ link_up \in [Station -> [Way -> BOOLEAN]]
    /\ news \in [Station -> [Way -> BOOLEAN]]
    /\ events \in [Station -> Seq({"SF", "clear"})]
    /\ alert \in [Station -> {"none", "SF", "NR"}]
    /\ wire \subseteq Packet
    /\ sent \in Seq([kind : Kind, src : Station, dest : Station \cup {All}])
    /\ got \in [Id -> [Station -> [Way -> 0..MaxGot]]]
    /\ lost \in BOOLEAN /\ launched \in [Id -> 0..MaxLaunched]
    /\ changes \in 0..MaxChanges

-----------------------------------------------------------------------------
(* ixgbe_xmit_wfs_frame(): a frame leaves if the driver takes the link to   *)
(* be up, and arrives if it is.                                             *)
Frames(p, s, w) ==
    IF link_up[s][w] /\ cable[Cable(s, w)]
    THEN {[p EXCEPT !.way = w, !.at = Walk(s, w, 1)]} ELSE {}

(* Frames take the place of those in gone: an skb may not be had for all of *)
(* them, a queue may be full.                                               *)
Replace(gone, F) ==
    \E X \in SUBSET F : /\ wire' = (wire \ gone) \cup X
                        /\ lost' = (lost \/ X # F)

(* Mutants: a unicast packet takes both ways; a packet for all only one.     *)
EgressBoth(dest)    == {Way}
EgressPrimary(dest) == {{w} : w \in IF dest = All THEN {"cw"} ELSE Way}

(* ixgbe_xmit_frame(): a packet for all takes both ways, another one the    *)
(* channel of its destination.                                              *)
Egress(dest) == IF dest = All THEN {Way} ELSE {{w} : w \in Way}

Record(kind, s, dest) == sent' = Append(sent, [kind |-> kind, src |-> s, dest |-> dest])

NewPacket(kind, s, dest) == [id |-> Len(sent) + 1, kind |-> kind, src |-> s,
                             dest |-> dest, dnf |-> FALSE, way |-> "cw", at |-> s]

Xmit(s, dest) ==
    /\ Len(sent) < MaxSends /\ dest # s
    /\ \E ways \in Egress(dest) :
         Replace({}, UNION {Frames(NewPacket("data", s, dest), s, w) : w \in ways})
    /\ Record("data", s, dest)
    /\ UNCHANGED <<link_vars, raps_vars, got, launched>>

(* raps_main(): when its events are processed, the engine sends its alert   *)
(* on every link that is up (ixgbe_wfs_send_raps).                          *)
SendRaps(s) ==
    /\ Len(sent) < MaxSends /\ alert[s] # "none" /\ events[s] = <<>>
    /\ LET F == UNION {Frames(NewPacket(alert[s], s, All), s, w) : w \in Way}
       IN  /\ Replace({}, F)
           /\ launched' = [launched EXCEPT ![Len(sent) + 1] = Cardinality(F)]
    /\ Record(alert[s], s, All)
    /\ UNCHANGED <<link_vars, raps_vars, got>>

(* A recovery is signalled a number of times only.                          *)
RapsNRDone(s) ==
    /\ alert[s] = "NR" /\ events[s] = <<>>
    /\ alert' = [alert EXCEPT ![s] = "none"]
    /\ UNCHANGED <<link_vars, events, wire, hist_vars>>

-----------------------------------------------------------------------------
(* Mutants: a station does not know its own packets; it alerts once more.   *)
LoopedNever(p) == FALSE
TriggeredAgain(p) == Frames([p EXCEPT !.src = p.at], p.at, p.way)

(* The frames ixgbe_process_skb_fields() sends on: the packet itself ...    *)
Looped(p)  == p.src = p.at
Forward(p) == IF p.dest = p.at THEN {} ELSE Frames(p, p.at, p.way)

(* ... and, of wfs_process_raps(), an alert of its own that raises no       *)
(* others.                                                                  *)
Triggered(p) ==
    IF p.dnf THEN {} ELSE Frames([p EXCEPT !.src = p.at, !.dnf = TRUE], p.at, p.way)

DropLooped(p) ==
    /\ Looped(p)
    /\ wire' = wire \ {p}
    /\ UNCHANGED <<link_vars, raps_vars, hist_vars>>

PassOn(p) ==
    /\ ~Looped(p) /\ p.dest \notin {All, p.at}
    /\ Replace({p}, Forward(p))
    /\ UNCHANGED <<link_vars, raps_vars, sent, got, launched>>

Deliver(p) ==
    /\ ~Looped(p) /\ p.dest \in {All, p.at} /\ p.kind = "data"
    /\ Replace({p}, Forward(p))
    /\ got' = [got EXCEPT ![p.id][p.at][p.way] = Count(@, 1, MaxGot)]
    /\ UNCHANGED <<link_vars, raps_vars, sent, launched>>

(* A failure reported by a peer that is not known on that port raises no    *)
(* alert.                                                                   *)
HearAlert(p, known) ==
    /\ ~Looped(p) /\ p.kind # "data"
    /\ known \/ p.kind = "SF"
    /\ LET T == IF known THEN Triggered(p) ELSE {}
       IN  /\ Replace({p}, Forward(p) \cup T)
           /\ launched' = [launched EXCEPT ![p.id] = Count(@, Cardinality(T), MaxLaunched)]
    /\ UNCHANGED <<link_vars, raps_vars, sent, got>>

-----------------------------------------------------------------------------
(* A cable is cut, with the packets on it, or mended.                       *)
On(p) == Cable(p.at, Turn(p.way))

Cut(c) ==
    /\ changes < MaxChanges /\ cable[c]
    /\ cable' = [cable EXCEPT ![c] = FALSE]
    /\ wire' = {p \in wire : On(p) # c}
    /\ changes' = changes + 1
    /\ UNCHANGED <<link_up, news, raps_vars, hist_vars>>

Mend(c) ==
    /\ changes < MaxChanges /\ ~cable[c]
    /\ cable' = [cable EXCEPT ![c] = TRUE]
    /\ changes' = changes + 1
    /\ UNCHANGED <<link_up, news, raps_vars, wire, hist_vars>>

(* The watchdog of a port notices ...                                       *)
Notice(s, w) ==
    /\ ~news[s][w] /\ link_up[s][w] # cable[Cable(s, w)]
    /\ link_up' = [link_up EXCEPT ![s][w] = ~@]
    /\ news' = [news EXCEPT ![s][w] = TRUE]
    /\ UNCHANGED <<cable, changes, raps_vars, wire, hist_vars>>

(* ... and tells the engine: of a failure, and when both links are up again. *)
Tell(s, w) ==
    /\ news[s][w]
    /\ news' = [news EXCEPT ![s][w] = FALSE]
    /\ events' = [events EXCEPT ![s] =
                     IF ~link_up[s][w] THEN Append(@, "SF")
                     ELSE IF link_up[s][Turn(w)] THEN Append(@, "clear") ELSE @]
    /\ UNCHANGED <<cable, link_up, changes, alert, wire, hist_vars>>

(* wfs_fsm_run(): the local station raises or takes back its alert.         *)
FsmRun(s) ==
    /\ events[s] # <<>>
    /\ alert' = [alert EXCEPT ![s] = IF Head(events[s]) = "SF" THEN "SF" ELSE "NR"]
    /\ events' = [events EXCEPT ![s] = Tail(@)]
    /\ UNCHANGED <<link_vars, wire, hist_vars>>

-----------------------------------------------------------------------------
Init ==
    /\ cable \in {c \in [Station -> BOOLEAN] :
                    Cardinality({s \in Station : ~c[s]}) <= InitCuts}
    /\ link_up = [s \in Station |-> [w \in Way |-> cable[Cable(s, w)]]]
    /\ news = [s \in Station |-> [w \in Way |-> FALSE]]
    /\ events = [s \in Station |-> <<>>] /\ alert = [s \in Station |-> "none"]
    /\ wire = {} /\ sent = <<>>
    /\ got = [i \in Id |-> [s \in Station |-> [w \in Way |-> 0]]]
    /\ lost = FALSE /\ launched = [i \in Id |-> 0] /\ changes = 0

Receive(p) == DropLooped(p) \/ PassOn(p) \/ Deliver(p) \/ \E k \in BOOLEAN : HearAlert(p, k)

ReceiveSome == \E p \in wire : Receive(p)

Next ==
    \/ \E s \in Station : \/ \E dest \in Station \cup {All} : Xmit(s, dest)
                          \/ SendRaps(s) \/ RapsNRDone(s) \/ FsmRun(s) \/ Cut(s) \/ Mend(s)
                          \/ \E w \in Way : Notice(s, w) \/ Tell(s, w)
    \/ ReceiveSome

Spec == Init /\ [][Next]_vars

(* A frame on a cable is received: the interrupt and NAPI see to it.        *)
FairSpec == Spec /\ WF_vars(ReceiveSome)

-----------------------------------------------------------------------------
Sent(i) == i \in 1..Len(sent) /\ sent[i].kind = "data"

(* A packet is delivered to nobody it is not for, nor to its sender; for    *)
(* one workstation once at most, although every station on the way sees it  *)
(* and it may come back; for all, once at most from each way, whatever is   *)
(* cut, mended or lost meanwhile.                                           *)
DeliveredOnce ==
    \A i \in Id : Sent(i) => \A s \in Station :
        IF sent[i].dest = All
        THEN \A w \in Way : got[i][s][w] <= IF s = sent[i].src THEN 0 ELSE 1
        ELSE got[i][s]["cw"] + got[i][s]["ccw"] <= IF s = sent[i].dest THEN 1 ELSE 0

(* One round of alerts makes every other workstation send one each way at   *)
(* most: alerts do not raise alerts without end.                            *)
NoAlertStorm == \A i \in Id : launched[i] <= 2 * N

(* Every packet leaves the ring, although nothing but its sender stops a    *)
(* packet for all.                                                          *)
RingQuiet == <>[](Len(sent) = MaxSends) => <>[](wire = {})

(* With no more than one cable cut a packet for all reaches every other     *)
(* workstation, unless a frame is lost or a cable changes meanwhile.        *)
EverybodyHears ==
    \A i \in Id : (Sent(i) /\ sent[i].dest = All)
        ~> (changes > 0 \/ lost \/ (Sent(i) /\ \A s \in Station \ {sent[i].src} :
                                       \E w \in Way : got[i][s][w] > 0))
=============================================================================
