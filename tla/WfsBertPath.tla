----------------------------- MODULE WfsBertPath -----------------------------
(***************************************************************************)
(* The packets of a bit error rate test between this workstation and its   *)
(* responder: ixgbe_wfs_send_bert() numbers them, the first ones reset the *)
(* responder, the others are requests it counts and sends back by the port *)
(* they came from, and wfs_process_bert() counts the responses.  Both ends *)
(* infer from the numbers what was lost and what came late.                *)
(*                                                                         *)
(* A port delivers in order; the peer table (WfsRaps) may send a packet by *)
(* either, so one may overtake another.  Frames are lost and garbled.  The *)
(* data of a test, their length and their checksum are the number of the   *)
(* test: two tests differ in them.  When the requests are sent and how a   *)
(* test is stopped is in WfsBert.  Byte counts, times and the counts of    *)
(* wrong checksums and sizes, which tell nothing of other packets, are     *)
(* left out.                                                               *)
(***************************************************************************)
EXTENDS Integers, Sequences, FiniteSets

CONSTANTS
    Port,      \* the two ports
    RESETS,    \* packets at the start of a test that reset the responder (5)
    MaxSeq,    \* bound: packets of a test
    MaxTests,  \* bound: tests
    MaxFaults, \* bound: frames lost or garbled
    MaxWire    \* bound: packets on one port and way

ASSUME PathAssumption ==
    RESETS \in Nat \ {0} /\ MaxSeq \in Nat /\ MaxTests \in Nat /\ MaxFaults \in Nat /\ MaxWire \in Nat

VARIABLES
    on,          \* bertcfg->on
    test,        \* the test, or the last one: its data
    myBertSeqNo, \* the number of the last packet sent
    counting,    \* a request is sent and stats.tx_pkts does not count it yet
    me,          \* wfsbert[myID-1] here
    peer,        \* wfsbert[] of this workstation at the responder
    out, back,   \* the packets under way to the responder, and back, by port
    faults       \* how many frames were lost or garbled

path_vars == <<on, test, myBertSeqNo, counting, me, peer, out, back, faults>>

Type   == {"RESET", "REQUEST", "RESPONSE"}
Packet == [type : Type, seqno : 1..MaxSeq, test : 1..MaxTests, garbled : BOOLEAN]

(* seqno is the number expected next, test the data expected.  The rest of  *)
(* the statistics, and what they are about: the numbers counted since the   *)
(* last reset, which was the first to be, and whether a packet of another   *)
(* test is among them.                                                      *)
Zero   == [rx_pkts |-> 0, tx_pkts |-> 0, err_drop |-> 0, err_seq |-> 0,
           heard |-> {}, stale |-> FALSE]
Fresh(t, n) == [seqno |-> n, test |-> t, first |-> n, stats |-> Zero]

MaxCount == MaxSeq * MaxTests
Stats == [rx_pkts : 0..MaxCount, tx_pkts : 0..MaxCount, err_drop : 0..MaxCount, err_seq : 0..MaxCount,
          heard : SUBSET (1..MaxSeq), stale : BOOLEAN]
Cfg   == [seqno : 0..(MaxSeq + 1), test : 0..MaxTests, first : 0..(MaxSeq + 1), stats : Stats]

PathTypeOK ==
    /\ on \in BOOLEAN /\ test \in 0..MaxTests /\ myBertSeqNo \in 0..MaxSeq
    /\ counting \in BOOLEAN /\ me \in Cfg /\ peer \in Cfg
    /\ \A p \in Port : out[p] \in Seq(Packet) /\ back[p] \in Seq(Packet)
    /\ faults \in 0..MaxFaults

-----------------------------------------------------------------------------
(* Mutant: a gap is counted one too high.                                   *)
GapHigh(c, n) == IF n > c.seqno THEN n - c.seqno + 1 ELSE 0

(* What a number says: packets missing before it, and the one expected next. *)
Gap(c, n)    == IF n > c.seqno THEN n - c.seqno ELSE 0
Expect(c, n) == IF n < c.seqno THEN c.seqno ELSE n + 1

(* A request or a response is counted.                                      *)
Counted(c, p) ==
    LET s == c.stats
    IN  [c EXCEPT !.seqno = Expect(c, p.seqno),
                  !.stats = [rx_pkts  |-> s.rx_pkts + 1,
                             tx_pkts  |-> s.tx_pkts,
                             err_drop |-> s.err_drop + Gap(c, p.seqno),
                             err_seq  |-> s.err_seq + (IF p.seqno < c.seqno THEN 1 ELSE 0),
                             heard    |-> s.heard \cup {p.seqno},
                             stale    |-> s.stale \/ p.test # c.test]]

Started(c) == Fresh(test + 1, 0)

(* ixgbe_wfs_bert_start_request(), and the end of a stop, when the work is  *)
(* cancelled (WfsBert): statistics stay, the data are forgotten.            *)
Start ==
    /\ ~on /\ test < MaxTests
    /\ on' = TRUE /\ test' = test + 1 /\ myBertSeqNo' = 0 /\ me' = Started(me)
    /\ UNCHANGED <<counting, peer, out, back, faults>>

Stop ==
    /\ on /\ ~counting /\ on' = FALSE /\ me' = [me EXCEPT !.test = 0]
    /\ UNCHANGED <<test, myBertSeqNo, counting, peer, out, back, faults>>

TypeOf(n) == IF n <= RESETS THEN "RESET" ELSE "REQUEST"

(* ixgbe_wfs_send_bert(): numbered, sent by port p or refused by it (sent). *)
Send(p, sent) ==
    LET n   == myBertSeqNo + 1
        pkt == [type |-> TypeOf(n), seqno |-> n, test |-> test, garbled |-> FALSE]
    IN  /\ on /\ ~counting /\ n <= MaxSeq /\ Len(out[p]) < MaxWire
        /\ myBertSeqNo' = n
        /\ me' = IF pkt.type = "RESET" THEN [me EXCEPT !.seqno = n + 1, !.first = n + 1] ELSE me
        /\ out' = IF sent THEN [out EXCEPT ![p] = Append(@, pkt)] ELSE out
        /\ counting' = (sent /\ pkt.type = "REQUEST")
        /\ UNCHANGED <<on, test, peer, back, faults>>

CountSent ==
    /\ counting /\ counting' = FALSE /\ me' = [me EXCEPT !.stats.tx_pkts = @ + 1]
    /\ UNCHANGED <<on, test, myBertSeqNo, peer, out, back, faults>>

-----------------------------------------------------------------------------
(* wfs_process_bert() at the responder: a reset as it was sent is accepted  *)
(* whatever it finds; ...                                                   *)
Reset(p) ==
    LET pkt == Head(out[p])
    IN  /\ out[p] # <<>> /\ pkt.type = "RESET"
        /\ out' = [out EXCEPT ![p] = Tail(@)]
        /\ peer' = IF ~pkt.garbled THEN Fresh(pkt.test, pkt.seqno + 1) ELSE peer
        /\ UNCHANGED <<on, test, myBertSeqNo, counting, me, back, faults>>

(* Mutant: the response is sent by both ports.                              *)
AnswerBoth(p, pkt) == [q \in Port |-> Append(back[q], [pkt EXCEPT !.type = "RESPONSE"])]
Answer(p, pkt) == [back EXCEPT ![p] = Append(@, [pkt EXCEPT !.type = "RESPONSE"])]

(* ... a request is counted and sent back by the port it came from.         *)
Request(p) ==
    LET pkt == Head(out[p])
    IN  /\ out[p] # <<>> /\ pkt.type = "REQUEST" /\ Len(back[p]) < MaxWire
        /\ out' = [out EXCEPT ![p] = Tail(@)]
        /\ peer' = [Counted(peer, pkt) EXCEPT !.stats.tx_pkts = @ + 1]
        /\ back' = Answer(p, pkt)
        /\ UNCHANGED <<on, test, myBertSeqNo, counting, me, faults>>

(* A response arrives here; it is counted while a test is on.               *)
Response(p) ==
    /\ back[p] # <<>>
    /\ back' = [back EXCEPT ![p] = Tail(@)]
    /\ me' = IF on THEN Counted(me, Head(back[p])) ELSE me
    /\ UNCHANGED <<on, test, myBertSeqNo, counting, peer, out, faults>>

(* A frame is lost, or garbled (or cut short) without the adapter noticing. *)
Faults(q) == {Tail(q), [q EXCEPT ![1].garbled = TRUE]}

Fault(p) ==
    /\ faults < MaxFaults /\ faults' = faults + 1
    /\ \/ out[p] # <<>> /\ (\E q \in Faults(out[p]) : out' = [out EXCEPT ![p] = q]) /\ back' = back
       \/ back[p] # <<>> /\ (\E q \in Faults(back[p]) : back' = [back EXCEPT ![p] = q]) /\ out' = out
    /\ UNCHANGED <<on, test, myBertSeqNo, counting, me, peer>>

PathInit ==
    /\ on = FALSE /\ test = 0 /\ myBertSeqNo = 0 /\ counting = FALSE
    /\ me = Fresh(0, 0) /\ peer = Fresh(0, 0)
    /\ out = [p \in Port |-> <<>>] /\ back = [p \in Port |-> <<>>] /\ faults = 0

PathNext ==
    \/ Start \/ Stop \/ CountSent
    \/ \E p \in Port : \/ \E sent \in BOOLEAN : Send(p, sent)
                       \/ Reset(p) \/ Request(p) \/ Response(p) \/ Fault(p)

PathSpec == PathInit /\ [][PathNext]_path_vars

-----------------------------------------------------------------------------
Missing(c) == Cardinality((c.first..(c.seqno - 1)) \ c.stats.heard)

(* What a user makes of the numbers is true at either end: lost less late   *)
(* are the packets of the test, up to the last one heard, that did not      *)
(* arrive, whatever overtook what, unless packets of an earlier test are    *)
(* counted with them.                                                       *)
LossIsReal ==
    \A c \in {me, peer} : ~c.stats.stale => c.stats.err_drop - c.stats.err_seq = Missing(c)

(* No response without a request: those counted in a test never exceed the  *)
(* requests of it, but for the one being sent.                              *)
AnswersAreAsked ==
    ~me.stats.stale => me.stats.rx_pkts <= me.stats.tx_pkts + (IF counting THEN 1 ELSE 0)
=============================================================================
