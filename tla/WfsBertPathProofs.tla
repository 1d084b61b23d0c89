------------------------- MODULE WfsBertPathProofs -------------------------
(***************************************************************************)
(* The numbers of a bit error rate test, for tests of any length, any      *)
(* number of ports and of packets under way, lost or garbled.              *)
(*                                                                         *)
(* A packet is known by its key, the test and the number it has.  No key   *)
(* is under way twice (Wires), so what one end counts it counts once; what *)
(* it has counted is not under way to it any longer (MeInv, PeerInv); and  *)
(* with that the difference of the two counters is the number of packets   *)
(* missing (Ledger).                                                       *)
(***************************************************************************)
EXTENDS WfsBertPath, FiniteSetTheorems, SequenceTheorems, TLAPS

Key(pkt) == <<pkt.test, pkt.seqno>>
Keys(q)  == {Key(q[n]) : n \in DOMAIN q}
Once(q)  == \A m, n \in DOMAIN q : Key(q[m]) = Key(q[n]) => m = n

AllKeys(o) == UNION {Keys(o[p]) : p \in Port}
OutKeys    == AllKeys(out)
BackKeys   == AllKeys(back)

(* The packets one way: each key once, whatever the port; and, on the way   *)
(* out, of the type their number calls for.                                 *)
Lanes(o) ==
    /\ DOMAIN o = Port
    /\ \A p \in Port : o[p] \in Seq(Packet) /\ Once(o[p])
    /\ \A p, q \in Port : p # q => Keys(o[p]) \cap Keys(o[q]) = {}
Typed(o) == \A p \in Port : \A n \in DOMAIN o[p] : o[p][n].type = TypeOf(o[p][n].seqno)

Wires == Lanes(out) /\ Lanes(back) /\ Typed(out) /\ OutKeys \cap BackKeys = {}

(* What is under way was sent; only requests are answered.                  *)
Numbers ==
    /\ \A k \in OutKeys \cup BackKeys : k[1] <= test /\ (k[1] = test => k[2] <= myBertSeqNo)
    /\ \A k \in BackKeys : k[2] > RESETS

(* The statistics of one end: what was heard lies between the first number  *)
(* and the one expected, and the counters tell the rest.                    *)
Ledger(c) ==
    /\ c.stats.heard \subseteq c.first..(c.seqno - 1)
    /\ c.stats.heard = {} => c.first = c.seqno
    /\ c.stats.err_drop - c.stats.err_seq = Missing(c)

(* The requests of the test that are answered, or may still be.             *)
Open == me.stats.heard \cup {n \in 1..MaxSeq : n > RESETS /\ <<test, n>> \in OutKeys \cup BackKeys}

MeInv ==
    /\ on => test > 0 /\ me.test = test
    /\ ~on => ~counting
    /\ me.first <= RESETS + 1
    /\ ~me.stats.stale =>
         /\ Ledger(me)
         /\ \A n \in me.stats.heard : /\ n > RESETS /\ n <= myBertSeqNo
                                      /\ <<test, n>> \notin OutKeys \cup BackKeys
         /\ me.stats.rx_pkts = Cardinality(me.stats.heard)
         /\ Cardinality(Open) <= me.stats.tx_pkts + (IF counting THEN 1 ELSE 0)

PeerInv ==
    /\ peer.test <= test /\ peer.first <= RESETS + 1
    /\ ~peer.stats.stale =>
         /\ Ledger(peer)
         /\ \A n \in peer.stats.heard : /\ <<peer.test, n>> \notin OutKeys
                                        /\ peer.test = test => n <= myBertSeqNo

(* The types of the counters, without the bounds of the runs.               *)
StatsType == [rx_pkts : Nat, tx_pkts : Nat, err_drop : Nat, err_seq : Nat, heard : SUBSET (1..MaxSeq), stale : BOOLEAN]
CfgType == [seqno : Nat, test : Nat, first : Nat, stats : StatsType]
Types ==
    /\ on \in BOOLEAN /\ test \in 0..MaxTests /\ myBertSeqNo \in 0..MaxSeq /\ counting \in BOOLEAN
    /\ me \in CfgType /\ peer \in CfgType

PathInv == Types /\ Wires /\ Numbers /\ MeInv /\ PeerInv

-----------------------------------------------------------------------------
(* What counting a packet does to the statistics.                           *)
LEMMA CountedFields ==
    ASSUME NEW c \in CfgType, NEW pkt \in Packet
    PROVE  /\ Counted(c, pkt) \in CfgType
           /\ Counted(c, pkt).seqno = Expect(c, pkt.seqno)
           /\ Counted(c, pkt).test = c.test /\ Counted(c, pkt).first = c.first
           /\ Counted(c, pkt).stats.rx_pkts = c.stats.rx_pkts + 1
           /\ Counted(c, pkt).stats.tx_pkts = c.stats.tx_pkts
           /\ Counted(c, pkt).stats.err_drop = c.stats.err_drop + Gap(c, pkt.seqno)
           /\ Counted(c, pkt).stats.err_seq = c.stats.err_seq + (IF pkt.seqno < c.seqno THEN 1 ELSE 0)
           /\ Counted(c, pkt).stats.heard = c.stats.heard \cup {pkt.seqno}
           /\ (Counted(c, pkt).stats.stale <=> (c.stats.stale \/ pkt.test # c.test))
<1> DEFINE n   == pkt.seqno
           late == pkt.test # c.test
<1>1. /\ n \in 1..MaxSeq /\ n \in Nat /\ c.seqno \in Nat /\ c.stats \in StatsType
      /\ c.stats.rx_pkts \in Nat /\ c.stats.err_drop \in Nat /\ c.stats.err_seq \in Nat
      /\ c.stats.heard \in SUBSET (1..MaxSeq) /\ c.stats.stale \in BOOLEAN
  BY PathAssumption DEF Packet, CfgType, StatsType
<1>2. Gap(c, n) \in Nat /\ Expect(c, n) \in Nat
  BY <1>1 DEF Gap, Expect
<1> DEFINE g == Gap(c, n)
           e == Expect(c, n)
           l == IF n < c.seqno THEN 1 ELSE 0
           s == c.stats.stale \/ late
           S == [rx_pkts |-> c.stats.rx_pkts + 1, tx_pkts |-> c.stats.tx_pkts,
                 err_drop |-> c.stats.err_drop + g, err_seq |-> c.stats.err_seq + l,
                 heard |-> c.stats.heard \cup {n}, stale |-> s]
<1>3. Counted(c, pkt) = [c EXCEPT !.seqno = e, !.stats = S]
  BY DEF Counted
<1>4. l \in Nat /\ s \in BOOLEAN
  BY <1>1
<1> HIDE DEF n, late, g, e, l, s
<1>5. S \in StatsType
  BY <1>1, <1>2, <1>4 DEF StatsType, g
<1>6. /\ S.rx_pkts = c.stats.rx_pkts + 1 /\ S.tx_pkts = c.stats.tx_pkts
      /\ S.err_drop = c.stats.err_drop + g /\ S.err_seq = c.stats.err_seq + l
      /\ S.heard = c.stats.heard \cup {n} /\ (S.stale <=> s)
  OBVIOUS
<1> HIDE DEF S
<1>7. /\ Counted(c, pkt) \in CfgType /\ Counted(c, pkt).seqno = e
      /\ Counted(c, pkt).test = c.test /\ Counted(c, pkt).first = c.first
      /\ Counted(c, pkt).stats = S
  BY <1>2, <1>3, <1>5 DEF CfgType, e
<1>8. QED BY <1>6, <1>7 DEF n, late, g, e, l, s

(* A packet counted once keeps the books: a gap adds what is missing, a     *)
(* late packet takes itself away.                                           *)
LEMMA CountedLedger ==
    ASSUME NEW c \in CfgType, NEW pkt \in Packet, Ledger(c),
           c.first <= pkt.seqno, pkt.seqno \notin c.stats.heard
    PROVE  /\ Ledger(Counted(c, pkt))
           /\ Cardinality(Counted(c, pkt).stats.heard) = Cardinality(c.stats.heard) + 1
<1> DEFINE n == pkt.seqno
           H == c.stats.heard
           D == Counted(c, pkt)
           M == (c.first..(c.seqno - 1)) \ H
           K == (D.first..(D.seqno - 1)) \ D.stats.heard
<1>1. /\ n \in 1..MaxSeq /\ n \in Nat /\ c.seqno \in Nat /\ c.first \in Nat /\ c.stats \in StatsType
      /\ c.stats.err_drop \in Nat /\ c.stats.err_seq \in Nat /\ H \in SUBSET (1..MaxSeq)
  BY PathAssumption DEF Packet, CfgType, StatsType
<1>2. /\ D.seqno = Expect(c, n) /\ D.first = c.first /\ D.stats.heard = H \cup {n}
      /\ D.stats.err_drop = c.stats.err_drop + Gap(c, n)
      /\ D.stats.err_seq = c.stats.err_seq + (IF n < c.seqno THEN 1 ELSE 0)
  BY CountedFields
<1>3. /\ H \subseteq c.first..(c.seqno - 1) /\ (H = {} => c.first = c.seqno)
      /\ c.stats.err_drop - c.stats.err_seq = Cardinality(M)
  BY DEF Ledger, Missing
<1>12. \A x \in H : x \in Int /\ c.first <= x /\ x < c.seqno
  <2> HIDE DEF H, M
  <2>1. \A x \in H : x \in c.first..(c.seqno - 1)
    BY <1>3
  <2>2. QED BY <2>1, <1>1
<1>4. c.first <= c.seqno
  <2>1. CASE H = {}
    BY <2>1, <1>1, <1>3
  <2>2. CASE H # {}
    <3>1. PICK x \in H : TRUE
      BY <2>2
    <3>2. QED BY <3>1, <1>12, <1>1
  <2>3. QED BY <2>1, <2>2
<1>5. IsFiniteSet(1..MaxSeq) /\ IsFiniteSet(c.first..(c.seqno - 1))
  <2>1. 1 \in Int /\ MaxSeq \in Int /\ c.first \in Int /\ c.seqno - 1 \in Int
    BY <1>1, PathAssumption
  <2>2. QED BY <2>1, FS_Interval
<1>6. IsFiniteSet(H) /\ Cardinality(H \cup {n}) = Cardinality(H) + 1
  BY <1>1, <1>5, FS_Subset, FS_AddElement
<1>7. IsFiniteSet(M) /\ Cardinality(M) \in Nat
  BY <1>5, FS_Subset, FS_CardinalityType
<1>8. n \notin H /\ c.first <= n
  OBVIOUS
<1> HIDE DEF D, n, H
<1>9. CASE n >= c.seqno
  <2>1. D.seqno = n + 1 /\ Gap(c, n) = n - c.seqno
    BY <1>1, <1>2, <1>9 DEF Expect, Gap
  <2>2. K = M \cup (c.seqno..(n - 1))
    <3>1. ASSUME NEW x PROVE x \in K <=> x \in M \cup (c.seqno..(n - 1))
      BY <2>1, <1>12, <1>1, <1>2, <1>4, <1>8, <1>9
    <3>2. QED BY <3>1
  <2>3. M \cap (c.seqno..(n - 1)) = {}
    BY <1>1
  <2>4. IsFiniteSet(c.seqno..(n - 1)) /\ Cardinality(c.seqno..(n - 1)) = n - c.seqno
    <3>1. c.seqno \in Int /\ n - 1 \in Int
      BY <1>1
    <3>2. IsFiniteSet(c.seqno..(n - 1)) /\ Cardinality(c.seqno..(n - 1)) = IF c.seqno > n - 1 THEN 0 ELSE n - 1 - c.seqno + 1
      BY <3>1, FS_Interval
    <3>3. QED BY <3>2, <1>1, <1>9
  <2> DEFINE G == c.seqno..(n - 1)
  <2> HIDE DEF M, K
  <2>5. Cardinality(K) = Cardinality(M) + (n - c.seqno)
    <3> HIDE DEF G
    <3>1. Cardinality(M \cup G) = Cardinality(M) + Cardinality(G) - Cardinality(M \cap G)
      BY <2>4, <1>7, FS_Union DEF G
    <3>2. Cardinality(M \cap G) = 0
      BY <2>3, FS_EmptySet DEF G
    <3>3. QED BY <3>1, <3>2, <2>2, <2>4, <1>1, <1>7 DEF G
  <2>6. D.stats.heard \subseteq D.first..(D.seqno - 1)
    <3>1. ASSUME NEW x \in H \cup {n} PROVE x \in Int /\ c.first <= x /\ x <= n
      BY <1>12, <1>1, <1>8, <1>9
    <3>2. \A x \in H \cup {n} : x \in c.first..n
      BY <3>1, <1>1
    <3>3. D.first = c.first /\ D.seqno - 1 = n
      BY <2>1, <1>1, <1>2
    <3>4. QED BY <3>2, <3>3, <1>2
  <2>7. D.stats.err_drop - D.stats.err_seq = Cardinality(K)
    BY <2>1, <2>5, <1>1, <1>2, <1>3, <1>7, <1>9
  <2>8. D.stats.heard # {}
    BY <1>2
  <2>9. QED BY <2>6, <2>7, <2>8, <1>2, <1>6 DEF Ledger, Missing, K, D, H, n
<1>10. CASE n < c.seqno
  <2>1. D.seqno = c.seqno /\ Gap(c, n) = 0
    BY <1>1, <1>2, <1>10 DEF Expect, Gap
  <2>2. K = M \ {n} /\ n \in M
    BY <2>1, <1>1, <1>2, <1>8, <1>10
  <2> HIDE DEF M, K
  <2>3. Cardinality(K) = Cardinality(M) - 1
    BY <2>2, <1>7, FS_RemoveElement
  <2>4. D.stats.heard \subseteq D.first..(D.seqno - 1)
    <3>1. ASSUME NEW x \in H \cup {n} PROVE x \in Int /\ c.first <= x /\ x < c.seqno
      BY <1>12, <1>1, <1>8, <1>10
    <3>2. \A x \in H \cup {n} : x \in c.first..(c.seqno - 1)
      BY <3>1, <1>1
    <3>3. QED BY <3>2, <2>1, <1>2
  <2>5. D.stats.err_drop - D.stats.err_seq = Cardinality(K)
    <3>1. D.stats.err_drop = c.stats.err_drop + Gap(c, n)
      BY <1>2
    <3>2. D.stats.err_drop = c.stats.err_drop
      BY <3>1, <2>1, <1>1
    <3>3. D.stats.err_seq = c.stats.err_seq + (IF n < c.seqno THEN 1 ELSE 0)
      BY <1>2
    <3>4. D.stats.err_seq = c.stats.err_seq + 1
      BY <3>3, <1>10
    <3>5. QED BY <3>2, <3>4, <2>3, <1>1, <1>3, <1>7
  <2>6. D.stats.heard # {}
    BY <1>2
  <2>7. QED BY <2>4, <2>5, <2>6, <1>2, <1>6 DEF Ledger, Missing, K, D, H, n
<1>11. QED BY <1>9, <1>10, <1>1

-----------------------------------------------------------------------------
(* The packets of one port and way.                                         *)
LEMMA TailKeys ==
    ASSUME NEW q \in Seq(Packet), q # <<>>, Once(q)
    PROVE  /\ Tail(q) \in Seq(Packet) /\ Once(Tail(q)) /\ Head(q) \in Packet
           /\ Head(q) = q[1] /\ 1 \in DOMAIN q
           /\ Key(Head(q)) \in Keys(q) /\ Keys(Tail(q)) = Keys(q) \ {Key(Head(q))}
           /\ \A i \in DOMAIN Tail(q) : \E j \in DOMAIN q : Tail(q)[i] = q[j]
<1>1. /\ Head(q) \in Packet /\ Tail(q) \in Seq(Packet) /\ Len(Tail(q)) = Len(q) - 1
      /\ \A i \in 1..Len(Tail(q)) : Tail(q)[i] = q[i + 1]
  BY HeadTailProperties
<1>2. Len(q) \in Nat /\ Len(q) > 0 /\ Head(q) = q[1] /\ DOMAIN q = 1..Len(q) /\ DOMAIN Tail(q) = 1..(Len(q) - 1)
  BY <1>1
<1> DEFINE t == Tail(q)
<1>3. \A i \in DOMAIN t : i + 1 \in DOMAIN q /\ t[i] = q[i + 1] /\ i + 1 # 1
  BY <1>1, <1>2
<1>4. \A j \in DOMAIN q : j # 1 => j - 1 \in DOMAIN t /\ t[j - 1] = q[j]
  BY <1>1, <1>2
<1>5. DOMAIN t \subseteq Int /\ DOMAIN q \subseteq Int /\ 1 \in DOMAIN q
  BY <1>2
<1> HIDE DEF t
<1>6. Once(t)
  <2> SUFFICES ASSUME NEW a \in DOMAIN t, NEW b \in DOMAIN t, Key(t[a]) = Key(t[b]) PROVE a = b
    BY DEF Once
  <2>1. a + 1 = b + 1
    BY <1>3 DEF Once
  <2>2. QED BY <2>1, <1>5
<1>7. Keys(t) = Keys(q) \ {Key(q[1])}
  <2>1. ASSUME NEW k \in Keys(t) PROVE k \in Keys(q) /\ k # Key(q[1])
    <3>1. PICK i \in DOMAIN t : k = Key(t[i])
      BY DEF Keys
    <3>2. i + 1 \in DOMAIN q /\ k = Key(q[i + 1]) /\ i + 1 # 1
      BY <3>1, <1>3
    <3>3. QED BY <3>2, <1>5 DEF Keys, Once
  <2>2. ASSUME NEW k \in Keys(q), k # Key(q[1]) PROVE k \in Keys(t)
    <3>1. PICK j \in DOMAIN q : k = Key(q[j])
      BY DEF Keys
    <3>2. j - 1 \in DOMAIN t /\ k = Key(t[j - 1])
      BY <3>1, <2>2, <1>4
    <3>3. QED BY <3>2 DEF Keys
  <2>3. QED BY <2>1, <2>2
<1>8. Key(q[1]) \in Keys(q)
  BY <1>5 DEF Keys
<1>9. QED BY <1>1, <1>2, <1>3, <1>5, <1>6, <1>7, <1>8 DEF t

LEMMA AppendKeys ==
    ASSUME NEW q \in Seq(Packet), NEW pkt \in Packet, Once(q), Key(pkt) \notin Keys(q)
    PROVE  /\ Append(q, pkt) \in Seq(Packet) /\ Once(Append(q, pkt))
           /\ Keys(Append(q, pkt)) = Keys(q) \cup {Key(pkt)}
           /\ \A i \in DOMAIN Append(q, pkt) : Append(q, pkt)[i] = pkt \/ \E j \in DOMAIN q : Append(q, pkt)[i] = q[j]
<1> DEFINE t == Append(q, pkt)
           l == Len(q) + 1
<1>1. /\ t \in Seq(Packet) /\ Len(q) \in Nat /\ DOMAIN q = 1..Len(q) /\ DOMAIN t = 1..l
      /\ \A i \in 1..Len(q) : t[i] = q[i]
      /\ t[l] = pkt
  BY AppendProperties, LenProperties
<1>2. DOMAIN t = DOMAIN q \cup {l} /\ l \notin DOMAIN q /\ \A i \in DOMAIN q : t[i] = q[i]
  BY <1>1
<1>3. t[l] = pkt /\ t \in Seq(Packet)
  BY <1>1
<1> HIDE DEF t, l
<1>4. \A i \in DOMAIN q : Key(q[i]) \in Keys(q)
  BY DEF Keys
<1>5. Once(t)
  BY <1>2, <1>3, <1>4 DEF Once
<1>6. Keys(t) = Keys(q) \cup {Key(pkt)}
  BY <1>2, <1>3 DEF Keys
<1>7. QED BY <1>2, <1>3, <1>5, <1>6 DEF t

(* A garbled packet is still known by its key.                              *)
LEMMA GarbleKeys ==
    ASSUME NEW q \in Seq(Packet), q # <<>>
    PROVE  LET t == [q EXCEPT ![1].garbled = TRUE]
           IN  /\ t \in Seq(Packet) /\ DOMAIN t = DOMAIN q
               /\ \A i \in DOMAIN q : t[i].test = q[i].test /\ t[i].seqno = q[i].seqno /\ t[i].type = q[i].type
<1> DEFINE e == [q[1] EXCEPT !.garbled = TRUE]
           t == [q EXCEPT ![1] = e]
<1>1. Len(q) \in Nat /\ DOMAIN q = 1..Len(q) /\ 1 \in 1..Len(q) /\ q[1] \in Packet
  BY ElementOfSeq, LenProperties
<1>2. e \in Packet /\ e.test = q[1].test /\ e.seqno = q[1].seqno /\ e.type = q[1].type
  BY <1>1 DEF Packet
<1>3. [q EXCEPT ![1].garbled = TRUE] = t
  OBVIOUS
<1> HIDE DEF e
<1>4. t \in Seq(Packet) /\ DOMAIN t = DOMAIN q /\ \A i \in 1..Len(q) : t[i] = IF i = 1 THEN e ELSE q[i]
  BY <1>1, <1>2, ExceptSeq
<1>5. QED BY <1>1, <1>2, <1>3, <1>4

(* One port of one way changes.                                             *)
LEMMA LaneChange ==
    ASSUME NEW o, Lanes(o), NEW p \in Port, NEW q \in Seq(Packet), Once(q), NEW k,
           Keys(q) \subseteq Keys(o[p]) \cup {k}, k \in Keys(o[p]) \/ k \notin AllKeys(o)
    PROVE  LET u == [o EXCEPT ![p] = q]
           IN  /\ Lanes(u)
               /\ AllKeys(u) = (AllKeys(o) \ Keys(o[p])) \cup Keys(q)
               /\ (Typed(o) /\ \A n \in DOMAIN q : q[n].type = TypeOf(q[n].seqno)) => Typed(u)
<1> DEFINE u == [o EXCEPT ![p] = q]
<1>1. DOMAIN u = Port /\ u[p] = q /\ \A r \in Port : r # p => u[r] = o[r]
  BY DEF Lanes
<1> HIDE DEF u
<1>2. \A r \in Port : r # p => Keys(o[r]) \cap Keys(o[p]) = {} /\ Keys(o[r]) \subseteq AllKeys(o)
  BY DEF Lanes, AllKeys
<1>3. \A r \in Port : r # p => Keys(o[r]) \cap Keys(q) = {}
  BY <1>2
<1>4. Lanes(u)
  BY <1>1, <1>3 DEF Lanes
<1>5. AllKeys(u) = (AllKeys(o) \ Keys(o[p])) \cup Keys(q)
  <2>1. \A x : x \in AllKeys(u) <=> \E r \in Port : x \in Keys(u[r])
    BY DEF AllKeys
  <2>2. \A x : x \in AllKeys(o) <=> \E r \in Port : x \in Keys(o[r])
    BY DEF AllKeys
  <2>3. ASSUME NEW x \in AllKeys(u) PROVE x \in (AllKeys(o) \ Keys(o[p])) \cup Keys(q)
    BY <2>1, <2>2, <1>1, <1>2
  <2>4. ASSUME NEW x \in (AllKeys(o) \ Keys(o[p])) \cup Keys(q) PROVE x \in AllKeys(u)
    BY <2>1, <2>2, <1>1
  <2>5. QED BY <2>3, <2>4
<1>6. ASSUME Typed(o), \A n \in DOMAIN q : q[n].type = TypeOf(q[n].seqno) PROVE Typed(u)
  BY <1>1, <1>6 DEF Typed
<1>7. QED BY <1>4, <1>5, <1>6 DEF u

LEMMA LaneTake ==
    ASSUME NEW o, Lanes(o), NEW p \in Port, o[p] # <<>>
    PROVE  LET u == [o EXCEPT ![p] = Tail(@)]
           IN  /\ Lanes(u) /\ Head(o[p]) \in Packet
               /\ Key(Head(o[p])) \in AllKeys(o) /\ AllKeys(u) = AllKeys(o) \ {Key(Head(o[p]))}
               /\ Typed(o) => Typed(u) /\ Head(o[p]).type = TypeOf(Head(o[p]).seqno)
<1> DEFINE q == Tail(o[p])
           k == Key(Head(o[p]))
           u == [o EXCEPT ![p] = q]
<1>1. o[p] \in Seq(Packet) /\ Once(o[p])
  BY DEF Lanes
<1>2. /\ q \in Seq(Packet) /\ Once(q) /\ Head(o[p]) \in Packet
      /\ Head(o[p]) = o[p][1] /\ 1 \in DOMAIN o[p]
      /\ k \in Keys(o[p]) /\ Keys(q) = Keys(o[p]) \ {k}
      /\ \A i \in DOMAIN q : \E j \in DOMAIN o[p] : q[i] = o[p][j]
  BY <1>1, TailKeys
<1>3. [o EXCEPT ![p] = Tail(@)] = u
  OBVIOUS
<1>4. Keys(o[p]) \subseteq AllKeys(o) /\ k \in AllKeys(o)
  BY <1>2 DEF AllKeys
<1> HIDE DEF q, k
<1>5. Keys(q) \subseteq Keys(o[p]) \cup {k}
  BY <1>2
<1>6. /\ Lanes(u)
      /\ AllKeys(u) = (AllKeys(o) \ Keys(o[p])) \cup Keys(q)
      /\ (Typed(o) /\ \A n \in DOMAIN q : q[n].type = TypeOf(q[n].seqno)) => Typed(u)
  BY <1>2, <1>5, LaneChange
<1> HIDE DEF u
<1>7. AllKeys(u) = AllKeys(o) \ {k}
  BY <1>2, <1>4, <1>6
<1>8. Typed(o) => Typed(u) /\ Head(o[p]).type = TypeOf(Head(o[p]).seqno)
  BY <1>2, <1>6 DEF Typed
<1>9. QED BY <1>2, <1>3, <1>4, <1>6, <1>7, <1>8 DEF u, k

LEMMA LaneAdd ==
    ASSUME NEW o, Lanes(o), NEW p \in Port, NEW pkt \in Packet, Key(pkt) \notin AllKeys(o)
    PROVE  LET u == [o EXCEPT ![p] = Append(@, pkt)]
           IN  /\ Lanes(u) /\ AllKeys(u) = AllKeys(o) \cup {Key(pkt)}
               /\ Typed(o) /\ pkt.type = TypeOf(pkt.seqno) => Typed(u)
<1> DEFINE q == Append(o[p], pkt)
           k == Key(pkt)
           u == [o EXCEPT ![p] = q]
<1>1. o[p] \in Seq(Packet) /\ Once(o[p]) /\ Keys(o[p]) \subseteq AllKeys(o)
  BY DEF Lanes, AllKeys
<1>2. /\ q \in Seq(Packet) /\ Once(q) /\ Keys(q) = Keys(o[p]) \cup {k}
      /\ \A i \in DOMAIN q : q[i] = pkt \/ \E j \in DOMAIN o[p] : q[i] = o[p][j]
  BY <1>1, AppendKeys
<1>3. [o EXCEPT ![p] = Append(@, pkt)] = u
  OBVIOUS
<1>4. k \notin AllKeys(o)
  OBVIOUS
<1> HIDE DEF q, k
<1>5. Keys(q) \subseteq Keys(o[p]) \cup {k}
  BY <1>2
<1>6. /\ Lanes(u)
      /\ AllKeys(u) = (AllKeys(o) \ Keys(o[p])) \cup Keys(q)
      /\ (Typed(o) /\ \A n \in DOMAIN q : q[n].type = TypeOf(q[n].seqno)) => Typed(u)
  BY <1>2, <1>4, <1>5, LaneChange
<1> HIDE DEF u
<1>7. AllKeys(u) = AllKeys(o) \cup {k}
  BY <1>1, <1>2, <1>6
<1>8. ASSUME Typed(o), pkt.type = TypeOf(pkt.seqno) PROVE Typed(u)
  BY <1>2, <1>6, <1>8 DEF Typed
<1>9. QED BY <1>3, <1>6, <1>7, <1>8 DEF u, k

LEMMA LaneFault ==
    ASSUME NEW o, Lanes(o), NEW p \in Port, o[p] # <<>>, NEW q \in Faults(o[p])
    PROVE  LET u == [o EXCEPT ![p] = q]
           IN  Lanes(u) /\ AllKeys(u) \subseteq AllKeys(o) /\ (Typed(o) => Typed(u))
<1>1. o[p] \in Seq(Packet) /\ Once(o[p]) /\ Keys(o[p]) \subseteq AllKeys(o)
  BY DEF Lanes, AllKeys
<1>2. CASE q = Tail(o[p])
  <2> DEFINE v == [o EXCEPT ![p] = Tail(@)]
             u == [o EXCEPT ![p] = q]
  <2>1. u = v
    BY <1>2
  <2>2. Lanes(v) /\ AllKeys(v) = AllKeys(o) \ {Key(Head(o[p]))} /\ (Typed(o) => Typed(v))
    BY LaneTake
  <2> HIDE DEF u, v
  <2>3. Lanes(u) /\ AllKeys(u) \subseteq AllKeys(o) /\ (Typed(o) => Typed(u))
    BY <2>1, <2>2
  <2>4. QED BY <2>3 DEF u
<1>3. CASE q = [o[p] EXCEPT ![1].garbled = TRUE]
  <2> DEFINE u == [o EXCEPT ![p] = q]
             k == Key(o[p][1])
  <2>1. /\ q \in Seq(Packet) /\ DOMAIN q = DOMAIN o[p]
        /\ \A i \in DOMAIN o[p] : q[i].test = o[p][i].test /\ q[i].seqno = o[p][i].seqno /\ q[i].type = o[p][i].type
    BY <1>1, <1>3, GarbleKeys
  <2>2. \A i \in DOMAIN o[p] : Key(q[i]) = Key(o[p][i])
    BY <2>1 DEF Key
  <2>3. Once(q) /\ Keys(q) = Keys(o[p])
    BY <1>1, <2>1, <2>2 DEF Once, Keys
  <2>4. 1 \in DOMAIN o[p] /\ k \in Keys(o[p])
    BY <1>1, TailKeys DEF Keys
  <2> HIDE DEF k
  <2>5. Keys(q) \subseteq Keys(o[p]) \cup {k}
    BY <2>3
  <2>6. /\ Lanes(u)
        /\ AllKeys(u) = (AllKeys(o) \ Keys(o[p])) \cup Keys(q)
        /\ (Typed(o) /\ \A n \in DOMAIN q : q[n].type = TypeOf(q[n].seqno)) => Typed(u)
    BY <2>1, <2>3, <2>4, <2>5, LaneChange
  <2> HIDE DEF u
  <2>7. AllKeys(u) \subseteq AllKeys(o)
    BY <1>1, <2>3, <2>6
  <2>8. Typed(o) => Typed(u)
    BY <2>1, <2>6 DEF Typed
  <2>9. QED BY <2>6, <2>7, <2>8 DEF u
<1>4. QED BY <1>2, <1>3 DEF Faults

-----------------------------------------------------------------------------
(* Numbers of packets are few enough to be counted.                         *)
LEMMA Countable ==
    ASSUME NEW S \in SUBSET (1..MaxSeq), NEW T \in SUBSET S
    PROVE  Cardinality(T) \in Nat /\ Cardinality(S) \in Nat /\ Cardinality(T) <= Cardinality(S)
<1>1. IsFiniteSet(1..MaxSeq)
  <2>1. 1 \in Int /\ MaxSeq \in Int
    BY PathAssumption
  <2>2. QED BY <2>1, FS_Interval
<1>2. IsFiniteSet(S)
  BY <1>1, FS_Subset
<1>3. QED BY <1>2, FS_Subset, FS_CardinalityType

(* A packet counted as sent changes nothing else.                           *)
LEMMA SentFields ==
    ASSUME NEW c \in CfgType
    PROVE  LET d == [c EXCEPT !.stats.tx_pkts = @ + 1]
           IN  /\ d \in CfgType /\ d.seqno = c.seqno /\ d.test = c.test /\ d.first = c.first
               /\ d.stats.rx_pkts = c.stats.rx_pkts /\ d.stats.tx_pkts = c.stats.tx_pkts + 1
               /\ d.stats.err_drop = c.stats.err_drop /\ d.stats.err_seq = c.stats.err_seq
               /\ d.stats.heard = c.stats.heard /\ (d.stats.stale <=> c.stats.stale)
<1> DEFINE s == [c.stats EXCEPT !.tx_pkts = c.stats.tx_pkts + 1]
           d == [c EXCEPT !.stats = s]
<1>1. [c EXCEPT !.stats.tx_pkts = @ + 1] = d
  OBVIOUS
<1>2. c.stats \in StatsType
  BY DEF CfgType
<1>3. /\ s \in StatsType /\ s.rx_pkts = c.stats.rx_pkts /\ s.tx_pkts = c.stats.tx_pkts + 1
      /\ s.err_drop = c.stats.err_drop /\ s.err_seq = c.stats.err_seq
      /\ s.heard = c.stats.heard /\ (s.stale <=> c.stats.stale)
  BY <1>2 DEF StatsType
<1> HIDE DEF s
<1>4. d \in CfgType /\ d.seqno = c.seqno /\ d.test = c.test /\ d.first = c.first /\ d.stats = s
  BY <1>3 DEF CfgType
<1>5. QED BY <1>1, <1>3, <1>4

(* After a reset the books are empty.                                       *)
LEMMA FreshFields ==
    ASSUME NEW t \in Nat, NEW n \in Nat
    PROVE  LET d == Fresh(t, n)
           IN  /\ d \in CfgType /\ d.seqno = n /\ d.test = t /\ d.first = n
               /\ d.stats.rx_pkts = 0 /\ d.stats.tx_pkts = 0 /\ d.stats.heard = {}
               /\ d.stats.err_drop = 0 /\ d.stats.err_seq = 0 /\ ~d.stats.stale
               /\ Ledger(d)
<1> DEFINE d == Fresh(t, n)
<1>1. Zero \in StatsType /\ d.stats = Zero
  BY DEF Zero, StatsType, Fresh
<1>2. d \in CfgType /\ d.seqno = n /\ d.test = t /\ d.first = n
  BY <1>1 DEF Fresh, CfgType
<1>3. /\ Zero.rx_pkts = 0 /\ Zero.tx_pkts = 0 /\ Zero.heard = {} /\ Zero.err_drop = 0 /\ Zero.err_seq = 0
      /\ ~Zero.stale
  BY DEF Zero
<1> HIDE DEF d
<1>4. (n..(n - 1)) \ {} = {}
  OBVIOUS
<1>5. Missing(d) = 0
  BY <1>1, <1>2, <1>3, <1>4, FS_EmptySet DEF Missing
<1>6. Ledger(d)
  BY <1>1, <1>2, <1>3, <1>5 DEF Ledger
<1>7. QED BY <1>1, <1>2, <1>3, <1>6 DEF d

(* The books are about the numbers, and what was counted of them.           *)
LEMMA SameLedger ==
    ASSUME NEW c, NEW d, Ledger(c), d.seqno = c.seqno, d.first = c.first, d.stats.heard = c.stats.heard,
           d.stats.err_drop = c.stats.err_drop, d.stats.err_seq = c.stats.err_seq
    PROVE  Ledger(d)
BY DEF Ledger, Missing

(* The types of one end, field by field.                                    *)
LEMMA CfgFields ==
    ASSUME NEW c \in CfgType
    PROVE  /\ c.seqno \in Nat /\ c.test \in Nat /\ c.first \in Nat /\ c.stats \in StatsType
           /\ c.stats.rx_pkts \in Nat /\ c.stats.tx_pkts \in Nat
           /\ c.stats.err_drop \in Nat /\ c.stats.err_seq \in Nat
           /\ c.stats.heard \in SUBSET (1..MaxSeq) /\ c.stats.stale \in BOOLEAN
<1>1. c.seqno \in Nat /\ c.test \in Nat /\ c.first \in Nat /\ c.stats \in StatsType
  BY DEF CfgType
<1>2. QED BY <1>1 DEF StatsType

-----------------------------------------------------------------------------
(* This end when nothing changes but packets that leave the wires ...       *)
LEMMA MeKept ==
    ASSUME PathInv, OutKeys' \cup BackKeys' \subseteq OutKeys \cup BackKeys,
           UNCHANGED <<on, test, myBertSeqNo, counting, me>>
    PROVE  MeInv'
<1>1. me \in CfgType /\ me.stats.heard \in SUBSET (1..MaxSeq) /\ me.stats.tx_pkts \in Nat
  BY CfgFields DEF PathInv, Types
<1>2. Open \in SUBSET (1..MaxSeq) /\ Open' \in SUBSET Open
  BY <1>1 DEF Open
<1>3. Cardinality(Open') <= Cardinality(Open) /\ Cardinality(Open) \in Nat /\ Cardinality(Open') \in Nat
  BY <1>2, Countable
<1>4. ~me.stats.stale => Ledger(me)'
  BY DEF PathInv, MeInv, Ledger, Missing
<1>5. ~me.stats.stale => Cardinality(Open') <= me.stats.tx_pkts + (IF counting THEN 1 ELSE 0)
  BY <1>1, <1>3 DEF PathInv, MeInv
<1>6. QED BY <1>4, <1>5 DEF PathInv, MeInv

(* ... and the responder.                                                   *)
LEMMA PeerKept ==
    ASSUME PathInv, OutKeys' \subseteq OutKeys, UNCHANGED <<test, myBertSeqNo, peer>>
    PROVE  PeerInv'
BY DEF PathInv, PeerInv, Ledger, Missing

(* A key is a test and a number.                                            *)
LEMMA KeyTypes ==
    ASSUME NEW o, Lanes(o)
    PROVE  /\ AllKeys(o) \subseteq (1..MaxTests) \X (1..MaxSeq)
           /\ \A k \in AllKeys(o) : k[1] \in 1..MaxTests /\ k[2] \in 1..MaxSeq /\ k = <<k[1], k[2]>>
<1>1. ASSUME NEW k \in AllKeys(o) PROVE k \in (1..MaxTests) \X (1..MaxSeq)
  <2>1. PICK p \in Port : k \in Keys(o[p])
    BY DEF AllKeys
  <2>2. PICK i \in DOMAIN o[p] : k = Key(o[p][i])
    BY <2>1 DEF Keys
  <2>3. o[p] \in Seq(Packet) /\ o[p][i] \in Packet
    BY <2>2, LenProperties, ElementOfSeq DEF Lanes
  <2>4. QED BY <2>2, <2>3 DEF Packet, Key
<1>2. QED BY <1>1

(* The same for all packets under way, whose numbers are compared.          *)
LEMMA NumbersOf ==
    ASSUME PathInv, NEW k \in OutKeys \cup BackKeys
    PROVE  /\ k[1] \in 1..MaxTests /\ k[2] \in 1..MaxSeq /\ k = <<k[1], k[2]>>
           /\ k[1] <= test /\ (k[1] = test => k[2] <= myBertSeqNo)
           /\ test \in 0..MaxTests /\ myBertSeqNo \in 0..MaxSeq
BY KeyTypes DEF PathInv, Wires, OutKeys, BackKeys, Numbers, Types

LEMMA WiresKept ==
    ASSUME PathInv, UNCHANGED <<out, back>>
    PROVE  Wires' /\ OutKeys' = OutKeys /\ BackKeys' = BackKeys
BY DEF PathInv, Wires, OutKeys, BackKeys

LEMMA StepStart ==
    ASSUME PathInv, Start PROVE PathInv'
<1>1. /\ test \in Nat /\ test' = test + 1 /\ test' \in 0..MaxTests /\ myBertSeqNo' = 0 /\ 0 \in 0..MaxSeq
      /\ 0 \in Nat /\ test + 1 \in Nat /\ on' = TRUE /\ counting = FALSE
  BY PathAssumption DEF Start, PathInv, Types, MeInv
<1>2. me' = Fresh(test + 1, 0)
  BY DEF Start, Started
<1>3. /\ me' \in CfgType /\ me'.test = test + 1 /\ me'.first = 0 /\ me'.stats.heard = {} /\ me'.stats.rx_pkts = 0
      /\ me'.stats.tx_pkts = 0 /\ Ledger(me')
  BY <1>1, <1>2, FreshFields
<1>4. Wires' /\ OutKeys' = OutKeys /\ BackKeys' = BackKeys /\ UNCHANGED <<peer, counting>>
  BY WiresKept DEF Start
<1>5. Types'
  <2>1. counting' \in BOOLEAN /\ peer' \in CfgType
    BY <1>4 DEF PathInv, Types
  <2>2. QED BY <2>1, <1>1, <1>3 DEF Types
<1>6. \A k \in OutKeys \cup BackKeys : k[1] \in Int /\ k[1] <= test
  BY NumbersOf
<1>7. Numbers'
  BY <1>1, <1>4, <1>6 DEF PathInv, Numbers
<1>8. Open' = {}
  <2>1. \A n \in 1..MaxSeq : <<test + 1, n>> \notin OutKeys \cup BackKeys
    BY <1>1, <1>6
  <2>2. QED BY <2>1, <1>1, <1>3, <1>4 DEF Open
<1>9. MeInv'
  <2>1. Cardinality(Open') = 0 /\ Cardinality(me'.stats.heard) = 0
    BY <1>3, <1>8, FS_EmptySet
  <2>2. me'.first <= RESETS + 1
    BY <1>3, PathAssumption
  <2>3. QED BY <2>1, <2>2, <1>1, <1>3, <1>4 DEF MeInv
<1>10. PeerInv'
  <2>1. peer.test \in Nat /\ peer.test <= test
    BY CfgFields DEF PathInv, Types, PeerInv
  <2>2. QED BY <2>1, <1>1, <1>4 DEF PathInv, PeerInv
<1>11. QED BY <1>4, <1>5, <1>7, <1>9, <1>10 DEF PathInv

LEMMA StepStop ==
    ASSUME PathInv, Stop PROVE PathInv'
<1>1. UNCHANGED <<test, myBertSeqNo, counting, peer, out, back>> /\ on' = FALSE /\ counting = FALSE
  BY DEF Stop, PathInv, Types
<1>2. /\ me' \in CfgType /\ me'.seqno = me.seqno /\ me'.first = me.first /\ me'.stats = me.stats
  BY DEF Stop, PathInv, Types, CfgType
<1>3. Wires' /\ OutKeys' = OutKeys /\ BackKeys' = BackKeys
  BY <1>1, WiresKept
<1>4. Types' /\ Numbers'
  BY <1>1, <1>2, <1>3 DEF PathInv, Types, Numbers
<1>5. PeerInv'
  BY <1>1, <1>3, PeerKept
<1>6. MeInv'
  <2>1. Open' = Open
    BY <1>1, <1>2, <1>3 DEF Open
  <2>2. Ledger(me) => Ledger(me')
    BY <1>2, SameLedger
  <2>3. QED BY <2>1, <2>2, <1>1, <1>2, <1>3 DEF PathInv, MeInv
<1>7. QED BY <1>3, <1>4, <1>5, <1>6 DEF PathInv

LEMMA StepCountSent ==
    ASSUME PathInv, CountSent PROVE PathInv'
<1>1. UNCHANGED <<on, test, myBertSeqNo, peer, out, back>> /\ counting = TRUE /\ counting' = FALSE
  BY DEF CountSent, PathInv, Types
<1>2. me \in CfgType /\ me' = [me EXCEPT !.stats.tx_pkts = @ + 1]
  BY DEF CountSent, PathInv, Types
<1>3. /\ me' \in CfgType /\ me'.seqno = me.seqno /\ me'.test = me.test /\ me'.first = me.first
      /\ me'.stats.rx_pkts = me.stats.rx_pkts /\ me'.stats.tx_pkts = me.stats.tx_pkts + 1
      /\ me'.stats.err_drop = me.stats.err_drop /\ me'.stats.err_seq = me.stats.err_seq
      /\ me'.stats.heard = me.stats.heard /\ (me'.stats.stale <=> me.stats.stale)
  BY <1>2, SentFields
<1>4. Wires' /\ OutKeys' = OutKeys /\ BackKeys' = BackKeys
  BY <1>1, WiresKept
<1>5. Types' /\ Numbers'
  BY <1>1, <1>3, <1>4 DEF PathInv, Types, Numbers
<1>6. PeerInv'
  BY <1>1, <1>4, PeerKept
<1>7. MeInv'
  <2>1. Open' = Open
    BY <1>1, <1>3, <1>4 DEF Open
  <2>2. Ledger(me) => Ledger(me')
    BY <1>3, SameLedger
  <2>3. me.stats.tx_pkts \in Nat
    BY <1>2, CfgFields
  <2>4. ~me.stats.stale => Cardinality(Open') <= me'.stats.tx_pkts + 0
    BY <2>1, <2>3, <1>1, <1>3 DEF PathInv, MeInv
  <2>5. QED BY <2>2, <2>4, <1>1, <1>3, <1>4 DEF PathInv, MeInv
<1>8. QED BY <1>4, <1>5, <1>6, <1>7 DEF PathInv

LEMMA StepReset ==
    ASSUME PathInv, NEW p \in Port, Reset(p) PROVE PathInv'
<1> DEFINE pkt == Head(out[p])
           k == Key(pkt)
<1>1. /\ UNCHANGED <<on, test, myBertSeqNo, counting, me, back>> /\ out[p] # <<>> /\ pkt.type = "RESET"
      /\ out' = [out EXCEPT ![p] = Tail(@)]
      /\ peer' = IF ~pkt.garbled THEN Fresh(pkt.test, pkt.seqno + 1) ELSE peer
  BY DEF Reset
<1>2. /\ Lanes(out') /\ pkt \in Packet /\ k \in OutKeys /\ OutKeys' = OutKeys \ {k} /\ Typed(out')
      /\ pkt.type = TypeOf(pkt.seqno)
  BY <1>1, LaneTake DEF PathInv, Wires, OutKeys
<1>3. BackKeys' = BackKeys
  BY <1>1 DEF BackKeys
<1>4. Wires'
  BY <1>1, <1>2, <1>3 DEF PathInv, Wires
<1>5. Numbers'
  BY <1>1, <1>2, <1>3 DEF PathInv, Numbers
<1>6. MeInv'
  BY <1>1, <1>2, <1>3, MeKept
<1>7. /\ pkt.seqno \in Nat /\ pkt.test \in Nat /\ pkt.seqno <= RESETS /\ pkt.test <= test
  <2>1. pkt.seqno \in Nat /\ pkt.test \in Nat /\ k = <<pkt.test, pkt.seqno>>
    BY <1>2, PathAssumption DEF Packet, Key
  <2>2. k[1] <= test
    BY <1>2, NumbersOf
  <2>3. pkt.seqno <= RESETS
    BY <1>1, <1>2 DEF TypeOf
  <2>4. QED BY <2>1, <2>2, <2>3
<1>8. peer' \in CfgType /\ PeerInv'
  <2>1. CASE ~pkt.garbled
    <3> HIDE DEF pkt
    <3> DEFINE m == pkt.seqno + 1
    <3>1. m \in Nat /\ m <= RESETS + 1
      BY <1>7, PathAssumption
    <3> HIDE DEF m
    <3>2. peer' = Fresh(pkt.test, m)
      BY <2>1, <1>1 DEF m
    <3>3. peer' \in CfgType /\ peer'.test = pkt.test /\ peer'.first = m /\ peer'.stats.heard = {} /\ Ledger(peer')
      BY <3>1, <3>2, <1>7, FreshFields
    <3>4. QED BY <3>1, <3>3, <1>1, <1>7 DEF PeerInv
  <2>2. CASE pkt.garbled
    BY <2>2, <1>1, <1>2, PeerKept DEF PathInv, Types
  <2>3. QED BY <2>1, <2>2
<1>9. Types'
  BY <1>1, <1>8 DEF PathInv, Types
<1>10. QED BY <1>4, <1>5, <1>6, <1>8, <1>9 DEF PathInv

LEMMA StepFault ==
    ASSUME PathInv, NEW p \in Port, Fault(p) PROVE PathInv'
<1>1. UNCHANGED <<on, test, myBertSeqNo, counting, me, peer>>
  BY DEF Fault
<1>2. /\ Lanes(out') /\ Lanes(back') /\ Typed(out')
      /\ OutKeys' \subseteq OutKeys /\ BackKeys' \subseteq BackKeys
  <2>1. CASE out[p] # <<>> /\ (\E q \in Faults(out[p]) : out' = [out EXCEPT ![p] = q]) /\ back' = back
    <3>1. PICK q \in Faults(out[p]) : out' = [out EXCEPT ![p] = q]
      BY <2>1
    <3>2. Lanes(out) /\ Typed(out) /\ Lanes(back)
      BY DEF PathInv, Wires
    <3>3. Lanes(out') /\ AllKeys(out') \subseteq AllKeys(out) /\ Typed(out')
      BY <3>1, <3>2, <2>1, LaneFault
    <3>4. QED BY <3>2, <3>3, <2>1 DEF OutKeys, BackKeys
  <2>2. CASE back[p] # <<>> /\ (\E q \in Faults(back[p]) : back' = [back EXCEPT ![p] = q]) /\ out' = out
    <3>1. PICK q \in Faults(back[p]) : back' = [back EXCEPT ![p] = q]
      BY <2>2
    <3>2. Lanes(out) /\ Typed(out) /\ Lanes(back)
      BY DEF PathInv, Wires
    <3>3. Lanes(back') /\ AllKeys(back') \subseteq AllKeys(back)
      BY <3>1, <3>2, <2>2, LaneFault
    <3>4. QED BY <3>2, <3>3, <2>2 DEF OutKeys, BackKeys
  <2>3. QED BY <2>1, <2>2 DEF Fault
<1>3. Wires'
  BY <1>2 DEF PathInv, Wires
<1>4. Numbers'
  BY <1>1, <1>2 DEF PathInv, Numbers
<1>5. MeInv' /\ PeerInv'
  BY <1>1, <1>2, MeKept, PeerKept
<1>6. Types'
  BY <1>1 DEF PathInv, Types
<1>7. QED BY <1>3, <1>4, <1>5, <1>6 DEF PathInv

LEMMA StepResponse ==
    ASSUME PathInv, NEW p \in Port, Response(p) PROVE PathInv'
<1> DEFINE pkt == Head(back[p])
           k == Key(pkt)
<1>1. /\ UNCHANGED <<on, test, myBertSeqNo, counting, peer, out>> /\ back[p] # <<>>
      /\ back' = [back EXCEPT ![p] = Tail(@)]
      /\ me' = IF on THEN Counted(me, pkt) ELSE me
  BY DEF Response
<1>2. Lanes(back') /\ pkt \in Packet /\ k \in BackKeys /\ BackKeys' = BackKeys \ {k}
  BY <1>1, LaneTake DEF PathInv, Wires, BackKeys
<1>3. OutKeys' = OutKeys
  BY <1>1 DEF OutKeys
<1>4. Wires' /\ k \notin OutKeys
  BY <1>1, <1>2, <1>3 DEF PathInv, Wires
<1>5. Numbers'
  BY <1>1, <1>2, <1>3 DEF PathInv, Numbers
<1>6. PeerInv'
  BY <1>1, <1>3, PeerKept
<1>7. me' \in CfgType /\ MeInv'
  <2>1. CASE ~on
    BY <2>1, <1>1, <1>2, <1>3, MeKept DEF PathInv, Types
  <2>2. CASE on
    <3> DEFINE n == pkt.seqno
               d == Counted(me, pkt)
    <3>1. me \in CfgType /\ me' = d /\ me.test = test
      BY <2>2, <1>1 DEF PathInv, Types, MeInv
    <3>2. /\ d \in CfgType /\ d.test = me.test /\ d.first = me.first
          /\ d.stats.rx_pkts = me.stats.rx_pkts + 1 /\ d.stats.tx_pkts = me.stats.tx_pkts
          /\ d.stats.heard = me.stats.heard \cup {n}
          /\ (d.stats.stale <=> (me.stats.stale \/ pkt.test # me.test))
      BY <3>1, <1>2, CountedFields
    <3>3. ASSUME ~d.stats.stale
          PROVE  /\ Ledger(d) /\ d.stats.rx_pkts = Cardinality(d.stats.heard)
                 /\ \A m \in d.stats.heard : m > RESETS /\ m <= myBertSeqNo /\ <<test, m>> \notin OutKeys' \cup BackKeys'
                 /\ Cardinality(Open') <= d.stats.tx_pkts + (IF counting THEN 1 ELSE 0)
      <4>1. ~me.stats.stale /\ pkt.test = test /\ k = <<test, n>> /\ n \in 1..MaxSeq
        BY <3>1, <3>2, <3>3, <1>2 DEF Key, Packet
      <4>2. n > RESETS /\ n <= myBertSeqNo
        <5>1. k[1] = test /\ k[2] = n
          BY <4>1
        <5>2. QED BY <5>1, <1>2 DEF PathInv, Numbers
      <4>3. n \notin me.stats.heard /\ me.first <= n /\ Ledger(me) /\ me.stats.rx_pkts = Cardinality(me.stats.heard)
        <5>1. n \notin me.stats.heard
          BY <4>1, <1>2 DEF PathInv, MeInv
        <5>2. me.first <= RESETS + 1 /\ me.first \in Nat
          BY <3>1, CfgFields DEF PathInv, MeInv
        <5>3. me.first <= n
          BY <5>2, <4>1, <4>2, PathAssumption
        <5>4. QED BY <4>1, <5>1, <5>3 DEF PathInv, MeInv
      <4>4. Ledger(d) /\ Cardinality(d.stats.heard) = Cardinality(me.stats.heard) + 1
        BY <4>3, <3>1, <1>2, CountedLedger
      <4> HIDE DEF d, n, k
      <4>5. ASSUME NEW m \in d.stats.heard
            PROVE  m > RESETS /\ m <= myBertSeqNo /\ <<test, m>> \notin OutKeys' \cup BackKeys'
        <5>1. CASE m = n
          BY <5>1, <4>1, <4>2, <1>2, <1>3, <1>4
        <5>2. CASE m \in me.stats.heard
          BY <5>2, <4>1, <1>2, <1>3 DEF PathInv, MeInv
        <5>3. QED BY <5>1, <5>2, <3>2
      <4>6. Cardinality(Open') <= d.stats.tx_pkts + (IF counting THEN 1 ELSE 0)
        <5>1. me.stats.heard \in SUBSET (1..MaxSeq) /\ me.stats.tx_pkts \in Nat
          BY <3>1, CfgFields
        <5>2. Open \in SUBSET (1..MaxSeq)
          BY <5>1 DEF Open
        <5>3. n \in Open
          BY <4>1, <4>2, <1>2 DEF Open
        <5>4. Open' \in SUBSET Open
          BY <5>3, <3>1, <3>2, <1>1, <1>2, <1>3 DEF Open
        <5>5. Cardinality(Open') <= Cardinality(Open) /\ Cardinality(Open) \in Nat /\ Cardinality(Open') \in Nat
          BY <5>2, <5>4, Countable
        <5>6. Cardinality(Open) <= me.stats.tx_pkts + (IF counting THEN 1 ELSE 0)
          BY <4>1 DEF PathInv, MeInv
        <5>7. QED BY <5>1, <5>5, <5>6, <3>2
      <4>7. QED BY <4>3, <4>4, <4>5, <4>6, <3>2
    <3> HIDE DEF d
    <3>4. (on' => test' > 0 /\ me'.test = test') /\ (~on' => ~counting') /\ me'.first <= RESETS + 1
      BY <3>1, <3>2, <1>1, <2>2 DEF PathInv, MeInv
    <3>5. QED BY <3>1, <3>2, <3>3, <3>4, <1>1 DEF MeInv
  <2>3. QED BY <2>1, <2>2
<1>8. Types'
  BY <1>1, <1>7 DEF PathInv, Types
<1>9. QED BY <1>4, <1>5, <1>6, <1>7, <1>8 DEF PathInv

LEMMA StepRequest ==
    ASSUME PathInv, NEW p \in Port, Request(p) PROVE PathInv'
<1> DEFINE pkt == Head(out[p])
           ans == [pkt EXCEPT !.type = "RESPONSE"]
           k == Key(pkt)
           d == Counted(peer, pkt)
<1>1. /\ UNCHANGED <<on, test, myBertSeqNo, counting, me>> /\ out[p] # <<>> /\ pkt.type = "REQUEST"
      /\ out' = [out EXCEPT ![p] = Tail(@)]
      /\ peer' = [d EXCEPT !.stats.tx_pkts = @ + 1]
      /\ back' = [back EXCEPT ![p] = Append(@, ans)]
  BY DEF Request, Answer
<1>2. /\ Lanes(out') /\ pkt \in Packet /\ k \in OutKeys /\ OutKeys' = OutKeys \ {k} /\ Typed(out')
      /\ pkt.type = TypeOf(pkt.seqno)
  BY <1>1, LaneTake DEF PathInv, Wires, OutKeys
<1>3. k \notin BackKeys /\ ans \in Packet /\ Key(ans) = k
  <2>1. ans \in Packet /\ ans.test = pkt.test /\ ans.seqno = pkt.seqno
    BY <1>2 DEF Packet, Type
  <2>2. QED BY <2>1, <1>2 DEF PathInv, Wires, Key
<1>4. Lanes(back') /\ BackKeys' = BackKeys \cup {k}
  <2> HIDE DEF ans, k
  <2>1. Lanes(back) /\ Key(ans) \notin AllKeys(back)
    BY <1>3 DEF PathInv, Wires, BackKeys
  <2>2. Lanes(back') /\ AllKeys(back') = AllKeys(back) \cup {Key(ans)}
    BY <2>1, <1>1, <1>3, LaneAdd
  <2>3. QED BY <2>2, <1>3 DEF BackKeys
<1>5. Wires'
  BY <1>2, <1>3, <1>4 DEF PathInv, Wires
<1>6. /\ pkt.seqno \in 1..MaxSeq /\ pkt.test \in Nat /\ k = <<pkt.test, pkt.seqno>> /\ pkt.seqno > RESETS
  <2>1. pkt.seqno \in 1..MaxSeq /\ pkt.test \in Nat /\ k = <<pkt.test, pkt.seqno>>
    BY <1>2, PathAssumption DEF Packet, Key
  <2>2. pkt.seqno > RESETS
    BY <2>1, <1>1, <1>2, PathAssumption DEF TypeOf
  <2>3. QED BY <2>1, <2>2
<1>7. Numbers'
  <2>1. k[2] > RESETS
    BY <1>6
  <2> HIDE DEF k
  <2>2. QED BY <2>1, <1>1, <1>2, <1>4 DEF PathInv, Numbers
<1>8. MeInv'
  BY <1>1, <1>2, <1>4, MeKept
<1>9. peer' \in CfgType /\ PeerInv'
  <2> DEFINE n == pkt.seqno
  <2>1. peer \in CfgType
    BY DEF PathInv, Types
  <2>2. /\ d \in CfgType /\ d.test = peer.test /\ d.first = peer.first
        /\ d.stats.heard = peer.stats.heard \cup {n}
        /\ (d.stats.stale <=> (peer.stats.stale \/ pkt.test # peer.test))
    BY <2>1, <1>2, CountedFields
  <2> HIDE DEF d
  <2>3. /\ peer' \in CfgType /\ peer'.seqno = d.seqno /\ peer'.test = d.test /\ peer'.first = d.first
        /\ peer'.stats.err_drop = d.stats.err_drop /\ peer'.stats.err_seq = d.stats.err_seq
        /\ peer'.stats.heard = d.stats.heard /\ (peer'.stats.stale <=> d.stats.stale)
    BY <2>2, <1>1, SentFields
  <2>4. ASSUME ~peer'.stats.stale
        PROVE  /\ Ledger(peer')
               /\ \A m \in peer'.stats.heard : /\ <<peer'.test, m>> \notin OutKeys'
                                               /\ peer'.test = test => m <= myBertSeqNo
    <3>1. ~peer.stats.stale /\ k = <<peer.test, n>>
      BY <2>2, <2>3, <2>4, <1>6
    <3>2. peer.test = test => n <= myBertSeqNo
      <4>1. k[1] = peer.test /\ k[2] = n
        BY <3>1
      <4>2. QED BY <4>1, <1>2 DEF PathInv, Numbers
    <3>3. n \notin peer.stats.heard /\ peer.first <= n /\ Ledger(peer)
      <4>1. n \notin peer.stats.heard /\ Ledger(peer)
        BY <3>1, <1>2 DEF PathInv, PeerInv
      <4>2. peer.first \in Nat /\ peer.first <= RESETS + 1
        BY <2>1, CfgFields DEF PathInv, PeerInv
      <4>3. QED BY <4>1, <4>2, <1>6, PathAssumption
    <3>4. Ledger(d)
      BY <3>3, <2>1, <1>2, CountedLedger DEF d
    <3>5. Ledger(peer')
      BY <3>4, <2>3, SameLedger
    <3> HIDE DEF k, n
    <3>6. ASSUME NEW m \in peer'.stats.heard
          PROVE  <<peer'.test, m>> \notin OutKeys' /\ (peer'.test = test => m <= myBertSeqNo)
      <4>1. CASE m = n
        BY <4>1, <3>1, <3>2, <2>2, <2>3, <1>2
      <4>2. CASE m \in peer.stats.heard
        BY <4>2, <3>1, <2>2, <2>3, <1>2 DEF PathInv, PeerInv
      <4>3. QED BY <4>1, <4>2, <2>2, <2>3
    <3>7. QED BY <3>5, <3>6
  <2>5. peer'.test <= test' /\ peer'.first <= RESETS + 1
    BY <2>2, <2>3, <1>1 DEF PathInv, PeerInv
  <2>6. QED BY <2>3, <2>4, <2>5, <1>1 DEF PeerInv
<1>10. Types'
  BY <1>1, <1>9 DEF PathInv, Types
<1>11. QED BY <1>5, <1>7, <1>8, <1>9, <1>10 DEF PathInv

LEMMA StepSend ==
    ASSUME PathInv, NEW p \in Port, NEW sent \in BOOLEAN, Send(p, sent) PROVE PathInv'
<1> DEFINE n   == myBertSeqNo + 1
           pkt == [type |-> TypeOf(n), seqno |-> n, test |-> test, garbled |-> FALSE]
           k   == <<test, n>>
<1>1. /\ UNCHANGED <<on, test, peer, back>> /\ on = TRUE /\ counting = FALSE /\ n <= MaxSeq /\ myBertSeqNo' = n
      /\ me' = IF TypeOf(n) = "RESET" THEN [me EXCEPT !.seqno = n + 1, !.first = n + 1] ELSE me
      /\ out' = IF sent THEN [out EXCEPT ![p] = Append(@, pkt)] ELSE out
      /\ counting' = (sent /\ TypeOf(n) = "REQUEST")
  BY DEF Send, PathInv, Types
<1>2. myBertSeqNo \in Nat /\ n \in 1..MaxSeq /\ n \in Nat /\ test \in Nat /\ me \in CfgType
  BY <1>1, PathAssumption DEF PathInv, Types
<1>3. (TypeOf(n) = "RESET" <=> n <= RESETS) /\ (TypeOf(n) = "REQUEST" <=> n > RESETS) /\ TypeOf(n) \in Type
  BY <1>2, PathAssumption DEF TypeOf, Type
<1>4. k \notin OutKeys \cup BackKeys
  <2>1. k[1] = test /\ k[2] = n
    OBVIOUS
  <2>2. k \in OutKeys \cup BackKeys => n <= myBertSeqNo
    BY <2>1 DEF PathInv, Numbers
  <2>3. QED BY <2>2, <1>2
<1> HIDE DEF n
<1>5. /\ Lanes(out') /\ Typed(out') /\ OutKeys' = IF sent THEN OutKeys \cup {k} ELSE OutKeys
  <2>1. Lanes(out) /\ Typed(out)
    BY DEF PathInv, Wires
  <2>2. CASE sent
    <3>1. Key(pkt) = k /\ pkt.type = TypeOf(pkt.seqno)
      BY DEF Key
    <3>2. test \in 1..MaxTests => pkt \in Packet
      BY <1>2, <1>3 DEF Packet
    <3>3. test \in 1..MaxTests
      <4>1. test \in 0..MaxTests /\ test > 0
        BY <1>1 DEF PathInv, Types, MeInv
      <4>2. QED BY <4>1, PathAssumption
    <3> HIDE DEF pkt, k
    <3>4. Key(pkt) \notin AllKeys(out)
      BY <3>1, <1>4 DEF OutKeys
    <3>5. Lanes(out') /\ AllKeys(out') = AllKeys(out) \cup {Key(pkt)} /\ Typed(out')
      BY <3>1, <3>2, <3>3, <3>4, <2>1, <2>2, <1>1, LaneAdd
    <3>6. QED BY <3>1, <3>5, <2>2 DEF OutKeys
  <2>3. CASE ~sent
    BY <2>1, <2>3, <1>1 DEF OutKeys
  <2>4. QED BY <2>2, <2>3
<1>6. BackKeys' = BackKeys /\ Lanes(back')
  BY <1>1 DEF PathInv, Wires, BackKeys
<1>7. Wires'
  BY <1>4, <1>5, <1>6 DEF PathInv, Wires
<1>8. Numbers'
  <2>1. \A j \in OutKeys \cup BackKeys : j[1] <= test /\ (j[1] = test => j[2] <= n)
    <3>1. ASSUME NEW j \in OutKeys \cup BackKeys PROVE j[1] <= test /\ (j[1] = test => j[2] <= n)
      <4>1. j[2] \in 1..MaxSeq /\ j[1] <= test /\ (j[1] = test => j[2] <= myBertSeqNo)
        BY NumbersOf
      <4>2. QED BY <4>1, <1>2 DEF n
    <3>2. QED BY <3>1
  <2>2. k[1] <= test /\ k[2] <= n
    BY <1>2
  <2> HIDE DEF k
  <2>3. QED BY <2>1, <2>2, <1>1, <1>5, <1>6 DEF PathInv, Numbers
<1>9. PeerInv'
  <2>1. \A m \in peer.stats.heard : m \in Nat /\ (peer.test = test /\ ~peer.stats.stale => m <= myBertSeqNo)
    <3>1. peer.stats.heard \in SUBSET (1..MaxSeq)
      BY CfgFields DEF PathInv, Types
    <3>2. \A m \in peer.stats.heard : m \in Nat
      BY <3>1, PathAssumption
    <3>3. QED BY <3>2 DEF PathInv, PeerInv
  <2>2. \A m \in peer.stats.heard : ~peer.stats.stale /\ peer.test = test => m < n
    BY <2>1, <1>2 DEF n
  <2>3. ASSUME ~peer.stats.stale, NEW m \in peer.stats.heard
        PROVE  <<peer.test, m>> \notin OutKeys' /\ (peer.test = test => m <= n)
    <3>1. <<peer.test, m>> \notin OutKeys
      BY <2>3 DEF PathInv, PeerInv
    <3>2. peer.test = test => m # n /\ m <= n
      BY <2>1, <2>2, <2>3, <1>2
    <3>3. QED BY <3>1, <3>2, <1>5
  <2>4. QED BY <2>3, <1>1 DEF PathInv, PeerInv
<1>10. /\ me' \in CfgType /\ me'.test = me.test /\ me'.stats = me.stats /\ me'.first <= RESETS + 1
       /\ ~me.stats.stale => Ledger(me')
  <2>1. CASE TypeOf(n) = "RESET"
    <3> DEFINE m == n + 1
    <3>1. m \in Nat /\ m <= RESETS + 1
      BY <2>1, <1>2, <1>3, PathAssumption
    <3>2. me' = [me EXCEPT !.seqno = m, !.first = m]
      BY <2>1, <1>1
    <3> HIDE DEF m
    <3>3. me' \in CfgType /\ me'.test = me.test /\ me'.stats = me.stats /\ me'.first = m /\ me'.seqno = m
      BY <3>1, <3>2, <1>2 DEF CfgType
    <3>4. ASSUME ~me.stats.stale PROVE Ledger(me')
      <4>1. me.stats.heard = {}
        <5>1. \A x \in me.stats.heard : x \in Nat /\ x > RESETS /\ x <= myBertSeqNo
          <6>1. me.stats.heard \in SUBSET (1..MaxSeq)
            BY <1>2, CfgFields
          <6>2. \A x \in me.stats.heard : x \in Nat
            BY <6>1, PathAssumption
          <6>3. QED BY <6>2, <3>4 DEF PathInv, MeInv
        <5>2. myBertSeqNo < RESETS
          BY <2>1, <1>2, <1>3, PathAssumption DEF n
        <5>3. QED BY <5>1, <5>2, <1>2, PathAssumption
      <4>2. me.first = me.seqno /\ me.stats.err_drop - me.stats.err_seq = Missing(me) /\ me.first \in Nat
        BY <4>1, <3>4, <1>2, CfgFields DEF PathInv, MeInv, Ledger
      <4>3. (me.first..(me.seqno - 1)) \ me.stats.heard = {} /\ (m..(m - 1)) \ me.stats.heard = {}
        BY <4>2, <3>1
      <4>4. Missing(me) = 0 /\ Missing(me') = 0
        BY <4>3, <3>3, FS_EmptySet DEF Missing
      <4>5. QED BY <4>1, <4>2, <4>4, <3>3 DEF Ledger
    <3>5. QED BY <3>1, <3>3, <3>4
  <2>2. CASE TypeOf(n) # "RESET"
    BY <2>2, <1>1, <1>2 DEF PathInv, MeInv
  <2>3. QED BY <2>1, <2>2
<1>11. Types'
  BY <1>1, <1>2, <1>10 DEF PathInv, Types
<1>12. MeInv'
  <2>1. ASSUME ~me.stats.stale, NEW m \in me.stats.heard
        PROVE  m > RESETS /\ m <= n /\ <<test, m>> \notin OutKeys' \cup BackKeys'
    <3>1. me.stats.heard \in SUBSET (1..MaxSeq)
      BY <1>2, CfgFields
    <3>2. m \in Nat /\ m > RESETS /\ m <= myBertSeqNo /\ <<test, m>> \notin OutKeys \cup BackKeys
      BY <3>1, <2>1, PathAssumption DEF PathInv, MeInv
    <3>3. m <= n /\ m # n
      BY <3>2, <1>2 DEF n
    <3>4. QED BY <3>2, <3>3, <1>5, <1>6
  <2>2. me.stats.heard \in SUBSET (1..MaxSeq) /\ me.stats.tx_pkts \in Nat
    BY <1>2, CfgFields
  <2>3. Open \in SUBSET (1..MaxSeq) /\ Open \in SUBSET Open
    BY <2>2 DEF Open
  <2>4. Cardinality(Open) \in Nat
    BY <2>3, Countable
  <2>5. ASSUME ~me.stats.stale PROVE Cardinality(Open') <= me.stats.tx_pkts + (IF counting' THEN 1 ELSE 0)
    <3>1. Cardinality(Open) <= me.stats.tx_pkts
      BY <2>2, <2>4, <2>5, <1>1 DEF PathInv, MeInv
    <3>2. CASE counting'
      <4>1. Open' \in SUBSET (Open \cup {n})
        BY <1>1, <1>5, <1>6, <1>10 DEF Open
      <4>2. Open \cup {n} \in SUBSET (1..MaxSeq)
        BY <2>3, <1>2
      <4>3. Cardinality(Open') <= Cardinality(Open \cup {n}) /\ Cardinality(Open') \in Nat
        BY <4>1, <4>2, Countable
      <4>4. IsFiniteSet(1..MaxSeq)
        <5>1. 1 \in Int /\ MaxSeq \in Int
          BY PathAssumption
        <5>2. QED BY <5>1, FS_Interval
      <4>5. IsFiniteSet(Open)
        BY <4>4, <2>3, FS_Subset
      <4>6. Cardinality(Open \cup {n}) = IF n \in Open THEN Cardinality(Open) ELSE Cardinality(Open) + 1
        BY <4>5, FS_AddElement
      <4>7. QED BY <4>3, <4>6, <3>1, <3>2, <2>2, <2>4
    <3>3. CASE ~counting'
      <4>1. ~sent \/ n <= RESETS
        <5>1. ~(sent /\ TypeOf(n) = "REQUEST")
          BY <3>3, <1>1
        <5>2. QED BY <5>1, <1>2, <1>3, PathAssumption
      <4>2. Open' = Open
        BY <4>1, <1>1, <1>2, <1>5, <1>6, <1>10, PathAssumption DEF Open
      <4>3. QED BY <4>2, <3>1, <3>3, <2>2
    <3>4. QED BY <3>2, <3>3
  <2>6. (on' => test' > 0 /\ me'.test = test') /\ (~on' => ~counting')
    BY <1>1, <1>10 DEF PathInv, MeInv
  <2>7. QED BY <2>1, <2>5, <2>6, <1>1, <1>10 DEF PathInv, MeInv
<1>13. QED BY <1>7, <1>8, <1>9, <1>11, <1>12 DEF PathInv

-----------------------------------------------------------------------------
LEMMA PathInitial ==
    PathInit => PathInv
<1> SUFFICES ASSUME PathInit PROVE PathInv
  OBVIOUS
<1>1. /\ on = FALSE /\ test = 0 /\ myBertSeqNo = 0 /\ counting = FALSE
      /\ me = Fresh(0, 0) /\ peer = Fresh(0, 0)
      /\ out = [p \in Port |-> <<>>] /\ back = [p \in Port |-> <<>>]
  BY DEF PathInit
<1>2. 0 \in Nat /\ 0 \in 0..MaxTests /\ 0 \in 0..MaxSeq /\ 0 <= RESETS + 1
  BY PathAssumption
<1>3. /\ me \in CfgType /\ me.first = 0 /\ me.stats.rx_pkts = 0 /\ me.stats.tx_pkts = 0
      /\ me.stats.heard = {} /\ Ledger(me)
  BY <1>1, <1>2, FreshFields
<1>4. peer \in CfgType /\ peer.test = 0 /\ peer.first = 0 /\ peer.stats.heard = {} /\ Ledger(peer)
  BY <1>1, <1>2, FreshFields
<1>5. <<>> \in Seq(Packet) /\ Once(<<>>) /\ Keys(<<>>) = {}
  BY EmptySeq DEF Once, Keys
<1>6. Lanes(out) /\ Lanes(back) /\ Typed(out) /\ OutKeys = {} /\ BackKeys = {}
  BY <1>1, <1>5 DEF Lanes, Typed, OutKeys, BackKeys, AllKeys
<1>7. Open = {} /\ Cardinality(Open) = 0 /\ Cardinality(me.stats.heard) = 0
  BY <1>3, <1>6, FS_EmptySet DEF Open
<1>8. Types
  BY <1>1, <1>2, <1>3, <1>4 DEF Types
<1>9. Wires /\ Numbers
  BY <1>6 DEF Wires, Numbers
<1>10. MeInv
  BY <1>1, <1>2, <1>3, <1>7 DEF MeInv
<1>11. PeerInv
  BY <1>1, <1>2, <1>4 DEF PeerInv
<1>12. QED BY <1>8, <1>9, <1>10, <1>11 DEF PathInv

LEMMA PathStep ==
    PathInv /\ [PathNext]_path_vars => PathInv'
<1> SUFFICES ASSUME PathInv, [PathNext]_path_vars PROVE PathInv'
  OBVIOUS
<1>1. CASE Start
  BY <1>1, StepStart
<1>2. CASE Stop
  BY <1>2, StepStop
<1>3. CASE CountSent
  BY <1>3, StepCountSent
<1>4. ASSUME NEW p \in Port, NEW sent \in BOOLEAN, Send(p, sent) PROVE PathInv'
  BY <1>4, StepSend
<1>5. ASSUME NEW p \in Port, Reset(p) PROVE PathInv'
  BY <1>5, StepReset
<1>6. ASSUME NEW p \in Port, Request(p) PROVE PathInv'
  BY <1>6, StepRequest
<1>7. ASSUME NEW p \in Port, Response(p) PROVE PathInv'
  BY <1>7, StepResponse
<1>8. ASSUME NEW p \in Port, Fault(p) PROVE PathInv'
  BY <1>8, StepFault
<1>9. CASE UNCHANGED path_vars
  <2>1. UNCHANGED <<on, test, myBertSeqNo, counting, me, peer, out, back>>
    BY <1>9 DEF path_vars
  <2>2. Wires' /\ OutKeys' = OutKeys /\ BackKeys' = BackKeys
    BY <2>1, WiresKept
  <2>3. MeInv' /\ PeerInv'
    BY <2>1, <2>2, MeKept, PeerKept
  <2>4. Types' /\ Numbers'
    BY <2>1, <2>2 DEF PathInv, Types, Numbers
  <2>5. QED BY <2>2, <2>3, <2>4 DEF PathInv
<1>10. QED BY <1>1, <1>2, <1>3, <1>4, <1>5, <1>6, <1>7, <1>8, <1>9 DEF PathNext

(* Whatever is lost, garbled or overtaken, no packet of a test is under way *)
(* twice and both ends' books are about the packets they counted.           *)
THEOREM PathInvariant == PathSpec => []PathInv
BY PathInitial, PathStep, PTL DEF PathSpec

(* stats.err_drop less stats.err_seq of wfs_process_bert() is the number of *)
(* packets missing, at either end, for tests of any length.                 *)
THEOREM LossIsRealAlways == PathSpec => []LossIsReal
<1>1. PathInv => LossIsReal
  BY DEF PathInv, MeInv, PeerInv, Ledger, LossIsReal
<1>2. QED BY <1>1, PathInvariant, PTL

(* wfs_process_bert() never counts more responses than ixgbe_wfs_send_bert() *)
(* has sent requests.                                                       *)
THEOREM AnswersAreAskedAlways == PathSpec => []AnswersAreAsked
<1>1. PathInv => AnswersAreAsked
  <2> SUFFICES ASSUME PathInv, ~me.stats.stale
               PROVE  me.stats.rx_pkts <= me.stats.tx_pkts + (IF counting THEN 1 ELSE 0)
    BY DEF AnswersAreAsked
  <2>1. me.stats.heard \in SUBSET (1..MaxSeq) /\ me.stats.tx_pkts \in Nat
    BY CfgFields DEF PathInv, Types
  <2>2. Open \in SUBSET (1..MaxSeq) /\ me.stats.heard \in SUBSET Open
    BY <2>1 DEF Open
  <2>3. /\ Cardinality(me.stats.heard) <= Cardinality(Open)
        /\ Cardinality(Open) \in Nat /\ Cardinality(me.stats.heard) \in Nat
    BY <2>2, Countable
  <2>4. /\ me.stats.rx_pkts = Cardinality(me.stats.heard)
        /\ Cardinality(Open) <= me.stats.tx_pkts + (IF counting THEN 1 ELSE 0)
    BY DEF PathInv, MeInv
  <2>5. QED BY <2>1, <2>3, <2>4
<1>2. QED BY <1>1, PathInvariant, PTL
=============================================================================
