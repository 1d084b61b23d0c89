--------------------------- MODULE WfsRingProofs ---------------------------
(***************************************************************************)
(* Packets on a ring of any number of workstations, with any cables cut    *)
(* and mended, any frames lost and any number of packets under way.        *)
(*                                                                         *)
(* Nothing but its sender stops a packet for all, so the argument is about *)
(* how far a packet has come (Far): a packet is alone on its way round     *)
(* (Single), whoever had it lies behind it (Delivered), and the alerts it  *)
(* may still raise are the stations it has left to visit (Budget).         *)
(***************************************************************************)
EXTENDS WfsRing, FiniteSetTheorems, SequenceTheorems, TLAPS

(* Stations from s to t going w; a packet that is back has come N.          *)
Far(s, w, t) ==
    LET d == IF w = "cw" THEN t - s ELSE s - t
    IN  IF d > 0 THEN d ELSE d + N

(* A packet is what was sent, but for alerts that an alert has raised.      *)
Original ==
    /\ \A p \in wire :
         /\ p.id <= Len(sent) /\ p.kind = sent[p.id].kind /\ p.dest = sent[p.id].dest
         /\ ~p.dnf => p.src = sent[p.id].src
         /\ p.kind = "data" => ~p.dnf
    /\ \A i \in 1..Len(sent) : sent[i].kind # "data" => sent[i].dest = All

(* It is in one place only on each way, and takes one way only if it is not *)
(* for all.                                                                 *)
Single ==
    \A p, q \in wire :
        p.id = q.id /\ ~p.dnf /\ ~q.dnf /\ (p.way = q.way \/ p.dest # All) => p = q

(* Who has got it: stations it has passed, and the one it was for.          *)
DeliveredTo(i, s, w) ==
    /\ got[i][s][w] = 1 /\ sent[i].kind = "data" /\ s # sent[i].src /\ sent[i].dest \in {All, s}
    /\ sent[i].dest # All => got[i][s][Turn(w)] = 0
    /\ \A p \in wire : p.id = i => /\ sent[i].dest = All
                                   /\ p.way = w => Far(sent[i].src, w, s) < Far(sent[i].src, w, p.at)
Delivered ==
    \A i \in Id : IF i <= Len(sent)
                  THEN \A s \in Station, w \in Way : got[i][s][w] = 0 \/ DeliveredTo(i, s, w)
                  ELSE \A s \in Station, w \in Way : got[i][s][w] = 0

(* The alerts of one round: those raised, and for each way those the packet *)
(* may still raise.                                                         *)
BudgetOf(i, r) ==
    /\ launched[i] + r["cw"] + r["ccw"] <= 2 * N
    /\ \A p \in wire : p.id = i /\ ~p.dnf => N - Far(p.src, p.way, p.at) <= r[p.way]
Budget == \A i \in Id : IF i <= Len(sent) THEN \E r \in [Way -> 0..N] : BudgetOf(i, r)
                                          ELSE launched[i] = 0

(* The variables that the packets depend on.                                *)
Types ==
    /\ wire \subseteq Packet
    /\ sent \in Seq([kind : Kind, src : Station, dest : Station \cup {All}])
    /\ got \in [Id -> [Station -> [Way -> 0..MaxGot]]]
    /\ launched \in [Id -> 0..MaxLaunched]
    /\ alert \in [Station -> {"none", "SF", "NR"}]

RingInv == Types /\ Original /\ Single /\ Delivered /\ Budget

-----------------------------------------------------------------------------
(* Distances on the ring.                                                   *)
LEMMA WalkOne ==
    ASSUME NEW s \in Station, NEW w \in Way
    PROVE  /\ Walk(s, w, 1) \in Station
           /\ Walk(s, w, 1) = IF w = "cw" THEN (IF s + 1 = N THEN 0 ELSE s + 1)
                                          ELSE (IF s = 0 THEN N - 1 ELSE s - 1)
<1>1. N \in Nat /\ N >= 2 /\ s \in 0..(N - 1)
  BY RingAssumption DEF Station
<1>2. (s + 1) % N = IF s + 1 = N THEN 0 ELSE s + 1
  BY <1>1
<1>3. (s + N - 1) % N = IF s = 0 THEN N - 1 ELSE s - 1
  BY <1>1
<1>4. Walk(s, w, 1) = IF w = "cw" THEN (IF s + 1 = N THEN 0 ELSE s + 1)
                                  ELSE (IF s = 0 THEN N - 1 ELSE s - 1)
  BY <1>2, <1>3 DEF Walk
<1>5. QED BY <1>1, <1>4 DEF Station

LEMMA FarRange ==
    ASSUME NEW s \in Station, NEW w \in Way, NEW t \in Station
    PROVE  Far(s, w, t) \in 1..N /\ (Far(s, w, t) = N <=> s = t)
BY RingAssumption DEF Far, Station

(* A packet that is not back comes one further with each station; it starts *)
(* with one.                                                                *)
LEMMA FarNext ==
    ASSUME NEW s \in Station, NEW w \in Way, NEW t \in Station, s # t
    PROVE  Far(s, w, Walk(t, w, 1)) = Far(s, w, t) + 1
BY RingAssumption, WalkOne DEF Far, Station

LEMMA FarFirst ==
    ASSUME NEW s \in Station, NEW w \in Way
    PROVE  Far(s, w, Walk(s, w, 1)) = 1
BY RingAssumption, WalkOne DEF Far, Station

(* What a frame carries, and where it goes.                                 *)
Carries(q, p, s, w) ==
    /\ q \in Packet /\ q.id = p.id /\ q.kind = p.kind /\ q.src = p.src /\ q.dest = p.dest
    /\ (q.dnf <=> p.dnf) /\ q.way = w /\ q.at = Walk(s, w, 1)

LEMMA FramesCarry ==
    ASSUME NEW p \in Packet, NEW s \in Station, NEW w \in Way, NEW q \in Frames(p, s, w)
    PROVE  Carries(q, p, s, w)
<1>1. q = [p EXCEPT !.way = w, !.at = Walk(s, w, 1)]
  BY DEF Frames
<1>2. Walk(s, w, 1) \in Station
  BY WalkOne
<1>3. QED BY <1>1, <1>2 DEF Carries, Packet

LEMMA SamePacket ==
    ASSUME NEW p \in Packet, NEW q \in Packet, p.id = q.id, p.kind = q.kind, p.src = q.src, p.dest = q.dest,
           p.dnf <=> q.dnf, p.way = q.way, p.at = q.at
    PROVE  p = q
<1>1. p.dnf = q.dnf
  BY DEF Packet
<1>2. QED BY <1>1 DEF Packet

LEMMA FramesOne ==
    ASSUME NEW p, NEW s, NEW w
    PROVE  IsFiniteSet(Frames(p, s, w)) /\ Cardinality(Frames(p, s, w)) \in 0..1
<1> DEFINE f == [p EXCEPT !.way = w, !.at = Walk(s, w, 1)]
<1>1. Frames(p, s, w) = {} \/ Frames(p, s, w) = {f}
  BY DEF Frames
<1> HIDE DEF f
<1>2. IsFiniteSet({f}) /\ Cardinality({f}) = 1
  BY FS_Singleton
<1>3. QED BY <1>1, <1>2, FS_EmptySet

-----------------------------------------------------------------------------
(* Packets only leave the wire: they are dropped, or cut off with a cable.  *)
LEMMA Leave ==
    ASSUME RingInv, wire' \subseteq wire, UNCHANGED <<sent, got, launched>>,
           alert' \in [Station -> {"none", "SF", "NR"}]
    PROVE  RingInv'
<1>1. Types'
  BY DEF RingInv, Types
<1>2. Original' /\ Single'
  BY DEF RingInv, Original, Single
<1>3. Delivered'
  <2> SUFFICES ASSUME NEW i \in Id, NEW s \in Station, NEW w \in Way
               PROVE  IF i <= Len(sent) THEN got[i][s][w] = 0 \/ DeliveredTo(i, s, w)'
                                        ELSE got[i][s][w] = 0
    BY DEF Delivered
  <2>1. IF i <= Len(sent) THEN got[i][s][w] = 0 \/ DeliveredTo(i, s, w) ELSE got[i][s][w] = 0
    BY DEF RingInv, Delivered
  <2>2. DeliveredTo(i, s, w) => DeliveredTo(i, s, w)'
    BY DEF DeliveredTo
  <2>3. QED BY <2>1, <2>2
<1>4. Budget'
  <2>1. ASSUME NEW i \in Id, NEW r \in [Way -> 0..N], BudgetOf(i, r) PROVE BudgetOf(i, r)'
    BY <2>1 DEF BudgetOf
  <2>2. QED BY <2>1 DEF RingInv, Budget
<1>5. QED BY <1>1, <1>2, <1>3, <1>4 DEF RingInv

(* A packet goes one station on, and an alert may raise others beside it.   *)
Raised(q, p) == q \in Packet /\ q.dnf /\ q.id = p.id /\ q.kind = p.kind /\ q.dest = p.dest /\ p.kind # "data"
Moves(p, X) ==
    /\ p \in wire /\ p.src # p.at
    /\ \A q \in X : Carries(q, p, p.at, p.way) \/ Raised(q, p)
    /\ wire' = (wire \ {p}) \cup X /\ sent' = sent

LEMMA MoveShape ==
    ASSUME RingInv, NEW p, NEW X, Moves(p, X)
    PROVE  wire' \subseteq Packet /\ Original' /\ Single'
<1>1. p \in Packet /\ wire \subseteq Packet /\ Original /\ Single
  BY DEF RingInv, Types, Moves
<1>2. wire' \subseteq Packet
  BY <1>1 DEF Moves, Carries, Raised
<1>3. Original'
  <2>1. ASSUME NEW q \in wire'
        PROVE  /\ q.id <= Len(sent) /\ q.kind = sent[q.id].kind /\ q.dest = sent[q.id].dest
               /\ ~q.dnf => q.src = sent[q.id].src
               /\ q.kind = "data" => ~q.dnf
    BY <1>1 DEF Moves, Carries, Raised, Original
  <2>2. QED BY <1>1, <2>1 DEF Original, Moves
<1>4. Single'
  <2> SUFFICES ASSUME NEW a \in wire', NEW b \in wire', a.id = b.id, ~a.dnf, ~b.dnf, a.way = b.way \/ a.dest # All
               PROVE  a = b
    BY DEF Single
  <2>1. CASE a \in wire /\ b \in wire
    BY <1>1, <2>1 DEF Single
  <2>2. ASSUME NEW x \in wire', NEW y \in wire', x \notin wire, y \in wire \ {p}, x.id = y.id, ~x.dnf, ~y.dnf,
               x.way = y.way \/ x.dest # All
        PROVE  FALSE
    <3>1. Carries(x, p, p.at, p.way)
      BY <2>2 DEF Moves, Raised
    <3>2. p.id = y.id /\ ~p.dnf /\ (p.way = y.way \/ p.dest # All)
      BY <2>2, <3>1 DEF Carries
    <3>3. p = y
      BY <1>1, <2>2, <3>2 DEF Single, Moves
    <3>4. QED BY <2>2, <3>3
  <2>3. ASSUME Carries(a, p, p.at, p.way), Carries(b, p, p.at, p.way) PROVE a = b
    BY <2>3, SamePacket DEF Carries
  <2>4. a.dest = b.dest
    BY <1>3 DEF Original
  <2>5. a \in (wire \ {p}) \/ Carries(a, p, p.at, p.way)
    BY DEF Moves, Raised
  <2>6. b \in (wire \ {p}) \/ Carries(b, p, p.at, p.way)
    BY DEF Moves, Raised
  <2>7. QED BY <2>1, <2>2, <2>3, <2>4, <2>5, <2>6
<1>5. QED BY <1>2, <1>3, <1>4

(* Whoever had the packet stays behind it.                                  *)
LEMMA MoveBehind ==
    ASSUME RingInv, NEW p, NEW X, Moves(p, X), NEW i \in Id, i <= Len(sent), NEW s \in Station, NEW w \in Way,
           DeliveredTo(i, s, w), got'[i][s] = got[i][s]
    PROVE  DeliveredTo(i, s, w)'
<1>1. p \in Packet /\ Original
  BY DEF RingInv, Types, Moves
<1>2. ASSUME NEW q \in wire', q.id = i
      PROVE  sent[i].dest = All /\ (q.way = w => Far(sent[i].src, w, s) < Far(sent[i].src, w, q.at))
  <2>1. CASE q \in wire
    BY <1>2, <2>1 DEF DeliveredTo
  <2>2. CASE q \notin wire
    <3>1. p.id = i /\ p.kind = "data"
      BY <1>1, <1>2, <2>2 DEF Moves, Carries, Raised, Original, DeliveredTo
    <3>2. Carries(q, p, p.at, p.way) /\ p.src = sent[i].src
      BY <1>1, <2>2, <3>1 DEF Moves, Raised, Original
    <3>3. Far(p.src, p.way, Walk(p.at, p.way, 1)) = Far(p.src, p.way, p.at) + 1
      BY <1>1, FarNext DEF Moves, Packet
    <3>4. Far(p.src, p.way, p.at) \in Int /\ Far(p.src, p.way, s) \in Int
      BY <1>1, FarRange, RingAssumption DEF Packet
    <3>5. sent[i].dest = All /\ (p.way = w => Far(sent[i].src, w, s) < Far(sent[i].src, w, p.at))
      BY <3>1 DEF DeliveredTo, Moves
    <3>6. QED BY <3>2, <3>3, <3>4, <3>5 DEF Carries
  <2>3. QED BY <2>1, <2>2
<1>3. QED BY <1>2 DEF DeliveredTo, Moves

(* A step on that delivers to nobody, and one that raises no alert.         *)
LEMMA MoveDelivered ==
    ASSUME RingInv, NEW p, NEW X, Moves(p, X), got' = got
    PROVE  Delivered'
<1> SUFFICES ASSUME NEW i \in Id, NEW s \in Station, NEW w \in Way
             PROVE  IF i <= Len(sent) THEN got[i][s][w] = 0 \/ DeliveredTo(i, s, w)'
                                      ELSE got[i][s][w] = 0
  BY DEF Delivered, Moves
<1>1. IF i <= Len(sent) THEN got[i][s][w] = 0 \/ DeliveredTo(i, s, w) ELSE got[i][s][w] = 0
  BY DEF RingInv, Delivered
<1>2. QED BY <1>1, MoveBehind

LEMMA MoveFar ==
    ASSUME RingInv, NEW p, NEW X, Moves(p, X), NEW q \in wire', q \notin wire, ~q.dnf
    PROVE  /\ q.id = p.id /\ ~p.dnf /\ q.way = p.way
           /\ N - Far(q.src, q.way, q.at) = N - Far(p.src, p.way, p.at) - 1
<1>1. p \in Packet /\ Carries(q, p, p.at, p.way)
  BY DEF RingInv, Types, Moves, Raised
<1>2. Far(p.src, p.way, Walk(p.at, p.way, 1)) = Far(p.src, p.way, p.at) + 1
  BY <1>1, FarNext DEF Moves, Packet
<1>3. Far(p.src, p.way, p.at) \in Int /\ N \in Int
  BY <1>1, FarRange, RingAssumption DEF Packet
<1>4. QED BY <1>1, <1>2, <1>3 DEF Carries

LEMMA MoveBudget ==
    ASSUME RingInv, NEW p, NEW X, Moves(p, X), launched' = launched
    PROVE  Budget'
<1>1. ASSUME NEW i \in Id, NEW r \in [Way -> 0..N], BudgetOf(i, r) PROVE BudgetOf(i, r)'
  <2>1. ASSUME NEW q \in wire', q.id = i, ~q.dnf PROVE N - Far(q.src, q.way, q.at) <= r[q.way]
    <3>1. CASE q \in wire
      BY <1>1, <2>1, <3>1 DEF BudgetOf
    <3>2. CASE q \notin wire
      <4>1. p \in Packet /\ p \in wire
        BY DEF RingInv, Types, Moves
      <4>2. N - Far(p.src, p.way, p.at) \in Int /\ r[p.way] \in Int
        BY <4>1, FarRange, RingAssumption DEF Packet
      <4>3. N - Far(p.src, p.way, p.at) <= r[p.way]
        BY <1>1, <2>1, <3>2, <4>1, MoveFar DEF BudgetOf
      <4>4. QED BY <2>1, <3>2, <4>2, <4>3, MoveFar
    <3>3. QED BY <3>1, <3>2
  <2>2. QED BY <1>1, <2>1 DEF BudgetOf
<1>2. QED BY <1>1 DEF RingInv, Budget, Moves

(* One delivery: nobody at this station had the packet from this way.       *)
LEMMA DeliverStep ==
    ASSUME RingInv, NEW p \in wire, Deliver(p)
    PROVE  RingInv'
<1>a. p \in Packet /\ Types /\ Original /\ Single
  BY DEF RingInv, Types
<1>b. /\ p.id \in Id /\ p.id <= Len(sent) /\ p.at \in Station /\ p.way \in Way /\ p.src \in Station
      /\ p.src # p.at /\ p.kind = "data" /\ ~p.dnf /\ p.src = sent[p.id].src /\ p.dest = sent[p.id].dest
      /\ p.kind = sent[p.id].kind /\ p.dest \in {All, p.at}
  BY <1>a DEF Packet, Original, Deliver, Looped
<1>1. PICK X \in SUBSET Forward(p) : wire' = (wire \ {p}) \cup X
  BY DEF Deliver, Replace
<1>2. Moves(p, X)
  <2>1. \A q \in X : Carries(q, p, p.at, p.way)
    BY <1>a, <1>b, FramesCarry DEF Forward
  <2>2. QED BY <1>b, <1>1, <2>1 DEF Moves, Deliver
<1>3. wire' \subseteq Packet /\ Original' /\ Single'
  BY <1>2, MoveShape
<1>4. Budget'
  BY <1>2, MoveBudget DEF Deliver
<1>5. got[p.id][p.at][p.way] = 0
  <2>1. got[p.id][p.at][p.way] = 0 \/ DeliveredTo(p.id, p.at, p.way)
    BY <1>b DEF RingInv, Delivered
  <2>2. Far(p.src, p.way, p.at) \in Int
    BY <1>b, FarRange, RingAssumption
  <2>3. ~DeliveredTo(p.id, p.at, p.way)
    BY <1>b, <2>2 DEF DeliveredTo
  <2>4. QED BY <2>1, <2>3
<1>6. got' = [got EXCEPT ![p.id][p.at][p.way] = 1]
  BY <1>5 DEF Deliver, Count, MaxGot
<1>7. Types'
  BY <1>a, <1>b, <1>3, <1>6 DEF Types, Deliver, raps_vars, MaxGot
<1>8. DeliveredTo(p.id, p.at, p.way)'
  <2>1. got'[p.id][p.at][p.way] = 1 /\ got'[p.id][p.at][Turn(p.way)] = got[p.id][p.at][Turn(p.way)]
    BY <1>a, <1>b, <1>6 DEF Types, Turn, Way
  <2>2. sent[p.id].dest # All => got[p.id][p.at][Turn(p.way)] = 0
    <3>1. Turn(p.way) \in Way
      BY DEF Turn, Way
    <3>2. got[p.id][p.at][Turn(p.way)] = 0 \/ DeliveredTo(p.id, p.at, Turn(p.way))
      BY <1>b, <3>1 DEF RingInv, Delivered
    <3>3. QED BY <3>2 DEF DeliveredTo
  <2>3. ASSUME NEW q \in wire', q.id = p.id
        PROVE  sent[p.id].dest = All /\ (q.way = p.way => Far(p.src, p.way, p.at) < Far(p.src, p.way, q.at))
    <3>0. ~q.dnf
      BY <1>b, <1>3, <2>3 DEF Original, Deliver
    <3>1. CASE q \in wire
      <4>1. q # p => ~(p.way = q.way \/ p.dest # All)
        BY <1>a, <1>b, <2>3, <3>0, <3>1 DEF Single
      <4>2. q # p
        <5>1. ASSUME p \in wire' PROVE FALSE
          <6>1. p \in Forward(p)
            BY <1>1, <5>1
          <6>2. p.at = Walk(p.at, p.way, 1)
            BY <1>a, <1>b, <6>1, FramesCarry DEF Forward, Carries
          <6>3. QED BY <1>b, <6>2, WalkOne, RingAssumption, SMTT(30) DEF Station
        <5>2. QED BY <2>3, <5>1
      <4>3. QED BY <1>b, <4>1, <4>2
    <3>2. CASE q \notin wire
      <4>1. q \in Forward(p)
        BY <1>1, <2>3, <3>2
      <4>2. p.dest = All
        BY <1>b, <4>1 DEF Forward
      <4>3. q.at = Walk(p.at, p.way, 1)
        BY <1>a, <1>b, <4>1, FramesCarry DEF Forward, Carries
      <4>4. Far(p.src, p.way, q.at) = Far(p.src, p.way, p.at) + 1 /\ Far(p.src, p.way, p.at) \in Int
        BY <1>b, <4>3, FarNext, FarRange, RingAssumption
      <4>5. QED BY <1>b, <4>2, <4>4
    <3>3. QED BY <3>1, <3>2
  <2>4. QED BY <1>b, <2>1, <2>2, <2>3 DEF DeliveredTo, Deliver
<1>9. Delivered'
  <2>0. sent' = sent
    BY DEF Deliver
  <2> SUFFICES ASSUME NEW i \in Id, NEW s \in Station, NEW w \in Way
               PROVE  IF i <= Len(sent) THEN got'[i][s][w] = 0 \/ DeliveredTo(i, s, w)'
                                        ELSE got'[i][s][w] = 0
    BY <2>0 DEF Delivered
  <2>1. IF i <= Len(sent) THEN got[i][s][w] = 0 \/ DeliveredTo(i, s, w) ELSE got[i][s][w] = 0
    BY DEF RingInv, Delivered
  <2>2. CASE i = p.id /\ s = p.at /\ w = p.way
    BY <1>8, <1>b, <2>2
  <2>3. CASE i = p.id /\ s = p.at /\ w # p.way
    <3>1. got'[i][s][w] = got[i][s][w]
      BY <1>a, <1>b, <1>6, <2>3 DEF Types
    <3>2. CASE DeliveredTo(i, s, w)
      <4>1. sent[i].dest = All
        BY <2>3, <3>2 DEF DeliveredTo
      <4>2. ASSUME NEW q \in wire', q.id = i, q.way = w PROVE q \in wire
        BY <1>1, <1>a, <1>b, <2>3, <4>2, FramesCarry DEF Forward, Carries
      <4>3. ASSUME NEW q \in wire', q.id = i, q.way = w
            PROVE  Far(sent[i].src, w, s) < Far(sent[i].src, w, q.at)
        BY <3>2, <4>2, <4>3 DEF DeliveredTo
      <4>4. /\ got'[i][s][w] = 1 /\ sent[i].kind = "data" /\ s # sent[i].src
        BY <3>1, <3>2 DEF DeliveredTo
      <4>5. DeliveredTo(i, s, w)'
        BY <2>0, <4>1, <4>3, <4>4 DEF DeliveredTo
      <4>6. QED BY <1>b, <2>3, <4>5
    <3>3. QED BY <1>b, <2>1, <2>3, <3>1, <3>2
  <2>4. CASE i # p.id \/ s # p.at
    <3>1. got'[i][s] = got[i][s]
      BY <1>a, <1>b, <1>6, <2>4 DEF Types
    <3>2. QED BY <1>2, <2>1, <3>1, MoveBehind
  <2>5. QED BY <2>2, <2>3, <2>4
<1>10. QED BY <1>3, <1>4, <1>7, <1>9 DEF RingInv

(* A packet passes a station it is not for.                                 *)
LEMMA PassStep ==
    ASSUME RingInv, NEW p \in wire, PassOn(p)
    PROVE  RingInv'
<1>a. p \in Packet /\ Types
  BY DEF RingInv, Types
<1>1. PICK X \in SUBSET Forward(p) : wire' = (wire \ {p}) \cup X
  BY DEF PassOn, Replace
<1>2. Moves(p, X)
  <2>1. \A q \in X : Carries(q, p, p.at, p.way)
    BY <1>a, FramesCarry DEF Forward, Packet
  <2>2. QED BY <1>1, <2>1 DEF Moves, PassOn, Looped
<1>3. wire' \subseteq Packet /\ Original' /\ Single' /\ Delivered' /\ Budget'
  BY <1>2, MoveShape, MoveDelivered, MoveBudget DEF PassOn
<1>4. QED BY <1>a, <1>3 DEF RingInv, Types, PassOn, raps_vars

(* An alert is heard: it goes on, and raises one other at most, for which   *)
(* one station less is left to visit.                                       *)
LEMMA HearStep ==
    ASSUME RingInv, NEW p \in wire, NEW known \in BOOLEAN, HearAlert(p, known)
    PROVE  RingInv'
<1>a. p \in Packet /\ Types /\ Original /\ Single
  BY DEF RingInv, Types
<1>b. /\ p.id \in Id /\ p.id <= Len(sent) /\ p.at \in Station /\ p.way \in Way /\ p.src \in Station
      /\ p.src # p.at /\ p.kind # "data" /\ (~p.dnf => p.src = sent[p.id].src) /\ p.dnf \in BOOLEAN
  BY <1>a DEF Packet, Original, HearAlert, Looped
<1> DEFINE T == IF known THEN Triggered(p) ELSE {}
<1>1. PICK X \in SUBSET (Forward(p) \cup T) : wire' = (wire \ {p}) \cup X
  BY DEF HearAlert, Replace
<1>2. \A q \in T : Raised(q, p) /\ ~p.dnf
  <2>1. SUFFICES ASSUME NEW q \in Triggered(p) PROVE Raised(q, p) /\ ~p.dnf
    OBVIOUS
  <2>2. ~p.dnf /\ q \in Frames([p EXCEPT !.src = p.at, !.dnf = TRUE], p.at, p.way)
    BY <2>1 DEF Triggered
  <2> DEFINE raised == [p EXCEPT !.src = p.at, !.dnf = TRUE]
  <2>3. /\ raised \in Packet /\ raised.id = p.id /\ raised.kind = p.kind /\ raised.dest = p.dest
        /\ raised.dnf
    BY <1>a, <1>b DEF Packet
  <2>4. q \in Frames(raised, p.at, p.way)
    BY <2>2
  <2> HIDE DEF raised
  <2>5. Carries(q, raised, p.at, p.way)
    BY <1>b, <2>3, <2>4, FramesCarry
  <2>6. QED BY <1>b, <2>2, <2>3, <2>5 DEF Carries, Raised
<1>3. IsFiniteSet(T) /\ Cardinality(T) \in 0..1 /\ (p.dnf => Cardinality(T) = 0)
  BY FramesOne, FS_EmptySet DEF Triggered
<1>c. launched' = [launched EXCEPT ![p.id] = Count(launched[p.id], Cardinality(T), MaxLaunched)]
  BY DEF HearAlert
<1> HIDE DEF T
<1>4. Moves(p, X)
  <2>1. \A q \in Forward(p) : Carries(q, p, p.at, p.way)
    BY <1>a, <1>b, FramesCarry DEF Forward
  <2>2. \A q \in X : Carries(q, p, p.at, p.way) \/ Raised(q, p)
    BY <1>1, <1>2, <2>1
  <2>3. QED BY <1>b, <1>1, <2>2 DEF Moves, HearAlert
<1>5. wire' \subseteq Packet /\ Original' /\ Single' /\ Delivered'
  BY <1>4, MoveShape, MoveDelivered DEF HearAlert
<1> DEFINE n == Cardinality(T)
<1>6. /\ n \in 0..1 /\ launched[p.id] \in Nat /\ MaxLaunched \in Nat /\ launched \in [Id -> 0..MaxLaunched]
      /\ (p.dnf => n = 0) /\ N \in Nat
  BY <1>3, <1>a, <1>b, RingAssumption DEF Types, MaxLaunched
<1>7. /\ launched'[p.id] \in 0..MaxLaunched /\ launched'[p.id] <= launched[p.id] + n
      /\ \A i \in Id : i # p.id => launched'[i] = launched[i]
      /\ launched' \in [Id -> 0..MaxLaunched]
  <2> HIDE DEF n
  <2>1. launched' = [launched EXCEPT ![p.id] = Count(launched[p.id], n, MaxLaunched)]
    BY <1>c DEF n
  <2>2. Count(launched[p.id], n, MaxLaunched) \in 0..MaxLaunched /\ Count(launched[p.id], n, MaxLaunched) <= launched[p.id] + n
    BY <1>6 DEF Count
  <2>3. QED BY <1>6, <1>b, <2>1, <2>2
<1> HIDE DEF n
<1>8. Budget'
  <2>0. sent' = sent
    BY DEF HearAlert
  <2>1. ASSUME NEW i \in Id, i <= Len(sent) PROVE \E r \in [Way -> 0..N] : BudgetOf(i, r)'
    <3>1. PICK r \in [Way -> 0..N] : BudgetOf(i, r)
      BY <2>1 DEF RingInv, Budget
    <3>2. CASE i # p.id \/ p.dnf
      <4>1. launched'[i] <= launched[i] /\ launched'[i] \in Int /\ launched[i] \in Int
        BY <1>6, <1>7, <3>2
      <4>2. ASSUME NEW q \in wire', q.id = i, ~q.dnf PROVE q \in wire
        BY <1>4, <3>2, <4>2, MoveFar
      <4>3. BudgetOf(i, r)'
        <5>1. r["cw"] \in Int /\ r["ccw"] \in Int
          BY DEF Way
        <5>2. QED BY <1>6, <3>1, <4>1, <4>2, <5>1 DEF BudgetOf
      <4>4. QED BY <4>3
    <3>3. CASE i = p.id /\ ~p.dnf
      <4>1. Far(p.src, p.way, p.at) \in 1..N /\ Far(p.src, p.way, p.at) # N
        BY <1>b, FarRange
      <4>2. r[p.way] \in 0..N /\ N - Far(p.src, p.way, p.at) <= r[p.way]
        BY <1>b, <3>1, <3>3 DEF BudgetOf
      <4>3. r[p.way] >= 1
        BY <1>6, <4>1, <4>2
      <4>a. r[p.way] - 1 \in 0..N
        BY <1>6, <4>2, <4>3
      <4> DEFINE r1 == [r EXCEPT ![p.way] = r[p.way] - 1]
      <4>4. r1 \in [Way -> 0..N]
        BY <4>a
      <4>5. r1["cw"] + r1["ccw"] = r["cw"] + r["ccw"] - 1 /\ r["cw"] \in Int /\ r["ccw"] \in Int
        BY <1>b DEF Way
      <4>6. r1[p.way] = r[p.way] - 1 /\ \A w \in Way : w # p.way => r1[w] = r[w]
        BY <1>b
      <4> HIDE DEF r1
      <4>7. launched'[i] + r1["cw"] + r1["ccw"] <= 2 * N
        <5>1. launched[i] + r["cw"] + r["ccw"] <= 2 * N
          BY <3>1 DEF BudgetOf
        <5>2. r1["cw"] \in Int /\ r1["ccw"] \in Int
          BY <4>4 DEF Way
        <5>3. QED BY <1>6, <1>7, <3>3, <4>5, <5>1, <5>2
      <4>8. ASSUME NEW q \in wire', q.id = i, ~q.dnf PROVE N - Far(q.src, q.way, q.at) <= r1[q.way]
        <5>1. CASE q \in wire /\ q # p
          <6>1. q.way # p.way /\ q.way \in Way
            BY <1>a, <3>3, <4>8, <5>1 DEF Single, Types, Packet
          <6>2. N - Far(q.src, q.way, q.at) <= r[q.way]
            BY <3>1, <4>8, <5>1 DEF BudgetOf
          <6>3. QED BY <4>6, <6>1, <6>2
        <5>2. CASE q \notin wire
          BY <1>4, <1>6, <4>1, <4>2, <4>6, <4>8, <5>2, MoveFar
        <5>3. q # p
          <6>1. ASSUME p \in wire' PROVE FALSE
            <7>1. p \in Forward(p)
              BY <1>1, <1>2, <3>3, <6>1 DEF Raised
            <7>2. p.at = Walk(p.at, p.way, 1)
              BY <1>a, <1>b, <7>1, FramesCarry DEF Forward, Carries
            <7>3. QED BY <1>b, <7>2, WalkOne, RingAssumption, SMTT(30) DEF Station
          <6>2. QED BY <4>8, <6>1
        <5>4. QED BY <5>1, <5>2, <5>3
      <4>9. BudgetOf(i, r1)'
        BY <4>7, <4>8 DEF BudgetOf
      <4>10. QED BY <4>4, <4>9
    <3>4. QED BY <3>2, <3>3
  <2>2. ASSUME NEW i \in Id, ~(i <= Len(sent)) PROVE launched'[i] = 0
    BY <1>b, <1>7, <2>2 DEF RingInv, Budget
  <2>3. QED BY <2>0, <2>1, <2>2 DEF Budget
<1>9. Types'
  BY <1>a, <1>5, <1>7 DEF Types, HearAlert, raps_vars
<1>10. QED BY <1>5, <1>8, <1>9 DEF RingInv

-----------------------------------------------------------------------------
(* A new packet: its number is higher than that of any packet before.       *)
Launches(kind, s, dest, ways, X) ==
    /\ kind \in Kind /\ s \in Station /\ dest \in Station \cup {All} /\ ways \subseteq Way
    /\ dest # All => \A v, w \in ways : v = w
    /\ kind # "data" => dest = All
    /\ Len(sent) < MaxSends
    /\ \A q \in X : \E w \in ways : Carries(q, NewPacket(kind, s, dest), s, w)
    /\ wire' = wire \cup X
    /\ sent' = Append(sent, [kind |-> kind, src |-> s, dest |-> dest])

LEMMA NewCarried ==
    ASSUME NEW kind, NEW s, NEW dest, NEW w, NEW q, Carries(q, NewPacket(kind, s, dest), s, w)
    PROVE  /\ q \in Packet /\ q.id = Len(sent) + 1 /\ q.kind = kind /\ q.src = s /\ q.dest = dest
           /\ ~q.dnf /\ q.way = w /\ q.at = Walk(s, w, 1)
BY DEF Carries, NewPacket

LEMMA NewSent ==
    ASSUME RingInv, NEW kind, NEW s, NEW dest, NEW ways, NEW X, Launches(kind, s, dest, ways, X)
    PROVE  /\ sent' \in Seq([kind : Kind, src : Station, dest : Station \cup {All}])
           /\ Len(sent') = Len(sent) + 1 /\ Len(sent) \in Nat /\ Len(sent) + 1 \in Id
           /\ \A i \in 1..Len(sent) : sent'[i] = sent[i]
           /\ sent'[Len(sent) + 1] = [kind |-> kind, src |-> s, dest |-> dest]
<1>1. [kind |-> kind, src |-> s, dest |-> dest] \in [kind : Kind, src : Station, dest : Station \cup {All}]
  BY DEF Launches
<1>2. sent \in Seq([kind : Kind, src : Station, dest : Station \cup {All}])
  BY DEF RingInv, Types
<1>3. QED BY <1>1, <1>2, AppendProperties, LenProperties, RingAssumption DEF Launches, Id

LEMMA NewShape ==
    ASSUME RingInv, NEW kind, NEW s, NEW dest, NEW ways, NEW X, Launches(kind, s, dest, ways, X)
    PROVE  wire' \subseteq Packet /\ Original' /\ Single'
<1>a. wire \subseteq Packet /\ Original /\ Single
  BY DEF RingInv, Types
<1>b. ASSUME NEW q \in X
      PROVE  /\ q \in Packet /\ q.id = Len(sent) + 1 /\ q.kind = kind /\ q.src = s /\ q.dest = dest
             /\ ~q.dnf /\ q.way \in ways /\ q.at = Walk(s, q.way, 1)
  BY <1>b, NewCarried DEF Launches
<1>c. ASSUME NEW q \in wire PROVE q.id \in 1..Len(sent)
  <2>1. q.id \in Nat \ {0} /\ q.id <= Len(sent) /\ Len(sent) \in Nat
    BY <1>a, NewSent, RingAssumption DEF Packet, Id, Original
  <2>2. QED BY <2>1
<1>n. /\ Len(sent') = Len(sent) + 1 /\ Len(sent) \in Nat
      /\ \A i \in 1..Len(sent) : sent'[i] = sent[i]
      /\ sent'[Len(sent) + 1] = [kind |-> kind, src |-> s, dest |-> dest]
  BY NewSent
<1>1. wire' \subseteq Packet
  BY <1>a, <1>b DEF Launches
<1>2. Original'
  <2>1. ASSUME NEW q \in wire'
        PROVE  /\ q.id <= Len(sent') /\ q.kind = sent'[q.id].kind /\ q.dest = sent'[q.id].dest
               /\ ~q.dnf => q.src = sent'[q.id].src
               /\ q.kind = "data" => ~q.dnf
    <3>1. CASE q \in wire
      <4>1. q.id \in 1..Len(sent) /\ sent'[q.id] = sent[q.id] /\ Len(sent') = Len(sent) + 1 /\ Len(sent) \in Nat
        BY <1>c, <3>1, <1>n
      <4>2. QED BY <1>a, <3>1, <4>1 DEF Original
    <3>2. CASE q \in X
      BY <1>b, <3>2, <1>n
    <3>3. QED BY <3>1, <3>2 DEF Launches
  <2>2. ASSUME NEW i \in 1..Len(sent') PROVE sent'[i].kind # "data" => sent'[i].dest = All
    <3>1. CASE i \in 1..Len(sent)
      BY <1>a, <3>1, <1>n DEF Original
    <3>2. CASE i = Len(sent) + 1
      BY <3>2, <1>n DEF Launches
    <3>3. QED BY <3>1, <3>2, <1>n
  <2>3. QED BY <2>1, <2>2 DEF Original
<1>3. Single'
  <2> SUFFICES ASSUME NEW a \in wire', NEW b \in wire', a.id = b.id, ~a.dnf, ~b.dnf, a.way = b.way \/ a.dest # All
               PROVE  a = b
    BY DEF Single
  <2>0. Len(sent) + 1 \notin 1..Len(sent)
    BY <1>n
  <2>1. CASE a \in wire /\ b \in wire
    BY <1>a, <2>1 DEF Single
  <2>2. CASE a \in X /\ b \in X
    <3>1. a.way = b.way
      BY <1>b, <2>2 DEF Launches
    <3>2. QED BY <1>b, <2>2, <3>1, SamePacket
  <2>3. QED BY <1>b, <1>c, <2>0, <2>1, <2>2 DEF Launches
<1>4. QED BY <1>1, <1>2, <1>3

LEMMA NewDelivered ==
    ASSUME RingInv, NEW kind, NEW s, NEW dest, NEW ways, NEW X, Launches(kind, s, dest, ways, X), got' = got
    PROVE  Delivered'
<1>0. Len(sent') = Len(sent) + 1 /\ Len(sent) \in Nat
  BY NewSent
<1>1. ASSUME NEW i \in Id, i <= Len(sent), NEW t \in Station, NEW w \in Way, DeliveredTo(i, t, w)
      PROVE  DeliveredTo(i, t, w)'
  <2>1. i \in 1..Len(sent)
    BY <1>0, <1>1, RingAssumption DEF Id
  <2>2. sent'[i] = sent[i]
    BY <2>1, NewSent
  <2>3. ASSUME NEW q \in wire', q.id = i PROVE q \in wire
    <3>1. ASSUME q \in X PROVE q.id = Len(sent) + 1
      BY <3>1, NewCarried DEF Launches
    <3>2. QED BY <1>0, <2>1, <2>3, <3>1 DEF Launches
  <2>4. QED BY <1>1, <2>2, <2>3 DEF DeliveredTo
<1>2. ASSUME NEW i \in Id, NEW t \in Station, NEW w \in Way
      PROVE  IF i <= Len(sent') THEN got[i][t][w] = 0 \/ DeliveredTo(i, t, w)' ELSE got[i][t][w] = 0
  <2>0. i \in Nat
    BY RingAssumption DEF Id
  <2>1. IF i <= Len(sent) THEN got[i][t][w] = 0 \/ DeliveredTo(i, t, w) ELSE got[i][t][w] = 0
    BY DEF RingInv, Delivered
  <2>2. QED BY <1>0, <1>1, <2>0, <2>1
<1>3. QED BY <1>2 DEF Delivered

(* A new packet has n alerts to its account and every other station to      *)
(* visit on each of its ways.                                               *)
LEMMA NewBudget ==
    ASSUME RingInv, NEW kind, NEW s, NEW dest, NEW ways, NEW X, Launches(kind, s, dest, ways, X),
           NEW n \in 0..2, launched' = [launched EXCEPT ![Len(sent) + 1] = n]
    PROVE  Budget' /\ launched' \in [Id -> 0..MaxLaunched]
<1>a. Len(sent') = Len(sent) + 1 /\ Len(sent) \in Nat /\ Len(sent) + 1 \in Id
  BY NewSent
<1>b. /\ N \in Nat /\ N >= 2 /\ MaxLaunched \in Nat /\ n \in 0..MaxLaunched
      /\ \A i \in Id : i \in Nat \ {0}
  BY RingAssumption DEF MaxLaunched, Id
<1>0. /\ Len(sent') = Len(sent) + 1 /\ Len(sent) \in Nat /\ Len(sent) + 1 \in Id
      /\ N \in Nat /\ N >= 2 /\ MaxLaunched \in Nat /\ n \in 0..MaxLaunched /\ \A i \in Id : i \in Nat \ {0}
      /\ launched \in [Id -> 0..MaxLaunched]
  BY <1>a, <1>b DEF RingInv, Types
<1>1. /\ launched' \in [Id -> 0..MaxLaunched] /\ launched'[Len(sent) + 1] = n
      /\ \A i \in Id : i # Len(sent) + 1 => launched'[i] = launched[i]
  BY <1>0
<1>2. ASSUME NEW q \in X
      PROVE  q.id = Len(sent) + 1 /\ q.src = s /\ q.way \in Way /\ q.at = Walk(s, q.way, 1) /\ s \in Station
  BY <1>2, NewCarried DEF Launches
<1>3. ASSUME NEW i \in Id, i <= Len(sent) PROVE \E r \in [Way -> 0..N] : BudgetOf(i, r)'
  <2>1. PICK r \in [Way -> 0..N] : BudgetOf(i, r)
    BY <1>3 DEF RingInv, Budget
  <2>2. launched'[i] = launched[i]
    BY <1>0, <1>1, <1>3
  <2>3. ASSUME NEW q \in wire', q.id = i PROVE q \in wire
    BY <1>0, <1>2, <1>3, <2>3 DEF Launches
  <2>4. BudgetOf(i, r)'
    BY <2>1, <2>2, <2>3 DEF BudgetOf
  <2>5. QED BY <2>4
<1>4. ASSUME NEW i \in Id, i = Len(sent) + 1 PROVE \E r \in [Way -> 0..N] : BudgetOf(i, r)'
  <2> DEFINE r == [w \in Way |-> N - 1]
  <2>1. r \in [Way -> 0..N] /\ r["cw"] = N - 1 /\ r["ccw"] = N - 1 /\ \A w \in Way : r[w] = N - 1
    BY <1>0 DEF Way
  <2> HIDE DEF r
  <2>2. ASSUME NEW q \in wire', q.id = i PROVE N - Far(q.src, q.way, q.at) <= r[q.way]
    <3>1. q \notin wire
      BY <1>0, <1>4, <2>2 DEF RingInv, Original
    <3>2. q \in X
      BY <3>1, <2>2 DEF Launches
    <3>3. Far(q.src, q.way, q.at) = 1 /\ q.way \in Way
      BY <1>2, <3>2, FarFirst
    <3>4. QED BY <1>0, <2>1, <3>3
  <2>3. launched'[i] + r["cw"] + r["ccw"] <= 2 * N
    BY <1>0, <1>1, <1>4, <2>1
  <2>4. BudgetOf(i, r)'
    BY <2>2, <2>3 DEF BudgetOf
  <2>5. QED BY <2>1, <2>4
<1>5. ASSUME NEW i \in Id, i > Len(sent) + 1 PROVE launched'[i] = 0
  BY <1>0, <1>1, <1>5 DEF RingInv, Budget
<1>6. QED BY <1>0, <1>1, <1>3, <1>4, <1>5 DEF Budget

LEMMA NewPacketType ==
    ASSUME RingInv, NEW kind \in Kind, NEW s \in Station, NEW dest \in Station \cup {All}, Len(sent) < MaxSends
    PROVE  NewPacket(kind, s, dest) \in Packet
<1>1. Len(sent) + 1 \in Id
  BY LenProperties, RingAssumption DEF RingInv, Types, Id
<1>2. QED BY <1>1 DEF NewPacket, Packet, Way

(* Any part of the frames of a new packet, each on its way.                 *)
LEMMA NewFrames ==
    ASSUME RingInv, NEW kind \in Kind, NEW s \in Station, NEW dest \in Station \cup {All}, Len(sent) < MaxSends,
           NEW ways \in SUBSET Way, NEW X \in SUBSET UNION {Frames(NewPacket(kind, s, dest), s, w) : w \in ways},
           NEW q \in X
    PROVE  \E w \in ways : Carries(q, NewPacket(kind, s, dest), s, w)
<1>1. PICK w \in ways : q \in Frames(NewPacket(kind, s, dest), s, w)
  OBVIOUS
<1>2. QED BY <1>1, NewPacketType, FramesCarry

LEMMA XmitStep ==
    ASSUME RingInv, NEW s \in Station, NEW dest \in Station \cup {All}, Xmit(s, dest)
    PROVE  RingInv'
<1>1. PICK ways \in Egress(dest) :
         Replace({}, UNION {Frames(NewPacket("data", s, dest), s, w) : w \in ways})
  BY DEF Xmit
<1>2. PICK X \in SUBSET UNION {Frames(NewPacket("data", s, dest), s, w) : w \in ways} : wire' = wire \cup X
  BY <1>1 DEF Replace
<1>3. ways \in SUBSET Way /\ (dest # All => \A v, w \in ways : v = w) /\ "data" \in Kind
  BY DEF Egress, Kind
<1>4. \A q \in X : \E w \in ways : Carries(q, NewPacket("data", s, dest), s, w)
  BY <1>2, <1>3, NewFrames DEF Xmit
<1>5. Launches("data", s, dest, ways, X)
  BY <1>2, <1>3, <1>4 DEF Launches, Xmit, Record
<1>6. wire' \subseteq Packet /\ Original' /\ Single' /\ Delivered'
  BY <1>5, NewShape, NewDelivered DEF Xmit
<1>7. sent' \in Seq([kind : Kind, src : Station, dest : Station \cup {All}])
      /\ Len(sent) \in Nat /\ Len(sent) + 1 \in Id
  BY <1>5, NewSent
<1>8. launched' = [launched EXCEPT ![Len(sent) + 1] = 0]
  <2>1. launched[Len(sent) + 1] = 0 /\ launched \in [Id -> 0..MaxLaunched]
    BY <1>7 DEF RingInv, Budget, Types
  <2>2. QED BY <2>1 DEF Xmit
<1>9. Budget' /\ launched' \in [Id -> 0..MaxLaunched]
  <2>1. 0 \in 0..2
    OBVIOUS
  <2>2. QED BY <1>5, <1>8, <2>1, NewBudget
<1>10. QED BY <1>6, <1>7, <1>9 DEF RingInv, Types, Xmit, raps_vars

LEMMA RapsStep ==
    ASSUME RingInv, NEW s \in Station, SendRaps(s)
    PROVE  RingInv'
<1> DEFINE pkt == NewPacket(alert[s], s, All)
           F   == UNION {Frames(pkt, s, w) : w \in Way}
<1>1. PICK X \in SUBSET F : wire' = wire \cup X
  BY DEF SendRaps, Replace
<1>2. alert[s] \in Kind /\ alert[s] # "data"
  BY DEF SendRaps, RingInv, Types, Kind
<1>3. \A q \in X : \E w \in Way : Carries(q, pkt, s, w)
  BY <1>1, <1>2, NewFrames DEF SendRaps
<1>4. Launches(alert[s], s, All, Way, X)
  BY <1>1, <1>2, <1>3 DEF Launches, SendRaps, Record
<1>5. wire' \subseteq Packet /\ Original' /\ Single' /\ Delivered'
  BY <1>4, NewShape, NewDelivered DEF SendRaps
<1>6. sent' \in Seq([kind : Kind, src : Station, dest : Station \cup {All}])
  BY <1>4, NewSent
<1>7. Cardinality(F) \in 0..2
  <2>1. F = Frames(pkt, s, "cw") \cup Frames(pkt, s, "ccw")
    BY DEF Way
  <2> HIDE DEF F, pkt
  <2>2. /\ IsFiniteSet(Frames(pkt, s, "cw")) /\ Cardinality(Frames(pkt, s, "cw")) \in 0..1
        /\ IsFiniteSet(Frames(pkt, s, "ccw")) /\ Cardinality(Frames(pkt, s, "ccw")) \in 0..1
    BY FramesOne
  <2> DEFINE A == Frames(pkt, s, "cw")
             B == Frames(pkt, s, "ccw")
  <2> HIDE DEF A, B
  <2>3. /\ Cardinality(A \cup B) = Cardinality(A) + Cardinality(B) - Cardinality(A \cap B)
        /\ Cardinality(A \cap B) \in Nat /\ Cardinality(A \cup B) \in Nat
    BY <2>2, FS_Union, FS_Intersection, FS_CardinalityType DEF A, B
  <2>4. QED BY <2>1, <2>2, <2>3 DEF A, B
<1>8. launched' = [launched EXCEPT ![Len(sent) + 1] = Cardinality(F)]
  BY DEF SendRaps
<1> HIDE DEF F, pkt
<1>9. Budget' /\ launched' \in [Id -> 0..MaxLaunched]
  BY <1>4, <1>7, <1>8, NewBudget
<1>10. QED BY <1>5, <1>6, <1>9 DEF RingInv, Types, SendRaps, raps_vars

-----------------------------------------------------------------------------
(* The packets on the ring keep their invariant.                            *)
THEOREM RingInvariant == Spec => []RingInv
<1>1. Init => RingInv
  <2> SUFFICES ASSUME Init PROVE RingInv
    OBVIOUS
  <2>1. Len(sent) = 0 /\ N \in Nat /\ MaxLaunched \in Nat
    BY RingAssumption DEF Init, MaxLaunched
  <2>2. Types
    BY <2>1 DEF Init, Types, MaxGot
  <2>3. \A i \in Id : ~(i <= Len(sent))
    BY <2>1, RingAssumption DEF Id
  <2>4. Original /\ Single /\ Delivered /\ Budget
    BY <2>1, <2>3 DEF Init, Original, Single, Delivered, Budget
  <2>5. QED BY <2>2, <2>4 DEF RingInv
<1>2. RingInv /\ [Next]_vars => RingInv'
  <2> SUFFICES ASSUME RingInv, [Next]_vars PROVE RingInv'
    OBVIOUS
  <2>0. alert \in [Station -> {"none", "SF", "NR"}]
    BY DEF RingInv, Types
  <2>1. ASSUME NEW s \in Station, NEW dest \in Station \cup {All}, Xmit(s, dest) PROVE RingInv'
    BY <2>1, XmitStep
  <2>2. ASSUME NEW s \in Station, SendRaps(s) PROVE RingInv'
    BY <2>2, RapsStep
  <2>3. ASSUME NEW s \in Station, RapsNRDone(s) \/ FsmRun(s) PROVE RingInv'
    BY <2>0, <2>3, Leave DEF RapsNRDone, FsmRun, hist_vars
  <2>4. ASSUME NEW s \in Station, Cut(s) \/ Mend(s) PROVE RingInv'
    BY <2>0, <2>4, Leave DEF Cut, Mend, hist_vars, raps_vars
  <2>5. ASSUME NEW s \in Station, NEW w \in Way, Notice(s, w) \/ Tell(s, w) PROVE RingInv'
    BY <2>0, <2>5, Leave DEF Notice, Tell, hist_vars, raps_vars
  <2>6. ASSUME NEW p \in wire, Receive(p) PROVE RingInv'
    <3>1. CASE DropLooped(p)
      BY <2>0, <3>1, Leave DEF DropLooped, hist_vars, raps_vars
    <3>2. QED BY <2>6, <3>1, PassStep, DeliverStep, HearStep DEF Receive
  <2>7. CASE UNCHANGED vars
    BY <2>0, <2>7, Leave DEF vars, hist_vars, raps_vars
  <2>8. QED BY <2>1, <2>2, <2>3, <2>4, <2>5, <2>6, <2>7 DEF Next, ReceiveSome
<1>3. QED BY <1>1, <1>2, PTL DEF Spec

(* A packet is delivered once at most to whom it is for, and to nobody      *)
(* else, on every ring and whatever is cut, mended or lost meanwhile.       *)
THEOREM DeliveredOnceAlways == Spec => []DeliveredOnce
<1>1. RingInv => DeliveredOnce
  <2> SUFFICES ASSUME RingInv, NEW i \in Id, Sent(i), NEW s \in Station
               PROVE  IF sent[i].dest = All
                      THEN \A w \in Way : got[i][s][w] <= IF s = sent[i].src THEN 0 ELSE 1
                      ELSE got[i][s]["cw"] + got[i][s]["ccw"] <= IF s = sent[i].dest THEN 1 ELSE 0
    BY DEF DeliveredOnce
  <2>1. i <= Len(sent)
    BY LenProperties DEF Sent, RingInv, Types
  <2>2. \A w \in Way : got[i][s][w] = 0 \/ DeliveredTo(i, s, w)
    BY <2>1 DEF RingInv, Delivered
  <2>3. CASE sent[i].dest = All
    BY <2>2, <2>3 DEF DeliveredTo
  <2>4. CASE sent[i].dest # All
    <3>1. "cw" \in Way /\ "ccw" \in Way /\ Turn("cw") = "ccw" /\ Turn("ccw") = "cw"
      BY DEF Way, Turn
    <3>2. /\ got[i][s]["cw"] = 0 \/ DeliveredTo(i, s, "cw")
          /\ got[i][s]["ccw"] = 0 \/ DeliveredTo(i, s, "ccw")
      BY <2>2, <3>1
    <3>3. DeliveredTo(i, s, "cw") => got[i][s]["cw"] = 1 /\ got[i][s]["ccw"] = 0 /\ s = sent[i].dest
      BY <2>4, <3>1 DEF DeliveredTo
    <3>4. DeliveredTo(i, s, "ccw") => got[i][s]["ccw"] = 1 /\ got[i][s]["cw"] = 0 /\ s = sent[i].dest
      BY <2>4, <3>1 DEF DeliveredTo
    <3>5. QED BY <2>4, <3>2, <3>3, <3>4
  <2>5. QED BY <2>3, <2>4
<1>2. QED BY <1>1, RingInvariant, PTL

(* One round of alerts raises no more than one alert of each workstation    *)
(* each way.                                                                *)
THEOREM NoAlertStormAlways == Spec => []NoAlertStorm
<1>1. RingInv => NoAlertStorm
  <2> SUFFICES ASSUME RingInv, NEW i \in Id PROVE launched[i] <= 2 * N
    BY DEF NoAlertStorm
  <2>1. launched[i] \in Int /\ N \in Nat
    BY RingAssumption DEF RingInv, Types, MaxLaunched
  <2>2. CASE i <= Len(sent)
    <3>1. PICK r \in [Way -> 0..N] : BudgetOf(i, r)
      BY <2>2 DEF RingInv, Budget
    <3>2. r["cw"] \in 0..N /\ r["ccw"] \in 0..N
      BY DEF Way
    <3>3. QED BY <2>1, <3>1, <3>2 DEF BudgetOf
  <2>3. CASE ~(i <= Len(sent))
    BY <2>1, <2>3 DEF RingInv, Budget
  <2>4. QED BY <2>2, <2>3
<1>2. QED BY <1>1, RingInvariant, PTL
=============================================================================
