---------------------------- MODULE WfsFibProofs ----------------------------
(***************************************************************************)
(* The forwarding table for every set of addresses and workstations, every *)
(* size of the table and every number of time tags.                        *)
(*                                                                         *)
(* That the node used after a trim is never NULL (RoomAfterTrim) is a      *)
(* matter of counting: with no free node and no node left to allocate, all *)
(* FIB_SIZE_MAX nodes are in the tree, so the trim does find the table     *)
(* full, and either way of trimming a full table removes something.        *)
(***************************************************************************)
EXTENDS WfsFib, FiniteSetTheorems, TLAPS

(* A workstation that was not probed has nothing in its table.              *)
Unused == iwa = "unused" =>
    /\ DOMAIN fib_root = {} /\ fibn_free = 0 /\ fib_size = 0
    /\ fib_alloc_size = 0 /\ lost = 0
    /\ ~function_set /\ ~pending /\ ~fired

IInv == /\ TypeOK /\ NodesConserved /\ Unused
        /\ RoomAfterTrim /\ NoGhosts /\ AgingRuns

-----------------------------------------------------------------------------
LEMMA DifferenceSize ==
    ASSUME NEW S, IsFiniteSet(S), NEW T \in SUBSET S
    PROVE  /\ IsFiniteSet(T) /\ Cardinality(T) \in Nat
           /\ IsFiniteSet(S \ T) /\ Cardinality(S \ T) \in Nat
           /\ Cardinality(S \ T) = Cardinality(S) - Cardinality(T)
<1>1. IsFiniteSet(T)
  BY FS_Subset
<1>2. S \cap T = T
  OBVIOUS
<1>3. IsFiniteSet(S \ T) /\ Cardinality(S \ T) = Cardinality(S) - Cardinality(S \cap T)
  BY FS_Difference
<1>4. Cardinality(T) \in Nat /\ Cardinality(S \ T) \in Nat
  BY <1>1, <1>3, FS_CardinalityType
<1>5. QED
  BY <1>1, <1>2, <1>3, <1>4

(* What a trim removes, and that the counter follows.                       *)
LEMMA TrimSizes ==
    ASSUME TypeOK, NodesConserved, NEW R \in Trims
    PROVE  /\ R \in SUBSET DOMAIN fib_root
           /\ Cardinality(R) \in Nat
           /\ IsFiniteSet(DOMAIN fib_root \ R)
           /\ Cardinality(DOMAIN fib_root) \in Nat
           /\ TrimmedSize(R) = Cardinality(DOMAIN fib_root \ R)
           /\ TrimmedSize(R) = fib_size - Cardinality(R)
<1>1. R \in SUBSET DOMAIN fib_root
  BY DEF Trims, HighKeys, OldKeys
<1>2. IsFiniteSet(DOMAIN fib_root) /\ fib_size = Cardinality(DOMAIN fib_root)
  BY DEF TypeOK, NodesConserved
<1>3. /\ Cardinality(R) \in Nat /\ IsFiniteSet(DOMAIN fib_root \ R)
      /\ Cardinality(DOMAIN fib_root \ R) = Cardinality(DOMAIN fib_root) - Cardinality(R)
      /\ Cardinality(DOMAIN fib_root) \in Nat
  BY <1>1, <1>2, DifferenceSize, FS_CardinalityType
<1>4. fib_size < FIB_SIZE_MAX => R = {}
  BY DEF Trims
<1>5. fib_size < FIB_SIZE_MAX => DOMAIN fib_root \ R = DOMAIN fib_root
  BY <1>4
<1>6. QED
  BY <1>1, <1>2, <1>3, <1>5 DEF TrimmedSize

(* A trim of a full table removes at least one node.                        *)
LEMMA FullTrim ==
    ASSUME TypeOK, NodesConserved, NEW R \in Trims, fib_size = FIB_SIZE_MAX
    PROVE  Cardinality(R) > 0
<1>1. CASE Cardinality(DOMAIN fib_root \ OldKeys) = FIB_SIZE_MAX
  BY <1>1, FibAssumption DEF Trims, HighKeys
<1>2. CASE Cardinality(DOMAIN fib_root \ OldKeys) # FIB_SIZE_MAX
  <2>1. R = OldKeys /\ fib_size = Cardinality(DOMAIN fib_root)
    BY <1>2, FibAssumption DEF Trims, NodesConserved
  <2>2. R # {}
    <3>1. SUFFICES ASSUME R = {} PROVE FALSE
      OBVIOUS
    <3>2. DOMAIN fib_root \ OldKeys = DOMAIN fib_root
      BY <2>1, <3>1
    <3>3. QED BY <3>2, <2>1, <1>2
  <2>3. IsFiniteSet(R)
    BY TrimSizes, FS_Subset DEF TypeOK
  <2>4. QED
    BY <2>2, <2>3, FS_EmptySet, FS_CardinalityType
<1>3. QED BY <1>1, <1>2

(* What my_insert() makes of a tree.                                        *)
LEMMA InsertType ==
    ASSUME NEW D \in SUBSET Key, IsFiniteSet(D), NEW t \in [D -> Node],
           NEW k \in Key, NEW w \in WfsId, NEW tag \in 0..(TIME_TAGS - 1)
    PROVE  LET u == my_insert(t, k, w, tag)
           IN  /\ u \in [DOMAIN u -> Node] /\ DOMAIN u = D \cup {k}
               /\ IsFiniteSet(DOMAIN u) /\ DOMAIN u \subseteq Key
               /\ Grows(t, k) \in {0, 1}
               /\ Cardinality(DOMAIN u) = Cardinality(D) + Grows(t, k)
               /\ \A x \in DOMAIN u : u[x].wfsid = w \/ (x \in D /\ u[x] = t[x])
<1> DEFINE u == my_insert(t, k, w, tag)
<1>1. [wfsid |-> w, time_tag |-> tag] \in Node
  BY DEF Node
<1>2. DOMAIN t = D
  OBVIOUS
<1>3. DOMAIN u = D \cup {k}
  BY <1>2 DEF my_insert
<1>4. u \in [D \cup {k} -> Node]
  BY <1>1, <1>2 DEF my_insert
<1>5. \A x \in D \cup {k} : u[x].wfsid = w \/ (x \in D /\ u[x] = t[x])
  BY <1>2 DEF my_insert
<1>6. IsFiniteSet(D \cup {k}) /\ Cardinality(D \cup {k}) = IF k \in D THEN Cardinality(D) ELSE Cardinality(D) + 1
  BY FS_AddElement
<1>7. Cardinality(D) \in Nat
  BY FS_CardinalityType
<1>8. Grows(t, k) = IF k \in D THEN 0 ELSE 1
  BY <1>2 DEF Grows
<1>9. QED
  BY <1>3, <1>4, <1>5, <1>6, <1>7, <1>8

(* A part of the table that is left keeps its type and its mappings.        *)
LEMMA RestrictType ==
    ASSUME TypeOK, NEW K \in SUBSET DOMAIN fib_root
    PROVE  LET u == Restrict(fib_root, K)
           IN  /\ u \in [K -> Node] /\ DOMAIN u = K
               /\ K \subseteq Key /\ IsFiniteSet(K)
               /\ \A k \in K : u[k] = fib_root[k]
<1>1. IsFiniteSet(K)
  BY FS_Subset DEF TypeOK
<1>2. QED BY <1>1 DEF TypeOK, Restrict

LEMMA TagType ==
    ASSUME TypeOK
    PROVE  NextTag \in 0..(TIME_TAGS - 1)
BY FibAssumption DEF TypeOK, NextTag

-----------------------------------------------------------------------------
LEMMA InitInv == Init => IInv
<1> SUFFICES ASSUME Init PROVE IInv
  OBVIOUS
<1>1. DOMAIN fib_root = {} /\ fib_root \in [{} -> Node]
  BY DEF Init, Empty
<1>2. IsFiniteSet({}) /\ Cardinality({}) = 0
  BY FS_EmptySet
<1>3. TypeOK
  <2>1. /\ fib_root \in [DOMAIN fib_root -> Node] /\ DOMAIN fib_root \subseteq Key
        /\ IsFiniteSet(DOMAIN fib_root)
    BY <1>1, <1>2
  <2>2. /\ fib_alloc_size \in 0..FIB_SIZE_MAX /\ current_time_tag \in 0..(TIME_TAGS - 1)
        /\ fibn_free \in Nat /\ fib_size \in Nat /\ lost \in Nat
    BY FibAssumption DEF Init
  <2>3. QED BY <2>1, <2>2 DEF Init, TypeOK
<1>4. NodesConserved
  BY <1>1, <1>2 DEF Init, NodesConserved
<1>5. QED
  BY <1>1, <1>3, <1>4 DEF Init, IInv, Unused, RoomAfterTrim, NoGhosts, AgingRuns

(* The parts of the invariant about the tree, for a step that stores the    *)
(* pair <<k, w>> in the tree t.                                             *)
LEMMA StoreStep ==
    ASSUME IInv, NEW k \in Key, NEW w \in WfsId,
           NEW D \in SUBSET DOMAIN fib_root, NEW t \in [D -> Node],
           \A x \in D : t[x] = fib_root[x],
           NEW tag \in 0..(TIME_TAGS - 1),
           fib_root' = my_insert(t, k, w, tag),
           heard' = heard \cup {w}
    PROVE  /\ fib_root' \in [DOMAIN fib_root' -> Node]
           /\ DOMAIN fib_root' \subseteq Key /\ IsFiniteSet(DOMAIN fib_root')
           /\ Grows(t, k) \in {0, 1}
           /\ Cardinality(DOMAIN fib_root') = Cardinality(D) + Grows(t, k)
           /\ heard' \subseteq WfsId
           /\ NoGhosts'
<1>1. D \in SUBSET Key /\ IsFiniteSet(D)
  BY FS_Subset DEF IInv, TypeOK
<1> DEFINE u == my_insert(t, k, w, tag)
<1>0. /\ u \in [DOMAIN u -> Node] /\ IsFiniteSet(DOMAIN u) /\ DOMAIN u \subseteq Key
      /\ Grows(t, k) \in {0, 1} /\ Cardinality(DOMAIN u) = Cardinality(D) + Grows(t, k)
      /\ \A x \in DOMAIN u : u[x].wfsid = w \/ (x \in D /\ u[x] = t[x])
  BY <1>1, InsertType, ZenonT(30)
<1>u. fib_root' = u
  OBVIOUS
<1> HIDE DEF u
<1>2. /\ fib_root' \in [DOMAIN fib_root' -> Node]
      /\ IsFiniteSet(DOMAIN fib_root') /\ DOMAIN fib_root' \subseteq Key
      /\ Grows(t, k) \in {0, 1}
      /\ Cardinality(DOMAIN fib_root') = Cardinality(D) + Grows(t, k)
      /\ \A x \in DOMAIN fib_root' :
            fib_root'[x].wfsid = w \/ (x \in D /\ fib_root'[x] = t[x])
  BY <1>0, <1>u, Zenon
<1>3. heard' \subseteq WfsId
  BY DEF IInv, TypeOK
<1>4. NoGhosts'
  <2>1. SUFFICES ASSUME NEW x \in DOMAIN fib_root'
                 PROVE  fib_root'[x].wfsid \in heard'
    BY DEF NoGhosts
  <2>2. CASE fib_root'[x].wfsid = w
    BY <2>2
  <2>3. CASE x \in D /\ fib_root'[x] = t[x]
    <3>1. fib_root'[x].wfsid \in heard
      BY <2>3 DEF IInv, NoGhosts
    <3>2. QED BY <3>1
  <2>4. QED BY <1>2, <2>2, <2>3
<1>5. QED BY <1>2, <1>3, <1>4

(* The parts of the invariant about the tree, for a step that only removes  *)
(* nodes from it.                                                           *)
LEMMA KeepStep ==
    ASSUME IInv, NEW K \in SUBSET DOMAIN fib_root,
           fib_root' = Restrict(fib_root, K), heard' = heard
    PROVE  /\ fib_root' \in [DOMAIN fib_root' -> Node] /\ DOMAIN fib_root' = K
           /\ DOMAIN fib_root' \subseteq Key /\ IsFiniteSet(DOMAIN fib_root')
           /\ NoGhosts'
<1>1. /\ fib_root' \in [K -> Node] /\ DOMAIN fib_root' = K
      /\ K \subseteq Key /\ IsFiniteSet(K)
      /\ \A k \in K : fib_root'[k] = fib_root[k]
  BY RestrictType DEF IInv
<1>2. NoGhosts'
  BY <1>1 DEF IInv, NoGhosts
<1>3. QED BY <1>1, <1>2

-----------------------------------------------------------------------------
LEMMA InitStep ==
    ASSUME IInv, FibInit \/ \E n \in 0..(FIB_SIZE_MIN - 1) : FibInitFails(n)
    PROVE  IInv'
<1>1. /\ fib_root' = fib_root /\ fib_size' = fib_size /\ heard' = heard
      /\ DOMAIN fib_root = {} /\ fib_size = 0 /\ fibn_free = 0 /\ lost = 0
      /\ iwa' = "probed" /\ oops = "none" /\ oops' = "none"
      /\ fired' = fired /\ current_time_tag' = current_time_tag
  BY DEF FibInit, FibInitFails, IInv, Unused, table, timer
<1>2. /\ fib_alloc_size' \in 0..FIB_SIZE_MAX /\ fibn_free' \in Nat /\ lost' \in Nat
      /\ fibn_free' + lost' = fib_alloc_size'
      /\ function_set' \in BOOLEAN /\ pending' \in BOOLEAN
      /\ function_set' => pending' \/ fired'
  <2>1. CASE FibInit
    BY <1>1, <2>1, FibAssumption DEF FibInit
  <2>2. ASSUME NEW n \in 0..(FIB_SIZE_MIN - 1), FibInitFails(n)
        PROVE  /\ fib_alloc_size' = n /\ lost' = n /\ fibn_free' = 0
               /\ ~function_set' /\ ~pending'
               /\ function_set' \in BOOLEAN /\ pending' \in BOOLEAN
    BY <2>2, <1>1 DEF FibInitFails, IInv, TypeOK, Unused, table, timer
  <2>3. QED BY <2>1, <2>2, FibAssumption
<1>3. TypeOK'
  BY <1>1, <1>2 DEF IInv, TypeOK
<1>4. NodesConserved'
  BY <1>1, <1>2 DEF IInv, NodesConserved, TypeOK
<1>5. QED
  BY <1>1, <1>2, <1>3, <1>4 DEF IInv, Unused, RoomAfterTrim, NoGhosts, AgingRuns

LEMMA UpdateHitStep ==
    ASSUME IInv, NEW k \in Key, NEW w \in WfsId, NEW n \in DOMAIN fib_root,
           UpdateHit(k, w, n)
    PROVE  IInv'
<1>1. [wfsid |-> w, time_tag |-> current_time_tag] \in Node
  BY DEF Node, IInv, TypeOK
<1>2. fib_root' \in [DOMAIN fib_root -> Node] /\ DOMAIN fib_root' = DOMAIN fib_root
  BY <1>1 DEF UpdateHit, IInv, TypeOK
<1>3. TypeOK'
  BY <1>2 DEF UpdateHit, IInv, TypeOK, timer
<1>4. NodesConserved'
  BY <1>2 DEF UpdateHit, IInv, NodesConserved
<1>5. NoGhosts'
  <2>1. SUFFICES ASSUME NEW x \in DOMAIN fib_root
                 PROVE  fib_root'[x].wfsid \in heard'
    BY <1>2 DEF NoGhosts
  <2>2. CASE x = n
    <3>1. w \in heard'
      BY DEF UpdateHit
    <3>2. fib_root'[x].wfsid = w
      BY <2>2 DEF UpdateHit, IInv, TypeOK
    <3>3. QED BY <3>1, <3>2
  <2>3. CASE x # n
    <3>1. fib_root'[x] = fib_root[x]
      BY <2>3 DEF UpdateHit, IInv, TypeOK
    <3>2. fib_root[x].wfsid \in heard /\ heard \subseteq heard'
      BY DEF UpdateHit, IInv, NoGhosts
    <3>3. QED BY <3>1, <3>2
  <2>4. QED BY <2>2, <2>3
<1>6. QED
  BY <1>3, <1>4, <1>5 DEF UpdateHit, Running, IInv, Unused, RoomAfterTrim, AgingRuns, timer

LEMMA UpdateInsertStep ==
    ASSUME IInv, NEW k \in Key, NEW w \in WfsId, UpdateInsert(k, w)
    PROVE  IInv'
<1> DEFINE D == DOMAIN fib_root
           grows == Grows(fib_root, k)
<1>1. /\ fib_root' = my_insert(fib_root, k, w, current_time_tag)
      /\ heard' = heard \cup {w}
      /\ fib_root \in [D -> Node] /\ D \in SUBSET DOMAIN fib_root
      /\ current_time_tag \in 0..(TIME_TAGS - 1)
  BY DEF UpdateInsert, IInv, TypeOK
<1>2. /\ fib_root' \in [DOMAIN fib_root' -> Node]
      /\ DOMAIN fib_root' \subseteq Key /\ IsFiniteSet(DOMAIN fib_root')
      /\ grows \in {0, 1} /\ Cardinality(DOMAIN fib_root') = Cardinality(D) + grows
      /\ heard' \subseteq WfsId /\ NoGhosts'
  BY <1>1, StoreStep
<1> HIDE DEF grows
<1>3. PICK taken \in {0, 1} :
        /\ taken = IF fibn_free > 0 THEN 1 ELSE 0
        /\ fibn_free' = fibn_free - taken + (1 - grows)
        /\ fib_alloc_size' = fib_alloc_size + (1 - taken)
        /\ fib_size' = fib_size + grows
  BY DEF UpdateInsert, FromFreeList, grows
<1>4. fibn_free > 0 \/ fib_alloc_size < FIB_SIZE_MAX
  BY DEF UpdateInsert, FromFreeList, MayKmalloc
<1>5. /\ fibn_free \in Nat /\ fib_size \in Nat /\ fib_alloc_size \in 0..FIB_SIZE_MAX
      /\ lost \in Nat /\ fib_size = Cardinality(D)
      /\ fibn_free + fib_size + lost = fib_alloc_size
  BY DEF IInv, TypeOK, NodesConserved
<1>6. /\ fibn_free' \in Nat /\ fib_size' \in Nat /\ fib_alloc_size' \in 0..FIB_SIZE_MAX
      /\ fib_size' = Cardinality(DOMAIN fib_root')
      /\ fibn_free' + fib_size' + lost = fib_alloc_size'
  BY <1>2, <1>3, <1>4, <1>5, FibAssumption
<1>7. UNCHANGED <<iwa, current_time_tag, function_set, pending, fired, oops, lost>> /\ iwa = "probed"
  BY DEF UpdateInsert, Running, timer
<1>8. TypeOK' /\ NodesConserved'
  BY <1>2, <1>6, <1>7 DEF IInv, TypeOK, NodesConserved
<1>9. QED
  BY <1>2, <1>7, <1>8 DEF IInv, Unused, RoomAfterTrim, AgingRuns

LEMMA UpdateTrimStep ==
    ASSUME IInv, NEW k \in Key, NEW w \in WfsId, NEW R, UpdateTrim(k, w, R)
    PROVE  IInv'
<1> DEFINE D == DOMAIN fib_root
           tree == Trimmed(R)
           grows == Grows(tree, k)
           freed == Cardinality(R)
<1>1. /\ R \in Trims /\ fibn_free = 0 /\ iwa = "probed" /\ oops = "none"
      /\ UNCHANGED <<iwa, function_set, fired, lost>> /\ pending' = TRUE
      /\ current_time_tag' = NextTag
  BY DEF UpdateTrim, Running, FromFreeList, IInv, TypeOK
<1>2. /\ R \in SUBSET D /\ freed \in Nat
      /\ TrimmedSize(R) = Cardinality(D \ R) /\ TrimmedSize(R) = fib_size - freed
  BY <1>1, TrimSizes DEF IInv
<1>3. /\ tree \in [D \ R -> Node] /\ \A x \in D \ R : tree[x] = fib_root[x]
  BY <1>2, RestrictType DEF IInv, Trimmed
<1>4. /\ fib_size \in Nat /\ fib_alloc_size \in 0..FIB_SIZE_MAX /\ lost \in Nat
      /\ fib_size = Cardinality(D) /\ fib_size + lost = fib_alloc_size
      /\ NextTag \in 0..(TIME_TAGS - 1)
  BY <1>1, TagType DEF IInv, TypeOK, NodesConserved
<1>5. \/ oops' \in {"BUG_ON", "nomem"} /\ UNCHANGED <<table, fib_alloc_size, heard>>
      \/ oops' = "NULL" /\ freed = 0 /\ ~MayKmalloc /\ UNCHANGED <<table, fib_alloc_size, heard>>
      \/ \E taken \in {0, 1} :
            /\ fib_root' = my_insert(tree, k, w, NextTag)
            /\ fib_size' = TrimmedSize(R) + grows
            /\ fibn_free' = freed - taken + (1 - grows)
            /\ fib_alloc_size' = fib_alloc_size + (1 - taken)
            /\ heard' = heard \cup {w} /\ oops' = oops
            /\ (taken = 1 => freed > 0) /\ (taken = 0 => MayKmalloc)
  BY DEF UpdateTrim
<1>6. CASE /\ oops' \in {"BUG_ON", "nomem", "NULL"} /\ UNCHANGED <<table, fib_alloc_size, heard>>
           /\ oops' = "NULL" => (freed = 0 /\ ~MayKmalloc)
  <2>1. TypeOK'
    BY <1>1, <1>4, <1>6 DEF IInv, TypeOK, table
  <2>2. NodesConserved' /\ NoGhosts'
    BY <1>1, <1>6 DEF IInv, NodesConserved, NoGhosts, table
  <2>3. RoomAfterTrim'
    <3>1. SUFFICES ASSUME lost = 0, oops' = "NULL" PROVE FALSE
      BY <1>1 DEF RoomAfterTrim
    <3>2. fib_size = FIB_SIZE_MAX
      BY <3>1, <1>4, <1>6, FibAssumption DEF MayKmalloc
    <3>3. freed > 0
      BY <3>2, <1>1, FullTrim DEF IInv
    <3>4. QED BY <3>1, <3>3, <1>6
  <2>4. QED
    BY <1>1, <2>1, <2>2, <2>3 DEF IInv, Unused, AgingRuns
<1>7. ASSUME NEW taken \in {0, 1},
             fib_root' = my_insert(tree, k, w, NextTag),
             fib_size' = TrimmedSize(R) + grows,
             fibn_free' = freed - taken + (1 - grows),
             fib_alloc_size' = fib_alloc_size + (1 - taken),
             heard' = heard \cup {w}, oops' = oops,
             taken = 1 => freed > 0, taken = 0 => MayKmalloc
      PROVE  IInv'
  <2>1. /\ fib_root' \in [DOMAIN fib_root' -> Node]
        /\ DOMAIN fib_root' \subseteq Key /\ IsFiniteSet(DOMAIN fib_root')
        /\ grows \in {0, 1} /\ Cardinality(DOMAIN fib_root') = Cardinality(D \ R) + grows
        /\ heard' \subseteq WfsId /\ NoGhosts'
    <3>1. D \ R \in SUBSET DOMAIN fib_root
      OBVIOUS
    <3> HIDE DEF tree
    <3>2. QED BY <3>1, <1>3, <1>4, <1>7, StoreStep
  <2>2. taken = 0 => fib_alloc_size < FIB_SIZE_MAX
    BY <1>7 DEF MayKmalloc
  <2> HIDE DEF grows, freed
  <2>3. TrimmedSize(R) \in Nat
    BY <1>2, <1>4, DifferenceSize, FS_CardinalityType DEF IInv, TypeOK
  <2>4. /\ fibn_free' \in Nat /\ fib_size' \in Nat /\ fib_alloc_size' \in 0..FIB_SIZE_MAX
        /\ fib_size' = Cardinality(DOMAIN fib_root')
        /\ fibn_free' + fib_size' + lost = fib_alloc_size'
    BY <1>2, <1>4, <1>7, <2>1, <2>2, <2>3, FibAssumption
  <2>5. TypeOK' /\ NodesConserved'
    BY <1>1, <1>4, <1>7, <2>1, <2>4 DEF IInv, TypeOK, NodesConserved
  <2>6. QED
    BY <1>1, <1>7, <2>1, <2>5 DEF IInv, Unused, RoomAfterTrim, AgingRuns
<1>8. QED BY <1>5, <1>6, <1>7

LEMMA DeleteStep ==
    ASSUME IInv, NEW n \in DOMAIN fib_root, Delete(n)
    PROVE  IInv'
<1> DEFINE D == DOMAIN fib_root
<1>1. /\ fib_root' = Restrict(fib_root, D \ {n}) /\ heard' = heard
      /\ D \ {n} \in SUBSET DOMAIN fib_root
  BY DEF Delete
<1>2. /\ fib_root' \in [DOMAIN fib_root' -> Node] /\ DOMAIN fib_root' = D \ {n}
      /\ DOMAIN fib_root' \subseteq Key /\ IsFiniteSet(DOMAIN fib_root') /\ NoGhosts'
  BY <1>1, KeepStep
<1>3. /\ fib_size \in Nat /\ fibn_free \in Nat /\ lost \in Nat /\ fib_size = Cardinality(D)
      /\ IsFiniteSet(D) /\ fibn_free + fib_size + lost = fib_alloc_size
  BY DEF IInv, TypeOK, NodesConserved
<1>4. Cardinality(DOMAIN fib_root') = fib_size - 1
  BY <1>2, <1>3, FS_RemoveElement
<1>5. fib_size - 1 \in Nat
  BY <1>2, <1>4, FS_CardinalityType
<1>6. /\ fib_size' = fib_size - 1 /\ fibn_free' = fibn_free + 1
      /\ UNCHANGED <<iwa, fib_alloc_size, current_time_tag, function_set, pending,
                     fired, oops, lost, heard>>
      /\ iwa = "probed"
  BY DEF Delete, Running, timer
<1>7. TypeOK' /\ NodesConserved'
  BY <1>2, <1>3, <1>4, <1>5, <1>6 DEF IInv, TypeOK, NodesConserved
<1>8. QED
  BY <1>2, <1>6, <1>7 DEF IInv, Unused, RoomAfterTrim, AgingRuns

LEMMA DeleteWfsidStep ==
    ASSUME IInv, NEW w \in WfsId, DeleteWfsid(w)
    PROVE  IInv'
<1> DEFINE D == DOMAIN fib_root
           K == KeysOf(w)
<1>1. K \in SUBSET D /\ D \ K \in SUBSET DOMAIN fib_root
  BY DEF KeysOf
<1>2. /\ fib_root' \in [D \ K -> Node] /\ DOMAIN fib_root' = D \ K
      /\ D \ K \subseteq Key /\ IsFiniteSet(D \ K)
      /\ \A k \in D \ K : fib_root'[k] = fib_root[k]
  BY <1>1, RestrictType DEF IInv, DeleteWfsid
<1>3. NoGhosts'
  <2>1. SUFFICES ASSUME NEW x \in D \ K
                 PROVE  fib_root[x].wfsid \in heard'
    BY <1>2 DEF NoGhosts
  <2>2. fib_root[x].wfsid # w
    BY DEF KeysOf
  <2>3. fib_root[x].wfsid \in heard
    BY DEF IInv, NoGhosts
  <2>4. QED BY <2>2, <2>3 DEF DeleteWfsid
<1>4. /\ fib_size \in Nat /\ fibn_free \in Nat /\ lost \in Nat /\ fib_size = Cardinality(D)
      /\ IsFiniteSet(D) /\ fibn_free + fib_size + lost = fib_alloc_size
  BY DEF IInv, TypeOK, NodesConserved
<1>5. /\ Cardinality(K) \in Nat /\ Cardinality(D \ K) \in Nat
      /\ Cardinality(D \ K) = fib_size - Cardinality(K)
  BY <1>1, <1>4, DifferenceSize
<1>6. /\ fib_size' = Cardinality(D \ K) /\ fibn_free' = fibn_free + Cardinality(K)
      /\ UNCHANGED <<iwa, fib_alloc_size, current_time_tag, function_set, pending,
                     fired, oops, lost>>
      /\ iwa = "probed" /\ heard' \subseteq heard
  BY DEF DeleteWfsid, Running, timer
<1>7. fib_size' = Cardinality(DOMAIN fib_root') /\ fibn_free' + fib_size' + lost = fib_alloc_size
  BY <1>2, <1>4, <1>5, <1>6
<1>8. TypeOK' /\ NodesConserved'
  <2> HIDE DEF K
  <2>1. fib_root' \in [DOMAIN fib_root' -> Node]
    BY <1>2
  <2>2. QED BY <1>2, <1>4, <1>5, <1>6, <1>7, <2>1 DEF IInv, TypeOK, NodesConserved
<1>9. QED
  BY <1>3, <1>6, <1>8 DEF IInv, Unused, RoomAfterTrim, AgingRuns

LEMMA FireStep ==
    ASSUME IInv, Fire
    PROVE  IInv'
<1>1. TypeOK' /\ NodesConserved' /\ NoGhosts'
  BY DEF Fire, IInv, TypeOK, NodesConserved, NoGhosts, table
<1>2. QED
  BY <1>1 DEF Fire, Running, IInv, Unused, RoomAfterTrim, AgingRuns

LEMMA TimerActionStep ==
    ASSUME IInv, NEW R, TimerAction(R)
    PROVE  IInv'
<1> DEFINE D == DOMAIN fib_root
<1>1. /\ R \in Trims /\ iwa = "probed" /\ pending' = TRUE /\ fired' = FALSE
      /\ UNCHANGED <<iwa, fib_alloc_size, function_set, lost, heard>>
      /\ current_time_tag' = NextTag
      /\ oops = "none" /\ oops' \in {"none", "BUG_ON"}
      /\ fib_root' = Restrict(fib_root, D \ R)
      /\ fib_size' = TrimmedSize(R) /\ fibn_free' = fibn_free + Cardinality(R)
  BY DEF TimerAction, Running, add_timer, Trimmed
<1>2. /\ R \in SUBSET D /\ Cardinality(R) \in Nat
      /\ TrimmedSize(R) = Cardinality(D \ R) /\ TrimmedSize(R) = fib_size - Cardinality(R)
      /\ IsFiniteSet(D \ R)
  BY <1>1, TrimSizes DEF IInv
<1>3. /\ fib_root' \in [DOMAIN fib_root' -> Node] /\ DOMAIN fib_root' = D \ R
      /\ DOMAIN fib_root' \subseteq Key /\ IsFiniteSet(DOMAIN fib_root') /\ NoGhosts'
  <2>1. D \ R \in SUBSET DOMAIN fib_root
    OBVIOUS
  <2>2. QED BY <1>1, <2>1, KeepStep
<1>4. Cardinality(D \ R) \in Nat
  BY <1>2, FS_CardinalityType
<1>5. /\ fib_size' \in Nat /\ fibn_free' \in Nat
      /\ fib_size' = Cardinality(DOMAIN fib_root')
      /\ fibn_free' + fib_size' + lost = fib_alloc_size
  <2>1. /\ fib_size \in Nat /\ fibn_free \in Nat /\ lost \in Nat
        /\ fibn_free + fib_size + lost = fib_alloc_size
    BY DEF IInv, TypeOK, NodesConserved
  <2>2. fib_size' = fib_size - Cardinality(R) /\ fib_size' \in Nat
    BY <1>1, <1>2, <1>4
  <2>3. fib_size' = Cardinality(DOMAIN fib_root')
    BY <1>1, <1>2, <1>3
  <2>4. fibn_free' = fibn_free + Cardinality(R) /\ Cardinality(R) \in Nat
    BY <1>1, <1>2
  <2>5. QED BY <2>1, <2>2, <2>3, <2>4
<1>6. TypeOK' /\ NodesConserved'
  <2>1. current_time_tag' \in 0..(TIME_TAGS - 1)
    BY <1>1, TagType DEF IInv
  <2>2. QED BY <1>1, <1>3, <1>5, <2>1 DEF IInv, TypeOK, NodesConserved
<1>7. QED
  BY <1>1, <1>3, <1>5, <1>6 DEF IInv, Unused, RoomAfterTrim, AgingRuns

LEMMA FibCleanupStep ==
    ASSUME IInv, FibCleanup
    PROVE  IInv'
<1>1. DOMAIN fib_root' = {} /\ fib_root' \in [{} -> Node]
  BY DEF FibCleanup, Empty
<1>2. IsFiniteSet({}) /\ Cardinality({}) = 0
  BY FS_EmptySet
<1>3. TypeOK'
  <2>1. /\ fib_root' \in [DOMAIN fib_root' -> Node] /\ DOMAIN fib_root' \subseteq Key
        /\ IsFiniteSet(DOMAIN fib_root')
    BY <1>1, <1>2
  <2>2. /\ fib_alloc_size' \in 0..FIB_SIZE_MAX /\ current_time_tag' \in 0..(TIME_TAGS - 1)
        /\ fibn_free' \in Nat /\ fib_size' \in Nat /\ lost' \in Nat
    BY FibAssumption DEF FibCleanup
  <2>3. QED BY <2>1, <2>2 DEF FibCleanup, IInv, TypeOK
<1>4. NodesConserved'
  BY <1>1, <1>2 DEF FibCleanup, NodesConserved
<1>5. QED
  BY <1>1, <1>3, <1>4
  DEF FibCleanup, Running, IInv, Unused, RoomAfterTrim, NoGhosts, AgingRuns

-----------------------------------------------------------------------------
LEMMA NextInv == IInv /\ [Next]_vars => IInv'
<1> SUFFICES ASSUME IInv, [Next]_vars PROVE IInv'
  OBVIOUS
<1>1. CASE UNCHANGED vars
  BY <1>1 DEF vars, table, timer, IInv, TypeOK, NodesConserved, Unused,
              RoomAfterTrim, NoGhosts, AgingRuns
<1>2. CASE Next
  BY <1>2, InitStep, UpdateHitStep, UpdateInsertStep, UpdateTrimStep, DeleteStep,
     DeleteWfsidStep, FireStep, TimerActionStep, FibCleanupStep DEF Next
<1>3. QED BY <1>1, <1>2

(* The inductive invariant of the forwarding table holds in every state.    *)
THEOREM FibInvariant == Spec => []IInv
BY InitInv, NextInv, PTL DEF Spec

(* ixgbe_wfs_fib.c loses no node and its fib_size is the size of the tree,  *)
(* whatever order of updates, deletions, trims and failures.                *)
THEOREM FibConserves == Spec => []NodesConserved
<1>1. IInv => NodesConserved
  BY DEF IInv
<1>2. QED BY <1>1, FibInvariant, PTL

(* The unchecked second fibn_alloc() of ixgbe_wfs_fib_update() cannot fail  *)
(* for want of nodes if ixgbe_wfs_fib_init() succeeded.                     *)
THEOREM FibHasRoom == Spec => []RoomAfterTrim
<1>1. IInv => RoomAfterTrim
  BY DEF IInv
<1>2. QED BY <1>1, FibInvariant, PTL

(* After ixgbe_wfs_fib_delete_wfsid() no entry names the workstation until  *)
(* it is heard again, in spite of the search that may hit any node.         *)
THEOREM FibForgets == Spec => []NoGhosts
<1>1. IInv => NoGhosts
  BY DEF IInv
<1>2. QED BY <1>1, FibInvariant, PTL

(* The table is well typed, and fib_alloc_size stays within FIB_SIZE_MAX.   *)
THEOREM FibTypes == Spec => []TypeOK
<1>1. IInv => TypeOK
  BY DEF IInv
<1>2. QED BY <1>1, FibInvariant, PTL

(* The timer of an initialised table is pending or its handler runs, also   *)
(* when ixgbe_wfs_fib_update() arms it from outside.                        *)
THEOREM FibAges == Spec => []AgingRuns
<1>1. IInv => AgingRuns
  BY DEF IInv
<1>2. QED BY <1>1, FibInvariant, PTL
=============================================================================
