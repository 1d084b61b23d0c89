------------------------------- MODULE WfsFib -------------------------------
(***************************************************************************)
(* The forwarding table of one workstation (ixgbe_wfs_fib.c): which        *)
(* workstation each (VLAN, MAC address) was last heard from, the nodes the *)
(* table is made of, and the timer that ages it.  Every operation holds    *)
(* fib_lock from its first to its last access, so each is one action; the  *)
(* timer handler fires first and gets the lock later.                      *)
(*                                                                         *)
(* A key is a number, in the order keycmp() gives them.  The red-black     *)
(* tree is the set of its keys with their data.  Nodes are                 *)
(* interchangeable, so the free list is a number.  my_search() compares a  *)
(* fib_key nobody initialises with the nodes of the tree: it finds any     *)
(* node or none, whatever key it was asked for.                            *)
(***************************************************************************)
EXTENDS Integers, FiniteSets, Functions

CONSTANTS
    Key,           \* (vid, mac) pairs, as numbers in the order of keycmp()
    WfsId,         \* workstation ids, WFSID_MIN..WFSID_MAX
    FIB_SIZE_MIN,  \* nodes allocated at initialisation, and left by a trim
    FIB_SIZE_MAX,  \* most nodes ever allocated
    TIME_TAGS,     \* values of the u8 current_time_tag: 256 in the code
    KmallocFails   \* whether kmalloc(GFP_ATOMIC) may return NULL

ASSUME FibAssumption ==
    /\ Key \subseteq Int
    /\ FIB_SIZE_MIN \in Nat /\ FIB_SIZE_MAX \in Nat
    /\ FIB_SIZE_MIN < FIB_SIZE_MAX
    /\ TIME_TAGS \in Nat \ {0} /\ KmallocFails \in BOOLEAN

Node == [wfsid : WfsId, time_tag : 0..(TIME_TAGS - 1)]

VARIABLES
    iwa,              \* "unused", or "probed" from ixgbe_probe to ixgbe_remove
    fib_root,         \* the tree: a function from the keys in it to Node
    fibn_free,        \* length of the free list
    fib_alloc_size,
    fib_size,
    current_time_tag,
    function_set,     \* fib_timer.function has been assigned
    pending,          \* fib_timer is pending
    fired,            \* timer_action() runs, waiting for fib_lock
    oops,             \* what the kernel stopped on, "none" while it runs
    lost,             \* history: nodes allocated by a failed initialisation
    heard             \* history: workstations heard since they were deleted

table == <<fib_root, fibn_free, fib_size>>
timer == <<function_set, pending, fired>>
vars  == <<iwa, table, fib_alloc_size, current_time_tag, timer, oops, lost, heard>>

TypeOK ==
    /\ iwa \in {"unused", "probed"}
    /\ fib_root \in [DOMAIN fib_root -> Node] /\ DOMAIN fib_root \subseteq Key
    /\ IsFiniteSet(DOMAIN fib_root)
    /\ fibn_free \in Nat /\ fib_size \in Nat /\ lost \in Nat
    /\ fib_alloc_size \in 0..FIB_SIZE_MAX
    /\ current_time_tag \in 0..(TIME_TAGS - 1)
    /\ function_set \in BOOLEAN /\ pending \in BOOLEAN /\ fired \in BOOLEAN
    /\ oops \in {"none", "BUG_ON", "nomem", "NULL"}
    /\ heard \subseteq WfsId

Running == iwa = "probed" /\ oops = "none"

Empty == [k \in {} |-> 0]

(* fibn_alloc() gives a node of the free list, or else a new one.  The      *)
(* second kind may fail for want of memory.                                 *)
FromFreeList == fibn_free > 0

MayKmalloc    == fib_alloc_size < FIB_SIZE_MAX

-----------------------------------------------------------------------------
(* my_insert(): a key already in the tree keeps its node, which takes the   *)
(* new data only if the workstation differs, and the caller's node goes     *)
(* back to the free list.                                                   *)
my_insert(tree, k, w, tag) ==
    IF k \in DOMAIN tree /\ tree[k].wfsid = w
    THEN tree
    ELSE [x \in DOMAIN tree \cup {k} |->
            IF x = k THEN [wfsid |-> w, time_tag |-> tag] ELSE tree[x]]

GrowsAlways(tree, k) == 1
Grows(tree, k) == IF k \in DOMAIN tree THEN 0 ELSE 1

(* The keys a trim removes: nothing while the table is not full, else the   *)
(* nodes of an earlier time tag, else (all are current) the highest keys.   *)
OldKeys == {k \in DOMAIN fib_root : fib_root[k].time_tag # current_time_tag}

HighKeys ==
    {R \in SUBSET DOMAIN fib_root :
        /\ Cardinality(R) = FIB_SIZE_MAX - FIB_SIZE_MIN
        /\ \A r \in R, k \in DOMAIN fib_root \ R : k < r}

TrimsOnce == {IF fib_size < FIB_SIZE_MAX THEN {} ELSE OldKeys}
Trims == IF fib_size < FIB_SIZE_MAX THEN {{}}
         ELSE IF Cardinality(DOMAIN fib_root \ OldKeys) = FIB_SIZE_MAX THEN HighKeys
         ELSE {OldKeys}

Trimmed(R) == Restrict(fib_root, DOMAIN fib_root \ R)

TrimmedSize(R) == IF fib_size < FIB_SIZE_MAX THEN fib_size
                  ELSE Cardinality(DOMAIN fib_root \ R)

NextTag == (current_time_tag + 1) % TIME_TAGS

(* add_timer() stops the kernel if the timer is pending.                    *)
add_timerNever == UNCHANGED <<oops, pending>>
add_timer == /\ oops'    = IF pending THEN "BUG_ON" ELSE oops
             /\ pending' = TRUE

-----------------------------------------------------------------------------
(* ixgbe_wfs_fib_init(), from ixgbe_wfs_init(): FIB_SIZE_MIN nodes on the   *)
(* free list and the timer armed.                                           *)
FibInit ==
    /\ iwa = "unused" /\ oops = "none"
    /\ iwa' = "probed"
    /\ fibn_free' = FIB_SIZE_MIN /\ fib_alloc_size' = FIB_SIZE_MIN
    /\ function_set' = TRUE /\ pending' = TRUE
    /\ UNCHANGED <<fib_root, fib_size, current_time_tag, fired, oops, lost, heard>>

(* kmalloc() fails after n nodes: they are on no list but fibns, and the    *)
(* timer is not set up.  ixgbe_probe() overwrites the error it is given     *)
(* and goes on to bring the workstation up.                                 *)
FibInitFails(n) ==
    /\ KmallocFails
    /\ iwa = "unused" /\ oops = "none"
    /\ iwa' = "probed"
    /\ fib_alloc_size' = n /\ lost' = n
    /\ UNCHANGED <<table, current_time_tag, timer, oops, heard>>

(* ixgbe_wfs_fib_update(), my_search() having found node n: the node of     *)
(* some key takes the data, whatever its own key is.                        *)
UpdateHit(k, w, n) ==
    /\ Running
    /\ fib_root' = [fib_root EXCEPT ![n] = [wfsid |-> w, time_tag |-> current_time_tag]]
    /\ heard' = heard \cup {w}
    /\ UNCHANGED <<iwa, fibn_free, fib_size, fib_alloc_size, current_time_tag, timer,
                   oops, lost>>

(* my_search() found none and fibn_alloc() gave a node.                     *)
UpdateInsert(k, w) ==
    /\ Running
    /\ FromFreeList \/ MayKmalloc
    /\ LET grows == Grows(fib_root, k)
           taken == IF FromFreeList THEN 1 ELSE 0
       IN  /\ fibn_free'      = fibn_free - taken + (1 - grows)
           /\ fib_alloc_size' = fib_alloc_size + (1 - taken)
           /\ fib_size'       = fib_size + grows
    /\ fib_root' = my_insert(fib_root, k, w, current_time_tag)
    /\ heard' = heard \cup {w}
    /\ UNCHANGED <<iwa, current_time_tag, timer, oops, lost>>

(* my_search() found none and fibn_alloc() gave none: the table is trimmed  *)
(* of R, which arms the timer, and fibn_alloc() tried once more.            *)
UpdateTrim(k, w, R) ==
    /\ Running
    /\ ~FromFreeList /\ (MayKmalloc => KmallocFails)
    /\ R \in Trims
    /\ current_time_tag' = NextTag
    /\ pending' = TRUE
    /\ LET freed == Cardinality(R)
           tree  == Trimmed(R)
           grows == Grows(tree, k)
           Store(taken) ==
               /\ fib_root'       = my_insert(tree, k, w, NextTag)
               /\ fib_size'       = TrimmedSize(R) + grows
               /\ fibn_free'      = freed - taken + (1 - grows)
               /\ fib_alloc_size' = fib_alloc_size + (1 - taken)
               /\ heard'          = heard \cup {w}
               /\ oops'           = oops
           Stop(why) == oops' = why /\ UNCHANGED <<table, fib_alloc_size, heard>>
       IN  \/ pending /\ Stop("BUG_ON")
           \/ ~pending /\ freed > 0 /\ Store(1)
           \/ ~pending /\ freed = 0 /\ MayKmalloc /\ (Store(0) \/ (KmallocFails /\ Stop("nomem")))
           \/ ~pending /\ freed = 0 /\ ~MayKmalloc /\ Stop("NULL")
    /\ UNCHANGED <<iwa, function_set, fired, lost>>

(* ixgbe_wfs_fib_delete(): some node, or none, leaves the table.            *)
Delete(n) ==
    /\ Running
    /\ fib_root'  = Restrict(fib_root, DOMAIN fib_root \ {n})
    /\ fibn_free' = fibn_free + 1
    /\ fib_size'  = fib_size - 1
    /\ UNCHANGED <<iwa, fib_alloc_size, current_time_tag, timer, oops, lost, heard>>

(* ixgbe_wfs_fib_delete_wfsid(), when the FSM takes workstation w for lost. *)
KeysOfCurrent(w) ==
    {k \in DOMAIN fib_root : fib_root[k] = [wfsid |-> w, time_tag |-> current_time_tag]}
KeysOf(w) == {k \in DOMAIN fib_root : fib_root[k].wfsid = w}

DeleteWfsid(w) ==
    /\ Running
    /\ LET kept == DOMAIN fib_root \ KeysOf(w)
       IN  /\ fib_root'  = Restrict(fib_root, kept)
           /\ fibn_free' = fibn_free + Cardinality(KeysOf(w))
           /\ fib_size'  = Cardinality(kept)
    /\ heard' = heard \ {w}
    /\ UNCHANGED <<iwa, fib_alloc_size, current_time_tag, timer, oops, lost>>

(* The timer goes off.  FIB_TIMEOUT is five minutes: a handler that fired   *)
(* has the lock long before the timer can go off again.                     *)
Fire ==
    /\ Running /\ pending /\ ~fired
    /\ pending' = FALSE /\ fired' = TRUE
    /\ UNCHANGED <<iwa, table, fib_alloc_size, current_time_tag, function_set,
                   oops, lost, heard>>

(* timer_action(): the table is trimmed of R and the timer armed again.     *)
TimerAction(R) ==
    /\ Running /\ fired
    /\ R \in Trims
    /\ fib_root'  = Trimmed(R)
    /\ fib_size'  = TrimmedSize(R)
    /\ fibn_free' = fibn_free + Cardinality(R)
    /\ current_time_tag' = NextTag
    /\ add_timer
    /\ fired' = FALSE
    /\ UNCHANGED <<iwa, fib_alloc_size, function_set, lost, heard>>

(* ixgbe_wfs_fib_cleanup(): del_timer_sync() waits for a handler that       *)
(* runs, then every node on fibns is given back.  The next probe clears     *)
(* the whole structure.                                                     *)
FibCleanup ==
    /\ Running /\ ~fired
    /\ iwa' = "unused"
    /\ fib_root' = Empty /\ fibn_free' = 0 /\ fib_size' = 0
    /\ fib_alloc_size' = 0 /\ current_time_tag' = 0
    /\ function_set' = FALSE /\ pending' = FALSE
    /\ lost' = 0 /\ heard' = {}
    /\ UNCHANGED <<fired, oops>>

-----------------------------------------------------------------------------
Init ==
    /\ iwa = "unused"
    /\ fib_root = Empty /\ fibn_free = 0 /\ fib_size = 0
    /\ fib_alloc_size = 0 /\ current_time_tag = 0
    /\ function_set = FALSE /\ pending = FALSE /\ fired = FALSE
    /\ oops = "none" /\ lost = 0 /\ heard = {}

Next ==
    \/ FibInit
    \/ \E n \in 0..(FIB_SIZE_MIN - 1) : FibInitFails(n)
    \/ \E k \in Key, w \in WfsId, n \in DOMAIN fib_root : UpdateHit(k, w, n)
    \/ \E k \in Key, w \in WfsId : UpdateInsert(k, w)
    \/ \E k \in Key, w \in WfsId, R \in SUBSET DOMAIN fib_root : UpdateTrim(k, w, R)
    \/ \E n \in DOMAIN fib_root : Delete(n)
    \/ \E w \in WfsId : DeleteWfsid(w)
    \/ Fire
    \/ \E R \in SUBSET DOMAIN fib_root : TimerAction(R)
    \/ FibCleanup

Spec == Init /\ [][Next]_vars

-----------------------------------------------------------------------------
(* No node is lost or in two places: those in the tree, those on the free   *)
(* list and those a failed initialisation stranded are all there are, and   *)
(* fib_size, which every operation keeps by hand, counts the tree.          *)
NodesConserved ==
    /\ fib_size = Cardinality(DOMAIN fib_root)
    /\ fibn_free + fib_size + lost = fib_alloc_size

(* ixgbe_wfs_fib_update() uses the node its second fibn_alloc() returned    *)
(* without a test.  When the table was initialised, running out of nodes    *)
(* never makes that NULL: only kmalloc() can.                               *)
RoomAfterTrim == lost = 0 => oops # "NULL"

(* After the FSM took a workstation for lost (delete_wfsid), no entry sends *)
(* traffic to it until a packet of it is heard again, although my_search()  *)
(* may write a workstation into any node.                                   *)
NoGhosts == \A k \in DOMAIN fib_root : fib_root[k].wfsid \in heard

(* The table goes on being aged: the timer is pending, or its handler runs, *)
(* as long as the table was initialised.                                    *)
AgingRuns == iwa = "probed" /\ function_set => pending \/ fired

(* add_timer() asserts that the timer is not pending; the trim that         *)
(* ixgbe_wfs_fib_update() does arms it although it is.                      *)
TimerNotPending == oops # "BUG_ON"
=============================================================================
