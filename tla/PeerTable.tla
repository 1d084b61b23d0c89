----------------------------- MODULE PeerTable -----------------------------
(***************************************************************************)
(* What the RAPS engine promises the transmit path, without queues, flags, *)
(* timers or a state machine: for every other workstation a station knows  *)
(* at most one port leading to the peer's primary and one leading to its   *)
(* secondary side, and frames for the peer leave by the first it knows.    *)
(* One announce teaches one side, one failure or expiry forgets sides of   *)
(* one peer, and the choice of the port changes in the same step as the    *)
(* knowledge it rests on.                                                  *)
(***************************************************************************)
CONSTANTS
    Peers,     \* the other workstations
    Ports,     \* the two ports of this one
    NULL       \* no port

Side == {"pri", "sec"}
other(s) == IF s = "pri" THEN "sec" ELSE "pri"

VARIABLES
    known,     \* the port that leads to each side of each peer, or NULL
    route      \* the port frames for each peer leave by, or NULL: dropped

tvars == <<known, route>>

Nothing == [s \in Side |-> NULL]
Choice(k) == IF k["pri"] # NULL THEN k["pri"] ELSE k["sec"]

(* The knowledge about id becomes k, and its route with it.                 *)
Update(id, k) ==
    /\ known' = [known EXCEPT ![id] = k]
    /\ route' = [route EXCEPT ![id] = Choice(k)]

(* Side s of the peer was heard through port p.  A port leads to one side   *)
(* of a peer: what led to the other side through it is forgotten.           *)
Learn(id, s, p) ==
    Update(id, [known[id] EXCEPT ![s] = p, ![other(s)] = IF @ = p THEN NULL ELSE @])

(* The sides in S of the peer are not reached any more.                     *)
Lose(id, S) ==
    Update(id, [s \in Side |-> IF s \in S THEN NULL ELSE known[id][s]])

(* The device was closed and opened again.                                  *)
Restart ==
    /\ known' = [id \in Peers |-> Nothing]
    /\ route' = [id \in Peers |-> NULL]

TInit ==
    /\ known = [id \in Peers |-> Nothing]
    /\ route = [id \in Peers |-> NULL]

TNext ==
    \/ \E id \in Peers, s \in Side, p \in Ports : Learn(id, s, p)
    \/ \E id \in Peers, S \in SUBSET Side : Lose(id, S)
    \/ Restart

TSpec == TInit /\ [][TNext]_tvars
=============================================================================
