--------------------------- MODULE WfsLinkProofs ---------------------------
(***************************************************************************)
(* The link notification of the two ports, for any number of changes,      *)
(* opens, closes and resets.                                               *)
(*                                                                         *)
(* That the carrier is not left on is a matter of the two watchdogs alone  *)
(* (Carrier) and needs no assumption.  That no change of a link is lost    *)
(* needs the three limits the run has: no change in the window in which    *)
(* LSC is enabled with an update outstanding, none during an open, close   *)
(* or reset, and a watchdog that ends within the sleep of ixgbe_down().    *)
(* The argument: an update reads the link while LSC is masked, so a later  *)
(* change stays latched (Fresh); and LSC is masked only while somebody is  *)
(* going to enable it again (Armed).                                       *)
(***************************************************************************)
EXTENDS WfsLink, TLAPS

(* Who turns the carrier off once both links are down: the watchdog of the  *)
(* port that failed last.  One that turns it on has its link up.            *)
GoingDown(p) == wd[p] \in {"down", "ringdown", "off"}
Carrier ==
    /\ \A p \in Port : wd[p] \in {"up", "on"} => link_up[p]
    /\ carrier => \E p \in Port : link_up[p] \/ GoingDown(p)
CarrierInv == TypeOK /\ Carrier

(* The ports that are down, by where the control path is.                   *)
Steps ==
    /\ ctl.op \in {"closed", "opened"} => ctl.step = "idle"
    /\ ctl.op = "open" => ctl.step \in {"carrier", "up", "need"}
    /\ ctl.op = "close" => ctl.step \in {"down", "sleep", "irq"}
    /\ ctl.op = "reinit" => ctl.step \in {"down", "sleep", "irq", "up", "need"}
IsDown(p) ==
    \/ ctl.op = "closed"
    \/ ctl.op = "open" /\ IF p = ctl.port THEN ctl.step # "need" ELSE p = secondary
    \/ ctl.op = "close" /\ IF p = ctl.port THEN ctl.step # "down" ELSE p = primary
    \/ ctl.op = "reinit" /\ p = ctl.port /\ ctl.step \in {"sleep", "irq", "up"}
Downs == Steps /\ \A p \in Port : down[p] <=> IsDown(p)

(* A port that is down, once ixgbe_down() is through with it, and until     *)
(* ixgbe_up_complete() asks for the first update.                           *)
At(p, S) == ctl.port = p /\ ctl.step \in S
Quiet(p) ==
    /\ At(p, {"irq"}) => wd[p] = "idle"
    /\ (down[p] /\ ~At(p, {"sleep", "irq"})) \/ At(p, {"need"}) => irq[p] = "idle" /\ wd[p] = "idle" /\ ~need[p]
    /\ down[p] /\ ~At(p, {"sleep", "irq"}) => ~eims[p]
    /\ At(p, {"need"}) => ~lsc[p]

(* LSC is off only while somebody is going to enable it.                    *)
Armed(p) == ~down[p] /\ ~eims[p] => need[p] \/ wd[p] = "enable" \/ irq[p] = "enable"

(* A port that missed the state of its link will look again.  While the     *)
(* update is outstanding the cause stays latched, because it is masked.     *)
Watching(p) == ~down[p] /\ ~At(p, {"need"})
Fresh(p) ==
    /\ wd[p] = "checked" => need[p]
    /\ Watching(p) =>
         /\ wd[p] = "checked" /\ ~(seen[p] <=> link[p]) => lsc[p] /\ (eims[p] => irq[p] = "mask")
         /\ wd[p] \in {"enable", "store"} /\ ~(seen[p] <=> link[p]) => need[p] \/ lsc[p]
         /\ wd[p] \notin {"checked", "enable", "store"} /\ ~(link_up[p] <=> link[p]) => need[p] \/ lsc[p]

LinkInv == TypeOK /\ Downs /\ \A p \in Port : Quiet(p) /\ Armed(p) /\ Fresh(p)

-----------------------------------------------------------------------------
LEMMA Ports == primary \in Port /\ secondary \in Port /\ primary # secondary
               /\ \A p \in Port : p = primary \/ p = secondary
BY LinkAssumption DEF Port

(* The functions on ports, one by one.                                      *)
LEMMA Types ==
    TypeOK <=>
        /\ link \in [Port -> BOOLEAN] /\ lsc \in [Port -> BOOLEAN] /\ eims \in [Port -> BOOLEAN]
        /\ need \in [Port -> BOOLEAN] /\ down \in [Port -> BOOLEAN] /\ seen \in [Port -> BOOLEAN]
        /\ link_up \in [Port -> BOOLEAN]
        /\ irq \in [Port -> {"idle", "mask", "enable"}]
        /\ wd \in [Port -> {"idle", "checked", "enable", "store", "up", "on", "down", "ringdown", "off"}]
        /\ iwa_up \in BOOLEAN /\ carrier \in BOOLEAN
        /\ ctl \in Control /\ inputs \in 0..MaxInputs
BY DEF TypeOK

LEMMA TypesNext ==
    TypeOK' <=>
        /\ link' \in [Port -> BOOLEAN] /\ lsc' \in [Port -> BOOLEAN] /\ eims' \in [Port -> BOOLEAN]
        /\ need' \in [Port -> BOOLEAN] /\ down' \in [Port -> BOOLEAN] /\ seen' \in [Port -> BOOLEAN]
        /\ link_up' \in [Port -> BOOLEAN]
        /\ irq' \in [Port -> {"idle", "mask", "enable"}]
        /\ wd' \in [Port -> {"idle", "checked", "enable", "store", "up", "on", "down", "ringdown", "off"}]
        /\ iwa_up' \in BOOLEAN /\ carrier' \in BOOLEAN
        /\ ctl' \in Control /\ inputs' \in 0..MaxInputs
BY DEF TypeOK

LEMMA InitTypes == Init => TypeOK
<1> SUFFICES ASSUME Init PROVE TypeOK
  OBVIOUS
<1>1. link \in [Port -> BOOLEAN]
  BY LinkAssumption DEF Init
<1>2. ctl \in Control /\ inputs \in 0..MaxInputs
  BY Ports, LinkAssumption DEF Init, Control, Idle
<1>3. QED BY <1>1, <1>2, Types DEF Init

LEMMA TypeStep == ASSUME TypeOK, Next PROVE TypeOK'
<1> USE Ports, Types, TypesNext DEF port_vars, wd_vars, dev_vars, ctl_vars
<1>1. ASSUME NEW p \in Port, Flap(p) PROVE TypeOK'
  BY <1>1, LinkAssumption DEF Flap
<1>2. ASSUME NEW p \in Port, IrqNext(p) PROVE TypeOK'
  BY <1>2, ZenonT(30) DEF IrqNext, Interrupt, InterruptMask, InterruptEnable, IrqEnable
<1>3. ASSUME NEW p \in Port, WdNext(p) PROVE TypeOK'
  <2>1. CASE CheckLink(p) \/ UpdateDone(p) \/ UpdatePolls(p) \/ UpdateEnable(p)
    BY <2>1, ZenonT(30) DEF CheckLink, UpdateDone, UpdatePolls, UpdateEnable
  <2>2. CASE StoreLink(p)
    BY <2>2 DEF StoreLink
  <2>3. CASE LinkIsUp(p) \/ LinkIsDown(p)
    BY <2>3 DEF LinkIsUp, LinkIsDown
  <2>4. CASE CarrierOn(p) \/ RingDown(p) \/ CarrierOff(p)
    BY <2>4 DEF CarrierOn, RingDown, CarrierOff
  <2>5. QED BY <1>3, <2>1, <2>2, <2>3, <2>4 DEF WdNext
<1>4. ASSUME NEW p \in Port, Open \/ Close \/ Reinit(p) PROVE TypeOK'
  BY <1>4, LinkAssumption DEF Open, Close, Reinit, Operation, Control
<1>5. CASE CtlNext
  <2>0. ASSUME NEW op \in {"closed", "opened", "open", "close", "reinit"}, NEW p \in Port,
               NEW step \in {"idle", "carrier", "up", "need", "down", "sleep", "irq"}
        PROVE  [op |-> op, port |-> p, step |-> step] \in Control
    BY DEF Control
  <2>1. CASE OpenCarrier
    BY <2>1 DEF OpenCarrier, Control
  <2>6. CASE UpFinish
    <3>1. ctl' \in Control
      BY <2>0, <2>6 DEF UpFinish, Idle
    <3>2. QED BY <3>1, <2>6 DEF UpFinish
  <2>2. CASE UpStart
    BY <2>2 DEF UpStart, IrqEnable, Control
  <2>3. CASE DownStart \/ DownCarrier
    BY <2>3, ZenonT(30) DEF DownStart, DownCarrier, Control
  <2>4. CASE DownFinish
    BY <2>4 DEF DownFinish, Control, Idle
  <2>5. QED BY <1>5, <2>1, <2>2, <2>3, <2>4, <2>6 DEF CtlNext
<1>6. QED BY <1>1, <1>2, <1>3, <1>4, <1>5 DEF Next

(* The carrier: the watchdog of a port that fails leaves it on only for a   *)
(* link that is up, and turns it off otherwise.                             *)
LEMMA CarrierStep == ASSUME CarrierInv, Next PROVE Carrier'
<1>a. TypeOK /\ Carrier
  BY DEF CarrierInv
<1> USE Ports, Types DEF Carrier, GoingDown
<1>1. ASSUME NEW p \in Port, Flap(p) \/ IrqNext(p) \/ Reinit(p) \/ Open \/ Close PROVE Carrier'
  BY <1>1, <1>a DEF Flap, IrqNext, Interrupt, InterruptMask, InterruptEnable, Reinit, Open, Close, Operation,
                    wd_vars, dev_vars
<1>2. ASSUME NEW p \in Port, WdNext(p) PROVE Carrier'
  <2>1. CASE CheckLink(p) \/ UpdateDone(p) \/ UpdatePolls(p) \/ UpdateEnable(p)
    BY <2>1, <1>a DEF CheckLink, UpdateDone, UpdatePolls, UpdateEnable, dev_vars
  <2>2. CASE StoreLink(p)
    BY <2>2, <1>a DEF StoreLink, dev_vars
  <2>3. CASE LinkIsUp(p)
    BY <2>3, <1>a DEF LinkIsUp
  <2>4. CASE CarrierOn(p)
    BY <2>4, <1>a DEF CarrierOn
  <2>5. CASE LinkIsDown(p)
    BY <2>5, <1>a DEF LinkIsDown, dev_vars, wfs_other
  <2>6. CASE RingDown(p) \/ CarrierOff(p)
    BY <2>6, <1>a DEF RingDown, CarrierOff
  <2>7. QED BY <1>2, <2>1, <2>2, <2>3, <2>4, <2>5, <2>6 DEF WdNext
<1>3. CASE CtlNext
  BY <1>3, <1>a DEF CtlNext, OpenCarrier, UpStart, UpFinish, DownStart, DownCarrier, DownFinish, wd_vars, dev_vars
<1>4. QED BY <1>1, <1>2, <1>3 DEF Next

(* The carrier of the device at rest is not left on with both links down,   *)
(* whatever the watchdogs, the interrupts and the control path interleave.  *)
THEOREM NoFalseCarrierAlways == Spec => []NoFalseCarrier
<1>1. Init => CarrierInv
  BY InitTypes DEF Init, CarrierInv, Carrier
<1>2. CarrierInv /\ [Next]_vars => CarrierInv'
  <2>1. ASSUME CarrierInv, UNCHANGED vars PROVE CarrierInv'
    BY <2>1 DEF CarrierInv, TypeOK, Carrier, GoingDown, vars, port_vars, wd_vars, dev_vars, ctl_vars
  <2>2. QED BY <2>1, TypeStep, CarrierStep DEF CarrierInv
<1>3. CarrierInv => NoFalseCarrier
  BY DEF CarrierInv, Carrier, GoingDown, NoFalseCarrier, AllSettled, Settled
<1>4. QED BY <1>1, <1>2, <1>3, PTL DEF Spec

-----------------------------------------------------------------------------
(* What the notification relies on, and the run states as well: the link    *)
(* does not change in the window in which LSC is enabled with an update     *)
(* outstanding, nor during an open, close or reset, and a watchdog ends     *)
(* within the sleep of ixgbe_down().                                        *)
LinkLimits == ~FlapInWindow /\ WatchdogPrompt /\ FlapStates \subseteq {"closed", "opened"}

(* The control path is the only one to take a port down and up.             *)
LEMMA DownsStep == ASSUME LinkInv, Next PROVE Downs'
<1>a. TypeOK /\ Downs
  BY DEF LinkInv
<1>b. ctl \in Control /\ down \in [Port -> BOOLEAN]
  BY <1>a, Types
<1> USE Ports DEF Downs, Steps, IsDown
<1>1. CASE UNCHANGED <<ctl, down>>
  BY <1>1, <1>a
<1>2. ASSUME NEW p \in Port, Flap(p) \/ IrqNext(p) \/ WdNext(p) PROVE UNCHANGED <<ctl, down>>
  BY <1>2 DEF Flap, IrqNext, Interrupt, InterruptMask, InterruptEnable, WdNext, CheckLink, UpdateDone,
              UpdatePolls, UpdateEnable, StoreLink, LinkIsUp, CarrierOn, LinkIsDown, RingDown, CarrierOff,
              port_vars, ctl_vars
<1>3. ASSUME NEW p \in Port, Open \/ Close \/ Reinit(p) PROVE Downs'
  BY <1>3, <1>a, <1>b DEF Open, Close, Reinit, Operation, Idle, port_vars
<1>4. CASE OpenCarrier
  BY <1>4, <1>a, <1>b DEF OpenCarrier, port_vars, Control
<1>5. CASE UpStart
  BY <1>5, <1>a, <1>b DEF UpStart, Control
<1>6. CASE UpFinish
  BY <1>6, <1>a, <1>b DEF UpFinish, Idle, Control
<1>7. CASE DownStart
  BY <1>7, <1>a, <1>b DEF DownStart, Control
<1>8. CASE DownCarrier
  BY <1>8, <1>a, <1>b DEF DownCarrier, port_vars, Control
<1>9. CASE DownFinish
  BY <1>9, <1>a, <1>b DEF DownFinish, Idle, Control
<1>10. QED BY <1>1, <1>2, <1>3, <1>4, <1>5, <1>6, <1>7, <1>8, <1>9 DEF Next, CtlNext

(* The state of a port and its place in the control path, unchanged: the    *)
(* steps of the other port.                                                 *)
Same(q) ==
    /\ (lsc'[q] <=> lsc[q]) /\ (eims'[q] <=> eims[q]) /\ (need'[q] <=> need[q]) /\ (down'[q] <=> down[q])
    /\ (seen'[q] <=> seen[q]) /\ (link_up'[q] <=> link_up[q]) /\ (link'[q] <=> link[q])
    /\ irq'[q] = irq[q] /\ wd'[q] = wd[q]
    /\ \A S \in {{"sleep", "irq"}, {"irq"}, {"need"}} : At(q, S)' <=> At(q, S)

PortInv(q) == Quiet(q) /\ Armed(q) /\ Fresh(q)

LEMMA SamePort == ASSUME NEW q \in Port, PortInv(q), Same(q) PROVE PortInv(q)'
<1>1. /\ (At(q, {"irq"})' <=> At(q, {"irq"})) /\ (At(q, {"need"})' <=> At(q, {"need"}))
      /\ (At(q, {"sleep", "irq"})' <=> At(q, {"sleep", "irq"}))
  BY DEF Same
<1>2. QED BY <1>1 DEF Same, PortInv, Quiet, Armed, Fresh, Watching

(* A step of one port is no step of the other.                              *)
LEMMA OtherPort ==
    ASSUME TypeOK, NEW p \in Port, NEW q \in Port, q # p, Flap(p) \/ IrqNext(p) \/ WdNext(p)
    PROVE  Same(q)
<1>a. /\ link \in [Port -> BOOLEAN] /\ lsc \in [Port -> BOOLEAN] /\ eims \in [Port -> BOOLEAN]
      /\ need \in [Port -> BOOLEAN] /\ down \in [Port -> BOOLEAN] /\ seen \in [Port -> BOOLEAN]
      /\ link_up \in [Port -> BOOLEAN]
      /\ irq \in [Port -> {"idle", "mask", "enable"}]
      /\ wd \in [Port -> {"idle", "checked", "enable", "store", "up", "on", "down", "ringdown", "off"}]
  BY Types
<1>b. UNCHANGED <<ctl, down>>
  BY DEF Flap, IrqNext, Interrupt, InterruptMask, InterruptEnable, WdNext, CheckLink, UpdateDone,
         UpdatePolls, UpdateEnable, StoreLink, LinkIsUp, CarrierOn, LinkIsDown, RingDown, CarrierOff,
         port_vars, ctl_vars
<1> USE <1>a, <1>b DEF Same, At, port_vars, wd_vars
<1>1. CASE Flap(p)
  BY <1>1 DEF Flap
<1>2. CASE IrqNext(p)
  BY <1>2 DEF IrqNext, Interrupt, InterruptMask, InterruptEnable, IrqEnable
<1>3. CASE CheckLink(p) \/ UpdateDone(p) \/ UpdatePolls(p) \/ UpdateEnable(p)
  BY <1>3 DEF CheckLink, UpdateDone, UpdatePolls, UpdateEnable
<1>4. CASE StoreLink(p)
  BY <1>4 DEF StoreLink
<1>5. CASE LinkIsUp(p) \/ CarrierOn(p) \/ LinkIsDown(p) \/ RingDown(p) \/ CarrierOff(p)
  BY <1>5 DEF LinkIsUp, CarrierOn, LinkIsDown, RingDown, CarrierOff
<1>6. QED BY <1>1, <1>2, <1>3, <1>4, <1>5 DEF WdNext

(* A step of the control path is one of its port.                           *)
LEMMA OtherControl ==
    ASSUME TypeOK, NEW q \in Port, q # ctl.port, CtlNext
    PROVE  Same(q)
<1>a. /\ link \in [Port -> BOOLEAN] /\ lsc \in [Port -> BOOLEAN] /\ eims \in [Port -> BOOLEAN]
      /\ need \in [Port -> BOOLEAN] /\ down \in [Port -> BOOLEAN] /\ seen \in [Port -> BOOLEAN]
      /\ link_up \in [Port -> BOOLEAN] /\ ctl \in Control
  BY Types
<1> USE <1>a, Ports DEF Same, At, port_vars, wd_vars, Control
<1>1. CASE OpenCarrier
  BY <1>1 DEF OpenCarrier
<1>2. CASE UpStart
  BY <1>2 DEF UpStart, IrqEnable
<1>3. CASE UpFinish
  BY <1>3 DEF UpFinish, Idle
<1>4. CASE DownStart
  BY <1>4 DEF DownStart
<1>5. CASE DownCarrier
  BY <1>5 DEF DownCarrier
<1>6. CASE DownFinish
  BY <1>6 DEF DownFinish, Idle
<1>7. QED BY <1>1, <1>2, <1>3, <1>4, <1>5, <1>6 DEF CtlNext

(* The changes of the link: latched, and not in the window.                 *)
LEMMA FlapStep == ASSUME LinkLimits, LinkInv, NEW p \in Port, Flap(p) PROVE PortInv(p)'
<1>a. PortInv(p) /\ Downs /\ TypeOK
  BY DEF LinkInv, PortInv
<1>b. link \in [Port -> BOOLEAN] /\ lsc \in [Port -> BOOLEAN]
  BY <1>a, Types
<1>1. /\ UNCHANGED <<eims, need, down, irq, wd, seen, link_up, ctl>>
      /\ lsc'[p] /\ (link'[p] <=> ~link[p])
  BY <1>b DEF Flap, wd_vars
<1>2. ctl.step = "idle" /\ (ctl.op = "closed" \/ ctl.op = "opened") /\ ~Window(p)
  BY DEF Flap, LinkLimits
<1>3. Quiet(p)' /\ Armed(p)'
  BY <1>a, <1>1, <1>2 DEF PortInv, Quiet, Armed, At
<1>4. Fresh(p)'
  BY <1>a, <1>1, <1>2 DEF PortInv, Fresh, Watching, At, Window
<1>5. QED BY <1>3, <1>4 DEF PortInv

(* The handler: it takes the cause and leaves a request for an update, and  *)
(* leaves LSC off only with the request standing.                           *)
LEMMA IrqStep == ASSUME LinkInv, NEW p \in Port, IrqNext(p) PROVE PortInv(p)'
<1>a. PortInv(p) /\ TypeOK
  BY DEF LinkInv, PortInv
<1>b. /\ lsc \in [Port -> BOOLEAN] /\ eims \in [Port -> BOOLEAN] /\ need \in [Port -> BOOLEAN]
      /\ irq \in [Port -> {"idle", "mask", "enable"}]
  BY <1>a, Types
<1>c. UNCHANGED <<down, wd, seen, link_up, link, ctl>>
  BY DEF IrqNext, Interrupt, InterruptMask, InterruptEnable, wd_vars, ctl_vars
<1> USE DEF PortInv, Quiet, Armed, Fresh, Watching, At
<1>1. CASE Interrupt(p)
  <2>1. /\ irq[p] = "idle" /\ lsc[p] /\ eims[p]
        /\ ~lsc'[p] /\ need'[p] /\ irq'[p] = "mask" /\ eims' = eims
    BY <1>1, <1>b DEF Interrupt
  <2>2. QED BY <1>a, <1>c, <2>1
<1>2. CASE InterruptMask(p)
  <2>1. /\ irq[p] = "mask" /\ (eims'[p] <=> eims[p] /\ down[p]) /\ irq'[p] = "enable"
        /\ UNCHANGED <<lsc, need>>
    BY <1>2, <1>b DEF InterruptMask
  <2>2. QED BY <1>a, <1>c, <2>1
<1>3. CASE InterruptEnable(p)
  <2>1. /\ irq[p] = "enable" /\ (eims'[p] <=> eims[p] \/ (~down[p] /\ ~need[p])) /\ irq'[p] = "idle"
        /\ UNCHANGED <<lsc, need>>
    BY <1>3, <1>b DEF InterruptEnable, IrqEnable
  <2>2. QED BY <1>a, <1>c, <2>1
<1>4. QED BY <1>1, <1>2, <1>3 DEF IrqNext

(* The watchdog: what it read is still the link, or the change is latched;  *)
(* it asks for the interrupt again when it gives up the request.            *)
LEMMA WatchdogStep == ASSUME LinkInv, NEW p \in Port, WdNext(p) PROVE PortInv(p)'
<1>a. PortInv(p) /\ TypeOK
  BY DEF LinkInv, PortInv
<1>b. /\ eims \in [Port -> BOOLEAN] /\ need \in [Port -> BOOLEAN] /\ seen \in [Port -> BOOLEAN]
      /\ link_up \in [Port -> BOOLEAN] /\ link \in [Port -> BOOLEAN]
      /\ wd \in [Port -> {"idle", "checked", "enable", "store", "up", "on", "down", "ringdown", "off"}]
  BY <1>a, Types
<1>c. UNCHANGED <<down, lsc, irq, link, ctl>>
  BY DEF WdNext, CheckLink, UpdateDone, UpdatePolls, UpdateEnable, StoreLink, LinkIsUp, CarrierOn,
         LinkIsDown, RingDown, CarrierOff, port_vars, ctl_vars
<1>d. At(p, {"irq"}) => down[p]
  <2>1. ctl \in Control /\ Downs
    BY <1>a, Types DEF LinkInv
  <2>2. QED BY <2>1 DEF Downs, Steps, IsDown, At, Control
<1> USE DEF PortInv, Quiet, Armed, Fresh, Watching, At
<1>1. CASE CheckLink(p)
  <2>1. /\ wd[p] = "idle" /\ ~down[p] /\ need[p] /\ wd'[p] = "checked" /\ (seen'[p] <=> link[p])
        /\ UNCHANGED <<eims, need>>
    BY <1>1, <1>b DEF CheckLink, port_vars
  <2>2. QED BY <1>a, <1>c, <1>d, <2>1
<1>2. CASE UpdateDone(p)
  <2>1. wd[p] = "checked" /\ ~need'[p] /\ wd'[p] = "enable" /\ UNCHANGED <<eims, seen>>
    BY <1>2, <1>b DEF UpdateDone
  <2>2. QED BY <1>a, <1>c, <2>1
<1>3. CASE UpdatePolls(p)
  <2>1. wd[p] = "checked" /\ wd'[p] = "store" /\ UNCHANGED <<eims, seen, need>>
    BY <1>3, <1>b DEF UpdatePolls, port_vars
  <2>2. QED BY <1>a, <1>c, <2>1
<1>4. CASE UpdateEnable(p)
  <2>1. wd[p] = "enable" /\ wd'[p] = "store" /\ eims'[p] /\ UNCHANGED <<seen, need>>
    BY <1>4, <1>b DEF UpdateEnable
  <2>2. QED BY <1>a, <1>c, <2>1
<1>5. CASE StoreLink(p)
  <2>1. /\ wd[p] = "store" /\ wd'[p] \in {"idle", "up", "down"} /\ (link_up'[p] <=> seen[p])
        /\ UNCHANGED <<eims, need>>
    BY <1>5, <1>b DEF StoreLink, port_vars
  <2>2. QED BY <1>a, <1>c, <2>1
<1>6. CASE LinkIsUp(p) \/ CarrierOn(p) \/ LinkIsDown(p) \/ RingDown(p) \/ CarrierOff(p)
  <2>1. /\ wd[p] \in {"up", "on", "down", "ringdown", "off"} /\ wd'[p] \in {"idle", "on", "ringdown", "off"}
        /\ UNCHANGED <<eims, need, link_up>>
    BY <1>6, <1>b DEF LinkIsUp, CarrierOn, LinkIsDown, RingDown, CarrierOff, port_vars
  <2>2. QED BY <1>a, <1>c, <2>1
<1>7. QED BY <1>1, <1>2, <1>3, <1>4, <1>5, <1>6 DEF WdNext

(* The control path: a port is left quiet by ixgbe_down(), and asks for an  *)
(* update when ixgbe_up_complete() is through.                              *)
LEMMA ControlStep ==
    ASSUME LinkLimits, LinkInv, CtlNext, NEW q \in Port, q = ctl.port
    PROVE  PortInv(q)'
<1>a. TypeOK /\ Downs
  BY DEF LinkInv
<1>b. /\ lsc \in [Port -> BOOLEAN] /\ eims \in [Port -> BOOLEAN]
      /\ need \in [Port -> BOOLEAN] /\ down \in [Port -> BOOLEAN] /\ ctl \in Control
  BY <1>a, Types
<1>f. PortInv(q) /\ (down[q] <=> IsDown(q)) /\ q = ctl.port
  BY <1>a DEF Downs, PortInv, LinkInv
<1>d. Steps
  BY <1>a DEF Downs
<1>e. UNCHANGED <<irq, wd, seen, link_up, link>>
  BY DEF CtlNext, OpenCarrier, UpStart, UpFinish, DownStart, DownCarrier, DownFinish, port_vars, wd_vars
<1> USE <1>f DEF PortInv, Quiet, Armed, Fresh, Watching, At, Steps, IsDown
<1>1. CASE OpenCarrier
  <2>1. ctl.step = "carrier" /\ ctl'.port = ctl.port /\ ctl'.step = "up" /\ UNCHANGED <<lsc, eims, need, down>>
    BY <1>1, <1>b DEF OpenCarrier, port_vars, Control
  <2>2. QED BY <1>e, <2>1
<1>2. CASE UpStart
  <2>1. /\ ctl.step = "up" /\ ctl'.port = ctl.port /\ ctl'.step = "need"
        /\ ~down'[q] /\ ~lsc'[q] /\ (eims'[q] <=> eims[q] \/ ~need[q]) /\ UNCHANGED need
    BY <1>2, <1>b DEF UpStart, IrqEnable, Control
  <2>2. down[q]
    BY <2>1, <1>d, <1>b DEF Control
  <2>3. QED BY <1>e, <2>1, <2>2
<1>3. CASE UpFinish
  <2>1. /\ ctl.step = "need" /\ need'[q] /\ UNCHANGED <<lsc, eims, down>>
        /\ ctl'.step \in {"carrier", "idle"}
    BY <1>3, <1>b DEF UpFinish, Idle, Control
  <2>2. ~down[q]
    BY <2>1, <1>d, <1>b DEF Control
  <2>3. QED BY <1>e, <2>1, <2>2
<1>4. CASE DownStart
  <2>1. /\ ctl.step = "down" /\ ctl'.port = ctl.port /\ ctl'.step = "sleep" /\ down'[q]
        /\ UNCHANGED <<lsc, eims, need>>
    BY <1>4, <1>b DEF DownStart, Control
  <2>2. QED BY <1>e, <2>1
<1>5. CASE DownCarrier
  <2>1. /\ ctl.step = "sleep" /\ ctl'.port = ctl.port /\ ctl'.step = "irq" /\ wd[q] = "idle"
        /\ UNCHANGED <<lsc, eims, need, down>>
    BY <1>5, <1>b DEF DownCarrier, Control, port_vars, LinkLimits
  <2>2. QED BY <1>e, <1>d, <2>1
<1>6. CASE DownFinish
  <2>1. /\ ctl.step = "irq" /\ irq[q] = "idle" /\ ~eims'[q] /\ ~need'[q] /\ UNCHANGED <<lsc, down>>
        /\ ctl'.step \in {"up", "down", "idle"}
    BY <1>6, <1>b DEF DownFinish, Idle, Control
  <2>2. wd[q] = "idle" /\ down[q]
    BY <2>1, <1>d, <1>b DEF Control
  <2>3. QED BY <1>e, <2>1, <2>2
<1>7. QED BY <1>1, <1>2, <1>3, <1>4, <1>5, <1>6 DEF CtlNext

(* A call of open, close or reset is only noted.                            *)
LEMMA CallStep ==
    ASSUME LinkInv, NEW p \in Port, Open \/ Close \/ Reinit(p), NEW q \in Port
    PROVE  Same(q)
<1>1. ctl.step = "idle" /\ ctl'.step \in {"carrier", "down"}
  BY DEF Open, Close, Reinit, Operation, Idle
<1>2. UNCHANGED <<lsc, eims, need, down, irq, wd, seen, link_up, link>>
  BY DEF Open, Close, Reinit, Operation, port_vars, wd_vars
<1>3. QED BY <1>1, <1>2 DEF Same, At

(* The notification keeps its invariant, within the limits of the run.      *)
THEOREM LinkInvariant == ASSUME LinkLimits PROVE Spec => []LinkInv
<1>1. Init => LinkInv
  <2> SUFFICES ASSUME Init PROVE LinkInv
    OBVIOUS
  <2>1. TypeOK
    BY InitTypes
  <2>2. Downs
    BY DEF Init, Downs, Steps, IsDown, Idle
  <2>3. \A p \in Port : Quiet(p) /\ Armed(p) /\ Fresh(p)
    BY DEF Init, Quiet, Armed, Fresh, Watching, At, Idle
  <2>4. QED BY <2>1, <2>2, <2>3 DEF LinkInv
<1>2. LinkInv /\ [Next]_vars => LinkInv'
  <2> SUFFICES ASSUME LinkInv, [Next]_vars PROVE LinkInv'
    OBVIOUS
  <2>1. CASE Next
    <3>1. TypeOK /\ TypeOK' /\ Downs'
      BY <2>1, TypeStep, DownsStep DEF LinkInv
    <3>2. ASSUME NEW q \in Port PROVE PortInv(q)'
      <4>0. PortInv(q)
        BY DEF LinkInv, PortInv
      <4>1. ASSUME NEW p \in Port, Flap(p) \/ IrqNext(p) \/ WdNext(p) PROVE PortInv(q)'
        BY <3>1, <4>0, <4>1, OtherPort, SamePort, FlapStep, IrqStep, WatchdogStep
      <4>2. ASSUME NEW p \in Port, Open \/ Close \/ Reinit(p) PROVE PortInv(q)'
        BY <4>0, <4>2, CallStep, SamePort
      <4>3. ASSUME CtlNext PROVE PortInv(q)'
        <5>1. CASE q # ctl.port
          BY <3>1, <4>0, <4>3, <5>1, OtherControl, SamePort
        <5>2. CASE q = ctl.port
          BY <4>3, <5>2, ControlStep
        <5>3. QED BY <5>1, <5>2
      <4>4. QED BY <2>1, Ports, <4>1, <4>2, <4>3 DEF Next
    <3>3. QED BY <3>1, <3>2 DEF LinkInv, PortInv
  <2>2. CASE UNCHANGED vars
    <3>1. UNCHANGED <<link, lsc, eims, need, down, irq, wd, seen, link_up, iwa_up, carrier, ctl, inputs>>
      BY <2>2 DEF vars, port_vars, wd_vars, dev_vars, ctl_vars
    <3>2. TypeOK' /\ Downs'
      BY <3>1 DEF LinkInv, TypeOK, Downs, Steps, IsDown
    <3>3. \A p \in Port : Quiet(p)' /\ Armed(p)' /\ Fresh(p)'
      BY <3>1 DEF LinkInv, Quiet, Armed, Fresh, Watching, At
    <3>4. QED BY <3>2, <3>3 DEF LinkInv
  <2>3. QED BY <2>1, <2>2
<1>3. QED BY <1>1, <1>2, PTL DEF Spec

(* No change of a link is lost between the interrupt and the watchdog: a    *)
(* port at rest has adapter->link_up the state of its link.                 *)
THEOREM LinkNoticedAlways == ASSUME LinkLimits PROVE Spec => []LinkNoticed
<1>1. LinkInv => LinkNoticed
  <2> SUFFICES ASSUME LinkInv, NEW p \in Port, Settled(p) PROVE link_up[p] = link[p]
    BY DEF LinkNoticed
  <2>1. TypeOK /\ Downs /\ Armed(p) /\ Fresh(p)
    BY DEF LinkInv
  <2>2. ctl = Idle("opened") /\ ~down[p]
    BY <2>1 DEF Settled, Downs, IsDown, Idle
  <2>3. Watching(p)
    BY <2>2 DEF Watching, At, Idle
  <2>4. eims[p] /\ ~need[p] /\ ~lsc[p]
    BY <2>1, <2>2 DEF Settled, Armed
  <2>5. link_up[p] <=> link[p]
    BY <2>1, <2>3, <2>4 DEF Settled, Fresh
  <2>6. link_up[p] \in BOOLEAN /\ link[p] \in BOOLEAN
    BY <2>1, Types
  <2>7. QED BY <2>5, <2>6
<1>2. QED BY <1>1, LinkInvariant, PTL
=============================================================================
