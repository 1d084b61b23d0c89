------------------------------- MODULE WfsLink -------------------------------
(***************************************************************************)
(* How a workstation learns the state of its two links (ixgbe_main.c): the *)
(* link status change interrupt (LSC) of each port, the watchdog of each   *)
(* port, which reads the link and tells the network stack through          *)
(* iwa->link_up and the carrier of the one net_device both ports share,    *)
(* and open, close and reset, which take a port down and up under them.    *)
(*                                                                         *)
(* The two watchdogs, the two interrupt handlers and the control path run  *)
(* on different processors and share no lock here, so every access to      *)
(* state another of them uses is a step of its own.  The events queued for *)
(* the RAPS engine are in WfsRaps; speed and flow control are left out.    *)
(***************************************************************************)
EXTENDS Integers, FiniteSets

CONSTANTS
    primary, secondary, \* the two ports (iwa->primary, iwa->secondary)
    InitLinks,          \* what the links may be at the start
    FlapStates,         \* control states in which a link may change
    FlapInWindow,       \* whether a link may change in the window of UpFinish
    WatchdogPrompt,     \* whether a watchdog ends within the sleep of ixgbe_down
    MaxInputs           \* bound: changes of the links, opens, closes and resets

ASSUME LinkAssumption ==
    /\ primary # secondary
    /\ InitLinks \subseteq BOOLEAN
    /\ FlapInWindow \in BOOLEAN /\ WatchdogPrompt \in BOOLEAN
    /\ MaxInputs \in Nat

Port == {primary, secondary}
wfs_other(p) == IF p = primary THEN secondary ELSE primary

VARIABLES
    link,      \* the link of each port, as check_link reads it
    lsc,       \* EICR.LSC: a change of the link is latched
    eims,      \* EIMS.LSC: the interrupt is enabled
    need,      \* IXGBE_FLAG_NEED_LINK_UPDATE
    down,      \* __IXGBE_DOWN
    irq,       \* where ixgbe_msix_other() is
    wd,        \* where the watchdog is
    seen,      \* link_up, the local variable of ixgbe_watchdog_update_link
    link_up,   \* adapter->link_up
    iwa_up,    \* iwa->link_up
    carrier,   \* netif_carrier_ok(netdev)
    ctl,       \* the control path: operation, port and step
    inputs     \* how many changes and operations there have been

port_vars == <<lsc, eims, need, down, irq>>
wd_vars   == <<wd, seen, link_up>>
dev_vars  == <<iwa_up, carrier>>
ctl_vars  == <<ctl, inputs>>
vars      == <<port_vars, wd_vars, dev_vars, link, ctl_vars>>

Control == [op : {"closed", "opened", "open", "close", "reinit"}, port : Port,
            step : {"idle", "carrier", "up", "need", "down", "sleep", "irq"}]
Idle(op) == [op |-> op, port |-> primary, step |-> "idle"]

TypeOK ==
    /\ {link, lsc, eims, need, down, seen, link_up} \subseteq [Port -> BOOLEAN]
    /\ irq \in [Port -> {"idle", "mask", "enable"}]
    /\ wd \in [Port -> {"idle", "checked", "enable", "store", "up", "on",
                        "down", "ringdown", "off"}]
    /\ iwa_up \in BOOLEAN /\ carrier \in BOOLEAN
    /\ ctl \in Control
    /\ inputs \in 0..MaxInputs

-----------------------------------------------------------------------------
(* After ixgbe_up_complete(), or when the watchdog enables the interrupt    *)
(* behind the handler, LSC is enabled although an update is outstanding;    *)
(* everywhere else a change is masked while one is.                         *)
Window(p) == /\ ~down[p] /\ irq[p] # "mask"
             /\ eims[p] /\ (need[p] \/ (ctl.port = p /\ ctl.step = "need"))

(* A cable or the other end: the link changes and the cause is latched.     *)
Flap(p) ==
    /\ inputs < MaxInputs
    /\ (IF ctl.step = "idle" THEN ctl.op ELSE "busy") \in FlapStates
    /\ FlapInWindow \/ ~Window(p)
    /\ link' = [link EXCEPT ![p] = ~@]
    /\ lsc' = [lsc EXCEPT ![p] = TRUE]
    /\ inputs' = inputs + 1
    /\ UNCHANGED <<eims, need, down, irq, wd_vars, dev_vars, ctl>>

(* Mutant: the handler acknowledges the cause without asking for an update. *)
InterruptNoUpdate(p) ==
    /\ irq[p] = "idle" /\ lsc[p] /\ eims[p]
    /\ lsc' = [lsc EXCEPT ![p] = FALSE]
    /\ irq' = [irq EXCEPT ![p] = "mask"]
    /\ UNCHANGED <<need, eims, down, wd_vars, dev_vars, link, ctl_vars>>

(* ixgbe_msix_other(): acknowledge the cause and ask for an update ...      *)
Interrupt(p) ==
    /\ irq[p] = "idle" /\ lsc[p] /\ eims[p]
    /\ lsc' = [lsc EXCEPT ![p] = FALSE]
    /\ need' = [need EXCEPT ![p] = TRUE]
    /\ irq' = [irq EXCEPT ![p] = "mask"]
    /\ UNCHANGED <<eims, down, wd_vars, dev_vars, link, ctl_vars>>

(* ... mask the cause, unless the port is going down ...                    *)
InterruptMask(p) ==
    /\ irq[p] = "mask"
    /\ eims' = [eims EXCEPT ![p] = @ /\ down[p]]
    /\ irq' = [irq EXCEPT ![p] = "enable"]
    /\ UNCHANGED <<lsc, need, down, wd_vars, dev_vars, link, ctl_vars>>

(* ... and ixgbe_irq_enable(), without LSC while an update is outstanding.  *)
IrqEnable(p) == eims' = [eims EXCEPT ![p] = @ \/ ~need[p]]

InterruptEnable(p) ==
    /\ irq[p] = "enable"
    /\ IF down[p] THEN eims' = eims ELSE IrqEnable(p)
    /\ irq' = [irq EXCEPT ![p] = "idle"]
    /\ UNCHANGED <<lsc, need, down, wd_vars, dev_vars, link, ctl_vars>>

-----------------------------------------------------------------------------
(* The service timer runs the watchdog again and again while the port is    *)
(* up.  ixgbe_watchdog_update_link() reads the link if an update is needed. *)
Resetting(p) == ctl.op = "reinit" /\ ctl.port = p

CheckLink(p) ==
    /\ wd[p] = "idle" /\ ~down[p] /\ ~Resetting(p) /\ need[p]
    /\ seen' = [seen EXCEPT ![p] = link[p]]
    /\ wd' = [wd EXCEPT ![p] = "checked"]
    /\ UNCHANGED <<port_vars, link_up, dev_vars, link, ctl_vars>>

(* The update is done when the link is up or IXGBE_TRY_LINK_TIMEOUT is      *)
(* over; else the next run polls again.                                     *)
UpdateDone(p) ==
    /\ wd[p] = "checked"
    /\ need' = [need EXCEPT ![p] = FALSE]
    /\ wd' = [wd EXCEPT ![p] = "enable"]
    /\ UNCHANGED <<lsc, eims, down, irq, seen, link_up, dev_vars, link, ctl_vars>>

UpdatePolls(p) ==
    /\ wd[p] = "checked" /\ ~seen[p]
    /\ wd' = [wd EXCEPT ![p] = "store"]
    /\ UNCHANGED <<port_vars, seen, link_up, dev_vars, link, ctl_vars>>

(* Mutant: the interrupt stays masked after the update.                     *)
UpdateEnableNot(p) ==
    /\ wd[p] = "enable"
    /\ wd' = [wd EXCEPT ![p] = "store"]
    /\ UNCHANGED <<port_vars, seen, link_up, dev_vars, link, ctl_vars>>

UpdateEnable(p) ==
    /\ wd[p] = "enable"
    /\ eims' = [eims EXCEPT ![p] = TRUE]
    /\ wd' = [wd EXCEPT ![p] = "store"]
    /\ UNCHANGED <<lsc, need, down, irq, seen, link_up, dev_vars, link, ctl_vars>>

(* Only a change of adapter->link_up is passed on.                          *)
StoreLink(p) ==
    /\ wd[p] = "store"
    /\ link_up' = [link_up EXCEPT ![p] = seen[p]]
    /\ wd' = [wd EXCEPT ![p] = IF link_up[p] = seen[p] THEN "idle"
                               ELSE IF seen[p] THEN "up" ELSE "down"]
    /\ UNCHANGED <<port_vars, seen, dev_vars, link, ctl_vars>>

(* ixgbe_watchdog_link_is_up()                                              *)
LinkIsUp(p) ==
    /\ wd[p] = "up"
    /\ wd' = [wd EXCEPT ![p] = IF iwa_up THEN "idle" ELSE "on"]
    /\ iwa_up' = TRUE
    /\ UNCHANGED <<port_vars, seen, link_up, carrier, link, ctl_vars>>

CarrierOn(p) ==
    /\ wd[p] = "on"
    /\ carrier' = TRUE
    /\ wd' = [wd EXCEPT ![p] = "idle"]
    /\ UNCHANGED <<port_vars, seen, link_up, iwa_up, link, ctl_vars>>

(* Mutant: only the primary port's watchdog takes the ring down.            *)
LinkIsDownPrimary(p) ==
    /\ wd[p] = "down"
    /\ wd' = [wd EXCEPT ![p] = IF p # primary \/ link_up[wfs_other(p)] THEN "idle" ELSE "ringdown"]
    /\ UNCHANGED <<port_vars, seen, link_up, dev_vars, link, ctl_vars>>

(* ixgbe_watchdog_link_is_down()                                            *)
LinkIsDown(p) ==
    /\ wd[p] = "down"
    /\ wd' = [wd EXCEPT ![p] = IF link_up[wfs_other(p)] THEN "idle" ELSE "ringdown"]
    /\ UNCHANGED <<port_vars, seen, link_up, dev_vars, link, ctl_vars>>

RingDown(p) ==
    /\ wd[p] = "ringdown"
    /\ iwa_up' = FALSE
    /\ wd' = [wd EXCEPT ![p] = "off"]
    /\ UNCHANGED <<port_vars, seen, link_up, carrier, link, ctl_vars>>

CarrierOff(p) ==
    /\ wd[p] = "off"
    /\ carrier' = FALSE
    /\ wd' = [wd EXCEPT ![p] = "idle"]
    /\ UNCHANGED <<port_vars, seen, link_up, iwa_up, link, ctl_vars>>

-----------------------------------------------------------------------------
Operation(from, c) ==
    /\ ctl = Idle(from) /\ inputs < MaxInputs
    /\ ctl' = c /\ inputs' = inputs + 1
    /\ UNCHANGED <<port_vars, wd_vars, dev_vars, link>>

(* ixgbe_open(), ixgbe_close() take the primary port first; the reset of    *)
(* one port is ixgbe_reinit_locked().                                       *)
Open      == Operation("closed", [op |-> "open", port |-> primary, step |-> "carrier"])
Close     == Operation("opened", [op |-> "close", port |-> primary, step |-> "down"])
Reinit(p) == Operation("opened", [op |-> "reinit", port |-> p, step |-> "down"])

(* ixgbe_open(): the carrier is turned off for each port.                   *)
OpenCarrier ==
    /\ ctl.step = "carrier"
    /\ carrier' = FALSE
    /\ ctl' = [ctl EXCEPT !.step = "up"]
    /\ UNCHANGED <<port_vars, wd_vars, iwa_up, link, inputs>>

(* ixgbe_up_complete(): pending causes are cleared and interrupts enabled,  *)
(* and only then an update is asked for.                                    *)
UpStart ==
    LET p == ctl.port
    IN  /\ ctl.step = "up"
        /\ down' = [down EXCEPT ![p] = FALSE]
        /\ lsc' = [lsc EXCEPT ![p] = FALSE]
        /\ IrqEnable(p)
        /\ ctl' = [ctl EXCEPT !.step = "need"]
        /\ UNCHANGED <<need, irq, wd_vars, dev_vars, link, inputs>>

UpFinish ==
    /\ ctl.step = "need"
    /\ need' = [need EXCEPT ![ctl.port] = TRUE]
    /\ ctl' = IF ctl.op = "open" /\ ctl.port = primary
              THEN [op |-> "open", port |-> secondary, step |-> "carrier"]
              ELSE Idle("opened")
    /\ UNCHANGED <<lsc, eims, down, irq, wd_vars, dev_vars, link, inputs>>

(* ixgbe_down(): no new watchdog starts, the carrier goes off after a sleep *)
(* of 10 to 20 ms, then interrupts are disabled and the handler waited for. *)
(* A watchdog that runs is given the sleep to end and is not waited for,    *)
(* and neither adapter->link_up nor iwa->link_up is touched.                *)
DownStart ==
    /\ ctl.step = "down"
    /\ down' = [down EXCEPT ![ctl.port] = TRUE]
    /\ ctl' = [ctl EXCEPT !.step = "sleep"]
    /\ UNCHANGED <<lsc, eims, need, irq, wd_vars, dev_vars, link, inputs>>

DownCarrier ==
    /\ ctl.step = "sleep"
    /\ WatchdogPrompt => wd[ctl.port] = "idle"
    /\ carrier' = FALSE
    /\ ctl' = [ctl EXCEPT !.step = "irq"]
    /\ UNCHANGED <<port_vars, wd_vars, iwa_up, link, inputs>>

DownFinish ==
    LET p == ctl.port
    IN  /\ ctl.step = "irq" /\ irq[p] = "idle"
        /\ eims' = [eims EXCEPT ![p] = FALSE]
        /\ need' = [need EXCEPT ![p] = FALSE]
        /\ ctl' = IF ctl.op = "reinit" THEN [ctl EXCEPT !.step = "up"]
                  ELSE IF p = primary
                  THEN [op |-> "close", port |-> secondary, step |-> "down"]
                  ELSE Idle("closed")
        /\ UNCHANGED <<lsc, down, irq, wd_vars, dev_vars, link, inputs>>

-----------------------------------------------------------------------------
Init ==
    /\ link \in [Port -> InitLinks]
    /\ lsc = [p \in Port |-> FALSE] /\ eims = [p \in Port |-> FALSE]
    /\ need = [p \in Port |-> FALSE] /\ down = [p \in Port |-> TRUE]
    /\ irq = [p \in Port |-> "idle"] /\ wd = [p \in Port |-> "idle"]
    /\ seen = [p \in Port |-> FALSE] /\ link_up = [p \in Port |-> FALSE]
    /\ iwa_up = FALSE /\ carrier = FALSE
    /\ ctl = Idle("closed") /\ inputs = 0

IrqNext(p) == Interrupt(p) \/ InterruptMask(p) \/ InterruptEnable(p)

WdNext(p) == \/ CheckLink(p) \/ UpdateDone(p) \/ UpdatePolls(p) \/ UpdateEnable(p)
             \/ StoreLink(p) \/ LinkIsUp(p) \/ CarrierOn(p)
             \/ LinkIsDown(p) \/ RingDown(p) \/ CarrierOff(p)

CtlNext == OpenCarrier \/ UpStart \/ UpFinish
           \/ DownStart \/ DownCarrier \/ DownFinish

Next == \/ \E p \in Port : Flap(p) \/ IrqNext(p) \/ WdNext(p) \/ Reinit(p)
        \/ Open \/ Close \/ CtlNext

Spec == Init /\ [][Next]_vars

(* Interrupts are delivered, the service task keeps being scheduled, polls  *)
(* for no longer than IXGBE_TRY_LINK_TIMEOUT, and open and close return.    *)
Fairness == /\ \A p \in Port : /\ WF_vars(IrqNext(p)) /\ WF_vars(WdNext(p))
                                /\ SF_vars(UpdateDone(p))
            /\ WF_vars(CtlNext)

FairSpec == Spec /\ Fairness

-----------------------------------------------------------------------------
(* The device is open and everyone has come to rest: no update is asked     *)
(* for, none is under way, no interrupt is on its way.                      *)
Settled(p) == /\ ctl = Idle("opened")
              /\ wd[p] = "idle" /\ irq[p] = "idle"
              /\ ~need[p] /\ ~(lsc[p] /\ eims[p])
AllSettled == \A p \in Port : Settled(p)

(* When a port has come to rest, adapter->link_up is the state of its link: *)
(* no change of the link was lost between the interrupt and the watchdog.   *)
LinkNoticed == \A p \in Port : Settled(p) => link_up[p] = link[p]

(* The carrier of the device at rest is not left on with both links down,   *)
(* whatever order the two watchdogs, which share it, saw them fail in.      *)
NoFalseCarrier == AllSettled /\ carrier => \E p \in Port : link_up[p]

(* A device that stays open learns the state its links stay in: neither a   *)
(* masked interrupt nor an update that is never run keeps it from it.       *)
LinkLearned == <>[](ctl = Idle("opened")) => <>[](link_up = link)
=============================================================================
