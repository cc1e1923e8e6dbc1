------------------------------ MODULE NetConfig ------------------------------
(***************************************************************************)
(* The network configuration (NeonTCPIP.c): the DHCP state machine that    *)
(* the TCP/IP task polls, the DHCP client of lwIP below it, the link       *)
(* callback, the setters that the network CGIs call from the HTTP task,    *)
(* and the end of NeonTCPIP_init, which polls once in the init thread.     *)
(*                                                                         *)
(* The HTTP task has priority 3, the TCP/IP task and the init thread have  *)
(* priority 1: a setter is never interrupted by them and may interrupt     *)
(* them anywhere, and they take turns on the tick.                         *)
(***************************************************************************)
EXTENDS Naturals

CONSTANTS
  Addrs,            \* what a user may configure as address, netmask or gateway
  ZERO, LEASE,      \* 0.0.0.0, and what the DHCP server grants
  MAX_DHCP_TRIES,   \* discoveries before NeonTCPIP_DHCP_Process gives up
  REQUEST_TRIES,    \* requests before lwIP starts again (dhcp_timeout)
  REBOOT_TRIES,     \* requests before lwIP gives up an old lease
  TRIES_CAP,        \* where the counter of tries saturates: 255 in the code
  Replies,          \* what the network may send: offer, ack, nak, conflict
  LinkMayChange     \* whether the cable may be plugged and unplugged

ASSUME AddrAssumption == ZERO # LEASE /\ ZERO \notin Addrs /\ LEASE \notin Addrs
ASSUME TriesAssumption ==
  /\ MAX_DHCP_TRIES \in Nat /\ REQUEST_TRIES \in Nat /\ REBOOT_TRIES \in Nat
  /\ TRIES_CAP \in Nat
  /\ TRIES_CAP > MAX_DHCP_TRIES /\ TRIES_CAP > REQUEST_TRIES /\ TRIES_CAP > REBOOT_TRIES
ASSUME EnvAssumption ==
  /\ Replies \subseteq {"offer", "ack", "nak", "conflict"}
  /\ LinkMayChange \in BOOLEAN

Pollers == {"task", "init"}     \* who runs NeonTCPIP_ETH_Poll
Values == Addrs \cup {ZERO, LEASE}
Config == [ip : Values, mask : Values, gw : Values]
Zeros == [ip |-> ZERO, mask |-> ZERO, gw |-> ZERO]

ClientStates == {"none", "off", "init", "selecting", "requesting", "checking",
                 "bound", "renewing", "rebinding", "rebooting", "backing_off"}
DhcpStates == {"OFF", "START", "WAIT_ADDRESS", "ADDRESS_ASSIGNED", "TIMEOUT",
               "LINK_DOWN"}

\* The stages of a poll, in order, and the places inside them where another
\* task may come in between.
Stages == {"input", "link", "linkup", "timers", "dhcp"}
Places == {"check", "reset_up", "reset_down", "done", "downState", "downNetif",
           "upState", "upNetif", "renewAddr", "acdOk", "bindAddr", "zeroAddr",
           "setWait", "start", "assign", "giveUp", "zero", "tooMany"}

\* Where the TCP/IP task is about to start DHCP, or to call the callback that binds,
\* and does so whatever a setter that interrupts it has done meanwhile.
Restarts == {"upState", "zero", "setWait", "start", "acdOk"}

\* Where it is about to write the addresses of a lease.
Binds == {"renewAddr", "bindAddr", "zeroAddr"}

Window(l) ==
  CASE l \in Restarts -> "restart" [] l \in Binds -> "bind" [] OTHER -> "calm"

\* What the last setter left, and what it interrupted.
Setting == [addr : Config, window : {"restart", "bind", "calm"}]
NONE == [window |-> "none"]

VARIABLES
  link, up,     \* NETIF_FLAG_LINK_UP and NETIF_FLAG_UP of gnetif
  DHCP_state,   \* the firmware's state machine
  dhcp,         \* lwIP's client: "none" until the first dhcp_start
  addr,         \* the addresses of gnetif
  pc,           \* where each poller is
  tick,         \* whether a tick may fall into the end of NeonTCPIP_init
  fixed         \* history: the last setter since the link came up, or NONE

vars == <<link, up, DHCP_state, dhcp, addr, pc, tick, fixed>>

-----------------------------------------------------------------------------
(* lwIP's DHCP client, as operators on its structure: the state, the number  *)
(* of tries, whether a lease time runs, the offered address and the conflict *)
(* detection (acd). The request timer runs in exactly the states in which a  *)
(* message has been sent.                                                    *)

Client == [st : ClientStates, tries : 0..TRIES_CAP, lease : BOOLEAN,
           offered : {ZERO, LEASE}, acd : {"off", "probing", "ongoing", "limited"}]

\* Variant: a message that is repeated counts as the first.
SetStateAlways(d, s) == [d EXCEPT !.st = s, !.tries = 0]

SetState(d, s) == IF d.st = s THEN d ELSE [d EXCEPT !.st = s, !.tries = 0]

\* Variant: tries is not kept from running over.
SentUnbounded(d) == [d EXCEPT !.tries = @ + 1]

Sent(d) == IF d.tries >= TRIES_CAP THEN d ELSE [d EXCEPT !.tries = @ + 1]

Discover(d) == Sent([SetState(d, "selecting") EXCEPT !.offered = ZERO])
Select(d) == Sent(SetState(d, "requesting"))
Renew(d) == Sent(SetState(d, "renewing"))
Rebind(d) == Sent(SetState(d, "rebinding"))
Reboot(d) == Sent(SetState(d, "rebooting"))

Supplied(d) == d.st \in {"bound", "renewing", "rebinding"}

Cleared == [st |-> "off", tries |-> 0, lease |-> FALSE, offered |-> ZERO, acd |-> "off"]

\* Variant: only a client with an address is stopped.
StoppedIfSupplied(d) == IF Supplied(d) THEN Cleared ELSE d

\* dhcp_release_and_stop: the client, and the addresses it leaves.
Stopped(d) == IF d.st \in {"none", "off"} THEN d ELSE Cleared
StoppedAddr(d, a) == IF Supplied(d) THEN Zeros ELSE a

\* dhcp_start: refused while the interface is down.
Started(d) ==
  IF ~up THEN d
  ELSE IF link THEN Discover(Cleared)
  ELSE SetState(Cleared, "init")

\* dhcp_network_changed_link_up: check the lease again, or start over.
LinkUpClient(d) ==
  CASE d.st \in {"none", "off"} -> d
    [] d.st \in {"rebinding", "renewing", "bound", "rebooting"} ->
         Reboot([d EXCEPT !.tries = 0])
    [] OTHER -> Discover([d EXCEPT !.tries = 0])

\* dhcp_bind up to its change of state; netif_set_addr follows. It has copied
\* mask and gateway before and reads the offered address only then.
Bind(d) == [SetState(d, "bound") EXCEPT !.lease = TRUE]
BoundAddr(d) == [ip |-> d.offered, mask |-> LEASE, gw |-> LEASE]

-----------------------------------------------------------------------------
Init ==
  /\ link \in BOOLEAN /\ up = link
  /\ DHCP_state = "OFF"
  /\ dhcp = [Cleared EXCEPT !.st = "none"]
  /\ addr = Zeros
  /\ pc = [task |-> "input", init |-> "check"]
  /\ tick \in BOOLEAN
  /\ fixed = NONE

Runs(p) == p = "init" \/ tick \/ pc["init"] = "done"

At(p, l) == Runs(p) /\ pc[p] = l
Goto(p, l) == pc' = [pc EXCEPT ![p] = l]

PollEnd(p) == IF p = "init" THEN "done" ELSE "input"
NextStage(p) ==
  CASE pc[p] = "input" -> "link"
    [] pc[p] = "link" -> "linkup"
    [] pc[p] = "linkup" -> "timers"
    [] pc[p] = "timers" -> "dhcp"
    [] OTHER -> PollEnd(p)

\* A stage in which nothing is due: no packet, no timer, the period of 500 ms
\* is not over.
NothingDue(p) ==
  /\ Runs(p) /\ pc[p] \in Stages
  /\ Goto(p, NextStage(p))
  /\ UNCHANGED <<link, up, DHCP_state, dhcp, addr, tick, fixed>>

\* The end of NeonTCPIP_init tests the interface, then resets the state.
InitCheck(p) ==
  /\ p = "init" /\ At(p, "check")
  /\ Goto(p, IF up THEN "reset_up" ELSE "reset_down")
  /\ UNCHANGED <<link, up, DHCP_state, dhcp, addr, tick, fixed>>

\* Variant: with the interface up, the address is thought to be on its way.
ResetStateWaits(l) == IF l = "reset_up" THEN "WAIT_ADDRESS" ELSE "LINK_DOWN"

ResetState(l) == IF l = "reset_up" THEN "START" ELSE "LINK_DOWN"

InitReset(p) ==
  /\ Runs(p) /\ pc[p] \in {"reset_up", "reset_down"}
  /\ DHCP_state' = ResetState(pc[p])
  /\ Goto(p, "input")
  /\ UNCHANGED <<link, up, dhcp, addr, tick, fixed>>

-----------------------------------------------------------------------------
(* Stage input: a packet is handed to lwIP.                                  *)

RecvOffer(p) ==
  /\ At(p, "input") /\ link /\ "offer" \in Replies
  /\ dhcp.st = "selecting"
  /\ dhcp' = Select([dhcp EXCEPT !.offered = LEASE])
  /\ Goto(p, "link")
  /\ UNCHANGED <<link, up, DHCP_state, addr, tick, fixed>>

\* An acknowledged address is checked for conflicts before it is used; a
\* renewed one is bound at once.
RecvAck(p) ==
  /\ At(p, "input") /\ link /\ "ack" \in Replies
  /\ \/ /\ dhcp.st \in {"requesting", "rebooting"}
        /\ dhcp' = [SetState(dhcp, "checking") EXCEPT !.offered = LEASE, !.acd = "probing"]
        /\ Goto(p, "link")
     \/ /\ dhcp.st \in {"rebinding", "renewing"}
        /\ dhcp' = Bind([dhcp EXCEPT !.offered = LEASE])
        /\ Goto(p, "renewAddr")
  /\ UNCHANGED <<link, up, DHCP_state, addr, tick, fixed>>

RecvNak(p) ==
  /\ At(p, "input") /\ link /\ "nak" \in Replies
  /\ dhcp.st \in {"rebooting", "requesting", "rebinding", "renewing"}
  /\ dhcp' = Discover(SetState(dhcp, "backing_off"))
  /\ addr' = Zeros
  /\ Goto(p, "link")
  /\ UNCHANGED <<link, up, DHCP_state, tick, fixed>>

\* Another host uses the address: it is declined. After many conflicts the
\* detection is rate limited instead of stopped; they are not counted here.
RecvConflict(p) ==
  /\ At(p, "input") /\ link /\ "conflict" \in Replies
  /\ dhcp.acd \in {"probing", "ongoing"}
  /\ \E a \in {"off", "limited"} :
       dhcp' = [SetState(dhcp, "backing_off") EXCEPT !.acd = a]
  /\ addr' = Zeros
  /\ Goto(p, "link")
  /\ UNCHANGED <<link, up, DHCP_state, tick, fixed>>

\* The netif_set_addr of dhcp_bind. A setter may have stopped the client since,
\* which clears the offered address.
SetLeaseAddr(p) ==
  /\ Runs(p) /\ pc[p] \in {"renewAddr", "bindAddr"}
  /\ addr' = BoundAddr(dhcp)
  /\ Goto(p, IF pc[p] = "renewAddr" THEN "link" ELSE "dhcp")
  /\ UNCHANGED <<link, up, DHCP_state, dhcp, tick, fixed>>

\* The same, where dhcp_bind found a client without an offered address: mask and
\* gateway were cleared with it, are a default, or remain of an older offer.
SetNoLeaseAddr(p) ==
  /\ At(p, "zeroAddr")
  /\ \E m, g \in {ZERO, LEASE} : addr' = [ip |-> dhcp.offered, mask |-> m, gw |-> g]
  /\ Goto(p, "dhcp")
  /\ UNCHANGED <<link, up, DHCP_state, dhcp, tick, fixed>>

-----------------------------------------------------------------------------
(* Stages link and linkup: ethernetif_set_link and the link callback.        *)

LinkDown(p) ==
  /\ At(p, "link") /\ LinkMayChange /\ link
  /\ link' = FALSE
  /\ dhcp' = [dhcp EXCEPT !.acd = "off"]
  /\ Goto(p, "downState")
  /\ UNCHANGED <<up, DHCP_state, addr, tick, fixed>>

LinkUp(p) ==
  /\ At(p, "linkup") /\ LinkMayChange /\ ~link
  /\ link' = TRUE
  /\ dhcp' = LinkUpClient(dhcp)
  /\ fixed' = NONE
  /\ Goto(p, "upState")
  /\ UNCHANGED <<up, DHCP_state, addr, tick>>

\* ethernetif_notify_conn_changed: the state, then the interface.
NotifyState(p) ==
  /\ Runs(p) /\ pc[p] \in {"upState", "downState"}
  /\ DHCP_state' = IF pc[p] = "upState" THEN "START" ELSE "LINK_DOWN"
  /\ Goto(p, IF pc[p] = "upState" THEN "upNetif" ELSE "downNetif")
  /\ UNCHANGED <<link, up, dhcp, addr, tick, fixed>>

\* Variant: a link that comes back does not bring the interface up.
NetifFlagLost(l) == up /\ l = "upNetif"

NetifFlag(l) == l = "upNetif"

NotifyNetif(p) ==
  /\ Runs(p) /\ pc[p] \in {"upNetif", "downNetif"}
  /\ up' = NetifFlag(pc[p])
  /\ Goto(p, IF pc[p] = "upNetif" THEN "timers" ELSE "linkup")
  /\ UNCHANGED <<link, DHCP_state, dhcp, addr, tick, fixed>>

-----------------------------------------------------------------------------
(* Stage timers: sys_check_timeouts.                                         *)

\* dhcp_timeout: no answer came.
RequestTimeout(p) ==
  /\ At(p, "timers")
  /\ \/ dhcp.st \in {"backing_off", "selecting"} /\ dhcp' = Discover(dhcp)
     \/ dhcp.st = "requesting" /\ dhcp.tries <= REQUEST_TRIES /\ dhcp' = Select(dhcp)
     \/ dhcp.st = "requesting" /\ dhcp.tries > REQUEST_TRIES /\ dhcp' = Started(Stopped(dhcp))
     \/ dhcp.st = "rebooting" /\ dhcp.tries < REBOOT_TRIES /\ dhcp' = Reboot(dhcp)
     \/ dhcp.st = "rebooting" /\ dhcp.tries >= REBOOT_TRIES /\ dhcp' = Discover(dhcp)
  /\ Goto(p, "dhcp")
  /\ UNCHANGED <<link, up, DHCP_state, addr, tick, fixed>>

\* dhcp_coarse_tmr: the lease must be renewed, must be rebound, or is over.
LeaseTimer(p) ==
  /\ At(p, "timers") /\ dhcp.lease
  /\ \/ /\ dhcp.st \in {"requesting", "bound", "renewing"}
        /\ dhcp' = Renew(dhcp) /\ UNCHANGED addr
     \/ /\ dhcp.st \in {"requesting", "bound", "renewing", "rebinding"}
        /\ dhcp' = Rebind(dhcp) /\ UNCHANGED addr
     \/ dhcp' = Started(Stopped(dhcp)) /\ addr' = StoppedAddr(dhcp, addr)
  /\ Goto(p, "dhcp")
  /\ UNCHANGED <<link, up, DHCP_state, tick, fixed>>

\* acd_tmr: the address was probed and announced; the callback is called.
AcdOk(p) ==
  /\ At(p, "timers") /\ dhcp.acd = "probing"
  /\ dhcp' = [dhcp EXCEPT !.acd = "ongoing"]
  /\ Goto(p, "acdOk")
  /\ UNCHANGED <<link, up, DHCP_state, addr, tick, fixed>>

\* acd_tmr: the rate limit is over, the client starts again.
AcdLimitOver(p) ==
  /\ At(p, "timers") /\ dhcp.acd = "limited"
  /\ dhcp' = [SetState(dhcp, "backing_off") EXCEPT !.acd = "off"]
  /\ Goto(p, "dhcp")
  /\ UNCHANGED <<link, up, DHCP_state, addr, tick, fixed>>

\* dhcp_conflict_callback binds, also a client that was stopped after acd_tmr
\* decided to call it: its assertion is not compiled (LWIP_NOASSERT).
AcdCallback(p) ==
  /\ At(p, "acdOk")
  /\ dhcp' = Bind(dhcp)
  /\ Goto(p, IF dhcp.offered = ZERO THEN "zeroAddr" ELSE "bindAddr")
  /\ UNCHANGED <<link, up, DHCP_state, addr, tick, fixed>>

-----------------------------------------------------------------------------
(* Stage dhcp: NeonTCPIP_DHCP_Process.                                       *)

ProcessLinkDown(p) ==
  /\ At(p, "dhcp") /\ ~link
  /\ DHCP_state' = "OFF"
  /\ Goto(p, PollEnd(p))
  /\ UNCHANGED <<link, up, dhcp, addr, tick, fixed>>

ProcessStart(p) ==
  /\ At(p, "dhcp") /\ link /\ DHCP_state = "START"
  /\ Goto(p, "zero")
  /\ UNCHANGED <<link, up, DHCP_state, dhcp, addr, tick, fixed>>

ProcessZero(p) ==
  /\ At(p, "zero")
  /\ addr' = Zeros
  /\ Goto(p, "setWait")
  /\ UNCHANGED <<link, up, DHCP_state, dhcp, tick, fixed>>

ProcessSetWait(p) ==
  /\ At(p, "setWait")
  /\ DHCP_state' = "WAIT_ADDRESS"
  /\ Goto(p, "start")
  /\ UNCHANGED <<link, up, dhcp, addr, tick, fixed>>

ProcessDhcpStart(p) ==
  /\ At(p, "start")
  /\ dhcp' = Started(dhcp)
  /\ Goto(p, PollEnd(p))
  /\ UNCHANGED <<link, up, DHCP_state, addr, tick, fixed>>

\* The address is there; it is printed, then the state changes.
ProcessSupplied(p) ==
  /\ At(p, "dhcp") /\ link /\ DHCP_state = "WAIT_ADDRESS" /\ Supplied(dhcp)
  /\ Goto(p, "assign")
  /\ UNCHANGED <<link, up, DHCP_state, dhcp, addr, tick, fixed>>

ProcessAssigned(p) ==
  /\ At(p, "assign")
  /\ DHCP_state' = "ADDRESS_ASSIGNED"
  /\ Goto(p, PollEnd(p))
  /\ UNCHANGED <<link, up, dhcp, addr, tick, fixed>>

\* Without a client, which NullSafe excludes for most start-ups, tries is read
\* through a null pointer and may be anything.
GivesUp(d) == d.st = "none" \/ d.tries > MAX_DHCP_TRIES

ProcessTimeout(p) ==
  /\ At(p, "dhcp") /\ link /\ DHCP_state = "WAIT_ADDRESS"
  /\ ~Supplied(dhcp) /\ GivesUp(dhcp)
  /\ Goto(p, "tooMany")
  /\ UNCHANGED <<link, up, DHCP_state, dhcp, addr, tick, fixed>>

ProcessSetTimeout(p) ==
  /\ At(p, "tooMany")
  /\ DHCP_state' = "TIMEOUT"
  /\ Goto(p, "giveUp")
  /\ UNCHANGED <<link, up, dhcp, addr, tick, fixed>>

ProcessGiveUp(p) ==
  /\ At(p, "giveUp")
  /\ dhcp' = Stopped(dhcp) /\ addr' = StoppedAddr(dhcp, addr)
  /\ Goto(p, PollEnd(p))
  /\ UNCHANGED <<link, up, DHCP_state, tick, fixed>>

\* The state LINK_DOWN with the link up: only when NeonTCPIP_init set it late.
ProcessStaleDown(p) ==
  /\ At(p, "dhcp") /\ link /\ DHCP_state = "LINK_DOWN"
  /\ dhcp' = Stopped(dhcp) /\ addr' = StoppedAddr(dhcp, addr)
  /\ DHCP_state' = "OFF"
  /\ Goto(p, PollEnd(p))
  /\ UNCHANGED <<link, up, tick, fixed>>

-----------------------------------------------------------------------------
(* The setters, called by the network CGIs in the HTTP task.                 *)

\* Switch DHCP off, stop the client, set the addresses; those that the caller
\* does not give were copied before.
Configure(a) ==
  /\ pc["init"] = "done"
  /\ DHCP_state' = "OFF"
  /\ dhcp' = Stopped(dhcp)
  /\ addr' = a
  /\ fixed' = [addr |-> a, window |-> Window(pc["task"])]
  /\ UNCHANGED <<link, up, pc, tick>>

NeonTCPIP_IF_Update_Addresses ==
  \E i, m, g \in Addrs : Configure([ip |-> i, mask |-> m, gw |-> g])
NeonTCPIP_IF_Set_IP_Address == \E i \in Addrs : Configure([addr EXCEPT !.ip = i])
NeonTCPIP_IF_Set_Gateway_Address == \E g \in Addrs : Configure([addr EXCEPT !.gw = g])
NeonTCPIP_IF_Set_NetMask_Address == \E m \in Addrs : Configure([addr EXCEPT !.mask = m])

Setter ==
  \/ NeonTCPIP_IF_Update_Addresses
  \/ NeonTCPIP_IF_Set_IP_Address
  \/ NeonTCPIP_IF_Set_Gateway_Address
  \/ NeonTCPIP_IF_Set_NetMask_Address

Poll(p) ==
  \/ NothingDue(p) \/ InitCheck(p) \/ InitReset(p)
  \/ RecvOffer(p) \/ RecvAck(p) \/ RecvNak(p) \/ RecvConflict(p)
  \/ SetLeaseAddr(p) \/ SetNoLeaseAddr(p)
  \/ LinkDown(p) \/ LinkUp(p) \/ NotifyState(p) \/ NotifyNetif(p)
  \/ RequestTimeout(p) \/ LeaseTimer(p) \/ AcdOk(p) \/ AcdLimitOver(p) \/ AcdCallback(p)
  \/ ProcessLinkDown(p) \/ ProcessStart(p) \/ ProcessZero(p) \/ ProcessSetWait(p)
  \/ ProcessDhcpStart(p) \/ ProcessSupplied(p) \/ ProcessAssigned(p) \/ ProcessTimeout(p)
  \/ ProcessSetTimeout(p) \/ ProcessGiveUp(p) \/ ProcessStaleDown(p)

Next == Setter \/ \E p \in Pollers : Poll(p)

Spec == Init /\ [][Next]_vars

\* Both threads get the processor again and again, since the HTTP task and the
\* timer daemon sleep. The timers of a request and of the conflict detection are
\* periodic, and so is the stage of the state machine: what is due there happens
\* in the end. The server owes nothing.
FairSpec ==
  /\ Spec
  /\ \A p \in Pollers : WF_vars(Poll(p))
  /\ SF_vars(RequestTimeout("task") \/ AcdOk("task"))
  /\ SF_vars(\/ ProcessLinkDown("task") \/ ProcessStart("task")
             \/ ProcessSupplied("task") \/ ProcessTimeout("task"))

-----------------------------------------------------------------------------
(* Properties                                                                *)

\* Every variable has its type; in particular the counter of tries is bounded.
TypeOK ==
  /\ link \in BOOLEAN /\ up \in BOOLEAN
  /\ DHCP_state \in DhcpStates
  /\ dhcp \in Client
  /\ addr \in Config
  /\ pc \in [Pollers -> Stages \cup Places]
  /\ tick \in BOOLEAN /\ fixed \in Setting \cup {NONE}

\* Wherever a setter interrupts the TCP/IP task, but for the places in Restarts, the
\* client it stopped stays stopped and its addresses stay as they are, whatever
\* packets and timers are still under way, until the link comes up again. One
\* that interrupts a bind may lose its addresses, but never to those of a lease:
\* the address becomes 0.0.0.0.
StaticConfigKept ==
  fixed # NONE =>
    /\ fixed.window # "restart" => dhcp.st \in {"none", "off"}
    /\ fixed.window = "calm" => addr = fixed.addr
    /\ fixed.window = "bind" => addr.ip \in {fixed.addr.ip, ZERO}

\* dhcp_release_and_stop removes the conflict detection "because we may be in
\* checking state and the callback would trigger a bind": a client that was
\* stopped is not bound by it. (It is, if acd_tmr is just calling it.)
StoppedIsNotBound == [][dhcp.st = "off" => dhcp'.st # "bound"]_vars

\* NeonTCPIP_DHCP_Process reads tries of the client in the state WAIT_ADDRESS
\* without a test: unless the start-up was interrupted, the client exists by
\* then.
NullSafe ==
  ~tick /\ DHCP_state = "WAIT_ADDRESS" =>
    dhcp.st # "none" \/ \E p \in Pollers : pc[p] = "start"

\* Unless the start-up was interrupted, dhcp_start is called with the interface
\* up (LWIP_ERROR in dhcp_start says "netif is not up, old style port?").
StartedOnlyUp == ~tick => \A p \in Pollers : pc[p] = "start" => up

\* After the firmware gave up, the client of lwIP is stopped: it will not set
\* an address behind its back. (Unless the start-up was interrupted, when one
\* poll may give up while the other starts DHCP.)
TimeoutMeansStopped ==
  ~tick /\ DHCP_state = "TIMEOUT" => dhcp.st = "off" \/ \E p \in Pollers : pc[p] = "giveUp"

\* The client accepts an offer and starts to request it.
AcceptsOffer == dhcp.st = "selecting" /\ dhcp'.st = "requesting"

\* The firmware does not wait for an address for ever, although lwIP counts the
\* tries of each state of its client from zero: it gets one or gives up after
\* MAX_DHCP_TRIES, unless the start-up was interrupted, or servers offer
\* addresses without end that they do not let it use.
WaitEnds ==
  \/ []<><<AcceptsOffer>>_vars
  \/ ~tick /\ DHCP_state = "WAIT_ADDRESS" ~> DHCP_state # "WAIT_ADDRESS"
=============================================================================
