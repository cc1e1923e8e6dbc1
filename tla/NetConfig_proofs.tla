--------------------------- MODULE NetConfig_proofs ---------------------------
(***************************************************************************)
(* Type correctness of the network configuration; that addresses a user    *)
(* sets are kept; and that the state machine, the client and the link      *)
(* agree unless a tick falls into the start-up: for every set of           *)
(* addresses, limit of tries and behaviour of server and link.             *)
(***************************************************************************)
EXTENDS NetConfig, TLAPS

\* A client that is off has no lease time running and no conflict detection,
\* so that no timer of it can fire, and no offered address.
OffMeansSilent ==
  dhcp.st \in {"none", "off"} => ~dhcp.lease /\ dhcp.acd = "off" /\ dhcp.offered = ZERO

\* Where the TCP/IP task can be: the end of NeonTCPIP_init is not for it.
TaskPlaces == Stages \cup (Places \ {"check", "reset_up", "reset_down", "done"})

TaskPolls == pc["task"] \in TaskPlaces

\* Where the task is not about to start DHCP or to bind.
Calm == TaskPlaces \ (Restarts \cup Binds)

\* While the user's addresses stand, nobody is about to change them: the state
\* machine is off, or says what no step acts on, and the TCP/IP task is not
\* between a test and the effect that follows it, except that it may still be
\* binding if that is what the setter interrupted.
FixedIsCalm ==
  fixed # NONE /\ fixed.window # "restart" =>
    /\ DHCP_state \in {"OFF", "LINK_DOWN", "ADDRESS_ASSIGNED", "TIMEOUT"}
    /\ pc["task"] \in Calm \/ (fixed.window = "bind" /\ pc["task"] \in Binds)
    /\ pc["init"] = "done"

NInv == TypeOK /\ OffMeansSilent /\ TaskPolls /\ StaticConfigKept /\ FixedIsCalm

USE AddrAssumption, TriesAssumption, EnvAssumption

-----------------------------------------------------------------------------
(* lwIP's client operators.                                                  *)

\* What changes the state of the client yields a client.
LEMMA SetStateType ==
  ASSUME NEW d \in Client, NEW s \in ClientStates
  PROVE  /\ SetState(d, s) \in Client
         /\ SetState(d, s).st = s
<1>1. CASE d.st = s
  BY <1>1 DEF SetState
<1>2. CASE d.st # s
  <2> DEFINE e == [d EXCEPT !.st = s]
  <2>1. SetState(d, s) = [e EXCEPT !.tries = 0]
    BY <1>2 DEF SetState
  <2>2. e \in Client /\ e.st = s
    BY DEF Client
  <2>3. 0 \in 0..TRIES_CAP
    OBVIOUS
  <2>4. [e EXCEPT !.tries = 0] \in Client /\ [e EXCEPT !.tries = 0].st = s
    <3> HIDE DEF e
    <3> QED BY <2>2, <2>3 DEF Client
  <2> QED BY <2>1, <2>4
<1> QED BY <1>1, <1>2

LEMMA SentType ==
  ASSUME NEW d \in Client
  PROVE  /\ Sent(d) \in Client
         /\ Sent(d).st = d.st
BY DEF Client, Sent

\* Sending a message leaves a client in the state that waits for the answer.
LEMMA SendersType ==
  ASSUME NEW d \in Client
  PROVE  /\ Discover(d) \in Client /\ Discover(d).st = "selecting"
         /\ Select(d) \in Client /\ Select(d).st = "requesting"
         /\ Renew(d) \in Client /\ Renew(d).st = "renewing"
         /\ Rebind(d) \in Client /\ Rebind(d).st = "rebinding"
         /\ Reboot(d) \in Client /\ Reboot(d).st = "rebooting"
<1>1. ASSUME NEW s \in ClientStates
      PROVE  Sent(SetState(d, s)) \in Client /\ Sent(SetState(d, s)).st = s
  BY SetStateType, SentType
<1>2. [SetState(d, "selecting") EXCEPT !.offered = ZERO] \in Client
  BY SetStateType DEF Client, ClientStates
<1>3. [SetState(d, "selecting") EXCEPT !.offered = ZERO].st = "selecting"
  BY SetStateType DEF Client, ClientStates
<1>4. Discover(d) \in Client /\ Discover(d).st = "selecting"
  BY <1>2, <1>3, SentType DEF Discover
<1> QED BY <1>1, <1>4 DEF Select, Renew, Rebind, Reboot, ClientStates

LEMMA ClearedType == Cleared \in Client
BY DEF Cleared, Client, ClientStates

\* A stopped client is off or was never there, and is silent.
LEMMA StoppedType ==
  ASSUME NEW d \in Client
  PROVE  /\ Stopped(d) \in Client
         /\ Stopped(d).st \in {"none", "off"}
         /\ d.st \in {"none", "off"} => Stopped(d) = d
         /\ d.st \notin {"none", "off"} => Stopped(d) = Cleared
BY ClearedType DEF Stopped, Cleared

\* A client that is started runs, unless the interface is down.
LEMMA StartedType ==
  ASSUME NEW d \in Client
  PROVE  /\ Started(d) \in Client
         /\ Started(d) = d \/ Started(d).st \in {"selecting", "init"}
<1>1. Discover(Cleared) \in Client /\ Discover(Cleared).st = "selecting"
  BY ClearedType, SendersType
<1>2. SetState(Cleared, "init") \in Client /\ SetState(Cleared, "init").st = "init"
  BY ClearedType, SetStateType DEF ClientStates
<1> QED BY <1>1, <1>2 DEF Started

\* A client that is off stays off when the link comes up.
LEMMA LinkUpType ==
  ASSUME NEW d \in Client
  PROVE  /\ LinkUpClient(d) \in Client
         /\ LinkUpClient(d) = d \/ LinkUpClient(d).st \in {"rebooting", "selecting"}
<1>1. [d EXCEPT !.tries = 0] \in Client
  BY DEF Client
<1> QED BY <1>1, SendersType DEF LinkUpClient

LEMMA BindType ==
  ASSUME NEW d \in Client
  PROVE  /\ Bind(d) \in Client /\ Bind(d).st = "bound"
         /\ BoundAddr(d) \in Config
<1>1. SetState(d, "bound") \in Client /\ SetState(d, "bound").st = "bound"
  BY SetStateType DEF ClientStates
<1>2. Bind(d) \in Client /\ Bind(d).st = "bound"
  BY <1>1 DEF Bind, Client
<1>3. BoundAddr(d) \in Config
  BY DEF BoundAddr, Config, Values, Client
<1> QED BY <1>2, <1>3

LEMMA ZerosType == Zeros \in Config
BY DEF Zeros, Config, Values

LEMMA AddrTypes ==
  ASSUME NEW d \in Client, NEW a \in Config
  PROVE  StoppedAddr(d, a) \in Config
BY ZerosType DEF StoppedAddr

-----------------------------------------------------------------------------
(* Type correctness.                                                         *)

LEMMA InitNInv == Init => NInv
<1> SUFFICES ASSUME Init PROVE NInv
  OBVIOUS
<1>1. dhcp \in Client /\ dhcp.st = "none"
  BY ClearedType DEF Init, Client, ClientStates
<1>2. ~dhcp.lease /\ dhcp.acd = "off" /\ dhcp.offered = ZERO
  BY DEF Init, Cleared
<1>3. pc \in [Pollers -> Stages \cup Places] /\ TaskPolls
  BY DEF Init, Pollers, Stages, Places, TaskPolls, TaskPlaces
<1>4. TypeOK
  BY <1>1, <1>3, ZerosType DEF Init, TypeOK, DhcpStates
<1> QED BY <1>1, <1>2, <1>3, <1>4 DEF Init, NInv, OffMeansSilent, StaticConfigKept, FixedIsCalm

\* Where a poller goes is a place.
LEMMA GotoType ==
  ASSUME TypeOK, NEW p \in Pollers, NEW l \in Stages \cup Places, Goto(p, l)
  PROVE  pc' \in [Pollers -> Stages \cup Places]
BY DEF TypeOK, Goto

LEMMA NextStageType ==
  ASSUME TypeOK, NEW p \in Pollers
  PROVE  NextStage(p) \in Stages \cup Places /\ PollEnd(p) \in Stages \cup Places
BY DEF NextStage, PollEnd, Stages, Places

\* The steps of a poll keep the types.
LEMMA PollType ==
  ASSUME TypeOK, NEW p \in Pollers, Poll(p)
  PROVE  TypeOK'
<1> USE DEF TypeOK
<1>0. /\ PollEnd(p) \in Stages \cup Places /\ NextStage(p) \in Stages \cup Places
      /\ Zeros \in Config
  BY NextStageType, ZerosType
<1>1. CASE NothingDue(p)
  BY <1>0, <1>1, GotoType DEF NothingDue
<1>2. CASE InitCheck(p)
  BY <1>2, GotoType DEF InitCheck, Places
<1>3. CASE InitReset(p)
  BY <1>3, GotoType DEF InitReset, ResetState, Stages, DhcpStates
<1>4. CASE RecvOffer(p)
  <2>1. [dhcp EXCEPT !.offered = LEASE] \in Client
    BY DEF Client
  <2>2. dhcp' \in Client
    BY <1>4, <2>1, SendersType DEF RecvOffer
  <2> QED BY <1>4, <2>2, GotoType DEF RecvOffer, Stages
<1>5. CASE RecvAck(p)
  <2>1. SetState(dhcp, "checking") \in Client
    BY SetStateType DEF ClientStates
  <2>2. [SetState(dhcp, "checking") EXCEPT !.offered = LEASE, !.acd = "probing"] \in Client
    BY <2>1 DEF Client
  <2>3. [dhcp EXCEPT !.offered = LEASE] \in Client
    BY DEF Client
  <2>4. dhcp' \in Client
    BY <1>5, <2>2, <2>3, BindType DEF RecvAck
  <2>5. Goto(p, "link") \/ Goto(p, "renewAddr")
    BY <1>5 DEF RecvAck
  <2>6. pc' \in [Pollers -> Stages \cup Places]
    BY <2>5, GotoType DEF Stages, Places
  <2> QED BY <1>5, <2>4, <2>6 DEF RecvAck
<1>6. CASE RecvNak(p)
  <2>1. dhcp' \in Client
    BY <1>6, SetStateType, SendersType DEF RecvNak, ClientStates
  <2> QED BY <1>0, <1>6, <2>1, GotoType DEF RecvNak, Stages
<1>7. CASE RecvConflict(p)
  <2>1. SetState(dhcp, "backing_off") \in Client
    BY SetStateType DEF ClientStates
  <2>2. \A a \in {"off", "limited"} :
          [SetState(dhcp, "backing_off") EXCEPT !.acd = a] \in Client
    BY <2>1 DEF Client
  <2> QED BY <1>0, <1>7, <2>2, GotoType DEF RecvConflict, Stages
<1>8. CASE SetLeaseAddr(p)
  BY <1>8, BindType, GotoType DEF SetLeaseAddr, Stages
<1>9. CASE LinkDown(p)
  <2>1. [dhcp EXCEPT !.acd = "off"] \in Client
    BY DEF Client
  <2> QED BY <1>9, <2>1, GotoType DEF LinkDown, Places
<1>10. CASE LinkUp(p)
  BY <1>10, LinkUpType, GotoType DEF LinkUp, Places
<1>11. CASE NotifyState(p)
  BY <1>11, GotoType DEF NotifyState, Places, DhcpStates
<1>12. CASE NotifyNetif(p)
  <2>1. up' \in BOOLEAN
    BY <1>12 DEF NotifyNetif, NetifFlag
  <2> QED BY <1>12, <2>1, GotoType DEF NotifyNetif, Stages
<1>13. CASE RequestTimeout(p)
  <2>1. dhcp' \in Client
    BY <1>13, SendersType, StoppedType, StartedType DEF RequestTimeout
  <2> QED BY <1>13, <2>1, GotoType DEF RequestTimeout, Stages
<1>14. CASE LeaseTimer(p)
  <2>1. dhcp' \in Client /\ addr' \in Config
    BY <1>14, SendersType, StoppedType, StartedType, AddrTypes DEF LeaseTimer
  <2> QED BY <1>14, <2>1, GotoType DEF LeaseTimer, Stages
<1>15. CASE AcdOk(p)
  <2>1. [dhcp EXCEPT !.acd = "ongoing"] \in Client
    BY DEF Client
  <2> QED BY <1>15, <2>1, GotoType DEF AcdOk, Places
<1>16. CASE AcdCallback(p)
  BY <1>16, BindType, GotoType DEF AcdCallback, Places
<1>17. CASE ProcessLinkDown(p)
  BY <1>0, <1>17, GotoType DEF ProcessLinkDown, DhcpStates
<1>18. CASE ProcessStart(p)
  BY <1>18, GotoType DEF ProcessStart, Places
<1>19. CASE ProcessSetWait(p)
  BY <1>19, GotoType DEF ProcessSetWait, Places, DhcpStates
<1>20. CASE ProcessDhcpStart(p)
  BY <1>0, <1>20, StartedType, GotoType DEF ProcessDhcpStart
<1>21. CASE ProcessSupplied(p)
  BY <1>21, GotoType DEF ProcessSupplied, Places
<1>22. CASE ProcessAssigned(p)
  BY <1>0, <1>22, GotoType DEF ProcessAssigned, DhcpStates
<1>23. CASE ProcessTimeout(p)
  BY <1>23, GotoType DEF ProcessTimeout, Places
<1>24. CASE ProcessGiveUp(p)
  BY <1>0, <1>24, StoppedType, AddrTypes, GotoType DEF ProcessGiveUp
<1>25. CASE ProcessStaleDown(p)
  BY <1>0, <1>25, StoppedType, AddrTypes, GotoType DEF ProcessStaleDown, DhcpStates
<1>26. CASE ProcessZero(p)
  BY <1>0, <1>26, GotoType DEF ProcessZero, Places
<1>27. CASE ProcessSetTimeout(p)
  BY <1>27, GotoType DEF ProcessSetTimeout, Places, DhcpStates
<1>28. CASE AcdLimitOver(p)
  <2>1. SetState(dhcp, "backing_off") \in Client
    BY SetStateType DEF ClientStates
  <2>2. [SetState(dhcp, "backing_off") EXCEPT !.acd = "off"] \in Client
    BY <2>1 DEF Client
  <2> QED BY <1>28, <2>2, GotoType DEF AcdLimitOver, Stages
<1>29. CASE SetNoLeaseAddr(p)
  <2>1. addr' \in Config
    BY <1>29 DEF SetNoLeaseAddr, Config, Values, Client
  <2> QED BY <1>29, <2>1, GotoType DEF SetNoLeaseAddr, Stages
<1> QED BY <1>1, <1>2, <1>3, <1>4, <1>5, <1>6, <1>7, <1>8, <1>9, <1>10, <1>11, <1>12,
        <1>13, <1>14, <1>15, <1>16, <1>17, <1>18, <1>19, <1>20, <1>21, <1>22, <1>23,
        <1>24, <1>25, <1>26, <1>27, <1>28, <1>29 DEF Poll

\* Every setter is a Configure.
LEMMA SetterConfigures ==
  ASSUME TypeOK, Setter
  PROVE  \E a \in Config : Configure(a)
<1>1. \A i, m, g \in Addrs : [ip |-> i, mask |-> m, gw |-> g] \in Config
  BY DEF Config, Values
<1>2. \A v \in Addrs : /\ [addr EXCEPT !.ip = v] \in Config
                      /\ [addr EXCEPT !.gw = v] \in Config
                      /\ [addr EXCEPT !.mask = v] \in Config
  BY DEF TypeOK, Config, Values
<1> QED BY <1>1, <1>2 DEF Setter, NeonTCPIP_IF_Update_Addresses, NeonTCPIP_IF_Set_IP_Address,
        NeonTCPIP_IF_Set_Gateway_Address, NeonTCPIP_IF_Set_NetMask_Address

LEMMA SetterType ==
  ASSUME TypeOK, Setter
  PROVE  TypeOK'
<1>1. PICK a \in Config : Configure(a)
  BY SetterConfigures
<1>2. [addr |-> a, window |-> Window(pc["task"])] \in Setting
  BY DEF Setting, Window
<1> QED BY <1>1, <1>2, StoppedType DEF Configure, TypeOK, DhcpStates

-----------------------------------------------------------------------------
(* The inductive invariant.                                                  *)

\* A step that leaves the client alone, or leaves it in a running state, keeps
\* a client that is off silent.
LEMMA SilentIfRunning ==
  ASSUME OffMeansSilent, dhcp' = dhcp \/ dhcp'.st \notin {"none", "off"}
  PROVE  OffMeansSilent'
BY DEF OffMeansSilent

\* So does one that stops it, and perhaps starts it again.
LEMMA SilentIfStopped ==
  ASSUME TypeOK, OffMeansSilent,
         dhcp' = Stopped(dhcp) \/ dhcp' = Started(Stopped(dhcp)) \/ dhcp' = Started(dhcp)
         \/ dhcp' = LinkUpClient(dhcp)
  PROVE  OffMeansSilent'
<1> DEFINE Silent(d) ==
           d.st \in {"none", "off"} => ~d.lease /\ d.acd = "off" /\ d.offered = ZERO
<1>1. Silent(dhcp) /\ Silent(Cleared)
  BY DEF OffMeansSilent, Cleared
<1>2. Silent(Stopped(dhcp)) /\ Stopped(dhcp) \in Client
  BY <1>1, StoppedType DEF TypeOK
<1>3. ASSUME NEW d \in Client, Silent(d) PROVE Silent(Started(d))
  BY <1>3, StartedType
<1>4. Silent(LinkUpClient(dhcp))
  BY <1>1, LinkUpType DEF TypeOK
<1>5. Silent(Started(Stopped(dhcp))) /\ Silent(Started(dhcp))
  BY <1>1, <1>2, <1>3 DEF TypeOK
<1>6. Silent(dhcp')
  BY <1>2, <1>4, <1>5
<1> QED BY <1>6 DEF OffMeansSilent

\* No step of a poll wakes a timer of a client that is off.
LEMMA PollSilent ==
  ASSUME NInv, NEW p \in Pollers, Poll(p)
  PROVE  OffMeansSilent'
<1> USE DEF NInv
<1>0. dhcp \in Client
  BY DEF TypeOK
<1>1. CASE UNCHANGED dhcp
  BY <1>1, SilentIfRunning
<1>2. CASE RecvOffer(p)
  <2>1. [dhcp EXCEPT !.offered = LEASE] \in Client
    BY <1>0 DEF Client
  <2> QED BY <1>2, <2>1, SendersType, SilentIfRunning DEF RecvOffer
<1>3. CASE RecvAck(p)
  <2>1. SetState(dhcp, "checking") \in Client /\ SetState(dhcp, "checking").st = "checking"
    BY <1>0, SetStateType DEF ClientStates
  <2>2. [SetState(dhcp, "checking") EXCEPT !.offered = LEASE, !.acd = "probing"].st = "checking"
    BY <2>1 DEF Client
  <2>3. [dhcp EXCEPT !.offered = LEASE] \in Client
    BY <1>0 DEF Client
  <2> QED BY <1>3, <2>2, <2>3, BindType, SilentIfRunning DEF RecvAck
<1>4. CASE RecvNak(p)
  <2>1. SetState(dhcp, "backing_off") \in Client
    BY <1>0, SetStateType DEF ClientStates
  <2> QED BY <1>4, <2>1, SendersType, SilentIfRunning DEF RecvNak
<1>5. CASE RecvConflict(p)
  <2>1. SetState(dhcp, "backing_off") \in Client /\ SetState(dhcp, "backing_off").st = "backing_off"
    BY <1>0, SetStateType DEF ClientStates
  <2>2. \A a \in {"off", "limited"} :
          [SetState(dhcp, "backing_off") EXCEPT !.acd = a].st = "backing_off"
    BY <2>1 DEF Client
  <2> QED BY <1>5, <2>2, SilentIfRunning DEF RecvConflict
<1>6. CASE LinkDown(p)
  <2>1. dhcp' = [dhcp EXCEPT !.acd = "off"]
    BY <1>6 DEF LinkDown
  <2>2. /\ dhcp'.st = dhcp.st /\ dhcp'.lease = dhcp.lease /\ dhcp'.acd = "off"
        /\ dhcp'.offered = dhcp.offered
    BY <1>0, <2>1 DEF Client
  <2> QED BY <2>2 DEF OffMeansSilent
<1>7. CASE LinkUp(p)
  BY <1>7, SilentIfStopped DEF LinkUp
<1>8. CASE RequestTimeout(p)
  <2>1. dhcp'.st \in {"selecting", "requesting", "rebooting"} \/ dhcp' = Started(Stopped(dhcp))
    BY <1>0, <1>8, SendersType DEF RequestTimeout
  <2> QED BY <2>1, SilentIfRunning, SilentIfStopped
<1>9. CASE LeaseTimer(p)
  <2>1. dhcp'.st \in {"renewing", "rebinding"} \/ dhcp' = Started(Stopped(dhcp))
    BY <1>0, <1>9, SendersType DEF LeaseTimer
  <2> QED BY <2>1, SilentIfRunning, SilentIfStopped
<1>10. CASE AcdOk(p)
  <2>1. dhcp' = [dhcp EXCEPT !.acd = "ongoing"] /\ dhcp.acd = "probing"
    BY <1>10 DEF AcdOk
  <2>2. dhcp'.st = dhcp.st /\ dhcp.st \notin {"none", "off"}
    BY <1>0, <2>1 DEF Client, OffMeansSilent
  <2> QED BY <2>2, SilentIfRunning
<1>11. CASE AcdCallback(p)
  BY <1>0, <1>11, BindType, SilentIfRunning DEF AcdCallback
<1>12. CASE ProcessDhcpStart(p) \/ ProcessGiveUp(p) \/ ProcessStaleDown(p)
  BY <1>12, SilentIfStopped DEF ProcessDhcpStart, ProcessGiveUp, ProcessStaleDown
<1>13. CASE AcdLimitOver(p)
  <2>1. SetState(dhcp, "backing_off") \in Client /\ SetState(dhcp, "backing_off").st = "backing_off"
    BY <1>0, SetStateType DEF ClientStates
  <2>2. [SetState(dhcp, "backing_off") EXCEPT !.acd = "off"].st = "backing_off"
    BY <2>1 DEF Client
  <2> QED BY <1>13, <2>2, SilentIfRunning DEF AcdLimitOver
<1> QED BY <1>1, <1>2, <1>3, <1>4, <1>5, <1>6, <1>7, <1>8, <1>9, <1>10, <1>11, <1>12, <1>13
        DEF Poll, NothingDue, InitCheck, InitReset, SetLeaseAddr, SetNoLeaseAddr, NotifyState, NotifyNetif,
            ProcessLinkDown, ProcessStart, ProcessSetWait, ProcessSupplied, ProcessAssigned,
            ProcessTimeout, ProcessZero, ProcessSetTimeout

\* The task goes from one of its places to another.
LEMMA TaskKeepsPolling ==
  ASSUME TypeOK, TaskPolls, NEW p \in Pollers, Poll(p)
  PROVE  TaskPolls'
<1>1. CASE p = "init"
  <2>1. PICK l : pc' = [pc EXCEPT !["init"] = l]
    BY <1>1 DEF Poll, Goto, NothingDue, InitCheck, InitReset, RecvOffer, RecvAck, RecvNak,
           RecvConflict, SetLeaseAddr, SetNoLeaseAddr, LinkDown, LinkUp, NotifyState,
           NotifyNetif, RequestTimeout, LeaseTimer, AcdOk, AcdLimitOver, AcdCallback,
           ProcessLinkDown, ProcessStart, ProcessSetWait, ProcessDhcpStart, ProcessSupplied,
           ProcessAssigned, ProcessTimeout, ProcessGiveUp, ProcessStaleDown, ProcessZero,
           ProcessSetTimeout
  <2> QED BY <2>1 DEF TypeOK, TaskPolls, Pollers
<1>2. CASE p = "task"
  <2>1. NextStage(p) \in TaskPlaces /\ PollEnd(p) \in TaskPlaces
    BY <1>2 DEF NextStage, PollEnd, TaskPlaces, Stages
  <2>2. {"link", "renewAddr", "dhcp", "downState", "upState", "upNetif", "downNetif", "timers",
         "linkup", "acdOk", "zeroAddr", "bindAddr", "zero", "setWait", "start", "assign",
         "tooMany", "giveUp", "input"} \subseteq TaskPlaces
    BY DEF TaskPlaces, Stages, Places
  <2>3. PICK l \in TaskPlaces : Goto(p, l)
    BY <1>2, <2>1, <2>2 DEF Poll, NothingDue, InitCheck, InitReset, RecvOffer, RecvAck, RecvNak,
           RecvConflict, SetLeaseAddr, SetNoLeaseAddr, LinkDown, LinkUp, NotifyState,
           NotifyNetif, RequestTimeout, LeaseTimer, AcdOk, AcdLimitOver, AcdCallback,
           ProcessLinkDown, ProcessStart, ProcessSetWait, ProcessDhcpStart, ProcessSupplied,
           ProcessAssigned, ProcessTimeout, ProcessGiveUp, ProcessStaleDown, ProcessZero,
           ProcessSetTimeout
  <2> QED BY <1>2, <2>3 DEF Goto, TypeOK, TaskPolls, Pollers
<1> QED BY <1>1, <1>2 DEF Pollers

\* Nor does one touch the user's addresses while they stand: of the steps that
\* the TCP/IP task can take with the client off, none starts the client, and only
\* one that was already binding changes the addresses, which then has no address.
LEMMA PollKeepsFixed ==
  ASSUME NInv, NEW p \in Pollers, Poll(p)
  PROVE  StaticConfigKept' /\ FixedIsCalm'
<1> DEFINE Binding == fixed.window = "bind" /\ pc["task"] \in Binds
<1> SUFFICES ASSUME fixed' # NONE, fixed'.window # "restart"
             PROVE  /\ dhcp'.st \in {"none", "off"}
                    /\ fixed'.window = "calm" => addr' = fixed'.addr
                    /\ fixed'.window = "bind" => addr'.ip \in {fixed'.addr.ip, ZERO}
                    /\ DHCP_state' \in {"OFF", "LINK_DOWN", "ADDRESS_ASSIGNED", "TIMEOUT"}
                    /\ pc'["task"] \in Calm \/ Binding'
                    /\ pc'["init"] = "done"
  BY DEF StaticConfigKept, FixedIsCalm
<1>1. UNCHANGED fixed
  BY DEF Poll, NothingDue, InitCheck, InitReset, RecvOffer, RecvAck, RecvNak, RecvConflict,
         SetLeaseAddr, SetNoLeaseAddr, LinkDown, LinkUp, NotifyState, NotifyNetif,
         RequestTimeout, LeaseTimer, AcdOk, AcdLimitOver, AcdCallback, ProcessLinkDown,
         ProcessStart, ProcessSetWait, ProcessDhcpStart, ProcessSupplied, ProcessAssigned,
         ProcessTimeout, ProcessGiveUp, ProcessStaleDown, ProcessZero, ProcessSetTimeout
<1>2. /\ dhcp.st \in {"none", "off"}
      /\ fixed.window = "calm" => addr = fixed.addr
      /\ fixed.window = "bind" => addr.ip \in {fixed.addr.ip, ZERO}
      /\ DHCP_state \in {"OFF", "LINK_DOWN", "ADDRESS_ASSIGNED", "TIMEOUT"}
      /\ pc["task"] \in Calm \/ Binding
      /\ pc["init"] = "done"
  BY <1>1 DEF NInv, StaticConfigKept, FixedIsCalm
<1>3. /\ ~dhcp.lease /\ dhcp.acd = "off" /\ dhcp.offered = ZERO
      /\ dhcp \in Client /\ pc \in [Pollers -> Stages \cup Places]
  BY <1>2 DEF NInv, TypeOK, OffMeansSilent
<1>4. p = "task"
  BY <1>2 DEF Pollers, Stages, Poll, At, NothingDue, InitCheck, InitReset, RecvOffer, RecvAck,
         RecvNak, RecvConflict, SetLeaseAddr, SetNoLeaseAddr, LinkDown, LinkUp, NotifyState,
         NotifyNetif, RequestTimeout, LeaseTimer, AcdOk, AcdLimitOver, AcdCallback,
         ProcessLinkDown, ProcessStart, ProcessSetWait, ProcessDhcpStart, ProcessSupplied,
         ProcessAssigned, ProcessTimeout, ProcessGiveUp, ProcessStaleDown, ProcessZero,
         ProcessSetTimeout
<1>5. Calm = Stages \cup {"downState", "downNetif", "upNetif", "assign", "tooMany", "giveUp"}
  BY DEF Calm, TaskPlaces, Stages, Places, Restarts, Binds
<1>6. pc["task"] \notin Restarts \cup {"check", "reset_up", "reset_down"}
  BY <1>2, <1>5 DEF Stages, Restarts, Binds
<1>7. \/ NothingDue(p) \/ LinkDown(p) \/ NotifyState(p) \/ NotifyNetif(p)
      \/ SetLeaseAddr(p) \/ SetNoLeaseAddr(p)
      \/ ProcessLinkDown(p) \/ ProcessAssigned(p) \/ ProcessSetTimeout(p)
      \/ ProcessGiveUp(p) \/ ProcessStaleDown(p)
  <2>1. ~InitCheck(p) /\ ~InitReset(p) /\ ~AcdCallback(p)
        /\ ~ProcessZero(p) /\ ~ProcessSetWait(p) /\ ~ProcessDhcpStart(p)
    BY <1>4, <1>6 DEF Restarts, At, InitCheck, InitReset, AcdCallback, ProcessZero,
           ProcessSetWait, ProcessDhcpStart
  <2>2. ~RecvOffer(p) /\ ~RecvAck(p) /\ ~RecvNak(p) /\ ~RecvConflict(p)
    BY <1>2, <1>3 DEF RecvOffer, RecvAck, RecvNak, RecvConflict
  <2>3. ~RequestTimeout(p) /\ ~LeaseTimer(p) /\ ~AcdOk(p) /\ ~AcdLimitOver(p)
    BY <1>2, <1>3 DEF RequestTimeout, LeaseTimer, AcdOk, AcdLimitOver
  <2>4. ~ProcessStart(p) /\ ~ProcessSupplied(p) /\ ~ProcessTimeout(p)
    BY <1>2 DEF ProcessStart, ProcessSupplied, ProcessTimeout
  <2>5. ~LinkUp(p)
    BY DEF LinkUp
  <2> QED BY <2>1, <2>2, <2>3, <2>4, <2>5 DEF Poll
<1>8. dhcp'.st = dhcp.st
  <2>1. CASE LinkDown(p)
    BY <1>3, <2>1 DEF LinkDown, Client
  <2>2. CASE ProcessGiveUp(p) \/ ProcessStaleDown(p)
    BY <1>2, <2>2 DEF ProcessGiveUp, ProcessStaleDown, Stopped
  <2> QED BY <1>7, <2>1, <2>2 DEF NothingDue, NotifyState, NotifyNetif, ProcessLinkDown,
             ProcessAssigned, ProcessSetTimeout, SetLeaseAddr, SetNoLeaseAddr
<1>9. addr' = addr \/ (addr'.ip = ZERO /\ Binding)
  <2>1. CASE SetLeaseAddr(p) \/ SetNoLeaseAddr(p)
    <3>1. addr'.ip = ZERO
      BY <1>3, <2>1 DEF SetLeaseAddr, SetNoLeaseAddr, BoundAddr
    <3>2. pc["task"] \notin Calm
      BY <1>4, <1>5, <2>1 DEF SetLeaseAddr, SetNoLeaseAddr, At, Stages
    <3> QED BY <1>2, <3>1, <3>2
  <2>2. CASE ProcessGiveUp(p) \/ ProcessStaleDown(p)
    BY <1>2, <2>2 DEF ProcessGiveUp, ProcessStaleDown, StoppedAddr, Supplied
  <2> QED BY <1>7, <2>1, <2>2 DEF NothingDue, LinkDown, NotifyState, NotifyNetif,
             ProcessLinkDown, ProcessAssigned, ProcessSetTimeout
<1>10. DHCP_state' \in {"OFF", "LINK_DOWN", "ADDRESS_ASSIGNED", "TIMEOUT"}
  BY <1>2, <1>4, <1>6, <1>7 DEF Restarts, NothingDue, LinkDown, NotifyState, NotifyNetif,
         ProcessLinkDown, ProcessAssigned, ProcessSetTimeout, ProcessGiveUp, ProcessStaleDown,
         SetLeaseAddr, SetNoLeaseAddr
<1>11. PICK l \in Calm : Goto(p, l)
  <2>1. NextStage(p) \in Calm /\ PollEnd(p) \in Calm
    BY <1>4, <1>5 DEF NextStage, PollEnd, Stages
  <2>2. {"link", "linkup", "timers", "dhcp", "downState", "downNetif", "upNetif", "giveUp"}
          \subseteq Calm
    BY <1>5 DEF Stages
  <2>3. pc[p] # "upState"
    BY <1>4, <1>6 DEF Restarts
  <2> QED BY <1>7, <2>1, <2>2, <2>3 DEF NothingDue, LinkDown, NotifyState, NotifyNetif,
             ProcessLinkDown, ProcessAssigned, ProcessSetTimeout, ProcessGiveUp,
             ProcessStaleDown, SetLeaseAddr, SetNoLeaseAddr
<1>12. pc'["task"] \in Calm /\ pc'["init"] = "done"
  BY <1>2, <1>3, <1>4, <1>11 DEF Goto, Pollers
<1> QED BY <1>1, <1>2, <1>8, <1>9, <1>10, <1>12

\* A setter leaves what it asks for, and the window it interrupted tells what
\* follows.
LEMMA SetterKeeps ==
  ASSUME NInv, Setter
  PROVE  NInv'
<1>1. TypeOK'
  BY SetterType DEF NInv
<1>2. PICK a \in Config : Configure(a)
  BY SetterConfigures DEF NInv
<1>3. OffMeansSilent'
  BY <1>2, SilentIfStopped DEF Configure, NInv
<1>4. dhcp'.st \in {"none", "off"}
  BY <1>2, StoppedType DEF Configure, NInv, TypeOK
<1>5. fixed'.addr = a /\ fixed'.window = Window(pc["task"]) /\ addr' = a
  BY <1>2 DEF Configure
<1>6. TaskPolls'
  BY <1>2 DEF Configure, NInv, TaskPolls
<1>7. StaticConfigKept'
  BY <1>4, <1>5 DEF StaticConfigKept
<1>8. FixedIsCalm'
  <2>1. Window(pc["task"]) # "restart" =>
          pc["task"] \in Calm \/ (Window(pc["task"]) = "bind" /\ pc["task"] \in Binds)
    BY DEF Window, NInv, TaskPolls, Calm
  <2> QED BY <1>2, <1>5, <2>1 DEF Configure, FixedIsCalm
<1> QED BY <1>1, <1>3, <1>6, <1>7, <1>8 DEF NInv

\* The inductive invariant holds in every reachable state.
LEMMA NetInvariant == Spec => []NInv
<1>1. Init => NInv
  BY InitNInv
<1>2. NInv /\ [Next]_vars => NInv'
  <2> SUFFICES ASSUME NInv, [Next]_vars PROVE NInv'
    OBVIOUS
  <2>1. CASE Setter
    BY <2>1, SetterKeeps
  <2>2. ASSUME NEW p \in Pollers, Poll(p) PROVE NInv'
    BY <2>2, PollType, PollSilent, TaskKeepsPolling, PollKeepsFixed DEF NInv
  <2>3. CASE UNCHANGED vars
    BY <2>3 DEF vars, NInv, TypeOK, OffMeansSilent, TaskPolls, StaticConfigKept, FixedIsCalm
  <2> QED BY <2>1, <2>2, <2>3 DEF Next
<1> QED BY <1>1, <1>2, PTL DEF Spec

\* The state machine, the client of lwIP, the addresses and the two pollers have
\* their types; in particular dhcp->tries never runs over.
THEOREM NetTypeCorrect == Spec => []TypeOK
<1>1. NInv => TypeOK
  BY DEF NInv
<1> QED BY <1>1, NetInvariant, PTL

\* A client that a network CGI stops through NeonTCPIP.c stays stopped, and the
\* addresses it sets are not overwritten by DHCP until the link comes up again,
\* wherever the TCP/IP task was interrupted, except in the windows that
\* StaticConfigKept names.
THEOREM StaticKept == Spec => []StaticConfigKept
<1>1. NInv => StaticConfigKept
  BY DEF NInv
<1> QED BY <1>1, NetInvariant, PTL

-----------------------------------------------------------------------------
(* The start-up without a tick: the pollers run one after the other, and the  *)
(* state machine, the client and the flags of the interface agree at every    *)
(* place where a setter may come in.                                          *)

Starting == {"zero", "setWait", "start"}
GoingDown == {"downState", "downNetif"}
GoingUp == {"upState", "upNetif"}
GivingUp == {"tooMany", "giveUp"}

\* Where a poller has nothing in its hands.
Idle == {"input", "done"}

\* The TCP/IP task waits for the end of the poll in NeonTCPIP_init.
Sequential == pc["init"] # "done" => pc["task"] = "input"

\* What a poller has found is still true when it acts upon it.
InHand(p) ==
  /\ pc[p] \in Starting \cup GoingUp => link
  /\ pc[p] \in GoingDown => ~link
  /\ pc[p] \in {"start", "acdOk"} => DHCP_state # "TIMEOUT"
  /\ pc[p] \in GivingUp => dhcp.st # "none"

\* The interface is up if and only if the link is, but for the link callback.
UpFollowsLink == up = link \/ \E p \in Pollers : pc[p] \in GoingDown \cup GoingUp

Undisturbed ==
  /\ Sequential
  /\ \A p \in Pollers : InHand(p)
  /\ UpFollowsLink
  /\ NullSafe /\ TimeoutMeansStopped

SInv == NInv /\ (~tick => Undisturbed)
\* The same, seen by the poller that runs.
Own(p) ==
  /\ InHand(p)
  /\ up = link \/ pc[p] \in GoingDown \cup GoingUp
  /\ DHCP_state = "WAIT_ADDRESS" => dhcp.st # "none" \/ pc[p] = "start"
  /\ DHCP_state = "TIMEOUT" => dhcp.st = "off" \/ pc[p] = "giveUp"

\* While one poller takes a step, the other has nothing in its hands.
LEMMA OneRuns ==
  ASSUME TypeOK, Sequential, ~tick, NEW p \in Pollers, Poll(p)
  PROVE  /\ ~tick' /\ Sequential'
         /\ pc' \in [Pollers -> Stages \cup Places]
         /\ \A q \in Pollers \ {p} : pc[q] \in Idle /\ pc'[q] \in Idle
<1>1. UNCHANGED tick
  BY DEF Poll, NothingDue, InitCheck, InitReset, RecvOffer, RecvAck, RecvNak, RecvConflict,
         SetLeaseAddr, SetNoLeaseAddr, LinkDown, LinkUp, NotifyState, NotifyNetif, RequestTimeout, LeaseTimer,
         AcdOk, AcdLimitOver, AcdCallback, ProcessLinkDown, ProcessStart, ProcessSetWait,
         ProcessDhcpStart, ProcessSupplied, ProcessAssigned, ProcessTimeout, ProcessGiveUp,
         ProcessStaleDown, ProcessZero, ProcessSetTimeout
<1>2. Runs(p) /\ pc[p] # "done"
  BY DEF Poll, At, Stages, NothingDue, InitCheck, InitReset, RecvOffer, RecvAck, RecvNak,
         RecvConflict, SetLeaseAddr, SetNoLeaseAddr, LinkDown, LinkUp, NotifyState, NotifyNetif,
         RequestTimeout, LeaseTimer, AcdOk, AcdLimitOver, AcdCallback, ProcessLinkDown,
         ProcessStart, ProcessSetWait, ProcessDhcpStart, ProcessSupplied, ProcessAssigned,
         ProcessTimeout, ProcessGiveUp, ProcessStaleDown, ProcessZero, ProcessSetTimeout
<1>3. PICK l : pc' = [pc EXCEPT ![p] = l]
  BY DEF Poll, Goto, NothingDue, InitCheck, InitReset, RecvOffer, RecvAck, RecvNak,
         RecvConflict, SetLeaseAddr, SetNoLeaseAddr, LinkDown, LinkUp, NotifyState, NotifyNetif,
         RequestTimeout, LeaseTimer, AcdOk, AcdLimitOver, AcdCallback, ProcessLinkDown,
         ProcessStart, ProcessSetWait, ProcessDhcpStart, ProcessSupplied, ProcessAssigned,
         ProcessTimeout, ProcessGiveUp, ProcessStaleDown, ProcessZero, ProcessSetTimeout
<1>4. pc' \in [Pollers -> Stages \cup Places] /\ pc \in [Pollers -> Stages \cup Places]
  BY PollType DEF TypeOK
<1>5. CASE p = "init"
  BY <1>1, <1>2, <1>3, <1>4, <1>5 DEF Sequential, Idle, Pollers
<1>6. CASE p = "task"
  BY <1>1, <1>2, <1>3, <1>4, <1>6 DEF Sequential, Idle, Pollers, Runs
<1> QED BY <1>5, <1>6 DEF Pollers

\* So what it sees is what there is.
LEMMA OwnIsAll ==
  ASSUME ~tick, Undisturbed,
         NEW p \in Pollers, \A q \in Pollers \ {p} : pc[q] \in Idle
  PROVE  Own(p)
<1>1. \A q \in Pollers \ {p} : /\ pc[q] \notin GoingDown \cup GoingUp
                              /\ pc[q] \notin {"start", "giveUp", "acdOk"}
  BY DEF Idle, GoingUp, GoingDown
<1> QED BY <1>1 DEF Undisturbed, UpFollowsLink, NullSafe, TimeoutMeansStopped, Own

\* A client that does not run is only started by the state machine, or bound by a
\* callback that is already under way, and one that exists is never lost.
LEMMA ClientSteps ==
  ASSUME NInv, NEW p \in Pollers, Poll(p)
  PROVE  /\ dhcp.st \in {"none", "off"} /\ ~ProcessDhcpStart(p) /\ ~AcdCallback(p) =>
              dhcp'.st = dhcp.st
         /\ dhcp.st # "none" => dhcp'.st # "none"
<1>0. dhcp \in Client /\ dhcp' \in Client
  BY PollType DEF NInv, TypeOK
<1>1. CASE UNCHANGED dhcp
  BY <1>1
<1>2. CASE RecvOffer(p)
  <2>1. [dhcp EXCEPT !.offered = LEASE] \in Client
    BY <1>0 DEF Client
  <2> QED BY <1>2, <2>1, SendersType DEF RecvOffer
<1>3. CASE RecvAck(p)
  <2>1. SetState(dhcp, "checking") \in Client /\ SetState(dhcp, "checking").st = "checking"
    BY <1>0, SetStateType DEF ClientStates
  <2>2. [SetState(dhcp, "checking") EXCEPT !.offered = LEASE, !.acd = "probing"].st = "checking"
    BY <2>1 DEF Client
  <2>3. [dhcp EXCEPT !.offered = LEASE] \in Client
    BY <1>0 DEF Client
  <2>4. dhcp.st \notin {"none", "off"}
    BY <1>3 DEF RecvAck
  <2> QED BY <1>3, <2>2, <2>3, <2>4, BindType DEF RecvAck
<1>4. CASE RecvNak(p)
  <2>1. SetState(dhcp, "backing_off") \in Client
    BY <1>0, SetStateType DEF ClientStates
  <2> QED BY <1>4, <2>1, SendersType DEF RecvNak
<1>5. CASE RecvConflict(p)
  <2>1. SetState(dhcp, "backing_off") \in Client /\ SetState(dhcp, "backing_off").st = "backing_off"
    BY <1>0, SetStateType DEF ClientStates
  <2>2. \A a \in {"off", "limited"} :
          [SetState(dhcp, "backing_off") EXCEPT !.acd = a].st = "backing_off"
    BY <2>1 DEF Client
  <2>3. dhcp.st \notin {"none", "off"}
    BY <1>5 DEF RecvConflict, NInv, OffMeansSilent
  <2> QED BY <1>5, <2>2, <2>3 DEF RecvConflict
<1>6. CASE LinkDown(p)
  <2>1. dhcp' = [dhcp EXCEPT !.acd = "off"]
    BY <1>6 DEF LinkDown
  <2> QED BY <1>0, <2>1 DEF Client
<1>7. CASE LinkUp(p)
  BY <1>0, <1>7, LinkUpType DEF LinkUp, LinkUpClient
<1>8. CASE RequestTimeout(p)
  <2>1. \/ dhcp'.st \in {"selecting", "requesting", "rebooting"}
        \/ dhcp' = Started(Stopped(dhcp)) /\ dhcp.st = "requesting"
    BY <1>0, <1>8, SendersType DEF RequestTimeout
  <2>2. dhcp.st \notin {"none", "off"}
    BY <1>8 DEF RequestTimeout
  <2> QED BY <1>0, <2>1, <2>2, StoppedType, StartedType DEF Cleared
<1>9. CASE LeaseTimer(p)
  <2>1. dhcp'.st \in {"renewing", "rebinding"} \/ dhcp' = Started(Stopped(dhcp))
    BY <1>0, <1>9, SendersType DEF LeaseTimer
  <2>2. dhcp.st \notin {"none", "off"}
    BY <1>9 DEF LeaseTimer, NInv, OffMeansSilent
  <2> QED BY <1>0, <2>1, <2>2, StoppedType, StartedType DEF Cleared
<1>10. CASE AcdOk(p)
  <2>1. dhcp' = [dhcp EXCEPT !.acd = "ongoing"]
    BY <1>10 DEF AcdOk
  <2> QED BY <1>0, <2>1 DEF Client
<1>11. CASE AcdCallback(p)
  BY <1>0, <1>11, BindType DEF AcdCallback
<1>12. CASE ProcessDhcpStart(p)
  BY <1>0, <1>12, StartedType DEF ProcessDhcpStart
<1>13. CASE ProcessGiveUp(p) \/ ProcessStaleDown(p)
  BY <1>0, <1>13, StoppedType DEF ProcessGiveUp, ProcessStaleDown, Cleared
<1>14. CASE AcdLimitOver(p)
  <2>1. SetState(dhcp, "backing_off") \in Client /\ SetState(dhcp, "backing_off").st = "backing_off"
    BY <1>0, SetStateType DEF ClientStates
  <2>2. [SetState(dhcp, "backing_off") EXCEPT !.acd = "off"].st = "backing_off"
    BY <2>1 DEF Client
  <2>3. dhcp.st \notin {"none", "off"}
    BY <1>14 DEF AcdLimitOver, NInv, OffMeansSilent
  <2> QED BY <1>14, <2>2, <2>3 DEF AcdLimitOver
<1> QED BY <1>1, <1>2, <1>3, <1>4, <1>5, <1>6, <1>7, <1>8, <1>9, <1>10, <1>11, <1>12, <1>13,
        <1>14
        DEF Poll, NothingDue, InitCheck, InitReset, SetLeaseAddr, SetNoLeaseAddr, NotifyState, NotifyNetif,
            ProcessLinkDown, ProcessStart, ProcessSetWait, ProcessSupplied, ProcessAssigned,
            ProcessTimeout, ProcessZero, ProcessSetTimeout
\* Each step of a poll keeps what its poller sees.
LEMMA PollOwn ==
  ASSUME NInv, NEW p \in Pollers, Own(p), Poll(p)
  PROVE  Own(p)'
<1> USE DEF Own, InHand, Starting, GoingUp, GoingDown, GivingUp
<1>0. /\ pc' \in [Pollers -> Stages \cup Places] /\ pc \in [Pollers -> Stages \cup Places]
      /\ link \in BOOLEAN /\ up \in BOOLEAN
      /\ dhcp.st # "none" => dhcp'.st # "none"
      /\ dhcp.st = "off" /\ ~ProcessDhcpStart(p) /\ ~AcdCallback(p) => dhcp'.st = "off"
  BY PollType, ClientSteps DEF NInv, TypeOK
<1>g. ASSUME NEW l, Goto(p, l) PROVE pc'[p] = l
  BY <1>0, <1>g DEF Goto, Pollers
<1>e. PollEnd(p) \in {"done", "input"} /\ NextStage(p) \in Stages \cup {"done"}
  BY DEF PollEnd, NextStage, Stages
\* Most steps leave the flags and the state machine alone and end with empty hands.
<1>q. ASSUME UNCHANGED <<link, up, DHCP_state>>,
             pc[p] \notin Starting \cup GoingUp \cup GoingDown \cup GivingUp \cup {"acdOk"},
             pc'[p] \notin Starting \cup GoingUp \cup GoingDown \cup GivingUp \cup {"acdOk"}
      PROVE  Own(p)'
  <2>1. ~ProcessDhcpStart(p) /\ ~AcdCallback(p)
    BY <1>q DEF ProcessDhcpStart, AcdCallback, At
  <2> QED BY <1>0, <1>q, <2>1
<1>1. CASE NothingDue(p)
  BY <1>1, <1>e, <1>g, <1>q DEF NothingDue, Stages
<1>2. CASE InitCheck(p)
  <2>1. pc'[p] \in {"reset_up", "reset_down"}
    BY <1>2, <1>g DEF InitCheck
  <2> QED BY <1>2, <2>1, <1>q DEF InitCheck, At
<1>3. CASE InitReset(p)
  <2>1. pc'[p] = "input" /\ DHCP_state' \in {"START", "LINK_DOWN"} /\ UNCHANGED <<link, up, dhcp>>
    BY <1>3, <1>g DEF InitReset, ResetState
  <2> QED BY <1>3, <2>1 DEF InitReset
<1>4. CASE RecvOffer(p) \/ RecvNak(p) \/ RecvConflict(p)
  <2>1. pc[p] = "input" /\ pc'[p] = "link" /\ UNCHANGED <<link, up, DHCP_state>>
    BY <1>4, <1>g DEF RecvOffer, RecvNak, RecvConflict, At
  <2> QED BY <2>1, <1>q
<1>5. CASE RecvAck(p)
  <2>1. pc[p] = "input" /\ pc'[p] \in {"link", "renewAddr"} /\ UNCHANGED <<link, up, DHCP_state>>
    BY <1>5, <1>g DEF RecvAck, At
  <2> QED BY <2>1, <1>q
<1>6. CASE SetLeaseAddr(p) \/ SetNoLeaseAddr(p)
  <2>1. /\ pc[p] \in {"renewAddr", "bindAddr", "zeroAddr"} /\ pc'[p] \in {"link", "dhcp"}
        /\ UNCHANGED <<link, up, DHCP_state>>
    BY <1>6, <1>g DEF SetLeaseAddr, SetNoLeaseAddr, At
  <2> QED BY <2>1, <1>q
<1>7. CASE LinkDown(p)
  <2>1. pc[p] = "link" /\ pc'[p] = "downState" /\ link' = FALSE /\ UNCHANGED DHCP_state
    BY <1>7, <1>g DEF LinkDown, At
  <2>2. ~ProcessDhcpStart(p) /\ ~AcdCallback(p)
    BY <2>1 DEF ProcessDhcpStart, AcdCallback, At
  <2> QED BY <1>0, <2>1, <2>2
<1>8. CASE LinkUp(p)
  <2>1. pc[p] = "linkup" /\ pc'[p] = "upState" /\ link' = TRUE /\ UNCHANGED DHCP_state
    BY <1>8, <1>g DEF LinkUp, At
  <2>2. ~ProcessDhcpStart(p) /\ ~AcdCallback(p)
    BY <2>1 DEF ProcessDhcpStart, AcdCallback, At
  <2> QED BY <1>0, <2>1, <2>2
<1>9. CASE NotifyState(p)
  <2>1. CASE pc[p] = "upState"
    <3>1. pc'[p] = "upNetif" /\ DHCP_state' = "START" /\ UNCHANGED <<link, up, dhcp>>
      BY <1>9, <1>g, <2>1 DEF NotifyState
    <3> QED BY <2>1, <3>1
  <2>2. CASE pc[p] = "downState"
    <3>1. pc'[p] = "downNetif" /\ DHCP_state' = "LINK_DOWN" /\ UNCHANGED <<link, up, dhcp>>
      BY <1>9, <1>g, <2>2 DEF NotifyState
    <3> QED BY <2>2, <3>1
  <2> QED BY <1>9, <2>1, <2>2 DEF NotifyState
<1>10. CASE NotifyNetif(p)
  <2>1. CASE pc[p] = "upNetif"
    <3>1. pc'[p] = "timers" /\ link /\ up' /\ UNCHANGED <<link, DHCP_state, dhcp>>
      BY <1>10, <1>g, <2>1 DEF NotifyNetif, NetifFlag
    <3> QED BY <1>0, <2>1, <3>1
  <2>2. CASE pc[p] = "downNetif"
    <3>1. pc'[p] = "linkup" /\ ~link /\ up' = FALSE /\ UNCHANGED <<link, DHCP_state, dhcp>>
      BY <1>10, <1>g, <2>2 DEF NotifyNetif, NetifFlag
    <3> QED BY <1>0, <2>2, <3>1
  <2> QED BY <1>10, <2>1, <2>2 DEF NotifyNetif
<1>11. CASE RequestTimeout(p) \/ LeaseTimer(p) \/ AcdLimitOver(p)
  <2>1. pc[p] = "timers" /\ pc'[p] = "dhcp" /\ UNCHANGED <<link, up, DHCP_state>>
    BY <1>11, <1>g DEF RequestTimeout, LeaseTimer, AcdLimitOver, At
  <2> QED BY <2>1, <1>q
<1>12. CASE AcdOk(p)
  <2>1. pc[p] = "timers" /\ pc'[p] = "acdOk" /\ UNCHANGED <<link, up, DHCP_state>>
    BY <1>12, <1>g DEF AcdOk, At
  <2>2. DHCP_state # "TIMEOUT"
    BY <1>12, <2>1 DEF AcdOk, NInv, OffMeansSilent
  <2> QED BY <1>0, <2>1, <2>2
\* A client that is stopped may be bound, but not behind a state machine that gave up.
<1>13. CASE AcdCallback(p)
  <2>1. /\ pc[p] = "acdOk" /\ pc'[p] \in {"bindAddr", "zeroAddr"}
        /\ UNCHANGED <<link, up, DHCP_state>>
    BY <1>13, <1>g DEF AcdCallback, At
  <2>2. DHCP_state # "TIMEOUT"
    BY <2>1
  <2> QED BY <1>0, <2>1, <2>2
<1>14. CASE ProcessLinkDown(p)
  <2>1. pc[p] = "dhcp" /\ pc'[p] \in {"done", "input"} /\ DHCP_state' = "OFF"
        /\ UNCHANGED <<link, up, dhcp>>
    BY <1>14, <1>e, <1>g DEF ProcessLinkDown, At
  <2> QED BY <2>1
<1>15. CASE ProcessStart(p)
  <2>1. /\ pc[p] = "dhcp" /\ pc'[p] = "zero" /\ link /\ DHCP_state = "START"
        /\ UNCHANGED <<link, up, DHCP_state, dhcp>>
    BY <1>15, <1>g DEF ProcessStart, At
  <2> QED BY <2>1
<1>16. CASE ProcessZero(p)
  <2>1. /\ pc[p] = "zero" /\ pc'[p] = "setWait"
        /\ UNCHANGED <<link, up, DHCP_state, dhcp>>
    BY <1>16, <1>g DEF ProcessZero, At
  <2> QED BY <2>1
<1>17. CASE ProcessSetWait(p)
  <2>1. /\ pc[p] = "setWait" /\ pc'[p] = "start" /\ DHCP_state' = "WAIT_ADDRESS"
        /\ UNCHANGED <<link, up, dhcp>>
    BY <1>17, <1>g DEF ProcessSetWait, At
  <2> QED BY <2>1
\* The interface is up, so dhcp_start is not refused.
<1>18. CASE ProcessDhcpStart(p)
  <2>1. /\ pc[p] = "start" /\ pc'[p] \in {"done", "input"} /\ dhcp' = Started(dhcp)
        /\ UNCHANGED <<link, up, DHCP_state>>
    BY <1>18, <1>e, <1>g DEF ProcessDhcpStart, At
  <2>2. link /\ up
    BY <1>0, <2>1
  <2>3. dhcp'.st = "selecting"
    BY <2>1, <2>2, ClearedType, SendersType DEF Started
  <2> QED BY <2>1, <2>2, <2>3
<1>19. CASE ProcessSupplied(p)
  <2>1. pc[p] = "dhcp" /\ pc'[p] = "assign" /\ UNCHANGED <<link, up, DHCP_state>>
    BY <1>19, <1>g DEF ProcessSupplied, At
  <2> QED BY <2>1, <1>q
<1>20. CASE ProcessAssigned(p)
  <2>1. /\ pc[p] = "assign" /\ pc'[p] \in {"done", "input"}
        /\ DHCP_state' = "ADDRESS_ASSIGNED" /\ UNCHANGED <<link, up, dhcp>>
    BY <1>20, <1>e, <1>g DEF ProcessAssigned, At
  <2> QED BY <2>1
<1>21. CASE ProcessTimeout(p)
  <2>1. /\ pc[p] = "dhcp" /\ pc'[p] = "tooMany" /\ DHCP_state = "WAIT_ADDRESS"
        /\ UNCHANGED <<link, up, DHCP_state, dhcp>>
    BY <1>21, <1>g DEF ProcessTimeout, At
  <2> QED BY <2>1
<1>22. CASE ProcessSetTimeout(p)
  <2>1. /\ pc[p] = "tooMany" /\ pc'[p] = "giveUp" /\ DHCP_state' = "TIMEOUT"
        /\ UNCHANGED <<link, up, dhcp>>
    BY <1>22, <1>g DEF ProcessSetTimeout, At
  <2> QED BY <2>1
\* The client exists, so it is stopped.
<1>23. CASE ProcessGiveUp(p)
  <2>1. /\ pc[p] = "giveUp" /\ pc'[p] \in {"done", "input"} /\ dhcp' = Stopped(dhcp)
        /\ UNCHANGED <<link, up, DHCP_state>>
    BY <1>23, <1>e, <1>g DEF ProcessGiveUp, At
  <2>2. dhcp'.st = "off"
    BY <2>1 DEF Stopped, Cleared
  <2> QED BY <2>1, <2>2
<1>24. CASE ProcessStaleDown(p)
  <2>1. /\ pc[p] = "dhcp" /\ pc'[p] \in {"done", "input"} /\ DHCP_state' = "OFF"
        /\ UNCHANGED <<link, up>>
    BY <1>24, <1>e, <1>g DEF ProcessStaleDown, At
  <2> QED BY <2>1
<1> QED BY <1>1, <1>2, <1>3, <1>4, <1>5, <1>6, <1>7, <1>8, <1>9, <1>10, <1>11, <1>12,
        <1>13, <1>14, <1>15, <1>16, <1>17, <1>18, <1>19, <1>20, <1>21, <1>22, <1>23,
        <1>24 DEF Poll

\* A setter may come in anywhere: it switches the state machine off and leaves
\* the client in place.
LEMMA SetterUndisturbed ==
  ASSUME NInv, ~tick, Undisturbed, Setter
  PROVE  Undisturbed'
<1>1. PICK a \in Config : Configure(a)
  BY SetterConfigures DEF NInv
<1>2. /\ DHCP_state' = "OFF" /\ UNCHANGED <<link, up, pc>>
      /\ dhcp.st # "none" => dhcp'.st # "none"
  BY <1>1, StoppedType DEF Configure, NInv, TypeOK, Cleared
<1> QED BY <1>2 DEF Undisturbed, Sequential, InHand, UpFollowsLink, NullSafe,
        TimeoutMeansStopped

LEMMA StartUpInvariant == Spec => []SInv
<1>1. Init => SInv
  <2> SUFFICES ASSUME Init PROVE NInv /\ Undisturbed
    BY DEF SInv
  <2>1. /\ up = link /\ DHCP_state = "OFF" /\ pc["task"] = "input" /\ pc["init"] = "check"
        /\ \A p \in Pollers : pc[p] \in {"input", "check"}
    BY DEF Init, Pollers
  <2> QED BY <2>1, InitNInv DEF Undisturbed, Sequential, InHand, UpFollowsLink, NullSafe,
          TimeoutMeansStopped, Starting, GoingUp, GoingDown, GivingUp
<1>2. SInv /\ NInv' /\ [Next]_vars => SInv'
  <2> SUFFICES ASSUME SInv, NInv', [Next]_vars, ~tick' PROVE Undisturbed'
    BY DEF SInv
  <2>1. CASE Setter
    <3>1. ~tick
      BY <2>1, SetterConfigures DEF Configure, SInv, NInv
    <3> QED BY <2>1, <3>1, SetterUndisturbed DEF SInv
  <2>2. ASSUME NEW p \in Pollers, Poll(p) PROVE Undisturbed'
    <3>1. UNCHANGED tick
      BY <2>2 DEF Poll, NothingDue, InitCheck, InitReset, RecvOffer, RecvAck, RecvNak,
             RecvConflict, SetLeaseAddr, SetNoLeaseAddr, LinkDown, LinkUp, NotifyState, NotifyNetif,
             RequestTimeout, LeaseTimer, AcdOk, AcdLimitOver, AcdCallback, ProcessLinkDown,
             ProcessStart, ProcessSetWait, ProcessDhcpStart, ProcessSupplied,
             ProcessAssigned, ProcessTimeout, ProcessGiveUp, ProcessStaleDown, ProcessZero,
             ProcessSetTimeout
    <3>2. ~tick /\ Undisturbed /\ NInv
      BY <3>1 DEF SInv
    <3>3. /\ Sequential'
          /\ \A q \in Pollers \ {p} : pc[q] \in Idle /\ pc'[q] \in Idle
      BY <2>2, <3>2, OneRuns DEF NInv, Undisturbed
    <3>4. Own(p)
      BY <3>2, <3>3, OwnIsAll
    <3>5. Own(p)'
      BY <2>2, <3>2, <3>4, PollOwn
    <3>6. ~tick' /\ Sequential' /\ Own(p)' => Undisturbed'
      <4>1. \A q \in Pollers \ {p} : InHand(q)' /\ pc'[q] \notin GoingDown \cup GoingUp
                                    /\ pc'[q] \notin {"start", "giveUp"}
        BY <3>3 DEF InHand, Idle, Starting, GoingUp, GoingDown, GivingUp
      <4> QED BY <4>1 DEF Undisturbed, UpFollowsLink, NullSafe, TimeoutMeansStopped, Own
    <3> QED BY <3>1, <3>2, <3>3, <3>5, <3>6
  <2>3. CASE UNCHANGED vars
    BY <2>3 DEF vars, SInv, Undisturbed, Sequential, InHand, UpFollowsLink, NullSafe,
           TimeoutMeansStopped
  <2> QED BY <2>1, <2>2, <2>3 DEF Next
<1> QED BY <1>1, <1>2, NetInvariant, PTL DEF Spec

\* Unless a tick falls into the end of NeonTCPIP_init, NeonTCPIP_DHCP_Process
\* never reads the client of lwIP through a null pointer.
THEOREM ClientExists == Spec => []NullSafe
<1>1. SInv => NullSafe
  BY DEF SInv, Undisturbed, NullSafe
<1> QED BY <1>1, StartUpInvariant, PTL

\* Nor does it call dhcp_start with the interface down, which lwIP refuses.
THEOREM StartsUp == Spec => []StartedOnlyUp
<1>1. SInv => StartedOnlyUp
  <2> SUFFICES ASSUME SInv, ~tick, NEW p \in Pollers, pc[p] = "start" PROVE up
    BY DEF StartedOnlyUp
  <2>1. link /\ InHand(p) /\ UpFollowsLink /\ Sequential /\ TypeOK
    BY DEF SInv, NInv, Undisturbed, InHand, Starting
  <2>2. \A q \in Pollers \ {p} : pc[q] \in Idle
    BY <2>1 DEF Sequential, Pollers, Idle
  <2> QED BY <2>1, <2>2 DEF UpFollowsLink, Idle, GoingUp, GoingDown, TypeOK
<1> QED BY <1>1, StartUpInvariant, PTL

\* And once it has given up, the client stays stopped.
THEOREM GivenUpIsStopped == Spec => []TimeoutMeansStopped
<1>1. SInv => TimeoutMeansStopped
  BY DEF SInv, Undisturbed, TimeoutMeansStopped
<1> QED BY <1>1, StartUpInvariant, PTL
=============================================================================
