------------------------------ MODULE NeonTimer ------------------------------
(***************************************************************************)
(* The software-timer service as the firmware sees it: the NeonRTOS_Timer  *)
(* wrappers, which only post commands to a queue of bounded length and     *)
(* never wait, and the timer daemon task, which executes them later.       *)
(*                                                                         *)
(* A timer is identified with the allocation that TimerCreate made for it; *)
(* the heap may hand the same address out again, and what a command on a   *)
(* freed timer then does is undefined.  The model stops at that point and  *)
(* records it in fault (configASSERT and the fault handlers of the         *)
(* firmware loop for ever).                                                *)
(***************************************************************************)
EXTENDS Naturals, Sequences

CONSTANTS Timers,               \* the timers that can ever be created
          TIMER_QUEUE_LENGTH    \* configTIMER_QUEUE_LENGTH, 10 in the firmware

ASSUME QueueAssumption == TIMER_QUEUE_LENGTH \in Nat \ {0}

VARIABLES tmr,      \* state of each timer object
          cmdq,     \* xTimerQueue: posted commands, oldest first
          lost,     \* history: commands refused because the queue was full
          fault     \* "none", or the first undefined or asserted-out effect

TmrStates == {"none", "dormant", "active", "freed"}
Ops == {"start", "stop", "change", "delete"}

\* "change" carries the new period in ms; the other commands ignore the field.
Cmds == [op : Ops, timer : Timers, period : Nat]
Faults == {"none", "dangling_conn", "freed_timer", "double_free", "zero_period"}

TimerTypeOK ==
  /\ tmr \in [Timers -> TmrStates]
  /\ cmdq \in Seq(Cmds)
  /\ lost \in SUBSET Cmds
  /\ fault \in Faults

TimerInit ==
  /\ tmr = [t \in Timers |-> "none"]
  /\ cmdq = << >>
  /\ lost = {}
  /\ fault = "none"

-----------------------------------------------------------------------------
(* The commands behind NeonRTOS_TimerStart, TimerReStart, TimerStop,       *)
(* TimerChangePeriod and TimerDelete.                                      *)
Start(t) == [op |-> "start", timer |-> t, period |-> 0]
ReStart(t) == [op |-> "start", timer |-> t, period |-> 0]
Stop(t) == [op |-> "stop", timer |-> t, period |-> 0]
ChangePeriod(t, ms) == [op |-> "change", timer |-> t, period |-> ms]
Delete(t) == [op |-> "delete", timer |-> t, period |-> 0]

\* xQueueSendToBackFromISR, and xTimerDelete with no ticks to wait: a full
\* queue refuses the command.  No caller looks at the result.
Enqueue(q, m) == IF Len(q) < TIMER_QUEUE_LENGTH THEN Append(q, m) ELSE q
Refused(q, m) == IF Len(q) < TIMER_QUEUE_LENGTH THEN {} ELSE {m}

Post(m) ==
  /\ cmdq' = Enqueue(cmdq, m)
  /\ lost' = lost \cup Refused(cmdq, m)

Post2(m, n) ==
  /\ cmdq' = Enqueue(Enqueue(cmdq, m), n)
  /\ lost' = lost \cup Refused(cmdq, m) \cup Refused(Enqueue(cmdq, m), n)

\* NeonRTOS_TimerCreate when the allocation succeeds: the new timer is dormant.
TimerCreate(t) == tmr' = [tmr EXCEPT ![t] = "dormant"]

-----------------------------------------------------------------------------
(* The daemon executes the oldest command: prvProcessReceivedCommands.     *)
StateAfter(op) ==
  CASE op = "start"  -> "active"
    [] op = "stop"   -> "dormant"
    [] op = "change" -> "active"
    [] op = "delete" -> "freed"

FaultOf(m) ==
  CASE tmr[m.timer] = "freed" /\ m.op = "delete" -> "double_free"
    [] tmr[m.timer] = "freed" /\ m.op # "delete" -> "freed_timer"
    [] tmr[m.timer] # "freed" /\ m.op = "change" /\ m.period = 0 -> "zero_period"
    [] OTHER -> "none"

ProcessCommand ==
  /\ cmdq # << >>
  /\ LET m == Head(cmdq)
     IN  /\ fault' = FaultOf(m)
         /\ tmr' = IF FaultOf(m) = "none"
                   THEN [tmr EXCEPT ![m.timer] = StateAfter(m.op)]
                   ELSE tmr
  /\ cmdq' = Tail(cmdq)
  /\ UNCHANGED lost
=============================================================================
