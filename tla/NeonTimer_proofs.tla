--------------------------- MODULE NeonTimer_proofs ---------------------------
(***************************************************************************)
(* Facts about the timer command queue, for any set of timers and any      *)
(* queue length.                                                           *)
(***************************************************************************)
EXTENDS NeonTimer, TLAPS

\* The commands the wrappers build are commands of the queue.
LEMMA CommandTypes ==
  ASSUME NEW t \in Timers, NEW ms \in Nat
  PROVE  /\ Start(t) \in Cmds /\ ReStart(t) \in Cmds /\ Stop(t) \in Cmds
         /\ Delete(t) \in Cmds /\ ChangePeriod(t, ms) \in Cmds
BY DEF Start, ReStart, Stop, Delete, ChangePeriod, Cmds, Ops

\* Posting keeps the queue a queue, within its length, and what is in it
\* afterwards was in it before or is the posted command.
LEMMA EnqueueFacts ==
  ASSUME NEW q \in Seq(Cmds), NEW m \in Cmds
  PROVE  /\ Enqueue(q, m) \in Seq(Cmds)
         /\ Len(q) <= TIMER_QUEUE_LENGTH => Len(Enqueue(q, m)) <= TIMER_QUEUE_LENGTH
         /\ \A k \in DOMAIN Enqueue(q, m) :
              Enqueue(q, m)[k] = m \/ (k \in DOMAIN q /\ Enqueue(q, m)[k] = q[k])
         /\ \A k \in DOMAIN q : k \in DOMAIN Enqueue(q, m) /\ Enqueue(q, m)[k] = q[k]
         /\ m \in Refused(q, m) \/ \E k \in DOMAIN Enqueue(q, m) : Enqueue(q, m)[k] = m
         /\ Refused(q, m) \subseteq {m}
<1>1. CASE Len(q) < TIMER_QUEUE_LENGTH
  <2>1. Enqueue(q, m) = Append(q, m) /\ Refused(q, m) = {}
    BY <1>1 DEF Enqueue, Refused
  <2>2. /\ Append(q, m) \in Seq(Cmds) /\ Len(Append(q, m)) = Len(q) + 1
        /\ DOMAIN Append(q, m) = 1..(Len(q) + 1)
        /\ \A k \in 1..Len(q) : Append(q, m)[k] = q[k]
        /\ Append(q, m)[Len(q) + 1] = m
    OBVIOUS
  <2>3. Len(q) \in Nat /\ DOMAIN q = 1..Len(q) /\ TIMER_QUEUE_LENGTH \in Nat
    BY QueueAssumption
  <2> QED BY <1>1, <2>1, <2>2, <2>3
<1>2. CASE ~(Len(q) < TIMER_QUEUE_LENGTH)
  <2>1. Enqueue(q, m) = q /\ Refused(q, m) = {m}
    BY <1>2 DEF Enqueue, Refused
  <2> QED BY <2>1
<1> QED BY <1>1, <1>2

\* Taking the oldest command leaves the others.
LEMMA TailFacts ==
  ASSUME NEW q \in Seq(Cmds), q # << >>
  PROVE  /\ Tail(q) \in Seq(Cmds) /\ Head(q) \in Cmds /\ Len(q) \in Nat \ {0}
         /\ Len(Tail(q)) = Len(q) - 1
         /\ 1 \in DOMAIN q /\ q[1] = Head(q)
         /\ \A k \in DOMAIN Tail(q) : k + 1 \in DOMAIN q /\ Tail(q)[k] = q[k + 1]
         /\ \A k \in DOMAIN q : k # 1 => k - 1 \in DOMAIN Tail(q) /\ Tail(q)[k - 1] = q[k]
OBVIOUS
-----------------------------------------------------------------------------
(* What the queue is about to do to one timer.                             *)

Starts == {"start", "change"}

Mentions(q, t) == \E k \in DOMAIN q : q[k].timer = t

\* The last command for t starts it.
EndsStarting(q, t) ==
  \E k \in DOMAIN q : /\ q[k].timer = t /\ q[k].op \in Starts
                       /\ \A l \in DOMAIN q : l > k => q[l].timer # t

\* A command for another timer changes neither.
LEMMA EnqueueOther ==
  ASSUME NEW q \in Seq(Cmds), NEW m \in Cmds, NEW t, m.timer # t
  PROVE  /\ Mentions(Enqueue(q, m), t) => Mentions(q, t)
         /\ EndsStarting(q, t) => EndsStarting(Enqueue(q, m), t)
<1>1. \A k \in DOMAIN Enqueue(q, m) :
        Enqueue(q, m)[k] = m \/ (k \in DOMAIN q /\ Enqueue(q, m)[k] = q[k])
  BY EnqueueFacts
<1>2. \A k \in DOMAIN q : k \in DOMAIN Enqueue(q, m) /\ Enqueue(q, m)[k] = q[k]
  BY EnqueueFacts
<1>3. Mentions(Enqueue(q, m), t) => Mentions(q, t)
  BY <1>1 DEF Mentions
<1>4. ASSUME EndsStarting(q, t) PROVE EndsStarting(Enqueue(q, m), t)
  <2>1. PICK k \in DOMAIN q : /\ q[k].timer = t /\ q[k].op \in Starts
                              /\ \A l \in DOMAIN q : l > k => q[l].timer # t
    BY <1>4 DEF EndsStarting
  <2>2. \A l \in DOMAIN Enqueue(q, m) : l > k => Enqueue(q, m)[l].timer # t
    BY <1>1, <2>1
  <2> QED BY <1>2, <2>1, <2>2 DEF EndsStarting
<1> QED BY <1>3, <1>4

\* A command that starts t is the last one for it, unless it was refused.
LEMMA EnqueueStart ==
  ASSUME NEW q \in Seq(Cmds), NEW m \in Cmds, m.op \in Starts
  PROVE  EndsStarting(Enqueue(q, m), m.timer) \/ m \in Refused(q, m)
<1>1. CASE Len(q) < TIMER_QUEUE_LENGTH
  <2> DEFINE p == Append(q, m)
             k == Len(q) + 1
  <2>1. k \in DOMAIN p /\ p[k] = m /\ \A l \in DOMAIN p : ~(l > k)
    OBVIOUS
  <2>2. Enqueue(q, m) = p
    BY <1>1 DEF Enqueue
  <2> HIDE DEF p, k
  <2> QED BY <2>1, <2>2 DEF EndsStarting
<1>2. CASE ~(Len(q) < TIMER_QUEUE_LENGTH)
  BY <1>2 DEF Refused
<1> QED BY <1>1, <1>2

\* Taking the oldest command: one for another timer changes nothing for t; if the
\* last command for t starts it, that is the one taken, or it is still to come.
LEMMA TailStart ==
  ASSUME NEW q \in Seq(Cmds), q # << >>, NEW t
  PROVE  /\ Mentions(Tail(q), t) => Mentions(q, t)
         /\ EndsStarting(q, t) => \/ EndsStarting(Tail(q), t)
                                  \/ /\ Head(q).timer = t /\ Head(q).op \in Starts
                                     /\ ~Mentions(Tail(q), t)
<1>1. \A k \in DOMAIN Tail(q) : k + 1 \in DOMAIN q /\ Tail(q)[k] = q[k + 1]
  BY TailFacts
<1>2. \A k \in DOMAIN q : k # 1 => k - 1 \in DOMAIN Tail(q) /\ Tail(q)[k - 1] = q[k]
  BY TailFacts
<1>3. q[1] = Head(q) /\ DOMAIN q \subseteq Nat \ {0} /\ DOMAIN Tail(q) \subseteq Nat \ {0}
  BY TailFacts
<1>4. Mentions(Tail(q), t) => Mentions(q, t)
  BY <1>1 DEF Mentions
<1>5. ASSUME EndsStarting(q, t)
      PROVE  \/ EndsStarting(Tail(q), t)
             \/ Head(q).timer = t /\ Head(q).op \in Starts /\ ~Mentions(Tail(q), t)
  <2>1. PICK k \in DOMAIN q : /\ q[k].timer = t /\ q[k].op \in Starts
                              /\ \A l \in DOMAIN q : l > k => q[l].timer # t
    BY <1>5 DEF EndsStarting
  <2>2. CASE k = 1
    <3>1. \A l \in DOMAIN Tail(q) : Tail(q)[l].timer # t
      BY <1>1, <1>3, <2>1, <2>2
    <3> QED BY <1>3, <2>1, <2>2, <3>1 DEF Mentions
  <2>3. CASE k # 1
    <3>1. \A l \in DOMAIN Tail(q) : l > k - 1 => Tail(q)[l].timer # t
      BY <1>1, <1>3, <2>1
    <3> QED BY <1>2, <2>1, <2>3, <3>1 DEF EndsStarting
  <2> QED BY <2>2, <2>3
<1> QED BY <1>4, <1>5
=============================================================================
