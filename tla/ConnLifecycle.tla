---------------------------- MODULE ConnLifecycle ----------------------------
(***************************************************************************)
(* What the server promises about connections, with no tasks, timers or    *)
(* buffers: a connection is accepted once, waits alone for a place, is     *)
(* served at one place that no other connection has, and is closed once.   *)
(***************************************************************************)
EXTENDS Naturals

CONSTANTS Conns, Capacity

VARIABLES life,     \* stage of each connection
          place     \* the place of a served connection, 0 for the others

Places == 1..Capacity

Init ==
  /\ life = [c \in Conns |-> "outside"]
  /\ place = [c \in Conns |-> 0]

Accept(c) ==
  /\ life[c] = "outside"
  /\ \A d \in Conns : life[d] # "waiting"
  /\ life' = [life EXCEPT ![c] = "waiting"]
  /\ UNCHANGED place

Admit(c, p) ==
  /\ life[c] = "waiting"
  /\ \A d \in Conns : place[d] # p
  /\ life' = [life EXCEPT ![c] = "served"]
  /\ place' = [place EXCEPT ![c] = p]

Close(c) ==
  /\ life[c] = "served"
  /\ life' = [life EXCEPT ![c] = "closed"]
  /\ place' = [place EXCEPT ![c] = 0]

Next ==
  \E c \in Conns :
    \/ Accept(c)
    \/ \E p \in Places : Admit(c, p)
    \/ Close(c)

Spec == Init /\ [][Next]_<<life, place>>
=============================================================================
