-------------------------------- MODULE Dimmer --------------------------------
(***************************************************************************)
(* What a set of dimmable lamps promises whoever operates them: a command  *)
(* acts on one lamp, a lamp's level is set only while the lamp shines, and *)
(* a lamp that is switched off and on again shines at the level it had.    *)
(***************************************************************************)
EXTENDS Integers

CONSTANTS Lamps, MaxLevel

VARIABLES on, level

vars == <<on, level>>

Init == /\ on = [l \in Lamps |-> FALSE]
        /\ level = [l \in Lamps |-> 0]

SwitchOn(l) == /\ on' = [on EXCEPT ![l] = TRUE]
               /\ UNCHANGED level

SwitchOff(l) == /\ on' = [on EXCEPT ![l] = FALSE]
                /\ UNCHANGED level

\* Lamp l, and no other, gets a new level.
NewLevel(l) == /\ level'[l] \in 0 .. MaxLevel
               /\ level' = [level EXCEPT ![l] = level'[l]]

SetLevel(l) == /\ on[l]
               /\ NewLevel(l)
               /\ UNCHANGED on

\* One command may switch a lamp on and say how bright.
ShineAt(l) == /\ on' = [on EXCEPT ![l] = TRUE]
              /\ NewLevel(l)

Next == \E l \in Lamps : SwitchOn(l) \/ SwitchOff(l) \/ SetLevel(l) \/ ShineAt(l)

Spec == Init /\ [][Next]_vars
=============================================================================
