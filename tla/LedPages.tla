------------------------------- MODULE LedPages -------------------------------
(***************************************************************************)
(* The web pages that show and operate the LEDs, composed with LedControl: *)
(* a page asks for the state when its WebSocket opens, changes its own     *)
(* picture and sends a command when the user moves something, and draws    *)
(* what the firmware reports.  The firmware reports after every JSON       *)
(* command, to every open page; other clients change LEDs by REST.         *)
(***************************************************************************)
EXTENDS LedControl

CONSTANTS Pages,     \* browsers
          MaxQueue,  \* bound: messages under way in one direction of a connection
          MaxMoves   \* bound: what the users do, and connections lost

ASSUME PageAssumption == MaxQueue \in Nat \ {0} /\ MaxMoves \in Nat

VARIABLES page,       \* per page: its connection, whether it has drawn the list, the picture
          up,         \* messages from the page to the firmware
          down,       \* messages from the firmware to the page
          unreported, \* LEDs changed since the pages were last told
          moves

pageVars == <<page, up, down, unreported, moves>>
allVars == <<vars, pageVars>>

\* all_led_status, as LED_PWM_Get_All_LED_Status writes it.
Shown == [l \in Leds |-> [on_off |-> led[l].on_off, level |-> led[l].level \div 10]]

Open == {p \in Pages : page[p].open}

Ask == [command |-> "get all"]

Order(c, l, on, v) == [command |-> c, led_index |-> l,
                       on_off |-> IF on THEN "cJSON_True" ELSE "cJSON_False", level |-> v]

InitPages == /\ page = [p \in Pages |-> [open |-> FALSE, listed |-> FALSE,
                          view |-> [l \in Leds |-> [on_off |-> FALSE, level |-> 0]]]]
             /\ up = [p \in Pages |-> << >>]
             /\ down = [p \in Pages |-> << >>]
             /\ unreported = {}
             /\ moves = 0

\* onOpen asks for everything; onClose connects again.  What was under way is lost,
\* the picture stays.
Connect(p) ==
    /\ ~page[p].open
    /\ page' = [page EXCEPT ![p].open = TRUE]
    /\ up' = [up EXCEPT ![p] = <<Ask>>]
    /\ UNCHANGED <<vars, down, unreported, moves>>

Disconnect(p) ==
    /\ page[p].open /\ moves < MaxMoves
    /\ page' = [page EXCEPT ![p].open = FALSE]
    /\ up' = [up EXCEPT ![p] = << >>]
    /\ down' = [down EXCEPT ![p] = << >>]
    /\ moves' = moves + 1
    /\ UNCHANGED <<vars, unreported>>

\* A switch or a slider moves on the screen, and a command follows if it can.
Move(p, l, m, view) ==
    /\ page[p].listed /\ moves < MaxMoves /\ Len(up[p]) < MaxQueue
    /\ page' = [page EXCEPT ![p].view[l] = view]
    /\ up' = IF page[p].open THEN [up EXCEPT ![p] = Append(@, m)] ELSE up
    /\ moves' = moves + 1
    /\ UNCHANGED <<vars, down, unreported>>

onClick_Individual_On_Off_SW(p, l) ==
    LET on == ~page[p].view[l].on_off
    IN Move(p, l, Order("on_off", l, on, 0), [page[p].view[l] EXCEPT !.on_off = on])

onClick_LED_PWM_Slider(p, l) ==
    \E v \in JsonLevels \cap 0 .. 100 :
        Move(p, l, Order("level", l, FALSE, v), [page[p].view[l] EXCEPT !.level = v])

\* The LEDs whose state, or whose refusal, no page learns of in this step.
Untold == IF answer'.code = Dropped THEN Leds
          ELSE {l \in Leds : \/ led'[l] # led[l]
                             \/ answer' = [code |-> NoAnswer, led |-> l]}

\* The HTTP task takes the next message of a page and answers.
Room(S) == \A p \in S : Len(down[p]) < MaxQueue

\* Variant: the state is written before the command is obeyed.
SnapshotBefore == Shown

Snapshot == Shown'

\* Variant: the page that sent the command is left out of the broadcast.
AddressedOthers(p) ==
    CASE answer'.code = Report -> Open \ {p}
      [] answer'.code = Reply -> {p}
      [] OTHER -> {}

\* Who hears of the message of p: everybody, the page itself, or nobody.
Addressed(p) ==
    CASE answer'.code = Report -> Open
      [] answer'.code = Reply -> {p}
      [] OTHER -> {}

Method == IF answer'.code = Report THEN "POST" ELSE "GET_RSP"

Receive(p) ==
    LET m == Head(up[p])
    IN /\ page[p].open /\ up[p] # << >>
       /\ up' = [up EXCEPT ![p] = Tail(@)]
       /\ \/ LoseMessage
          \/ m = Ask /\ Room({p}) /\ Query
          \/ m # Ask /\ Room(Open) /\ (Command(m) \/ DropCommand(m))
       /\ down' = [q \in Pages |->
            IF q \in Addressed(p)
            THEN Append(down[q], [method |-> Method, leds |-> Snapshot])
            ELSE down[q]]
       /\ unreported' = IF answer'.code = Report THEN {} ELSE unreported \cup Untold
       /\ UNCHANGED <<page, moves>>

\* onMessage: the answer draws the list, a report changes what is drawn already.
onMessage(p) ==
    /\ down[p] # << >>
    /\ down' = [down EXCEPT ![p] = Tail(@)]
    /\ LET m == Head(down[p])
           listed == page[p].listed \/ m.method = "GET_RSP"
       IN page' = [page EXCEPT ![p].listed = listed,
                               ![p].view = IF listed THEN m.leds ELSE @]
    /\ UNCHANGED <<vars, up, unreported, moves>>

\* The init thread, and a REST client that changes a LED: no page hears of either.
Elsewhere == /\ BootStep \/ \E url \in Urls, body \in Bodies : Post(url, body)
             /\ unreported' = unreported \cup Untold
             /\ UNCHANGED <<page, up, down, moves>>

NextPages == \/ Elsewhere
             \/ \E p \in Pages : \/ Connect(p) \/ Disconnect(p)
                                 \/ Receive(p) \/ onMessage(p)
                                 \/ \E l \in Leds : \/ onClick_Individual_On_Off_SW(p, l)
                                                    \/ onClick_LED_PWM_Slider(p, l)

SpecPages == Init /\ InitPages /\ [][NextPages]_allVars

-----------------------------------------------------------------------------
\* When nothing is under way, an open page shows the state of every LED that no
\* unreported change concerns, whoever changed it and in whatever order the pages
\* clicked, lost their connection and came back: each JSON command is followed by
\* LED_PWM_Do_Report to every page, and each page asks when it opens.
PagesAgree ==
    \A p \in Open : page[p].listed /\ up[p] = << >> /\ down[p] = << >> =>
        \A l \in Leds \ unreported : page[p].view[l] = Shown[l]

\* Pages that have read the same messages show the same: reports reach every page in
\* the order of the changes, so that the last one under way is the present state.
LastReportIsPresent ==
    \A p \in Open : down[p] # << >> =>
        \A l \in Leds \ unreported : down[p][Len(down[p])].leds[l] = Shown[l]
=============================================================================
