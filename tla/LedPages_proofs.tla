---------------------------- MODULE LedPages_proofs ----------------------------
(***************************************************************************)
(* Pages agree with the firmware, proved for every number of pages, LEDs   *)
(* and moves and every length of the queues.  A page may differ from the   *)
(* firmware while something is under way: a report on its way down, or a   *)
(* request on its way up whose answer will be one.                         *)
(***************************************************************************)
EXTENDS LedPages, LedControl_proofs

Picture == [on_off : BOOLEAN, level : Int]

Orders == [command : {"on_off", "level"}, led_index : Leds,
           on_off : {"cJSON_True", "cJSON_False"}, level : JsonLevels \cup {0}]

Reports == [method : {"POST", "GET_RSP"}, leds : [Leds -> Picture]]

\* One of the messages s will be answered with the state of LED l.
Awaits(s, l) == \E i \in 1 .. Len(s) : s[i] = Ask \/ s[i].led_index = l

Pending(p, l) == Awaits(up[p], l)

Current(p) ==
    page[p].open /\ page[p].listed /\ down[p] = << >> =>
        \A l \in Leds \ unreported : page[p].view[l] = Shown[l] \/ Pending(p, l)

PagesTyped ==
    /\ page \in [Pages -> [open : BOOLEAN, listed : BOOLEAN, view : [Leds -> Picture]]]
    /\ up \in [Pages -> Seq({Ask} \cup Orders)]
    /\ down \in [Pages -> Seq(Reports)]
    /\ unreported \subseteq Leds
    /\ \A p \in Pages : ~page[p].open => down[p] = << >>

PInv == /\ LInv
        /\ PagesTyped
        /\ LastReportIsPresent
        /\ \A p \in Pages : Current(p)

-----------------------------------------------------------------------------
\* What the firmware shows is a picture.
LEMMA ShownTyped == LInv => Shown \in [Leds -> Picture]
<1> SUFFICES ASSUME LInv, NEW l \in Leds
             PROVE  [on_off |-> led[l].on_off, level |-> led[l].level \div 10] \in Picture
  BY DEF Shown
<1> DEFINE v == led[l].level
           w == v \div 10
<1>1. led[l] \in Channel
  BY DEF LInv
<1>2. led[l].on_off \in BOOLEAN
  BY <1>1 DEF Channel
<1>3. v \in Int
  <2>1. v \in Levels
    BY <1>1 DEF Channel
  <2> QED BY <2>1, LevelsAreNumbers
<1> HIDE DEF v
<1>4. w \in Int
  BY <1>3
<1> HIDE DEF w
<1>5. [on_off |-> led[l].on_off, level |-> w] \in Picture
  BY <1>2, <1>4 DEF Picture
<1> QED BY <1>5 DEF v, w

\* The steps of the firmware keep the invariant of the firmware.
LEMMA FirmwareInv == ASSUME LInv, Next \/ UNCHANGED vars PROVE LInv'
BY InvStep

LEMMA PagesInit == Init /\ InitPages => PInv
<1> SUFFICES ASSUME Init, InitPages PROVE PInv
  OBVIOUS
<1>1. LInv
  BY InvInit
<1>2. PagesTyped
  <2>1. [on_off |-> FALSE, level |-> 0] \in Picture
    BY DEF Picture
  <2>2. [l \in Leds |-> [on_off |-> FALSE, level |-> 0]] \in [Leds -> Picture]
    BY <2>1
  <2> QED BY <2>2 DEF PagesTyped, InitPages
<1>3. \A p \in Pages : ~page[p].open /\ down[p] = << >>
  BY DEF InitPages
<1> QED BY <1>1, <1>2, <1>3 DEF PInv, LastReportIsPresent, Current, Open

\* A page that connects has asked for everything.
LEMMA ConnectKeeps ==
    ASSUME PInv, NEW p \in Pages, Connect(p)
    PROVE  PInv'
<1>1. LInv' /\ Shown' = Shown
  BY FirmwareInv DEF PInv, Connect, vars, Shown
<1>2. /\ page' = [page EXCEPT ![p].open = TRUE]
      /\ up' = [up EXCEPT ![p] = <<Ask>>]
      /\ down' = down /\ unreported' = unreported
      /\ ~page[p].open /\ down[p] = << >>
  BY DEF Connect, PInv, PagesTyped
<1>3. \A q \in Pages : q # p => page'[q] = page[q] /\ up'[q] = up[q]
  BY <1>2 DEF PInv, PagesTyped
<1>4. up'[p] = <<Ask>>
  BY <1>2 DEF PInv, PagesTyped
<1>5. PagesTyped'
  <2>1. <<Ask>> \in Seq({Ask} \cup Orders)
    OBVIOUS
  <2>2. up' \in [Pages -> Seq({Ask} \cup Orders)]
    BY <1>2, <2>1 DEF PInv, PagesTyped
  <2>3. page' \in [Pages -> [open : BOOLEAN, listed : BOOLEAN, view : [Leds -> Picture]]]
    BY <1>2 DEF PInv, PagesTyped
  <2>4. \A q \in Pages : ~page'[q].open => down'[q] = << >>
    BY <1>2, <1>3 DEF PInv, PagesTyped
  <2> QED BY <1>2, <2>2, <2>3, <2>4 DEF PInv, PagesTyped
<1>6. LastReportIsPresent'
  BY <1>1, <1>2, <1>3 DEF PInv, LastReportIsPresent, Open
<1>7. \A q \in Pages : Current(q)'
  <2> SUFFICES ASSUME NEW q \in Pages PROVE Current(q)'
    OBVIOUS
  <2>1. CASE q = p
    <3>1. \A l \in Leds : Pending(p, l)'
      BY <1>4 DEF Pending, Awaits
    <3> QED BY <2>1, <3>1 DEF Current
  <2>2. CASE q # p
    <3>1. \A l \in Leds : Pending(q, l)' <=> Pending(q, l)
      BY <1>3, <2>2 DEF Pending
    <3> QED BY <1>1, <1>2, <1>3, <2>2, <3>1 DEF PInv, Current
  <2> QED BY <2>1, <2>2
<1> QED BY <1>1, <1>5, <1>6, <1>7 DEF PInv

\* A page that loses its connection owes nothing.
LEMMA DisconnectKeeps ==
    ASSUME PInv, NEW p \in Pages, Disconnect(p)
    PROVE  PInv'
<1>1. LInv' /\ Shown' = Shown
  BY FirmwareInv DEF PInv, Disconnect, vars, Shown
<1>2. /\ page' = [page EXCEPT ![p].open = FALSE]
      /\ up' = [up EXCEPT ![p] = << >>]
      /\ down' = [down EXCEPT ![p] = << >>]
      /\ unreported' = unreported
  BY DEF Disconnect
<1>3. \A q \in Pages : q # p => page'[q] = page[q] /\ up'[q] = up[q] /\ down'[q] = down[q]
  BY <1>2 DEF PInv, PagesTyped
<1>4. ~page'[p].open /\ down'[p] = << >>
  BY <1>2 DEF PInv, PagesTyped
<1>5. PagesTyped'
  <2>1. up' \in [Pages -> Seq({Ask} \cup Orders)]
    BY <1>2 DEF PInv, PagesTyped
  <2>2. down' \in [Pages -> Seq(Reports)]
    BY <1>2 DEF PInv, PagesTyped
  <2>3. page' \in [Pages -> [open : BOOLEAN, listed : BOOLEAN, view : [Leds -> Picture]]]
    BY <1>2 DEF PInv, PagesTyped
  <2> QED BY <1>2, <1>3, <1>4, <2>1, <2>2, <2>3 DEF PInv, PagesTyped
<1>6. LastReportIsPresent'
  BY <1>1, <1>2, <1>3, <1>4 DEF PInv, LastReportIsPresent, Open
<1>7. \A q \in Pages : Current(q)'
  <2> SUFFICES ASSUME NEW q \in Pages PROVE Current(q)'
    OBVIOUS
  <2>1. CASE q = p
    BY <2>1, <1>4 DEF Current
  <2>2. CASE q # p
    <3>1. \A l \in Leds : Pending(q, l)' <=> Pending(q, l)
      BY <1>3, <2>2 DEF Pending
    <3> QED BY <1>1, <1>2, <1>3, <2>2, <3>1 DEF PInv, Current
  <2> QED BY <2>1, <2>2
<1> QED BY <1>1, <1>5, <1>6, <1>7 DEF PInv

-----------------------------------------------------------------------------
\* What is awaited after one more message, and after one message less.
LEMMA AwaitsAppend ==
    ASSUME NEW S, NEW s \in Seq(S), NEW m \in S, NEW l, Awaits(s, l) \/ m.led_index = l
    PROVE  Awaits(Append(s, m), l)
<1> DEFINE t == Append(s, m)
<1>1. /\ Len(s) \in Nat /\ Len(t) = Len(s) + 1 /\ t[Len(s) + 1] = m
      /\ \A i \in 1 .. Len(s) : t[i] = s[i]
  OBVIOUS
<1> HIDE DEF t
<1>2. CASE m.led_index = l
  <2>1. Len(s) + 1 \in 1 .. Len(t) /\ t[Len(s) + 1].led_index = l
    BY <1>1, <1>2
  <2>2. Awaits(t, l)
    BY <2>1 DEF Awaits
  <2> QED BY <2>2 DEF t
<1>3. CASE Awaits(s, l)
  <2>1. PICK i \in 1 .. Len(s) : s[i] = Ask \/ s[i].led_index = l
    BY <1>3 DEF Awaits
  <2>2. i \in 1 .. Len(t) /\ t[i] = s[i]
    BY <1>1
  <2>3. Awaits(t, l)
    BY <2>1, <2>2 DEF Awaits
  <2> QED BY <2>3 DEF t
<1> QED BY <1>2, <1>3

LEMMA AwaitsTail ==
    ASSUME NEW S, NEW s \in Seq(S), s # << >>, NEW l, Awaits(s, l),
           Head(s) # Ask, Head(s).led_index # l
    PROVE  Awaits(Tail(s), l)
<1>1. PICK i \in 1 .. Len(s) : s[i] = Ask \/ s[i].led_index = l
  BY DEF Awaits
<1> DEFINE t == Tail(s)
<1>2. /\ Len(s) \in Nat /\ Len(t) = Len(s) - 1 /\ Head(s) = s[1]
      /\ \A j \in 1 .. Len(t) : t[j] = s[j + 1]
  OBVIOUS
<1> HIDE DEF t
<1>3. i # 1
  BY <1>1, <1>2
<1>4. i - 1 \in 1 .. Len(t) /\ (i - 1) + 1 = i
  BY <1>2, <1>3
<1>5. t[i - 1] = s[i]
  BY <1>2, <1>4
<1>6. Awaits(t, l)
  BY <1>1, <1>4, <1>5 DEF Awaits
<1> QED BY <1>6 DEF t

-----------------------------------------------------------------------------
\* A page that moves something on the screen has sent the command that will make it
\* true, or has no connection.
LEMMA MoveKeeps ==
    ASSUME PInv, NEW p \in Pages, NEW l \in Leds, NEW m \in Orders, m.led_index = l,
           NEW view \in Picture, Move(p, l, m, view)
    PROVE  PInv'
<1>1. LInv' /\ Shown' = Shown
  BY FirmwareInv DEF PInv, Move, vars, Shown
<1>2. /\ page' = [page EXCEPT ![p].view[l] = view]
      /\ up' = IF page[p].open THEN [up EXCEPT ![p] = Append(@, m)] ELSE up
      /\ down' = down /\ unreported' = unreported
  BY DEF Move
<1>3. \A q \in Pages : q # p => page'[q] = page[q] /\ up'[q] = up[q]
  BY <1>2 DEF PInv, PagesTyped
<1>4. /\ page'[p].open = page[p].open
      /\ page'[p].listed = page[p].listed
      /\ \A k \in Leds : page'[p].view[k] = IF k = l THEN view ELSE page[p].view[k]
  BY <1>2 DEF PInv, PagesTyped
<1>5. up[p] \in Seq({Ask} \cup Orders)
  BY DEF PInv, PagesTyped
<1>6. page[p].open => up'[p] = Append(up[p], m)
  BY <1>2 DEF PInv, PagesTyped
<1>7. PagesTyped'
  <2>1. Append(up[p], m) \in Seq({Ask} \cup Orders)
    BY <1>5
  <2>2. up' \in [Pages -> Seq({Ask} \cup Orders)]
    BY <1>2, <2>1 DEF PInv, PagesTyped
  <2>3. page' \in [Pages -> [open : BOOLEAN, listed : BOOLEAN, view : [Leds -> Picture]]]
    BY <1>2 DEF PInv, PagesTyped
  <2>4. \A q \in Pages : ~page'[q].open => down'[q] = << >>
    BY <1>2, <1>3, <1>4 DEF PInv, PagesTyped
  <2> QED BY <1>2, <2>2, <2>3, <2>4 DEF PInv, PagesTyped
<1>8. LastReportIsPresent'
  BY <1>1, <1>2, <1>3, <1>4 DEF PInv, LastReportIsPresent, Open
<1>9. \A q \in Pages : Current(q)'
  <2> SUFFICES ASSUME NEW q \in Pages PROVE Current(q)'
    OBVIOUS
  <2>1. CASE q = p
    <3> SUFFICES ASSUME page'[p].open, page'[p].listed, down'[p] = << >>,
                        NEW k \in Leds \ unreported'
                 PROVE  page'[p].view[k] = Shown'[k] \/ Pending(p, k)'
      BY <2>1 DEF Current
    <3>1. up'[p] = Append(up[p], m)
      BY <1>4, <1>6
    <3>2. CASE k = l \/ Pending(p, k)
      <4>1. Awaits(Append(up[p], m), k)
        <5>1. Awaits(up[p], k) \/ m.led_index = k
          BY <3>2 DEF Pending
        <5>2. m \in {Ask} \cup Orders
          OBVIOUS
        <5> QED BY <5>1, <5>2, <1>5, AwaitsAppend
      <4> QED BY <3>1, <4>1 DEF Pending
    <3>3. CASE k # l /\ ~Pending(p, k)
      <4>1. page[p].view[k] = Shown[k]
        BY <3>3, <1>2, <1>4 DEF PInv, Current
      <4> QED BY <4>1, <3>3, <1>1, <1>4
    <3> QED BY <3>2, <3>3
  <2>2. CASE q # p
    <3>1. \A k \in Leds : Pending(q, k)' <=> Pending(q, k)
      BY <1>3, <2>2 DEF Pending
    <3> QED BY <1>1, <1>2, <1>3, <2>2, <3>1 DEF PInv, Current
  <2> QED BY <2>1, <2>2
<1> QED BY <1>1, <1>7, <1>8, <1>9 DEF PInv

\* Both things a user can move are such.
LEMMA ClicksKeep ==
    ASSUME PInv, NEW p \in Pages, NEW l \in Leds,
           onClick_Individual_On_Off_SW(p, l) \/ onClick_LED_PWM_Slider(p, l)
    PROVE  PInv'
<1>1. page[p].view[l] \in Picture
  BY DEF PInv, PagesTyped
<1> DEFINE old == page[p].view[l]
<1>2. old \in Picture
  BY <1>1
<1>3. CASE onClick_Individual_On_Off_SW(p, l)
  <2> DEFINE on == ~old.on_off
             m == Order("on_off", l, on, 0)
             view == [old EXCEPT !.on_off = on]
  <2>1. Move(p, l, m, view)
    BY <1>3 DEF onClick_Individual_On_Off_SW
  <2>2. on \in BOOLEAN
    OBVIOUS
  <2> HIDE DEF on
  <2>3. m \in Orders /\ m.led_index = l
    BY DEF Order, Orders
  <2> HIDE DEF old
  <2>4. view \in Picture
    BY <1>2, <2>2 DEF Picture
  <2> HIDE DEF m, view
  <2> QED BY <2>1, <2>3, <2>4, MoveKeeps
<1>4. CASE onClick_LED_PWM_Slider(p, l)
  <2>1. PICK v \in JsonLevels \cap 0 .. 100 :
            Move(p, l, Order("level", l, FALSE, v), [old EXCEPT !.level = v])
    BY <1>4 DEF onClick_LED_PWM_Slider
  <2> DEFINE m == Order("level", l, FALSE, v)
             view == [old EXCEPT !.level = v]
  <2>2. m \in Orders /\ m.led_index = l
    BY <2>1 DEF Order, Orders
  <2> HIDE DEF old
  <2>3. view \in Picture
    BY <1>2, <2>1 DEF Picture
  <2>4. Move(p, l, m, view)
    BY <2>1
  <2> HIDE DEF m, view
  <2> QED BY <2>2, <2>3, <2>4, MoveKeeps
<1> QED BY <1>3, <1>4

-----------------------------------------------------------------------------
\* The last message stays the last while older ones are read.
LEMMA LastStays ==
    ASSUME NEW S, NEW s \in Seq(S), s # << >>
    PROVE  /\ Tail(s) # << >> => Tail(s)[Len(Tail(s))] = s[Len(s)]
           /\ Tail(s) = << >> => Len(s) = 1 /\ Head(s) = s[Len(s)]
<1>1. /\ Len(s) \in Nat \ {0} /\ Len(Tail(s)) = Len(s) - 1 /\ Head(s) = s[1]
      /\ \A i \in 1 .. Len(Tail(s)) : Tail(s)[i] = s[i + 1]
  OBVIOUS
<1>2. Tail(s) \in Seq(S)
  OBVIOUS
<1>3. Tail(s) # << >> => Len(Tail(s)) \in 1 .. Len(Tail(s))
  BY <1>2
<1>4. Tail(s) # << >> => Tail(s)[Len(Tail(s))] = s[Len(s)]
  BY <1>1, <1>3
<1>5. Tail(s) = << >> => Len(s) = 1
  <2>1. Len(<< >>) = 0
    OBVIOUS
  <2>2. Tail(s) = << >> => Len(Tail(s)) = 0
    BY <2>1, Zenon
  <2> DEFINE a == Len(s)
             b == Len(Tail(s))
  <2>3. a \in Nat /\ b = a - 1
    BY <1>1
  <2> HIDE DEF a, b
  <2>4. b = 0 => a = 1
    BY <2>3
  <2> QED BY <2>2, <2>4, Zenon DEF a, b
<1> QED BY <1>1, <1>4, <1>5

\* A page that has read its last message shows what the firmware last said.
LEMMA onMessageKeeps ==
    ASSUME PInv, NEW p \in Pages, onMessage(p)
    PROVE  PInv'
<1> DEFINE m == Head(down[p])
           listed == page[p].listed \/ m.method = "GET_RSP"
           view == IF listed THEN m.leds ELSE page[p].view
<1>1. LInv' /\ Shown' = Shown
  BY FirmwareInv DEF PInv, onMessage, vars, Shown
<1>2. /\ page' = [page EXCEPT ![p].listed = listed, ![p].view = view]
      /\ down' = [down EXCEPT ![p] = Tail(@)]
      /\ up' = up /\ unreported' = unreported /\ down[p] # << >>
  <2>1. page' = [page EXCEPT ![p].listed = listed, ![p].view = IF listed THEN m.leds ELSE @]
    BY DEF onMessage
  <2>2. page[p] = [open |-> page[p].open, listed |-> page[p].listed, view |-> page[p].view]
    BY DEF PInv, PagesTyped
  <2> HIDE DEF m, listed
  <2>3. page' = [page EXCEPT ![p].listed = listed, ![p].view = view]
    BY <2>1 DEF PInv, PagesTyped
  <2> QED BY <2>3 DEF onMessage
<1>3. m \in Reports
  BY <1>2 DEF PInv, PagesTyped
<1>4. listed \in BOOLEAN /\ view \in [Leds -> Picture]
  BY <1>3 DEF Reports, PInv, PagesTyped
<1>5. \A q \in Pages : q # p => page'[q] = page[q] /\ down'[q] = down[q]
  BY <1>2 DEF PInv, PagesTyped
<1>6. down[p] \in Seq(Reports) /\ down'[p] = Tail(down[p]) /\ page[p].open
  BY <1>2 DEF PInv, PagesTyped
<1>a. down'[p] \in Seq(Reports)
  BY <1>2, <1>6
<1>7. down'[p] # << >> => down'[p][Len(down'[p])] = down[p][Len(down[p])]
  BY <1>2, <1>6, LastStays
<1>8. down'[p] = << >> => Len(down[p]) = 1 /\ m = down[p][Len(down[p])]
  BY <1>2, <1>6, LastStays
<1>b. view = IF listed THEN m.leds ELSE page[p].view
  OBVIOUS
<1> HIDE DEF m, listed, view
<1>9. page'[p].open = page[p].open /\ page'[p].listed = listed /\ page'[p].view = view
  BY <1>2, <1>4 DEF PInv, PagesTyped
<1>10. PagesTyped'
  <2>1. page' \in [Pages -> [open : BOOLEAN, listed : BOOLEAN, view : [Leds -> Picture]]]
    <3>1. page[p] \in [open : BOOLEAN, listed : BOOLEAN, view : [Leds -> Picture]]
      BY DEF PInv, PagesTyped
    <3>2. page' = [page EXCEPT ![p] = [[page[p] EXCEPT !.listed = listed] EXCEPT !.view = view]]
      BY <1>2 DEF PInv, PagesTyped
    <3>3. [[page[p] EXCEPT !.listed = listed] EXCEPT !.view = view]
              \in [open : BOOLEAN, listed : BOOLEAN, view : [Leds -> Picture]]
      BY <1>4, <3>1
    <3> QED BY <3>2, <3>3 DEF PInv, PagesTyped
  <2>2. down' \in [Pages -> Seq(Reports)]
    BY <1>2, <1>6, <1>a DEF PInv, PagesTyped
  <2>3. \A q \in Pages : ~page'[q].open => down'[q] = << >>
    BY <1>5, <1>6, <1>9 DEF PInv, PagesTyped
  <2> QED BY <1>2, <2>1, <2>2, <2>3 DEF PInv, PagesTyped
<1>11. LastReportIsPresent'
  <2> SUFFICES ASSUME NEW q \in Pages, page'[q].open, down'[q] # << >>,
                      NEW l \in Leds \ unreported'
               PROVE  down'[q][Len(down'[q])].leds[l] = Shown'[l]
    BY DEF LastReportIsPresent, Open
  <2>1. page[q].open /\ down[q] # << >>
    BY <1>2, <1>5, <1>6
  <2>2. down[q][Len(down[q])].leds[l] = Shown[l]
    BY <2>1, <1>2 DEF PInv, LastReportIsPresent, Open
  <2> QED BY <2>2, <1>1, <1>5, <1>7
<1>12. \A q \in Pages : Current(q)'
  <2> SUFFICES ASSUME NEW q \in Pages PROVE Current(q)'
    OBVIOUS
  <2>1. CASE q = p
    <3> SUFFICES ASSUME page'[p].listed, down'[p] = << >>, NEW l \in Leds \ unreported'
                 PROVE  page'[p].view[l] = Shown'[l]
      BY <2>1 DEF Current
    <3>1. m.leds[l] = Shown[l]
      BY <1>2, <1>6, <1>8 DEF PInv, LastReportIsPresent, Open
    <3>2. page'[p].view = m.leds
      BY <1>9, <1>b
    <3> QED BY <3>1, <3>2, <1>1
  <2>2. CASE q # p
    <3>1. \A l \in Leds : Pending(q, l)' <=> Pending(q, l)
      BY <1>2 DEF Pending
    <3>2. page'[q] = page[q] /\ down'[q] = down[q] /\ Shown' = Shown /\ unreported' = unreported
      BY <1>1, <1>2, <1>5, <2>2
    <3>3. Current(q)
      BY DEF PInv
    <3> QED BY <3>1, <3>2, <3>3 DEF Current
  <2> QED BY <2>1, <2>2
<1> QED BY <1>1, <1>10, <1>11, <1>12 DEF PInv

-----------------------------------------------------------------------------
\* What is not in the account of the unreported has not changed.
LEMMA Accounted ==
    ASSUME unreported' = unreported \cup Untold, unreported \subseteq Leds
    PROVE  /\ unreported' \subseteq Leds
           /\ \A l \in Leds \ unreported' : l \notin unreported /\ Shown'[l] = Shown[l]
<1>1. Untold \subseteq Leds /\ \A l \in Leds \ Untold : led'[l] = led[l]
  BY DEF Untold
<1> QED BY <1>1 DEF Shown

\* The init thread and a REST client change LEDs behind the back of the pages, and
\* every such LED is in that account.
LEMMA ElsewhereKeeps ==
    ASSUME PInv, Elsewhere
    PROVE  PInv'
<1>1. LInv'
  <2>1. Next
    BY DEF Elsewhere, Next, Rest
  <2> QED BY <2>1, FirmwareInv DEF PInv
<1>2. page' = page /\ up' = up /\ down' = down /\ unreported' = unreported \cup Untold
  BY DEF Elsewhere
<1>3. /\ unreported' \subseteq Leds
      /\ \A l \in Leds \ unreported' : l \notin unreported /\ Shown'[l] = Shown[l]
  BY <1>2, Accounted DEF PInv, PagesTyped
<1>4. PagesTyped'
  BY <1>2, <1>3 DEF PInv, PagesTyped
<1>5. LastReportIsPresent'
  BY <1>2, <1>3 DEF PInv, LastReportIsPresent, Open
<1>6. \A q \in Pages : Current(q)'
  <2> SUFFICES ASSUME NEW q \in Pages PROVE Current(q)'
    OBVIOUS
  <2>1. \A l \in Leds : Pending(q, l)' <=> Pending(q, l)
    BY <1>2 DEF Pending
  <2> QED BY <1>2, <1>3, <2>1 DEF PInv, Current
<1> QED BY <1>1, <1>4, <1>5, <1>6 DEF PInv

-----------------------------------------------------------------------------
\* What a message asks of the firmware is one of its steps.
LEMMA ReceiveFirmware ==
    ASSUME PInv, NEW p \in Pages, Receive(p)
    PROVE  LInv'
<1> DEFINE m == Head(up[p])
<1>1. m \in {Ask} \cup Orders
  BY DEF Receive, PInv, PagesTyped
<1>2. LInv
  BY DEF PInv
<1>3. LoseMessage \/ IF m = Ask THEN Query ELSE Command(m) \/ DropCommand(m)
  BY DEF Receive
<1> HIDE DEF m
<1>4. CASE LoseMessage \/ m = Ask
  <2>1. LoseMessage \/ Query
    BY <1>3, <1>4
  <2>2. Next
    BY <2>1 DEF Next, Json
  <2> QED BY <1>2, <2>2, FirmwareInv
<1>5. CASE ~LoseMessage /\ m # Ask
  <2>1. m.command \in Verbs /\ m.led_index \in Leds \cup {NoLed}
    BY <1>1, <1>5 DEF Orders, Verbs
  <2>2. CASE Command(m)
    BY <1>2, <2>1, <2>2, CommandStep
  <2>3. CASE DropCommand(m)
    <3>1. Dropped \in Nat /\ m.led_index \in Leds \cup {MAX_NUM_OF_LED_PWM_SW, NoLed}
      BY <2>1 DEF Dropped
    <3>2. answer' \in [code : Nat, led : Leds \cup {MAX_NUM_OF_LED_PWM_SW, NoLed}]
      BY <2>3, <3>1, AnswerTyped DEF DropCommand
    <3> QED BY <1>2, <2>3, <3>2, QuietKeepsInv DEF DropCommand
  <2> QED BY <1>3, <1>5, <2>2, <2>3
<1> QED BY <1>4, <1>5

\* A message that is answered by nothing leaves all LEDs, or the one it names, in the
\* account of the unreported.
LEMMA SilenceIsAccounted ==
    ASSUME PInv, NEW p \in Pages, Receive(p), answer'.code \notin {Report, Reply},
           NEW l \in Leds \ unreported'
    PROVE  Head(up[p]) # Ask /\ Head(up[p]).led_index # l
<1> DEFINE m == Head(up[p])
<1>1. unreported' = unreported \cup Untold
  BY DEF Receive
<1>2. answer'.code # Dropped
  BY <1>1 DEF Untold
<1>3. LoseMessage \/ IF m = Ask THEN Query ELSE Command(m) \/ DropCommand(m)
  BY DEF Receive
<1> HIDE DEF m
<1>4. ~LoseMessage
  BY <1>2 DEF LoseMessage, Answers
<1>5. m # Ask
  BY <1>2, <1>3, <1>4 DEF Query, Answers
<1>6. Answers(NoAnswer, m.led_index)
  BY <1>2, <1>3, <1>4, <1>5 DEF Command, DropCommand, Reported, Answers
<1>7. m.led_index # l
  BY <1>1, <1>2, <1>6 DEF Untold, Answers
<1> QED BY <1>5, <1>7 DEF m

\* Whatever the firmware makes of a message, its answer goes to whom it concerns.
LEMMA ReceiveKeeps ==
    ASSUME PInv, NEW p \in Pages, Receive(p)
    PROVE  PInv'
<1> DEFINE r == [method |-> Method, leds |-> Shown']
<1>1. LInv'
  BY ReceiveFirmware
<1>2. /\ page' = page
      /\ page[p].open /\ up[p] # << >>
      /\ up' = [up EXCEPT ![p] = Tail(@)]
      /\ down' = [q \in Pages |-> IF q \in Addressed(p) THEN Append(down[q], r) ELSE down[q]]
      /\ unreported' = IF answer'.code = Report THEN {} ELSE unreported \cup Untold
  BY DEF Receive, Snapshot
<1>3. (LInv => Shown \in [Leds -> Picture])'
  BY ShownTyped, PTL
<1>4. r \in Reports /\ r.leds = Shown'
  BY <1>1, <1>3 DEF Reports, Method
<1> HIDE DEF r
<1>5. /\ unreported' \subseteq Leds
      /\ answer'.code # Report =>
            \A l \in Leds \ unreported' : l \notin unreported /\ Shown'[l] = Shown[l]
  BY <1>2, Accounted DEF PInv, PagesTyped
<1>6. \A q \in Addressed(p) : q \in Open
  BY <1>2 DEF Addressed, Open
<1>7. \A q \in Pages :
          IF q \in Addressed(p) THEN /\ down'[q] \in Seq(Reports)
                                     /\ down'[q] # << >>
                                     /\ down'[q][Len(down'[q])] = r
          ELSE down'[q] = down[q]
  <2> SUFFICES ASSUME NEW q \in Pages, q \in Addressed(p)
               PROVE  /\ down'[q] \in Seq(Reports)
                      /\ down'[q] # << >>
                      /\ down'[q][Len(down'[q])] = r
    BY <1>2
  <2> DEFINE s == down[q]
             t == Append(s, r)
  <2>1. s \in Seq(Reports) /\ down'[q] = t
    BY <1>2 DEF PInv, PagesTyped
  <2> HIDE DEF s
  <2>2. t \in Seq(Reports) /\ t # << >> /\ t[Len(t)] = r
    BY <1>4, <2>1
  <2> QED BY <2>1, <2>2
<1>8. PagesTyped'
  <2>1. Tail(up[p]) \in Seq({Ask} \cup Orders)
    BY <1>2 DEF PInv, PagesTyped
  <2>2. up' \in [Pages -> Seq({Ask} \cup Orders)]
    BY <1>2, <2>1 DEF PInv, PagesTyped
  <2>3. down' \in [Pages -> Seq(Reports)]
    BY <1>2, <1>7 DEF PInv, PagesTyped
  <2>4. \A q \in Pages : ~page'[q].open => down'[q] = << >>
    BY <1>2, <1>6, <1>7 DEF PInv, PagesTyped, Open
  <2> QED BY <1>2, <1>5, <2>2, <2>3, <2>4 DEF PInv, PagesTyped
<1>9. \A q \in Pages : page[q].open /\ answer'.code = Report => q \in Addressed(p)
  <2>1. answer'.code = Report => Addressed(p) = Open
    BY DEF Addressed, Report, Reply
  <2> QED BY <2>1 DEF Open
<1>10. LastReportIsPresent'
  <2> SUFFICES ASSUME NEW q \in Pages, page'[q].open, down'[q] # << >>,
                      NEW l \in Leds \ unreported'
               PROVE  down'[q][Len(down'[q])].leds[l] = Shown'[l]
    BY DEF LastReportIsPresent, Open
  <2>1. CASE q \in Addressed(p)
    BY <2>1, <1>4, <1>7
  <2>2. CASE q \notin Addressed(p)
    <3>1. answer'.code # Report /\ page[q].open /\ down'[q] = down[q]
      BY <2>2, <1>2, <1>7, <1>9
    <3>2. down[q][Len(down[q])].leds[l] = Shown[l]
      BY <3>1, <1>5 DEF PInv, LastReportIsPresent, Open
    <3> QED BY <3>1, <3>2, <1>5
  <2> QED BY <2>1, <2>2
<1>11. \A q \in Pages : Current(q)'
  <2> SUFFICES ASSUME NEW q \in Pages, page'[q].open, page'[q].listed, down'[q] = << >>,
                      NEW l \in Leds \ unreported'
               PROVE  page'[q].view[l] = Shown'[l] \/ Pending(q, l)'
    BY DEF Current
  <2>1. q \notin Addressed(p) /\ down[q] = << >> /\ answer'.code # Report
    BY <1>2, <1>7, <1>9
  <2>2. page[q].view[l] = Shown[l] \/ Pending(q, l)
    BY <2>1, <1>2, <1>5 DEF PInv, Current
  <2>3. CASE q # p
    <3>1. Pending(q, l)' <=> Pending(q, l)
      BY <2>3, <1>2 DEF Pending, PInv, PagesTyped
    <3> QED BY <2>1, <2>2, <3>1, <1>2, <1>5
  <2>4. CASE q = p
    <3>1. answer'.code \notin {Report, Reply}
      BY <2>1, <2>4 DEF Addressed, Report, Reply
    <3>2. Head(up[p]) # Ask /\ Head(up[p]).led_index # l
      BY <3>1, SilenceIsAccounted
    <3>3. up[p] \in Seq({Ask} \cup Orders) /\ up'[p] = Tail(up[p])
      BY <1>2 DEF PInv, PagesTyped
    <3>4. Pending(p, l) => Pending(p, l)'
      BY <3>2, <3>3, <1>2, AwaitsTail DEF Pending
    <3> QED BY <2>1, <2>2, <2>4, <3>4, <1>2, <1>5
  <2> QED BY <2>3, <2>4
<1> QED BY <1>1, <1>8, <1>10, <1>11 DEF PInv

-----------------------------------------------------------------------------
LEMMA PagesStep == PInv /\ [NextPages]_allVars => PInv'
<1> SUFFICES ASSUME PInv, [NextPages]_allVars PROVE PInv'
  OBVIOUS
<1>1. CASE Elsewhere
  BY <1>1, ElsewhereKeeps
<1>2. ASSUME NEW p \in Pages, Connect(p) \/ Disconnect(p) \/ Receive(p) \/ onMessage(p)
      PROVE  PInv'
  BY <1>2, ConnectKeeps, DisconnectKeeps, ReceiveKeeps, onMessageKeeps
<1>3. ASSUME NEW p \in Pages, NEW l \in Leds,
             onClick_Individual_On_Off_SW(p, l) \/ onClick_LED_PWM_Slider(p, l)
      PROVE  PInv'
  BY <1>3, ClicksKeep
<1>4. CASE UNCHANGED allVars
  <2>1. UNCHANGED vars /\ UNCHANGED pageVars
    BY <1>4 DEF allVars
  <2>2. LInv' /\ Shown' = Shown
    BY <2>1, FirmwareInv DEF PInv, vars, Shown
  <2> QED BY <2>1, <2>2 DEF pageVars, PInv, PagesTyped, LastReportIsPresent, Open, Current,
                              Pending
<1> QED BY <1>1, <1>2, <1>3, <1>4 DEF NextPages

LEMMA PagesInvariant == SpecPages => []PInv
BY PagesInit, PagesStep, PTL DEF SpecPages

\* The last report under way to a page is the present state of the LEDs the pages
\* were told of.
THEOREM ReportsArePresent == SpecPages => []LastReportIsPresent
<1>1. PInv => LastReportIsPresent
  BY DEF PInv
<1> QED BY <1>1, PagesInvariant, PTL

\* When nothing is under way a page shows what the LEDs do.
THEOREM PagesAlwaysAgree == SpecPages => []PagesAgree
<1>1. PInv => PagesAgree
  <2> SUFFICES ASSUME PInv, NEW p \in Open, page[p].listed, up[p] = << >>, down[p] = << >>,
                      NEW l \in Leds \ unreported
               PROVE  page[p].view[l] = Shown[l]
    BY DEF PagesAgree
  <2>1. page[p].view[l] = Shown[l] \/ Pending(p, l)
    BY DEF PInv, Current, Open
  <2>2. ~Pending(p, l)
    BY DEF Pending, Awaits
  <2> QED BY <2>1, <2>2
<1> QED BY <1>1, PagesInvariant, PTL
=============================================================================
