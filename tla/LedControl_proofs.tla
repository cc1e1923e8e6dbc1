--------------------------- MODULE LedControl_proofs ---------------------------
(***************************************************************************)
(* What LedControl promises, proved for every number of LEDs, both drivers *)
(* and all numbers a request may carry: types, the registers, the outputs, *)
(* requests sent twice, and that the outputs are the lamps of Dimmer.      *)
(***************************************************************************)
EXTENDS LedControl, TLAPS

\* A channel in its own right: its registers follow its duty, and a driver that is
\* not ready has never moved it.
Registers(d) == /\ d.width = (IF d.out THEN d.duty ELSE 0)
                /\ d.inverted <=> d.out /\ d.duty = PWM_MAX_DUTY

Good(d) == /\ d \in Channel
           /\ Registers(d)
           /\ ~d.init \/ platform = "STM32" => ~d.out /\ d.duty = 0

\* A channel that is set up and does what its status says.
Follows(d) == /\ d.init
              /\ d.out = d.on_off
              /\ d.level <= PWM_MAX_DUTY => d.duty = d.level

\* e is what a LED may become of d by a request.
Operated(d, e) == /\ Good(e)
                  /\ e.init = d.init
                  /\ e.duty # d.duty => e.out
                  /\ platform = "TM4C1294" /\ Follows(d) => Follows(e)

-----------------------------------------------------------------------------
\* A level is a number, and 0 is one.
LEMMA LevelsAreNumbers ==
    /\ \A v \in Levels : v \in Nat
    /\ 0 \in Levels
BY DEF Levels

\* Writing one field of a channel leaves the others.
LEMMA WriteOut ==
    ASSUME NEW d \in Channel, NEW x \in BOOLEAN
    PROVE  /\ [d EXCEPT !.out = x] \in Channel
           /\ [d EXCEPT !.out = x].out = x
           /\ [d EXCEPT !.out = x].on_off = d.on_off
           /\ [d EXCEPT !.out = x].level = d.level
           /\ [d EXCEPT !.out = x].init = d.init
           /\ [d EXCEPT !.out = x].duty = d.duty
           /\ [d EXCEPT !.out = x].width = d.width
           /\ [d EXCEPT !.out = x].inverted = d.inverted
BY DEF Channel

\* The same for the compare register.
LEMMA WriteWidth ==
    ASSUME NEW d \in Channel, NEW x \in 0 .. PWM_MAX_DUTY
    PROVE  /\ [d EXCEPT !.width = x] \in Channel
           /\ [d EXCEPT !.width = x].width = x
           /\ [d EXCEPT !.width = x].on_off = d.on_off
           /\ [d EXCEPT !.width = x].level = d.level
           /\ [d EXCEPT !.width = x].init = d.init
           /\ [d EXCEPT !.width = x].out = d.out
           /\ [d EXCEPT !.width = x].duty = d.duty
           /\ [d EXCEPT !.width = x].inverted = d.inverted
BY DEF Channel

\* The same for the polarity.
LEMMA WriteInverted ==
    ASSUME NEW d \in Channel, NEW x \in BOOLEAN
    PROVE  /\ [d EXCEPT !.inverted = x] \in Channel
           /\ [d EXCEPT !.inverted = x].inverted = x
           /\ [d EXCEPT !.inverted = x].on_off = d.on_off
           /\ [d EXCEPT !.inverted = x].level = d.level
           /\ [d EXCEPT !.inverted = x].init = d.init
           /\ [d EXCEPT !.inverted = x].out = d.out
           /\ [d EXCEPT !.inverted = x].duty = d.duty
           /\ [d EXCEPT !.inverted = x].width = d.width
BY DEF Channel

\* The same for the driver's flag.
LEMMA WriteInit ==
    ASSUME NEW d \in Channel, NEW x \in BOOLEAN
    PROVE  /\ [d EXCEPT !.init = x] \in Channel
           /\ [d EXCEPT !.init = x].init = x
           /\ [d EXCEPT !.init = x].on_off = d.on_off
           /\ [d EXCEPT !.init = x].level = d.level
           /\ [d EXCEPT !.init = x].out = d.out
           /\ [d EXCEPT !.init = x].duty = d.duty
           /\ [d EXCEPT !.init = x].width = d.width
           /\ [d EXCEPT !.init = x].inverted = d.inverted
BY DEF Channel

\* The same for the duty.
LEMMA WriteDuty ==
    ASSUME NEW d \in Channel, NEW x \in 0 .. PWM_MAX_DUTY
    PROVE  /\ [d EXCEPT !.duty = x] \in Channel
           /\ [d EXCEPT !.duty = x].duty = x
           /\ [d EXCEPT !.duty = x].on_off = d.on_off
           /\ [d EXCEPT !.duty = x].level = d.level
           /\ [d EXCEPT !.duty = x].init = d.init
           /\ [d EXCEPT !.duty = x].out = d.out
           /\ [d EXCEPT !.duty = x].width = d.width
           /\ [d EXCEPT !.duty = x].inverted = d.inverted
BY DEF Channel

\* The same for the switch.
LEMMA WriteOnOff ==
    ASSUME NEW d \in Channel, NEW x \in BOOLEAN
    PROVE  /\ [d EXCEPT !.on_off = x] \in Channel
           /\ [d EXCEPT !.on_off = x].on_off = x
           /\ [d EXCEPT !.on_off = x].level = d.level
           /\ [d EXCEPT !.on_off = x].init = d.init
           /\ [d EXCEPT !.on_off = x].out = d.out
           /\ [d EXCEPT !.on_off = x].duty = d.duty
           /\ [d EXCEPT !.on_off = x].width = d.width
           /\ [d EXCEPT !.on_off = x].inverted = d.inverted
BY DEF Channel

\* What shines is in range, with the registers that go with its duty.
LEMMA ShineFields ==
    ASSUME platform = "TM4C1294", NEW d \in Channel, NEW duty \in 0 .. PWM_MAX_DUTY
    PROVE  /\ Shine(d, duty) \in Channel
           /\ Shine(d, duty).on_off = d.on_off /\ Shine(d, duty).level = d.level
           /\ Shine(d, duty).init = d.init /\ Shine(d, duty).out = d.out
           /\ Shine(d, duty).duty = duty /\ Shine(d, duty).width = duty
           /\ Shine(d, duty).inverted <=> duty = PWM_MAX_DUTY
<1> DEFINE turned == platform = "TM4C1294" /\ duty = PWM_MAX_DUTY
           g == [d EXCEPT !.duty = duty]
           h == [g EXCEPT !.width = duty]
           f == [h EXCEPT !.inverted = turned]
<1>1. turned \in BOOLEAN /\ (turned <=> duty = PWM_MAX_DUTY)
  OBVIOUS
<1>2. Shine(d, duty) = f
  BY DEF Shine
<1> HIDE DEF turned
<1>3. /\ g \in Channel /\ g.on_off = d.on_off /\ g.level = d.level /\ g.init = d.init
      /\ g.out = d.out /\ g.duty = duty
  BY DEF Channel
<1> HIDE DEF g
<1>4. /\ h \in Channel /\ h.on_off = d.on_off /\ h.level = d.level /\ h.init = d.init
      /\ h.out = d.out /\ h.duty = duty /\ h.width = duty
  BY <1>3 DEF Channel
<1> HIDE DEF h
<1>5. f \in Channel
  BY <1>1, <1>4 DEF Channel
<1>6. /\ f.on_off = d.on_off /\ f.level = d.level /\ f.init = d.init
      /\ f.out = d.out /\ f.duty = duty /\ f.width = duty
  BY <1>4 DEF Channel
<1>7. f.inverted = turned
  BY <1>4 DEF Channel
<1> HIDE DEF f
<1>8. f.inverted <=> duty = PWM_MAX_DUTY
  BY <1>1, <1>7, Zenon
<1> QED BY <1>2, <1>5, <1>6, <1>8

\* Switching keeps a channel good, and its duty.
LEMMA SwitchOperates ==
    ASSUME platform \in {"STM32", "TM4C1294"}, NEW d, Good(d), NEW on \in BOOLEAN
    PROVE  /\ Operated(d, LED_PWM_Set_LED_On_Off_Status(d, on))
           /\ LED_PWM_Set_LED_On_Off_Status(d, on).duty = d.duty
<1> DEFINE e == LED_PWM_Set_LED_On_Off_Status(d, on)
           s == [d EXCEPT !.on_off = on]
<1>1. s \in Channel /\ s.duty \in 0 .. PWM_MAX_DUTY
  BY DEF Good, Channel
<1>2. /\ s.on_off = on /\ s.level = d.level /\ s.init = d.init /\ s.out = d.out
      /\ s.duty = d.duty /\ s.width = d.width /\ s.inverted = d.inverted
  BY DEF Good, Channel
<1>e. e = IF on THEN PWM_Turn_On(s) ELSE PWM_Turn_Off(s)
  BY DEF LED_PWM_Set_LED_On_Off_Status
<1> HIDE DEF e, s
<1>3. ASSUME ~Ready(s) PROVE Operated(d, e) /\ e.duty = d.duty
  <2>1. e = s
    BY <1>3, <1>e DEF PWM_Turn_On, PWM_Turn_Off
  <2>2. ~s.init \/ platform = "STM32"
    BY <1>3 DEF Ready
  <2>3. Good(e)
    BY <2>1, <2>2, <1>1, <1>2 DEF Good, Registers
  <2>4. platform = "TM4C1294" => ~Follows(d)
    BY <2>2, <1>2 DEF Follows
  <2> QED BY <2>1, <2>3, <2>4, <1>2 DEF Operated
<1>4. ASSUME Ready(s) PROVE Operated(d, e) /\ e.duty = d.duty
  <2>0. s.init /\ platform = "TM4C1294"
    BY <1>4 DEF Ready, Timer_is_Init
  <2>1. CASE on
    <3> DEFINE f == Shine(s, s.duty)
    <3>0. (IF s.duty > PWM_MAX_DUTY THEN PWM_MAX_DUTY ELSE s.duty) = s.duty
      BY <1>1 DEF PWM_MAX_DUTY
    <3>1. e = [f EXCEPT !.out = TRUE]
      BY <2>1, <1>4, <1>e, <3>0 DEF PWM_Turn_On
    <3>2. /\ f \in Channel /\ f.on_off = s.on_off /\ f.level = s.level /\ f.init = s.init
          /\ f.duty = s.duty /\ f.width = s.duty
          /\ f.inverted <=> s.duty = PWM_MAX_DUTY
      BY <1>1, <2>0, ShineFields
    <3> HIDE DEF f
    <3>3. /\ e \in Channel /\ e.on_off = f.on_off /\ e.level = f.level /\ e.init = f.init
          /\ e.duty = f.duty /\ e.width = f.width /\ e.inverted = f.inverted /\ e.out = TRUE
      BY <3>1, <3>2, WriteOut
    <3>4. Good(e)
      BY <3>2, <3>3, <2>0, <1>2 DEF Good, Registers
    <3>5. Follows(d) => Follows(e)
      BY <3>2, <3>3, <1>2, <2>1 DEF Follows
    <3> QED BY <3>2, <3>3, <3>4, <3>5, <1>2 DEF Operated
  <2>2. CASE ~on
    <3> DEFINE turned == s.inverted /\ s.duty # PWM_MAX_DUTY
               f == [s EXCEPT !.out = FALSE]
               g == [f EXCEPT !.width = 0]
    <3>1. e = [g EXCEPT !.inverted = turned]
      BY <2>2, <1>4, <1>e DEF PWM_Turn_Off
    <3>2. turned = FALSE
      BY <1>2 DEF Good, Registers
    <3> HIDE DEF turned
    <3>6. /\ f \in Channel /\ f.on_off = s.on_off /\ f.level = s.level /\ f.init = s.init
          /\ f.duty = s.duty /\ f.out = FALSE
      BY <1>1, WriteOut
    <3> HIDE DEF f
    <3>8. 0 \in 0 .. PWM_MAX_DUTY
      BY DEF PWM_MAX_DUTY
    <3>7. /\ g \in Channel /\ g.on_off = s.on_off /\ g.level = s.level /\ g.init = s.init
          /\ g.duty = s.duty /\ g.out = FALSE /\ g.width = 0
      BY <3>6, <3>8, WriteWidth
    <3> HIDE DEF g
    <3>3. /\ e \in Channel /\ e.on_off = s.on_off /\ e.level = s.level /\ e.init = s.init
          /\ e.duty = s.duty /\ e.width = 0 /\ e.inverted = FALSE /\ e.out = FALSE
      BY <3>1, <3>2, <3>7, WriteInverted
    <3>4. Good(e)
      BY <3>3, <2>0, <1>2 DEF Good, Registers
    <3>5. Follows(d) => Follows(e)
      BY <3>3, <1>2, <2>2 DEF Follows
    <3> QED BY <3>3, <3>4, <3>5, <1>2 DEF Operated
  <2> QED BY <2>1, <2>2
<1>5. Operated(d, e) /\ e.duty = d.duty
  BY <1>3, <1>4
<1> QED BY <1>5 DEF e

\* So does setting a level, which changes the duty only of a channel that shines.
LEMMA LevelOperates ==
    ASSUME platform \in {"STM32", "TM4C1294"}, NEW d, Good(d), NEW level \in Levels
    PROVE  Operated(d, LED_PWM_Set_LED_Level_Status(d, level))
<1> DEFINE e == LED_PWM_Set_LED_Level_Status(d, level)
           s == [d EXCEPT !.level = level]
<1>1. s \in Channel
  BY DEF Good, Channel
<1>2. /\ s.on_off = d.on_off /\ s.level = level /\ s.init = d.init /\ s.out = d.out
      /\ s.duty = d.duty /\ s.width = d.width /\ s.inverted = d.inverted
  BY DEF Good, Channel
<1>e. e = IF d.on_off THEN PWM_Set_Duty(s, level) ELSE d
  BY DEF LED_PWM_Set_LED_Level_Status
<1> HIDE DEF e, s
<1>3. ASSUME ~d.on_off PROVE Operated(d, e)
  BY <1>3, <1>e DEF Operated
<1>4. ASSUME d.on_off, ~(level <= PWM_MAX_DUTY /\ Ready(s) /\ s.out) PROVE Operated(d, e)
  <2>1. e = s
    BY <1>4, <1>e DEF PWM_Set_Duty
  <2>2. Good(s)
    BY <1>1, <1>2 DEF Good, Registers
  <2>3. platform = "TM4C1294" /\ Follows(d) => ~(level <= PWM_MAX_DUTY)
    BY <1>2, <1>4 DEF Follows, Ready
  <2>4. platform = "TM4C1294" /\ Follows(d) => Follows(s)
    BY <2>3, <1>2 DEF Follows
  <2> QED BY <2>1, <2>2, <2>4, <1>2 DEF Operated
<1>5. ASSUME d.on_off, level <= PWM_MAX_DUTY, Ready(s), s.out PROVE Operated(d, e)
  <2>0. s.init /\ platform = "TM4C1294"
    BY <1>5 DEF Ready, Timer_is_Init
  <2>1. e = Shine(s, level)
    BY <1>5, <1>e DEF PWM_Set_Duty
  <2>2. level \in 0 .. PWM_MAX_DUTY
    <3>1. level \in Nat
      BY LevelsAreNumbers
    <3> QED BY <3>1, <1>5 DEF PWM_MAX_DUTY
  <2>3. /\ e \in Channel /\ e.on_off = s.on_off /\ e.level = s.level /\ e.init = s.init
        /\ e.duty = level /\ e.width = level /\ e.out = s.out
        /\ e.inverted <=> level = PWM_MAX_DUTY
    <3>1. platform = "TM4C1294"
      BY <2>0
    <3>2. /\ e \in Channel /\ e.on_off = s.on_off /\ e.level = s.level /\ e.init = s.init
          /\ e.duty = level /\ e.width = level /\ e.out = s.out
      BY <1>1, <3>1, <2>1, <2>2, ShineFields
    <3>3. e.inverted <=> level = PWM_MAX_DUTY
      <4>1. Shine(s, level).inverted <=> level = PWM_MAX_DUTY
        BY <1>1, <3>1, <2>2, ShineFields
      <4> QED BY <4>1, <2>1, SMT
    <3> QED BY <3>2, <3>3
  <2>4. Good(e)
    BY <2>3, <2>0, <1>5 DEF Good, Registers
  <2>5. Follows(d) => Follows(e)
    BY <2>3, <1>2 DEF Follows
  <2> QED BY <2>3, <2>4, <2>5, <1>2, <1>5 DEF Operated
<1>6. Operated(d, e)
  BY <1>3, <1>4, <1>5
<1> QED BY <1>6 DEF e


-----------------------------------------------------------------------------
\* Two operations in a row are one.
LEMMA OperatedTwice ==
    ASSUME NEW d, NEW e, NEW f, Operated(d, e), e.duty = d.duty, Operated(e, f)
    PROVE  Operated(d, f)
BY DEF Operated

\* The number of a body.
LEMMA BodyValue == ASSUME NEW body \in Bodies PROVE body.level.value \in Int
<1>1. body.level \in Numbers \cup [number : {FALSE}, value : {0}]
  BY DEF Bodies
<1>2. RestLevels \subseteq Int
  BY LedAssumption DEF LedAssumption
<1> DEFINE n == body.level
<1> HIDE DEF n
<1>3. n \in [number : {TRUE}, value : RestLevels] => n.value \in Int
  BY <1>2
<1>4. n \in [number : {FALSE}, value : {0}] => n.value \in Int
  OBVIOUS
<1>5. n \in [number : {TRUE}, value : RestLevels] \cup [number : {FALSE}, value : {0}]
  BY <1>1, Zenon DEF Numbers, n
<1>6. n.value \in Int
  BY <1>3, <1>4, <1>5, Zenon
<1> QED BY <1>6 DEF n

\* What a REST request that is not refused does to its LED.
LEMMA PostOperates ==
    ASSUME platform \in {"STM32", "TM4C1294"}, NEW d, Good(d),
           NEW url \in Urls, NEW body \in Bodies
    PROVE  Operated(d, Commanded(url, body, d))
<1> DEFINE on == body.on_off = "cJSON_True"
           value == body.level.value
           e == LED_PWM_Set_LED_On_Off_Status(d, on)
<1>1. on \in BOOLEAN
  OBVIOUS
<1>2. value \in Int
  BY BodyValue
<1> HIDE DEF on, value
<1>3. Operated(d, e) /\ e.duty = d.duty
  BY <1>1, SwitchOperates
<1>4. Good(e)
  BY <1>3 DEF Operated
<1> HIDE DEF e
<1>5. CASE url.pattern = "/LED_PWM/*"
  <2> DEFINE v == (value % 256) * 10
  <2>1. v \in Levels
    BY <1>2 DEF Levels
  <2> HIDE DEF v
  <2>2. Operated(e, LED_PWM_Set_LED_Level_Status(e, v))
    BY <2>1, <1>4, LevelOperates
  <2>3. Commanded(url, body, d) = LED_PWM_Set_LED_Level_Status(e, v)
    BY <1>5 DEF Commanded, e, v, on, value
  <2> QED BY <2>2, <2>3, <1>3, OperatedTwice
<1>6. CASE url.pattern = "/LED_PWM/On_Off/*"
  BY <1>3, <1>6 DEF Commanded, e, on
<1>7. CASE url.pattern \notin {"/LED_PWM/*", "/LED_PWM/On_Off/*"}
  <2> DEFINE v == IF value = 0 THEN 0 ELSE 10
  <2>1. v \in Levels
    BY DEF Levels
  <2>2. Commanded(url, body, d) = LED_PWM_Set_LED_Level_Status(d, v)
    BY <1>7 DEF Commanded, value
  <2> HIDE DEF v
  <2> QED BY <2>1, <2>2, LevelOperates
<1> QED BY <1>5, <1>6, <1>7

\* A good channel is known by five of its fields.
LEMMA SameChannel ==
    ASSUME NEW d, Good(d), NEW e, Good(e), e.on_off = d.on_off, e.level = d.level,
           e.init = d.init, e.out = d.out, e.duty = d.duty
    PROVE  e = d
<1>1. d \in Channel /\ e \in Channel
  BY DEF Good
<1>2. e.width = d.width
  BY DEF Good, Registers
<1>3. e.inverted = d.inverted
  <2>1. e.inverted <=> d.inverted
    BY DEF Good, Registers
  <2>2. e.inverted \in BOOLEAN /\ d.inverted \in BOOLEAN
    BY <1>1 DEF Channel
  <2> QED BY <2>1, <2>2
<1> QED BY <1>1, <1>2, <1>3 DEF Channel

\* Where switching puts the five.
LEMMA SwitchFields ==
    ASSUME platform \in {"STM32", "TM4C1294"}, NEW d, Good(d), NEW on \in BOOLEAN
    PROVE  LET e == LED_PWM_Set_LED_On_Off_Status(d, on)
           IN /\ e.on_off = on /\ e.level = d.level /\ e.init = d.init /\ e.duty = d.duty
              /\ e.out = IF Ready(d) THEN on ELSE d.out
<1> DEFINE e == LED_PWM_Set_LED_On_Off_Status(d, on)
           s == [d EXCEPT !.on_off = on]
<1>1. d \in Channel /\ s \in Channel
  BY DEF Good, Channel
<1>2. /\ s.on_off = on /\ s.level = d.level /\ s.init = d.init /\ s.out = d.out
      /\ s.duty = d.duty
  BY <1>1, WriteOnOff
<1>3. Ready(s) <=> Ready(d)
  BY <1>2 DEF Ready
<1>4. e = IF on THEN PWM_Turn_On(s) ELSE PWM_Turn_Off(s)
  BY DEF LED_PWM_Set_LED_On_Off_Status
<1>5. Operated(d, e) /\ e.duty = d.duty
  BY SwitchOperates
<1> HIDE DEF e, s
<1>6. CASE ~Ready(s)
  <2>1. e = s
    BY <1>4, <1>6 DEF PWM_Turn_On, PWM_Turn_Off
  <2> QED BY <2>1, <1>2, <1>3, <1>6 DEF e
<1>7. CASE Ready(s) /\ on
  <2> DEFINE duty == IF s.duty > PWM_MAX_DUTY THEN PWM_MAX_DUTY ELSE s.duty
             f == Shine(s, duty)
  <2>1. e = [f EXCEPT !.out = TRUE]
    BY <1>4, <1>7 DEF PWM_Turn_On
  <2>2. platform = "TM4C1294"
    BY <1>7 DEF Ready, Timer_is_Init
  <2>3. duty \in 0 .. PWM_MAX_DUTY
    BY <1>1 DEF Channel, PWM_MAX_DUTY
  <2> HIDE DEF duty
  <2>4. f \in Channel /\ f.on_off = s.on_off /\ f.level = s.level /\ f.init = s.init
    BY <1>1, <2>2, <2>3, ShineFields
  <2> HIDE DEF f
  <2>5. e.out = TRUE /\ e.on_off = f.on_off /\ e.level = f.level /\ e.init = f.init
    BY <2>1, <2>4, WriteOut
  <2> QED BY <2>4, <2>5, <1>2, <1>3, <1>5, <1>7 DEF e
<1>8. CASE Ready(s) /\ ~on
  <2> DEFINE turned == s.inverted /\ s.duty # PWM_MAX_DUTY
             f == [s EXCEPT !.out = FALSE]
             g == [f EXCEPT !.width = 0]
  <2>1. e = [g EXCEPT !.inverted = turned]
    BY <1>4, <1>8 DEF PWM_Turn_Off
  <2>2. turned \in BOOLEAN /\ 0 \in 0 .. PWM_MAX_DUTY
    BY <1>1 DEF Channel, PWM_MAX_DUTY
  <2> HIDE DEF turned
  <2>3. /\ f \in Channel /\ f.out = FALSE
        /\ f.on_off = s.on_off /\ f.level = s.level /\ f.init = s.init
    BY <1>1, WriteOut
  <2> HIDE DEF f
  <2>4. /\ g \in Channel /\ g.out = FALSE
        /\ g.on_off = s.on_off /\ g.level = s.level /\ g.init = s.init
    BY <2>2, <2>3, WriteWidth
  <2> HIDE DEF g
  <2>5. e.out = FALSE /\ e.on_off = s.on_off /\ e.level = s.level /\ e.init = s.init
    BY <2>1, <2>2, <2>4, WriteInverted
  <2> QED BY <2>5, <1>2, <1>3, <1>5, <1>8 DEF e
<1> QED BY <1>6, <1>7, <1>8

\* Where setting a level puts them.
LEMMA LevelFields ==
    ASSUME platform \in {"STM32", "TM4C1294"}, NEW d, Good(d), NEW level \in Levels
    PROVE  LET e == LED_PWM_Set_LED_Level_Status(d, level)
           IN /\ e.on_off = d.on_off /\ e.init = d.init /\ e.out = d.out
              /\ e.level = IF d.on_off THEN level ELSE d.level
              /\ e.duty = IF d.on_off /\ level <= PWM_MAX_DUTY /\ Ready(d) /\ d.out
                          THEN level ELSE d.duty
<1> DEFINE e == LED_PWM_Set_LED_Level_Status(d, level)
           s == [d EXCEPT !.level = level]
           set == level <= PWM_MAX_DUTY /\ Ready(s) /\ s.out
<1>1. s \in Channel
  BY DEF Good, Channel
<1>2. /\ s.on_off = d.on_off /\ s.level = level /\ s.init = d.init /\ s.out = d.out
      /\ s.duty = d.duty
  BY DEF Good, Channel
<1>3. Ready(s) <=> Ready(d)
  BY <1>2 DEF Ready
<1>4. e = IF d.on_off THEN PWM_Set_Duty(s, level) ELSE d
  BY DEF LED_PWM_Set_LED_Level_Status
<1>5. CASE ~d.on_off
  <2> HIDE DEF e, s
  <2>1. e = d
    BY <1>4, <1>5
  <2> QED BY <2>1, <1>5 DEF e
<1>6. CASE d.on_off /\ ~set
  <2> HIDE DEF e, s
  <2>1. e = s
    BY <1>4, <1>6 DEF PWM_Set_Duty
  <2> QED BY <2>1, <1>2, <1>3, <1>6 DEF e
<1>7. CASE d.on_off /\ set
  <2> HIDE DEF e, s
  <2>1. e = Shine(s, level)
    BY <1>4, <1>7 DEF PWM_Set_Duty
  <2>2. platform = "TM4C1294"
    BY <1>7 DEF Ready, Timer_is_Init
  <2>3. level \in 0 .. PWM_MAX_DUTY
    BY <1>7, LevelsAreNumbers DEF PWM_MAX_DUTY
  <2>4. /\ e.on_off = s.on_off /\ e.level = s.level /\ e.init = s.init /\ e.out = s.out
        /\ e.duty = level
    BY <1>1, <2>1, <2>2, <2>3, ShineFields
  <2> QED BY <2>4, <1>2, <1>3, <1>7 DEF e
<1> QED BY <1>5, <1>6, <1>7

\* What a POST commands, commanded again, changes nothing more.
LEMMA CommandedTwice ==
    ASSUME platform \in {"STM32", "TM4C1294"}, NEW d, Good(d),
           NEW url \in Urls, NEW body \in Bodies
    PROVE  Commanded(url, body, Commanded(url, body, d)) = Commanded(url, body, d)
<1> DEFINE on == body.on_off = "cJSON_True"
           value == body.level.value
           once == Commanded(url, body, d)
           twice == Commanded(url, body, once)
           Switched(x) == LED_PWM_Set_LED_On_Off_Status(x, on)
<1>1. on \in BOOLEAN
  OBVIOUS
<1>2. value \in Int
  BY BodyValue
<1>3. Good(once) /\ Good(twice)
  <2>1. Good(once)
    BY PostOperates DEF Operated
  <2> HIDE DEF once
  <2>2. Good(twice)
    BY <2>1, PostOperates DEF Operated
  <2> QED BY <2>1, <2>2
<1> HIDE DEF on, value
<1>4. CASE url.pattern = "/LED_PWM/*"
  <2> DEFINE v == (value % 256) * 10
             Set(x) == LED_PWM_Set_LED_Level_Status(x, v)
  <2>1. v \in Levels
    BY <1>2 DEF Levels
  <2> HIDE DEF v
  <2>2. \A x : Commanded(url, body, x) = Set(Switched(x))
    BY <1>4 DEF Commanded, v, on, value
  <2> DEFINE Fields(x, y) ==
        /\ y.on_off = on /\ y.init = x.init
        /\ y.out = IF Ready(x) THEN on ELSE x.out
        /\ y.level = IF on THEN v ELSE x.level
        /\ y.duty = IF on /\ v <= PWM_MAX_DUTY /\ Ready(x) THEN v ELSE x.duty
  <2>3. ASSUME NEW x, Good(x) PROVE Fields(x, Set(Switched(x)))
    <3> DEFINE y == Switched(x)
    <3>1. Good(y)
      BY <2>3, <1>1, SwitchOperates DEF Operated
    <3>2. /\ y.on_off = on /\ y.level = x.level /\ y.init = x.init /\ y.duty = x.duty
          /\ y.out = IF Ready(x) THEN on ELSE x.out
      BY <2>3, <1>1, SwitchFields
    <3> HIDE DEF y
    <3>3. Ready(y) <=> Ready(x)
      BY <3>2 DEF Ready
    <3> DEFINE z == Set(y)
    <3>4. /\ z.on_off = y.on_off /\ z.init = y.init /\ z.out = y.out
          /\ z.level = IF y.on_off THEN v ELSE y.level
          /\ z.duty = IF y.on_off /\ v <= PWM_MAX_DUTY /\ Ready(y) /\ y.out THEN v ELSE y.duty
      BY <3>1, <2>1, LevelFields
    <3> HIDE DEF z
    <3>5. Fields(x, z)
      BY <3>2, <3>3, <3>4
    <3> QED BY <3>5 DEF z, y
  <2>4. Fields(d, once)
    BY <2>2, <2>3
  <2>5. Fields(once, twice)
    <3>1. twice = Set(Switched(once))
      BY <2>2
    <3> HIDE DEF once, twice
    <3> QED BY <3>1, <1>3, <2>3
  <2> HIDE DEF once, twice
  <2>6. Ready(once) <=> Ready(d)
    BY <2>4 DEF Ready
  <2>7. /\ twice.on_off = once.on_off /\ twice.level = once.level /\ twice.init = once.init
        /\ twice.out = once.out /\ twice.duty = once.duty
    BY <2>4, <2>5, <2>6
  <2> QED BY <2>7, <1>3, SameChannel DEF once, twice
<1>5. CASE url.pattern = "/LED_PWM/On_Off/*"
  <2>1. \A x : Commanded(url, body, x) = Switched(x)
    BY <1>5 DEF Commanded, on
  <2>2. once = Switched(d) /\ twice = Switched(once)
    BY <2>1
  <2> HIDE DEF once, twice
  <2>3. /\ once.on_off = on /\ once.level = d.level /\ once.init = d.init
        /\ once.duty = d.duty /\ once.out = IF Ready(d) THEN on ELSE d.out
    BY <2>2, <1>1, SwitchFields
  <2>4. /\ twice.on_off = on /\ twice.level = once.level /\ twice.init = once.init
        /\ twice.duty = once.duty /\ twice.out = IF Ready(once) THEN on ELSE once.out
    BY <2>2, <1>1, <1>3, SwitchFields
  <2>5. Ready(once) <=> Ready(d)
    BY <2>3 DEF Ready
  <2>6. twice.on_off = once.on_off /\ twice.out = once.out
    BY <2>3, <2>4, <2>5
  <2> QED BY <2>4, <2>6, <1>3, SameChannel DEF once, twice
<1>6. CASE url.pattern \notin {"/LED_PWM/*", "/LED_PWM/On_Off/*"}
  <2> DEFINE v == IF value = 0 THEN 0 ELSE 10
             Set(x) == LED_PWM_Set_LED_Level_Status(x, v)
  <2>1. v \in Levels
    BY DEF Levels
  <2>2. \A x : Commanded(url, body, x) = Set(x)
    BY <1>6 DEF Commanded, value
  <2>3. once = Set(d) /\ twice = Set(once)
    BY <2>2
  <2> HIDE DEF v, once, twice
  <2>4. /\ once.on_off = d.on_off /\ once.init = d.init /\ once.out = d.out
        /\ once.level = IF d.on_off THEN v ELSE d.level
        /\ once.duty = IF d.on_off /\ v <= PWM_MAX_DUTY /\ Ready(d) /\ d.out
                       THEN v ELSE d.duty
    BY <2>1, <2>3, LevelFields
  <2>5. /\ twice.on_off = once.on_off /\ twice.init = once.init /\ twice.out = once.out
        /\ twice.level = IF once.on_off THEN v ELSE once.level
        /\ twice.duty = IF once.on_off /\ v <= PWM_MAX_DUTY /\ Ready(once) /\ once.out
                        THEN v ELSE once.duty
    BY <2>1, <2>3, <1>3, LevelFields
  <2>6. Ready(once) <=> Ready(d)
    BY <2>4 DEF Ready
  <2>7. twice.level = once.level /\ twice.duty = once.duty
    BY <2>4, <2>5, <2>6
  <2> QED BY <2>5, <2>7, <1>3, SameChannel DEF once, twice
<1> QED BY <1>4, <1>5, <1>6

\* What a JSON command may ask for.
Verbs == {"on_off", "level", "toggle", "unknown"}

\* What a JSON command that is valid does to its LED.
LEMMA CommandOperates ==
    ASSUME platform \in {"STM32", "TM4C1294"}, NEW d, Good(d),
           NEW m, m.command \in Verbs, Valid(m), m.command # "unknown"
    PROVE  Operated(d, Obeyed(m, d))
<1>1. CASE m.command = "on_off"
  <2> DEFINE on == m.on_off = "cJSON_True"
  <2>1. on \in BOOLEAN
    OBVIOUS
  <2>2. Obeyed(m, d) = LED_PWM_Set_LED_On_Off_Status(d, on)
    BY <1>1 DEF Obeyed
  <2> HIDE DEF on
  <2> QED BY <2>1, <2>2, SwitchOperates
<1>2. CASE m.command = "level"
  <2> DEFINE v == m.level * 10
  <2>1. v \in Levels
    BY <1>2 DEF Valid, Levels
  <2>2. Obeyed(m, d) = LED_PWM_Set_LED_Level_Status(d, v)
    BY <1>2 DEF Obeyed
  <2> HIDE DEF v
  <2> QED BY <2>1, <2>2, LevelOperates
<1>3. CASE m.command = "toggle"
  <2> DEFINE on == ~d.on_off
  <2>1. on \in BOOLEAN
    BY DEF Good, Channel
  <2>2. Obeyed(m, d) = LED_PWM_Set_LED_On_Off_Status(d, on)
    BY <1>3 DEF Obeyed, LED_PWM_Toggle_LED_On_Off_Status
  <2> HIDE DEF on
  <2> QED BY <2>1, <2>2, SwitchOperates
<1> QED BY <1>1, <1>2, <1>3 DEF Verbs


-----------------------------------------------------------------------------
\* Where the init thread is.
BootShape == /\ boot \in [at : {"urls", "channel", "clear", "topic", "done"}, n : Nat]
             /\ boot.at = "urls" => boot.n \in 1 .. 5
             /\ boot.at \in {"channel", "clear"} => boot.n \in Leds

Half(l) == boot.at = "clear" /\ boot.n = l

\* No channel is set up before the init thread comes to it; on TM4C1294 it is
\* afterwards, and does nothing until its status is cleared.
Staged(l) ==
    /\ led[l].init => Cleared(l) \/ Half(l)
    /\ platform = "TM4C1294" /\ l \notin raced =>
          /\ Cleared(l) => Follows(led[l])
          /\ Half(l) => led[l].init /\ ~led[l].out /\ led[l].duty = 0

LInv == /\ platform \in Platforms
        /\ BootShape
        /\ urls \in Seq(PatternSet)
        /\ topics \subseteq {"LED_PWM"}
        /\ raced \subseteq Leds
        /\ answer \in [code : Nat, led : Leds \cup {MAX_NUM_OF_LED_PWM_SW, NoLed}]
        /\ led \in [Leds -> Channel]
        /\ \A l \in Leds : Good(led[l])
        /\ \A l \in Leds : Staged(l)

\* The constants, as the proofs below use them.
LEMMA Constants == /\ Platforms \subseteq {"STM32", "TM4C1294"}
                   /\ MAX_NUM_OF_LED_PWM_SW \in Nat
                   /\ 0 \in Leds
BY LedAssumption DEF LedAssumption, Leds

LEMMA InvInit == Init => LInv
<1> SUFFICES ASSUME Init PROVE LInv
  OBVIOUS
<1> USE DEF Init
<1>1. Blank \in Channel
  BY LevelsAreNumbers DEF Blank, Channel, PWM_MAX_DUTY
<1>2. Good(Blank)
  BY <1>1 DEF Good, Registers, Blank, PWM_MAX_DUTY
<1>3. \A l \in Leds : led[l] = Blank
  OBVIOUS
<1>4. BootShape
  BY DEF BootShape
<1>5. \A l \in Leds : Staged(l)
  BY <1>3 DEF Staged, Blank, Cleared, Half
<1>6. answer \in [code : Nat, led : Leds \cup {MAX_NUM_OF_LED_PWM_SW, NoLed}]
  BY DEF NoAnswer
<1> QED BY <1>1, <1>2, <1>3, <1>4, <1>5, <1>6 DEF LInv

\* What the invariant says is what the properties say.
LEMMA InvImplies == LInv => TypeOK /\ OutputFollowsStatus /\ RegistersFollowDuty
<1> SUFFICES ASSUME LInv PROVE TypeOK /\ OutputFollowsStatus /\ RegistersFollowDuty
  OBVIOUS
<1>1. TypeOK
  BY DEF LInv, TypeOK, BootShape
<1>2. OutputFollowsStatus
  BY DEF LInv, OutputFollowsStatus, Staged, Follows
<1>3. RegistersFollowDuty
  BY DEF LInv, RegistersFollowDuty, Good, Registers
<1> QED BY <1>1, <1>2, <1>3

\* A request that changes one LED as an operation may keeps the invariant.
LEMMA ChangeKeepsInv ==
    ASSUME LInv, NEW l \in Leds, NEW e, Operated(led[l], e), Change(l, e),
           UNCHANGED <<platform, boot, urls, topics>>,
           answer' \in [code : Nat, led : Leds \cup {MAX_NUM_OF_LED_PWM_SW, NoLed}]
    PROVE  LInv'
<1>1. Good(e)
  BY DEF Operated
<1>2. led' = [led EXCEPT ![l] = e] /\ led' \in [Leds -> Channel]
  BY <1>1 DEF Change, LInv, Good
<1>3. \A k \in Leds : led'[k] = IF k = l THEN e ELSE led[k]
  BY <1>2 DEF LInv
<1>4. raced \subseteq raced' /\ raced' \subseteq Leds /\ (Half(l) => l \in raced')
  BY DEF Change, LInv, Half, BootShape
<1>5. \A k \in Leds : Good(led[k])'
  BY <1>1, <1>3 DEF LInv, Good
<1>6. \A k \in Leds : Staged(k)'
  <2> SUFFICES ASSUME NEW k \in Leds PROVE Staged(k)'
    OBVIOUS
  <2>0. (Cleared(k)' <=> Cleared(k)) /\ (Half(k)' <=> Half(k))
    BY DEF Cleared, Half
  <2>1. CASE k # l
    BY <2>0, <2>1, <1>3, <1>4 DEF LInv, Staged, Follows
  <2>2. CASE k = l
    <3>1. led'[k] = e
      BY <2>2, <1>3
    <3>2. Staged(l)
      BY DEF LInv
    <3>3. e.init = led[l].init
      BY DEF Operated
    <3>4. platform = "TM4C1294" /\ l \notin raced' /\ Cleared(l) => Follows(e)
      BY <3>2, <1>4 DEF Operated, Staged
    <3>5. Follows(led[k])' <=> Follows(e)
      BY <3>1 DEF Follows
    <3> QED BY <2>0, <2>2, <3>1, <3>2, <3>3, <3>4, <3>5, <1>4 DEF Staged
  <2> QED BY <2>1, <2>2
<1>7. BootShape'
  BY DEF LInv, BootShape
<1> QED BY <1>2, <1>4, <1>5, <1>6, <1>7 DEF LInv

\* A step that touches neither the LEDs nor the init thread does, too.
LEMMA QuietKeepsInv ==
    ASSUME LInv, UNCHANGED <<platform, boot, urls, topics, led, raced>>,
           answer' \in [code : Nat, led : Leds \cup {MAX_NUM_OF_LED_PWM_SW, NoLed}]
    PROVE  LInv'
<1>1. BootShape'
  BY DEF LInv, BootShape
<1>2. \A l \in Leds : Good(led[l])'
  BY DEF LInv, Good
<1>3. \A l \in Leds : Staged(l)'
  BY DEF LInv, Staged, Cleared, Half, Follows
<1> QED BY <1>1, <1>2, <1>3 DEF LInv


-----------------------------------------------------------------------------
\* The init thread's steps; none has an answer to give.
LEMMA NoAnswerTyped ==
    ASSUME Answers(NoAnswer, NoLed)
    PROVE  answer' \in [code : Nat, led : Leds \cup {MAX_NUM_OF_LED_PWM_SW, NoLed}]
BY DEF Answers, NoAnswer

LEMMA RegisterUrlKeepsInv == ASSUME LInv, RegisterUrl PROVE LInv'
<1> USE DEF RegisterUrl
<1>1. BootShape'
  BY Constants DEF LInv, BootShape
<1>2. urls' \in Seq(PatternSet)
  <2>1. boot.n \in 1 .. 5 /\ urls \in Seq(PatternSet)
    BY DEF LInv, BootShape
  <2>2. Patterns[boot.n] \in PatternSet
    BY <2>1 DEF PatternSet
  <2>3. urls' = urls \/ urls' = Append(urls, Patterns[boot.n])
    OBVIOUS
  <2> QED BY <2>1, <2>2, <2>3
<1>3. \A l \in Leds : Good(led[l])'
  BY DEF LInv, Good
<1>4. \A l \in Leds : ~led[l].init
  BY DEF LInv, Staged, Cleared, Half
<1>5. boot'.at = "urls" \/ (boot'.at = "channel" /\ boot'.n = 0)
  <2>1. boot' = [at |-> "urls", n |-> boot.n + 1] \/ boot' = [at |-> "channel", n |-> 0]
    OBVIOUS
  <2>2. CASE boot' = [at |-> "urls", n |-> boot.n + 1]
    BY ONLY <2>2
  <2>3. CASE boot' = [at |-> "channel", n |-> 0]
    BY ONLY <2>3
  <2> QED BY <2>1, <2>2, <2>3
<1>6. \A l \in Leds : ~Cleared(l)' /\ ~Half(l)'
  BY <1>5 DEF Cleared, Half, Leds
<1>7. \A l \in Leds : Staged(l)'
  BY <1>4, <1>6 DEF Staged
<1> QED BY <1>1, <1>2, <1>3, <1>7, NoAnswerTyped DEF LInv

LEMMA InitChannelKeepsInv ==
    ASSUME LInv, InitChannel
    PROVE  LInv' /\ \A l \in Leds : led'[l].out = led[l].out /\ led'[l].duty = led[l].duty
<1> DEFINE n == boot.n
           d == led[n]
           e == led'[n]
<1>0. n \in Leds /\ boot.at = "channel" /\ boot' = [boot EXCEPT !.at = "clear"]
  BY DEF LInv, BootShape, InitChannel
<1>1. boot'.at = "clear" /\ boot'.n = n /\ BootShape'
  BY <1>0 DEF LInv, BootShape
<1>2. Good(d) /\ d \in Channel /\ ~d.init
  BY <1>0 DEF LInv, Staged, Cleared, Half, Leds, BootShape
<1>3. /\ led' = [led EXCEPT ![n] = e]
      /\ e = PWM_Channel_Init(d) \/ (platform = "STM32" /\ e = d)
  <2>1. CASE led' = [led EXCEPT ![n] = PWM_Channel_Init(@)]
    <3>1. led' = [led EXCEPT ![n] = PWM_Channel_Init(d)]
      BY <2>1
    <3>2. e = PWM_Channel_Init(d)
      BY <3>1, <1>0 DEF LInv
    <3> HIDE DEF e
    <3> QED BY <3>1, <3>2
  <2>2. CASE platform = "STM32" /\ UNCHANGED led
    BY <2>2, <1>0 DEF LInv
  <2> QED BY <2>1, <2>2 DEF InitChannel
<1>4. /\ e \in Channel /\ e.out = d.out /\ e.duty = d.duty /\ e.width = d.width
      /\ e.inverted = d.inverted /\ (platform = "TM4C1294" => e.init)
  <2>0. ~d.out /\ d.width = 0 /\ d.duty = 0
    BY <1>2 DEF Good, Registers
  <2>1. CASE platform = "STM32"
    <3>1. e = d \/ e = [d EXCEPT !.init = TRUE, !.duty = 0]
      BY <1>2, <1>3, <2>1 DEF PWM_Channel_Init, Timer_is_Init
    <3> DEFINE f == [d EXCEPT !.init = TRUE]
    <3>2. /\ f \in Channel /\ f.out = d.out /\ f.duty = d.duty /\ f.width = d.width
          /\ f.inverted = d.inverted
      BY <1>2, WriteInit
    <3>3. CASE e = [f EXCEPT !.duty = 0]
      <4>1. 0 \in 0 .. PWM_MAX_DUTY
        BY DEF PWM_MAX_DUTY
      <4> HIDE DEF f
      <4> QED BY <3>2, <3>3, <4>1, <2>0, <2>1, WriteDuty
    <3>4. CASE e = d
      BY <3>4, <2>0, <2>1, <1>2
    <3> QED BY <3>1, <3>3, <3>4
  <2>2. CASE platform = "TM4C1294"
    <3>1. e = [d EXCEPT !.init = TRUE, !.out = FALSE, !.width = 0]
      BY <1>2, <1>3, <2>2 DEF PWM_Channel_Init
    <3> DEFINE f == [d EXCEPT !.init = TRUE]
               g == [f EXCEPT !.out = FALSE]
    <3>2. /\ f \in Channel /\ f.init = TRUE /\ f.duty = d.duty /\ f.width = d.width
          /\ f.inverted = d.inverted
      BY <1>2, WriteInit
    <3>3. e = [g EXCEPT !.width = 0]
      BY <3>1
    <3> HIDE DEF f
    <3>4. /\ g \in Channel /\ g.init = TRUE /\ g.duty = d.duty /\ g.out = FALSE
          /\ g.inverted = d.inverted
      BY <3>2, WriteOut
    <3> HIDE DEF g
    <3>5. 0 \in 0 .. PWM_MAX_DUTY
      BY DEF PWM_MAX_DUTY
    <3>6. /\ e \in Channel /\ e.init = TRUE /\ e.duty = d.duty /\ e.out = FALSE
          /\ e.inverted = d.inverted /\ e.width = 0
      BY <3>3, <3>4, <3>5, WriteWidth
    <3>7. d.out = FALSE
      BY <2>0, <1>2 DEF Channel
    <3> QED BY <3>6, <3>7, <2>0
  <2> QED BY <2>1, <2>2, Constants DEF LInv
<1>5. ~d.out /\ d.duty = 0
  BY <1>2 DEF Good
<1>6. \A l \in Leds : led'[l] = IF l = n THEN e ELSE led[l]
  BY <1>3 DEF LInv
<1>7. led' \in [Leds -> Channel]
  BY <1>3, <1>4 DEF LInv
<1>8. platform' = platform /\ raced' = raced /\ urls' = urls /\ topics' = topics
  BY DEF InitChannel
<1>9. Good(e)
  BY <1>2, <1>4, <1>5 DEF Good, Registers
<1>10. \A l \in Leds : Good(led[l])'
  BY <1>6, <1>8, <1>9 DEF LInv, Good
<1>11. \A l \in Leds : Staged(l)'
  <2> SUFFICES ASSUME NEW l \in Leds PROVE Staged(l)'
    OBVIOUS
  <2>1. (Cleared(l)' <=> l < n) /\ (Half(l)' <=> l = n) /\ (Cleared(l) <=> l < n) /\ ~Half(l)
    BY <1>0, <1>1 DEF Cleared, Half, Leds
  <2>2. CASE l # n
    BY <2>1, <2>2, <1>6, <1>8 DEF LInv, Staged, Follows
  <2>3. CASE l = n
    BY <2>1, <2>3, <1>4, <1>5, <1>6, <1>8 DEF Staged, Leds
  <2> QED BY <2>2, <2>3
<1>12. Answers(NoAnswer, NoLed)
  BY DEF InitChannel
<1> QED BY <1>1, <1>4, <1>6, <1>7, <1>8, <1>10, <1>11, <1>12, NoAnswerTyped DEF LInv

LEMMA ClearStatusKeepsInv ==
    ASSUME LInv, ClearStatus
    PROVE  LInv' /\ \A l \in Leds : led'[l].out = led[l].out /\ led'[l].duty = led[l].duty
<1> DEFINE n == boot.n
           d == led[n]
           g == [d EXCEPT !.on_off = FALSE]
           e == [g EXCEPT !.level = 0]
<1>0. n \in Leds /\ boot.at = "clear"
  BY DEF LInv, BootShape, ClearStatus
<1>1. /\ boot'.at \in {"channel", "topic"} /\ boot'.n \in Nat
      /\ boot'.at = "channel" => boot'.n = n + 1 /\ n + 1 \in Leds
      /\ boot'.at = "topic" => n = MAX_NUM_OF_LED_PWM_SW - 1
      /\ BootShape'
  BY <1>0, Constants DEF ClearStatus, LInv, BootShape, Leds
<1>2. Good(d) /\ d \in Channel
  BY <1>0 DEF LInv
<1>3. /\ g \in Channel /\ g.on_off = FALSE /\ g.init = d.init /\ g.out = d.out
      /\ g.duty = d.duty /\ g.width = d.width /\ g.inverted = d.inverted
  BY <1>2, WriteOnOff
<1> HIDE DEF g
<1>4. /\ e \in Channel /\ e.on_off = FALSE /\ e.level = 0 /\ e.init = d.init
      /\ e.out = d.out /\ e.duty = d.duty /\ e.width = d.width /\ e.inverted = d.inverted
  <2>2. /\ e \in Channel /\ e.on_off = g.on_off /\ e.level = 0 /\ e.init = g.init
        /\ e.out = g.out /\ e.duty = g.duty /\ e.width = g.width /\ e.inverted = g.inverted
    <3>1. g \in Channel
      BY <1>3
    <3> QED BY <3>1, LevelsAreNumbers DEF Channel
  <2> HIDE DEF e
  <2> QED BY <2>2, <1>3
<1>5. led' = [led EXCEPT ![n] = e]
  BY DEF ClearStatus, g
<1> HIDE DEF e
<1>6. \A l \in Leds : led'[l] = IF l = n THEN e ELSE led[l]
  BY <1>5 DEF LInv
<1>7. led' \in [Leds -> Channel]
  BY <1>4, <1>5 DEF LInv
<1>8. platform' = platform /\ raced' = raced /\ urls' = urls /\ topics' = topics
  BY DEF ClearStatus
<1>9. Good(e)
  BY <1>2, <1>4 DEF Good, Registers
<1>10. \A l \in Leds : Good(led[l])'
  BY <1>6, <1>8, <1>9 DEF LInv, Good
<1>11. \A l \in Leds : Staged(l)'
  <2> SUFFICES ASSUME NEW l \in Leds PROVE Staged(l)'
    OBVIOUS
  <2>0. l \in Int /\ n \in Int /\ MAX_NUM_OF_LED_PWM_SW \in Int /\ l < MAX_NUM_OF_LED_PWM_SW
    BY <1>0, Constants DEF Leds
  <2>1. (Cleared(l)' <=> l <= n) /\ ~Half(l)' /\ (Cleared(l) <=> l < n) /\ (Half(l) <=> l = n)
    BY <2>0, <1>0, <1>1 DEF Cleared, Half
  <2>2. CASE l # n
    BY <2>0, <2>1, <2>2, <1>6, <1>8 DEF LInv, Staged, Follows
  <2>3. CASE l = n
    <3>1. Staged(l)
      BY DEF LInv
    <3>2. platform = "TM4C1294" /\ l \notin raced => e.init /\ e.out = FALSE /\ e.duty = 0
      BY <3>1, <2>1, <2>3, <1>2, <1>4 DEF Staged, Channel
    <3>3. platform = "TM4C1294" /\ l \notin raced => Follows(e)
      BY <3>2, <1>4 DEF Follows
    <3>4. Follows(led[l])' <=> Follows(e)
      BY <2>3, <1>6 DEF Follows
    <3> QED BY <3>3, <3>4, <2>1, <2>3, <2>0, <1>8 DEF Staged
  <2> QED BY <2>2, <2>3
<1>12. Answers(NoAnswer, NoLed)
  BY DEF ClearStatus
<1> QED BY <1>1, <1>4, <1>6, <1>7, <1>8, <1>10, <1>11, <1>12, NoAnswerTyped DEF LInv

LEMMA RegisterTopicKeepsInv == ASSUME LInv, RegisterTopic PROVE LInv'
<1> USE DEF RegisterTopic
<1>1. BootShape'
  BY DEF LInv, BootShape
<1>2. topics' \subseteq {"LED_PWM"}
  BY DEF LInv
<1>3. \A l \in Leds : Good(led[l])'
  BY DEF LInv, Good
<1>4. \A l \in Leds : Cleared(l) /\ Cleared(l)' /\ ~Half(l)'
  BY DEF Cleared, Half
<1>5. \A l \in Leds : Staged(l)'
  BY <1>4 DEF LInv, Staged, Follows
<1> QED BY <1>1, <1>2, <1>3, <1>5, NoAnswerTyped DEF LInv


-----------------------------------------------------------------------------
\* Requests and commands. What they answer is typed.
LEMMA UrlLeds ==
    ASSUME NEW url \in Urls
    PROVE  url.led \in Leds \cup {MAX_NUM_OF_LED_PWM_SW, NoLed}
<1>1. CASE url \in [pattern : {"/LED_PWM", "/LED_PWM/Num"}, led : {NoLed}]
  BY <1>1
<1>2. CASE url \in [pattern : Controls, led : Leds \cup {MAX_NUM_OF_LED_PWM_SW, NoLed}]
  BY <1>2
<1> QED BY <1>1, <1>2 DEF Urls

LEMMA AnswerTyped ==
    ASSUME NEW code \in Nat, NEW l \in Leds \cup {MAX_NUM_OF_LED_PWM_SW, NoLed}, Answers(code, l)
    PROVE  answer' \in [code : Nat, led : Leds \cup {MAX_NUM_OF_LED_PWM_SW, NoLed}]
BY DEF Answers

\* The lamp whose LED is operated takes a step of Dimmer, and no other changes.
Lit(l, e) == /\ led' = [led EXCEPT ![l] = e]
             /\ Operated(led[l], e)

\* A URL that is served names a LED.
LEMMA ServedLed ==
    ASSUME LInv, NEW url \in Urls, Served(url, "POST")
    PROVE  LedIndex(url) \in Leds
<1>1. url.pattern \in Controls => LedIndex(url) \in Leds
  BY DEF Served
<1>2. url.pattern \notin Controls => LedIndex(url) = 0
  BY DEF LedIndex, Controls
<1> QED BY <1>1, <1>2, Constants

\* So is one that may not be sent.
LEMMA ResponseTyped ==
    ASSUME NEW code \in Nat, NEW l \in Leds \cup {MAX_NUM_OF_LED_PWM_SW, NoLed}, Responds(code, l)
    PROVE  answer' \in [code : Nat, led : Leds \cup {MAX_NUM_OF_LED_PWM_SW, NoLed}]
<1>1. Unsent \in Nat
  BY DEF Unsent
<1>2. Answers(code, l) \/ Answers(Unsent, l)
  BY DEF Responds
<1> QED BY <1>1, <1>2, AnswerTyped

LEMMA PostStep ==
    ASSUME LInv, NEW url \in Urls, NEW body \in Bodies, Post(url, body)
    PROVE  LInv' /\ \E l \in Leds, e \in Channel : Lit(l, e)
<1> DEFINE l == LedIndex(url)
           e == Commanded(url, body, led[l])
<1>1. l \in Leds
  BY ServedLed DEF Post
<1>2. Good(led[l]) /\ platform \in {"STM32", "TM4C1294"}
  BY <1>1, Constants DEF LInv
<1>3. Operated(led[l], e)
  BY <1>1, <1>2, PostOperates
<1>4. Change(l, e) /\ UNCHANGED <<platform, boot, urls, topics>> /\ Responds(201, url.led)
  BY DEF Post
<1>5. answer' \in [code : Nat, led : Leds \cup {MAX_NUM_OF_LED_PWM_SW, NoLed}]
  BY <1>4, UrlLeds, ResponseTyped
<1> HIDE DEF l, e
<1>6. LInv'
  BY <1>1, <1>3, <1>4, <1>5, ChangeKeepsInv
<1>7. Lit(l, e) /\ e \in Channel
  BY <1>3, <1>4 DEF Lit, Change, Operated, Good
<1> QED BY <1>1, <1>6, <1>7

LEMMA CommandStep ==
    ASSUME LInv, NEW m, m.command \in Verbs, m.led_index \in Leds \cup {NoLed}, Command(m)
    PROVE  LInv' /\ (UNCHANGED led \/ \E l \in Leds, e \in Channel : Lit(l, e))
<1>1. m.led_index \in Leds \cup {NoLed}
  OBVIOUS
<1>2. answer' \in [code : Nat, led : Leds \cup {MAX_NUM_OF_LED_PWM_SW, NoLed}]
  <2>1. Report \in Nat /\ NoAnswer \in Nat
    BY DEF Report, NoAnswer
  <2>2. Answers(Report, m.led_index) \/ Answers(NoAnswer, m.led_index)
    BY DEF Command, Reported
  <2> QED BY <1>1, <2>1, <2>2, AnswerTyped
<1>3. CASE m.command = "unknown"
  <2>1. UNCHANGED <<platform, boot, urls, topics, led, raced>>
    BY <1>3 DEF Command
  <2> QED BY <2>1, <1>2, QuietKeepsInv
<1>4. CASE m.command # "unknown"
  <2> DEFINE l == m.led_index
             e == Obeyed(m, led[l])
  <2>1. Valid(m) /\ l \in Leds
    BY <1>4 DEF Command, Valid
  <2>2. Good(led[l]) /\ platform \in {"STM32", "TM4C1294"}
    BY <2>1, Constants DEF LInv
  <2>3. Operated(led[l], e)
    BY <1>4, <2>1, <2>2, CommandOperates
  <2>4. Change(l, e) /\ UNCHANGED <<platform, boot, urls, topics>>
    BY <1>4 DEF Command
  <2> HIDE DEF l, e
  <2>5. LInv'
    BY <2>1, <2>3, <2>4, <1>2, ChangeKeepsInv
  <2>6. Lit(l, e) /\ e \in Channel
    BY <2>3, <2>4 DEF Lit, Change, Operated, Good
  <2> QED BY <2>1, <2>5, <2>6
<1> QED BY <1>3, <1>4

LEMMA CommandsTyped ==
    ASSUME NEW m \in Commands
    PROVE  m.command \in Verbs /\ m.led_index \in Leds \cup {NoLed}
BY DEF Commands, Verbs

\* Everything else that can happen changes nothing but the answer.
Quiet == UNCHANGED <<platform, boot, urls, topics, led, raced>>

LEMMA OtherSteps ==
    ASSUME LInv, Rest \/ Json
    PROVE  \/ \E url \in Urls, body \in Bodies : Post(url, body)
           \/ \E m \in Commands : Command(m)
           \/ Quiet /\ answer' \in [code : Nat, led : Leds \cup {MAX_NUM_OF_LED_PWM_SW, NoLed}]
<1> DEFINE Typed == answer' \in [code : Nat, led : Leds \cup {MAX_NUM_OF_LED_PWM_SW, NoLed}]
<1>1. ASSUME NEW url \in Urls, Get(url) PROVE Quiet /\ Typed
  BY <1>1, UrlLeds, ResponseTyped DEF Get, Quiet
<1>2. ASSUME NEW url \in Urls, NoMemory(url) PROVE Quiet /\ Typed
  BY <1>2, UrlLeds, ResponseTyped DEF NoMemory, Quiet
<1>3. ASSUME NEW url \in Urls, NEW method, NotFound(url, method) PROVE Quiet /\ Typed
  BY <1>3, UrlLeds, ResponseTyped DEF NotFound, Quiet
<1>4. ASSUME NEW url \in Urls, NEW body \in Bodies, BadRequest(url, body) PROVE Quiet /\ Typed
  <2>1. Verdict(url, body) \in Nat
    BY DEF Verdict
  <2> QED BY <1>4, <2>1, UrlLeds, ResponseTyped DEF BadRequest, Quiet
<1>5. ASSUME Query PROVE Quiet /\ Typed
  <2>1. Reply \in Nat /\ Dropped \in Nat /\ NoLed \in Leds \cup {MAX_NUM_OF_LED_PWM_SW, NoLed}
    BY DEF Reply, Dropped
  <2>2. Answers(Reply, NoLed) \/ Answers(Dropped, NoLed)
    BY <1>5 DEF Query
  <2>3. Typed
    BY <2>1, <2>2, AnswerTyped
  <2> QED BY <1>5, <2>3 DEF Query, Quiet
<1>6. ASSUME NEW m \in Commands, DropCommand(m) PROVE Quiet /\ Typed
  <2>1. Dropped \in Nat /\ m.led_index \in Leds \cup {MAX_NUM_OF_LED_PWM_SW, NoLed}
    BY DEF Dropped, Commands
  <2> QED BY <1>6, <2>1, AnswerTyped DEF DropCommand, Quiet
<1>7. ASSUME NEW url \in Urls, Ignored(url) PROVE Quiet /\ Typed
  <2>1. Unsent \in Nat
    BY DEF Unsent
  <2> QED BY <1>7, <2>1, UrlLeds, AnswerTyped DEF Ignored, Quiet
<1>8. ASSUME LoseMessage PROVE Quiet /\ Typed
  <2>1. Dropped \in Nat /\ NoLed \in Leds \cup {MAX_NUM_OF_LED_PWM_SW, NoLed}
    BY DEF Dropped
  <2> QED BY <1>8, <2>1, AnswerTyped DEF LoseMessage, Quiet
<1> QED BY <1>1, <1>2, <1>3, <1>4, <1>5, <1>6, <1>7, <1>8 DEF Rest, Json

LEMMA InvStep == LInv /\ [Next]_vars => LInv'
<1> SUFFICES ASSUME LInv, [Next]_vars PROVE LInv'
  OBVIOUS
<1>1. CASE BootStep
  BY <1>1, RegisterUrlKeepsInv, InitChannelKeepsInv, ClearStatusKeepsInv, RegisterTopicKeepsInv
  DEF BootStep
<1>2. CASE Rest \/ Json
  BY <1>2, OtherSteps, PostStep, CommandStep, CommandsTyped, QuietKeepsInv DEF Quiet
<1>3. CASE UNCHANGED vars
  BY <1>3, QuietKeepsInv DEF vars, LInv
<1> QED BY <1>1, <1>2, <1>3 DEF Next

\* Every variable keeps its type, whatever numbers requests carry.
THEOREM LedTypeCorrect == Spec => []TypeOK
<1>1. Spec => []LInv
  BY InvInit, InvStep, PTL DEF Spec
<1> QED BY <1>1, InvImplies, PTL

\* The outputs follow the status of every LED that is set up, except those a request
\* reached between PWM_Channel_Init and the memset of their status.
THEOREM OutputsFollow == Spec => []OutputFollowsStatus
<1>1. Spec => []LInv
  BY InvInit, InvStep, PTL DEF Spec
<1> QED BY <1>1, InvImplies, PTL

\* The compare and the polarity register follow the duty the driver remembers.
THEOREM RegistersFollow == Spec => []RegistersFollowDuty
<1>1. Spec => []LInv
  BY InvInit, InvStep, PTL DEF Spec
<1> QED BY <1>1, InvImplies, PTL

\* With the driver of STM32 no channel is ever on or given a duty, whatever is
\* requested and how often: each call finds Timer_Init_Status unset.
THEOREM DarkOnSTM32 ==
  Spec => [](platform = "STM32" => \A l \in Leds : ~led[l].out /\ led[l].duty = 0)
<1>1. Spec => []LInv
  BY InvInit, InvStep, PTL DEF Spec
<1>2. LInv => (platform = "STM32" => \A l \in Leds : ~led[l].out /\ led[l].duty = 0)
  BY DEF LInv, Good
<1> QED BY <1>1, <1>2, PTL

\* A POST that is sent twice leaves its LED as it left it the first time.
THEOREM RetryKeeps == Spec => []RetryIsHarmless
<1>1. LInv => RetryIsHarmless
  <2> SUFFICES ASSUME LInv, NEW url \in Urls, NEW body \in Bodies, Served(url, "POST")
               PROVE  LET once == Commanded(url, body, led[LedIndex(url)])
                      IN Commanded(url, body, once) = once
    BY DEF RetryIsHarmless
  <2> DEFINE d == led[LedIndex(url)]
  <2>1. LedIndex(url) \in Leds
    BY ServedLed
  <2>2. Good(d) /\ platform \in {"STM32", "TM4C1294"}
    BY <2>1, Constants DEF LInv
  <2> HIDE DEF d
  <2>3. Commanded(url, body, Commanded(url, body, d)) = Commanded(url, body, d)
    BY <2>2, CommandedTwice
  <2> QED BY <2>3 DEF d
<1>2. Spec => []LInv
  BY InvInit, InvStep, PTL DEF Spec
<1> QED BY <1>1, <1>2, PTL

-----------------------------------------------------------------------------
\* An operation on a LED is a step of Dimmer.
LEMMA LitIsDimmed ==
    ASSUME LInv, NEW l \in Leds, NEW e \in Channel, Lit(l, e)
    PROVE  Lamp!Next
<1> DEFINE out == [k \in Leds |-> led[k].out]
           duty == [k \in Leds |-> led[k].duty]
<1>1. /\ led \in [Leds -> Channel]
      /\ led' = [led EXCEPT ![l] = e]
      /\ e.duty # led[l].duty => e.out
      /\ e.out \in BOOLEAN /\ e.duty \in 0 .. PWM_MAX_DUTY
  BY DEF LInv, Lit, Operated, Channel
<1>2. out' = [out EXCEPT ![l] = e.out]
  BY <1>1
<1>3. duty' = [duty EXCEPT ![l] = e.duty]
  BY <1>1
<1>4. duty'[l] = e.duty
  BY <1>1
<1>5. CASE e.duty # led[l].duty
  <2>1. e.out = TRUE
    BY <1>1, <1>5
  <2>2. Lamp!ShineAt(l)
    BY <1>1, <1>2, <1>3, <1>4, <2>1 DEF Lamp!ShineAt, Lamp!NewLevel
  <2> QED BY <2>2 DEF Lamp!Next
<1>6. CASE e.duty = led[l].duty
  <2>1. duty' = duty
    BY <1>1, <1>6
  <2>2. CASE e.out = TRUE
    BY <1>2, <2>1, <2>2 DEF Lamp!Next, Lamp!SwitchOn
  <2>3. CASE e.out = FALSE
    BY <1>2, <2>1, <2>3 DEF Lamp!Next, Lamp!SwitchOff
  <2> QED BY <1>1, <2>2, <2>3
<1> QED BY <1>5, <1>6

\* Steps that leave the outputs of all channels alone are no steps of Dimmer.
LEMMA DarkIsStutter ==
    ASSUME \A l \in Leds : led'[l].out = led[l].out /\ led'[l].duty = led[l].duty
    PROVE  UNCHANGED Lamp!vars
BY DEF Lamp!vars

\* Whatever is requested and when, the outputs are the lamps of Dimmer.
THEOREM DimmerImplemented == Spec => ImplementsDimmer
<1>1. Init => Lamp!Init
  BY DEF Init, Blank, Lamp!Init
<1>2. LInv /\ [Next]_vars => [Lamp!Next]_Lamp!vars
  <2> SUFFICES ASSUME LInv, [Next]_vars PROVE Lamp!Next \/ UNCHANGED Lamp!vars
    OBVIOUS
  <2>1. UNCHANGED led => UNCHANGED Lamp!vars
    BY DarkIsStutter
  <2>2. CASE RegisterUrl \/ RegisterTopic
    BY <2>1, <2>2 DEF RegisterUrl, RegisterTopic
  <2>3. CASE InitChannel \/ ClearStatus
    BY <2>3, InitChannelKeepsInv, ClearStatusKeepsInv, DarkIsStutter
  <2>4. ASSUME NEW url \in Urls, NEW body \in Bodies, Post(url, body) PROVE Lamp!Next
    BY <2>4, PostStep, LitIsDimmed
  <2>5. ASSUME NEW m \in Commands, Command(m) PROVE Lamp!Next \/ UNCHANGED Lamp!vars
    BY <2>1, <2>5, CommandStep, CommandsTyped, LitIsDimmed
  <2>6. CASE Rest \/ Json
    BY <2>1, <2>4, <2>5, <2>6, OtherSteps DEF Quiet
  <2>7. CASE UNCHANGED vars
    BY <2>1, <2>7 DEF vars
  <2> QED BY <2>2, <2>3, <2>6, <2>7 DEF Next, BootStep
<1>3. Spec => []LInv
  BY InvInit, InvStep, PTL DEF Spec
<1>4. Spec => Lamp!Spec
  BY <1>1, <1>2, <1>3, PTL DEF Spec, Lamp!Spec
<1> QED BY <1>4 DEF ImplementsDimmer
=============================================================================
