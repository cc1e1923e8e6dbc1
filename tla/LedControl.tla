------------------------------ MODULE LedControl ------------------------------
(***************************************************************************)
(* The LED application: the PWM driver of both platforms, the LED state    *)
(* kept above it, the REST handlers and the JSON commands that change      *)
(* both, and the thread that sets all of it up while the HTTP task is      *)
(* already serving.  The HTTP task has the higher priority and no handler  *)
(* waits between its first and its last access to a LED, so a request is   *)
(* one step; the init thread can be interrupted between any two calls.     *)
(***************************************************************************)
EXTENDS Integers, Sequences

CONSTANTS MAX_NUM_OF_LED_PWM_SW, \* number of LEDs
          Platforms,             \* PWM drivers the firmware may be built with
          RestLevels,            \* "level" numbers a REST body may carry
          JsonLevels,            \* "level" numbers a JSON command may carry
          MayFail                \* what may fail for want of memory

ASSUME LedAssumption ==
    /\ MAX_NUM_OF_LED_PWM_SW \in Nat \ {0}
    /\ Platforms \subseteq {"STM32", "TM4C1294"}
    /\ RestLevels \subseteq Int
    /\ JsonLevels \subseteq Int
    /\ MayFail \subseteq {"registration", "answer", "message", "report"}

PWM_MAX_DUTY == 1000

Leds == 0 .. MAX_NUM_OF_LED_PWM_SW - 1
NoLed == -1

VARIABLES platform, \* the driver that is compiled in
          boot,     \* where the init thread is in Neon_APP_Device_Init
          urls,     \* Registered_URL_List
          topics,   \* app_if_callback_inf_lst
          led,      \* All_LED_Status and, per channel, the driver's state
          answer,   \* what the last step answered, and the LED its request names
          raced     \* LEDs a request reached between their two init steps

vars == <<platform, boot, urls, topics, led, answer, raced>>

-----------------------------------------------------------------------------
\* The PWM driver.  A channel is the record of the arrays of one index: init,
\* out and duty are PWM_Channel_Init_Status, _OnOff_Status and _Current_Duty,
\* width and inverted the compare and the polarity register.  No channel of the
\* application is inverted.  On STM32 every call needs the timer's
\* Timer_Init_Status, which nothing in the firmware ever sets.
Timer_is_Init == FALSE

Ready(d) == d.init /\ (platform = "STM32" => Timer_is_Init)

\* The registers of a channel that shines with duty.
Shine(d, duty) ==
    [d EXCEPT !.duty = duty, !.width = duty,
              !.inverted = platform = "TM4C1294" /\ duty = PWM_MAX_DUTY]

PWM_Channel_Init(d) ==
    IF d.init THEN d
    ELSE IF platform = "TM4C1294"
         THEN [d EXCEPT !.init = TRUE, !.out = FALSE, !.width = 0]
         ELSE IF Timer_is_Init THEN d ELSE [d EXCEPT !.init = TRUE, !.duty = 0]

\* Variant: the polarity is turned, whatever it was.
PWM_Turn_OnFlips(d) ==
    IF Ready(d)
    THEN [d EXCEPT !.out = TRUE, !.width = d.duty,
                   !.inverted = (d.duty = PWM_MAX_DUTY) # @]
    ELSE d

PWM_Turn_On(d) ==
    IF Ready(d)
    THEN [Shine(d, IF d.duty > PWM_MAX_DUTY THEN PWM_MAX_DUTY ELSE d.duty) EXCEPT !.out = TRUE]
    ELSE d

\* Variant: the polarity is not turned back.
PWM_Turn_OffInverted(d) == IF Ready(d) THEN [d EXCEPT !.out = FALSE, !.width = 0] ELSE d

\* Variant: a channel that is switched off forgets its duty.
PWM_Turn_OffForgets(d) ==
    IF Ready(d)
    THEN [d EXCEPT !.out = FALSE, !.width = 0, !.duty = 0, !.inverted = FALSE]
    ELSE d

PWM_Turn_Off(d) ==
    IF Ready(d)
    THEN [d EXCEPT !.out = FALSE, !.width = 0,
                   !.inverted = @ /\ d.duty # PWM_MAX_DUTY]
    ELSE d

\* Variant: any duty is accepted.
PWM_Set_DutyUnchecked(d, duty) == IF Ready(d) /\ d.out THEN Shine(d, duty) ELSE d

PWM_Set_Duty(d, duty) ==
    IF duty <= PWM_MAX_DUTY /\ Ready(d) /\ d.out THEN Shine(d, duty) ELSE d

-----------------------------------------------------------------------------
\* The LED state above the driver.  What the driver returns is ignored.
LED_PWM_Set_LED_On_Off_Status(d, on) ==
    IF on THEN PWM_Turn_On([d EXCEPT !.on_off = TRUE])
          ELSE PWM_Turn_Off([d EXCEPT !.on_off = FALSE])

\* Variant: the level of a LED that is off is changed too.
LED_PWM_Set_LED_Level_StatusAlways(d, level) == PWM_Set_Duty([d EXCEPT !.level = level], level)

LED_PWM_Set_LED_Level_Status(d, level) ==
    IF d.on_off THEN PWM_Set_Duty([d EXCEPT !.level = level], level) ELSE d

LED_PWM_Toggle_LED_On_Off_Status(d) == LED_PWM_Set_LED_On_Off_Status(d, ~d.on_off)

-----------------------------------------------------------------------------
\* Codes an answer carries beside the HTTP status codes.
NoAnswer == 0  \* the step answered no request
Report == 1    \* the new state was broadcast to every WebSocket page
Reply == 2     \* the page that asked was sent the state
Dropped == 3   \* a message of a page is answered by nothing
Unsent == 4    \* a REST request is answered by nothing

Patterns == << "/LED_PWM", "/LED_PWM/Num", "/LED_PWM/*", "/LED_PWM/Level/*", "/LED_PWM/On_Off/*" >>
Controls == { "/LED_PWM/*", "/LED_PWM/Level/*", "/LED_PWM/On_Off/*" }
PatternSet == { Patterns[k] : k \in 1 .. 5 }

\* A URL is the pattern it fits and what stands in the place of the star: a LED
\* number, one too large, or (NoLed) no digit.
Urls == [pattern : {"/LED_PWM", "/LED_PWM/Num"}, led : {NoLed}]
        \cup [pattern : Controls, led : Leds \cup {MAX_NUM_OF_LED_PWM_SW, NoLed}]

\* HTTPd_isMatch_CGI compares lengths first, so that no two patterns fit one URL.
HTTPd_isMatch_CGI(url) == \E k \in DOMAIN urls : urls[k] = url.pattern

\* The handlers parse all that follows "/LED_PWM/": what is no number counts as 0.
LedIndex(url) == IF url.pattern = "/LED_PWM/*" /\ url.led # NoLed THEN url.led ELSE 0

\* The body of a REST request: none in memory, no JSON, or an object with the type of its
\* "on_off" and its "level", which may be no number.
Numbers == [number : {TRUE}, value : RestLevels] \cup [number : {FALSE}, value : {0}]
Bodies == [form : {"null", "text"}, on_off : {"other"}, level : [number : {FALSE}, value : {0}]]
          \cup [form : {"json"}, on_off : {"cJSON_True", "cJSON_False", "other"}, level : Numbers]

Verdict(url, body) ==
    CASE body.form = "null" -> 400
      [] body.form = "text" -> 422
      [] /\ body.form = "json"
         /\ \/ url.pattern # "/LED_PWM/Level/*" /\ body.on_off = "other"
            \/ url.pattern # "/LED_PWM/On_Off/*" /\ ~body.level.number -> 400
      [] OTHER -> 201

\* sw_level is a uint8_t in one handler and a bool in the other.
Commanded(url, body, d) ==
    LET on == body.on_off = "cJSON_True"
        value == body.level.value
    IN CASE url.pattern = "/LED_PWM/*" ->
              LED_PWM_Set_LED_Level_Status(LED_PWM_Set_LED_On_Off_Status(d, on), (value % 256) * 10)
         [] url.pattern = "/LED_PWM/On_Off/*" -> LED_PWM_Set_LED_On_Off_Status(d, on)
         [] OTHER -> LED_PWM_Set_LED_Level_Status(d, IF value = 0 THEN 0 ELSE 10)

Answers(code, l) == answer' = [code |-> code, led |-> l]

\* HTTPd_Send_CGI_Response and HTTPd_NotFound send nothing when they find no memory
\* for the header, HTTPd_Send_CGI_JSON_Response when it finds none for the text.
Responds(code, l) == Answers(code, l) \/ ("answer" \in MayFail /\ Answers(Unsent, l))

\* Set LED l, and note when the init thread is about to clear its status.
Change(l, d) ==
    /\ led' = [led EXCEPT ![l] = d]
    /\ raced' = IF boot = [at |-> "clear", n |-> l] THEN raced \cup {l} ELSE raced

-----------------------------------------------------------------------------
Blank == [on_off |-> FALSE, level |-> 0, init |-> FALSE, out |-> FALSE, duty |-> 0,
          width |-> 0, inverted |-> FALSE]

Init == /\ platform \in Platforms
        /\ boot = [at |-> "urls", n |-> 1]
        /\ urls = << >>
        /\ topics = {}
        /\ led = [l \in Leds |-> Blank]
        /\ answer = [code |-> NoAnswer, led |-> NoLed]
        /\ raced = {}

\* Neon_APP_Device_Init, one call after the other; no result is looked at.
RegisterUrl ==
    /\ boot.at = "urls"
    /\ \/ urls' = Append(urls, Patterns[boot.n])
       \/ "registration" \in MayFail /\ UNCHANGED urls
    /\ boot' = IF boot.n < 5 THEN [at |-> "urls", n |-> boot.n + 1]
               ELSE [at |-> "channel", n |-> 0]
    /\ UNCHANGED <<platform, topics, led, raced>>
    /\ Answers(NoAnswer, NoLed)

\* On STM32 the timer's handle was never given its registers: HAL_TIM_PWM_Init
\* writes through a null pointer, and what it returns then is not defined.
InitChannel ==
    /\ boot.at = "channel"
    /\ \/ led' = [led EXCEPT ![boot.n] = PWM_Channel_Init(@)]
       \/ platform = "STM32" /\ UNCHANGED led
    /\ boot' = [boot EXCEPT !.at = "clear"]
    /\ UNCHANGED <<platform, urls, topics, raced>>
    /\ Answers(NoAnswer, NoLed)

ClearStatus ==
    /\ boot.at = "clear"
    /\ led' = [led EXCEPT ![boot.n] = [@ EXCEPT !.on_off = FALSE, !.level = 0]]
    /\ boot' = IF boot.n + 1 \in Leds THEN [at |-> "channel", n |-> boot.n + 1]
               ELSE [at |-> "topic", n |-> 0]
    /\ UNCHANGED <<platform, urls, topics, raced>>
    /\ Answers(NoAnswer, NoLed)

RegisterTopic ==
    /\ boot.at = "topic"
    /\ \/ topics' = topics \cup {"LED_PWM"}
       \/ "registration" \in MayFail /\ UNCHANGED topics
    /\ boot' = [at |-> "done", n |-> 0]
    /\ UNCHANGED <<platform, urls, led, raced>>
    /\ Answers(NoAnswer, NoLed)

BootStep == RegisterUrl \/ InitChannel \/ ClearStatus \/ RegisterTopic

-----------------------------------------------------------------------------
\* A REST request, served by the HTTP task, whose branch for the method is reached.
\* A POST runs its handler from the fallback of the sweep.
Served(url, method) ==
    /\ HTTPd_isMatch_CGI(url)
    /\ IF url.pattern \in Controls THEN LedIndex(url) \in Leds /\ method \in {"GET", "POST"}
       ELSE method = "GET"

\* No handler is registered for the URL, or it has no branch for the method.
NotFound(url, method) ==
    /\ ~Served(url, method)
    /\ method = "POST" /\ HTTPd_isMatch_CGI(url) => url.pattern \notin Controls
    /\ Responds(404, url.led)
    /\ UNCHANGED <<platform, boot, urls, topics, led, raced>>

\* A POST or PUT without a body is not dispatched, and the fallback only logs that the
\* handler of a POST knows no such LED.
Ignored(url) ==
    /\ Answers(Unsent, url.led)
    /\ UNCHANGED <<platform, boot, urls, topics, led, raced>>

\* The object the answer is built in is allocated before a LED is touched.
NoMemory(url) ==
    /\ "answer" \in MayFail
    /\ \E method \in {"GET", "POST"} : Served(url, method)
    /\ Responds(500, url.led)
    /\ UNCHANGED <<platform, boot, urls, topics, led, raced>>

Get(url) ==
    /\ Served(url, "GET")
    /\ Responds(200, url.led)
    /\ UNCHANGED <<platform, boot, urls, topics, led, raced>>

BadRequest(url, body) ==
    /\ Served(url, "POST")
    /\ Verdict(url, body) # 201
    /\ Responds(Verdict(url, body), url.led)
    /\ UNCHANGED <<platform, boot, urls, topics, led, raced>>

\* The LED is switched before the answer is rendered and sent, or not.
Post(url, body) ==
    /\ Served(url, "POST")
    /\ Verdict(url, body) = 201
    /\ Change(LedIndex(url), Commanded(url, body, led[LedIndex(url)]))
    /\ Responds(201, url.led)
    /\ UNCHANGED <<platform, boot, urls, topics>>

Rest == \E url \in Urls :
    \/ Get(url)
    \/ NoMemory(url)
    \/ Ignored(url)
    \/ \E method \in {"GET", "POST", "PUT", "DELETE"} : NotFound(url, method)
    \/ \E body \in Bodies : Post(url, body) \/ BadRequest(url, body)

-----------------------------------------------------------------------------
\* A JSON command of a WebSocket client.  NoLed stands for an index that is absent
\* or no number.  An unknown command has status 0, and is reported like a change.
Commands == [command : {"on_off", "level", "toggle", "unknown"}, led_index : Leds \cup {NoLed},
             on_off : {"cJSON_True", "cJSON_False", "other"}, level : JsonLevels]

Valid(m) ==
    \/ m.command = "unknown"
    \/ /\ m.led_index \in Leds
       /\ m.command = "on_off" => m.on_off # "other"
       /\ m.command = "level" => m.level \in 0 .. 100

Obeyed(m, d) ==
    CASE m.command = "on_off" -> LED_PWM_Set_LED_On_Off_Status(d, m.on_off = "cJSON_True")
      [] m.command = "level" -> LED_PWM_Set_LED_Level_Status(d, m.level * 10)
      [] m.command = "toggle" -> LED_PWM_Toggle_LED_On_Off_Status(d)

\* Every page is told, unless the report cannot be built.
Reported(l) == Answers(Report, l) \/ ("report" \in MayFail /\ Answers(NoAnswer, l))

Command(m) ==
    /\ topics # {}
    /\ Valid(m)
    /\ IF m.command = "unknown" THEN UNCHANGED <<led, raced>>
       ELSE Change(m.led_index, Obeyed(m, led[m.led_index]))
    /\ Reported(m.led_index)
    /\ UNCHANGED <<platform, boot, urls, topics>>

DropCommand(m) ==
    /\ topics = {} \/ ~Valid(m)
    /\ Answers(Dropped, m.led_index)
    /\ UNCHANGED <<platform, boot, urls, topics, led, raced>>

\* "get all led status"
Query ==
    /\ \/ topics # {} /\ Answers(Reply, NoLed)
       \/ (topics = {} \/ "answer" \in MayFail) /\ Answers(Dropped, NoLed)
    /\ UNCHANGED <<platform, boot, urls, topics, led, raced>>

\* A message that cJSON_Parse finds no memory for is lost, whatever it asks.
LoseMessage ==
    /\ "message" \in MayFail
    /\ Answers(Dropped, NoLed)
    /\ UNCHANGED <<platform, boot, urls, topics, led, raced>>

Json == Query \/ LoseMessage \/ \E m \in Commands : Command(m) \/ DropCommand(m)

Next == BootStep \/ Rest \/ Json

Spec == Init /\ [][Next]_vars

-----------------------------------------------------------------------------
Levels == 0 .. 2550

Channel == [on_off : BOOLEAN, level : Levels, init : BOOLEAN, out : BOOLEAN,
            duty : 0 .. PWM_MAX_DUTY, width : 0 .. PWM_MAX_DUTY, inverted : BOOLEAN]

\* Every variable keeps its shape; a duty never exceeds what the driver accepts,
\* whatever number a request carries.
TypeOK ==
    /\ platform \in Platforms
    /\ boot \in [at : {"urls", "channel", "clear", "topic", "done"}, n : Nat]
    /\ urls \in Seq(PatternSet)
    /\ topics \subseteq {"LED_PWM"}
    /\ led \in [Leds -> Channel]
    /\ answer \in [code : Nat, led : Leds \cup {MAX_NUM_OF_LED_PWM_SW, NoLed}]
    /\ raced \subseteq Leds

\* The status of LED l was cleared by the init thread.
Cleared(l) == \/ boot.at \in {"topic", "done"}
              \/ boot.at \in {"channel", "clear"} /\ l < boot.n

\* Once a LED is set up its PWM output is on exactly when its status says so, at the
\* level the status shows unless that is one the driver refuses; only a request
\* served between PWM_Channel_Init and the memset of LED_PWM_Init may break it.
OutputFollowsStatus ==
    platform = "TM4C1294" =>
        \A l \in Leds \ raced :
            Cleared(l) => /\ led[l].out = led[l].on_off
                          /\ led[l].level <= PWM_MAX_DUTY => led[l].duty = led[l].level

\* The registers agree with what the driver remembers: a channel that is off has no
\* pulse and normal polarity, and the polarity is turned only at full duty, however
\* the channel got there (PWM_Turn_On, PWM_Turn_Off and PWM_Set_Duty of TM4C1294).
RegistersFollowDuty ==
    \A l \in Leds : /\ led[l].width = (IF led[l].out THEN led[l].duty ELSE 0)
                    /\ led[l].inverted <=> led[l].out /\ led[l].duty = PWM_MAX_DUTY

\* A client that heard nothing may ask again: sent twice, a POST leaves its LED as it
\* left it the first time, whatever has happened to the LED before.  The LED is switched
\* before HTTPd_Send_CGI_JSON_Response finds out that it cannot render the answer.
RetryIsHarmless ==
    \A url \in Urls, body \in Bodies :
        Served(url, "POST") /\ Verdict(url, body) = 201 =>
            LET once == Commanded(url, body, led[LedIndex(url)])
            IN Commanded(url, body, once) = once

\* Whatever is requested and when, the outputs are the lamps of Dimmer.
Lamp == INSTANCE Dimmer WITH Lamps <- Leds, MaxLevel <- PWM_MAX_DUTY,
                             on <- [l \in Leds |-> led[l].out],
                             level <- [l \in Leds |-> led[l].duty]

ImplementsDimmer == Lamp!Spec

\* A request whose URL ends in the number of a LED changes no other LED; the URLs
\* registered for one LED are "/LED_PWM/*", "/LED_PWM/Level/*" and "/LED_PWM/On_Off/*".
OnlyTheNamedLed ==
    [][answer'.code \in {201, Unsent} /\ answer'.led \in Leds =>
           \A l \in Leds \ {answer'.led} : led'[l] = led[l]]_vars

\* A LED that was switched on after its channel was set up shines: the comment of
\* PWM_Turn_On says that the timer is initialised by then.
SwitchedOnShines ==
    \A l \in Leds : Cleared(l) /\ led[l].init /\ led[l].on_off => led[l].out
=============================================================================
