# TLA+ models of the W-Link NeonRTOS PWM firmware

The firmware turns a microcontroller with Ethernet (STM32 or TM4C1294) into a
web-controlled LED dimmer. A FreeRTOS kernel, wrapped by `NeonRTOS.c`, runs an
lwIP network stack, an HTTP and WebSocket server, an application interface of
JSON topics and CGI handlers, and the LED application on top of a driver layer.
This directory holds models of the parts whose correctness depends on the order
of steps of several tasks, the TLC runs that check them and the proofs that
TLAPS checks. Paths below are relative to the repository; `HTTPd.c` is
`src/NeonRTOS/HTTPd/HTTPd.c`.

## 1. Inventory

| Part | State it keeps | Operations | Interacts with |
|---|---|---|---|
| HTTP and WebSocket server (`HTTPd.c`) | the pool `HTTPd_WebSocketd_Client_List` of 20 connection structures, each with its socket, timer, flags, request and body buffer; the loop's locals | one task that accepts, gives slots, sweeps the pool, reads headers, bodies and frames, dispatches, destroys | timers (commands and callback), lwIP sockets, CGI handlers, file system |
| Connection timeout callback (`HTTPd.c:208`) | none of its own | runs in the timer daemon; tests a slot and flags the connection, or deletes the timer | shares the pool with the server without a lock |
| Software timers (`NeonRTOS.c:436-558`, `kernel/timers.c`) | timer objects, a queue of 10 commands | create, start, restart, stop, change period, delete: all but create only post a command | called by the server and from callbacks; executed by the daemon of lower priority |
| CGI registry (`HTTPd.c:684-764, 1300-1360`) | a linked list of URLs and handlers | register, unregister, match | filled by the init thread while the server already reads it |
| Application interface (`NeonAppInterface.c`) | list of JSON topics, network CGIs, start-up thread | register topics, dispatch WebSocket messages, configure the network | server, TCP/IP, LED application |
| LED application (`src/APP`) | level and switch of each LED (`All_LED_Status`) | start-up, five REST handlers, three JSON commands and a query, reports to every page | PWM driver, CGI registry, application interface |
| PWM driver (`PWM_TM4C1294.c`, `PWM_STM32.c`) | per channel: set up, on or off, duty; compare and polarity registers | set up, on, off, set duty | LED application; on STM32 the timer driver |
| LED page (`html/index.html`, `html/js/LED_PWM.js`) | its picture of the LEDs | ask when connected, operate a LED, draw what is reported, connect again | WebSocket messages of the server |
| TCP/IP and DHCP (`NeonTCPIP.c`) | DHCP state, addresses, link and interface flags, the client of lwIP | polling of packets, link and timers; DHCP state machine; link callback; setters; DNS | lwIP, application interface (from the HTTP task) |
| NeonRTOS wrappers (`NeonRTOS.c`) | none beyond the kernel's objects | sync objects, semaphores, locks, message queues, tasks, memory, each with an ISR variant | everything |
| Web file system (`NeonRtFs.c`) | read cursors over an image in flash | open, read (decompressing), close | server |
| Drivers (UART, I2C, SPI, CAN, DMA, timers, GPIO, ADC, DAC, RTC, Ethernet) | init flags, queues filled by interrupts, channel tables | init, deinit, transfer with timeout, interrupt handlers | hardware, kernel queues |
| Vendored | - | FreeRTOS, lwIP, cJSON, heatshrink, SHA-1, vendor HALs, the web pages and their image | - |

What is hard in this system:

* **Two tasks, one pool, no lock.** The server has priority 3 and the timer
  daemon priority 2 (`HTTPd.c:49`, `FreeRTOSConfig.h:78`). The server is never
  interrupted by the daemon, but the callback can be interrupted by the server
  between its test of a slot and its write.
* **Asynchronous timer commands.** A call that stops or deletes a timer only
  posts a command; the daemon executes it later, or never, when the queue of 10
  is full. Nobody looks at the result.
* **One task serves everybody.** The header loop, the body loop and the wait for
  a free slot block the whole server on one client; only timeouts end them.
* **Many early exits.** The sweep has a dozen `continue`s, each of which has to
  free what was allocated and leave the timer in the right state.
* **Three threads in the network configuration.** The network CGIs change
  addresses and stop DHCP in the HTTP task, which may interrupt the TCP/IP task
  anywhere inside lwIP; the thread that runs `NeonTCPIP_init` polls once itself,
  at the same priority as the TCP/IP task it has just created.
* **Requests during the start-up.** The server is started before the init thread
  registers URLs, sets up the PWM channels and clears the state of the LEDs, one
  call after the other, with a lower priority than the task that serves requests.
* **One state, four copies.** A LED's level stands in the status of the
  application, in the driver's arrays, in the registers and on every open page.
  Each copy is updated by a call or a message of its own, and each call may refuse.

The properties that make the server correct: each open socket has exactly one
owner; buffers are freed on every path; the timer of a live connection is not
deleted and the timer of a dead one is; a connection the server waits for has a
timeout under way; the CGI handler of a request runs once; a client gets
WebSocket frames only after the handshake; every connection ends. Those of the
network configuration: a client that a setter stopped stays stopped, and the
addresses a user sets stay; the DHCP client is started only when it can be, and
stopped when the state machine says so; waiting for an address ends. Those of
the LEDs: the output does what the status says, and the registers what the
driver remembers, whatever was refused on the way; a request that was answered
by nothing may be repeated; what the pages show is the state of the LEDs once
nothing is under way.

## 2. Modules

| Module | Contents |
|---|---|
| `NeonTimer` | timers, the command queue, `Post` (what a wrapper does) and `ProcessCommand` (what the daemon does with the oldest command) |
| `HTTPdServer` | extends `NeonTimer`: the pool, the server task, the timeout callback, the remote clients, and the properties |
| `ConnLifecycle` | the abstract specification: a connection is accepted, waits alone, is served at a place of its own, is closed |
| `MCHTTPd` | requests and client scripts for TLC |
| `NeonTimer_proofs` | lemmas about posting and executing commands, and about what the queue is going to do to a timer |
| `HTTPdServer_proofs` | type correctness |
| `ConnOwnership_proofs` | ownership of sockets and slots, the refinement of `ConnLifecycle`, and that a full pool stays full while a client waits |
| `RequestSafety_proofs` | buffers, the CGI handler of a request, frames after the handshake |
| `TimerSafety_proofs` | the timer of a live connection is not deleted, that of a closed one is given back, that of a client the server waits for is armed, and a timeout hits its own connection while that lives |
| `NetConfig` | the DHCP state machine, lwIP's DHCP client, the link callback, the address setters and the end of `NeonTCPIP_init`, and their properties |
| `NetConfig_proofs` | type correctness of `NetConfig`, that addresses a user sets are kept, and that state machine, client and link agree after an undisturbed start-up |
| `Dimmer` | the abstract specification of the LEDs: lamps that are switched, and get a new level only while they shine |
| `LedControl` | the PWM driver of both platforms, the LED state above it, the REST handlers, the JSON commands, the start-up, and their properties |
| `LedPages` | extends `LedControl`: the pages, the messages in both directions, lost connections |
| `MCLed`, `MCPages` | levels, views and symmetry for TLC |
| `LedControl_proofs` | types, outputs, registers and repeated requests of `LedControl`, and the refinement of `Dimmer` |
| `LedPages_proofs` | the pages agree with the firmware |

### State and code

* A **connection** `c` stands for the TCP connection, the descriptor, the heap
  structure and the timer, which are made once per accepted connection. `pool`
  is the array, `con[c]` the structure (`flag` is `connection_destruct_flag`,
  `ws` and `auth` are `websocket_client` and `websocket_auth`, `cgi` whether a
  handler is set, `len` and `buf` are `data_len` and `data_buff`), `tid[c]` the
  timer's ID.
* `pc` names the **blocking call** the server is at; between two of them the
  server cannot be preempted by the daemon, so the code between them is one
  step. `cur` is the loop variable `i` (and `client_index`), `acc` the accepted
  descriptor that has no slot, `cmdbuf` whether `http_cmd_buf` is allocated.
* `dpc`, `dt`, `dptr` are the **daemon**: it processes a command
  (`DaemonCommand`) or lets an active timer expire (`TimeoutCB_Begin`), whose
  callback then reads the slot (`TimeoutCB_Check`) and writes the flag
  (`TimeoutCB_Write`) in separate steps. The pool is not `volatile`, so the
  write uses either the pointer that was tested or a new load.
* `script`, `rx`, `pend` are the **clients and lwIP**: what a client will send,
  what has arrived, and a reset that no socket call has reported. `recv` takes
  the next thing from `rx`; a reset is reported either by `recv` or by
  `SO_ERROR`, which is why the wait branches clear `pend`.
* A frame is served in two steps: `WsMessage` posts the stop of the timer,
  `WsServe` sends, which may block, and then posts the restart.
* `fault` stops the model at the first undefined or asserted-out effect (a
  command on a freed timer, a second free, a period of zero, a write through a
  dangling pointer). What happens after it is not modelled.
* `ran`, `leaked`, `greeted`, `told`, `lost` are history.

In `NetConfig`:

* `link` and `up` are the flags of `gnetif`, `DHCP_state` the firmware's state,
  `addr` the three addresses. `dhcp` is lwIP's `struct dhcp`: its state (`none`
  while the interface has no client), `tries`, whether a lease time runs, the
  offered address and the state of the conflict detection (`acd.c`).
* `pc[p]` is where a poller (the TCP/IP task or the init thread) is inside
  `NeonTCPIP_ETH_Poll`: the stages packet, link down, link up, timers, DHCP, and
  inside them the places where an interruption makes a difference (between a
  test and what follows it, and between the last two writes of `dhcp_bind`). A
  call into lwIP is otherwise one step, as are the three writes that clear the
  addresses. A setter is one step: nothing modelled interrupts the HTTP task.
* `tick` is chosen at the start: if it is true, the task may run while
  `NeonTCPIP_init` has not ended; otherwise it does not get to run before. Setters come only afterwards, since the server is
  started later.
* `fixed` is history: the addresses of the last setter, and the *window* in which
  it interrupted the task. At a place of `Restarts` the task is about to start
  DHCP, or to call the callback that binds, and does so whatever the setter did;
  at a place of `Binds` it is about to write the addresses of a lease; anywhere
  else it is `calm`. `StaticConfigKept` promises everything in a calm window, that
  the client stays stopped and the address becomes no other than 0.0.0.0 in a
  bind, and nothing in a restart, where the code does undo the setter. Each of
  the eight places is needed: without any one of them TLC finds the property
  violated. `fixed` is cleared when the link comes up, since the link callback
  starts DHCP anew.
* `AcdCallback` binds also a client that a setter has stopped since `acd_tmr`
  decided to call it: the assertion in `dhcp_conflict_callback` is not compiled
  (`LWIP_NOASSERT`, `include/lwipopts.h:35`). This is the run `net_acd_race`.

In `LedControl`:

* `led[l]` is everything the firmware keeps about LED `l`: its entry of
  `All_LED_Status` (`on_off`, `level`), the driver's `PWM_Channel_Init_Status`,
  `_OnOff_Status` and `_Current_Duty` (`init`, `out`, `duty`), and the compare
  and polarity registers (`width`, `inverted`). The driver's functions are
  operators from a channel to a channel, and the handlers are composed of them.
* `boot` is where the init thread is in `Neon_APP_Device_Init` and what it calls;
  `urls` and `topics` are the two registration lists. A request is one step: the
  HTTP task has the higher priority, and no handler waits in between.
* `platform` is the driver that is compiled in. On STM32 every call after the
  set-up tests `Timer_Init_Status`, which nothing in the firmware sets.
* `answer` is what the last step answered and the LED its request named. Every
  answer may fail to be sent for want of memory (`Responds`, with the code
  `Unsent`), also that of a POST, whose LED is switched by then. A POST or PUT
  without a body is not dispatched, and the handler of a POST runs where its
  refusal to know a LED is only logged: both are `Ignored`. A WebSocket message
  that cannot be parsed for want of memory is lost (`LoseMessage`).
* `raced` is history: LEDs a request reached between `PWM_Channel_Init` and the
  `memset` of `LED_PWM_Init`, whose status is then cleared while the output stays on.
  `OutputFollowsStatus` leaves them out; this hole is real, and found by TLC.

In `LedPages`:

* `page[p]` is whether the WebSocket is open, whether the page has drawn its list
  (until then reports are ignored) and the picture it shows; `up[p]` and
  `down[p]` are the messages under way. A lost connection loses both queues and
  keeps the picture; the page asks for the state when it is connected again.
* A page changes its own picture before it sends the command.
* `unreported` is history: LEDs that changed, or whose command was dropped,
  without a report since. The code has no report for a change by REST, or when
  it cannot allocate one.

Every action names the code it stands for in its comment; the map of definitions
to lines is in `PROJECT.json`. Definitions commented as *Variant* are faulty
versions of the definition below them, used to see that a property can fail.

Abstractions: a header, a body, a frame header and a payload arrive whole, or
not at all (`long` and stray tokens stand for bytes that do not parse); an
`Upgrade` header is valid or counts as absent; a request line whose URL does not
parse counts as a valid one; replies and files are not modelled, only whether a
handler ran; allocation failures are a nondeterministic choice under
`ResourcesMayFail`; time is abstracted to "an active timer may expire". In
`NetConfig` a configured address, 0.0.0.0 and the leased values are three kinds
of values; `tries` saturates at the constant `TRIES_CAP`, for the 255 of the code,
of which nothing is assumed but that it is above the three limits; a handler of lwIP is
one step, apart from what it does before and after the write of an address in
`dhcp_bind` and before the callback in `acd_tmr`; the conflicts after which the
detection is rate limited are not counted; allocations of lwIP succeed. In
`LedControl` a URL is the pattern it fits and what stands in the place of the
star; a body is its form and the types of its two fields; what may fail for want
of memory is the constant `MayFail`. Three details are left out: in `HTTPdServer` a
body that arrives in parts, with the offset of the next part; in `NeonTimer` that
the daemon, when it executes a `Start` whose period is already over, calls the
callback while it drains the queue, instead of after it; in `LedPages` that the
payload of a frame for which there is no memory stays in the stream and is read as
the next frame (`WsNoMemory` of `HTTPdServer` has that; here the message is lost,
and no more).

## 3. Runs

| Run | Instance | Checks | Result |
|---|---|---|---|
| `http` | 2 clients, 2 slots, queue of 3, 5 scripts | `TypeOK`, `SocketOwnership`, `BuffersOwned`, `LiveTimerKept`, `TimersReclaimed`, `WatchoutArmed`, `FrameOnlyAfterHandshake`, `ImplementsLifecycle`, `TimeoutFlagsLiveConnection` | holds, 4.1 million states |
| `sessions` | 2 clients, 1 slot, every method with, without and with an empty body, every frame kind, broken requests and frames, failing allocations | `CgiExactlyOnce`, `BuffersOwned`, `WatchoutArmed` | holds, 5.7 million states |
| `live` | 2 clients, 2 slots, queue that cannot overflow, fairness | `EveryConnectionEnds` | holds, 104 thousand states |
| `body_stall` | 1 client that may not send the announced body | `EveryConnectionEnds` | violated |
| `pool_full` | 2 WebSocket clients, 1 slot | `WaitingClientGetsSlot` | violated |
| `stale_timeout` | 2 clients, 1 slot | `TimeoutHitsOwnConnection` | violated |
| `net_config` | 1 address, every reply, changing link, with and without a tick in the start-up, fairness | `TypeOK`, `StaticConfigKept`, `NullSafe`, `StartedOnlyUp`, `TimeoutMeansStopped`, `WaitEnds` | holds, 779 thousand states |
| `net_acd_race` | 1 address, a server that offers and acknowledges | `StoppedIsNotBound` | violated |
| `led` | 2 LEDs, both drivers, every allocation may fail, every request and command at any time of the start-up | `TypeOK`, `OutputFollowsStatus`, `RegistersFollowDuty`, `RetryIsHarmless`, `ImplementsDimmer` | holds, 75 thousand states |
| `pages` | 2 pages, 1 LED, queues of 2, 3 clicks or lost connections, a REST client, lost messages and reports | `PagesAgree`, `LastReportIsPresent` | holds, 873 thousand states |
| `led_url` | 2 LEDs, TM4C1294 | `OnlyTheNamedLed` | violated |
| `led_output` | 2 LEDs, STM32 | `SwitchedOnShines` | violated |

**Bounds.** Two clients and two slots (or one) are enough for every conflict in
the code: a slot that is reused, a pool that is full, a sweep that goes over
another connection, a broadcast. The properties speak of one connection, or of
two. A queue of 3 makes refused commands common; 18 is more than two connections
can post, so the queue never overflows in `live`; 10 is the firmware's value.
`MaxBody` is 1, with lengths 0, 1 and 2: none, buffered, too large. Scripts are
finite, which bounds the behaviours; no counter needs a cap. `net_config`
uses limits of 6, 4 and 2 tries for the 10, 5 and 2 of the code: they keep their
order, and a client is still given up only while it sends discoveries; the
counter saturates at 7 instead of 255, and no test of the modelled code tells a
larger number apart. With one address a setter of a single field still leaves a
mixture of the user's, a leased and a zero value; `StaticKept` is for any number.

In `led` two LEDs show that a handler may reach another LED than the one it is
meant for; nothing else relates LEDs. A JSON level is 100 (full duty) or 101
(too large), a REST level 100 or 150, which the handler multiplies to a duty the
driver refuses; the other way to a small duty is the handler that takes the level
as a `bool`. In `pages` a queue of two lets a report overtake
a command and two reports lie behind one another; three moves (`MaxMoves`) are
enough for two pages to click and one to lose its connection between the two;
one LED is enough, since a report carries the state of all. The two views leave
out `answer`, which no step reads.

**The violations** are disagreements of the code with what it says of itself:

* `stale_timeout`: the callback is interrupted before its test of the slot; the
  server destroys the connection and gives the slot to a new client, which is
  then timed out in the place of the old one. What remains true is
  `TimeoutFlagsLiveConnection`: as long as its own connection lives, a timeout
  flags that one and no other.
* `pool_full`: "too many clients wait..." waits for a slot that only the waiting
  task can free; by `FullPoolIsFinal` the wait never ends, at any capacity.
* `body_stall`: the timer is stopped when the header is complete; without
  keep-alive nothing starts it while the body is awaited.
* `net_acd_race`: `dhcp_release_and_stop` removes the conflict detection "because we
  may be in checking state and the callback would trigger a bind"; a setter that
  interrupts `acd_tmr` between its decision to call the callback and the call
  removes it too late. The client that was stopped becomes bound, with 0.0.0.0
  written over the address of the user, and its lease timers run.
* `led_url`: the handlers of `/LED_PWM/On_Off/*` and `/LED_PWM/Level/*` parse what
  follows `/LED_PWM/` as a number; it is none, which counts as 0, so that every
  such request operates LED 0.
* `led_output`: the driver of STM32 expects that the timer has been initialised
  when a channel is turned on, but nothing does it, and `PWM_Channel_Init`
  refuses a timer that is: a LED that is switched on never shines (`DarkOnSTM32`
  proves it for any number of LEDs).

More steps of the code stand in the models and are the reason why a property
says no more than it does:

* A `Keep-Alive` of zero reaches the daemon's assertion about periods (`FaultOf`).
* The same interruption of the callback, with the slot left empty, makes it post
  the delete of a timer a second time: `vPortFree` of `heap_4.c` would assert. A
  timer that expires while its delete is still in the queue has a stop posted
  behind that, which the daemon executes on the freed timer. The model stops at
  either (`fault`).
* A request that is dropped because its body cannot be buffered leaves the
  announced length in the connection (`HdrRequest`): the next header makes the
  server wait for a body again, with the timer stopped, also one that announces
  none. `WatchoutArmed` is about clients of which nothing was read
  (`NoRequestYet`); the proof of an earlier form, which looked at the method only,
  failed on this case.
* A link that comes up starts DHCP also after a user has switched it off
  (`StaticConfigKept` ends there).
* A setter that interrupts the task between its test of `DHCP_START` and
  `dhcp_start`, or in a bind, loses its addresses (the windows of `fixed`).
* The number of tries that "Maximum number of retries for DHCP request" is
  compared with is reset by lwIP whenever the client changes its state, so a
  server that offers and never acknowledges is asked for ever. `WaitEnds` is
  checked with every reply and says that this is the only way to wait for ever:
  either offers are accepted again and again, or the wait ends.
* A tick in `NeonTCPIP_init`, inside the link callback of one of the two polls and
  before its `netif_set_up`, lets the other poll call `dhcp_start` in vain
  (`NullSafe`, `StartedOnlyUp`, `TimeoutMeansStopped` and `WaitEnds` are about
  behaviours without `tick`).
* With the firmware's queue of 10 commands, a burst of requests can make the
  queue refuse a `Start` or `ChangePeriod`, after which the connection never
  times out; `EveryConnectionEnds` is therefore checked with a queue that is
  long enough, and `WatchoutArmed` says what a refused command excuses.
* A LED changed by REST is reported to nobody, and a request between the two
  steps of a LED's set-up leaves it shining with the status off (`unreported`
  and `raced`).
* A POST may switch a LED and be answered by nothing, when there is no memory to
  render or send the answer. `RetryIsHarmless` says that the client may repeat it;
  the JSON command "toggle" is not like that.

**Fairness** (`FairSpec`). The server takes its steps: it has the highest
priority of the tasks modelled and its waits are timed (weak fairness). The
daemon has a lower priority, so its steps are only guaranteed while the server
sleeps (`Asleep`), which it does again and again: strong fairness of the pending
work and of the expiry of an active timer conjoined with `Asleep`. Clients owe
nothing: they may stop sending at any point.

In `NetConfig` both pollers run again and again, since the HTTP task and the
daemon sleep (weak fairness of `Poll`). Within a poll a stage may find nothing
due, but the request timer and that of the conflict detection are periodic, and so
is the DHCP stage with its 500 ms: each of the two groups has strong fairness as a
whole, which is less than the code grants each of its members. The servers, the
setters and the link owe nothing.

## 4. Proofs

The theorems about the server hold for every set of connections, pool size,
queue length, body limit and set of scripts. The assumptions are those of the modules: `NULL` is no
connection, the sizes are positive numbers, scripts are sequences of tokens.

| Theorem | States | Inductive invariant |
|---|---|---|
| `TypeCorrect` | `Spec => []TypeOK` | `TInv`: `TypeOK` and `PointersSet` |
| `OwnershipCorrect` | `Spec => []SocketOwnership` | `OwnInv`: `TInv`, `SocketOwnership` and `TimerIds` |
| `LifecycleRefined` | `Spec => ImplementsLifecycle` | `OwnInv` |
| `LiveTimersKept` | `Spec => []LiveTimerKept` | `LInv`: `OwnInv` and `TimerInv` |
| `TimersAlwaysReclaimed` | `Spec => []TimersReclaimed` | `TimersReclaimed` and `LInv` |
| `BuffersAlwaysOwned` | `Spec => []BuffersOwned` | `BuffersOwned` and `TInv` |
| `FramesFollowHandshake` | `Spec => []FrameOnlyAfterHandshake` | `GreetedFirst`: what may be sent frames was greeted |
| `WatchoutAlwaysArmed` | `Spec => []WatchoutArmed` | `WatchInv`: `LInv`, `HandshakeOrder`, `CallbackPointer`, `TrustedArmed` |
| `TimeoutsFlagTheirOwn` | `Spec => TimeoutFlagsLiveConnection` | `LInv` and `CallbackPointer` |
| `FullPoolIsFinal` | a full pool with a client waiting stays full, and the server waits for ever | `TInv` |
| `CgiRunsOnce` | `Spec => CgiExactlyOnce` | `CgiInv`: `HandlerSet`, nothing has run before the dispatch, `Counted` |
| `NetTypeCorrect` | `NetConfig`: `Spec => []TypeOK` | `NInv`: `TypeOK`, `OffMeansSilent`, `TaskPolls`, `StaticConfigKept`, `FixedIsCalm` |
| `StaticKept` | `NetConfig`: `Spec => []StaticConfigKept` | `NInv` |
| `ClientExists`, `StartsUp`, `GivenUpIsStopped` | `NetConfig`: `Spec => []NullSafe`, `[]StartedOnlyUp`, `[]TimeoutMeansStopped` | `SInv`: `NInv` and, without a tick in the start-up, `Undisturbed` |
| `LedTypeCorrect`, `OutputsFollow`, `RegistersFollow` | `LedControl`: `Spec => []TypeOK`, `[]OutputFollowsStatus`, `[]RegistersFollowDuty` | `LInv` of `LedControl_proofs`: types, `BootShape`, every channel is `Good`, what is set up `Follows` |
| `RetryKeeps` | `Spec => []RetryIsHarmless` | `LInv` |
| `DimmerImplemented` | `Spec => ImplementsDimmer` | `LInv` |
| `DarkOnSTM32` | on STM32 no channel is ever on or has a duty | `LInv` |
| `ReportsArePresent`, `PagesAlwaysAgree` | `LedPages`: `SpecPages => []LastReportIsPresent`, `[]PagesAgree` | `PInv`: `LInv`, `PagesTyped`, `LastReportIsPresent`, `Current` |

* `TypeOK` alone is not inductive: that `con[pool[cur]]`, `con[acc]` and
  `tid[dt]` apply functions to elements of their domains needs `PointersSet`,
  which says where the server and the callback rely on a pointer being set.
* `LiveTimerKept` needs the other two. The callback posts a delete only if the
  slot that the timer's ID names is empty; that this slot is the one of the
  timer's own connection, so that a live connection's timer is spared, is
  `TimerIds`. That no command meant for a connection without a timer is in the
  queue when its timer is created, and that the queue holds no delete for a
  connection of the pool, are `FreshHasNoTimer` and `QueueGood`; that a callback
  under way is of a timer that exists is `CallbackTimerMade`.
* `WatchoutArmed` says that the timer runs, that the last command in the queue
  starts it, that its callback is running, or that the full queue refused a start:
  four things that each step may trade for one another (`CertainKept`,
  `CertainStarts`, and the lemmas on `Enqueue` and `Tail` in `NeonTimer_proofs`).
  It excludes the steps that serve a request, in which the timer is
  stopped, so by itself it says nothing when they end. `TrustedArmed` goes through
  them: a WebSocket client whose handshake is being answered (`Upgrading`) is
  armed too, since the change of period that its header posted is behind the stop
  of the same header. That no other request leaves the server waiting without an
  end is `HandshakeOrder` (only an upgrade is answered with `MORE`, headers are
  read only from connections that are no WebSocket yet, a body is read only when
  it has a length). When a callback ends, its connection has to be flagged, since
  nothing else speaks for it then: this is `CallbackPointer`, with which
  `TimerIds` also gives `TimeoutFlagsLiveConnection`.
* `CgiExactlyOnce` is about the one step that ends a request. That the dispatch and
  the fallback add up is `Counted`: at the fallback, the runs so far and the one
  still to come are what the request needs. It rests on a handler never being
  found set by a request that did not set it; the fallback of a POST does leave
  one set, but on a connection that is flagged and not served again (`HandlerSet`).
* `StaticKept` holds for every set of addresses, limits of tries, set of replies,
  with or without a tick in the start-up, and names the windows in which less is
  promised. `StaticConfigKept` is not inductive: a lease timer or a conflict
  detection that survives the stop of the client could set an address
  (`OffMeansSilent` excludes it), and so could a poller that is past its test of
  the state when the setter comes (`FixedIsCalm`: unless the setter fell into a
  restart, the init thread has ended, the task is at a calm place or still in the
  bind that was interrupted, and the state is one that no stage acts on except by
  stopping the client). `TaskPolls` says where the task can be.
* `NullSafe`, `StartedOnlyUp` and `TimeoutMeansStopped` speak of a start-up into
  which no tick falls; then the pollers run one after the other (`Sequential`).
  Their strengthening says that what a poller has found is still true when it
  acts on it (`InHand`: the link it tested, the client it is about to stop) and
  that the interface follows the link except inside the link callback
  (`UpFollowsLink`). Setters still come in at every place: they switch the state
  machine off and never remove the client.
* The LED theorems hold for any number of LEDs and all numbers in a request.
  `OutputFollowsStatus` speaks only of LEDs that are set up, so it says nothing
  that a set-up could start from: that a channel the driver has never been able to
  move is off and has duty 0, whatever requests came before, is the last conjunct
  of `Good`; that a LED between its two steps is initialised and at rest unless a
  request reached it (`raced`) is `Staged`. That the requests preserve `Good` and
  `Follows` is proved function by function, along the calls of the driver
  (`ShineFields`, `SwitchOperates`, `LevelOperates`, `PostOperates`).
* `RetryIsHarmless` compares one execution of a handler with two in a row, on a LED
  as it stands. The proof computes the status, the level and the duty after each
  (`SwitchFields`, `LevelFields`); that the registers then agree as well is not
  computed but follows from `Good`, which says that they are a function of the
  rest (`SameChannel`).
* `PagesAgree` speaks of pages for which nothing is under way and is not
  inductive: a page that reads its last report must come to agree
  (`LastReportIsPresent`), and one that has read everything while its command is
  still on the way up may differ, but only for LEDs whose state the answer will
  bring (`Current`, with `Awaits`). The theorems hold for any number of pages,
  queue lengths and moves.
* Each proof has one case per action. The effects of posting one or two
  commands, of reading a token and of setting a flag are lemmas, and steps that
  leave what the invariant speaks of unchanged share one lemma.

Only model-checked: liveness (`EveryConnectionEnds`, `WaitEnds`), since fairness
is out of the prover's reach. Every invariant and every action property of the
passing runs is a theorem.

## 5. Plan

1. `HTTPdServer` and `NeonTimer`: done, with the proofs of section 4.
2. The LEDs, their driver, the registration lists and the pages: done
   (`LedControl`, `LedPages`), with the proofs of section 4.
3. Network configuration: done (`NetConfig`), with the proofs of section 4;
   next failing allocations of lwIP.
4. NeonRTOS message queues and sync objects; the UART, I2C, SPI and CAN drivers,
   which all follow one pattern (a task starts a transfer and waits with a
   timeout, an interrupt completes it), with one module for the pattern.
5. The web file system's cursors; the Ethernet descriptor rings.

## 6. Not modelled

TLS (not compiled), OTA update pages (not compiled), the text of replies and
pages, SHA-1 and Base64 of the handshake, the formatting helpers, the vendored
kernel except its timer daemon, unregistering of URLs and topics (nothing calls
it), the parts of the PWM driver and the LED application that nothing calls
(`PWM_Step_Duty`, `PWM_Turn_On_And_Set_Duty`, `PWM_Channel_DeInit`, getters, bit
maps), what lies behind the test of the timer in the STM32 driver (it is never
reached), answers that are built only in part, DNS, the functions of `NeonTCPIP.c` that nothing
calls, lwIP except its DHCP client and what `recv`, `accept` and
`setsockopt` tell their caller, and the parts listed in section 5.
