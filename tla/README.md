# Verification of the vehicle firmware

TLA+ models of the vehicle controller in this repository (an ATSAMV71 board that
drives four motors on commands from Bluetooth and UDP, and an STM32MP257 M33 core
that takes commands over RPMsg), the TLC runs that check them and the theorems
TLAPS proves about them. Paths are relative to the repository; `vcm.c` is short
for `apps/vehicle_control_manager/vehicle_control_manager.c`.

## The system

```
 HC-05 --UART irq--> bluetooth_rx queue --thread--> parser --+
                                                             v
 UDP datagrams --udp4/udp6 threads--> ipc msg processor --> control manager
   TCP clients --tcp4/tcp6 threads--> handlers (echo)        |  one unprotected struct
        network events, quit --> echo_server (main)   motor thread (20 ms) --+
                                                             |
 Linux --mailbox irq--> RPMsg threads (M33 board)     motor driver --> PWM + two pins per motor
```

| Component | State | Operations | What is hard | Correct when |
|---|---|---|---|---|
| Control manager (`vcm.c`) | active command, its limit and stamp, flags, target and output per side | `init`, `handle_command`, `update`, `clear_emergency_stop` | 32-bit clock, order of commands, ramps | output within the safe limit, latch holds, only fresh commands drive, ramps pass zero |
| Motor thread (`vcm.c:596-650`) | last applied output | update, apply, sleep 20 ms | no lock against the submitters, failed driver calls | an emergency stop takes effect in bounded time, failures are retried |
| Motor driver (`drivers/motor_driver`) | pins and duty in hardware, its belief `current_pct` | `init`, `set_left_right`, `stop_all` | any GPIO/PWM call may fail half way | no pin switches under power, dead time before a reversal, belief = hardware |
| Bluetooth receiver (`apps/bluetooth_rx`) | byte queue, rolling buffer | interrupt handler, worker | bytes dropped, no delimiters | words executed once, none invented |
| Parser, wire processor (`apps/vehicle_command_parser`) | none | parse, check and convert, acknowledge | order of checks, truthful acknowledgement | only valid commands reach the manager |
| UDP service (`apps/net/udp.c`) | a socket and a thread per address family | receive, process, reply; ends on a socket error | loss, delay, duplication, death of the service | a silent operator means a resting vehicle |
| Echo server lifecycle (`apps/net/echo-server.c`) | two semaphores, `connected`, `want_to_quit` | start, stop, network events, quit | events around start and quit | starts once connected, stops all or nothing |
| TCP echo (`apps/net/tcp.c`) | handler slots, buffers, sockets | accept, echo, stop | slots and descriptors reused, end of stream | every client gets its own bytes, no descriptor leaks or has two owners |
| RPMsg (`apps/stm32mp257_m33`) | one message slot per endpoint, semaphores, held buffers | interrupt, callbacks, three threads | overwritten slots, merged notifications, one transmit buffer | answers in order and never twice, every buffer accounted for |
| Start-up (`src/*_main.c`) | none | a sequence of calls | a failed driver init is ignored | |

The components and the hazards with their source lines are listed in
`PROJECT.json`.

## Modules

| Module | Models |
|---|---|
| `VehicleArith` | the pure functions of `vcm.c`: clamps, ramp, differential mixer |
| `SafeVehicle` | abstract: what the manager promises. Idle, driving or stopped; only a permit starts motion, lapses only slow down, ramps are bounded and pass zero |
| `VehicleControlManager` | every function of the manager as one atomic action, with the 32-bit clock; `ImplementsSafeVehicle` is the refinement |
| `VehicleThreads` | extends it: the same functions access by access, in the motor thread and the submitting threads, under Zephyr's scheduler, with failing driver calls |
| `MotorDriver` | the driver's calls as lists of hardware operations, performed one by one, each able to fail |
| `BluetoothRx` | bytes, queue, stream search, parser, commands submitted |
| `VehicleIpc` | extends the manager: datagrams, checks, acknowledgements and the life of the two service threads |
| `TcpEcho` | the descriptor table, the service threads of TCP and UDP, the handler threads, their slots and buffers, and the clients |
| `EchoServer` | extends it with `echo-server.c`: network events, the quit command, starting, waiting and stopping |
| `RpmsgIpc` | Linux, the interrupt, `rpmsg_mng_task` and its callbacks, the two answering threads, the buffers |
| `VehicleArithProofs`, `VehicleControlManagerProofs`, `VehicleThreadsProofs`, `MotorDriverProofs`, `BluetoothRxProofs`, `VehicleIpcProofs`, `EchoServerProofs`, `RpmsgIpcProofs` | lemmas and theorems |
| `MC*` | the finite instances for TLC |

State and names follow the code. The fields of `vehicle_control_manager_t` are
variables of the same name, with the left and right of a pair as a function on
`Side`. Each branch of the switch in `handle_command` is an action (`Motion`,
`Stop`, `EmergencyStop`, `SetSpeed`, `Ignored`) and so is each path of `update`
(`UpdateLatched`, `UpdateTimedOut`, `UpdateDriving`). `uptime` is the 64-bit
uptime and `NowMs` what `k_uptime_get_32` returns, modulo `TimeMod`; ages are
modular differences. `accepted_at`, `updated_at` and similar history variables
are never read by the modelled code.

In `VehicleThreads` an action is one access to the shared structure, and its
`pc` labels are the places where another thread may come in. Accesses share a step
only where no other thread can tell: under the latch an update zeroes both sides
while all that other threads write is zero as well, nobody reads the timeout
flag, and the fields that only the motor thread uses change with the clock it reads.
The copy of a command structure is cut into two parts, the linear axis and the rest. `Scheduled` is the
scheduler: a thread runs unless one that is ready outranks it; cooperative
threads (negative priority) are not interrupted, equals interrupt each other only
with time slicing. Where the C code leaves the order open (the copy of the
command structure, whether `update` returns re-read fields) the model takes every
order. `MotorDriver` and `VehicleThreads` meet in the outcome of a failed
`set_left_right`: `FailureIsPartial` is proved of the driver, and
`DriverFails` takes from it what a failing call may leave behind.

In `MotorDriver` a call comes to the motors one by one (`at`), and what it does to a
motor is a list of operations (`todo`), computed from the driver's belief when it
comes to that motor. That is exact because only the motor thread calls the driver,
and the belief changes only by the last operation of the list.

In `BluetoothRx` a word is sent byte by byte (`air`), queued by the interrupt handler
(`msgq`) and searched for in the rolling buffer. Letters stand for bytes, tokens are
sequences of them, and `Detected` compares the end of the buffer as the code does.
`asked` is the history of the tokens sent, `cut` whether a byte was lost since the
last of them began. `WordAssumption` is the remote control's side: it sends words of
the vocabulary, in either case, and "D", which the search has commented out
(`bluetooth_rx.c:159`); noise is bytes the filter rejects.

In `VehicleIpc` the network is a set of datagrams. Receiving one may leave it in
place (a duplicate), any of them may be received next (reordering), and one that
is older than `MaxDelay` is gone (loss). A socket error ends a service;
`StopServices` is what `quit()` leads to, whose details are in `EchoServer`.

The threads of `TcpEcho` are cooperative (`THREAD_PRIORITY` with the default
configuration), so an action runs from one wait (`accept`, `recv`, `send`) to
the next, and the three steps in which a handler ends (`tcp.c:202`) cannot be
seen half done: `close` does not wait. A new descriptor is the lowest that is
free, so that one just closed is used again at once. In `EchoServer` the network
event thread and the services go before the main thread (priority 0) and the
shell comes last: `ShellRuns` and the guards `events = <<>>` say so. Between
the steps of a stop any service that still runs may act, as aborting threads and
closing sockets lets them.

In `RpmsgIpc` the threads are cooperative and `rpmsg_mng_task` is the lowest of
them. It takes messages off the ring one at a time without being interrupted,
except where the acknowledgement of a command waits (up to 15 s) for a transmit
buffer. `k_sem_give` hands a semaphore over to a thread that waits, and counts to
at most one otherwise. `unlucky` is a history variable: the tty messages that
were empty or came before the last one was read.

## Runs

| Run | What it shows | Instance |
|---|---|---|
| `manager` | speed limit, emergency latch, dead-man rule, refinement of `SafeVehicle` (and with it no reversal without stopping); coming to rest, obeying a lowered limit, ramps that arrive and keep time, fresh commands not judged expired | nine commands of every type, one with a wrong version and one out of range; safe limit 3 %, clock to 80 ms in steps of 20 ms: several ramps and lapses |
| `manager_zombie` | **violated**: an expired command drives again after the counter wraps | `TimeMod` 60, clock to 120 |
| `driver` | pins at rest, dead time, belief, partial failures, truthful success | three motors (two of one side, one inverted): a failure before, at and after every motor, also of their initialisation |
| `threads` | safe limit, no reversal and no undeserved lapse under every interleaving | three threads with time slicing, three commands of five types |
| `threads_stop` | every motor off within a bounded time of an emergency stop, unless the driver's last call failed on leaving rest | a motion command, an emergency stop, one failing driver call |
| `threads_retry` | **violated**: a failed driver call is not always retried | one failing call |
| `threads_estop` | **violated**: an emergency stop is overwritten by a ramp in progress | UDP against the motor thread |
| `bluetooth` | words executed once and in order, none invented, recovery after loss | three of six words, queue of 3, buffer of 6, one garbage byte |
| `ipc` | driving only on recent intent, rest after silence | two services, three datagrams of four kinds (a motion, a stop, an emergency stop, one out of range), delay of 10 ms, clock to 80 ms |
| `ipc_ack` | **violated**: OK for a refused command | two of ten datagrams, one for each check that can fail |
| `echo` | one holder per descriptor, slots and handlers in step, echoes that are prefixes of what was sent, stops that are complete; every client served, a failed service ends the server, a network that stays starts it | one family, one handler, three descriptors, two clients of up to two bytes, a buffer of two, one failing call, two changes of the network, one quit |
| `rpmsg` | every buffer in one place and every loss explained, answers in order and never twice; every message answered | two receive buffers, one transmit buffer, four messages to three endpoints, tty messages that may be empty, a client that stops after three |

Every property has a mutant: an operator (its comment starts with "Mutant:") that
changes one mapped definition as a plausible bug would, and with which TLC
finds the property violated.

### Bounds

Speeds are scaled down (a safe limit of 2 or 3 % instead of 25, ramps of 1 or 2
% per update as on the board) so that a ramp still takes several updates; axes
and command fields have their real range. Times to live are 10 to 30 ms with
updates every 10 to 20 ms, so that a command outlives some updates and misses
others. `MaxUptime` bounds the clock, `MaxCommands`, `MaxFaults`,
`MaxDatagrams`, `MaxWords`, `MaxNoise`, `MaxBytes`, `MaxEvents`, `MaxQuits` and
`MaxMessages` the environment. Two commands are enough for every race on a
structure that keeps one command; the `threads` run allows a third one. Three
datagrams are what a late STOP needs to release an emergency stop before a
motion; the services of `ipc` are symmetric. Two changes of the network let the
link come, go and come again, so that a reset takes back a permission that was
given. The queue of `BluetoothRx` is shorter than its longest word and the
buffer is the smallest that holds it, so both limits are reached within one
word. Two bytes fill the echo buffer, with or without an end of the stream
behind them, and the two services with one connection use up the descriptors, so
that the next connection finds none (or one just closed). Four messages in two
buffers make notifications merge and let a message overtake the answer to the
last one. Two address families together are beyond TLC; the theorems about
`EchoServer` hold for any number of families, handlers, descriptors and clients.

Some runs switch deadlock checking off because the bounds end the run: in
`VehicleThreads` the motor thread sleeps until a time the bounded clock does not
reach, in `BluetoothRx` the remote control runs out of words, in `EchoServer`
the server ends and in `RpmsgIpc` Linux stops sending. The others check it.

### Fairness

- `VehicleControlManager!FairSpec`: weak fairness of `Update`. It is the motor
  thread's `while (1)` with `k_msleep(20)`, which nothing else can block, as the
  manager has no lock. Commands and time are not assumed to come.
- `EchoServer!FairSpec`: weak fairness of the event handler, of the main thread
  and of every handler thread. The cooperative threads give way at each wait and
  the main thread runs when all of them wait. Clients need not send, hang up or
  connect, the network need not change and nobody need quit.
- `RpmsgIpc!FairSpec`: weak fairness of the interrupt and of each thread. Linux
  need neither send nor read: a transmit buffer that is not given back ends the
  wait with an error after 15 s.

The bounded-time properties (`EStopStopsInTime`, `SilenceStops`) are safety
properties and rest instead on `Jitter` and `MaxUpdateGap`: how late the motor
thread may be.

## Findings

1. `manager_zombie`, `vcm.c:311`: an expired motion command stays active, and 49.7
   days later, when the unsigned difference of the clocks is small again, it
   drives for its time-to-live.
2. `threads_retry`, `vcm.c:623`: a failed driver call is retried only while the
   output still differs from the last one applied. If a call that leaves rest fails
   half way and an emergency stop follows, the driver is not called and a motor the
   failed call reached drives on while the stop is latched. `threads_stop` shows
   that every other failure is made good in time.
3. `threads_estop`, `vcm.c:541`: an emergency stop that arrives inside an update is
   overwritten for one cycle. `threads_stop` shows that the next update
   corrects it, within `ResponseTime`.
4. `ipc_ack`, `vcm.c:652`: the result of `handle_command` is dropped, so that the
   wire processor's `REJECTED` is never sent.

Behaviour the properties allow because nothing in the repository says otherwise,
and that a reader may want to know:

- A quit command that comes while `echo_server` waits for a network starts the
  services: any event ends the wait, a reset of `run_app` (`echo-server.c:111`)
  too, as the result of `k_sem_take` is not looked at. If the network is gone
  when `quit_lock` is taken, the server returns and leaves them running: the
  second case of `StopsAllOrNothing`.
- An empty tty message, or one that comes before the last was read, costs a
  receive buffer for ever (`ipc.c:309`, `ipc.c:117`). `BuffersAccounted` says that
  nothing else does.
- Bytes received just before the client shuts its side down may not be echoed
  (`tcp.c:168`).

## Proofs

Every theorem holds for every value of the constants that satisfies the named
assumptions (`...Assumption`: types and ranges only), apart from what the table
adds.

| Theorem | States | Also assumes |
|---|---|---|
| `VehicleControlManagerProofs` | | |
| `TypeCorrect` | `Spec => []TypeOK` | |
| `SafeLimitCorrect` | `Spec => []OutputWithinSafeLimit` | |
| `EStopCorrect` | `Spec => []EStopHolds` | |
| `NoReversalCorrect` | `Spec => NoReversalJump` (part of what `SafeVehicle` promises, across wraps) | |
| `StampCorrect` | the stored stamp is the acceptance time as the counter shows it | |
| `FreshCorrect` | `Spec => []FreshCommandNotExpired` | `TimeMod > 65535` (a time-to-live is 16 bits wide) |
| `RampTimeCorrect` | `Spec => RampKeepsTime` | |
| `DeadManCorrect` | `Spec => []DeadManInvariant` | `MaxUptime < TimeMod` |
| `ImplementsCorrect` | `Spec => ImplementsSafeVehicle` | `MaxUptime < TimeMod` |
| `VehicleThreadsProofs` | | |
| `ThreadsTypeCorrect`, `MotorsLimitCorrect`, `RaceReversalCorrect` | `ThreadsTypeOK`, `MotorsWithinSafeLimit`, `NoReversalUnderRaces` under every interleaving | |
| `LapseCorrect`, `EStopInTimeCorrect` | `LapseIsDeserved` (which speaks of the time before the counter wraps), `EStopStopsInTime` (every motor off, unless the driver's last call failed on leaving rest) | |
| `MotorDriverProofs` | | |
| `DriverTypeCorrect`, `PoweredCorrect`, `PinsCorrect`, `ReversalCorrect`, `SuccessCorrect`, `PartialCorrect` | `TypeOK`, `PoweredAsBelieved`, `PinsSwitchAtRest`, `RestsBeforeReversing`, `SuccessIsReal`, `FailureIsPartial`, for any motors, wiring and requests | |
| `BluetoothRxProofs` | | |
| `BtTypeCorrect`, `WordsOnceCorrect`, `OnlySentCorrect`, `LastWordCorrect` | `TypeOK`, `WordsExecuteOnce`, `ExecutesOnlyWhatWasSent`, `LastWordWins`, for any queue, any buffer that holds the longest token, any words and losses | |
| `VehicleIpcProofs` | | |
| `IpcTypeCorrect` | `IpcSpec => []IpcTypeOK` | |
| `RecentIntentCorrect` | `IpcSpec => []DrivesOnRecentIntent` | `MaxUptime < TimeMod` |
| `SilenceCorrect` | `IpcSpec => []SilenceStops` | `MaxUptime < TimeMod`, some datagram exists |
| `EchoServerProofs` | | |
| `EchoTypeCorrect`, `HoldersCorrect`, `SlotsCorrect`, `PrefixCorrect`, `StopCorrect` | `TypeOK`, `DescriptorsHaveOneHolder`, `SlotsMatchHandlers`, `EchoIsPrefix`, `StopsAllOrNothing` | |
| `RpmsgIpcProofs` | | |
| `RpmsgTypeCorrect`, `BuffersCorrect`, `AnswersCorrect` | `TypeOK`, `BuffersAccounted`, `AnswersInOrder` | |

The clocks of the passing runs do not wrap; `FreshCorrect`, `RampTimeCorrect` and
`StampCorrect` hold across any number of wraps. Where a theorem assumes that the
counter has not wrapped, `manager_zombie` shows that it must.

The arguments:

- **Manager.** `VehicleArithProofs` has lemmas on the arithmetic (what clamps,
  truncating division, normalising and scaling bound; that a ramp step neither
  overshoots nor crosses zero nor exceeds its step). `UpdateEffect` sums up what
  an update changes. `TypeOK` is inductive by itself and every other invariant is
  proved relative to it. `OutputWithinSafeLimit` is inductive because the new
  target is bounded by the limit and a ramp step stays between the old output and
  the target (or zero). `OnlyFreshCommandsDrive` alone is not inductive: an
  update trusts the stamp, so the stamp must be the acceptance time
  (`StampMatches`), and a new command may be accepted over old targets, so a
  lapse must be final (`LapsedStaysLapsed`). `DeadManInvariant` is their
  conjunction. The refinement uses it: a lapsed command in mode "idle" must not
  raise the speed again. `RampKeepsTime` needs no bound on the clock: the stored
  stamp is `updated_at` as the counter shows it (`UpdateStampMatches`), and a
  difference that wraps, or a zero taken for the first update, can only make the
  time step shorter (`UpdateDtIsTrue`).
- **Threads.** `ThreadsType` types the copies the threads hold, and says that a
  handler at work has a command. The limit is not inductive for the motors alone:
  a value on its way from the structure to the driver is in a local, so
  `EveryOutputWithinLimit` bounds those too. `RampIsNoReversal` relates, between
  the read and the write of a ramp, the value to be written to what will still be
  there when it is: other threads write only zero meanwhile.
- **Lapse under races.** An update reads the clock, then the stamp, then the
  time-to-live, and a submitter may write between any two. `SettledUpdate` says what
  a reading is worth if the update is settled, that is if no motion command is on its
  way and none was accepted since it began: then the stamp it read is still the
  stamp, and lies behind its clock. It holds because every handler that has touched
  the command goes on to activate it, and so to unsettle the update.
- **Emergency stop in time.** `ThreadOnTime` turns `Jitter` into bounds on the update
  under way and on the wake-up. `StopOnItsWay` follows the zero: only the one update
  that had passed the latch before the stop (`Stale`) may still undo it, and as long
  as the driver has not stopped every motor (`AtRest`), the thread is not past its
  `Deadline`, which every failed call moves by one retry. At rest every motor is off,
  unless a call has failed since: one that was to leave rest, which `false_start`
  remembers until a call succeeds. A stop that is late with its retries is never of
  that kind, as what fails then is a call made while the vehicle moves.
- **Motor driver.** The lists are compared by their beginnings: `FromOff`,
  `FromIn1` and so on are what is left of the work on a motor at each operation,
  and `StopOneIs`, `SetOneIs` and `InitOneIs` show that the driver's lists are
  these. `Stage` says, for each rest of a list, what holds of the motor at work:
  off or untouched, which pins are set, and that it may be driven the way asked
  for. `StepsAreMoves` reduces every operation to one of nine moves. `Hardware`
  has the rest of the motors: a motor not yet reached drives as before the call,
  and every settled one does what the driver believes. `Progress` counts the
  motors served. `RestsBeforeReversing` needs all of them: the driver spends a
  dead time only if its belief differs in sign, so that what it believes after a
  call that failed half way must not hide a direction the bridge still drives in.
- **Bluetooth.** The stream has no delimiters, so the proof gives it some: each byte
  of the queue, and the last one heard, has an *origin*, the number of its token and
  its place there. `Traced` says that origins exist (a state predicate: they are
  quantified, not carried in the model) which come in the order of sending
  (`Origins`), miss no byte of a token that came through (`Whole`) and account for
  what has been executed (`Obeyed`, `Explains`). With nothing lost the buffer then
  ends with the token at its last byte, and only with that one, since no token ends in
  another (`NoTokenHidesAnother`). With losses the buffer may end with a token made of
  two; it cannot be told which bytes were lost, but the letter before a last one
  belongs to one command only (`MidTellsCommand`), and the token it came from has not
  been executed yet. Of this vocabulary that is true; another one would need a
  delimiter. The vocabulary is a finite set, so the lemmas about it are proved token
  by token, not by induction over words.
- **Network.** `IpcInv` has the datagrams no older than `MaxDelay`, so a command
  is accepted at most that long after it was sent (`AcceptedSoon`), and the
  dead-man invariant does the rest. `SilenceStops` speaks only of the end;
  `SilenceInv` (with `RestInTime`) holds on the way: the larger of the two speeds
  bounds the updates still needed, since every update of a lapsed command takes
  a wheel at least 1 % nearer to rest.
- **Echo server.** `LifeInv` ties `service` to where `echo_server` is in its list:
  all off before, some started, some stopped. `StepKinds` reduces every step to
  one of eleven effects on descriptors, slots and clients, and each invariant is
  proved against those. `DescriptorsHaveOneHolder` is inductive with `LifeInv` and
  the types: only then is a socket that is closed still its service's own.
  `Serving` adds to `SlotsMatchHandlers` that the client of a handler is being
  served, so that a new client has no other handler. `EchoInv` says of the
  buffer which bytes it holds, not only how many.
- **RPMsg.** `IInv` has the ring's buffers distinct, and each buffer in one place.
  `OrderInv` says that everything in the ring is newer than everything answered,
  and what each thread owes: the tty its message at most, the client two answers
  at most. `LeakExplained` counts: each buffer kept for ever is explained by an
  unlucky message, with one message in reserve while a callback has replaced a
  message its thread is still answering.

Every safety invariant and action property of the runs is proved. Only
model-checked: liveness under fairness (`ComesToRest`, `LoweredLimitObeyed`,
`RampConverges`, `EveryClientServed`, `FailureEndsServer`, `ServesWhenConnected`,
`EveryMessageAnswered`), which is out of the prover's reach, as are `ENABLED` and
induction over data; and the four violations, which are counterexamples.

## Not modelled

- Statistics and logging; the set-up of TLS, VLAN, USB, tunnel and WebSocket: no
  state the properties speak of.
- Boards and build files. Priorities, the number of handlers and which services
  exist come from there and are constants.
- `SPEED_n` and `D` of the parser (the stream search never hands them over), and
  its stripping of white space.
- A line fault that turns one letter into another, or makes one up: nothing in the
  receiver could tell it from a letter sent.
- Two atomic accesses that tear within a machine word: the fields are aligned and
  at most 32 bits wide.
- OpenAMP and the network stack, except as external operations: buffers and their
  being held, connections, descriptors.
- Messages over RPMsg longer than the twenty bytes of `rx_sc_msg` (`ipc.c:83`), into
  which `ipc.c:104` copies any length: they have the twelve bytes of the sample's
  "Hello world!".
- What a command over RPMsg does. The only board with that transport is built
  without a control manager, so the age of a command stamped by another core's
  clock (`rpmsg_processor.c:144`) has no code to be checked against.

## Running

In this directory, `tlc -config <run>.cfg MC<Module>.tla` for a run and
`tlapm <Module>Proofs.tla` for the proofs.
