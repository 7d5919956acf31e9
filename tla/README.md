# Formal verification of the RD-RIOP remote I/O firmware

TLA+ models of the application code of the RD-RIOP kit (i.MX RT1189: a Cortex-M33 that leads,
a Cortex-M7 that runs the fieldbus stack, the analogue front end and, in the EtherNet/IP
variant, the CentriFeeder Modbus link), the TLC runs that check them and the TLAPS proofs about
them. File and line numbers refer to `src/`. `PROJECT.json` lists components, runs, the source
lines behind each definition, hazards, findings, and theorems; this file explains them.

Contents: 1 the system, 2 the modules, 3 the runs, 4 what the runs found, 5 the proofs,
6 assumptions, 7 not modelled, 8 plan.

## 1. The system

GOAL (the fieldbus stack), lwIP, FreeModbus and the MCUXpresso drivers are third-party. The
kit's own code is small and concurrent: FreeRTOS tasks on one M7 core, interrupt state machines,
queues without waits, and two half-duplex buses with devices that may be late.

| part | state | operations | talks to | what makes it hard |
|---|---|---|---|---|
| DCE requester `dce_task.c` | published flow/total, valid, timestamp, counters, wake-up time | poll, account, staleness check, sleep | run resource, completion semaphore, `dce_dataGet` from the EtherNet/IP callback | every wait may run out; a reading must neither be old nor belong to another request |
| Modbus critical sections `modbus_port.c` | nesting counter, saved PRIMASK | enter, exit | tasks and ISRs of the stack | shared by contexts that preempt one another between two instructions |
| Modbus port `modbus/*.c` | event queue, run resource, completion semaphore and result, one TPM, UART direction | post/get event, take/release, callbacks, arm/stop timer | FreeModbus above, ISRs below | lost events, one timer for two purposes, stale completions |
| FreeModbus poll task | receiver and transmitter state, frame, staged reply | one handler per event | the port layer | higher priority than the requester it completes |
| AFE task `afe_task.c`, `api_afe.c` | command, periodic flag, sample timer, handle | stop, wait, configure, start periodic/single, GPIO output | queue from the loop, sample interrupts | 2 ms wait for measurements of up to seconds |
| NAFE13388 driver `nafe13388.c` | mode the device is believed in, interrupt state machine, rounds | init, start, trigger, terminate, IRQ handle | SPI, SYNC, DRDY | frames in flight across resets, state kept across a device reset |
| sample callback, sample timer | sampleInProgress, period counter | deliver sample, read inputs, write outputs; start or count an overrun | queues to loop and GPIO task | interrupts against two tasks over one flag |
| GPIO task `gpio_task.c` | none of its own | read pins every 50 ms, take input readings, write MCU outputs | SPI bus, status | check, then a transfer that can be preempted |
| application loop `digital_io.c`, `icc_task.c` | mode machine, period, change detectors, command block | one step per period, hand commands over, collect status | all queues | no back-pressure, catch-up bursts, dropped commands |
| board status `api_riop.c` | status words, lock | setters, collect | everyone | one sample per collection, status set before the act |
| signal generator | configuration, waveform positions | start/stop on command, timer ISR | queue, PWM | state kept across a stop; never commanded in the GOAL builds |
| PROFINET application | relation served, timeout, output items | ready, release, one round of items per second | stack, command block, calls the loop | a round ends at any item, the loop with it |
| EtherNet/IP, EtherCAT applications | assembly or process data buffers | copy in, copy out | stack, command block, board status | return codes, data taken without its valid flag |
| M33 leader, PHY, flash, EEPROM, board files | registers | start-up sequences | hardware | sequential I/O, no model |

Task priorities (FreeRTOS): AFE 7, signal generator 6, GPIO 5 and `mbpoll` 5, `dce` 4; the GOAL
main task, which runs the application loop and the fieldbus callbacks, has 0. So the comment at
`dce_task.c:38-41`, which wants the Modbus tasks below GOAL and says "VERIFY", is not met; no
correctness property here depends on it, a slow response of the fieldbus does.

What makes the parts correct, in one sentence each:

- Link: what the controller sees as a reading is a real, recent answer to a request of this
  cycle, or zero; the run resource is never lost; polling never stops.
- Sampling: a measurement in progress is always heading for its end and is not cut off; a sample
  goes to the queue of the mode it was taken in; a mode that is kept delivers; the bus has one user.
- Outputs and inputs: outputs left alone come to be on the pins, inputs that rest come to be
  reported, whatever happened before.
- Fieldbus: the loop acts on one frame at a time, for a relation that is up, and drops nothing.
- Critical sections: they exclude one another and restore what they found.

## 2. The modules

    ModbusPort <- MbMaster <- DceLink <- MCDceLink         FreshOrZero (abstract, INSTANCEd)
                                 ^-- DceLinkProofs <- DceFreshProofs
    ApiRiop <-+- RiopLoop <----+--- PnioLoop <- MCPnioLoop
              |                |
              |                +--- RiopSystem <- MCRiopSystem
    NafeDriver +- AfeSampling -+

    ApiRiopProofs, RiopLoopProofs, AfeSamplingProofs <- RiopSystemProofs; PnioLoopProofs
    ModbusCritical <- MCModbusCritical, ModbusCriticalProofs

An arrow points to the module that is extended.

**ModbusPort** (`portevent.c`, `modbus_timer.c`, `modbus_serial.c`): one operator per port
function. A post either appends, finds the queue full, or is lost (at most `LossMax` times: the
lost event that the comment above the finish timeout provides for). `xMBMasterRunResTake` is
three operators, because the poll task can run between its take, its discard of a stale
completion and its reset of the result. A completion callback is two steps, the result and then
the give. A T3.5 gap is shorter than a tick and may expire at any moment; the response timeout is
counted in ticks.

**MbMaster**: `dce_mbPollTask` and the part of FreeModbus it drives. FreeModbus is not in the
repository; its actions are modelled from the callbacks and port functions the repository
implements for it, and marked external in the map. The transmitter becomes `GARBLED` when a
frame is started over one being sent. `ByteReceived` takes a burst at once, with the effects of
its first and last byte. The DCE answers a request after 1 to `AnswerMax` ticks with a good reply,
a reply with calibration word 0, or an exception, or not at all; `NoiseMax` bursts of noise reach
the receiver. `own` is a history variable: the places (transmitter, wire, receive buffer, staged
registers) that hold data of the current cycle.

**DceLink**: `dce_task` step by step, with the waits of the run resource and the completion
semaphore and their timeouts, and the clock. `DceRuns` is the scheduler: with `mbpoll` the more
urgent, the requester moves only while `mbpoll` is blocked; with equal priorities it interleaves
freely. A tick passes when everything is blocked; `Stall` lets up to `StallMax` ticks of a cycle
pass although a task is ready, because the AFE task outranks both and waits actively (100 ms in
`NAFE_init`). The values are abstracted to "zero" and "reading"; the accumulated total, the copy
of the last registers and `mbState` are left out. `DceBoot` does not count the 10 ms of its
polling loop.

**FreshOrZero**: the promise to the EtherNet/IP side, which copies the values without looking at
`valid` (`goal_appl.c:1036-1044`): zero, or a reading that never grows older than `Bound`.
`PublishedSpec` maps flowRate and age onto it.

**NafeDriver**: the interrupt-driven sampling and the device. The handle is known by what it is
configured for (`kind`), since `AFE_ChannelConfiguration` sets mode, channels and sample amount
together: hv (multi-channel, multi-reading), current (single channel, single reading), lv and
temp (their continuous counterparts). A blocking SPI transfer is part of the action that makes it;
a frame sent without waiting is on the bus until its interrupt.

**ApiRiop**: the command block (exactly one part dirty) and `xQueueSend` without a wait.

**AfeSampling**: the tasks and interrupts above it, with commands from anywhere at any time
(`HandOver`). A measurement command goes through `AfeStop` (timer off, and the wait), `AfeWake`
(the wait always runs out, since the notification goes to another task), `AfeConfigure` (the handle
changes with interrupts on), `AfeReset` (`NAFE_init`, and the timer for a periodic measurement),
`AfeSingle`. `SampleDone` is the last interrupt of a measurement with the whole of `AFE_callback`.
Output words and input changes are numbered, so that newer and older can be told apart. The GPIO
task's read is two steps, and `cutOff` (history) remembers that the AFE task took over in between.

**RiopLoop** (`digital_io.c`): one call of `appl_loop` when its period is over is `LoopStep`,
and `DirtyPart` is the part of the command block it marks; a call before that only uses up the
first period after a change of mode (`LoopPoll`). Time is `elapsed`, the ticks since the last
period that was accounted for, so that a loop that was held up catches up step after step as the
code does. It is the difference of two 32-bit cycle counts, so it wraps: a loop held up for
`CycleWrap` ticks (5.4 s at 792 MHz, "max 4 sec" in the comment) has forgotten them.
`LoopAssumption` wants every period below that, as the code's are (3 s the longest). The six
steps of mode 0 are `NextFsm` and `CyclePart`, the two pass counters `NextPass` (every
`LvEvery`-th pass, 8 in the code). A change detector with its validator needs no state for the
validator: the step that enters the mode sends the word and notes it. AFE output word and pin
direction, each with its detector and both marking the one part, are one number.

**RiopSystem**: `RiopLoop` over `AfeSampling`. `Loop` hands `DirtyPart` to `HandOver`. `Control` is
the EtherNet/IP callback that copies a received assembly to mode and outputs. The GOAL task is below every other: the
loop moves only while AFE and GPIO tasks are blocked (`GoalRuns`), is on time otherwise
(`SysTick`), and loses the `InitTicks` that `NAFE_init` waits actively.

**PnioLoop**: `RiopLoop` under the PROFINET application and over the GPIO task's queue of MCU
outputs. `ExchangeDone` is a round of `appl_loop` with all its items, `ExchangeFails` one that the
stack ends, after none, one or both of the output words; then nothing else of the call happens, the
loop is held up with it, and what it makes up for afterwards only the cycle counter limits.
Controllers write one number to both words, so that a mix of two frames shows.

**ModbusCritical** (`modbus_port.c`): `EnterRead` and `EnterMask` are the two halves of the entry,
as everything may happen between the read of PRIMASK and the masking. `Switch` gives the
processor to any context while interrupts are not masked; interrupts return, tasks resume and
preempt by it alike, so the model allows more orders than the priorities do. `OuterMask` and
`OuterUnmask` are other code that masks interrupts around calls of the stack.

## 3. The runs

`DceLink` (ticks of about 50 ms; the code's values are period 2, response 4, request wait 10,
finish and stale 20 ticks; the runs shorten them in the same order, which keeps their races and
shrinks the counters; `faulty_link` takes all of them to 1 or 2 ticks, so that a reading goes stale
and a request is abandoned in almost any cycle):

| run | asks | bounds |
|---|---|---|
| punctual_dce | with an answer inside the response timeout, no noise: `FreshReply`, `NoRawMismatch`, `NeverBusy`, `Accounting`, `TypeOK`, the refinement `PublishedSpec`, and under `FairSpec` `PollsForever`, `SilenceIsShown` | queue of 1 that overflows, 1 lost event, stalls of 1 tick per cycle, counters modulo 2 so that they wrap |
| faulty_link | `StaleBound`, `RunResConserved`, `ResponseTimed` when the two tasks interleave anywhere, events overflow and the finish timeout comes under a request in progress | queue of 1, 1 burst of noise, stalls of 2 ticks per cycle (with 1 the run resource is never still held when the wait for it ends); the only run in which the run resource is found busy |
| stale_completion, late_answer, poll_burst | violations, section 4 | default |

One burst and one loss suffice for the interesting cases: each opens a window that lasts at most
until the next cycle starts, a second one in the same window repeats the first, and a later one
finds the state the first found. `CounterMod = 1` in the runs that do not look at counters. The
queue of 1 stands for the full queue of the code at its smallest: it overflows in these runs, which
a queue of 8 would not. `faulty_link` has a hypothetical setting of the two priority `#define`s: it
shows which guarantees do not rest on the priority order (conservation, age and the response timer
do not; the meaning of a completion does, see `stale_completion`; that no request is refused does,
see `NeverBusyWhenOutranked`). The proofs extend what it shows to every setting, the code's among
them. Liveness is checked with lost and overflowing events, which end in the finish timeout as a
burst of noise does; it is not checked with noise or at equal priority.

The application loop over sampling (a tick is the sampling period of 1 ms; periods shortened in
the same order):

| run | asks | bounds |
|---|---|---|
| riop_modes | `TypeOK`, `BusShared`, `SamplingAlive`, `NeverBrokenOff`, `Routed`, `InputsReported`, `ModeDelivers` with modes 0 (cycle), 1 (periodic) and 6 (repeated single), at any time | 1 change of the input pins, queues of 2 |
| riop_progress | `LoopTypeOK`, `ModeDelivers`, `OutputsFollow` with modes 1, 3, 4 and 6 | 2 output words, queues of 2 |
| mode_wedge, temp_restart, lost_outputs | violations, section 4 | 1 or 2 modes |
| fieldbus_loop | `PnioTypeOK`, `ArServed`, `ConnectedWhole`, `NothingDropped`, `OutputsReach` with modes 0 and 5 | 2 relations, 2 output words, queue of 3, cycle counter wraps after 20 ticks (a cycle of mode 0 is 12, a round 6), loop late by 2 ticks, and by any time while rounds fail |
| critical | `Exclusive`, `Restored` | 3 contexts, sections nested 3 deep |

The controller changes mode and outputs without limit in the passing runs: their state space is
finite without a bound on commands. Modes 2 and 5 differ from 1 and 4 in the part they send
only; mode 5 is in `fieldbus_loop`, mode 2's measurement in the cycle of mode 0. The sampling
queues of 2 fill and drop. In `fieldbus_loop` a round that fails is repeated until it succeeds
or the relation goes; the loop then makes its steps one right after the other, through a whole
cycle of mode 0 and more, and the counter wraps under it. The queue of 3 is the least that
`Paced` (section 5) allows for that. A conversion of 0 or 1 ticks, a wait of 2 and measurements
of 2 and 3 rounds (500 and 128 in the code) give measurements shorter and longer than the wait.
Inputs are read every 2 samples in place of 10.

**Timing of the measurements.** `riop_modes` and `riop_progress` have measurements that end within
a short period of the loop (20 ms in the code); there nothing is ever cut off (`NeverBrokenOff`),
although commands come at every change of mode. With the code's values that is so for the samples
of modes 1 and 2, which end well within the wait; a reference measurement, 500 samples on each of
five channels, can outlast the 20 to 200 ms after which a change of mode brings the next command,
and a temperature measurement, for which the code itself says up to 6 s, the 3 s of its own period. `mode_wedge`, `temp_restart` and `lost_outputs` show what happens then. `BusIsShared` and
`SamplingTypeCorrect` are proved for every timing, `AliveUnlessBrokenOff` and
`RoutedUnlessBrokenOff` for every behaviour in which nothing is cut off: that hypothesis is all
the timing is needed for. What keeps a sample from being cut off is proved too
(`GivenTimeNotBrokenOff` and its cases, section 5).

**Premises of the liveness properties.** `ModeDelivers`, `OutputsFollow` and `InputsReported`
speak of a mode that the controller keeps. If it changes the mode at every step of the loop,
each measurement is started over by the next reset and the GPIO task need not find the sampling
bus free. `OutputsReach` speaks of a relation that stays up, and needs the loop to be late by
less than the time between two rounds once they go well (`LateMax`): held up for as long each
time, it would lose whole periods to the wrap for ever. `NothingDropped` needs no bound on the
lateness.

**Fairness.** In `DceLink`: the scheduler runs a ready task (`mbpoll` and `dce` are never starved
for ever by the tasks above them, which block every cycle), the hardware raises a due interrupt,
the clock goes on. The DCE, the noise and losses are free: a silent DCE is a fair behaviour. In
`RiopSystem`: the AFE task outranks every other task, interrupts and the device are fair, and a
read the GPIO task has begun ends (weak). The GPIO task's round and the clock and the loop below
it are enabled again and again but interrupted by the tasks above; each of those sleeps or blocks
after its round, so that none is kept out for ever (strong). The controller and the pins are free.
In `PnioLoop`: the clock, both tasks, and `ExchangeDone`: weak fairness, so a stack that refuses
items may do so for any time but not for ever while the relation is up.

**Deadlock** is checked in every run; none disables it.

Each property is accompanied by a mutated operator next to the definition it mutates ("Mutant:"):
replacing the definition by it breaks the property. They show that the property depends on that
piece of code.

## 4. What the runs found

Where the code and what is said of it disagree, a run exhibits the behaviour:

- **stale_completion** (`portevent.c:126-131`). A noise burst ends a request early; its real answer
  completes as an error while the next request is being set up. The completion falls between
  the discard and the reset of the result, and the next request "succeeds" with nothing staged.
  `mbcb_rawGet` catches it (counted as `rawMismatch`), so no wrong value is published, but the
  stale give that the comment there wants to rule out ("would satisfy the next wait
  instantly") does satisfy it.
- **late_answer** (`dce_task.c:179`). An answer later than the response timeout completes the next
  cycle's request and is published as its reading.
- **poll_burst** (`dce_task.c:236`, `RECOVERY.md:142`). After a silence the polls follow each
  other without a pause until the wake-up time has caught up.
- **mode_wedge** (`afe_task.c:215`, `init.c:171`). A measurement longer than the wait, cut off by
  the command of the next mode, leaves `sampleInProgress` set: the new mode's timer starts no
  sample, and mode 1 measures nothing for as long as it is kept.
- **temp_restart** (`nafe13388.c:431`). A temperature measurement longer than its period is cut off
  by the next; the driver believes the reset device to be in the mode and sends SYNC only. None
  completes.
- **lost_outputs** (`afe_task.c:197`). An output word that arrives during a single measurement is
  reported and neither written nor queued. The loop's detector has it as handed over, and after
  a cut-off temperature measurement "during" is for ever.

Seen in the models without a run of their own: the first request after start-up is always
refused, because the receiver is in its first T3.5 gap, and ends by the finish timeout that
`portevent.c:41-43` says should never fire; a silent DCE is polled about five times a second
(the response timeout spans two periods), not ten as `RECOVERY.md:136` says; a successful request
that finds no reply counts as `rawMismatch` and not as `good`; an output command still queued
when sampling stops is written in the next sampling phase, over a value written in between, and
an input reading left in the queue is reported after newer ones; a
reset for a new measurement clears the output pins and nothing writes them again; a second
PROFINET relation is not served when the first is released (`goal_appl.c:2363`), and after a
release the loop runs on words of two frames if the last round failed; outputs keep their value
without a connection. `dce_port.h:55` explains the critical sections by flags that are read,
modified and written; `portevent.c` uses a queue.

## 5. The proofs

The theorems hold for every value of the constants that satisfies the named assumptions of the
modules: positive queue lengths and timeouts, natural bounds, `mbpoll` at least as urgent as the
requester, no more MCU than AFE output words where one number goes to both. Where the table says "if",
the theorem states a further condition, explained below it with the values of the code.

| theorem | states | argument |
|---|---|---|
| `TypeCorrect` | the link's `TypeOK` | one lemma per part (poll task, interrupts, tick, requester); counters by the range of `%` |
| `RunResIsConserved` | `RunResConserved` | inductive as it stands, given `TypeOK`: the step after a give is the release, and whoever abandons a request releases it itself |
| `ReadingsAreBounded` | `StaleBound` | by `AgeInv` |
| `LinkImplementsFreshOrZero` | `Spec => PublishedSpec` | every step renews, withdraws, ages below the bound, or stutters; by `AgeInv` |
| `RepliesAreFresh`, `NoReplyIsMissed` | `FreshReply` and `NoRawMismatch`, if the link is `Punctual` | by `PhaseInv` |
| `OutcomesAddUp` | `Accounting`, for counters of any width | inductive with the type; by lemmas on remainders |
| `NeverBusyWhenOutranked` | `NeverBusy`, if `mbpoll` outranks `dce` | from `RunResConserved`: a taken resource means `mbpoll` is at its release, and then `dce` does not run |
| `ResponseIsTimed` | `ResponseTimed` | by `ResponseInv` |
| `SamplingTypeCorrect` | the sampling `TypeOK`, so every queue keeps its bound | with `HandleConfigured` and `TimerFollows`: a sample is only started on a configured handle |
| `BusIsShared` | `BusShared` | by `ReadUndisturbed` |
| `AliveUnlessBrokenOff`, `RoutedUnlessBrokenOff` | `SamplingAlive` and `Routed` in behaviours with `NeverBrokenOff` | an invariant that relates driver state, bus and device |
| `GivenTimeNotBrokenOff`, `FittingNotBrokenOff` | `NeverBrokenOff`, if long measurements are given their time, or only fitting ones are commanded | by `FInv` |
| `SystemImplementsSampling` | `SysSpec => Spec`: the loop's commands are a case of commands at any time | every step of the system is a step of `AfeSampling` or leaves its variables alone |
| `SystemSharesBus`, `SystemAliveUnlessBrokenOff` | what was proved of sampling, of the system | by that refinement |
| `SystemNotBrokenOff`, `PeriodicModesNotBrokenOff` | `NeverBrokenOff`, and with it `SamplingAlive` and `Routed` with no such hypothesis left, under the mode machine | a command comes into the queue from the loop only, so that the conditions on commands become conditions on the loop |
| `LoopTypeCorrect`, `PnioTypeCorrect`, `CriticalTypeCorrect` | type invariants | `RiopLoopProofs` has the lemmas on the loop that both its compositions cite |
| `RelationIsServed` | `ArServed` | inductive with the type |
| `LoopSeesWholeFrames` | `ConnectedWhole` | by an invariant: a mix of two frames exists only while a round is due again or no relation is up |
| `NothingIsDropped` | `NothingDropped`, if the periods are `Paced` | by `QueueInv` |
| `SectionsExclude`, `MaskIsRestored` | `Exclusive`, `Restored` | one invariant, below |

`StaleBound` is not inductive: from an age at the bound a tick would break it, unless one knows
how much of the cycle is still to come. `AgeInv` adds that: age plus what the requester's current
wait has left (`Pending`) is at most the stale timeout, plus the waits of the cycle already
entered (`Spent`), plus the stall already used. A wait that starts moves its length from the
budget to `Pending`; a tick moves one from `Pending` to `age`; a stall is paid from `stallLeft`;
the check at the end of the cycle withdraws anything older than the stale timeout and refills
the stall budget.

`BusShared` says nothing of the requests in the queue, so it is not inductive either:
`ReadUndisturbed` adds that during an undisturbed read neither a sample nor periodic sampling is
on, and that the AFE task, which alone could start one, has no command or is still waiting; with
`TimerFollows` the timer interrupt cannot be pending then.

`ResponseTimed` needs the receiver: only if it is idle when a transmission completes is the
response timeout the right timer. `ResponseInv` adds that the receiver is idle, and the stack
started, whenever the transmitter is not idle; a transmission starts under an idle receiver, and
a byte that ends that ends the transmitter's wait in the same interrupt.

`Exclusive` and `Restored` need the counter: that it is the depth of the one context in a section,
that the saved state is the one other code left, and that a context that has read PRIMASK and not
yet masked has read what is true when it runs again, since nobody leaves it changed for others.

`FreshReply` and `NoRawMismatch` say to which request a reply belongs, which the frames themselves do
not. `PhaseInv` knows it from where the request is: nothing is in flight unless `dce_task` waits
for it, and then it is in one of nine phases (`Asked`, `Sending`, `Waiting`, `Receiving`, ... `Completed`),
each of which names everything that is queued, on the line or given. A lost event leads back to
`Nothing`, and the wait ends by the finish timeout. The hypothesis `Punctual` is what the phases
need: `mbpoll` outranks the requester, the line carries no noise, the DCE answers inside the response
timeout or not at all, and the finish timeout is longer than the response timeout and the stalls of a
cycle together (1000 ms, 200 ms and 100 ms in the code). Three of the four are needed: with noise
(`stale_completion`), with an answer after the response timeout (`late_answer`) and with a finish
timeout no longer than the response timeout TLC finds the properties violated; with a finish timeout of
exactly response timeout plus stalls it finds `PhaseInv` violated and the properties not. The priority order is what the
proof goes by, since `dce_task` then moves only while `mbpoll` is blocked; on the instance of
`punctual_dce` TLC finds both properties to hold at equal priority too.

`Accounting` is an equation between remainders. The lemmas on division (`Division`,
`RemainderUnique`, `CounterStep`, `CountModulo`) show once that adding one to a wrapping counter adds
one to its sum modulo the width; the rest is that every way a request can end passes exactly one
count.

`NothingDropped` looks at a full queue from one side only, the step that meets it. `QueueInv` adds up
what the queue holds and what may still come, in ticks of mode 0: a queued command counts for a
cycle of that mode, time the loop has not caught up on for itself, a change of outputs or mode
that it has not acted on for a cycle. This `Load` does not grow by a step of the loop, which
exchanges the one for the other; a tick adds to what is owed what it takes from the GPIO task's
sleep; a cycle of the GPIO task takes off more than it lets come. Only a round adds to it, a cycle
at most, and two cycles of the GPIO task later, so before the next round, it is down again to what
it can be with an empty queue (`EmptyLoad`), where the wrap of the cycle counter bounds what is
owed. A round that fails and is repeated changes the outputs again and still counts once.
`Paced` is what this asks of the constants: a round (1 s) and a cycle of mode 0 (6 times 200 ms)
longer than two cycles of the GPIO task (50 ms), and room in the queue, beside one command, for all
that a loop sends at once that was held up until the counter wrapped: 9 times 1200 ms are more
than 5.4 s and 50 ms. How late the loop is, and why, does not matter.

`NeverBrokenOff` is not true of the code at every timing (`mode_wedge`, `temp_restart`), so the
theorems say under which condition it is. A measurement fits if its rounds times the longest
conversion are less than the wait of the AFE task, and is long otherwise. In `FInv`, what a fitting sample may
still take (`Remaining`) is below what is left of the wait, and a long measurement is the last
in the queue and finds the AFE task idle. From that: if periodic samples fit, as they do in the code
(`ConvMax < WaitTicks`), and no measurement is commanded while a long one is pending
(`TimeGiven`), no sample is ever broken off. Output commands are free. The runs `riop_modes` and
`riop_progress` satisfy the condition with measurements that are long; the code meets it in the modes 1, 2, 4
and 5 (`PeriodicModesNotBrokenOff`), and in the modes 0, 3 and 6 as far as the reference and temperature
measurements end before the mode machine commands again, which their sample counts do not guarantee.

Only model-checked: the liveness properties (`PollsForever`, `SilenceIsShown`, `ModeDelivers`,
`OutputsFollow`, `InputsReported`, `OutputsReach`), which rest on fairness and are beyond the proof
system. Every safety property that a passing run checks is stated by a theorem, some under the
conditions named above. No module with a theorem uses recursion.

## 6. Assumptions and what stays outside

- FreeModbus as its port layer implies it; in particular, a poll event is handled to its end
  before the next, a request posted while the receiver is busy is dropped without a report, and
  the stack releases the run resource after the callback.
- The NAFE13388: after a reset it does not convert on SYNC until a mode command; a DRDY nobody
  listens to is lost. A periodic sample ends within the 2 ms wait.
- `digital_io.c` enables every channel and sets a non-zero shunt: the branches for disabled
  channels, disabled current measurement and bad arguments are not reachable, nor is calibration,
  whose dirty flag nothing sets. The path for a timing error of the driver (`nafe13388.c:957`) is
  not reached by the frame order of the model.
- If the handle changed between a mode frame and its interrupt, the driver would send another mode
  frame (`nafe13388.c:756-762`, the second branch of `SpiModeSent`). No behaviour in which nothing
  is cut off takes it: the invariant behind `AliveUnlessBrokenOff` shows that the handle is then
  still the one of the frame.
- Values: no conversion, mean, deviation or unit is modelled.
- Start-up: with `GOAL_CONFIG_TARGET_FREERTOS_TARGET_MAIN` the application is initialised in the
  GOAL init task, at the highest priority and with active waits (`goal_target.c:75, 205-250`). No
  task it creates runs before `AFE_Init` and `RIOP_StatusShmInit` are done, so the models start there.
- GOAL runs its stack, the fieldbus callbacks and `appl_loop` in one task: no frame arrives between
  two items of a round or two words of an assembly.
- In `PnioLoop` it takes the stack longer to set up a relation than the GPIO task to empty its
  queue (`ApplReady`); an item is a word.
- When the rounds go well, the loop is late by `LateMax` ticks at most in `PnioLoop`. Nothing in the code enforces
  that (GOAL has the lowest priority); the liveness run rests on it, the proofs do not.
- The GPIO task (priority 5) is on time in `PnioLoop`; AFE commands go nowhere there, the AFE half of the loop is
  the matter of `RiopSystem`.
- The callers of the Modbus critical sections enter and leave them in pairs and do not block inside.

## 7. Not modelled

- The signal generator: every fieldbus build clears its dirty flag before each hand-over
  (`digital_io.c:163`), so it is never commanded.
- The EtherCAT application, a third copy of process data over generated tables; the sent assembly of
  EtherNet/IP and the input items of PROFINET (copies of the board status, values only); MCU inputs and LEDs.
- The board status lock: one mutex around single assignments, held by nobody across a wait.
- The sample queues that the loop drains one element per period, hence the age of a result: the
  5:1 and 20:1 rates of the tasks would have to be kept.
- Calibration, disabled channels, the conversions, means and deviations.
- M33 start-up, PHY, flash and EEPROM (register sequences without concurrency), board and pin files.
- The vendored stacks, which make up nearly all of the repository's lines (GOAL, lwIP, drivers); what the
  models need of them is stated in section 6. The map covers the control code of the M7 application
  and so a small share of the repository as a whole.

## 8. Plan

1. Rates: a module of the input path with the 10 ms and 50 ms cycles and the queue of ten, for a
   bound on the age of a reported input; the same for the sample queues.
2. The accumulated total in `DceLink`, with a property on its continuity over a silence.
3. The sent assembly of EtherNet/IP with its return code (`goal_appl.c:436-492`), if the stack's use
   of it becomes known; the RPMsg build with the signal generator, if its other half does.
4. Proofs: from the periods of `RiopLoop` alone, that a long measurement is given its time in the modes
   that repeat one (`LoopGivesTime`); `FreshReply` and
   `NoRawMismatch` at equal priority, where a request has more phases.
