------------------------------ MODULE AfeSampling -----------------------------
(***************************************************************************)
(* The analogue front end under its users: the AFE task that takes the     *)
(* commands of the application loop, the sample timer, the sample callback *)
(* and the GPIO task that shares the bus (afe_task.c, gpio_task.c, the     *)
(* measurement half of api_afe.c), over the driver of NafeDriver.          *)
(*                                                                         *)
(* One core. The AFE task (priority 7) runs before the GPIO task (5), both *)
(* before the GOAL loop (0); interrupts run before all. A tick is one      *)
(* sampling period (1 ms); SPI frames and task steps take no tick.         *)
(***************************************************************************)
EXTENDS NafeDriver, ApiRiop

CONSTANTS
    PinMax,       \* changes of the input pins (bound)
    WaitTicks,    \* ticks the AFE task waits for a sample to end
    InputEvery    \* samples between two reads of the input pins

ASSUME SamplingAssumption ==
    /\ PinMax \in Nat
    /\ WaitTicks \in Nat \ {0} /\ InputEvery \in Nat \ {0}

VARIABLES
    cmdQ,         \* afe_command_queue
    afePc,        \* AFE task: idle, wait, configure, start, single
    command,      \* the command it works on
    waitLeft,     \* ticks until its wait times out
    ongoing,      \* periodical_measurment_ongoing
    timerOn,      \* the sample timer runs
    timerDue,     \* and its interrupt is pending
    periodCounter,\* afe_sampling_period_counter
    gpioPc,       \* GPIO task: sleep, or read: its SPI frame is on the bus
    cutOff,       \* the AFE task took over in the middle of that read
    gpioCmdQ,     \* afe_gpio_command_queue
    pins,         \* the device's outputs, 0 after a reset
    outStatus,    \* output value the board status reports
    pinsIn,       \* the input pins: number of their last change
    inputQ,       \* afe_gpio_input_status_queue
    inStatus      \* input value the board status reports

taskVars   == <<cmdQ, afePc, command, waitLeft>>
timerVars  == <<ongoing, timerOn, timerDue, periodCounter>>
gpioVars   == <<gpioPc, cutOff>>
pinVars    == <<gpioCmdQ, pins, outStatus, pinsIn, inputQ, inStatus>>
vars == <<nafeVars, taskVars, timerVars, gpioVars, pinVars>>

TypeOK ==
    /\ NafeTypeOK
    /\ cmdQ \in Seq(Commands) /\ Len(cmdQ) <= QueueLen
    /\ afePc \in {"idle", "wait", "configure", "start", "single"}
    /\ command \in Commands /\ waitLeft \in 0..WaitTicks
    /\ ongoing \in BOOLEAN /\ timerOn \in BOOLEAN /\ timerDue \in BOOLEAN
    /\ periodCounter \in 0..InputEvery
    /\ gpioPc \in {"sleep", "read"} /\ cutOff \in BOOLEAN
    /\ gpioCmdQ \in Seq(0..GpioMax) /\ Len(gpioCmdQ) <= QueueLen
    /\ pins \in 0..GpioMax /\ outStatus \in 0..GpioMax
    /\ inputQ \in Seq(0..PinMax) /\ Len(inputQ) <= QueueLen
    /\ pinsIn \in 0..PinMax /\ inStatus \in 0..PinMax

Init ==
    /\ NafeInit
    /\ cmdQ = <<>>
    /\ afePc = "idle" /\ command = [part |-> "gpio", out |-> 0] /\ waitLeft = 0
    /\ ongoing = FALSE /\ timerOn = FALSE /\ timerDue = FALSE /\ periodCounter = 0
    /\ gpioPc = "sleep" /\ cutOff = FALSE
    /\ gpioCmdQ = <<>> /\ pins = 0 /\ outStatus = 0
    /\ pinsIn = 0 /\ inputQ = <<>> /\ inStatus = 0

-----------------------------------------------------------------------------
\* The AFE task leaves the processor to the others.
AfeBlocked ==
    \/ afePc = "idle" /\ cmdQ = <<>>
    \/ afePc = "wait" /\ waitLeft > 0

\* The tasks below the AFE and the GPIO task run.
GoalRuns == AfeBlocked /\ gpioPc = "sleep"

\* ICC_DataHandleTask, called by the application loop: one command.
HandOver(c) ==
    /\ GoalRuns
    /\ cmdQ' = Sent(cmdQ, c)
    /\ UNCHANGED <<nafeVars, afePc, command, waitLeft, timerVars, gpioVars, pinVars>>

\* AFE_task, a GPIO command: the status first; then the callback's queue
\* while sampling, the pins when nothing runs, and nowhere otherwise.
AfeGpio ==
    /\ afePc = "idle" /\ cmdQ # <<>>
    /\ Head(cmdQ).part = "gpio"
    /\ cmdQ' = Tail(cmdQ)
    /\ command' = Head(cmdQ)
    /\ outStatus' = command'.out
    /\ gpioCmdQ' = IF ongoing THEN Sent(gpioCmdQ, command'.out) ELSE gpioCmdQ
    /\ pins' = IF ~ongoing /\ ~sampleInProgress THEN command'.out ELSE pins
    /\ UNCHANGED <<nafeVars, afePc, waitLeft, timerVars, gpioVars,
                   pinsIn, inputQ, inStatus>>

\* Mutant: the sample in progress is not waited for.
AfeWaitSkipped ==
    /\ afePc' = "configure"
    /\ UNCHANGED waitLeft

\* A sample in progress is waited for: AFE_WaitForMeasurementComplete always
\* times out, the callback notifies the task that overwrote AFE_TaskHandle.
AfeWait ==
    /\ afePc' = IF sampleInProgress THEN "wait" ELSE "configure"
    /\ waitLeft' = IF sampleInProgress THEN WaitTicks ELSE waitLeft

\* AFE_task, a measurement command: periodic sampling stops.
AfeStop ==
    /\ afePc = "idle" /\ cmdQ # <<>>
    /\ Head(cmdQ).part \in Kinds
    /\ cmdQ' = Tail(cmdQ)
    /\ command' = Head(cmdQ)
    /\ timerOn' = (timerOn /\ ~(ongoing \/ sampleInProgress))
    /\ timerDue' = (timerDue /\ timerOn')
    /\ ongoing' = FALSE
    /\ AfeWait
    /\ UNCHANGED <<nafeVars, periodCounter, gpioVars, pinVars>>

\* The wait timed out. It preempts the GPIO task wherever that is.
AfeWake ==
    /\ afePc = "wait" /\ waitLeft = 0
    /\ afePc' = "configure"
    /\ cutOff' = (gpioPc = "read")
    /\ UNCHANGED <<nafeVars, cmdQ, command, waitLeft, timerVars, gpioPc, pinVars>>

\* AFE_ChannelConfiguration up to NAFE_init: the handle changes while the
\* interrupts of a sample that outlived the wait are still enabled.
AfeConfigure ==
    /\ afePc = "configure"
    /\ kind' = command.part
    /\ afePc' = "start"
    /\ UNCHANGED <<devSampleMode, nonBlockSampleState, contSampleCnt, irqOn, sampleInProgress,
                   deviceVars, cmdQ, command, waitLeft, timerVars, gpioVars, pinVars>>

\* NAFE_init, and for a periodic measurement the sample timer. The reset
\* clears the outputs and nothing writes them again.
AfeReset ==
    /\ afePc = "start"
    /\ NAFE_init
    /\ pins' = 0
    /\ afePc' = IF kind \in Periodic THEN "idle" ELSE "single"
    /\ timerOn' = (kind \in Periodic)
    /\ ongoing' = timerOn'
    /\ UNCHANGED <<cmdQ, command, waitLeft, timerDue, periodCounter, gpioVars,
                   gpioCmdQ, outStatus, pinsIn, inputQ, inStatus>>

\* AFE_StartSingleMeasurement, the rest.
AfeSingle ==
    /\ afePc = "single"
    /\ sampleInProgress' = TRUE
    /\ NAFE_startSample
    /\ afePc' = "idle"
    /\ UNCHANGED <<cmdQ, command, waitLeft, timerVars, gpioVars, pinVars>>

-----------------------------------------------------------------------------
(* Interrupts *)

\* TIMER_callback: a sample still in progress is a schedule error, and this
\* period has no sample.
TimerIsr ==
    /\ timerDue /\ timerDue' = FALSE
    /\ IF sampleInProgress
       THEN UNCHANGED nafeVars
       ELSE /\ sampleInProgress' = TRUE
            /\ NAFE_startSample
    /\ UNCHANGED <<taskVars, ongoing, timerOn, periodCounter, gpioVars, pinVars>>

\* Mutant: the command leaves the queue and the pins are not written.
CallbackOutputsUnwritten ==
    /\ gpioCmdQ' = IF gpioCmdQ = <<>> THEN <<>> ELSE Tail(gpioCmdQ)
    /\ UNCHANGED pins

\* AFE_callback after a periodic sample: the oldest queued command, if any,
\* is written to the pins.
CallbackOutputs ==
    IF gpioCmdQ = <<>>
    THEN UNCHANGED <<gpioCmdQ, pins>>
    ELSE /\ pins' = Head(gpioCmdQ)
         /\ gpioCmdQ' = Tail(gpioCmdQ)

\* ... and every InputEvery samples the input pins are read.
CallbackInputs ==
    IF periodCounter >= InputEvery
    THEN /\ periodCounter' = 1
         /\ inputQ' = Sent(inputQ, pinsIn)
    ELSE /\ periodCounter' = periodCounter + 1
         /\ UNCHANGED inputQ

\* The last round of a measurement and the callback it calls.
SampleDone ==
    /\ LastRound
    /\ sampleInProgress' = FALSE
    /\ IF kind \in Periodic
       THEN CallbackInputs /\ CallbackOutputs
       ELSE UNCHANGED <<periodCounter, inputQ, gpioCmdQ, pins>>
    /\ UNCHANGED <<taskVars, ongoing, timerOn, timerDue, gpioVars, outStatus, pinsIn, inStatus>>

Isr == SpiModeSent \/ DrdyIsr \/ SpiRound

\* The driver and the device on their own.
Nafe ==
    /\ DeviceReady \/ Isr
    /\ UNCHANGED <<taskVars, timerVars, gpioVars, pinVars>>

-----------------------------------------------------------------------------
(* GPIO task *)

\* Mutant: only the periodic measurements are respected.
GpioMayReadIfIdle == ~ongoing

\* The GPIO task reads the device itself when no measurement runs.
GpioMayRead == ~ongoing /\ ~sampleInProgress

\* GPIO_ControlTask, the check and the start of NAFE_gpioReadData.
GpioCheck ==
    /\ GoalRuns
    /\ GpioMayRead
    /\ gpioPc' = "read" /\ cutOff' = FALSE
    /\ UNCHANGED <<nafeVars, taskVars, timerVars, pinVars>>

\* ... and its end: RIOP_SetAfeDigitalInputPinsStatus.
GpioRead ==
    /\ AfeBlocked /\ gpioPc = "read"
    /\ inStatus' = pinsIn
    /\ gpioPc' = "sleep" /\ cutOff' = FALSE
    /\ UNCHANGED <<nafeVars, taskVars, timerVars, gpioCmdQ, pins, outStatus, pinsIn, inputQ>>

\* Mutant: the status is looked at and left in the queue.
GpioReceivePeek ==
    /\ GoalRuns
    /\ ~GpioMayRead /\ ongoing /\ inputQ # <<>>
    /\ inStatus' = Head(inputQ)
    /\ UNCHANGED <<nafeVars, taskVars, timerVars, gpioVars, gpioCmdQ, pins, outStatus, pinsIn, inputQ>>

\* While sampling it takes one status from the callback's queue.
GpioReceive ==
    /\ GoalRuns
    /\ ~GpioMayRead /\ ongoing /\ inputQ # <<>>
    /\ inStatus' = Head(inputQ)
    /\ inputQ' = Tail(inputQ)
    /\ UNCHANGED <<nafeVars, taskVars, timerVars, gpioVars, gpioCmdQ, pins, outStatus, pinsIn>>

-----------------------------------------------------------------------------
(* The world *)

PinChange ==
    /\ pinsIn < PinMax
    /\ pinsIn' = pinsIn + 1
    /\ UNCHANGED <<nafeVars, taskVars, timerVars, gpioVars, gpioCmdQ, pins, outStatus, inputQ, inStatus>>

\* The next sampling period: frames and task steps are over by then, but for
\* the GPIO task's, which the end of the AFE task's wait may cut off.
Tick ==
    /\ AfeBlocked
    /\ spi = "idle" /\ ~timerDue
    /\ ~(conv = "drdy" /\ irqOn)
    /\ conv = "converting" => convLeft > 0
    /\ gpioPc = "read" => afePc = "wait" /\ waitLeft = 1
    /\ convLeft' = IF convLeft > 0 THEN convLeft - 1 ELSE 0
    /\ waitLeft' = IF waitLeft > 0 THEN waitLeft - 1 ELSE 0
    /\ timerDue' = timerOn
    /\ UNCHANGED <<handleVars, sampleInProgress, spi, devMode, conv, cmdQ, afePc,
                   command, ongoing, timerOn, periodCounter, gpioVars, pinVars>>

Afe  == AfeGpio \/ AfeStop \/ AfeWake \/ AfeConfigure \/ AfeReset \/ AfeSingle
Gpio == GpioCheck \/ GpioRead \/ GpioReceive

Next ==
    \/ \E c \in Commands : HandOver(c)
    \/ Afe \/ Gpio
    \/ Nafe \/ SampleDone \/ TimerIsr
    \/ PinChange \/ Tick

Spec == Init /\ [][Next]_vars

\* The hardware and its interrupts are fair, and so is the scheduler to the
\* AFE task, which outranks every other task of this core, and to a read the
\* GPIO task has begun. No command need come, the pins need not change and
\* the GPIO task need not begin a read.
SamplingFairness ==
    /\ WF_vars(Afe) /\ WF_vars(GpioRead)
    /\ WF_vars(Nafe) /\ WF_vars(SampleDone) /\ WF_vars(TimerIsr)

-----------------------------------------------------------------------------
(* Properties *)

\* A measurement in progress is always heading for its end: a frame is on the
\* bus with its interrupt enabled, or the device is converting in the mode the
\* driver waits on, or it has raised DRDY. The timer and the wait both count
\* on sampleInProgress being cleared (afe_task.c, TIMER_callback, AFE_task).
SamplingAlive ==
    sampleInProgress =>
        /\ irqOn
        /\ \/ nonBlockSampleState = "modeCmdSent" /\ spi \in Kinds
           \/ nonBlockSampleState = "waitForReady" /\ conv # "idle"
           \/ nonBlockSampleState = "rxClkSending" /\ spi = "rx"

\* A finished sample was taken by the device in the mode the handle is
\* configured for, so AFE_callback sends it to the queue it belongs to.
Routed ==
    [][sampleInProgress /\ ~sampleInProgress' => devMode = kind]_vars

\* The GPIO task's frame shares the bus with a sample only when the AFE task
\* cut it off at the end of its wait; no interrupt starts a sample over it.
BusShared == gpioPc = "read" /\ sampleInProgress => cutOff

\* The AFE task reconfigures the handle and resets the device only after the
\* sample in progress has ended (AFE_WaitForMeasurementComplete).
NeverBrokenOff == ~(afePc = "configure" /\ sampleInProgress)

=============================================================================
