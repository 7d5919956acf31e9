-------------------------------- MODULE PnioLoop ------------------------------
(***************************************************************************)
(* The PROFINET application (appl/profinet/riop/goal_appl.c) around the    *)
(* application loop: once per timeout it copies the controller's output    *)
(* items one by one into riop_command, and an item the stack refuses ends  *)
(* the round, application loop included. MCU outputs are followed to their *)
(* pins (icc_task.c, gpio_task.c); AFE commands are the matter of          *)
(* RiopSystem and go nowhere here.                                         *)
(*                                                                         *)
(* The controller writes one number to the AFE and to the MCU outputs, so  *)
(* that words of different frames differ. The stack runs in the GOAL task  *)
(* like the application: no frame arrives between two items of a round.    *)
(***************************************************************************)
EXTENDS RiopLoop

CONSTANTS
    Ars,          \* application relations (connections) of controllers
    NoAr,         \* idAr = 0
    TriggerVal,   \* APPL_TIMEOUT_TRIGGER_VAL (1 s)
    GpioCycle,    \* period of the GPIO task (50 ms)
    LateMax       \* ticks the application loop may be late when rounds go well

ASSUME PnioAssumption ==
    /\ NoAr \notin Ars
    /\ TriggerVal \in Nat /\ GpioCycle \in Nat \ {0} /\ LateMax \in Nat
    /\ McuMax <= GpioMax

VARIABLES
    ready,        \* relations whose application-ready was confirmed
    frame,        \* the controller's outputs in the stack
    flgAppReady,  \* data are exchanged
    idAr,         \* the relation they are exchanged for
    tsLeft,       \* ticks left until mTsTout
    gpio_command_queue,
    mcuPins,      \* the MCU output pins
    gpioLeft      \* ticks left of the GPIO task's sleep

arVars  == <<ready, flgAppReady, idAr>>
mcuVars == <<gpio_command_queue, mcuPins, gpioLeft>>
pnioVars == <<loopVars, arVars, frame, tsLeft, mcuVars>>

Frames == [word : 0..McuMax, mode : Modes]

PnioTypeOK ==
    /\ LoopTypeOK
    /\ ready \subseteq Ars /\ idAr \in Ars \cup {NoAr}
    /\ flgAppReady \in BOOLEAN
    /\ frame \in Frames /\ tsLeft \in 0..TriggerVal
    /\ gpio_command_queue \in Seq(0..McuMax) /\ Len(gpio_command_queue) <= QueueLen
    /\ mcuPins \in 0..McuMax /\ gpioLeft \in 0..GpioCycle

PnioInit ==
    /\ LoopInit
    /\ ready = {} /\ flgAppReady = FALSE /\ idAr = NoAr
    /\ frame \in {f \in Frames : f.word = 0}
    /\ tsLeft = 0
    /\ gpio_command_queue = <<>> /\ mcuPins = 0 /\ gpioLeft = 0

-----------------------------------------------------------------------------
(* main_callback *)

\* GOAL_PNIO_CB_ID_APPL_READY: the first relation starts the exchange. To set
\* it up takes the stack longer than the GPIO task needs for its few commands.
ApplReady(ar) ==
    /\ ar \notin ready /\ gpio_command_queue = <<>>
    /\ ready' = ready \cup {ar}
    /\ IF flgAppReady
       THEN UNCHANGED <<flgAppReady, idAr>>
       ELSE flgAppReady' = TRUE /\ idAr' = ar
    /\ UNCHANGED <<loopVars, frame, tsLeft, mcuVars>>

\* Mutant: whichever relation is released, the exchange goes on.
ReleasedKept(ar) == UNCHANGED <<flgAppReady, idAr>>

Released(ar) ==
    IF idAr = ar
    THEN flgAppReady' = FALSE /\ idAr' = NoAr
    ELSE UNCHANGED <<flgAppReady, idAr>>

\* GOAL_PNIO_CB_ID_RELEASE_AR: the end of the first relation ends it.
ReleaseAr(ar) ==
    /\ ar \in ready
    /\ ready' = ready \ {ar}
    /\ Released(ar)
    /\ UNCHANGED <<loopVars, frame, tsLeft, mcuVars>>

-----------------------------------------------------------------------------
(* appl_loop *)

ExchangeDue == flgAppReady /\ tsLeft = 0

\* Mutant: the timeout starts anew although the round was not finished.
TimeoutAfterFailureRestarted == tsLeft' = TriggerVal

\* A round that fails leaves the timeout alone: the next call tries again.
TimeoutAfterFailure == UNCHANGED tsLeft

\* The first n of the AFE and the MCU outputs come from the frame.
Copied(n) == [afe |-> IF n > 0 THEN frame.word ELSE image.afe,
              mcu |-> IF n > 1 THEN frame.word ELSE image.mcu]

\* The stack refuses an item: inputs or outputs, at the latest the mode.
ExchangeFails ==
    /\ ExchangeDue
    /\ \E n \in 0..2 : Exchange(fsm_mode, Copied(n))
    /\ TimeoutAfterFailure
    /\ UNCHANGED <<arVars, frame, mcuVars>>

\* All items are copied, the mode last; then the timeout is set.
ExchangeDone ==
    /\ ExchangeDue
    /\ Exchange(frame.mode, Copied(2))
    /\ tsLeft' = TriggerVal
    /\ UNCHANGED <<arVars, frame, mcuVars>>

\* riop_appl_loop when no exchange is due any more; ICC_DataHandleTask sends
\* the MCU outputs to the GPIO task's queue.
Loop ==
    /\ ~ExchangeDue
    /\ LoopStep
    /\ gpio_command_queue' = IF DirtyPart = "mcu"
                             THEN Sent(gpio_command_queue, image.mcu)
                             ELSE gpio_command_queue
    /\ UNCHANGED <<arVars, frame, tsLeft, mcuPins, gpioLeft>>

Poll ==
    /\ ~ExchangeDue
    /\ LoopPoll
    /\ UNCHANGED <<arVars, frame, tsLeft, mcuVars>>

-----------------------------------------------------------------------------
(* GPIO_ControlTask *)

\* Mutant: the oldest command is written and the others thrown away.
McuOutputsFlushed ==
    IF gpio_command_queue = <<>>
    THEN UNCHANGED <<gpio_command_queue, mcuPins>>
    ELSE /\ mcuPins' = Head(gpio_command_queue)
         /\ gpio_command_queue' = <<>>

\* Mutant: the pins are written whether or not a command was received, with
\* what is on the stack.
McuOutputsUnchecked ==
    /\ mcuPins' = IF gpio_command_queue = <<>> THEN McuMax + 1 ELSE Head(gpio_command_queue)
    /\ gpio_command_queue' = IF gpio_command_queue = <<>> THEN <<>> ELSE Tail(gpio_command_queue)

\* At most one command is taken in a cycle.
McuOutputs ==
    IF gpio_command_queue = <<>>
    THEN UNCHANGED <<gpio_command_queue, mcuPins>>
    ELSE /\ mcuPins' = Head(gpio_command_queue)
         /\ gpio_command_queue' = Tail(gpio_command_queue)

Gpio ==
    /\ gpioLeft = 0 /\ gpioLeft' = GpioCycle
    /\ McuOutputs
    /\ UNCHANGED <<loopVars, arVars, frame, tsLeft>>

-----------------------------------------------------------------------------
(* The world *)

\* The controller writes its outputs.
Control(f) ==
    /\ frame' = f
    /\ UNCHANGED <<loopVars, arVars, tsLeft, mcuVars>>

\* The GPIO task is on time. The application loop, the lowest task, is held up
\* by the others for LateMax ticks at most, and by rounds that fail or do not
\* come for any time; what it may have to make up for only CYCCNT limits.
Tick ==
    /\ gpioLeft > 0 /\ gpioLeft' = gpioLeft - 1
    /\ ~ExchangeDue => elapsed <= Time + LateMax
    /\ LoopWaits(1)
    /\ tsLeft' = IF tsLeft > 0 THEN tsLeft - 1 ELSE 0
    /\ UNCHANGED <<arVars, frame, gpio_command_queue, mcuPins>>

PnioNext ==
    \/ \E ar \in Ars : ApplReady(ar) \/ ReleaseAr(ar)
    \/ ExchangeFails \/ ExchangeDone \/ Loop \/ Poll
    \/ Gpio \/ Tick
    \/ \E f \in Frames : Control(f)

PnioSpec == PnioInit /\ [][PnioNext]_pnioVars

\* The clock goes on and both tasks get to run; the stack does not refuse the
\* items for ever while the relation is up.
PnioFairSpec ==
    /\ PnioSpec
    /\ WF_pnioVars(ExchangeDone)
    /\ WF_pnioVars(Loop \/ Poll) /\ WF_pnioVars(Gpio) /\ WF_pnioVars(Tick)

-----------------------------------------------------------------------------
(* Properties *)

\* Data are exchanged for a relation that is up: neither the order in which
\* relations come and go nor one that was ignored leaves the flag behind.
ArServed ==
    /\ flgAppReady => idAr \in ready
    /\ ~flgAppReady => idAr = NoAr

\* While connected, the application loop acts on the words of one frame,
\* though a round may end between two items: the mix is completed first.
ConnectedWhole ==
    [][Loop /\ flgAppReady => image.afe = image.mcu]_pnioVars

\* No MCU command finds the queue full, though the loop makes up at once for all
\* the periods that rounds that failed cost it, and relations come and go:
\* outputs change once in a round, which is longer than two cycles of the GPIO
\* task, and the cycle counter forgets more than CycleWrap.
NothingDropped ==
    [][Loop /\ DirtyPart = "mcu" => Len(gpio_command_queue) < QueueLen]_pnioVars

\* When a relation stays up and the controller leaves its outputs alone, the
\* MCU pins come to show them for good, in the cycle of mode 0 and in the
\* change detection of mode 5, whatever the rounds that failed.
OutputsReach ==
    \A f \in {g \in Frames : g.mode \in {0, 5}} :
        <>[](flgAppReady /\ frame = f) => <>[](mcuPins = f.word)

=============================================================================
