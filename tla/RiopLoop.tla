-------------------------------- MODULE RiopLoop ------------------------------
(***************************************************************************)
(* The application loop (digital_io.c), called by the GOAL main loop as    *)
(* fast as it comes round: once per period of the mode it looks at the     *)
(* mode the controller has chosen and marks at most one part of the        *)
(* command block dirty, which ICC_DataHandleTask then hands over.          *)
(*                                                                         *)
(* Time is a number of ticks since tim, the cycle count up to which the    *)
(* periods are accounted for. A period that was missed is made up for, but *)
(* the cycle counter has 32 bits: a loop held up for as long as it takes   *)
(* to wrap (5.4 s at 792 MHz) knows nothing of that time any more.         *)
(***************************************************************************)
EXTENDS ApiRiop

CONSTANTS
    Modes,        \* fsm_mode: 0 cycles, 1..6 as digital_io.c, others idle
    McuMax,       \* the MCU output words are numbered 0..McuMax
    ShortPeriod,  \* 20 ms
    LongPeriod,   \* 200 ms
    TempPeriod,   \* 3000 ms
    CycleWrap,    \* ticks after which CYCCNT repeats (2^32 cycles)
    LvEvery       \* periods between two reference measurements (8)

ASSUME LoopAssumption ==
    /\ Modes \subseteq Nat /\ McuMax \in Nat
    /\ ShortPeriod \in Nat /\ LongPeriod \in Nat /\ TempPeriod \in Nat
    /\ CycleWrap \in Nat
    /\ \A period \in {ShortPeriod, LongPeriod, TempPeriod} : period + 1 < CycleWrap
    /\ LvEvery \in Nat \ {0}

VARIABLES
    fsm_mode,     \* mode chosen by the controller
    image,        \* riop_command: the output words of the controller
    last_mode,    \* mode the loop last acted on
    tim_first,    \* the next call uses the first period
    elapsed,      \* ticks since tim, as CYCCNT - tim shows them
    fsm,          \* position in the cycle of mode 0
    pass,         \* the pass counters of modes 0 and 3
    afe_last,     \* AFE output word last handed over in mode 4
    mcu_last      \* MCU output word last handed over in mode 5

modeVars == <<last_mode, tim_first, fsm, pass, afe_last, mcu_last>>
loopVars == <<fsm_mode, image, elapsed, modeVars>>

Images == [afe : 0..GpioMax, mcu : 0..McuMax]

LoopTypeOK ==
    /\ fsm_mode \in Modes \cup {0} /\ last_mode \in Modes \cup {0}
    /\ image \in Images
    /\ tim_first \in BOOLEAN /\ elapsed \in 0..(CycleWrap - 1)
    /\ fsm \in 0..5 /\ pass \in [{0, 3} -> 0..(LvEvery - 1)]
    /\ afe_last \in 0..GpioMax /\ mcu_last \in 0..McuMax

LoopInit ==
    /\ fsm_mode = 0 /\ last_mode = 0
    /\ image = [afe |-> 0, mcu |-> 0]
    /\ tim_first = FALSE /\ elapsed = 0
    /\ fsm = 0 /\ pass = [m \in {0, 3} |-> 0]
    /\ afe_last = 0 /\ mcu_last = 0

-----------------------------------------------------------------------------
(* The period *)

\* Mutant: the temperature is measured at the period of the other modes.
PeriodOfShort(m) == IF m \in {1, 2, 4, 5, 6} THEN ShortPeriod ELSE LongPeriod

\* tim_mode, a function of the mode last acted on.
PeriodOf(m) ==
    CASE m \in {1, 2, 4, 5} -> ShortPeriod
      [] m = 6 -> TempPeriod
      [] OTHER -> LongPeriod

\* time: the call after a change of mode takes 200 ms whatever the mode.
Time == IF tim_first THEN LongPeriod ELSE PeriodOf(last_mode)

LoopDue == elapsed > Time

-----------------------------------------------------------------------------
(* One step *)

ModeChanged == last_mode # fsm_mode

\* Mode 0 goes through six steps, one per period.
NextFsm ==
    LET from == IF ModeChanged THEN 0 ELSE fsm
    IN  IF fsm_mode = 0 THEN (from + 1) % 6 ELSE from

\* Mutant: the counter starts over with every step.
NextPassRestarted ==
    IF fsm_mode = 3 \/ (fsm_mode = 0 /\ NextFsm = 5)
    THEN [pass EXCEPT ![fsm_mode] = 1 % LvEvery]
    ELSE pass

\* Mutant: the counter is not set back after the last pass.
NextPassUnreset ==
    IF fsm_mode = 3 \/ (fsm_mode = 0 /\ NextFsm = 5)
    THEN [pass EXCEPT ![fsm_mode] = @ + 1]
    ELSE pass

\* A pass of mode 3, or of mode 0 at its step 5.
NextPass ==
    IF fsm_mode = 3 \/ (fsm_mode = 0 /\ NextFsm = 5)
    THEN [pass EXCEPT ![fsm_mode] = (@ + 1) % LvEvery]
    ELSE pass

PassComplete(m) == NextPass[m] = 0

\* The part sent by a step of mode 0.
CyclePart ==
    CASE NextFsm = 0 -> "gpio"
      [] NextFsm = 2 -> "hv"
      [] NextFsm = 3 -> "mcu"
      [] NextFsm = 4 -> "current"
      [] NextFsm = 5 /\ PassComplete(0) -> "lv"
      [] OTHER -> "none"

\* Mutant: a periodic mode is taken to sample already when it begins.
EntryPartUncommanded ==
    CASE fsm_mode = 3 -> "lv"
      [] fsm_mode = 4 -> "gpio"
      [] fsm_mode = 5 -> "mcu"
      [] fsm_mode = 6 -> "temp"
      [] OTHER -> "none"

\* The part sent when a mode begins.
EntryPart ==
    CASE fsm_mode = 1 -> "hv"
      [] fsm_mode = 2 -> "current"
      [] fsm_mode = 3 -> "lv"
      [] fsm_mode = 4 -> "gpio"
      [] fsm_mode = 5 -> "mcu"
      [] fsm_mode = 6 -> "temp"
      [] OTHER -> "none"

\* Mutant: the MCU outputs are sent whether or not they changed.
RepeatPartUnchanged ==
    CASE fsm_mode = 3 /\ PassComplete(3) -> "lv"
      [] fsm_mode = 4 /\ afe_last # image.afe -> "gpio"
      [] fsm_mode = 5 -> "mcu"
      [] fsm_mode = 6 -> "temp"
      [] OTHER -> "none"

\* The part sent by a later step: periodic sampling goes on by itself, the
\* single measurements are repeated, outputs are sent when they change.
RepeatPart ==
    CASE fsm_mode = 3 /\ PassComplete(3) -> "lv"
      [] fsm_mode = 4 /\ afe_last # image.afe -> "gpio"
      [] fsm_mode = 5 /\ mcu_last # image.mcu -> "mcu"
      [] fsm_mode = 6 -> "temp"
      [] OTHER -> "none"

\* The part of riop_command that a step marks dirty, all others being clean.
DirtyPart ==
    CASE fsm_mode = 0 -> CyclePart
      [] fsm_mode # 0 /\ ModeChanged -> EntryPart
      [] OTHER -> RepeatPart

\* appl_loop when the period is over; DirtyPart goes to ICC_DataHandleTask.
LoopStep ==
    /\ LoopDue
    /\ elapsed' = elapsed - Time
    /\ tim_first' = ModeChanged
    /\ last_mode' = fsm_mode
    /\ fsm' = NextFsm
    /\ pass' = NextPass
    /\ afe_last' = IF fsm_mode = 4 THEN image.afe ELSE afe_last
    /\ mcu_last' = IF fsm_mode = 5 THEN image.mcu ELSE mcu_last
    /\ UNCHANGED <<fsm_mode, image>>

\* appl_loop when it is not: only the first period is used up.
LoopPoll ==
    /\ ~LoopDue
    /\ tim_first /\ tim_first' = FALSE
    /\ UNCHANGED <<fsm_mode, image, elapsed, last_mode, fsm, pass, afe_last, mcu_last>>

-----------------------------------------------------------------------------
(* What moves the loop *)

\* The fieldbus writes the mode and the output words (goal_appl*.c).
Exchange(m, i) ==
    /\ fsm_mode' = m
    /\ image' = i
    /\ UNCHANGED <<elapsed, modeVars>>

\* n ticks pass without a call; the difference of the counts wraps.
LoopWaits(n) ==
    /\ elapsed' = (elapsed + n) % CycleWrap
    /\ UNCHANGED <<fsm_mode, image, modeVars>>

=============================================================================
