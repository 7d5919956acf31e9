--------------------------- MODULE RiopSystemProofs ---------------------------
(***************************************************************************)
(* The application loop over AFE sampling: its variables keep their types, *)
(* and the whole behaves as AfeSampling does, so that the theorems about   *)
(* commands from anywhere hold for the commands of the mode machine. No    *)
(* sample is broken off while the loop gives long measurements their time. *)
(***************************************************************************)
EXTENDS RiopSystem, AfeSamplingProofs, RiopLoopProofs

-----------------------------------------------------------------------------
(* The application loop *)

LEMMA SysStepType == LoopTypeOK /\ [SysNext]_sysVars => LoopTypeOK'
<1> SUFFICES ASSUME LoopTypeOK, [SysNext]_sysVars PROVE LoopTypeOK'
  OBVIOUS
<1>1. CASE Loop
  BY <1>1, LoopStepType DEF Loop
<1>2. CASE Poll
  BY <1>2, LoopPollType DEF Poll
<1>3. CASE Control
  BY <1>3, ExchangeType DEF Control
<1>4. CASE Reset \/ SysTick
  BY <1>4, SystemAssumption, LoopWaitsType DEF Reset, SysTick
<1>5. CASE UNCHANGED loopVars
  BY <1>5 DEF loopVars, modeVars, LoopTypeOK
<1>6. QED
  BY <1>1, <1>2, <1>3, <1>4, <1>5 DEF SysNext, sysVars

-----------------------------------------------------------------------------
(* The composition implements AFE sampling *)

\* A step of the loop hands a command over, or does nothing to the sampling.
LEMMA LoopHandsOver == LoopTypeOK /\ Loop => [Next]_vars
<1> SUFFICES ASSUME LoopTypeOK, Loop PROVE [Next]_vars
  OBVIOUS
<1>1. CASE DirtyPart \in Parts
  <2> DEFINE c == [part |-> DirtyPart, out |-> IF DirtyPart = "gpio" THEN image.afe ELSE 0]
  <2>1. c \in Commands
    BY <1>1, ApiAssumption DEF Commands, LoopTypeOK, Images
  <2>2. HandOver(c)
    BY <1>1 DEF Loop
  <2>3. QED
    BY <2>1, <2>2 DEF Next
<1>2. CASE DirtyPart \notin Parts
  BY <1>2 DEF Loop
<1>3. QED
  BY <1>1, <1>2

LEMMA SysStepSamples == LoopTypeOK /\ [SysNext]_sysVars => [Next]_vars
<1> SUFFICES ASSUME LoopTypeOK, [SysNext]_sysVars PROVE [Next]_vars
  OBVIOUS
<1>1. CASE Loop
  BY <1>1, LoopHandsOver
<1>2. CASE Poll \/ Control \/ UNCHANGED sysVars
  BY <1>2 DEF Poll, Control, sysVars
<1>3. CASE Reset \/ SysTick
  BY <1>3 DEF Reset, SysTick, Next, Afe
<1>4. CASE Sampling
  BY <1>4 DEF Sampling, AfeOther, Next, Afe
<1>5. QED
  BY <1>1, <1>2, <1>3, <1>4 DEF SysNext

-----------------------------------------------------------------------------
(* The theorems *)

\* The mode machine keeps its types: however late it is called, its time never
\* runs backwards, and the passes and the cycle wrap where the code wraps them.
THEOREM LoopTypeCorrect == SysSpec => []LoopTypeOK
<1>1. SysInit => LoopTypeOK
  BY LoopInitType DEF SysInit
<1>2. QED
  BY <1>1, SysStepType, PTL DEF SysSpec

\* Under the mode machine, AFE sampling does only what it does under commands
\* from anywhere: the loop hands over nothing but commands of the command
\* block, and only while the AFE and the GPIO task are blocked.
THEOREM SystemImplementsSampling == SysSpec => Spec
<1>1. SysInit => Init
  BY DEF SysInit
<1>2. QED
  BY <1>1, LoopTypeCorrect, SysStepSamples, PTL DEF SysSpec, Spec

\* So the GPIO task's frames never meet a sample that did not cut them off.
THEOREM SystemSharesBus == SysSpec => []BusShared
BY SystemImplementsSampling, BusIsShared, PTL

\* ... and in every mode a measurement that is given the time it takes is
\* brought to its end, whatever the periods of the loop.
THEOREM SystemAliveUnlessBrokenOff == SysSpec /\ []NeverBrokenOff => []SamplingAlive
BY SystemImplementsSampling, AliveUnlessBrokenOff, PTL

-----------------------------------------------------------------------------
(* Measurements and the wait *)

\* A command that comes into the queue comes from the loop.
LEMMA HandedOverByLoop ==
    ASSUME TypeOK, [SysNext]_sysVars, NEW c \in Commands, HandOver(c), vars' # vars
    PROVE  Loop /\ DirtyPart = c.part
<1>1. cmdQ \in Seq(Commands) /\ cmdQ' = Append(cmdQ, c) /\ cmdQ' # cmdQ
  <2>1. cmdQ \in Seq(Commands)
    BY DEF TypeOK
  <2>2. cmdQ' # cmdQ
    BY DEF HandOver, vars, nafeVars, taskVars
  <2>3. QED
    BY <2>1, <2>2 DEF HandOver, Sent
<1>2. Len(cmdQ') = Len(cmdQ) + 1 /\ cmdQ'[Len(cmdQ) + 1] = c /\ Len(cmdQ) \in Nat
  BY <1>1
<1>3. CASE Loop
  <2> DEFINE d == [part |-> DirtyPart, out |-> IF DirtyPart = "gpio" THEN image.afe ELSE 0]
  <2>1. cmdQ' = Sent(cmdQ, d)
    BY <1>1, <1>3 DEF Loop, HandOver, vars, taskVars
  <2>2. d.part = DirtyPart
    OBVIOUS
  <2> HIDE DEF d
  <2>3. cmdQ' = Append(cmdQ, d)
    BY <1>1, <2>1 DEF Sent
  <2>4. cmdQ'[Len(cmdQ) + 1] = d
    BY <1>1, <2>3
  <2>5. QED
    BY <1>2, <1>3, <2>2, <2>4
<1>4. CASE Poll \/ Control \/ UNCHANGED sysVars
  BY <1>4 DEF Poll, Control, sysVars
<1>5. CASE Reset \/ SysTick
  BY <1>1, <1>5 DEF Reset, SysTick, AfeReset, Tick
<1>6. CASE Sampling
  <2>1. CASE AfeGpio \/ AfeStop
    <3>1. cmdQ # <<>> /\ cmdQ' = Tail(cmdQ)
      BY <2>1 DEF AfeGpio, AfeStop
    <3>2. Len(cmdQ') = Len(cmdQ) - 1
      BY <1>1, <3>1
    <3>3. QED
      BY <1>2, <3>2
  <2>2. CASE AfeWake \/ AfeConfigure \/ AfeSingle \/ Gpio \/ Nafe \/ SampleDone \/ TimerIsr
               \/ PinChange
    BY <1>1, <2>2 DEF AfeWake, AfeConfigure, AfeSingle, Gpio, GpioCheck, GpioRead, GpioReceive,
       Nafe, SampleDone, TimerIsr, PinChange, taskVars
  <2>3. QED
    BY <1>6, <2>1, <2>2 DEF Sampling, AfeOther
<1>7. QED
  BY <1>3, <1>4, <1>5, <1>6 DEF SysNext

\* The mode, the periods and the controller give a long measurement its time:
\* the loop commands none before it has ended.
LoopGivesTime == Loop /\ DirtyPart \in Kinds => ~LongPending

\* In every mode, and through every change of mode, the handle is never changed
\* under a sample, every sample is heading for its end and every result is
\* routed, as long as the periodic samples end within the wait of the AFE task
\* and the loop gives a measurement that may take longer its time.
THEOREM SystemNotBrokenOff ==
    ASSUME ConvMax < WaitTicks
    PROVE  SysSpec /\ [][LoopGivesTime]_sysVars
             => []NeverBrokenOff /\ []SamplingAlive /\ Routed
<1>1. TypeOK /\ [SysNext]_sysVars /\ [LoopGivesTime]_sysVars => [TimeGiven]_vars
  <2> SUFFICES ASSUME TypeOK, [SysNext]_sysVars, [LoopGivesTime]_sysVars, vars' # vars,
                      NEW c \in Commands, HandOver(c), c.part \in Kinds
               PROVE  ~LongPending
    BY DEF TimeGiven
  <2>1. Loop /\ DirtyPart = c.part
    BY HandedOverByLoop
  <2>2. QED
    BY <2>1 DEF LoopGivesTime, sysVars
<1>2. SysSpec /\ [][LoopGivesTime]_sysVars => [][TimeGiven]_vars
  BY <1>1, SystemImplementsSampling, SamplingTypeCorrect, PTL DEF SysSpec
<1>3. QED
  BY <1>2, SystemImplementsSampling, GivenTimeNotBrokenOff, AliveUnlessBrokenOff,
     RoutedUnlessBrokenOff, PTL

\* That is so without a further condition while the loop commands no reference
\* and no temperature measurement, as in the modes 1, 2, 4 and 5, however the
\* controller changes between them.
THEOREM PeriodicModesNotBrokenOff ==
    ASSUME ConvMax < WaitTicks
    PROVE  SysSpec /\ [][Loop => DirtyPart \notin Continuous]_sysVars => []NeverBrokenOff
<1>1. \A k \in Periodic : Fits(k)
  BY DriverAssumption DEF Fits, Rounds
<1>2. TypeOK /\ [SysNext]_sysVars /\ [Loop => DirtyPart \notin Continuous]_sysVars
        => [FittingOnly]_vars
  <2> SUFFICES ASSUME TypeOK, [SysNext]_sysVars, [Loop => DirtyPart \notin Continuous]_sysVars,
                      vars' # vars, NEW c \in Commands, HandOver(c), c.part \in Kinds
               PROVE  Fits(c.part)
    BY DEF FittingOnly
  <2>1. Loop /\ DirtyPart = c.part
    BY HandedOverByLoop
  <2>2. QED
    BY <1>1, <2>1 DEF Kinds, sysVars
<1>3. QED
  BY <1>2, SystemImplementsSampling, SamplingTypeCorrect, FittingNotBrokenOff, PTL DEF SysSpec

=============================================================================
