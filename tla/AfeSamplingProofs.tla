-------------------------- MODULE AfeSamplingProofs ---------------------------
(***************************************************************************)
(* Theorems about AFE sampling, for every value of its constants: type     *)
(* correctness, that the GPIO task's frame shares the bus with a sample    *)
(* only after the AFE task cut it off, that sampling stays alive and its   *)
(* results are routed as long as no sample is broken off, and that none is *)
(* when measurements longer than the wait are given their time.            *)
(***************************************************************************)
EXTENDS AfeSampling, ApiRiopProofs

-----------------------------------------------------------------------------
(* Lemmas about the helpers *)

\* A conversion that starts has a length within its bound.
LEMMA ConversionType ==
    ASSUME NafeTypeOK, StartConversion \/ UNCHANGED <<conv, convLeft>>
    PROVE  conv' \in {"idle", "converting", "drdy"} /\ convLeft' \in 0..ConvMax
BY DEF NafeTypeOK, StartConversion

\* NAFE_startSample, with the caller's update of the handle, keeps the types.
LEMMA StartSampleType ==
    ASSUME NafeTypeOK, kind \in Kinds, NAFE_startSample, sampleInProgress' = TRUE
    PROVE  NafeTypeOK'
<1>1. CASE devSampleMode # kind
  BY <1>1 DEF NafeTypeOK, NAFE_startSample, NAFE_triggerSample
<1>2. CASE devSampleMode = kind
  <2>1. conv' \in {"idle", "converting", "drdy"} /\ convLeft' \in 0..ConvMax
    BY <1>2, ConversionType DEF NAFE_startSample, NAFE_triggerSample, SyncPulse
  <2>2. QED
    BY <1>2, <2>1 DEF NafeTypeOK, NAFE_startSample, NAFE_triggerSample
<1>3. QED
  BY <1>1, <1>2

\* The steps of the device and of its interrupts keep the types.
LEMMA NafeStepType ==
    ASSUME NafeTypeOK, nonBlockSampleState = "modeCmdSent" => kind \in Kinds, Nafe
    PROVE  NafeTypeOK'
<1>1. CASE DeviceReady
  BY <1>1 DEF NafeTypeOK, DeviceReady, handleVars
<1>2. CASE SpiModeSent
  <2>1. conv' \in {"idle", "converting", "drdy"} /\ convLeft' \in 0..ConvMax
    BY <1>2, ConversionType DEF SpiModeSent
  <2>2. QED
    BY <1>2, <2>1 DEF NafeTypeOK, SpiModeSent
<1>3. CASE DrdyIsr
  BY <1>3 DEF NafeTypeOK, DrdyIsr
<1>4. CASE SpiRound
  <2>1. conv' \in {"idle", "converting", "drdy"} /\ convLeft' \in 0..ConvMax
    BY <1>4, ConversionType DEF SpiRound
  <2>2. QED
    BY <1>4, <2>1 DEF NafeTypeOK, SpiRound
<1>5. QED
  BY <1>1, <1>2, <1>3, <1>4 DEF Nafe, Isr

-----------------------------------------------------------------------------
(* The inductive invariant *)

\* What the AFE task is about to configure is a measurement, and what the
\* timer or the task is about to sample, or the driver has commanded, is
\* configured.
HandleConfigured ==
    /\ afePc \in {"wait", "configure"} => command.part \in Kinds
    /\ afePc \in {"start", "single"} \/ timerOn => kind \in Kinds
    /\ nonBlockSampleState = "modeCmdSent" => kind \in Kinds

\* The timer runs while periodic sampling is ongoing, and not while the AFE
\* task changes the measurement.
TimerFollows ==
    /\ timerOn = ongoing
    /\ timerDue => timerOn
    /\ afePc # "idle" => ~timerOn

\* While the GPIO task reads undisturbed, no sample runs and the AFE task,
\* which alone could start one, is blocked or at the end of its wait.
ReadUndisturbed ==
    gpioPc = "read" /\ ~cutOff =>
        /\ ~sampleInProgress /\ ~ongoing
        /\ afePc = "wait" \/ (afePc = "idle" /\ cmdQ = <<>>)

IInv == TypeOK /\ HandleConfigured /\ TimerFollows /\ ReadUndisturbed

LEMMA InitIInv == Init => IInv
<1> SUFFICES ASSUME Init PROVE IInv
  OBVIOUS
<1>1. NafeTypeOK
  <2>1. sampleInProgress \in BOOLEAN /\ irqOn \in BOOLEAN
    BY Zenon DEF Init, NafeInit
  <2>2. QED
    BY <2>1, DriverAssumption DEF Init, NafeInit, NafeTypeOK
<1>2. command \in Commands
  BY ApiAssumption DEF Init, Commands, Parts
<1>3. TypeOK
  <2>1. ongoing \in BOOLEAN /\ timerOn \in BOOLEAN /\ timerDue \in BOOLEAN /\ cutOff \in BOOLEAN
    BY Zenon DEF Init
  <2>2. QED
    BY <1>1, <1>2, <2>1, SamplingAssumption, ApiAssumption DEF Init, TypeOK
<1>4. HandleConfigured /\ TimerFollows /\ ReadUndisturbed
  BY DEF Init, NafeInit, HandleConfigured, TimerFollows, ReadUndisturbed
<1>5. QED
  BY <1>3, <1>4 DEF IInv

\* Every step keeps the types.
LEMMA TypeStep == IInv /\ [Next]_vars => TypeOK'
<1> SUFFICES ASSUME IInv, [Next]_vars PROVE TypeOK'
  OBVIOUS
<1> USE SamplingAssumption, ApiAssumption, DriverAssumption DEF TypeOK
<1>0. TypeOK /\ HandleConfigured /\ TimerFollows
  BY DEF IInv
<1>1. ASSUME NEW c \in Commands, HandOver(c) PROVE TypeOK'
  <2>1. cmdQ' \in Seq(Commands) /\ Len(cmdQ') <= QueueLen
    BY <1>0, <1>1, SentType DEF HandOver
  <2>2. QED
    BY <1>0, <1>1, <2>1 DEF HandOver, nafeVars, handleVars, deviceVars, timerVars, gpioVars,
       pinVars, NafeTypeOK
<1>2. CASE AfeGpio
  <2>1. /\ Head(cmdQ) \in Commands
        /\ cmdQ' \in Seq(Commands) /\ Len(cmdQ') <= QueueLen
    BY <1>0, <1>2, TakenType DEF AfeGpio
  <2>2. command' \in Commands /\ command'.out \in 0..GpioMax
    BY <1>2, <2>1 DEF AfeGpio, Commands
  <2>3. gpioCmdQ' \in Seq(0..GpioMax) /\ Len(gpioCmdQ') <= QueueLen
    BY <1>0, <1>2, <2>2, SentType DEF AfeGpio
  <2>4. QED
    BY <1>0, <1>2, <2>1, <2>2, <2>3 DEF AfeGpio, nafeVars, handleVars, deviceVars, timerVars,
       gpioVars, NafeTypeOK
<1>3. CASE AfeStop
  <2>1. /\ Head(cmdQ) \in Commands
        /\ cmdQ' \in Seq(Commands) /\ Len(cmdQ') <= QueueLen
    BY <1>0, <1>3, TakenType DEF AfeStop
  <2>2. ongoing' \in BOOLEAN /\ timerOn' \in BOOLEAN /\ timerDue' \in BOOLEAN
    BY <1>0, <1>3 DEF AfeStop
  <2>3. QED
    BY <1>0, <1>3, <2>1, <2>2 DEF AfeStop, AfeWait, nafeVars, handleVars, deviceVars,
       gpioVars, pinVars, NafeTypeOK
<1>4. CASE AfeWake
  BY <1>0, <1>4 DEF AfeWake, nafeVars, handleVars, deviceVars, timerVars, pinVars, NafeTypeOK
<1>5. CASE AfeConfigure
  BY <1>0, <1>5 DEF AfeConfigure, HandleConfigured, deviceVars, timerVars, gpioVars, pinVars,
     NafeTypeOK
<1>6. CASE AfeReset
  <2>1. NafeTypeOK'
    <3>1. irqOn' \in BOOLEAN
      BY <1>6, Zenon DEF AfeReset, NAFE_init
    <3>2. QED
      BY <1>0, <1>6, <3>1 DEF AfeReset, NAFE_init, NafeTypeOK
  <2>2. ongoing' \in BOOLEAN /\ timerOn' \in BOOLEAN /\ timerDue' \in BOOLEAN
    <3>1. (kind \in Periodic) \in BOOLEAN
      OBVIOUS
    <3>2. timerOn' = (kind \in Periodic) /\ ongoing' = timerOn' /\ timerDue' = timerDue
      BY <1>6, Zenon DEF AfeReset
    <3>3. QED
      BY <1>0, <3>1, <3>2, Zenon
  <2>3. QED
    BY <1>0, <1>6, <2>1, <2>2 DEF AfeReset, gpioVars
<1>7. CASE AfeSingle
  <2>1. NafeTypeOK'
    BY <1>0, <1>7, StartSampleType DEF AfeSingle, HandleConfigured
  <2>2. QED
    BY <1>0, <1>7, <2>1 DEF AfeSingle, timerVars, gpioVars, pinVars
<1>8. CASE GpioCheck
  <2>1. cutOff' \in BOOLEAN
    BY <1>8, Zenon DEF GpioCheck
  <2>2. QED
    BY <1>0, <1>8, <2>1 DEF GpioCheck, nafeVars, handleVars, deviceVars, taskVars, timerVars,
       pinVars, NafeTypeOK
<1>9. CASE GpioRead
  <2>1. cutOff' \in BOOLEAN
    BY <1>9, Zenon DEF GpioRead
  <2>2. QED
    BY <1>0, <1>9, <2>1 DEF GpioRead, nafeVars, handleVars, deviceVars, taskVars, timerVars,
       NafeTypeOK
<1>10. CASE GpioReceive
  <2>1. /\ inStatus' \in 0..PinMax
        /\ inputQ' \in Seq(0..PinMax) /\ Len(inputQ') <= QueueLen
    BY <1>0, <1>10, TakenType DEF GpioReceive
  <2>2. QED
    BY <1>0, <1>10, <2>1 DEF GpioReceive, nafeVars, handleVars, deviceVars, taskVars, timerVars,
       gpioVars, NafeTypeOK
<1>11. CASE Nafe
  <2>1. NafeTypeOK'
    BY <1>0, <1>11, NafeStepType DEF HandleConfigured
  <2>2. QED
    BY <1>0, <1>11, <2>1 DEF Nafe, taskVars, timerVars, gpioVars, pinVars
<1>12. CASE SampleDone
  <2>1. NafeTypeOK'
    <3>1. contSampleCnt' \in Nat
      BY <1>0, <1>12 DEF SampleDone, LastRound, NafeTypeOK
    <3>2. devMode' \in Kinds \cup {"none"}
      BY <1>0, <1>12 DEF SampleDone, LastRound, NAFE_terminateSample, NafeTypeOK
    <3>3. sampleInProgress' \in BOOLEAN /\ irqOn' \in BOOLEAN
      BY <1>12, Zenon DEF SampleDone, LastRound
    <3>4. QED
      BY <1>0, <1>12, <3>1, <3>2, <3>3 DEF SampleDone, LastRound, NAFE_terminateSample, NafeTypeOK
  <2>2. /\ periodCounter' \in 0..InputEvery
        /\ inputQ' \in Seq(0..PinMax) /\ Len(inputQ') <= QueueLen
    BY <1>0, <1>12, SentType DEF SampleDone, CallbackInputs
  <2>3. /\ pins' \in 0..GpioMax
        /\ gpioCmdQ' \in Seq(0..GpioMax) /\ Len(gpioCmdQ') <= QueueLen
    BY <1>0, <1>12, TakenType DEF SampleDone, CallbackOutputs
  <2>4. QED
    BY <1>0, <1>12, <2>1, <2>2, <2>3 DEF SampleDone, taskVars, gpioVars
<1>13. CASE TimerIsr
  <2>1. NafeTypeOK'
    <3>1. CASE sampleInProgress
      BY <1>0, <1>13, <3>1 DEF TimerIsr, nafeVars, handleVars, deviceVars, NafeTypeOK
    <3>2. CASE ~sampleInProgress
      BY <1>0, <1>13, <3>2, StartSampleType DEF TimerIsr, HandleConfigured, TimerFollows
    <3>3. QED
      BY <3>1, <3>2
  <2>2. QED
    BY <1>0, <1>13, <2>1 DEF TimerIsr, taskVars, gpioVars, pinVars
<1>14. CASE PinChange
  BY <1>0, <1>14 DEF PinChange, nafeVars, handleVars, deviceVars, taskVars, timerVars, gpioVars,
     NafeTypeOK
<1>15. CASE Tick
  <2>1. convLeft' \in 0..ConvMax /\ waitLeft' \in 0..WaitTicks
    BY <1>0, <1>15 DEF Tick, NafeTypeOK
  <2>2. QED
    BY <1>0, <1>15, <2>1 DEF Tick, handleVars, gpioVars, pinVars, NafeTypeOK
<1>16. CASE UNCHANGED vars
  BY <1>0, <1>16 DEF vars, nafeVars, handleVars, deviceVars, taskVars, timerVars, gpioVars,
     pinVars, NafeTypeOK
<1>17. QED
  BY <1>1, <1>2, <1>3, <1>4, <1>5, <1>6, <1>7, <1>8, <1>9, <1>10, <1>11, <1>12, <1>13,
     <1>14, <1>15, <1>16 DEF Next, Afe, Gpio

\* Every step keeps the other parts of the invariant.
LEMMA PartsStep == IInv /\ [Next]_vars => HandleConfigured' /\ TimerFollows' /\ ReadUndisturbed'
<1> SUFFICES ASSUME IInv, [Next]_vars
             PROVE  HandleConfigured' /\ TimerFollows' /\ ReadUndisturbed'
  OBVIOUS
<1> USE DEF HandleConfigured, TimerFollows, ReadUndisturbed
<1>0. TypeOK /\ HandleConfigured /\ TimerFollows /\ ReadUndisturbed
  BY DEF IInv
<1>1. ASSUME NEW c \in Commands, HandOver(c)
      PROVE  HandleConfigured' /\ TimerFollows' /\ ReadUndisturbed'
  BY <1>0, <1>1 DEF HandOver, GoalRuns, nafeVars, handleVars, timerVars, gpioVars
<1>2. CASE AfeGpio
  BY <1>0, <1>2 DEF AfeGpio, nafeVars, handleVars, timerVars, gpioVars
<1>3. CASE AfeStop
  BY <1>0, <1>3 DEF AfeStop, AfeWait, TypeOK, NafeTypeOK, nafeVars, handleVars, gpioVars
<1>4. CASE AfeWake
  BY <1>0, <1>4 DEF AfeWake, nafeVars, handleVars, timerVars
<1>5. CASE AfeConfigure
  BY <1>0, <1>5 DEF AfeConfigure, timerVars, gpioVars
<1>6. CASE AfeReset
  BY <1>0, <1>6 DEF AfeReset, NAFE_init, gpioVars, TypeOK, Kinds
<1>7. CASE AfeSingle
  BY <1>0, <1>7 DEF AfeSingle, NAFE_startSample, timerVars, gpioVars
<1>8. CASE GpioCheck
  BY <1>0, <1>8 DEF GpioCheck, GpioMayRead, GoalRuns, AfeBlocked, nafeVars, handleVars, taskVars, timerVars
<1>9. CASE GpioRead
  BY <1>0, <1>9 DEF GpioRead, nafeVars, handleVars, taskVars, timerVars
<1>10. CASE GpioReceive
  BY <1>0, <1>10 DEF GpioReceive, nafeVars, handleVars, taskVars, timerVars, gpioVars
<1>11. CASE Nafe
  <2>1. /\ UNCHANGED <<kind, sampleInProgress>>
        /\ nonBlockSampleState' = "modeCmdSent" => nonBlockSampleState = "modeCmdSent"
    BY <1>11 DEF Nafe, Isr, DeviceReady, SpiModeSent, DrdyIsr, SpiRound, handleVars
  <2>2. QED
    BY <1>0, <1>11, <2>1 DEF Nafe, taskVars, timerVars, gpioVars
<1>12. CASE SampleDone
  BY <1>0, <1>12 DEF SampleDone, LastRound, taskVars, gpioVars
<1>13. CASE TimerIsr
  <2>1. kind' = kind
    BY <1>13 DEF TimerIsr, NAFE_startSample, nafeVars, handleVars
  <2>2. timerDue
    BY <1>13 DEF TimerIsr
  <2>3. UNCHANGED <<afePc, command, cmdQ, ongoing, timerOn, gpioPc, cutOff>> /\ timerDue' = FALSE
    BY <1>13 DEF TimerIsr, taskVars, gpioVars
  <2>4. QED
    BY <1>0, <2>1, <2>2, <2>3
<1>14. CASE PinChange
  BY <1>0, <1>14 DEF PinChange, nafeVars, handleVars, taskVars, timerVars, gpioVars
<1>15. CASE Tick
  BY <1>0, <1>15 DEF Tick, handleVars, gpioVars
<1>16. CASE UNCHANGED vars
  BY <1>0, <1>16 DEF vars, nafeVars, handleVars, taskVars, timerVars, gpioVars
<1>17. QED
  BY <1>1, <1>2, <1>3, <1>4, <1>5, <1>6, <1>7, <1>8, <1>9, <1>10, <1>11, <1>12, <1>13,
     <1>14, <1>15, <1>16 DEF Next, Afe, Gpio

LEMMA Inductive == Spec => []IInv
<1>1. IInv /\ [Next]_vars => IInv'
  BY TypeStep, PartsStep DEF IInv
<1>2. QED
  BY InitIInv, <1>1, PTL DEF Spec

-----------------------------------------------------------------------------
(* The theorems *)

\* Type correctness of AFE sampling, whatever the lengths of the queues, of a
\* conversion and of the wait, and however many commands are handed over.
THEOREM SamplingTypeCorrect == Spec => []TypeOK
BY Inductive, PTL DEF IInv

\* The GPIO task checks periodical_measurment_ongoing and sampleInProgress and
\* then reads the device over the bus of the samples: only the AFE task, at the
\* end of its wait, can bring a sample under that read, and no interrupt can.
THEOREM BusIsShared == Spec => []BusShared
<1>1. IInv => BusShared
  BY DEF IInv, ReadUndisturbed, BusShared
<1>2. QED
  BY Inductive, <1>1, PTL

-----------------------------------------------------------------------------
(* Sampling while no sample is broken off *)

\* A sample in progress goes through its three states with the device in step,
\* and between samples the driver has forgotten the mode of the last one.
InStep ==
    IF sampleInProgress
    THEN /\ kind \in Kinds /\ devSampleMode = kind /\ irqOn
         /\ \/ nonBlockSampleState = "modeCmdSent" /\ spi = kind /\ conv = "idle"
            \/ nonBlockSampleState = "waitForReady" /\ spi = "idle" /\ conv # "idle"
               /\ devMode = kind
            \/ nonBlockSampleState = "rxClkSending" /\ spi = "rx" /\ conv = "idle"
               /\ devMode = kind
    ELSE devSampleMode = "none" /\ spi = "idle" /\ conv = "idle"

\* The AFE task resets the device and starts single samples between samples.
BetweenSamples == afePc \in {"start", "single"} => ~sampleInProgress

AInv == IInv /\ InStep /\ BetweenSamples

\* NAFE_startSample between samples commands the mode first.
LEMMA StartInStep ==
    ASSUME InStep, ~sampleInProgress, kind \in Kinds, NAFE_startSample, sampleInProgress' = TRUE
    PROVE  InStep'
<1>1. devSampleMode # kind
  BY DEF InStep, Kinds, Periodic, Continuous
<1>2. QED
  BY <1>1 DEF InStep, NAFE_startSample, NAFE_triggerSample

LEMMA InitAInv == Init => AInv
<1>1. Init => InStep /\ BetweenSamples
  BY DEF Init, NafeInit, InStep, BetweenSamples
<1>2. QED
  BY <1>1, InitIInv DEF AInv

LEMMA AliveStep == AInv /\ NeverBrokenOff /\ [Next]_vars => InStep' /\ BetweenSamples'
<1> SUFFICES ASSUME AInv, NeverBrokenOff, [Next]_vars PROVE InStep' /\ BetweenSamples'
  OBVIOUS
<1> DEFINE handle == <<kind, devSampleMode, nonBlockSampleState, irqOn, sampleInProgress>>
           device == <<spi, devMode, conv>>
<1>0. TypeOK /\ HandleConfigured /\ TimerFollows /\ InStep /\ BetweenSamples
  BY DEF AInv, IInv
<1>1. CASE UNCHANGED <<handle, device, afePc>>
  BY <1>0, <1>1 DEF InStep, BetweenSamples
<1>2. ASSUME NEW c \in Commands, HandOver(c) PROVE InStep' /\ BetweenSamples'
  BY <1>1, <1>2 DEF HandOver, nafeVars, handleVars, deviceVars
<1>3. CASE AfeGpio
  BY <1>1, <1>3 DEF AfeGpio, nafeVars, handleVars, deviceVars
<1>4. CASE AfeStop \/ AfeWake
  BY <1>0, <1>4 DEF AfeStop, AfeWait, AfeWake, nafeVars, handleVars, deviceVars, InStep, BetweenSamples
<1>5. CASE AfeConfigure
  <2>1. ~sampleInProgress
    BY <1>5 DEF AfeConfigure, NeverBrokenOff
  <2>2. QED
    BY <1>0, <1>5, <2>1 DEF AfeConfigure, deviceVars, InStep, BetweenSamples
<1>6. CASE AfeReset
  BY <1>0, <1>6 DEF AfeReset, NAFE_init, InStep, BetweenSamples
<1>7. CASE AfeSingle
  <2>1. InStep'
    BY <1>0, <1>7, StartInStep DEF AfeSingle, HandleConfigured, BetweenSamples
  <2>2. QED
    BY <1>7, <2>1 DEF AfeSingle, BetweenSamples
<1>8. CASE Gpio
  BY <1>1, <1>8 DEF Gpio, GpioCheck, GpioRead, GpioReceive, nafeVars, handleVars, deviceVars, taskVars
<1>9. CASE Nafe
  <2>1. InStep'
    <3>1. CASE DeviceReady
      BY <1>0, <3>1 DEF DeviceReady, InStep, handleVars
    <3>2. CASE SpiModeSent
      BY <1>0, <3>2 DEF SpiModeSent, StartConversion, InStep, Kinds, Periodic, Continuous
    <3>3. CASE DrdyIsr
      BY <1>0, <3>3 DEF DrdyIsr, InStep
    <3>4. CASE SpiRound
      BY <1>0, <3>4 DEF SpiRound, StartConversion, InStep
    <3>5. QED
      BY <1>9, <3>1, <3>2, <3>3, <3>4 DEF Nafe, Isr
  <2>2. afePc' = afePc /\ sampleInProgress' = sampleInProgress
    BY <1>9 DEF Nafe, Isr, DeviceReady, SpiModeSent, DrdyIsr, SpiRound, taskVars
  <2>3. QED
    BY <1>0, <2>1, <2>2 DEF BetweenSamples
<1>10. CASE SampleDone
  BY <1>10 DEF SampleDone, LastRound, NAFE_terminateSample, InStep, BetweenSamples
<1>11. CASE TimerIsr
  <2>1. CASE sampleInProgress
    BY <1>1, <1>11, <2>1 DEF TimerIsr, nafeVars, handleVars, deviceVars, taskVars
  <2>2. CASE ~sampleInProgress
    <3>1. kind \in Kinds /\ afePc = "idle"
      BY <1>0, <1>11 DEF TimerIsr, TimerFollows, HandleConfigured
    <3>2. InStep'
      BY <1>0, <1>11, <2>2, <3>1, StartInStep DEF TimerIsr
    <3>3. QED
      BY <1>11, <3>1, <3>2 DEF TimerIsr, taskVars, BetweenSamples
  <2>3. QED
    BY <2>1, <2>2
<1>12. CASE PinChange
  BY <1>1, <1>12 DEF PinChange, nafeVars, handleVars, deviceVars, taskVars
<1>13. CASE Tick
  BY <1>1, <1>13 DEF Tick, handleVars
<1>14. CASE UNCHANGED vars
  BY <1>1, <1>14 DEF vars, nafeVars, handleVars, deviceVars, taskVars
<1>15. QED
  BY <1>2, <1>3, <1>4, <1>5, <1>6, <1>7, <1>8, <1>9, <1>10, <1>11, <1>12, <1>13, <1>14
     DEF Next, Afe

LEMMA AliveInductive == Spec /\ []NeverBrokenOff => []AInv
<1>1. AInv /\ NeverBrokenOff /\ [Next]_vars => AInv'
  BY TypeStep, PartsStep, AliveStep DEF AInv, IInv
<1>2. QED
  BY InitAInv, <1>1, PTL DEF Spec

\* A measurement in progress is always heading for its end, as long as the AFE
\* task does not reconfigure the handle under it: commands, timer interrupts
\* and reads of the input pins in any order do not stop it.
THEOREM AliveUnlessBrokenOff == Spec /\ []NeverBrokenOff => []SamplingAlive
<1>1. AInv => SamplingAlive
  BY DEF AInv, InStep, SamplingAlive
<1>2. QED
  BY AliveInductive, <1>1, PTL

\* Under the same condition every finished sample is sent to the queue of the
\* mode the device took it in.
THEOREM RoutedUnlessBrokenOff == Spec /\ []NeverBrokenOff => Routed
<1>1. AInv /\ [Next]_vars => (sampleInProgress /\ ~sampleInProgress' => devMode = kind)
  <2> SUFFICES ASSUME AInv, [Next]_vars, sampleInProgress, ~sampleInProgress'
               PROVE  devMode = kind
    OBVIOUS
  <2>1. SampleDone
    BY DEF Next, vars, nafeVars, HandOver, Afe, AfeGpio, AfeStop, AfeWake, AfeConfigure,
       AfeReset, NAFE_init, AfeSingle, Gpio, GpioCheck, GpioRead, GpioReceive, Nafe, Isr,
       DeviceReady, SpiModeSent, DrdyIsr, SpiRound, TimerIsr, PinChange, Tick
  <2>2. QED
    BY <2>1 DEF SampleDone, LastRound, AInv, InStep
<1>2. QED
  BY AliveInductive, <1>1, PTL DEF Spec, Routed

-----------------------------------------------------------------------------
(* Measurements and the wait *)

\* Rounds of a measurement. It fits the wait of the AFE task when it is over
\* by then in any case; otherwise it is long.
Rounds(k) == IF k \in Periodic THEN 1 ELSE IF k = "lv" THEN LvAmt ELSE TempAmt
Fits(k) == Rounds(k) * ConvMax < WaitTicks

\* A long measurement is being prepared or in progress, or it is queued.
LongNow ==
    \/ afePc \in {"wait", "configure"} /\ ~Fits(command.part)
    \/ (afePc \in {"start", "single"} \/ sampleInProgress) /\ ~Fits(kind)
LongQueued(i) == cmdQ[i].part \in Kinds /\ ~Fits(cmdQ[i].part)
LongPending == LongNow \/ \E i \in 1..Len(cmdQ) : LongQueued(i)

\* Whoever commands a measurement has given a long one its time.
TimeGiven == \A c \in Commands : HandOver(c) /\ c.part \in Kinds => ~LongPending

\* Ticks that a sample in progress may still take: what is left of the
\* conversion, and the rounds to come.
Remaining ==
    IF nonBlockSampleState = "modeCmdSent"
    THEN Rounds(kind) * ConvMax
    ELSE (IF conv = "converting" THEN convLeft ELSE 0)
            + (Rounds(kind) - 1 - contSampleCnt) * ConvMax

\* A sample that fits ends before the wait does.
SampleFits ==
    sampleInProgress /\ Fits(kind) =>
        /\ Remaining <= Rounds(kind) * ConvMax
        /\ contSampleCnt < Rounds(kind)
        /\ nonBlockSampleState = "modeCmdSent" => contSampleCnt = 0
        /\ afePc = "wait" => Remaining < waitLeft

\* No measurement is commanded behind a long one, so that its sample finds the
\* AFE task idle from beginning to end.
LongLast ==
    /\ \A i, j \in 1..Len(cmdQ) : i < j /\ LongQueued(i) => cmdQ[j].part \notin Kinds
    /\ LongNow => \A i \in 1..Len(cmdQ) : cmdQ[i].part \notin Kinds
    /\ sampleInProgress /\ ~Fits(kind) => afePc = "idle"
    /\ timerOn => Fits(kind)

FInv == AInv /\ SampleFits /\ LongLast /\ NeverBrokenOff

LEMMA RoundsType == ASSUME NEW k PROVE Rounds(k) \in Nat \ {0}
BY DriverAssumption DEF Rounds

\* One round more takes one conversion more.
LEMMA RoundMore ==
    ASSUME NEW n \in Nat
    PROVE  n * ConvMax \in Nat /\ (n + 1) * ConvMax = n * ConvMax + ConvMax
BY DriverAssumption

\* What a sample may still take is a number of ticks.
LEMMA RemainingType ==
    ASSUME NafeTypeOK, SampleFits, sampleInProgress, Fits(kind)
    PROVE  Remaining \in Nat
<1>1. Rounds(kind) \in Nat \ {0} /\ contSampleCnt \in Nat /\ contSampleCnt < Rounds(kind)
  BY RoundsType DEF SampleFits, NafeTypeOK
<1> DEFINE n == Rounds(kind) - 1 - contSampleCnt
<1>2. n \in Nat
  BY <1>1
<1>3. n * ConvMax \in Nat /\ Rounds(kind) * ConvMax \in Nat
  BY <1>1, <1>2, RoundMore
<1>4. convLeft \in Nat
  BY DriverAssumption DEF NafeTypeOK
<1> HIDE DEF n
<1>5. Remaining = IF nonBlockSampleState = "modeCmdSent" THEN Rounds(kind) * ConvMax
                  ELSE (IF conv = "converting" THEN convLeft ELSE 0) + n * ConvMax
  BY DEF Remaining, n
<1>6. QED
  BY <1>3, <1>4, <1>5

\* A measurement that fits does so from its start.
LEMMA StartFits ==
    ASSUME InStep, ~sampleInProgress, kind \in Kinds, NAFE_startSample, afePc' # "wait"
    PROVE  SampleFits'
<1>1. devSampleMode # kind
  BY DEF InStep, Kinds, Periodic, Continuous
<1>2. kind' = kind /\ contSampleCnt' = 0 /\ nonBlockSampleState' = "modeCmdSent"
  BY <1>1 DEF NAFE_startSample, NAFE_triggerSample
<1>3. Rounds(kind) \in Nat \ {0}
  BY RoundsType
<1>4. Remaining' = Rounds(kind) * ConvMax
  BY <1>2 DEF Remaining, Rounds, Periodic
<1>5. Rounds(kind)' = Rounds(kind)
  BY <1>2 DEF Rounds, Periodic
<1>6. Rounds(kind) * ConvMax \in Nat
  BY <1>3, RoundMore
<1>7. QED
  BY <1>2, <1>3, <1>4, <1>5, <1>6 DEF SampleFits

\* A sample that goes on without taking longer still fits the wait.
LEMMA GoesOn ==
    ASSUME TypeOK, SampleFits, sampleInProgress, Fits(kind), kind' = kind,
           Remaining' \in Nat, Remaining' <= Remaining,
           contSampleCnt' < Rounds(kind),
           nonBlockSampleState' = "modeCmdSent" => contSampleCnt' = 0,
           afePc' = "wait" => afePc = "wait" /\ waitLeft' = waitLeft
    PROVE  SampleFits'
<1>1. Rounds(kind)' = Rounds(kind)
  BY DEF Rounds, Periodic
<1>2. Remaining \in Nat /\ Rounds(kind) * ConvMax \in Nat
  BY RemainingType, RoundsType, RoundMore DEF TypeOK
<1>3. Remaining <= Rounds(kind) * ConvMax
  BY DEF SampleFits
<1>4. Remaining' <= Rounds(kind) * ConvMax
  BY <1>2, <1>3
<1>5. afePc' = "wait" => Remaining' < waitLeft'
  BY <1>2, SamplingAssumption DEF SampleFits, TypeOK
<1>6. QED
  BY <1>1, <1>4, <1>5 DEF SampleFits

\* A step that leaves the sample alone.
LEMMA StaysFit ==
    ASSUME TypeOK, SampleFits, sampleInProgress' = sampleInProgress,
           UNCHANGED <<kind, nonBlockSampleState, contSampleCnt, conv, convLeft>>,
           afePc' = "wait" => afePc = "wait" /\ waitLeft' = waitLeft
    PROVE  SampleFits'
<1>1. CASE ~(sampleInProgress /\ Fits(kind))
  BY <1>1 DEF SampleFits, Fits, Rounds, Periodic
<1>2. CASE sampleInProgress /\ Fits(kind)
  <2>1. Remaining \in Nat
    BY <1>2, RemainingType DEF TypeOK
  <2>2. Remaining' = Remaining
    BY DEF Remaining, Rounds, Periodic
  <2>3. QED
    BY <1>2, <2>1, <2>2, GoesOn DEF SampleFits
<1>3. QED
  BY <1>1, <1>2

\* The interrupts of a sample and the device do not prolong it.
LEMMA NafeFits == FInv /\ Nafe => SampleFits'
<1> SUFFICES ASSUME FInv, Nafe PROVE SampleFits'
  OBVIOUS
<1>0. TypeOK /\ NafeTypeOK /\ InStep /\ SampleFits
  BY DEF FInv, AInv, IInv, TypeOK
<1>1. UNCHANGED <<kind, sampleInProgress, afePc, waitLeft>>
  BY DEF Nafe, Isr, DeviceReady, SpiModeSent, DrdyIsr, SpiRound, taskVars, handleVars
<1>2. CASE ~(sampleInProgress /\ Fits(kind))
  BY <1>1, <1>2 DEF SampleFits, Fits, Rounds, Periodic
<1>3. CASE sampleInProgress /\ Fits(kind)
  <2>0. /\ Remaining \in Nat /\ Rounds(kind) \in Nat \ {0} /\ contSampleCnt \in Nat
        /\ contSampleCnt < Rounds(kind) /\ kind \in Kinds
        /\ convLeft \in Nat
    BY <1>0, <1>3, RemainingType, RoundsType, DriverAssumption DEF NafeTypeOK, SampleFits, InStep
  <2>1. CASE DeviceReady
    <3>1. Remaining' = Remaining
      <4>1. convLeft = 0 /\ conv = "converting" /\ conv' = "drdy"
        BY <2>1 DEF DeviceReady
      <4>2. UNCHANGED <<kind, nonBlockSampleState, contSampleCnt>>
        BY <2>1 DEF DeviceReady, handleVars
      <4>3. QED
        BY <4>1, <4>2 DEF Remaining, Rounds, Periodic
    <3>2. QED
      BY <1>0, <1>1, <1>3, <2>0, <2>1, <3>1, GoesOn DEF DeviceReady, handleVars, SampleFits
  <2>2. CASE SpiModeSent
    <3>1. /\ nonBlockSampleState = "modeCmdSent" /\ contSampleCnt = 0 /\ contSampleCnt' = 0
          /\ nonBlockSampleState' = "waitForReady" /\ conv' = "converting"
          /\ convLeft' \in 0..ConvMax
      BY <1>0, <1>3, <2>2 DEF SpiModeSent, SampleFits, InStep, StartConversion
    <3> DEFINE n == Rounds(kind) - 1
    <3>2. n \in Nat /\ Rounds(kind) = n + 1 /\ Rounds(kind) - 1 - 0 = n
      BY <2>0
    <3> HIDE DEF n
    <3>3. n * ConvMax \in Nat /\ (n + 1) * ConvMax = n * ConvMax + ConvMax
      BY <3>2, RoundMore
    <3>4. Remaining = n * ConvMax + ConvMax
      BY <3>1, <3>2, <3>3 DEF Remaining
    <3>5. Remaining' = convLeft' + n * ConvMax
      BY <1>1, <3>1, <3>2 DEF Remaining, Rounds, Periodic
    <3>6. Remaining' \in Nat /\ Remaining' <= Remaining
      BY <3>1, <3>3, <3>4, <3>5, DriverAssumption
    <3>7. QED
      BY <1>0, <1>1, <1>3, <2>0, <3>1, <3>6, GoesOn
  <2>3. CASE DrdyIsr
    <3>1. Remaining' = Remaining
      <4>1. conv = "drdy" /\ conv' = "idle" /\ nonBlockSampleState = "waitForReady"
            /\ nonBlockSampleState' = "rxClkSending"
        BY <2>3 DEF DrdyIsr
      <4>2. UNCHANGED <<kind, contSampleCnt>>
        BY <2>3 DEF DrdyIsr
      <4>3. QED
        BY <4>1, <4>2 DEF Remaining, Rounds, Periodic
    <3>2. QED
      BY <1>0, <1>1, <1>3, <2>0, <2>3, <3>1, GoesOn DEF DrdyIsr
  <2>4. CASE SpiRound
    <3>1. /\ nonBlockSampleState = "rxClkSending" /\ contSampleCnt' = contSampleCnt + 1
          /\ nonBlockSampleState' = "waitForReady" /\ conv' = "converting"
          /\ conv = "idle" /\ convLeft' \in 0..ConvMax
      BY <1>0, <1>3, <2>4 DEF SpiRound, InStep, StartConversion
    <3>2. contSampleCnt + 1 < Rounds(kind)
      BY <2>4 DEF SpiRound, contSampleAmt, Rounds, Continuous, Periodic
    <3> DEFINE n == Rounds(kind) - 1 - contSampleCnt'
    <3>3. n \in Nat /\ Rounds(kind) - 1 - contSampleCnt = n + 1
      BY <2>0, <3>1, <3>2
    <3>4. Rounds(kind)' = Rounds(kind)
      BY <1>1 DEF Rounds, Periodic
    <3>5. Remaining' = convLeft' + n * ConvMax
      BY <3>1, <3>4 DEF Remaining
    <3> HIDE DEF n
    <3>6. n * ConvMax \in Nat /\ (n + 1) * ConvMax = n * ConvMax + ConvMax
      BY <3>3, RoundMore
    <3>7. Remaining = n * ConvMax + ConvMax
      <4>1. Remaining = 0 + (Rounds(kind) - 1 - contSampleCnt) * ConvMax
        BY <3>1 DEF Remaining
      <4> DEFINE r == (Rounds(kind) - 1 - contSampleCnt) * ConvMax
      <4>2. r = (n + 1) * ConvMax
        BY <3>3
      <4>3. Remaining = 0 + r
        BY <4>1
      <4> HIDE DEF r
      <4>4. QED
        BY <3>6, <4>2, <4>3
    <3>8. Remaining' \in Nat /\ Remaining' <= Remaining
      BY <3>1, <3>5, <3>6, <3>7, DriverAssumption
    <3>9. QED
      BY <1>0, <1>1, <1>3, <2>0, <3>1, <3>2, <3>8, GoesOn
  <2>5. QED
    BY <2>1, <2>2, <2>3, <2>4 DEF Nafe, Isr
<1>4. QED
  BY <1>2, <1>3

\* A tick of the wait is a tick of the sample waited for.
LEMMA TickFits == FInv /\ Tick => SampleFits'
<1> SUFFICES ASSUME FInv, Tick PROVE SampleFits'
  OBVIOUS
<1>0. TypeOK /\ NafeTypeOK /\ InStep /\ SampleFits
  BY DEF FInv, AInv, IInv, TypeOK
<1>1. UNCHANGED <<kind, nonBlockSampleState, contSampleCnt, sampleInProgress, conv, afePc>>
  BY DEF Tick, handleVars
<1>2. CASE ~(sampleInProgress /\ Fits(kind))
  BY <1>1, <1>2 DEF SampleFits, Fits, Rounds, Periodic
<1>3. CASE sampleInProgress /\ Fits(kind)
  <2>1. nonBlockSampleState = "waitForReady" /\ conv = "converting"
    BY <1>0, <1>3 DEF Tick, InStep, Kinds, Periodic, Continuous, NafeTypeOK
  <2>2. convLeft \in Nat \ {0} /\ convLeft' = convLeft - 1
    BY <1>0, <2>1, DriverAssumption DEF Tick, NafeTypeOK
  <2>3. Rounds(kind) \in Nat \ {0} /\ contSampleCnt \in Nat /\ contSampleCnt < Rounds(kind)
    BY <1>0, <1>3, RoundsType DEF SampleFits, NafeTypeOK
  <2> DEFINE n == Rounds(kind) - 1 - contSampleCnt
  <2>4. n \in Nat
    BY <2>3
  <2>5. Remaining = convLeft + n * ConvMax /\ Remaining' = convLeft' + n * ConvMax
    BY <1>1, <2>1 DEF Remaining, Rounds, Periodic
  <2> HIDE DEF n
  <2>6. n * ConvMax \in Nat /\ Rounds(kind) * ConvMax \in Nat
    BY <2>3, <2>4, RoundMore
  <2>7. Remaining \in Nat /\ Remaining' \in Nat /\ Remaining' = Remaining - 1
    BY <2>2, <2>5, <2>6
  <2>8. Rounds(kind)' = Rounds(kind)
    BY <1>1 DEF Rounds, Periodic
  <2>9. afePc' = "wait" => Remaining' < waitLeft'
    <3>1. ASSUME afePc = "wait" PROVE Remaining < waitLeft /\ waitLeft \in Nat
      BY <1>0, <1>3, <3>1, SamplingAssumption DEF SampleFits, TypeOK
    <3>2. waitLeft' = IF waitLeft > 0 THEN waitLeft - 1 ELSE 0
      BY DEF Tick
    <3>3. QED
      BY <1>1, <2>7, <3>1, <3>2
  <2>10. Remaining <= Rounds(kind) * ConvMax
    BY <1>0, <1>3 DEF SampleFits
  <2>11. Remaining' <= Rounds(kind) * ConvMax
    BY <2>6, <2>7, <2>10
  <2>12. QED
    BY <1>1, <2>1, <2>3, <2>8, <2>9, <2>11 DEF SampleFits
<1>4. QED
  BY <1>2, <1>3

\* What is waited for ends within the wait.
LEMMA StopFits == FInv /\ AfeStop => SampleFits'
<1> SUFFICES ASSUME FInv, AfeStop PROVE SampleFits'
  OBVIOUS
<1>0. TypeOK /\ NafeTypeOK /\ SampleFits
  BY DEF FInv, AInv, IInv, TypeOK
<1>1. UNCHANGED <<kind, nonBlockSampleState, contSampleCnt, sampleInProgress, conv, convLeft>>
  BY DEF AfeStop, nafeVars, handleVars, deviceVars
<1>2. CASE ~(sampleInProgress /\ Fits(kind))
  BY <1>1, <1>2 DEF SampleFits, Fits, Rounds, Periodic
<1>3. CASE sampleInProgress /\ Fits(kind)
  <2>1. waitLeft' = WaitTicks
    BY <1>3 DEF AfeStop, AfeWait
  <2>2. Remaining' = Remaining /\ Rounds(kind)' = Rounds(kind)
    BY <1>1 DEF Remaining, Rounds, Periodic
  <2>3. Remaining \in Nat /\ Rounds(kind) * ConvMax \in Nat
    BY <1>0, <1>3, RemainingType, RoundsType, RoundMore
  <2>4. Remaining <= Rounds(kind) * ConvMax /\ Rounds(kind) * ConvMax < WaitTicks
    BY <1>0, <1>3 DEF SampleFits, Fits
  <2>5. Remaining' < waitLeft'
    BY <2>1, <2>2, <2>3, <2>4, SamplingAssumption
  <2>6. QED
    BY <1>0, <1>1, <1>3, <2>2, <2>4, <2>5 DEF SampleFits
<1>4. QED
  BY <1>2, <1>3

LEMMA SampleFitStep == FInv /\ [Next]_vars => SampleFits'
<1> SUFFICES ASSUME FInv, [Next]_vars PROVE SampleFits'
  OBVIOUS
<1>0. /\ TypeOK /\ NafeTypeOK /\ HandleConfigured /\ TimerFollows /\ InStep /\ BetweenSamples
      /\ SampleFits /\ NeverBrokenOff /\ AInv
  BY DEF FInv, AInv, IInv, TypeOK
<1> DEFINE sample == <<kind, nonBlockSampleState, contSampleCnt, conv, convLeft>>
<1>1. ASSUME UNCHANGED sample, sampleInProgress' = sampleInProgress,
             afePc' = "wait" => afePc = "wait" /\ waitLeft' = waitLeft
      PROVE  SampleFits'
  BY <1>0, <1>1, StaysFit
<1>2. ASSUME NEW c \in Commands, HandOver(c) PROVE SampleFits'
  BY <1>1, <1>2 DEF HandOver, nafeVars, handleVars, deviceVars
<1>3. CASE AfeGpio
  BY <1>1, <1>3 DEF AfeGpio, nafeVars, handleVars, deviceVars
<1>4. CASE AfeStop
  BY <1>4, StopFits
<1>5. CASE AfeWake
  BY <1>1, <1>5 DEF AfeWake, nafeVars, handleVars, deviceVars
<1>6. CASE AfeConfigure
  <2>1. ~sampleInProgress
    BY <1>0, <1>6 DEF AfeConfigure, NeverBrokenOff
  <2>2. QED
    BY <1>6, <2>1 DEF AfeConfigure, SampleFits
<1>7. CASE AfeReset
  BY <1>0, <1>7 DEF AfeReset, NAFE_init, BetweenSamples, SampleFits
<1>8. CASE AfeSingle
  <2>1. ~sampleInProgress /\ kind \in Kinds
    BY <1>0, <1>8 DEF AfeSingle, HandleConfigured, BetweenSamples
  <2>2. QED
    BY <1>0, <1>8, <2>1, StartFits DEF AfeSingle
<1>9. CASE Gpio
  BY <1>1, <1>9 DEF Gpio, GpioCheck, GpioRead, GpioReceive, nafeVars, handleVars, deviceVars, taskVars
<1>10. CASE Nafe
  BY <1>10, NafeFits
<1>11. CASE SampleDone
  BY <1>11 DEF SampleDone, SampleFits
<1>12. CASE TimerIsr
  <2>1. CASE sampleInProgress
    BY <1>1, <1>12, <2>1 DEF TimerIsr, nafeVars, handleVars, deviceVars, taskVars
  <2>2. CASE ~sampleInProgress
    <3>1. kind \in Kinds /\ afePc = "idle"
      BY <1>0, <1>12 DEF TimerIsr, TimerFollows, HandleConfigured
    <3>2. NAFE_startSample /\ afePc' = afePc
      BY <1>12, <2>2 DEF TimerIsr, taskVars
    <3>3. QED
      BY <1>0, <2>2, <3>1, <3>2, StartFits
  <2>3. QED
    BY <2>1, <2>2
<1>13. CASE PinChange
  BY <1>1, <1>13 DEF PinChange, nafeVars, handleVars, deviceVars, taskVars
<1>14. CASE Tick
  BY <1>14, TickFits
<1>15. CASE UNCHANGED vars
  BY <1>1, <1>15 DEF vars, nafeVars, handleVars, deviceVars, taskVars
<1>16. QED
  BY <1>2, <1>3, <1>4, <1>5, <1>6, <1>7, <1>8, <1>9, <1>10, <1>11, <1>12, <1>13, <1>14, <1>15
     DEF Next, Afe

\* The AFE task changes the handle only between samples: what it waits for
\* fits, and what does not fit it does not meet.
LEMMA NotBrokenOffStep == FInv /\ [Next]_vars => NeverBrokenOff'
<1> SUFFICES ASSUME FInv, [Next]_vars PROVE NeverBrokenOff'
  OBVIOUS
<1> USE DEF NeverBrokenOff
<1>0. /\ TypeOK /\ NafeTypeOK /\ TimerFollows /\ SampleFits /\ LongLast /\ NeverBrokenOff
  BY DEF FInv, AInv, IInv, TypeOK
<1>1. CASE AfeStop
  BY <1>1 DEF AfeStop, AfeWait, nafeVars
<1>2. CASE AfeWake
  <2>1. ~sampleInProgress
    <3>1. SUFFICES ASSUME sampleInProgress PROVE FALSE
      OBVIOUS
    <3>2. Fits(kind)
      BY <1>0, <1>2, <3>1 DEF AfeWake, LongLast
    <3>3. Remaining \in Nat
      BY <1>0, <3>1, <3>2, RemainingType
    <3>4. Remaining < 0
      BY <1>0, <1>2, <3>1, <3>2 DEF AfeWake, SampleFits
    <3>5. QED
      BY <3>3, <3>4
  <2>2. QED
    BY <1>2, <2>1 DEF AfeWake, nafeVars
<1>3. CASE TimerIsr
  BY <1>0, <1>3 DEF TimerIsr, TimerFollows, taskVars
<1>4. CASE ~(AfeStop \/ AfeWake \/ TimerIsr)
  BY <1>0, <1>4 DEF Next, vars, nafeVars, taskVars, handleVars, HandOver, Afe, AfeGpio,
     AfeConfigure, AfeReset, NAFE_init, AfeSingle, Gpio, GpioCheck, GpioRead, GpioReceive, Nafe,
     Isr, DeviceReady, SpiModeSent, DrdyIsr, SpiRound, SampleDone, PinChange, Tick
<1>5. QED
  BY <1>1, <1>2, <1>3, <1>4

\* A step that leaves the commands alone and begins nothing long.
LEMMA LongStays ==
    ASSUME LongLast, cmdQ' = cmdQ, LongNow' => LongNow,
           (sampleInProgress /\ ~Fits(kind))' => afePc' = "idle",
           timerOn' => Fits(kind)'
    PROVE  LongLast'
BY DEF LongLast, LongQueued, Fits, Rounds, Periodic, Kinds, Continuous

\* A measurement is taken from the queue: nothing long was in hand, and if it
\* is long itself no measurement is left behind it.
LEMMA LongTaken ==
    ASSUME TypeOK, LongLast, cmdQ # <<>>, cmdQ' = Tail(cmdQ),
           LongNow' => LongNow \/ LongQueued(1),
           (sampleInProgress /\ ~Fits(kind))' => afePc' = "idle",
           timerOn' => Fits(kind)'
    PROVE  LongLast'
<1>1. /\ cmdQ \in Seq(Commands) /\ Len(cmdQ) \in Nat \ {0} /\ Len(cmdQ') = Len(cmdQ) - 1
      /\ \A i \in 1..Len(cmdQ') : cmdQ'[i] = cmdQ[i + 1] /\ i + 1 \in 1..Len(cmdQ)
  BY DEF TypeOK
<1>2. \A i \in 1..Len(cmdQ') : LongQueued(i)' = LongQueued(i + 1)
  BY <1>1 DEF LongQueued, Fits, Rounds, Periodic, Kinds, Continuous
<1>3. \A i, j \in 1..Len(cmdQ') : i < j /\ LongQueued(i)' => cmdQ'[j].part \notin Kinds
  <2> SUFFICES ASSUME NEW i \in 1..Len(cmdQ'), NEW j \in 1..Len(cmdQ'), i < j, LongQueued(i)'
               PROVE  cmdQ'[j].part \notin Kinds
    OBVIOUS
  <2>1. i + 1 \in 1..Len(cmdQ) /\ j + 1 \in 1..Len(cmdQ) /\ i + 1 < j + 1
        /\ LongQueued(i + 1) /\ cmdQ'[j] = cmdQ[j + 1]
    BY <1>1, <1>2
  <2>2. QED
    BY <2>1 DEF LongLast
<1>4. LongNow' => \A i \in 1..Len(cmdQ') : cmdQ'[i].part \notin Kinds
  <2> SUFFICES ASSUME LongNow', NEW i \in 1..Len(cmdQ') PROVE cmdQ'[i].part \notin Kinds
    OBVIOUS
  <2>1. 1 \in 1..Len(cmdQ) /\ i + 1 \in 1..Len(cmdQ) /\ 1 < i + 1 /\ cmdQ'[i] = cmdQ[i + 1]
    BY <1>1
  <2>2. QED
    BY <2>1 DEF LongLast
<1>5. QED
  BY <1>3, <1>4 DEF LongLast, Kinds, Periodic, Continuous

\* A command is handed over: a measurement only when nothing long is pending.
LEMMA LongHandedOver ==
    ASSUME TypeOK, LongLast, TimeGiven, NEW c \in Commands, HandOver(c)
    PROVE  LongLast'
<1>0. /\ UNCHANGED <<kind, sampleInProgress, afePc, command, timerOn>>
      /\ cmdQ' = Sent(cmdQ, c)
      /\ cmdQ \in Seq(Commands) /\ Len(cmdQ) \in Nat
  BY DEF HandOver, nafeVars, handleVars, timerVars, TypeOK
<1>1. (LongNow' <=> LongNow) /\ (Fits(kind)' <=> Fits(kind))
  BY <1>0 DEF LongNow, Fits, Rounds, Periodic
<1>2. CASE cmdQ' = cmdQ
  BY <1>0, <1>1, <1>2, LongStays DEF LongLast
<1>3. CASE cmdQ' = Append(cmdQ, c)
  <2> DEFINE n == Len(cmdQ)
  <2>1. /\ Len(cmdQ') = n + 1 /\ cmdQ'[n + 1] = c
        /\ \A i \in 1..n : cmdQ'[i] = cmdQ[i]
    BY <1>0, <1>3
  <2>2. \A i \in 1..n : LongQueued(i)' <=> LongQueued(i)
    BY <2>1 DEF LongQueued, Fits, Rounds, Periodic, Kinds, Continuous
  <2>3. c.part \in Kinds => ~LongNow /\ \A i \in 1..n : ~LongQueued(i)
    BY DEF TimeGiven, LongPending
  <2>4. \A i, j \in 1..(n + 1) : i < j /\ LongQueued(i)' => cmdQ'[j].part \notin Kinds
    <3> SUFFICES ASSUME NEW i \in 1..(n + 1), NEW j \in 1..(n + 1), i < j, LongQueued(i)'
                 PROVE  cmdQ'[j].part \notin Kinds
      OBVIOUS
    <3>1. i \in 1..n /\ (j \in 1..n \/ j = n + 1)
      BY <1>0
    <3>2. LongQueued(i)
      BY <2>2, <3>1
    <3>3. CASE j \in 1..n
      BY <2>1, <3>1, <3>2, <3>3 DEF LongLast
    <3>4. CASE j = n + 1
      BY <2>1, <2>3, <3>1, <3>2, <3>4
    <3>5. QED
      BY <3>1, <3>3, <3>4
  <2>5. LongNow' => \A i \in 1..(n + 1) : cmdQ'[i].part \notin Kinds
    <3> SUFFICES ASSUME LongNow, NEW i \in 1..(n + 1) PROVE cmdQ'[i].part \notin Kinds
      BY <1>1
    <3>1. CASE i \in 1..n
      BY <2>1, <3>1 DEF LongLast
    <3>2. CASE i = n + 1
      BY <2>1, <2>3, <3>2
    <3>3. QED
      BY <1>0, <3>1, <3>2
  <2> HIDE DEF n
  <2>6. QED
    BY <1>0, <1>1, <2>1, <2>4, <2>5 DEF LongLast, Kinds, Periodic, Continuous
<1>4. QED
  BY <1>0, <1>2, <1>3 DEF Sent

LEMMA LongLastStep ==
    ASSUME ConvMax < WaitTicks, FInv, TimeGiven, [Next]_vars
    PROVE  LongLast'
<1>0. /\ TypeOK /\ NafeTypeOK /\ HandleConfigured /\ TimerFollows /\ InStep /\ BetweenSamples
      /\ LongLast /\ NeverBrokenOff
  BY DEF FInv, AInv, IInv, TypeOK
<1> USE DEF Fits, Rounds, Periodic
<1>1. ASSUME UNCHANGED <<cmdQ, kind, sampleInProgress, afePc, command, timerOn>> PROVE LongLast'
  <2>1. LongNow' => LongNow
    BY <1>1 DEF LongNow
  <2>2. QED
    BY <1>0, <1>1, <2>1, LongStays DEF LongLast
<1>2. ASSUME NEW c \in Commands, HandOver(c) PROVE LongLast'
  BY <1>0, <1>2, LongHandedOver
<1>3. CASE AfeGpio
  <2>1. /\ cmdQ # <<>> /\ cmdQ' = Tail(cmdQ) /\ Head(cmdQ).part = "gpio"
        /\ afePc = "idle" /\ UNCHANGED <<kind, sampleInProgress, afePc, timerOn>>
    BY <1>3 DEF AfeGpio, nafeVars, handleVars, timerVars
  <2>2. LongNow' => LongNow
    BY <2>1 DEF LongNow
  <2>3. QED
    BY <1>0, <2>1, <2>2, LongTaken DEF LongLast
<1>4. CASE AfeStop
  <2>1. /\ cmdQ # <<>> /\ cmdQ' = Tail(cmdQ) /\ Head(cmdQ).part \in Kinds
        /\ command' = Head(cmdQ) /\ afePc' \in {"wait", "configure"}
        /\ UNCHANGED <<kind, sampleInProgress>> /\ (timerOn' => timerOn)
    BY <1>4 DEF AfeStop, AfeWait, nafeVars, handleVars
  <2>2. 1 \in 1..Len(cmdQ) /\ Head(cmdQ) = cmdQ[1]
    BY <1>0, <2>1 DEF TypeOK
  <2>3. ~LongNow
    BY <1>0, <2>1, <2>2 DEF LongLast
  <2>4. ~(sampleInProgress /\ ~Fits(kind))
    BY <2>3 DEF LongNow
  <2>5. LongNow' => LongQueued(1)
    BY <2>1, <2>2, <2>4 DEF LongNow, LongQueued
  <2>6. QED
    BY <1>0, <2>1, <2>4, <2>5, LongTaken DEF LongLast
<1>5. CASE AfeWake
  <2>1. /\ afePc = "wait" /\ afePc' = "configure"
        /\ UNCHANGED <<cmdQ, kind, sampleInProgress, command, timerOn>>
    BY <1>5 DEF AfeWake, nafeVars, handleVars, timerVars
  <2>2. LongNow' => LongNow
    BY <2>1 DEF LongNow
  <2>3. QED
    BY <1>0, <2>1, <2>2, LongStays DEF LongLast
<1>6. CASE AfeConfigure
  <2>1. /\ afePc = "configure" /\ afePc' = "start" /\ kind' = command.part
        /\ ~sampleInProgress /\ ~timerOn /\ UNCHANGED <<cmdQ, sampleInProgress, timerOn>>
    BY <1>0, <1>6 DEF AfeConfigure, NeverBrokenOff, TimerFollows, timerVars
  <2>2. LongNow' => LongNow
    BY <2>1 DEF LongNow
  <2>3. QED
    BY <1>0, <2>1, <2>2, LongStays
<1>7. CASE AfeReset
  <2>1. /\ afePc = "start" /\ afePc' \in {"idle", "single"} /\ ~sampleInProgress
        /\ UNCHANGED <<cmdQ, kind, sampleInProgress>> /\ (timerOn' => kind \in Periodic)
    BY <1>0, <1>7 DEF AfeReset, NAFE_init, BetweenSamples
  <2>2. LongNow' => LongNow
    BY <2>1 DEF LongNow
  <2>3. timerOn' => Fits(kind)'
    BY <2>1, DriverAssumption
  <2>4. QED
    BY <1>0, <2>1, <2>2, <2>3, LongStays
<1>8. CASE AfeSingle
  <2>1. /\ afePc = "single" /\ afePc' = "idle" /\ UNCHANGED <<cmdQ, kind, timerOn>>
    BY <1>8 DEF AfeSingle, NAFE_startSample, timerVars
  <2>2. LongNow' => LongNow
    BY <2>1 DEF LongNow
  <2>3. QED
    BY <1>0, <2>1, <2>2, LongStays DEF LongLast
<1>9. CASE Gpio
  BY <1>1, <1>9 DEF Gpio, GpioCheck, GpioRead, GpioReceive, nafeVars, handleVars, taskVars, timerVars
<1>10. CASE Nafe
  BY <1>1, <1>10 DEF Nafe, Isr, DeviceReady, SpiModeSent, DrdyIsr, SpiRound, taskVars, timerVars,
     handleVars
<1>11. CASE SampleDone
  <2>1. ~sampleInProgress' /\ UNCHANGED <<cmdQ, kind, afePc, command, timerOn>>
    BY <1>11 DEF SampleDone, LastRound, taskVars
  <2>2. LongNow' => LongNow
    BY <2>1 DEF LongNow
  <2>3. QED
    BY <1>0, <2>1, <2>2, LongStays DEF LongLast
<1>12. CASE TimerIsr
  <2>1. /\ afePc = "idle" /\ timerOn
        /\ UNCHANGED <<cmdQ, kind, afePc, command, timerOn>>
    BY <1>0, <1>12 DEF TimerIsr, TimerFollows, NAFE_startSample, nafeVars, handleVars, taskVars
  <2>2. Fits(kind)
    BY <1>0, <2>1 DEF LongLast
  <2>3. LongNow' => LongNow
    BY <2>1, <2>2 DEF LongNow
  <2>4. QED
    BY <1>0, <2>1, <2>2, <2>3, LongStays DEF LongLast
<1>13. CASE PinChange
  BY <1>1, <1>13 DEF PinChange, nafeVars, handleVars, taskVars, timerVars
<1>14. CASE Tick
  BY <1>1, <1>14 DEF Tick, handleVars
<1>15. CASE UNCHANGED vars
  BY <1>1, <1>15 DEF vars, nafeVars, handleVars, taskVars, timerVars
<1>16. QED
  BY <1>2, <1>3, <1>4, <1>5, <1>6, <1>7, <1>8, <1>9, <1>10, <1>11, <1>12, <1>13, <1>14, <1>15
     DEF Next, Afe

LEMMA InitFInv == Init => FInv
<1>1. Init => SampleFits /\ LongLast /\ NeverBrokenOff
  BY DEF Init, NafeInit, SampleFits, LongLast, LongNow, NeverBrokenOff
<1>2. QED
  BY <1>1, InitAInv DEF FInv

LEMMA FInvStep ==
    ASSUME ConvMax < WaitTicks, FInv, [Next]_vars, [TimeGiven]_vars
    PROVE  FInv'
<1>1. AInv'
  BY TypeStep, PartsStep, AliveStep DEF FInv, AInv, IInv
<1>2. LongLast'
  <2>1. CASE TimeGiven
    BY <2>1, LongLastStep
  <2>2. CASE UNCHANGED vars
    BY <2>2, LongStays DEF FInv, LongLast, LongNow, Fits, Rounds, Periodic, vars, nafeVars,
       handleVars, taskVars, timerVars
  <2>3. QED
    BY <2>1, <2>2
<1>3. QED
  BY <1>1, <1>2, SampleFitStep, NotBrokenOffStep DEF FInv

\* The wait of the AFE task always times out, and what follows changes the
\* handle and resets the device. Still no sample is ever broken off, when the
\* periodic samples end within the wait (2 ms) and a measurement that may take
\* longer has ended before the next measurement is commanded. Output commands
\* may come at any time.
THEOREM GivenTimeNotBrokenOff ==
    ASSUME ConvMax < WaitTicks
    PROVE  Spec /\ [][TimeGiven]_vars => []NeverBrokenOff
<1>1. FInv /\ [Next]_vars /\ [TimeGiven]_vars => FInv'
  BY FInvStep
<1>2. FInv => NeverBrokenOff
  BY DEF FInv
<1>3. QED
  BY InitFInv, <1>1, <1>2, PTL DEF Spec

\* Whoever commands a measurement commands one that fits.
FittingOnly == \A c \in Commands : HandOver(c) /\ c.part \in Kinds => Fits(c.part)

\* Then nothing long is ever pending.
LEMMA NothingLongStep ==
    ASSUME FInv, ~LongPending, FittingOnly, [Next]_vars
    PROVE  ~LongPending'
<1>0. /\ TypeOK /\ TimerFollows /\ LongLast /\ ~LongNow
      /\ \A i \in 1..Len(cmdQ) : ~LongQueued(i)
      /\ cmdQ \in Seq(Commands) /\ Len(cmdQ) \in Nat
  BY DEF FInv, AInv, IInv, TypeOK, LongPending
<1> USE DEF Fits, Rounds, Periodic, Kinds, Continuous
<1>1. ASSUME ~LongNow', cmdQ' = cmdQ PROVE ~LongPending'
  BY <1>0, <1>1 DEF LongPending, LongQueued
<1>2. ASSUME ~LongNow', cmdQ # <<>>, cmdQ' = Tail(cmdQ) PROVE ~LongPending'
  <2>1. ASSUME NEW i \in 1..Len(cmdQ') PROVE ~LongQueued(i)'
    <3>1. i + 1 \in 1..Len(cmdQ) /\ cmdQ'[i] = cmdQ[i + 1]
      BY <1>0, <1>2, <2>1
    <3>2. QED
      BY <1>0, <3>1 DEF LongQueued
  <2>2. QED
    BY <1>2, <2>1 DEF LongPending
<1>3. ASSUME NEW c \in Commands, HandOver(c) PROVE ~LongPending'
  <2>1. ~LongNow'
    BY <1>0, <1>3 DEF HandOver, nafeVars, handleVars, LongNow
  <2>2. cmdQ' = Sent(cmdQ, c)
    BY <1>3 DEF HandOver
  <2>3. CASE cmdQ' = Append(cmdQ, c)
    <3>1. ASSUME NEW i \in 1..Len(cmdQ') PROVE ~LongQueued(i)'
      <4>1. (i \in 1..Len(cmdQ) /\ cmdQ'[i] = cmdQ[i]) \/ cmdQ'[i] = c
        BY <1>0, <2>3, <3>1
      <4>2. c.part \in Kinds => Fits(c.part)
        BY <1>3 DEF FittingOnly
      <4>3. QED
        BY <1>0, <4>1, <4>2 DEF LongQueued
    <3>2. QED
      BY <2>1, <3>1 DEF LongPending
  <2>4. QED
    BY <1>1, <2>1, <2>2, <2>3 DEF Sent
<1>4. CASE AfeGpio
  BY <1>0, <1>2, <1>4 DEF AfeGpio, nafeVars, handleVars, LongNow
<1>5. CASE AfeStop
  <2>1. 1 \in 1..Len(cmdQ) /\ Head(cmdQ) = cmdQ[1]
    BY <1>0, <1>5 DEF AfeStop
  <2>2. Fits(Head(cmdQ).part)
    BY <1>0, <1>5, <2>1 DEF AfeStop, LongQueued
  <2>3. ~LongNow'
    BY <1>0, <1>5, <2>2 DEF AfeStop, AfeWait, nafeVars, handleVars, LongNow
  <2>4. QED
    BY <1>2, <1>5, <2>3 DEF AfeStop
<1>6. CASE AfeWake
  BY <1>0, <1>1, <1>6 DEF AfeWake, nafeVars, handleVars, LongNow
<1>7. CASE AfeConfigure
  <2>1. Fits(command.part)
    BY <1>0, <1>7 DEF AfeConfigure, LongNow
  <2>2. QED
    BY <1>1, <1>7, <2>1 DEF AfeConfigure, LongNow
<1>8. CASE AfeReset
  BY <1>0, <1>1, <1>8 DEF AfeReset, NAFE_init, LongNow
<1>9. CASE AfeSingle
  BY <1>0, <1>1, <1>9 DEF AfeSingle, NAFE_startSample, LongNow
<1>10. CASE Gpio
  BY <1>0, <1>1, <1>10 DEF Gpio, GpioCheck, GpioRead, GpioReceive, nafeVars, handleVars, taskVars,
     LongNow
<1>11. CASE Nafe
  BY <1>0, <1>1, <1>11 DEF Nafe, Isr, DeviceReady, SpiModeSent, DrdyIsr, SpiRound, taskVars,
     handleVars, LongNow
<1>12. CASE SampleDone
  BY <1>0, <1>1, <1>12 DEF SampleDone, LastRound, taskVars, LongNow
<1>13. CASE TimerIsr
  <2>1. Fits(kind) /\ UNCHANGED <<cmdQ, kind, afePc, command>>
    BY <1>0, <1>13 DEF TimerIsr, TimerFollows, LongLast, NAFE_startSample, nafeVars, handleVars,
       taskVars
  <2>2. QED
    BY <1>0, <1>1, <2>1 DEF LongNow
<1>14. CASE PinChange
  BY <1>0, <1>1, <1>14 DEF PinChange, nafeVars, handleVars, taskVars, LongNow
<1>15. CASE Tick
  BY <1>0, <1>1, <1>15 DEF Tick, handleVars, LongNow
<1>16. CASE UNCHANGED vars
  BY <1>0, <1>1, <1>16 DEF vars, nafeVars, handleVars, taskVars, LongNow
<1>17. QED
  BY <1>3, <1>4, <1>5, <1>6, <1>7, <1>8, <1>9, <1>10, <1>11, <1>12, <1>13, <1>14, <1>15, <1>16
     DEF Next, Afe

\* In particular no sample is broken off when every measurement commanded ends
\* within the wait, however fast the commands follow one another.
THEOREM FittingNotBrokenOff ==
    ASSUME ConvMax < WaitTicks
    PROVE  Spec /\ [][FittingOnly]_vars => []NeverBrokenOff
<1>1. FInv /\ ~LongPending /\ [Next]_vars /\ [FittingOnly]_vars => (FInv /\ ~LongPending)'
  <2> SUFFICES ASSUME FInv, ~LongPending, [Next]_vars, [FittingOnly]_vars
               PROVE  FInv' /\ ~LongPending'
    OBVIOUS
  <2>1. FInv'
    BY FInvStep DEF TimeGiven
  <2>2. CASE FittingOnly
    BY <2>1, <2>2, NothingLongStep
  <2>3. CASE UNCHANGED vars
    BY <2>1, <2>3 DEF LongPending, LongNow, LongQueued, Fits, Rounds, Periodic, Kinds, Continuous,
       vars, nafeVars, handleVars, taskVars
  <2>4. QED
    BY <2>2, <2>3
<1>2. Init => ~LongPending
  BY DEF Init, NafeInit, LongPending, LongNow
<1>3. FInv => NeverBrokenOff
  BY DEF FInv
<1>4. QED
  BY InitFInv, <1>1, <1>2, <1>3, PTL DEF Spec

=============================================================================
