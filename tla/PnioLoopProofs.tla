---------------------------- MODULE PnioLoopProofs ----------------------------
(***************************************************************************)
(* The PROFINET application: data are exchanged for a relation that is up, *)
(* and while they are the loop acts on whole frames, for any number of     *)
(* relations and any periods; and with periods like those of the code no   *)
(* command for the MCU outputs meets a full queue.                         *)
(***************************************************************************)
EXTENDS PnioLoop, ApiRiopProofs, RiopLoopProofs

\* Words of two frames are left by rounds that failed, which leave the timeout
\* alone: the next call while connected exchanges again.
TornIsDue == image.afe # image.mcu => tsLeft = 0

IInv == PnioTypeOK /\ ArServed /\ TornIsDue

LEMMA CopiedType == ASSUME PnioTypeOK, NEW n PROVE Copied(n) \in Images
BY PnioAssumption, ApiAssumption, LoopAssumption
   DEF Copied, Images, PnioTypeOK, LoopTypeOK, Frames

LEMMA InitIInv == PnioInit => IInv
<1> SUFFICES ASSUME PnioInit PROVE IInv
  OBVIOUS
<1>1. flgAppReady \in BOOLEAN
  BY Zenon DEF PnioInit
<1>2. LoopTypeOK
  BY LoopInitType DEF PnioInit
<1>3. PnioTypeOK
  BY <1>1, <1>2, PnioAssumption, ApiAssumption, LoopAssumption DEF PnioInit, PnioTypeOK
<1>4. ArServed /\ TornIsDue
  BY DEF PnioInit, LoopInit, ArServed, TornIsDue
<1>5. QED
  BY <1>3, <1>4 DEF IInv

LEMMA TypeStep == IInv /\ [PnioNext]_pnioVars => PnioTypeOK'
<1> SUFFICES ASSUME IInv, [PnioNext]_pnioVars PROVE PnioTypeOK'
  OBVIOUS
<1> USE PnioAssumption, ApiAssumption, LoopAssumption
<1>0. PnioTypeOK /\ LoopTypeOK
  BY DEF IInv, PnioTypeOK
<1>a. ASSUME UNCHANGED loopVars PROVE LoopTypeOK'
  BY <1>0, <1>a DEF loopVars, modeVars, LoopTypeOK
<1>1. ASSUME NEW ar \in Ars, ApplReady(ar) PROVE PnioTypeOK'
  <2>1. flgAppReady' \in BOOLEAN /\ idAr' \in Ars \cup {NoAr}
    <3>1. CASE flgAppReady
      BY <1>0, <1>1, <3>1 DEF ApplReady, PnioTypeOK
    <3>2. CASE ~flgAppReady
      BY <1>1, <3>2, Zenon DEF ApplReady
    <3>3. QED
      BY <3>1, <3>2
  <2>2. QED
    BY <1>0, <1>a, <1>1, <2>1 DEF ApplReady, mcuVars, PnioTypeOK
<1>2. ASSUME NEW ar \in Ars, ReleaseAr(ar) PROVE PnioTypeOK'
  <2>1. flgAppReady' \in BOOLEAN /\ idAr' \in Ars \cup {NoAr}
    <3>1. CASE idAr = ar
      BY <1>2, <3>1, Zenon DEF ReleaseAr, Released
    <3>2. CASE idAr # ar
      BY <1>0, <1>2, <3>2 DEF ReleaseAr, Released, PnioTypeOK
    <3>3. QED
      BY <3>1, <3>2
  <2>2. QED
    BY <1>0, <1>a, <1>2, <2>1 DEF ReleaseAr, mcuVars, PnioTypeOK
<1>3. CASE ExchangeFails
  <2>1. PICK n \in 0..2 : Exchange(fsm_mode, Copied(n))
    BY <1>3 DEF ExchangeFails
  <2>2. LoopTypeOK'
    BY <1>0, <2>1, CopiedType, ExchangeType DEF LoopTypeOK
  <2>3. QED
    BY <1>0, <1>3, <2>2 DEF ExchangeFails, TimeoutAfterFailure, arVars, mcuVars, PnioTypeOK
<1>4. CASE ExchangeDone
  <2>1. frame.mode \in Modes
    BY <1>0 DEF PnioTypeOK, Frames
  <2>2. LoopTypeOK'
    BY <1>0, <1>4, <2>1, CopiedType, ExchangeType DEF ExchangeDone
  <2>3. QED
    BY <1>0, <1>4, <2>2 DEF ExchangeDone, arVars, mcuVars, PnioTypeOK
<1>5. CASE Loop
  <2>1. LoopTypeOK'
    BY <1>0, <1>5, LoopStepType DEF Loop
  <2>2. /\ gpio_command_queue' \in Seq(0..McuMax)
        /\ Len(gpio_command_queue') <= QueueLen
    <3>1. image.mcu \in 0..McuMax
      BY <1>0 DEF LoopTypeOK, Images
    <3>2. QED
      BY <1>0, <1>5, <3>1, SentType DEF Loop, PnioTypeOK
  <2>3. QED
    BY <1>0, <1>5, <2>1, <2>2 DEF Loop, arVars, PnioTypeOK
<1>6. CASE Poll
  <2>1. LoopTypeOK'
    BY <1>0, <1>6, LoopPollType DEF Poll
  <2>2. QED
    BY <1>0, <1>6, <2>1 DEF Poll, arVars, mcuVars, PnioTypeOK
<1>7. CASE Gpio
  <2>1. /\ mcuPins' \in 0..McuMax
        /\ gpio_command_queue' \in Seq(0..McuMax)
        /\ Len(gpio_command_queue') <= QueueLen
    BY <1>0, <1>7, TakenType DEF Gpio, McuOutputs, PnioTypeOK
  <2>2. QED
    BY <1>0, <1>a, <1>7, <2>1 DEF Gpio, arVars, PnioTypeOK
<1>8. CASE Tick
  <2>1. LoopTypeOK'
    BY <1>0, <1>8, LoopWaitsType DEF Tick
  <2>2. QED
    BY <1>0, <1>8, <2>1 DEF Tick, arVars, PnioTypeOK
<1>9. ASSUME NEW f \in Frames, Control(f) PROVE PnioTypeOK'
  BY <1>0, <1>a, <1>9 DEF Control, arVars, mcuVars, PnioTypeOK
<1>10. CASE UNCHANGED pnioVars
  BY <1>0, <1>a, <1>10 DEF pnioVars, arVars, mcuVars, PnioTypeOK
<1>11. QED
  BY <1>1, <1>2, <1>3, <1>4, <1>5, <1>6, <1>7, <1>8, <1>9, <1>10 DEF PnioNext

LEMMA PartsStep == IInv /\ [PnioNext]_pnioVars => ArServed' /\ TornIsDue'
<1> SUFFICES ASSUME IInv, [PnioNext]_pnioVars PROVE ArServed' /\ TornIsDue'
  OBVIOUS
<1>0. PnioTypeOK /\ ArServed /\ TornIsDue
  BY DEF IInv
<1>1. ASSUME NEW ar \in Ars, ApplReady(ar) \/ ReleaseAr(ar) PROVE ArServed' /\ TornIsDue'
  <2>1. ArServed'
    BY <1>0, <1>1, PnioAssumption DEF ApplReady, ReleaseAr, Released, ArServed
  <2>2. TornIsDue'
    BY <1>0, <1>1 DEF ApplReady, ReleaseAr, loopVars, TornIsDue
  <2>3. QED
    BY <2>1, <2>2
<1>2. CASE ExchangeFails
  BY <1>0, <1>2 DEF ExchangeFails, ExchangeDue, TimeoutAfterFailure, arVars, ArServed, TornIsDue
<1>3. CASE ExchangeDone
  <2>1. image'.afe = image'.mcu
    BY <1>3 DEF ExchangeDone, Exchange, Copied
  <2>2. QED
    BY <1>0, <1>3, <2>1 DEF ExchangeDone, arVars, ArServed, TornIsDue
<1>4. CASE Loop \/ Poll
  BY <1>0, <1>4 DEF Loop, LoopStep, Poll, LoopPoll, arVars, ArServed, TornIsDue
<1>5. CASE Gpio
  BY <1>0, <1>5 DEF Gpio, loopVars, arVars, ArServed, TornIsDue
<1>6. CASE Tick
  BY <1>0, <1>6 DEF Tick, LoopWaits, arVars, PnioTypeOK, ArServed, TornIsDue
<1>7. ASSUME NEW f \in Frames, Control(f) PROVE ArServed' /\ TornIsDue'
  BY <1>0, <1>7 DEF Control, loopVars, arVars, ArServed, TornIsDue
<1>8. CASE UNCHANGED pnioVars
  BY <1>0, <1>8 DEF pnioVars, loopVars, arVars, ArServed, TornIsDue
<1>9. QED
  BY <1>1, <1>2, <1>3, <1>4, <1>5, <1>6, <1>7, <1>8 DEF PnioNext

LEMMA Inductive == PnioSpec => []IInv
<1>1. IInv /\ [PnioNext]_pnioVars => IInv'
  BY TypeStep, PartsStep DEF IInv
<1>2. QED
  BY InitIInv, <1>1, PTL DEF PnioSpec

\* Type correctness of the PROFINET application and the MCU outputs.
THEOREM PnioTypeCorrect == PnioSpec => []PnioTypeOK
BY Inductive, PTL DEF IInv

\* However relations come and go, flgAppReady stands for one that is up.
THEOREM RelationIsServed == PnioSpec => []ArServed
BY Inductive, PTL DEF IInv

\* The application loop never acts on words of two frames while connected.
THEOREM LoopSeesWholeFrames == PnioSpec => ConnectedWhole
<1>1. IInv /\ [PnioNext]_pnioVars => (Loop /\ flgAppReady => image.afe = image.mcu)
  BY DEF IInv, TornIsDue, Loop, ExchangeDue
<1>2. QED
  BY Inductive, <1>1, PTL DEF PnioSpec, ConnectedWhole

-----------------------------------------------------------------------------
(* The queue of the MCU outputs *)

\* The cycle of mode 0, which sends the MCU outputs once.
CycleTime == 6 * LongPeriod

\* What the periods have to be: a round (1 s) and the cycle of mode 0 (1.2 s)
\* are longer than two cycles of the GPIO task (50 ms), and the queue (10
\* commands) has room for one command and for all that a loop held up until the
\* cycle counter wraps (5.4 s) sends at once.
Paced ==
    /\ TriggerVal > 2 * GpioCycle
    /\ CycleTime >= 2 * GpioCycle
    /\ (QueueLen - 1) * CycleTime >= CycleWrap + GpioCycle

Queued == Len(gpio_command_queue)

\* The steps of mode 0 since the one that sends the MCU outputs.
StepsSinceMcu == IF fsm >= 3 THEN fsm - 3 ELSE fsm + 3

\* How much of a cycle the mode machine has gone towards its next command; a
\* change of mode or of outputs that it has not acted on is a whole one.
Phase ==
    CASE ModeChanged -> CycleTime
      [] ~ModeChanged /\ fsm_mode = 0 -> StepsSinceMcu * LongPeriod
      [] ~ModeChanged /\ fsm_mode = 5 -> IF mcu_last # image.mcu THEN CycleTime ELSE 0
      [] OTHER -> 0

\* Commands queued and commands owed, in ticks of mode 0: a step of the loop
\* exchanges the one for the other, a cycle of the GPIO task takes off more
\* than it lets come.
QueueLoad == Queued * CycleTime
Work == QueueLoad + elapsed + gpioLeft
Load == Work + Phase

\* The load of an empty queue is no more than this.
EmptyLoad == CycleWrap + CycleTime + GpioCycle

\* At most one or two cycles of the GPIO task ago the last round was done.
RoundWithin(n) == TriggerVal + gpioLeft <= tsLeft + n * GpioCycle

\* A round adds a command at most, and two cycles of the GPIO task after it, so
\* before the next, the load is down again. Rounds that fail add no second one.
QueueInv ==
    /\ Load <= EmptyLoad + CycleTime
    /\ flgAppReady =>
          \/ Load <= EmptyLoad
          \/ tsLeft = 0 /\ Work <= EmptyLoad
          \/ Load <= EmptyLoad + GpioCycle /\ RoundWithin(2)
          \/ RoundWithin(1)

\* The numbers the invariant is about.
LEMMA QueueNumbers ==
    ASSUME PnioTypeOK
    PROVE  /\ Queued \in 0..QueueLen /\ elapsed \in 0..(CycleWrap - 1) /\ fsm \in 0..5
           /\ {tsLeft, TriggerVal, GpioCycle, LongPeriod, CycleWrap, CycleTime, QueueLen}
                  \subseteq Nat
           /\ gpioLeft \in 0..GpioCycle
           /\ QueueLoad \in Nat /\ Work \in Nat /\ Load \in Nat /\ EmptyLoad \in Nat
           /\ Phase \in 0..CycleTime
<1>1. /\ Queued \in 0..QueueLen /\ elapsed \in 0..(CycleWrap - 1) /\ fsm \in 0..5
      /\ {tsLeft, TriggerVal, GpioCycle, LongPeriod, CycleWrap, CycleTime, QueueLen} \subseteq Nat
      /\ gpioLeft \in 0..GpioCycle
  BY PnioAssumption, LoopAssumption, ApiAssumption
     DEF PnioTypeOK, LoopTypeOK, Queued, CycleTime
<1>2. QueueLoad \in Nat
  BY <1>1 DEF QueueLoad
<1>3. Work \in Nat
  BY <1>1, <1>2 DEF Work
<1>4. StepsSinceMcu * LongPeriod \in 0..CycleTime
  <2>1. StepsSinceMcu \in {0, 1, 2, 3, 4, 5}
    BY <1>1 DEF StepsSinceMcu
  <2>2. QED
    BY <1>1, <2>1 DEF CycleTime
<1>5. Phase \in 0..CycleTime
  BY <1>1, <1>4 DEF Phase
<1>6. QED
  BY <1>1, <1>2, <1>3, <1>5 DEF Load, EmptyLoad

\* A change the mode machine has not acted on is a whole cycle at most.
PhaseBounded == Phase \in 0..CycleTime

LEMMA QueueNumbersNext == PnioTypeOK' => PhaseBounded'
<1>1. PnioTypeOK => PhaseBounded
  BY QueueNumbers DEF PhaseBounded
<1>2. QED
  BY <1>1, PTL

\* A step of the loop that sends the MCU outputs uses up a whole cycle, and
\* another one none: the load does not grow.
LEMMA StepLoad ==
    ASSUME PnioTypeOK, LoopStep
    PROVE  /\ elapsed' \in Nat /\ Phase' \in Nat
           /\ DirtyPart = "mcu" => /\ elapsed' + Phase' + CycleTime <= elapsed + Phase
                                   /\ CycleTime < elapsed + Phase
           /\ DirtyPart # "mcu" => elapsed' + Phase' <= elapsed + Phase
<1>1. /\ ~ModeChanged' /\ fsm_mode' = fsm_mode /\ image' = image
      /\ fsm' = NextFsm
  BY DEF LoopStep, ModeChanged
<1>2. /\ elapsed' = elapsed - Time /\ Time \in Nat /\ elapsed > Time /\ elapsed' \in Nat
      /\ elapsed \in Nat /\ CycleTime \in Nat /\ LongPeriod \in Nat
      /\ Phase \in 0..CycleTime
  BY TimeType, QueueNumbers DEF LoopStep, LoopDue
<1>3. CASE fsm_mode = 5
  <2>1. Phase' = 0
    BY <1>1, <1>3 DEF LoopStep, Phase
  <2>2. DirtyPart = "mcu" => Phase = CycleTime
    BY <1>3 DEF DirtyPart, RepeatPart, Phase
  <2>3. QED
    BY <1>2, <2>1, <2>2
<1>4. CASE fsm_mode = 0 /\ ModeChanged
  <2>1. NextFsm = 1 /\ DirtyPart # "mcu"
    BY <1>4 DEF NextFsm, DirtyPart, CyclePart
  <2>2. Phase = CycleTime /\ Phase' = 4 * LongPeriod
    BY <1>1, <1>4, <2>1 DEF Phase, StepsSinceMcu
  <2>3. QED
    BY <1>2, <2>1, <2>2 DEF CycleTime
<1>5. CASE fsm_mode = 0 /\ ~ModeChanged
  <2>1. Time = LongPeriod
    BY <1>5 DEF Time, PeriodOf, ModeChanged
  <2>2. /\ Phase = StepsSinceMcu * LongPeriod
        /\ Phase' = StepsSinceMcu' * LongPeriod
    BY <1>1, <1>5 DEF Phase
  <2>3. fsm' = (fsm + 1) % 6 /\ fsm \in {0, 1, 2, 3, 4, 5}
    BY <1>1, <1>5, QueueNumbers DEF NextFsm
  <2>4. CASE fsm = 2
    <3>1. StepsSinceMcu = 5 /\ StepsSinceMcu' = 0 /\ DirtyPart = "mcu"
      BY <1>1, <1>5, <2>3, <2>4 DEF StepsSinceMcu, DirtyPart, CyclePart
    <3>2. QED
      BY <1>2, <2>1, <2>2, <3>1 DEF CycleTime
  <2>5. CASE fsm # 2
    <3>1. DirtyPart # "mcu"
      BY <1>1, <1>5, <2>3, <2>5 DEF DirtyPart, CyclePart
    <3>2. StepsSinceMcu' = StepsSinceMcu + 1 /\ StepsSinceMcu \in {0, 1, 2, 3, 4}
      BY <2>3, <2>5 DEF StepsSinceMcu
    <3>3. Phase' = Phase + LongPeriod
      BY <1>2, <2>2, <3>2
    <3>4. QED
      BY <1>2, <2>1, <3>1, <3>3
  <2>6. QED
    BY <2>4, <2>5
<1>6. CASE fsm_mode \notin {0, 5}
  <2>1. Phase' = 0 /\ DirtyPart # "mcu"
    BY <1>1, <1>6 DEF Phase, DirtyPart, EntryPart, RepeatPart
  <2>2. QED
    BY <1>2, <2>1
<1>7. QED
  BY <1>3, <1>4, <1>5, <1>6

\* A send fills one place of the queue at most.
LEMMA QueuedSent ==
    ASSUME PnioTypeOK, NEW e, gpio_command_queue' = Sent(gpio_command_queue, e)
    PROVE  QueueLoad' \in {QueueLoad, QueueLoad + CycleTime}
<1>1. Queued \in Nat /\ CycleTime \in Nat
  BY QueueNumbers
<1>2. Queued' \in {Queued, Queued + 1}
  BY DEF PnioTypeOK, Sent, Queued
<1>3. QueueLoad' = Queued' * CycleTime
  BY DEF QueueLoad
<1>4. (Queued + 1) * CycleTime = Queued * CycleTime + CycleTime
  BY <1>1
<1>5. QED
  BY <1>2, <1>3, <1>4 DEF QueueLoad

\* The GPIO task empties one place.
LEMMA QueuedTaken ==
    ASSUME PnioTypeOK, McuOutputs
    PROVE  \/ QueueLoad' = 0
           \/ QueueLoad' = QueueLoad - CycleTime
<1>1. Queued \in Nat /\ CycleTime \in Nat
  BY QueueNumbers
<1>2. Queued' = IF Queued = 0 THEN 0 ELSE Queued - 1
  BY DEF PnioTypeOK, McuOutputs, Queued
<1>3. QueueLoad' = Queued' * CycleTime
  BY DEF QueueLoad
<1>4. /\ 0 * CycleTime = 0
      /\ (Queued - 1) * CycleTime = Queued * CycleTime - CycleTime
  BY <1>1
<1>5. QED
  BY <1>2, <1>3, <1>4 DEF QueueLoad

\* The loop pays for what it queues.
LEMMA QueueLoop == ASSUME PnioTypeOK, QueueInv, Loop PROVE QueueInv'
<1>1. /\ LoopStep /\ ~ExchangeDue
      /\ UNCHANGED <<flgAppReady, tsLeft, gpioLeft>>
  BY DEF Loop, arVars
<1>2. /\ QueueLoad \in Nat /\ CycleTime \in Nat /\ gpioLeft \in Nat
      /\ elapsed \in Nat /\ Phase \in Nat /\ elapsed' \in Nat /\ Phase' \in Nat
  BY <1>1, QueueNumbers, StepLoad
<1>3. PICK cost \in {0, CycleTime} :
          /\ QueueLoad' \in {QueueLoad, QueueLoad + cost}
          /\ elapsed' + Phase' + cost <= elapsed + Phase
  <2>1. CASE DirtyPart = "mcu"
    BY <1>1, <2>1, QueuedSent, StepLoad DEF Loop
  <2>2. CASE DirtyPart # "mcu"
    <3>1. QueueLoad' = QueueLoad
      BY <2>2 DEF Loop, QueueLoad, Queued
    <3>2. elapsed' + Phase' + 0 <= elapsed + Phase
      <4>1. elapsed' + Phase' + 0 = elapsed' + Phase'
        BY <1>2
      <4>2. QED
        BY <1>1, <2>2, <4>1, StepLoad
    <3>3. QED
      BY <3>1, <3>2
  <2>3. QED
    BY <2>1, <2>2
<1>4. Load' <= Load /\ Load' \in Nat
  <2>1. QueueLoad' \in Nat /\ cost \in Nat
    BY <1>2, <1>3
  <2>2. QueueLoad' <= QueueLoad + cost
    BY <1>2, <1>3, <2>1
  <2>3. Load' = QueueLoad' + elapsed' + gpioLeft + Phase'
    BY <1>1 DEF Load, Work
  <2>4. Load = QueueLoad + elapsed + gpioLeft + Phase
    BY DEF Load, Work
  <2>5. PICK q \in Nat, e \in Nat, p \in Nat :
            QueueLoad' = q /\ elapsed' = e /\ Phase' = p
    BY <1>2, <2>1
  <2>6. q <= QueueLoad + cost /\ e + p + cost <= elapsed + Phase
    BY <1>3, <2>2, <2>5
  <2>7. Load' = q + e + gpioLeft + p
    BY <2>3, <2>5
  <2>8. QED
    BY <1>2, <2>1, <2>4, <2>6, <2>7
<1>5. flgAppReady => tsLeft # 0
  BY <1>1 DEF ExchangeDue
<1>6. QED
  BY <1>1, <1>4, <1>5, QueueNumbers DEF QueueInv, RoundWithin

\* A round finds the load down and adds a command at most.
LEMMA QueueExchange ==
    ASSUME Paced, PnioTypeOK, QueueInv, PnioTypeOK', ExchangeFails \/ ExchangeDone
    PROVE  QueueInv'
<1>1. /\ flgAppReady /\ tsLeft = 0
      /\ UNCHANGED <<elapsed, flgAppReady, gpioLeft, gpio_command_queue>>
      /\ tsLeft' \in {0, TriggerVal}
  BY DEF ExchangeFails, ExchangeDone, ExchangeDue, Exchange, TimeoutAfterFailure, arVars, mcuVars
<1>2. Work <= EmptyLoad
  BY <1>1, QueueNumbers DEF QueueInv, RoundWithin, Paced, Load
<1>3. Work' = Work
  BY <1>1 DEF Work, QueueLoad, Queued
<1>4. Phase' \in 0..CycleTime
  BY QueueNumbersNext DEF PhaseBounded, CycleTime
<1>5. Load' <= EmptyLoad + CycleTime
  <2>1. Load' = Work' + Phase'
    BY DEF Load
  <2>2. QED
    BY <1>2, <1>3, <1>4, <2>1, QueueNumbers
<1>6. tsLeft' = TriggerVal => RoundWithin(1)'
  BY <1>1, QueueNumbers DEF RoundWithin
<1>7. QED
  BY <1>1, <1>2, <1>3, <1>5, <1>6 DEF QueueInv

\* The GPIO task takes off more than it lets come until it is back.
LEMMA QueueGpio == ASSUME Paced, PnioTypeOK, QueueInv, Gpio PROVE QueueInv'
<1>1. /\ UNCHANGED <<elapsed, last_mode, fsm_mode, image, fsm, mcu_last>>
      /\ UNCHANGED <<flgAppReady, tsLeft>>
      /\ gpioLeft = 0 /\ gpioLeft' = GpioCycle
  BY DEF Gpio, loopVars, modeVars, arVars
<1>2. Phase' = Phase
  BY <1>1 DEF Phase, ModeChanged, StepsSinceMcu
<1>3. Work' = QueueLoad' + elapsed + GpioCycle /\ Load' = Work' + Phase
  BY <1>1, <1>2 DEF Work, Load
<1>4. Work = QueueLoad + elapsed /\ Load = Work + Phase
  BY <1>1, QueueNumbers DEF Work, Load
<1>5. CASE QueueLoad' = 0
  <2>1. Load' <= EmptyLoad
    BY <1>3, <1>5, QueueNumbers DEF EmptyLoad
  <2>2. QED
    BY <1>3, <2>1, <1>5, QueueNumbers DEF QueueInv
<1>6. CASE QueueLoad' = QueueLoad - CycleTime
  <2>1. Work' = Work - CycleTime + GpioCycle /\ Load' = Load - CycleTime + GpioCycle
    BY <1>3, <1>4, <1>6, QueueNumbers
  <2>2. Work' + GpioCycle <= Work /\ Load' + GpioCycle <= Load
    BY <2>1, QueueNumbers DEF Paced
  <2>3. Load' \in Int /\ Work' \in Int
    BY <2>1, QueueNumbers
  <2>4. RoundWithin(1) => RoundWithin(2)'
    BY <1>1, QueueNumbers DEF RoundWithin
  <2>5. Load' <= EmptyLoad + CycleTime
    BY <2>2, <2>3, QueueNumbers DEF QueueInv
  <2>6. ASSUME flgAppReady, RoundWithin(1) PROVE Load' <= EmptyLoad + GpioCycle
    BY <2>1, QueueNumbers DEF QueueInv
  <2>7. ASSUME Load <= EmptyLoad + GpioCycle PROVE Load' <= EmptyLoad
    BY <2>2, <2>3, <2>7, QueueNumbers
  <2>8. ASSUME Work <= EmptyLoad PROVE Work' <= EmptyLoad
    BY <2>2, <2>3, <2>8, QueueNumbers
  <2>9. Load <= EmptyLoad => Load' <= EmptyLoad
    BY <2>2, <2>3, QueueNumbers
  <2>10. QED
    BY <1>1, <2>4, <2>5, <2>6, <2>7, <2>8, <2>9 DEF QueueInv
<1>7. QED
  BY <1>5, <1>6, QueuedTaken DEF Gpio

\* Time brings the next command and the GPIO task nearer alike, and a counter
\* that wraps only takes off.
LEMMA QueueTick == ASSUME Paced, PnioTypeOK, QueueInv, Tick PROVE QueueInv'
<1>1. /\ UNCHANGED <<last_mode, fsm_mode, image, fsm, mcu_last>>
      /\ UNCHANGED <<flgAppReady, gpio_command_queue>>
      /\ gpioLeft > 0 /\ gpioLeft' = gpioLeft - 1
      /\ tsLeft' = IF tsLeft > 0 THEN tsLeft - 1 ELSE 0
      /\ elapsed' = (elapsed + 1) % CycleWrap
  BY DEF Tick, LoopWaits, modeVars, arVars
<1>2. elapsed' \in Nat /\ elapsed' <= elapsed + 1
  <2>1. elapsed + 1 < CycleWrap \/ elapsed + 1 = CycleWrap
    BY QueueNumbers
  <2>2. elapsed' = IF elapsed + 1 = CycleWrap THEN 0 ELSE elapsed + 1
    BY <1>1, <2>1, QueueNumbers
  <2>3. QED
    BY <2>2, QueueNumbers
<1>3. Phase' = Phase /\ QueueLoad' = QueueLoad
  BY <1>1 DEF Phase, ModeChanged, StepsSinceMcu, QueueLoad, Queued
<1>4. Work' <= Work /\ Work' \in Nat
  BY <1>1, <1>2, <1>3, QueueNumbers DEF Work
<1>5. Load' <= Load /\ Load' \in Nat
  BY <1>3, <1>4, QueueNumbers DEF Load
<1>6. (RoundWithin(1) => RoundWithin(1)') /\ (RoundWithin(2) => RoundWithin(2)')
  BY <1>1, QueueNumbers DEF RoundWithin, Paced
<1>7. QED
  BY <1>1, <1>4, <1>5, <1>6, QueueNumbers DEF QueueInv

\* Relations that come and go, and a call of the loop before its period is
\* over, leave the queue and what is owed alone.
LEMMA QueueRest ==
    ASSUME PnioTypeOK, QueueInv,
           Poll \/ UNCHANGED pnioVars
             \/ (\E ar \in Ars : ApplReady(ar) \/ ReleaseAr(ar))
             \/ (\E f \in Frames : Control(f))
    PROVE  QueueInv'
<1>1. /\ UNCHANGED <<elapsed, last_mode, fsm_mode, image, fsm, mcu_last>>
      /\ UNCHANGED <<tsLeft, gpioLeft, gpio_command_queue>>
  BY DEF Poll, LoopPoll, ApplReady, ReleaseAr, Control, pnioVars, loopVars, modeVars, mcuVars
<1>2. UNCHANGED <<Work, Load>>
  BY <1>1 DEF Load, Work, QueueLoad, Queued, Phase, ModeChanged, StepsSinceMcu
<1>3. UNCHANGED <<RoundWithin(1), RoundWithin(2)>>
  BY <1>1 DEF RoundWithin
<1>4. flgAppReady' => flgAppReady \/ gpio_command_queue = <<>>
  BY DEF Poll, ApplReady, ReleaseAr, Released, Control, pnioVars, arVars
<1>5. gpio_command_queue = <<>> => Load <= EmptyLoad
  <2>1. gpio_command_queue = <<>> => QueueLoad = 0
    BY QueueNumbers DEF QueueLoad, Queued
  <2>2. QED
    BY <2>1, QueueNumbers DEF Load, Work, EmptyLoad
<1>6. QED
  BY <1>1, <1>2, <1>3, <1>4, <1>5 DEF QueueInv

LEMMA QueueInvariant == ASSUME Paced PROVE PnioSpec => []QueueInv
<1>1. PnioInit => QueueInv
  <2> SUFFICES ASSUME PnioInit PROVE QueueInv
    OBVIOUS
  <2>1. PnioTypeOK
    BY InitIInv DEF IInv
  <2>2. QueueLoad = 0
    BY <2>1, QueueNumbers DEF PnioInit, QueueLoad, Queued
  <2>3. Load <= EmptyLoad
    BY <2>1, <2>2, QueueNumbers DEF Load, Work, EmptyLoad
  <2>4. QED
    BY <2>1, <2>3, QueueNumbers DEF QueueInv
<1>2. IInv /\ QueueInv /\ [PnioNext]_pnioVars => QueueInv'
  BY TypeStep, QueueLoop, QueueExchange, QueueGpio, QueueTick, QueueRest DEF IInv, PnioNext
<1>3. QED
  BY <1>1, <1>2, Inductive, PTL DEF PnioSpec

\* No command for the MCU outputs is dropped, for any periods in the order of
\* those of the code, however late the loop is, for whatever reason, however
\* many rounds fail and relations come and go.
THEOREM NothingIsDropped == ASSUME Paced PROVE PnioSpec => NothingDropped
<1>1. IInv /\ QueueInv /\ [PnioNext]_pnioVars
          => (Loop /\ DirtyPart = "mcu" => Queued < QueueLen)
  <2> SUFFICES ASSUME IInv, QueueInv, Loop, DirtyPart = "mcu", Queued = QueueLen PROVE FALSE
    BY QueueNumbers DEF IInv
  <2>1. PnioTypeOK /\ CycleTime < elapsed + Phase
    BY StepLoad DEF IInv, Loop
  <2>2. QueueLoad < EmptyLoad
    BY <2>1, QueueNumbers DEF QueueInv, Load, Work
  <2>3. QueueLoad = (QueueLen - 1) * CycleTime + CycleTime
    BY <2>1, QueueNumbers DEF QueueLoad
  <2>4. (QueueLen - 1) * CycleTime \in Int
    BY <2>1, QueueNumbers
  <2>5. QED
    BY <2>1, <2>2, <2>3, <2>4, QueueNumbers DEF Paced, EmptyLoad
<1>2. QED
  BY <1>1, Inductive, QueueInvariant, PTL DEF PnioSpec, NothingDropped, Queued

=============================================================================
