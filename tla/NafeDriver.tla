------------------------------ MODULE NafeDriver ------------------------------
(***************************************************************************)
(* The interrupt-driven sampling of the NAFE13388 analogue front end:      *)
(* nafe13388.c and nafe_hal.c as api_afe.c uses them (non-blocking sample  *)
(* modes, one SPI frame per round of channels, conversions triggered by the*)
(* SYNC pin, DRDY on the sequencer), with the device itself.               *)
(*                                                                         *)
(* The handle is known by what it is configured for: that fixes sampleMode,*)
(* chConfig, data, contSampleAmt and chnAmt at once. Blocking SPI frames   *)
(* are part of the action that sends them; frames sent without waiting are *)
(* on the bus (spi) until their interrupt.                                 *)
(***************************************************************************)
EXTENDS Naturals, Sequences

CONSTANTS
    LvAmt,      \* samples_amt of an lvsig measurement
    TempAmt,    \* samples_amt of a temperature measurement
    ConvMax     \* clock ticks a conversion may take at most

ASSUME DriverAssumption ==
    /\ LvAmt \in Nat \ {0} /\ TempAmt \in Nat \ {0}
    /\ ConvMax \in Nat

VARIABLES
    kind,                 \* what the handle is configured for
    devSampleMode,        \* mode the driver believes the device is in
    nonBlockSampleState,  \* state of the interrupt state machine
    contSampleCnt,        \* rounds read in a continuous mode
    sampleInProgress,     \* a measurement was started and has not ended
    irqOn,                \* SPI and DRDY interrupts of a sample are enabled
    spi,                  \* the bus: idle, a mode command, or results
    devMode,              \* mode the device is in, "none" after a reset
    conv,                 \* the device: idle, converting, or DRDY raised
    convLeft              \* ticks left of the conversion

handleVars == <<kind, devSampleMode, nonBlockSampleState, contSampleCnt, irqOn>>
deviceVars == <<spi, devMode, conv, convLeft>>
nafeVars   == <<handleVars, sampleInProgress, deviceVars>>

Periodic   == {"hv", "current"}      \* kNafeSampleMode_mcmrNonBlock, _scsrNonBlock
Continuous == {"lv", "temp"}         \* kNafeSampleMode_mccrNonBlock, _sccrNonBlock
Kinds == Periodic \cup Continuous

contSampleAmt == IF kind = "lv" THEN LvAmt ELSE TempAmt

NafeTypeOK ==
    /\ kind \in Kinds \cup {"none"} /\ devSampleMode \in Kinds \cup {"none"}
    /\ devMode \in Kinds \cup {"none"}
    /\ nonBlockSampleState \in {"initial", "modeCmdSent", "waitForReady",
                                "rxClkSending", "done"}
    /\ contSampleCnt \in Nat
    /\ sampleInProgress \in BOOLEAN /\ irqOn \in BOOLEAN
    /\ spi \in {"idle", "rx"} \cup Kinds
    /\ conv \in {"idle", "converting", "drdy"}
    /\ convLeft \in 0..ConvMax

NafeInit ==
    /\ kind = "none" /\ devSampleMode = "none"
    /\ nonBlockSampleState = "initial" /\ contSampleCnt = 0
    /\ sampleInProgress = FALSE /\ irqOn = FALSE
    /\ spi = "idle" /\ devMode = "none" /\ conv = "idle" /\ convLeft = 0

-----------------------------------------------------------------------------
(* The device *)

\* A conversion takes some ticks, or less than one.
StartConversion ==
    /\ conv' = "converting"
    /\ convLeft' \in 0..ConvMax

\* SYNC starts a conversion in the mode the device was commanded to; a
\* device that was reset and not commanded since does not convert.
SyncPulse ==
    IF devMode = "none" THEN UNCHANGED <<conv, convLeft>> ELSE StartConversion

\* DRDY rises; with no one listening it goes unseen.
DeviceReady ==
    /\ conv = "converting" /\ convLeft = 0 /\ spi = "idle"
    /\ conv' = "drdy"
    /\ UNCHANGED <<handleVars, sampleInProgress, spi, devMode, convLeft>>

-----------------------------------------------------------------------------
(* nafe13388.c *)

\* NAFE_triggerSample: a mode command goes out when the device is not known
\* to be in the mode already, else the SYNC pulse.
NAFE_triggerSample ==
    IF devSampleMode # kind
    THEN /\ spi' = kind
         /\ devSampleMode' = kind
         /\ nonBlockSampleState' = "modeCmdSent"
         /\ UNCHANGED <<devMode, conv, convLeft>>
    ELSE /\ SyncPulse
         /\ nonBlockSampleState' = "waitForReady"
         /\ UNCHANGED <<spi, devSampleMode, devMode>>

\* NAFE_startSample clears both interrupt flags and enables the interrupts.
NAFE_startSample ==
    /\ contSampleCnt' = 0
    /\ irqOn' = TRUE
    /\ NAFE_triggerSample
    /\ UNCHANGED kind

\* NAFE_init: the HAL stops the bus and DRDY, RSTB resets the device, the
\* registers of the channels are written. What the driver remembers of a
\* sample is left as it is.
NAFE_init ==
    /\ irqOn' = FALSE
    /\ spi' = "idle" /\ devMode' = "none" /\ conv' = "idle" /\ convLeft' = 0
    /\ UNCHANGED <<kind, devSampleMode, nonBlockSampleState, contSampleCnt, sampleInProgress>>

\* Mutant: the driver goes on believing in the mode of a sample that ended.
NAFE_terminateSampleKeeping ==
    /\ devMode' = IF kind \in Continuous THEN "none" ELSE devMode
    /\ conv' = "idle" /\ convLeft' = 0
    /\ UNCHANGED devSampleMode

\* NAFE_terminateSample: ABORT in the continuous modes, and the driver
\* forgets the mode in all of them.
NAFE_terminateSample ==
    /\ devMode' = IF kind \in Continuous THEN "none" ELSE devMode
    /\ conv' = "idle" /\ convLeft' = 0
    /\ devSampleMode' = "none"

\* NAFE_irqHandle, SPI interrupt, modeCmdSent: the device has the command,
\* NAFE_triggerSample follows: SYNC, or the next command if the handle has
\* changed meanwhile.
SpiModeSent ==
    /\ nonBlockSampleState = "modeCmdSent" /\ spi \in Kinds
    /\ devMode' = spi
    /\ IF devSampleMode = kind
       THEN /\ nonBlockSampleState' = "waitForReady"
            /\ spi' = "idle"
            /\ StartConversion
            /\ UNCHANGED devSampleMode
       ELSE /\ nonBlockSampleState' = "modeCmdSent"
            /\ spi' = kind
            /\ devSampleMode' = kind
            /\ UNCHANGED <<conv, convLeft>>
    /\ UNCHANGED <<kind, contSampleCnt, irqOn, sampleInProgress>>

\* NAFE_irqHandle, DRDY interrupt, waitForReady: clock the results out.
DrdyIsr ==
    /\ irqOn /\ conv = "drdy"
    /\ nonBlockSampleState = "waitForReady"
    /\ nonBlockSampleState' = "rxClkSending"
    /\ spi' = "rx"
    /\ conv' = "idle"
    /\ UNCHANGED <<kind, devSampleMode, contSampleCnt, irqOn, sampleInProgress,
                   devMode, convLeft>>

\* NAFE_irqHandle, SPI interrupt, rxClkSending: a round that is not the
\* last of a continuous mode; the device is converting the next one.
SpiRound ==
    /\ nonBlockSampleState = "rxClkSending" /\ spi = "rx"
    /\ kind \in Continuous /\ contSampleCnt + 1 < contSampleAmt
    /\ contSampleCnt' = contSampleCnt + 1
    /\ nonBlockSampleState' = "waitForReady"
    /\ spi' = "idle"
    /\ StartConversion
    /\ UNCHANGED <<kind, devSampleMode, irqOn, sampleInProgress, devMode>>

\* ... and the last: interrupts off and the sample terminated, at once in
\* the continuous modes and by AFE_callback in the others.
LastRound ==
    /\ nonBlockSampleState = "rxClkSending" /\ spi = "rx"
    /\ kind \in Periodic \/ contSampleCnt + 1 >= contSampleAmt
    /\ contSampleCnt' = IF kind \in Continuous THEN contSampleCnt + 1 ELSE contSampleCnt
    /\ irqOn' = FALSE
    /\ spi' = "idle"
    /\ NAFE_terminateSample
    /\ nonBlockSampleState' = "done"
    /\ UNCHANGED kind

=============================================================================
