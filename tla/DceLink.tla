------------------------------- MODULE DceLink -------------------------------
(***************************************************************************)
(* The CentriFeeder link as a whole: dce_task.c (the requesting task and   *)
(* the values it publishes to the EtherNet/IP input assembly), the Modbus  *)
(* master it calls (MbMaster) and the clock.                               *)
(*                                                                         *)
(* Time is a tick counter seen only through intervals. A tick passes when  *)
(* every task is blocked and no interrupt is due: the work done by a task  *)
(* or an ISR takes no time compared with a tick.                           *)
(***************************************************************************)
EXTENDS MbMaster, Integers

CONSTANTS
    PollPeriod,      \* DCE_POLL_PERIOD_MS
    ReqWait,         \* DCE_REQ_WAIT_MS
    FinishTimeout,   \* MB_REQ_FINISH_TIMEOUT_MS
    StaleTimeout,    \* DCE_STALE_TIMEOUT_MS
    LagMax,          \* how far behind schedule the wake-up time is tracked
    StallMax,        \* ticks per cycle in which higher-priority tasks keep the CPU
    MbPriority,      \* MB_POLL_TASK_PRIORITY
    DcePriority,     \* DCE_TASK_PRIORITY
    CounterMod       \* dceDiag counters wrap at this value (2^32 in the code)

ASSUME DceAssumption ==
    /\ {PollPeriod, ReqWait, FinishTimeout, StaleTimeout, CounterMod} \subseteq Nat \ {0}
    /\ LagMax \in Nat /\ StallMax \in Nat
    /\ MbPriority \in Nat /\ DcePriority \in Nat
    /\ MbPriority >= DcePriority

VARIABLES
    dcePc,        \* where dce_task is
    dceLeft,      \* ticks left of the timeout of the semaphore it waits for
    eErr,         \* result of the request it made
    wakeIn,       \* tsWake, relative to now
    flowRate,     \* dceData.flowRate and .totalization: "zero" or "reading"
    valid,        \* dceData.valid
    age,          \* ticks since dceData.tsLastGood, while a reading is shown
    dceDiag,      \* bench counters
    pubOwn,       \* history: the reading published answers this cycle's request
    sincePoll,    \* history: ticks since the last request was issued, capped
    stallLeft     \* ticks of stall still to come in this cycle (bound of the model)

waitVars == <<dcePc, dceLeft, eErr, wakeIn>>
dataVars == <<flowRate, valid, age>>
auxVars  == <<pubOwn, sincePoll, stallLeft>>
dceVars  == <<waitVars, dataVars, dceDiag, auxVars>>
vars     == <<mbVars, dceVars>>

Counters == {"polls", "good", "timeouts", "rxErrors", "exceptions",
             "otherErrors", "rawMismatch", "cwratioZero", "staleEvents"}
DcePcs == {"boot", "start", "take", "discard", "clear", "post", "wait", "read",
           "giveup", "account", "check", "sleep"}

LinkTypeOK ==
    /\ dcePc \in DcePcs
    /\ dceLeft \in Nat
    /\ eErr \in ReqErrs \cup {"MASTER_BUSY"}
    /\ wakeIn \in Int
    /\ flowRate \in {"zero", "reading"} /\ valid \in BOOLEAN /\ age \in Nat
    /\ dceDiag \in [Counters -> 0..(CounterMod - 1)]
    /\ pubOwn \in BOOLEAN
    /\ sincePoll \in 0..(PollPeriod + 1)
    /\ stallLeft \in 0..StallMax

TypeOK == MasterTypeOK /\ LinkTypeOK

\* dce_taskInit clears dceData and dceDiag and creates the two tasks.
Init ==
    /\ MasterInit
    /\ dcePc = "boot" /\ dceLeft = 0 /\ eErr = "NO_ERR" /\ wakeIn = 0
    /\ flowRate = "zero" /\ valid = FALSE /\ age = 0
    /\ dceDiag = [c \in Counters |-> 0]
    /\ pubOwn = TRUE /\ sincePoll = 0 /\ stallLeft = StallMax

-----------------------------------------------------------------------------
(* dce_task. It has the lower priority: it runs while mbpoll is blocked. *)

DceRuns(from, to) ==
    /\ dcePc = from /\ dcePc' = to
    /\ MbPriority > DcePriority => MbIdle

Count(c) == dceDiag' = [dceDiag EXCEPT ![c] = (@ + 1) % CounterMod]

\* Wait for dceMbReady, then take the first wake-up time from the clock.
DceBoot ==
    /\ DceRuns("boot", "start")
    /\ dceMbReady
    /\ wakeIn' = 0 /\ sincePoll' = PollPeriod
    /\ UNCHANGED <<mbVars, dceLeft, eErr, dataVars, dceDiag, pubOwn, stallLeft>>

\* A new cycle: mbcb_rawInvalidate, then the request. Whatever is still on
\* its way belongs to an earlier cycle from now on.
mbcb_rawInvalidate == prvRaw' = "none"

DceStart ==
    /\ DceRuns("start", "take")
    /\ mbcb_rawInvalidate
    /\ own' = {}
    /\ Count("polls")
    /\ dceLeft' = ReqWait
    /\ sincePoll' = 0
    /\ UNCHANGED <<portVars, mbPc, rtuVars, lineVars, eErr, wakeIn, dataVars,
                   pubOwn, stallLeft>>

DceTake ==
    /\ DceRuns("take", "discard")
    /\ RunResTake
    /\ UNCHANGED <<eventVars, timerVars, uartVars, mbPc, rtuVars, prvRaw, lineVars, own,
                   dceLeft, eErr, wakeIn, dataVars, dceDiag, auxVars>>

\* The run resource did not come free in time: the request is not made.
DceBusy ==
    /\ DceRuns("take", "account")
    /\ ~runRes /\ dceLeft = 0
    /\ eErr' = "MASTER_BUSY"
    /\ UNCHANGED <<mbVars, dceLeft, wakeIn, dataVars, dceDiag, auxVars>>

DceDiscard ==
    /\ DceRuns("discard", "clear")
    /\ DiscardCompletion
    /\ UNCHANGED <<eventVars, timerVars, uartVars, mbPc, rtuVars, prvRaw, lineVars, own,
                   dceLeft, eErr, wakeIn, dataVars, dceDiag, auxVars>>

DceClear ==
    /\ DceRuns("clear", "post")
    /\ ClearResult
    /\ UNCHANGED <<eventVars, timerVars, uartVars, mbPc, rtuVars, prvRaw, lineVars, own,
                   dceLeft, eErr, wakeIn, dataVars, dceDiag, auxVars>>

\* eMBMasterReqReadHoldingRegister posts the frame and waits for its finish.
DcePost ==
    /\ DceRuns("post", "wait")
    /\ xMBMasterPortEventPost("FRAME_SENT")
    /\ dceLeft' = FinishTimeout
    /\ UNCHANGED <<semVars, timerVars, uartVars, mbPc, rtuVars, prvRaw, lineVars, own,
                   eErr, wakeIn, dataVars, dceDiag, auxVars>>

DceWoken ==
    /\ DceRuns("wait", "read")
    /\ ResultTake
    /\ UNCHANGED <<eventVars, timerVars, uartVars, mbPc, rtuVars, prvRaw, lineVars, own,
                   dceLeft, eErr, wakeIn, dataVars, dceDiag, auxVars>>

DceRead ==
    /\ DceRuns("read", "account")
    /\ eErr' = eMasterResult
    /\ UNCHANGED <<mbVars, dceLeft, wakeIn, dataVars, dceDiag, auxVars>>

\* Mutant: the requester waits for its completion without a timeout.
DceFinishTimeoutNever ==
    /\ DceRuns("wait", "giveup")
    /\ FALSE
    /\ UNCHANGED <<mbVars, dceLeft, eErr, wakeIn, dataVars, dceDiag, auxVars>>

\* The safety net of eMBMasterWaitRequestFinish.
DceFinishTimeout ==
    /\ DceRuns("wait", "giveup")
    /\ ~resultSem /\ dceLeft = 0
    /\ UNCHANGED <<mbVars, dceLeft, eErr, wakeIn, dataVars, dceDiag, auxVars>>

\* Mutant: a request that is abandoned keeps the run resource.
DceGiveUpKeeping ==
    /\ DceRuns("giveup", "account")
    /\ eErr' = "TIMEDOUT"
    /\ UNCHANGED <<mbVars, dceLeft, wakeIn, dataVars, dceDiag, auxVars>>

DceGiveUp ==
    /\ DceRuns("giveup", "account")
    /\ vMBMasterRunResRelease
    /\ eErr' = "TIMEDOUT"
    /\ UNCHANGED <<eventVars, timerVars, uartVars, mbPc, rtuVars, prvRaw, lineVars, own,
                   dceLeft, wakeIn, dataVars, dceDiag, auxVars>>

\* dce_diagCountErr, and what the cycle makes of the outcome. A raw reply
\* that mbcb_rawGet refuses, or one with CWratio = 0, publishes nothing.
dce_dataSet == flowRate' = "reading" /\ valid' = TRUE /\ age' = 0

CounterOf(err) == CASE err = "TIMEDOUT"    -> "timeouts"
                    [] err = "REV_DATA"    -> "rxErrors"
                    [] err = "EXE_FUN"     -> "exceptions"
                    [] err = "MASTER_BUSY" -> "otherErrors"

DceGood ==
    /\ prvRaw = "good"
    /\ Count("good")
    /\ dce_dataSet
    /\ pubOwn' = ("raw" \in own)

\* Mutant: a reply with CWratio = 0 does not count as good.
DceZeroRatioNotGood ==
    /\ prvRaw = "zero"
    /\ Count("cwratioZero")
    /\ UNCHANGED <<dataVars, pubOwn>>

DceZeroRatio ==
    /\ prvRaw = "zero"
    /\ dceDiag' = [c \in Counters |-> IF c \in {"good", "cwratioZero"}
                                      THEN (dceDiag[c] + 1) % CounterMod
                                      ELSE dceDiag[c]]
    /\ UNCHANGED <<dataVars, pubOwn>>

DceRefused ==
    /\ prvRaw = "none"
    /\ Count("rawMismatch")
    /\ UNCHANGED <<dataVars, pubOwn>>

\* Mutant: the last values are published again whatever the outcome.
DceAccountAlways ==
    /\ DceRuns("account", "check")
    /\ \/ eErr = "NO_ERR" /\ (DceGood \/ DceZeroRatio \/ DceRefused)
       \/ eErr # "NO_ERR" /\ Count(CounterOf(eErr)) /\ dce_dataSet /\ UNCHANGED pubOwn
    /\ UNCHANGED <<mbVars, dceLeft, eErr, wakeIn, sincePoll, stallLeft>>

DceAccount ==
    /\ DceRuns("account", "check")
    /\ \/ eErr = "NO_ERR" /\ (DceGood \/ DceZeroRatio \/ DceRefused)
       \/ eErr # "NO_ERR" /\ Count(CounterOf(eErr)) /\ UNCHANGED <<dataVars, pubOwn>>
    /\ UNCHANGED <<mbVars, dceLeft, eErr, wakeIn, sincePoll, stallLeft>>

\* Mutant: going stale clears the flag and forgets the values.
dce_dataInvalidateFlagOnly == valid' = FALSE /\ UNCHANGED <<flowRate, age>>

\* The staleness check, whatever the outcome, and vTaskDelayUntil: the next
\* wake-up time is one period after the last, even if that is in the past.
dce_dataInvalidate == flowRate' = "zero" /\ valid' = FALSE /\ age' = 0

\* Mutant: the staleness check is part of the success branch.
DceCheckOnSuccess ==
    /\ DceRuns("check", "sleep")
    /\ IF eErr = "NO_ERR" /\ valid /\ age > StaleTimeout
       THEN dce_dataInvalidate /\ Count("staleEvents")
       ELSE UNCHANGED <<dataVars, dceDiag>>
    /\ wakeIn' = wakeIn + PollPeriod
    /\ stallLeft' = StallMax
    /\ UNCHANGED <<mbVars, dceLeft, eErr, pubOwn, sincePoll>>

DceCheck ==
    /\ DceRuns("check", "sleep")
    /\ IF valid /\ age > StaleTimeout
       THEN dce_dataInvalidate /\ Count("staleEvents")
       ELSE UNCHANGED <<dataVars, dceDiag>>
    /\ wakeIn' = wakeIn + PollPeriod
    /\ stallLeft' = StallMax
    /\ UNCHANGED <<mbVars, dceLeft, eErr, pubOwn, sincePoll>>

DceWake ==
    /\ DceRuns("sleep", "start")
    /\ wakeIn <= 0
    /\ UNCHANGED <<mbVars, dceLeft, eErr, wakeIn, dataVars, dceDiag, auxVars>>

DceTask ==
    \/ DceBoot \/ DceStart \/ DceTake \/ DceBusy \/ DceDiscard \/ DceClear \/ DcePost
    \/ DceWoken \/ DceRead \/ DceFinishTimeout \/ DceGiveUp \/ DceAccount \/ DceCheck
    \/ DceWake

-----------------------------------------------------------------------------
(* The clock *)

DceBlocked ==
    \/ dcePc = "boot" /\ ~dceMbReady
    \/ dcePc = "take" /\ ~runRes /\ dceLeft > 0
    \/ dcePc = "wait" /\ ~resultSem /\ dceLeft > 0
    \/ dcePc = "sleep" /\ wakeIn > 0

TimePasses ==
    /\ MasterTick
    /\ dceLeft' = IF dcePc \in {"take", "wait"} /\ dceLeft > 0 THEN dceLeft - 1 ELSE dceLeft
    /\ wakeIn' = IF wakeIn > -LagMax THEN wakeIn - 1 ELSE wakeIn
    /\ age' = IF flowRate = "reading" THEN age + 1 ELSE age
    /\ sincePoll' = IF sincePoll <= PollPeriod THEN sincePoll + 1 ELSE sincePoll
    /\ UNCHANGED <<dcePc, eErr, flowRate, valid, dceDiag, pubOwn>>

Tick ==
    /\ MbIdle /\ DceBlocked /\ ~InterruptPending
    /\ TimePasses
    /\ UNCHANGED stallLeft

\* The AFE task outranks both tasks and samples with busy waits: a task of
\* this module that is ready may stay so for several ticks.
Stall ==
    /\ stallLeft > 0 /\ stallLeft' = stallLeft - 1
    /\ ~(MbIdle /\ DceBlocked) /\ ~InterruptPending
    /\ TimePasses

Next ==
    \/ MbPoll /\ UNCHANGED dceVars
    \/ Interrupts /\ UNCHANGED dceVars
    \/ DceTask
    \/ Tick
    \/ Stall

Spec == Init /\ [][Next]_vars

\* The scheduler runs every ready task, the hardware raises due interrupts
\* and the clock goes on; the DCE and the noise are free.
FairSpec ==
    /\ Spec
    /\ WF_vars(MbPoll /\ UNCHANGED dceVars)
    /\ WF_vars((TransmissionComplete \/ TimerExpired) /\ UNCHANGED dceVars)
    /\ WF_vars(DceTask)
    /\ WF_vars(Tick)

-----------------------------------------------------------------------------
(* Properties *)

\* The longest a published reading can go without a staleness check.
MaxAge == StaleTimeout + PollPeriod + ReqWait + FinishTimeout + StallMax

\* What dce_dataGet hands to the PLC as valid was read at most MaxAge ago,
\* whatever is lost, late or noisy (dce_task.c, staleness check).
StaleBound == valid => age <= MaxAge

\* The run resource is never leaked: when no request is outstanding it can
\* be taken, or mbpoll is about to give it back; and a completion signal
\* never precedes a release that does not come (portevent.c).
RunResConserved ==
    /\ dcePc \in {"boot", "start", "take", "read", "account", "check", "sleep"} /\ ~runRes
          => mbPc = "release"
    /\ dcePc \in {"clear", "post", "wait"} /\ resultSem
          => runRes \/ mbPc = "release"

\* A request never fails with MB_MRE_MASTER_BUSY (RECOVERY.md: otherErrors
\* climbing would mean that the run resource was not released).
NeverBusy == eErr # "MASTER_BUSY"

\* A request that reports success finds its reply staged: mbpoll does not
\* complete a request across the requester's mbcb_rawInvalidate.
NoRawMismatch == dcePc = "account" /\ eErr = "NO_ERR" => prvRaw # "none"

\* A published reading answers the request of the cycle that published it
\* (dce_task.c: a failed transaction must not leave a reply looking fresh).
FreshReply == pubOwn

\* While the RTU state machine waits for a response the TPM is armed for the
\* response timeout, and no frame end is being timed (modbus_timer.c).
ResponseTimed == sndState = "XFWR" => timerMode = "RESPOND" /\ rcvState = "IDLE"

\* Every request issued is counted under exactly one outcome, up to the
\* wrap of the counters (dce_diagCountErr and its callers).
InFlight == dcePc \in DcePcs \ {"boot", "start", "check", "sleep"}
Accounting ==
    dceDiag["polls"] =
        (dceDiag["good"] + dceDiag["rawMismatch"] + dceDiag["timeouts"]
            + dceDiag["rxErrors"] + dceDiag["exceptions"] + dceDiag["otherErrors"]
            + (IF InFlight THEN 1 ELSE 0)) % CounterMod

\* Once the stack is up, polling never stops, whatever event is lost.
PollsForever == []<>(mbPc = "failed") \/ []<>(dcePc = "start")

\* When requests stop succeeding for good, the reading is withdrawn for good.
SilenceIsShown == <>[](eErr # "NO_ERR") => <>[](~valid)

\* Two polls are never closer than the period (RECOVERY.md).
PollSpacing == [][dcePc = "start" /\ dcePc' = "take" => sincePoll >= PollPeriod]_vars

-----------------------------------------------------------------------------
(* What the link promises *)

\* The values of the input assembly are zero or a reading of bounded age:
\* the link implements FreshOrZero (dce_dataGet, dce_dataSet,
\* dce_dataInvalidate and the staleness check that calls it).
Published == INSTANCE FreshOrZero WITH shown <- flowRate, age <- age, Bound <- MaxAge
PublishedSpec == Published!Spec

=============================================================================
