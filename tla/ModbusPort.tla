------------------------------ MODULE ModbusPort ------------------------------
(***************************************************************************)
(* The FreeRTOS port layer of the Modbus RTU master of the CentriFeeder    *)
(* link: portevent.c (protocol event queue, run resource, completion       *)
(* semaphore), modbus_timer.c (the one TPM that times T3.5 gaps and        *)
(* responses) and modbus_serial.c (which LPUART interrupt may fire).       *)
(*                                                                         *)
(* Every operator is one port function, written as an action over the      *)
(* variables that function touches. MbMaster calls them from the FreeModbus*)
(* state machine, DceLink from the requesting task.                        *)
(***************************************************************************)
EXTENDS Naturals, Sequences

CONSTANTS
    QueueLen,        \* MB_EVENT_QUEUE_LEN, depth of the protocol event queue
    RespondTimeout,  \* MB_MASTER_TIMEOUT_US_RESPOND, in clock ticks
    LossMax          \* how many event posts may fail although there is room

ASSUME PortAssumption ==
    /\ QueueLen \in Nat \ {0}
    /\ RespondTimeout \in Nat \ {0}
    /\ LossMax \in Nat

VARIABLES
    eventQ,          \* xMasterEventQueue
    lossLeft,        \* event losses still to come (bound of the model)
    runRes,          \* xMasterRunRes: TRUE when it can be taken
    resultSem,       \* xMasterResultSem: TRUE when it has been given
    eMasterResult,   \* result variable the completion callbacks write
    timerMode,       \* what the TPM is armed for; "off" when stopped
    timerLeft,       \* ticks to expiry of the response timer
    rxIsr, txIsr     \* RxIsrFlag and TxIsrFlag, with the interrupt enables

eventVars == <<eventQ, lossLeft>>
semVars   == <<runRes, resultSem, eMasterResult>>
timerVars == <<timerMode, timerLeft>>
uartVars  == <<rxIsr, txIsr>>
portVars  == <<eventVars, semVars, timerVars, uartVars>>

Events == {"READY", "FRAME_SENT", "FRAME_RECEIVED", "EXECUTE", "ERROR_PROCESS"}
ReqErrs == {"NO_ERR", "TIMEDOUT", "REV_DATA", "EXE_FUN"}

PortTypeOK ==
    /\ eventQ \in Seq(Events) /\ Len(eventQ) <= QueueLen
    /\ lossLeft \in 0..LossMax
    /\ runRes \in BOOLEAN /\ resultSem \in BOOLEAN /\ eMasterResult \in ReqErrs
    /\ timerMode \in {"off", "T35", "RESPOND"}
    /\ timerLeft \in 0..RespondTimeout
    /\ rxIsr \in BOOLEAN /\ txIsr \in BOOLEAN

\* vMBMasterOsResInit, queue creation and prvTpmArm + TPM_StopTimer.
PortInit ==
    /\ eventQ = <<>> /\ lossLeft = LossMax
    /\ runRes = TRUE /\ resultSem = FALSE /\ eMasterResult = "NO_ERR"
    /\ timerMode = "off" /\ timerLeft = 0
    /\ rxIsr = FALSE /\ txIsr = FALSE

-----------------------------------------------------------------------------
(* portevent.c: protocol events *)

\* xMBMasterPortEventPost never blocks, from a task or an ISR; no caller
\* looks at its result, so an event that finds no room is gone. A bounded
\* number of posts may fail for another reason: the lost event the comment
\* above MB_REQ_FINISH_TIMEOUT_MS provides for.
xMBMasterPortEventPost(e) ==
    \/ /\ eventQ' = IF Len(eventQ) < QueueLen THEN Append(eventQ, e) ELSE eventQ
       /\ UNCHANGED lossLeft
    \/ /\ lossLeft > 0
       /\ lossLeft' = lossLeft - 1
       /\ UNCHANGED eventQ

\* xMBMasterPortEventGet: the poll task takes the oldest event. Its 50 ms
\* wait running out changes nothing, so only the successful receive is a step.
xMBMasterPortEventGet(e) ==
    /\ eventQ # <<>> /\ e = Head(eventQ)
    /\ eventQ' = Tail(eventQ)
    /\ UNCHANGED lossLeft

-----------------------------------------------------------------------------
(* portevent.c: run resource and request completion *)

\* The three steps of xMBMasterRunResTake: the take itself, the discard of a
\* completion left by an abandoned request, and the reset of the result.
RunResTake ==
    /\ runRes
    /\ runRes' = FALSE
    /\ UNCHANGED <<resultSem, eMasterResult>>

DiscardCompletion == resultSem' = FALSE /\ UNCHANGED <<runRes, eMasterResult>>

ClearResult == eMasterResult' = "NO_ERR" /\ UNCHANGED <<runRes, resultSem>>

\* Mutant: the release that mb_m.c relies on does nothing.
vMBMasterRunResReleaseDropped == UNCHANGED semVars

\* Giving a binary semaphore that is available already has no effect.
vMBMasterRunResRelease == runRes' = TRUE /\ UNCHANGED <<resultSem, eMasterResult>>

\* A completion callback is two steps: the result, then the semaphore.
CallbackResult(r) == eMasterResult' = r /\ UNCHANGED <<runRes, resultSem>>
CallbackGive == resultSem' = TRUE /\ UNCHANGED <<runRes, eMasterResult>>

\* eMBMasterWaitRequestFinish wakes; the result is read in a later step.
ResultTake ==
    /\ resultSem
    /\ resultSem' = FALSE
    /\ UNCHANGED <<runRes, eMasterResult>>

-----------------------------------------------------------------------------
(* modbus_timer.c: every arm stops the TPM, reloads it and restarts it *)

vMBMasterPortTimersT35Enable ==
    timerMode' = "T35" /\ timerLeft' = 0

\* Mutant: the response timeout is armed with a single tick.
vMBMasterPortTimersRespondTimeoutShort ==
    timerMode' = "RESPOND" /\ timerLeft' = 1

vMBMasterPortTimersRespondTimeoutEnable ==
    timerMode' = "RESPOND" /\ timerLeft' = RespondTimeout

vMBMasterPortTimersDisable ==
    timerMode' = "off" /\ timerLeft' = 0

\* A T3.5 gap is shorter than a tick, so it may expire at any moment.
TimerDue == timerMode # "off" /\ timerLeft = 0

(* modbus_serial.c *)
vMBMasterPortSerialEnable(rx, tx) == rxIsr' = rx /\ txIsr' = tx

=============================================================================
