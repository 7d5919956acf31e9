------------------------------- MODULE MbMaster -------------------------------
(***************************************************************************)
(* The Modbus RTU master as the DCE task uses it: the mbpoll task that runs*)
(* eMBMasterPoll(), the RTU state machine driven by the LPUART and TPM     *)
(* interrupts (FreeModbus, not in the repository: modelled from the port   *)
(* functions it calls and the callbacks it makes), the register callback   *)
(* of modbus_cb.c, and the DCE at the other end of the RS-485 pair.        *)
(***************************************************************************)
EXTENDS ModbusPort

CONSTANTS
    AnswerMax,   \* ticks after which the DCE no longer answers a request
    NoiseMax     \* bursts of line noise that may still reach the receiver

ASSUME MasterAssumption ==
    /\ AnswerMax \in Nat
    /\ NoiseMax \in Nat

VARIABLES
    mbPc,        \* where the mbpoll task is: an event it handles, or a step
    rcvState,    \* receiver of the RTU state machine
    sndState,    \* transmitter of the RTU state machine
    rxFrame,     \* kind of the frame in the receive buffer
    errorType,   \* error the RTU state machine or eMBMasterPoll recorded
    prvRaw,      \* prvRawRegs/prvRawNRegs: kind of the staged reply, or "none"
    dceReq,      \* the DCE's own state: a request it has received and not answered
    dceAge,      \* ticks since that request was on the wire
    noiseLeft,   \* bursts of noise still to come (bound of the model)
    own          \* history: which places hold something of the current cycle

rtuVars  == <<rcvState, sndState, rxFrame, errorType>>
lineVars == <<dceReq, dceAge, noiseLeft>>
mbVars   == <<portVars, mbPc, rtuVars, prvRaw, lineVars, own>>

\* A reply with both operands, one with CWratio = 0, a Modbus exception.
Answers == {"good", "zero", "exception"}
Kinds == Answers \cup {"corrupt"}
Callbacks == {"cbSuccess", "cbRespondTimeout", "cbReceiveData", "cbExecuteFunction"}
Places == {"snd", "wire", "rx", "raw"}

MasterTypeOK ==
    /\ PortTypeOK
    /\ mbPc \in {"init", "failed", "get", "give", "release"} \cup Events \cup Callbacks
    /\ rcvState \in {"INIT", "IDLE", "RCV"}
    /\ sndState \in {"IDLE", "XMIT", "GARBLED", "XFWR"}
    /\ rxFrame \in Kinds
    /\ errorType \in {"RESPOND_TIMEOUT", "RECEIVE_DATA", "EXECUTE_FUNCTION"}
    /\ prvRaw \in {"none", "good", "zero"}
    /\ dceReq \in BOOLEAN /\ dceAge \in 0..AnswerMax
    /\ noiseLeft \in 0..NoiseMax
    /\ own \subseteq Places

MasterInit ==
    /\ PortInit
    /\ mbPc = "init"
    /\ rcvState = "INIT" /\ sndState = "IDLE" /\ rxFrame = "corrupt"
    /\ errorType = "RESPOND_TIMEOUT"
    /\ prvRaw = "none"
    /\ dceReq = FALSE /\ dceAge = 0 /\ noiseLeft = NoiseMax
    /\ own = {}

\* The history moves with the data: p now holds what q held.
Inherit(p, q) == own' = IF q \in own THEN own \cup {p} ELSE own \ {p}

-----------------------------------------------------------------------------
(* The mbpoll task *)

\* dceMbReady: set once eMBMasterInit and eMBMasterEnable have succeeded.
dceMbReady == mbPc \notin {"init", "failed"}

\* dce_mbPollTask up to its loop. eMBMasterEnable starts the receiver and
\* the first T3.5 gap; either call may fail, and then the task deletes itself.
MbStart ==
    /\ mbPc = "init"
    /\ \/ mbPc' = "failed" /\ UNCHANGED <<timerVars, uartVars>>
       \/ /\ mbPc' = "get"
          /\ vMBMasterPortSerialEnable(TRUE, FALSE)
          /\ vMBMasterPortTimersT35Enable
    /\ UNCHANGED <<eventVars, semVars, rtuVars, prvRaw, lineVars, own>>

MbGet ==
    /\ mbPc = "get"
    /\ \E e \in Events : xMBMasterPortEventGet(e) /\ mbPc' = e
    /\ UNCHANGED <<semVars, timerVars, uartVars, rtuVars, prvRaw, lineVars, own>>

\* EV_MASTER_READY: nothing to do.
MbReady ==
    /\ mbPc = "READY" /\ mbPc' = "get"
    /\ UNCHANGED <<portVars, rtuVars, prvRaw, lineVars, own>>

\* EV_MASTER_FRAME_SENT: start the transmitter, if the receiver is idle. A
\* refusal is not reported. Starting over during a transmission garbles it.
MbFrameSent ==
    /\ mbPc = "FRAME_SENT" /\ mbPc' = "get"
    /\ IF rcvState = "IDLE"
       THEN /\ sndState' = IF sndState \in {"XMIT", "GARBLED"} THEN "GARBLED" ELSE "XMIT"
            /\ vMBMasterPortSerialEnable(FALSE, TRUE)
            /\ own' = own \cup {"snd"}
       ELSE UNCHANGED <<sndState, uartVars, own>>
    /\ UNCHANGED <<eventVars, semVars, timerVars, rcvState, rxFrame, errorType,
                   prvRaw, lineVars>>

\* EV_MASTER_FRAME_RECEIVED: check the frame and post what comes next.
MbFrameReceived ==
    /\ mbPc = "FRAME_RECEIVED" /\ mbPc' = "get"
    /\ IF rxFrame = "corrupt"
       THEN errorType' = "RECEIVE_DATA" /\ xMBMasterPortEventPost("ERROR_PROCESS")
       ELSE UNCHANGED errorType /\ xMBMasterPortEventPost("EXECUTE")
    /\ UNCHANGED <<semVars, timerVars, uartVars, rcvState, sndState, rxFrame,
                   prvRaw, lineVars, own>>

\* EV_MASTER_EXECUTE: an FC03 reply is staged by eMBMasterRegHoldingCB and
\* the request succeeds; an exception becomes an error event.
eMBMasterRegHoldingCB == prvRaw' = rxFrame /\ Inherit("raw", "rx")

\* Mutant: the function code of a reply is not looked at.
MbExecuteUnchecked ==
    /\ mbPc = "EXECUTE" /\ mbPc' = "cbSuccess"
    /\ eMBMasterRegHoldingCB
    /\ UNCHANGED <<errorType, eventVars, semVars, timerVars, uartVars, rcvState, sndState,
                   rxFrame, lineVars>>

MbExecute ==
    /\ mbPc = "EXECUTE"
    /\ IF rxFrame \in {"good", "zero"}
       THEN /\ eMBMasterRegHoldingCB
            /\ mbPc' = "cbSuccess"
            /\ UNCHANGED <<errorType, eventVars>>
       ELSE /\ errorType' = "EXECUTE_FUNCTION"
            /\ xMBMasterPortEventPost("ERROR_PROCESS")
            /\ mbPc' = "get"
            /\ UNCHANGED <<prvRaw, own>>
    /\ UNCHANGED <<semVars, timerVars, uartVars, rcvState, sndState, rxFrame, lineVars>>

\* EV_MASTER_ERROR_PROCESS: the callback for the error recorded last.
MbErrorProcess ==
    /\ mbPc = "ERROR_PROCESS"
    /\ mbPc' = CASE errorType = "RESPOND_TIMEOUT"  -> "cbRespondTimeout"
                 [] errorType = "RECEIVE_DATA"     -> "cbReceiveData"
                 [] errorType = "EXECUTE_FUNCTION" -> "cbExecuteFunction"
    /\ UNCHANGED <<portVars, rtuVars, prvRaw, lineVars, own>>

\* The four completion callbacks: store the result, ...
\* Mutant: the exception callback does not store a result of its own.
ResultOfUnset(cb) == CASE cb = "cbSuccess"         -> "NO_ERR"
                       [] cb = "cbRespondTimeout"  -> "TIMEDOUT"
                       [] cb = "cbReceiveData"     -> "REV_DATA"
                       [] cb = "cbExecuteFunction" -> "NO_ERR"

ResultOf(cb) == CASE cb = "cbSuccess"         -> "NO_ERR"
                  [] cb = "cbRespondTimeout"  -> "TIMEDOUT"
                  [] cb = "cbReceiveData"     -> "REV_DATA"
                  [] cb = "cbExecuteFunction" -> "EXE_FUN"

MbCallback ==
    /\ mbPc \in Callbacks /\ mbPc' = "give"
    /\ CallbackResult(ResultOf(mbPc))
    /\ UNCHANGED <<eventVars, timerVars, uartVars, rtuVars, prvRaw, lineVars, own>>

\* ... wake the requester, ...
MbGive ==
    /\ mbPc = "give" /\ mbPc' = "release"
    /\ CallbackGive
    /\ UNCHANGED <<eventVars, timerVars, uartVars, rtuVars, prvRaw, lineVars, own>>

\* ... and, back in mb_m.c, release the run resource.
MbRelease ==
    /\ mbPc = "release" /\ mbPc' = "get"
    /\ vMBMasterRunResRelease
    /\ UNCHANGED <<eventVars, timerVars, uartVars, rtuVars, prvRaw, lineVars, own>>

MbPoll ==
    \/ MbStart \/ MbGet \/ MbReady \/ MbFrameSent \/ MbFrameReceived \/ MbExecute
    \/ MbErrorProcess \/ MbCallback \/ MbGive \/ MbRelease

MbIdle == mbPc = "failed" \/ (mbPc = "get" /\ eventQ = <<>>)

-----------------------------------------------------------------------------
(* Interrupts: LPUART transmission complete and byte received, TPM overflow *)

\* The last byte has left the shift register. A complete frame reaches the
\* DCE, which takes it up or, still busy with an earlier one, ignores it.
TransmissionComplete ==
    /\ txIsr
    /\ vMBMasterPortSerialEnable(TRUE, FALSE)
    /\ IF sndState = "IDLE"
       THEN UNCHANGED <<sndState, timerVars, dceReq, dceAge, own>>
       ELSE /\ sndState' = "XFWR"
            /\ vMBMasterPortTimersRespondTimeoutEnable
            /\ \/ /\ sndState = "XMIT"
                  /\ dceReq' = TRUE /\ dceAge' = 0
                  /\ Inherit("wire", "snd")
               \/ /\ dceReq \/ sndState = "GARBLED"
                  /\ UNCHANGED <<dceReq, dceAge, own>>
    /\ UNCHANGED <<eventVars, semVars, mbPc, rcvState, rxFrame, errorType, prvRaw, noiseLeft>>

\* The bytes of one burst, as pxMBMasterFrameCBByteReceived sees them: the
\* first ends the wait for a response, each re-arms T3.5. Two bursts without
\* a gap make one corrupt frame.
\* Mutant: a byte leaves the transmitter waiting for the response.
ByteReceivedWaiting(kind) ==
    /\ rxIsr
    /\ vMBMasterPortTimersT35Enable
    /\ rcvState' = IF rcvState = "INIT" THEN "INIT" ELSE "RCV"
    /\ rxFrame' = CASE rcvState = "INIT" -> rxFrame
                    [] rcvState = "IDLE" -> kind
                    [] rcvState = "RCV"  -> "corrupt"
    /\ UNCHANGED sndState

ByteReceived(kind) ==
    /\ rxIsr
    /\ vMBMasterPortTimersT35Enable
    /\ rcvState' = IF rcvState = "INIT" THEN "INIT" ELSE "RCV"
    /\ rxFrame' = CASE rcvState = "INIT" -> rxFrame
                    [] rcvState = "IDLE" -> kind
                    [] rcvState = "RCV"  -> "corrupt"
    /\ sndState' = "IDLE"

\* The DCE answers, at the earliest one tick after the request.
DceAnswer ==
    /\ dceReq /\ dceAge > 0
    /\ dceReq' = FALSE /\ dceAge' = 0
    /\ \/ rxIsr /\ \E k \in Answers : ByteReceived(k) /\ Inherit("rx", "wire")
       \/ ~rxIsr /\ UNCHANGED <<timerVars, rcvState, rxFrame, sndState, own>>
    /\ UNCHANGED <<eventVars, semVars, uartVars, mbPc, errorType, prvRaw, noiseLeft>>

Noise ==
    /\ noiseLeft > 0 /\ noiseLeft' = noiseLeft - 1
    /\ ByteReceived("corrupt")
    /\ own' = own \ {"rx"}
    /\ UNCHANGED <<eventVars, semVars, uartVars, mbPc, errorType, prvRaw, dceReq, dceAge>>

\* prvvTIMERExpiredISR: a frame has ended, or the response timed out.
TimerExpired ==
    /\ TimerDue
    /\ vMBMasterPortTimersDisable
    /\ rcvState' = "IDLE" /\ sndState' = "IDLE"
    /\ CASE rcvState = "INIT" -> xMBMasterPortEventPost("READY") /\ UNCHANGED errorType
         [] rcvState = "RCV"  -> xMBMasterPortEventPost("FRAME_RECEIVED") /\ UNCHANGED errorType
         [] rcvState = "IDLE" /\ sndState = "XFWR" ->
                /\ errorType' = "RESPOND_TIMEOUT"
                /\ xMBMasterPortEventPost("ERROR_PROCESS")
         [] OTHER -> UNCHANGED <<eventVars, errorType>>
    /\ UNCHANGED <<semVars, uartVars, mbPc, rxFrame, prvRaw, lineVars, own>>

Interrupts == TransmissionComplete \/ DceAnswer \/ Noise \/ TimerExpired

\* An interrupt that the hardware will raise before another tick passes.
InterruptPending == TimerDue \/ txIsr

\* What the passing of one tick does to the timers of this module.
MasterTick ==
    /\ timerLeft' = IF timerMode = "RESPOND" THEN timerLeft - 1 ELSE timerLeft
    /\ IF dceReq /\ dceAge < AnswerMax
       THEN dceAge' = dceAge + 1 /\ UNCHANGED dceReq
       ELSE dceReq' = FALSE /\ dceAge' = 0
    /\ UNCHANGED <<eventVars, semVars, timerMode, uartVars, mbPc, rtuVars, prvRaw,
                   noiseLeft, own>>

=============================================================================
