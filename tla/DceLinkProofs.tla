---------------------------- MODULE DceLinkProofs ----------------------------
(***************************************************************************)
(* Theorems about the CentriFeeder link, for every value of its constants: *)
(* type correctness, conservation of the run resource, the bound on the    *)
(* age of a published reading, the accounting of the outcomes with         *)
(* counters that wrap, and that the link implements FreshOrZero.           *)
(***************************************************************************)
EXTENDS DceLink, TLAPS

-----------------------------------------------------------------------------
(* Lemmas about the helpers *)

\* A counter stays below the value it wraps at.
LEMMA CounterRange ==
    ASSUME NEW m \in Nat \ {0}, NEW n \in Nat
    PROVE  (n + 1) % m \in 0..(m - 1)
OBVIOUS

\* A post keeps the event queue a bounded queue of events.
LEMMA PostType ==
    ASSUME PortTypeOK, NEW e \in Events, xMBMasterPortEventPost(e)
    PROVE  /\ eventQ' \in Seq(Events) /\ Len(eventQ') <= QueueLen
           /\ lossLeft' \in 0..LossMax
BY PortAssumption DEF PortTypeOK, xMBMasterPortEventPost

\* So does taking the oldest event.
LEMMA GetType ==
    ASSUME PortTypeOK, NEW e \in Events, xMBMasterPortEventGet(e)
    PROVE  /\ eventQ' \in Seq(Events) /\ Len(eventQ') <= QueueLen
           /\ lossLeft' \in 0..LossMax
BY PortAssumption DEF PortTypeOK, xMBMasterPortEventGet
-----------------------------------------------------------------------------
(* Type correctness *)

\* Moving the history keeps it a set of places.
LEMMA InheritType ==
    ASSUME own \subseteq Places, NEW p \in Places, NEW q, Inherit(p, q)
    PROVE  own' \subseteq Places
BY DEF Inherit

\* Every action of the mbpoll task keeps the types of the Modbus master.
LEMMA MbPollType == MasterTypeOK /\ MbPoll => MasterTypeOK'
<1> SUFFICES ASSUME MasterTypeOK, MbPoll PROVE MasterTypeOK'
  OBVIOUS
<1> USE DEF MasterTypeOK, PortTypeOK, rtuVars, lineVars, portVars, eventVars, semVars,
            timerVars, uartVars
<1>0. "ERROR_PROCESS" \in Events /\ "EXECUTE" \in Events
  BY DEF Events
<1>1. CASE MbStart
  <2>1. rxIsr' \in BOOLEAN /\ txIsr' \in BOOLEAN
    BY <1>1, Zenon DEF MbStart, vMBMasterPortSerialEnable
  <2>2. timerMode' \in {"off", "T35", "RESPOND"} /\ timerLeft' \in 0..RespondTimeout
    <3>1. \/ timerMode' = timerMode /\ timerLeft' = timerLeft
          \/ timerMode' = "T35" /\ timerLeft' = 0
      BY <1>1, Zenon DEF MbStart, vMBMasterPortTimersT35Enable
    <3>2. QED
      BY <3>1, PortAssumption
  <2>3. QED
    BY <1>1, <2>1, <2>2 DEF MbStart
<1>2. CASE MbGet
  BY <1>2, GetType DEF MbGet
<1>3. CASE MbReady
  BY <1>3 DEF MbReady
<1>4. CASE MbFrameSent
  <2>1. own' \subseteq Places
    BY <1>4 DEF MbFrameSent, Places
  <2>2. QED
    BY <1>4, <2>1 DEF MbFrameSent, vMBMasterPortSerialEnable
<1>5. CASE MbFrameReceived
  <2>1. /\ eventQ' \in Seq(Events) /\ Len(eventQ') <= QueueLen
        /\ lossLeft' \in 0..LossMax
    BY <1>0, <1>5, PostType DEF MbFrameReceived
  <2>2. QED
    BY <1>5, <2>1 DEF MbFrameReceived
<1>6. CASE MbExecute
  <2>1. CASE rxFrame \in {"good", "zero"}
    <3>1. own' \subseteq Places
      BY <1>6, <2>1, InheritType DEF MbExecute, eMBMasterRegHoldingCB, Places
    <3>2. QED
      BY <1>6, <2>1, <3>1 DEF MbExecute, eMBMasterRegHoldingCB, Callbacks
  <2>2. CASE rxFrame \notin {"good", "zero"}
    <3>1. xMBMasterPortEventPost("ERROR_PROCESS")
      BY <1>6, <2>2 DEF MbExecute
    <3>2. /\ eventQ' \in Seq(Events) /\ Len(eventQ') <= QueueLen
          /\ lossLeft' \in 0..LossMax
      BY <1>0, <3>1, PostType
    <3>3. QED
      BY <1>6, <2>2, <3>2 DEF MbExecute
  <2>3. QED
    BY <2>1, <2>2
<1>7. CASE MbErrorProcess
  <2>1. mbPc' \in Callbacks
    BY <1>7 DEF MbErrorProcess, Callbacks
  <2>2. QED
    BY <1>7, <2>1 DEF MbErrorProcess
<1>8. CASE MbCallback
  BY <1>8 DEF MbCallback, CallbackResult, ResultOf, Callbacks, ReqErrs
<1>9. CASE MbGive
  BY <1>9 DEF MbGive, CallbackGive
<1>10. CASE MbRelease
  BY <1>10 DEF MbRelease, vMBMasterRunResRelease
<1>11. QED
  BY <1>1, <1>2, <1>3, <1>4, <1>5, <1>6, <1>7, <1>8, <1>9, <1>10 DEF MbPoll

\* So does every interrupt and every move of the DCE or the line.
LEMMA InterruptsType == MasterTypeOK /\ Interrupts => MasterTypeOK'
<1> SUFFICES ASSUME MasterTypeOK, Interrupts PROVE MasterTypeOK'
  OBVIOUS
<1> USE PortAssumption, MasterAssumption
    DEF MasterTypeOK, PortTypeOK, rtuVars, lineVars, portVars, eventVars, semVars,
        timerVars, uartVars
<1>1. CASE TransmissionComplete
  <2>1. own' \subseteq Places
    BY <1>1, InheritType DEF TransmissionComplete, Places
  <2>2. CASE sndState = "IDLE"
    BY <1>1, <2>1, <2>2 DEF TransmissionComplete, vMBMasterPortSerialEnable
  <2>3. CASE sndState # "IDLE"
    <3>1. dceReq' \in BOOLEAN
      BY <1>1, <2>3, Zenon DEF TransmissionComplete
    <3>2. dceAge' \in 0..AnswerMax
      BY <1>1, <2>3 DEF TransmissionComplete
    <3>3. timerMode' = "RESPOND" /\ timerLeft' = RespondTimeout /\ sndState' = "XFWR"
      BY <1>1, <2>3 DEF TransmissionComplete, vMBMasterPortTimersRespondTimeoutEnable
    <3>4. rxIsr' \in BOOLEAN /\ txIsr' \in BOOLEAN
      BY <1>1, Zenon DEF TransmissionComplete, vMBMasterPortSerialEnable
    <3>5. QED
      BY <1>1, <2>1, <3>1, <3>2, <3>3, <3>4 DEF TransmissionComplete
  <2>4. QED
    BY <2>2, <2>3
<1>2. CASE DceAnswer
  <2>1. own' \subseteq Places
    BY <1>2, InheritType DEF DceAnswer, Places
  <2>2. rxFrame' \in Kinds
    BY <1>2 DEF DceAnswer, ByteReceived, Kinds
  <2>3. /\ rcvState' \in {"INIT", "IDLE", "RCV"}
        /\ sndState' \in {"IDLE", "XMIT", "GARBLED", "XFWR"}
        /\ timerMode' \in {"off", "T35", "RESPOND"} /\ timerLeft' \in 0..RespondTimeout
    BY <1>2 DEF DceAnswer, ByteReceived, vMBMasterPortTimersT35Enable
  <2>4. dceReq' \in BOOLEAN
    BY <1>2, Zenon DEF DceAnswer
  <2>5. QED
    BY <1>2, <2>1, <2>2, <2>3, <2>4 DEF DceAnswer
<1>3. CASE Noise
  <2>1. rxFrame' \in Kinds
    BY <1>3 DEF Noise, ByteReceived, Kinds
  <2>2. QED
    BY <1>3, <2>1 DEF Noise, ByteReceived, vMBMasterPortTimersT35Enable
<1>4. CASE TimerExpired
  <2>1. /\ eventQ' \in Seq(Events) /\ Len(eventQ') <= QueueLen
        /\ lossLeft' \in 0..LossMax
    BY <1>4, PostType DEF TimerExpired, Events
  <2>2. QED
    BY <1>4, <2>1 DEF TimerExpired, vMBMasterPortTimersDisable
<1>5. QED
  BY <1>1, <1>2, <1>3, <1>4 DEF Interrupts

\* And the passing of a tick: the response timer is not due, so it has not
\* reached zero.
LEMMA MasterTickType == MasterTypeOK /\ MasterTick /\ ~TimerDue => MasterTypeOK'
<1> SUFFICES ASSUME MasterTypeOK, MasterTick, ~TimerDue PROVE MasterTypeOK'
  OBVIOUS
<1> USE PortAssumption, MasterAssumption DEF MasterTypeOK, PortTypeOK
<1>1. timerLeft' \in 0..RespondTimeout
  BY DEF MasterTick, TimerDue
<1>2. dceReq' \in BOOLEAN
  BY Zenon DEF MasterTick
<1>3. dceAge' \in 0..AnswerMax
  BY DEF MasterTick
<1>4. QED
  BY <1>1, <1>2, <1>3 DEF MasterTick, rtuVars, eventVars, semVars, uartVars

\* Counting one outcome keeps the counters in range.
LEMMA CountType ==
    ASSUME LinkTypeOK, NEW c \in Counters, Count(c)
    PROVE  dceDiag' \in [Counters -> 0..(CounterMod - 1)]
<1>1. \A n \in 0..(CounterMod - 1) : (n + 1) % CounterMod \in 0..(CounterMod - 1)
  BY CounterRange, DceAssumption
<1>2. QED
  BY <1>1 DEF LinkTypeOK, Count

\* The three ways a successful request ends keep them in range too, and
\* publish a well-typed pair of values.
LEMMA OutcomeType ==
    ASSUME LinkTypeOK, DceGood \/ DceZeroRatio \/ DceRefused
    PROVE  /\ dceDiag' \in [Counters -> 0..(CounterMod - 1)]
           /\ flowRate' \in {"zero", "reading"} /\ valid' \in BOOLEAN /\ age' \in Nat
           /\ pubOwn' \in BOOLEAN
<1>1. CASE DceGood
  BY <1>1, CountType DEF DceGood, dce_dataSet, Counters
<1>2. CASE DceZeroRatio
  <2>1. \A n \in 0..(CounterMod - 1) : (n + 1) % CounterMod \in 0..(CounterMod - 1)
    BY CounterRange, DceAssumption
  <2>2. dceDiag' \in [Counters -> 0..(CounterMod - 1)]
    BY <1>2, <2>1 DEF LinkTypeOK, DceZeroRatio
  <2>3. QED
    BY <1>2, <2>2 DEF LinkTypeOK, DceZeroRatio, dataVars
<1>3. CASE DceRefused
  BY <1>3, CountType DEF LinkTypeOK, DceRefused, dataVars, Counters
<1>4. QED
  BY <1>1, <1>2, <1>3

\* Every action of dce_task keeps the types.
LEMMA DceTaskType == TypeOK /\ DceTask => TypeOK'
<1> SUFFICES ASSUME TypeOK, DceTask PROVE TypeOK'
  OBVIOUS
<1> USE DceAssumption
    DEF TypeOK, LinkTypeOK, DceRuns, DcePcs, mbVars, dataVars, auxVars, portVars,
        rtuVars, lineVars, eventVars, semVars, timerVars, uartVars
<1>1. CASE DceBoot
  BY <1>1 DEF DceBoot, MasterTypeOK, PortTypeOK
<1>2. CASE DceStart
  <2>1. dceDiag' \in [Counters -> 0..(CounterMod - 1)]
    BY <1>2, CountType DEF DceStart, Counters
  <2>2. QED
    BY <1>2, <2>1 DEF DceStart, mbcb_rawInvalidate, MasterTypeOK, PortTypeOK
<1>3. CASE DceTake
  <2>1. runRes' \in BOOLEAN
    BY <1>3, Zenon DEF DceTake, RunResTake
  <2>2. QED
    BY <1>3, <2>1 DEF DceTake, RunResTake, MasterTypeOK, PortTypeOK
<1>4. CASE DceBusy
  BY <1>4 DEF DceBusy, MasterTypeOK, PortTypeOK
<1>5. CASE DceDiscard
  <2>1. resultSem' \in BOOLEAN
    BY <1>5, Zenon DEF DceDiscard, DiscardCompletion
  <2>2. QED
    BY <1>5, <2>1 DEF DceDiscard, DiscardCompletion, MasterTypeOK, PortTypeOK
<1>6. CASE DceClear
  BY <1>6 DEF DceClear, ClearResult, MasterTypeOK, PortTypeOK, ReqErrs
<1>7. CASE DcePost
  <2>1. /\ eventQ' \in Seq(Events) /\ Len(eventQ') <= QueueLen
        /\ lossLeft' \in 0..LossMax
    BY <1>7, PostType DEF DcePost, Events, MasterTypeOK
  <2>2. QED
    BY <1>7, <2>1 DEF DcePost, MasterTypeOK, PortTypeOK
<1>8. CASE DceWoken
  <2>1. resultSem' \in BOOLEAN
    BY <1>8, Zenon DEF DceWoken, ResultTake
  <2>2. QED
    BY <1>8, <2>1 DEF DceWoken, ResultTake, MasterTypeOK, PortTypeOK
<1>9. CASE DceRead
  BY <1>9 DEF DceRead, MasterTypeOK, PortTypeOK
<1>10. CASE DceFinishTimeout
  BY <1>10 DEF DceFinishTimeout, MasterTypeOK, PortTypeOK
<1>11. CASE DceGiveUp
  BY <1>11 DEF DceGiveUp, vMBMasterRunResRelease, MasterTypeOK, PortTypeOK, ReqErrs
<1>12. CASE DceAccount
  <2>1. /\ dceDiag' \in [Counters -> 0..(CounterMod - 1)]
        /\ flowRate' \in {"zero", "reading"} /\ valid' \in BOOLEAN /\ age' \in Nat
        /\ pubOwn' \in BOOLEAN
    <3>1. CASE DceGood \/ DceZeroRatio \/ DceRefused
      BY <3>1, OutcomeType
    <3>2. CASE ~(DceGood \/ DceZeroRatio \/ DceRefused)
      <4>1. eErr # "NO_ERR" /\ Count(CounterOf(eErr)) /\ UNCHANGED <<dataVars, pubOwn>>
        BY <1>12, <3>2 DEF DceAccount
      <4>2. CounterOf(eErr) \in Counters
        BY <4>1 DEF CounterOf, Counters, ReqErrs
      <4>3. QED
        BY <4>1, <4>2, CountType
    <3>3. QED
      BY <3>1, <3>2
  <2>2. QED
    BY <1>12, <2>1 DEF DceAccount, MasterTypeOK, PortTypeOK
<1>13. CASE DceCheck
  <2>1. dceDiag' \in [Counters -> 0..(CounterMod - 1)]
    BY <1>13, CountType DEF DceCheck, Counters
  <2>2. valid' \in BOOLEAN
    BY <1>13, Zenon DEF DceCheck, dce_dataInvalidate
  <2>3. flowRate' \in {"zero", "reading"} /\ age' \in Nat
    BY <1>13 DEF DceCheck, dce_dataInvalidate
  <2>4. QED
    BY <1>13, <2>1, <2>2, <2>3 DEF DceCheck, MasterTypeOK, PortTypeOK
<1>14. CASE DceWake
  BY <1>14 DEF DceWake, MasterTypeOK, PortTypeOK
<1>15. QED
  BY <1>1, <1>2, <1>3, <1>4, <1>5, <1>6, <1>7, <1>8, <1>9, <1>10, <1>11, <1>12, <1>13,
     <1>14 DEF DceTask

\* A tick keeps them, when no interrupt is due.
LEMMA TimePassesType == TypeOK /\ TimePasses /\ ~InterruptPending => MasterTypeOK' /\
    (stallLeft' \in 0..StallMax => TypeOK')
<1> SUFFICES ASSUME TypeOK, TimePasses, ~InterruptPending
             PROVE  MasterTypeOK' /\ (stallLeft' \in 0..StallMax => LinkTypeOK')
  BY DEF TypeOK
<1>1. MasterTypeOK'
  BY MasterTickType DEF TypeOK, TimePasses, InterruptPending
<1>2. dceLeft' \in Nat /\ wakeIn' \in Int /\ age' \in Nat /\ sincePoll' \in 0..(PollPeriod + 1)
  BY DceAssumption DEF TypeOK, LinkTypeOK, TimePasses
<1>3. QED
  BY <1>1, <1>2 DEF TypeOK, LinkTypeOK, TimePasses

\* A step of the link keeps the types, whichever it is.
LEMMA NextType == TypeOK /\ [Next]_vars => TypeOK'
<1> SUFFICES ASSUME TypeOK, [Next]_vars PROVE TypeOK'
  OBVIOUS
<1>1. CASE MbPoll /\ UNCHANGED dceVars
  BY <1>1, MbPollType DEF TypeOK, LinkTypeOK, dceVars, waitVars, dataVars, auxVars
<1>2. CASE Interrupts /\ UNCHANGED dceVars
  BY <1>2, InterruptsType DEF TypeOK, LinkTypeOK, dceVars, waitVars, dataVars, auxVars
<1>3. CASE DceTask
  BY <1>3, DceTaskType
<1>4. CASE Tick
  BY <1>4, TimePassesType DEF Tick, TypeOK, LinkTypeOK
<1>5. CASE Stall
  <2>1. stallLeft' \in 0..StallMax
    BY <1>5, DceAssumption DEF Stall, TypeOK, LinkTypeOK
  <2>2. QED
    BY <1>5, <2>1, TimePassesType DEF Stall
<1>6. CASE UNCHANGED vars
  BY <1>6 DEF vars, mbVars, dceVars, waitVars, dataVars, auxVars, portVars, eventVars,
              semVars, timerVars, uartVars, rtuVars, lineVars, TypeOK, MasterTypeOK,
              PortTypeOK, LinkTypeOK
<1>7. QED
  BY <1>1, <1>2, <1>3, <1>4, <1>5, <1>6 DEF Next

\* The variables keep their types: every counter stays below its wrap, the
\* event queue within its depth, and the timers within their reload values.
THEOREM TypeCorrect == Spec => []TypeOK
<1>1. Init => TypeOK
  <2> SUFFICES ASSUME Init PROVE TypeOK
    OBVIOUS
  <2>1. PortTypeOK
    <3>1. runRes \in BOOLEAN /\ resultSem \in BOOLEAN /\ rxIsr \in BOOLEAN /\ txIsr \in BOOLEAN
      BY Zenon DEF Init, MasterInit, PortInit
    <3>2. QED
      BY <3>1, PortAssumption DEF Init, MasterInit, PortInit, PortTypeOK, ReqErrs
  <2>2. MasterTypeOK
    <3>1. dceReq \in BOOLEAN /\ own \subseteq Places
      BY Zenon DEF Init, MasterInit
    <3>2. QED
      BY <2>1, <3>1, MasterAssumption DEF Init, MasterInit, MasterTypeOK, Kinds
  <2>3. LinkTypeOK
    <3>1. valid \in BOOLEAN /\ pubOwn \in BOOLEAN
      BY Zenon DEF Init
    <3>2. dceDiag \in [Counters -> 0..(CounterMod - 1)]
      BY DceAssumption DEF Init
    <3>3. QED
      BY <3>1, <3>2, DceAssumption DEF Init, LinkTypeOK, DcePcs, ReqErrs
  <2>4. QED
    BY <2>2, <2>3 DEF TypeOK
<1>2. QED
  BY <1>1, NextType, PTL DEF Spec

-----------------------------------------------------------------------------
(* Conservation of the run resource *)

\* RunResConserved is inductive: the only step that gives a completion is
\* followed by the step that gives the resource back, and the requester that
\* abandons a request gives it back itself.
LEMMA RunResStep == TypeOK /\ RunResConserved /\ [Next]_vars => RunResConserved'
<1> SUFFICES ASSUME TypeOK, RunResConserved, [Next]_vars PROVE RunResConserved'
  OBVIOUS
<1> USE DEF RunResConserved
<1>1. CASE MbPoll /\ UNCHANGED dceVars
  <2>1. dcePc' = dcePc
    BY <1>1 DEF dceVars, waitVars
  <2>2. CASE MbGive
    BY <2>1, <2>2 DEF MbGive, CallbackGive
  <2>3. CASE MbRelease
    BY <2>1, <2>3 DEF MbRelease, vMBMasterRunResRelease
  <2>4. CASE ~MbGive /\ ~MbRelease
    <3>1. UNCHANGED <<runRes, resultSem>>
      BY <1>1, <2>4 DEF MbPoll, MbStart, MbGet, MbReady, MbFrameSent, MbFrameReceived,
                        MbExecute, MbErrorProcess, MbCallback, CallbackResult, portVars,
                        semVars
    <3>2. mbPc # "release"
      BY <1>1, <2>4 DEF MbPoll, MbStart, MbGet, MbReady, MbFrameSent, MbFrameReceived,
                        MbExecute, MbErrorProcess, MbCallback, Callbacks
    <3>3. QED
      BY <2>1, <3>1, <3>2
  <2>5. QED
    BY <2>2, <2>3, <2>4
<1>2. CASE Interrupts /\ UNCHANGED dceVars
  <2>1. UNCHANGED <<runRes, resultSem, mbPc>>
    BY <1>2 DEF Interrupts, TransmissionComplete, DceAnswer, Noise, TimerExpired, semVars
  <2>2. dcePc' = dcePc
    BY <1>2 DEF dceVars, waitVars
  <2>3. QED
    BY <2>1, <2>2
<1>3. CASE DceTask
  <2> USE DEF DceRuns, mbVars, portVars, semVars
  <2>1. CASE DceBoot \/ DceStart \/ DceBusy \/ DceRead \/ DceAccount \/ DceCheck \/ DceWake
    BY <2>1 DEF DceBoot, DceStart, DceBusy, DceRead, DceAccount, DceCheck, DceWake
  <2>2. CASE DceTake \/ DceDiscard \/ DceClear \/ DcePost
    BY <2>2 DEF DceTake, RunResTake, DceDiscard, DiscardCompletion, DceClear, ClearResult,
                DcePost
  <2>3. CASE DceWoken \/ DceFinishTimeout \/ DceGiveUp
    BY <2>3 DEF DceWoken, ResultTake, DceFinishTimeout, DceGiveUp, vMBMasterRunResRelease
  <2>4. QED
    BY <1>3, <2>1, <2>2, <2>3 DEF DceTask
<1>4. CASE Tick \/ Stall
  <2>1. UNCHANGED <<runRes, resultSem, mbPc, dcePc>>
    BY <1>4 DEF Tick, Stall, TimePasses, MasterTick, semVars
  <2>2. QED
    BY <2>1
<1>5. CASE UNCHANGED vars
  BY <1>5 DEF vars, mbVars, portVars, semVars, dceVars, waitVars
<1>6. QED
  BY <1>1, <1>2, <1>3, <1>4, <1>5 DEF Next

\* The run resource is never leaked, whatever events are lost and whether
\* mbpoll outranks the requester or shares its priority.
THEOREM RunResIsConserved == Spec => []RunResConserved
<1>1. Init => RunResConserved
  BY DEF Init, MasterInit, PortInit, RunResConserved
<1>2. QED
  BY <1>1, RunResStep, TypeCorrect, PTL DEF Spec

\* With mbpoll above dce_task in priority, a request never fails with
\* MB_MRE_MASTER_BUSY, whatever is lost or late: mbpoll gives the run
\* resource back before the requester can run again.
LEMMA NeverBusyStep ==
    ASSUME MbPriority > DcePriority
    PROVE  TypeOK /\ RunResConserved /\ NeverBusy /\ [Next]_vars => NeverBusy'
<1> SUFFICES ASSUME TypeOK, RunResConserved, NeverBusy, [Next]_vars PROVE NeverBusy'
  OBVIOUS
<1> USE DEF NeverBusy
<1>1. CASE UNCHANGED dceVars
  BY <1>1 DEF dceVars, waitVars
<1>2. CASE DceTask
  <2>1. ~DceBusy
    BY DEF DceBusy, DceRuns, RunResConserved, MbIdle
  <2>2. CASE DceRead
    BY <2>2 DEF DceRead, TypeOK, MasterTypeOK, PortTypeOK, ReqErrs
  <2>3. CASE DceGiveUp
    BY <2>3 DEF DceGiveUp
  <2>4. CASE ~DceRead /\ ~DceGiveUp
    BY <1>2, <2>1, <2>4 DEF DceTask, DceBoot, DceStart, DceTake, DceDiscard, DceClear,
                      DcePost, DceWoken, DceFinishTimeout, DceAccount, DceCheck, DceWake
  <2>5. QED
    BY <2>2, <2>3, <2>4
<1>3. CASE Tick \/ Stall
  BY <1>3 DEF Tick, Stall, TimePasses
<1>4. QED
  BY <1>1, <1>2, <1>3 DEF Next, vars

THEOREM NeverBusyWhenOutranked ==
    ASSUME MbPriority > DcePriority
    PROVE  Spec => []NeverBusy
<1>1. Init => NeverBusy
  BY DEF Init, NeverBusy
<1>2. QED
  BY <1>1, NeverBusyStep, RunResIsConserved, TypeCorrect, PTL DEF Spec

-----------------------------------------------------------------------------
(* The one TPM is armed for the response *)

\* ResponseTimed alone is not inductive: a transmission that completes arms
\* the response timeout, but only an idle receiver makes that the right one.
ResponseInv ==
    /\ ResponseTimed
    /\ sndState # "IDLE" => rcvState = "IDLE" /\ mbPc # "init"

\* The steps of mbpoll: only eMBMasterEnable touches the timer, before any
\* transmission, and a transmission starts under an idle receiver.
LEMMA ResponseMbPoll == MasterTypeOK /\ ResponseInv /\ MbPoll => ResponseInv'
<1> SUFFICES ASSUME MasterTypeOK, ResponseInv, MbPoll PROVE ResponseInv'
  OBVIOUS
<1> USE DEF ResponseInv, ResponseTimed, MasterTypeOK, Events, Callbacks
<1>1. CASE MbStart
  BY <1>1 DEF MbStart, rtuVars, timerVars
<1>2. CASE MbFrameSent
  BY <1>2 DEF MbFrameSent, timerVars
<1>3. CASE MbGet
  BY <1>3 DEF MbGet, rtuVars, timerVars
<1>4. CASE MbReady \/ MbErrorProcess
  BY <1>4 DEF MbReady, MbErrorProcess, rtuVars, portVars, timerVars
<1>5. CASE MbFrameReceived
  BY <1>5 DEF MbFrameReceived, timerVars
<1>6. CASE MbExecute
  BY <1>6 DEF MbExecute, timerVars
<1>7. CASE MbCallback \/ MbGive \/ MbRelease
  BY <1>7 DEF MbCallback, MbGive, MbRelease, rtuVars, timerVars
<1>8. QED
  BY <1>1, <1>2, <1>3, <1>4, <1>5, <1>6, <1>7 DEF MbPoll

\* The interrupts: each byte that takes the timer over for a frame end also
\* takes the transmitter out of its wait.
LEMMA ResponseInterrupts == MasterTypeOK /\ ResponseInv /\ Interrupts => ResponseInv'
<1> SUFFICES ASSUME MasterTypeOK, ResponseInv, Interrupts PROVE ResponseInv'
  OBVIOUS
<1> USE DEF ResponseInv, ResponseTimed, MasterTypeOK
<1>1. CASE TransmissionComplete
  BY <1>1 DEF TransmissionComplete, vMBMasterPortTimersRespondTimeoutEnable, timerVars
<1>2. CASE DceAnswer
  BY <1>2 DEF DceAnswer, ByteReceived, timerVars
<1>3. CASE Noise
  BY <1>3 DEF Noise, ByteReceived
<1>4. CASE TimerExpired
  BY <1>4 DEF TimerExpired
<1>5. QED
  BY <1>1, <1>2, <1>3, <1>4 DEF Interrupts

\* While the stack waits for a response the TPM is armed for its timeout,
\* whatever bytes, noise and late answers arrive in the meantime.
THEOREM ResponseIsTimed == Spec => []ResponseTimed
<1>1. Init => ResponseInv
  BY DEF Init, MasterInit, ResponseInv, ResponseTimed
<1>2. TypeOK /\ ResponseInv /\ [Next]_vars => ResponseInv'
  <2> SUFFICES ASSUME TypeOK, ResponseInv, [Next]_vars PROVE ResponseInv'
    OBVIOUS
  <2> USE DEF TypeOK
  <2>1. CASE MbPoll
    BY <2>1, ResponseMbPoll
  <2>2. CASE Interrupts
    BY <2>2, ResponseInterrupts
  <2>3. CASE DceTask
    <3>1. UNCHANGED <<sndState, rcvState, timerMode, mbPc>>
      BY <2>3 DEF DceTask, DceBoot, DceStart, DceTake, DceBusy, DceDiscard, DceClear,
                  DcePost, DceWoken, DceRead, DceFinishTimeout, DceGiveUp, DceAccount,
                  DceCheck, DceWake, mbVars, portVars, rtuVars, timerVars
    <3>2. QED
      BY <3>1 DEF ResponseInv, ResponseTimed
  <2>4. CASE Tick \/ Stall
    BY <2>4 DEF Tick, Stall, TimePasses, MasterTick, ResponseInv, ResponseTimed, rtuVars
  <2>5. CASE UNCHANGED vars
    BY <2>5 DEF vars, mbVars, portVars, rtuVars, timerVars, ResponseInv, ResponseTimed
  <2>6. QED
    BY <2>1, <2>2, <2>3, <2>4, <2>5 DEF Next
<1>3. ResponseInv => ResponseTimed
  BY DEF ResponseInv
<1>4. QED
  BY <1>1, <1>2, <1>3, TypeCorrect, PTL DEF Spec

-----------------------------------------------------------------------------
(* The age of a published reading *)

\* How long dce_task may still stay where it is, and how much of one cycle
\* the reading published last has already been exposed to when it gets there.
Pending == IF dcePc = "sleep" THEN (IF wakeIn > 0 THEN wakeIn ELSE 0)
           ELSE IF dcePc \in {"take", "wait"} THEN dceLeft ELSE 0

BeforeRequest == {"start", "sleep"}
BeforeWait == BeforeRequest \cup {"take", "discard", "clear", "post"}

Spent == PollPeriod + (IF dcePc \in BeforeRequest THEN 0 ELSE ReqWait)
                    + (IF dcePc \in BeforeWait THEN 0 ELSE FinishTimeout)

\* StaleBound alone is not inductive: whether a reading can still be checked
\* in time depends on the timeouts the task has yet to sit out.
AgeInv ==
    /\ valid => age + Pending <= StaleTimeout + Spent + (StallMax - stallLeft)
    /\ ~valid => age = 0
    /\ flowRate = IF valid THEN "reading" ELSE "zero"
    /\ dcePc = "boot" => ~valid
    /\ dcePc # "sleep" => wakeIn <= 0

\* The steps of dce_task: a wait begins with its timeout, and only the
\* staleness check lets the task sleep for a period.
LEMMA AgeDceTask == TypeOK /\ AgeInv /\ DceTask => AgeInv'
<1> SUFFICES ASSUME TypeOK, AgeInv, DceTask PROVE AgeInv'
  OBVIOUS
<1> USE DceAssumption
    DEF TypeOK, LinkTypeOK, AgeInv, Pending, Spent, BeforeRequest, BeforeWait, DceRuns,
        dataVars, auxVars
<1>1. CASE DceBoot
  BY <1>1 DEF DceBoot
<1>2. CASE DceStart
  BY <1>2 DEF DceStart
<1>3. CASE DceTake \/ DceDiscard \/ DceClear
  BY <1>3 DEF DceTake, DceDiscard, DceClear
<1>4. CASE DceBusy
  BY <1>4 DEF DceBusy
<1>5. CASE DcePost
  BY <1>5 DEF DcePost
<1>6. CASE DceWoken \/ DceRead \/ DceFinishTimeout \/ DceGiveUp
  BY <1>6 DEF DceWoken, DceRead, DceFinishTimeout, DceGiveUp
<1>7. CASE DceAccount
  <2>1. CASE DceGood
    BY <1>7, <2>1 DEF DceAccount, DceGood, dce_dataSet
  <2>2. CASE ~DceGood
    <3>1. UNCHANGED dataVars
      BY <1>7, <2>2 DEF DceAccount, DceZeroRatio, DceRefused
    <3>2. QED
      BY <1>7, <3>1 DEF DceAccount
  <2>3. QED
    BY <2>1, <2>2
<1>8. CASE DceCheck
  <2>1. CASE valid /\ age > StaleTimeout
    BY <1>8, <2>1 DEF DceCheck, dce_dataInvalidate
  <2>2. CASE ~(valid /\ age > StaleTimeout)
    BY <1>8, <2>2 DEF DceCheck
  <2>3. QED
    BY <2>1, <2>2
<1>9. CASE DceWake
  BY <1>9 DEF DceWake
<1>10. QED
  BY <1>1, <1>2, <1>3, <1>4, <1>5, <1>6, <1>7, <1>8, <1>9 DEF DceTask

\* A tick passes only while the task is blocked with time left, or takes
\* from the stall that the bound allows for.
LEMMA AgeTimePasses == TypeOK /\ AgeInv /\ (Tick \/ Stall) => AgeInv'
<1> SUFFICES ASSUME TypeOK, AgeInv, Tick \/ Stall PROVE AgeInv'
  OBVIOUS
<1> USE DceAssumption DEF TypeOK, LinkTypeOK, AgeInv
<1>1. CASE Tick
  <2>1. UNCHANGED <<dcePc, valid, flowRate, stallLeft>>
    BY <1>1 DEF Tick, TimePasses
  <2>2. CASE valid
    <3>1. age' = age + 1
      BY <1>1, <2>2 DEF Tick, TimePasses
    <3>2. Pending > 0 /\ Pending' = Pending - 1
      BY <1>1, <2>2 DEF Tick, TimePasses, DceBlocked, Pending
    <3>3. Spent' = Spent
      BY <2>1 DEF Spent
    <3>4. dcePc # "sleep" => wakeIn' <= 0
      BY <1>1 DEF Tick, TimePasses
    <3>5. Pending \in Int /\ Spent \in Int
      BY DEF Pending, Spent
    <3>6. QED
      BY <2>1, <2>2, <3>1, <3>2, <3>3, <3>4, <3>5
  <2>3. CASE ~valid
    BY <1>1, <2>1, <2>3 DEF Tick, TimePasses
  <2>4. QED
    BY <2>2, <2>3
<1>2. CASE Stall
  <2>1. UNCHANGED <<dcePc, valid, flowRate>> /\ stallLeft' = stallLeft - 1
    BY <1>2 DEF Stall, TimePasses
  <2>2. CASE valid
    <3>1. age' = age + 1
      BY <1>2, <2>2 DEF Stall, TimePasses
    <3>2. Pending' <= Pending
      BY <1>2, <2>2 DEF Stall, TimePasses, Pending
    <3>3. Spent' = Spent
      BY <2>1 DEF Spent
    <3>4. dcePc # "sleep" => wakeIn' <= 0
      BY <1>2 DEF Stall, TimePasses
    <3>5. Pending \in Int /\ Spent \in Int /\ Pending' \in Int
      BY <1>2 DEF Pending, Spent, Stall, TimePasses
    <3>6. QED
      BY <2>1, <2>2, <3>1, <3>2, <3>3, <3>4, <3>5
  <2>3. CASE ~valid
    BY <1>2, <2>1, <2>3 DEF Stall, TimePasses
  <2>4. QED
    BY <2>2, <2>3
<1>3. QED
  BY <1>1, <1>2

\* AgeInv holds initially and every step keeps it.
LEMMA AgeInvariant == Spec => []AgeInv
<1>1. Init => AgeInv
  BY DceAssumption DEF Init, AgeInv
<1>2. TypeOK /\ AgeInv /\ [Next]_vars => AgeInv'
  <2> SUFFICES ASSUME TypeOK, AgeInv, [Next]_vars PROVE AgeInv'
    OBVIOUS
  <2>1. CASE UNCHANGED dceVars
    BY <2>1 DEF AgeInv, Pending, Spent, dceVars, waitVars, dataVars, auxVars
  <2>2. CASE DceTask
    BY <2>2, AgeDceTask
  <2>3. CASE Tick \/ Stall
    BY <2>3, AgeTimePasses
  <2>4. QED
    BY <2>1, <2>2, <2>3 DEF Next, vars
<1>3. QED
  BY <1>1, <1>2, TypeCorrect, PTL DEF Spec

\* The invariant bounds the age: the stall and the two timeouts are at most
\* what MaxAge allows for.
LEMMA AgeInvBounds == TypeOK /\ AgeInv => StaleBound
BY DceAssumption DEF TypeOK, LinkTypeOK, AgeInv, StaleBound, MaxAge, Pending, Spent,
                     BeforeRequest, BeforeWait

\* No reading is older than MaxAge: a silent, noisy or slow DCE, lost events
\* and an unreleased run resource only ever delay the staleness check by the
\* timeouts of one cycle.
THEOREM ReadingsAreBounded == Spec => []StaleBound
BY AgeInvariant, TypeCorrect, AgeInvBounds, PTL

-----------------------------------------------------------------------------
(* Counters that wrap *)

\* A remainder is below the modulus, and what it leaves is a multiple of it.
LEMMA Division ==
    ASSUME NEW m \in Nat \ {0}, NEW a \in Nat
    PROVE  /\ a % m \in 0..(m - 1)
           /\ \E q \in Nat : a = q * m + (a % m)
<1>1. a % m \in 0..(m - 1)
  OBVIOUS
<1>2. a = (a \div m) * m + (a % m) /\ a \div m \in Nat
  OBVIOUS
<1>3. QED
  BY <1>1, <1>2

\* There is only one such remainder.
LEMMA RemainderUnique ==
    ASSUME NEW m \in Nat \ {0}, NEW q \in Int, NEW r \in 0..(m - 1),
           NEW p \in Int, NEW s \in 0..(m - 1), q * m + r = p * m + s
    PROVE  r = s
<1>1. (q - p) * m = s - r
  OBVIOUS
<1>2. q - p >= 1 => (q - p) * m >= m
  OBVIOUS
<1>3. q - p <= -1 => (q - p) * m <= -m
  OBVIOUS
<1>4. q = p
  BY <1>1, <1>2, <1>3
<1>5. QED
  BY <1>1, <1>4

\* Counting a modulus less leaves the remainder.
LEMMA ModuloLess ==
    ASSUME NEW m \in Nat \ {0}, NEW a \in Nat, a >= m
    PROVE  (a - m) % m = a % m
<1>0. a - m \in Nat
  OBVIOUS
<1>1. PICK q \in Nat : a = q * m + (a % m)
  BY Division
<1>2. PICK p \in Nat : a - m = p * m + ((a - m) % m)
  BY <1>0, Division
<1>3. a % m \in 0..(m - 1) /\ (a - m) % m \in 0..(m - 1)
  BY <1>0, Division
<1>4. (p + 1) * m = p * m + m
  OBVIOUS
<1>5. q * m + (a % m) = (p + 1) * m + ((a - m) % m)
  <2>1. q * m \in Int /\ p * m \in Int
    OBVIOUS
  <2>2. QED
    BY <1>1, <1>2, <1>3, <1>4, <2>1
<1>6. q \in Int /\ p + 1 \in Int
  OBVIOUS
<1>7. QED
  BY <1>3, <1>5, <1>6, RemainderUnique, Zenon

\* A counter that wraps is its old value and one more, or zero.
LEMMA CounterStep ==
    ASSUME NEW m \in Nat \ {0}, NEW x \in 0..(m - 1)
    PROVE  (x + 1) % m = IF x = m - 1 THEN 0 ELSE x + 1
<1>0. x + 1 \in Nat
  OBVIOUS
<1>1. PICK q \in Nat : x + 1 = q * m + ((x + 1) % m)
  BY <1>0, Division
<1>2. (x + 1) % m \in 0..(m - 1)
  BY <1>0, Division
<1>3. CASE x = m - 1
  <2>1. q * m + ((x + 1) % m) = 1 * m + 0
    BY <1>1, <1>3
  <2>2. QED
    BY <1>2, <1>3, <2>1, RemainderUnique
<1>4. CASE x # m - 1
  <2>1. q * m + ((x + 1) % m) = 0 * m + (x + 1)
    BY <1>1
  <2>2. x + 1 \in 0..(m - 1)
    BY <1>4
  <2>3. QED
    BY <1>2, <1>4, <2>1, <2>2, RemainderUnique
<1>5. QED
  BY <1>3, <1>4

\* The remainder of a count is itself a counter that wraps.
LEMMA CountModulo ==
    ASSUME NEW m \in Nat \ {0}, NEW a \in Nat
    PROVE  ((a % m) + 1) % m = (a + 1) % m
<1>0. a + 1 \in Nat
  OBVIOUS
<1>1. PICK q \in Nat : a = q * m + (a % m)
  BY Division
<1>2. a % m \in 0..(m - 1)
  BY Division
<1>3. PICK p \in Nat : a + 1 = p * m + ((a + 1) % m)
  BY <1>0, Division
<1>4. (a + 1) % m \in 0..(m - 1)
  BY <1>0, Division
<1>5. /\ q * m \in Int /\ p * m \in Int /\ (q + 1) * m = q * m + m
      /\ q \in Int /\ p \in Int /\ q + 1 \in Int /\ 0 \in 0..(m - 1)
  OBVIOUS
<1>6. CASE a % m = m - 1
  <2>1. p * m + ((a + 1) % m) = (q + 1) * m + 0
    BY <1>1, <1>3, <1>4, <1>5, <1>6
  <2>2. (a + 1) % m = 0
    BY <1>4, <1>5, <2>1, RemainderUnique, Zenon
  <2>3. QED
    BY <1>2, <1>6, <2>2, CounterStep
<1>7. CASE a % m # m - 1
  <2>1. p * m + ((a + 1) % m) = q * m + ((a % m) + 1)
    BY <1>1, <1>2, <1>3, <1>4, <1>5
  <2>2. (a % m) + 1 \in 0..(m - 1)
    BY <1>2, <1>7
  <2>3. (a + 1) % m = (a % m) + 1
    BY <1>4, <1>5, <2>1, <2>2, RemainderUnique, Zenon
  <2>4. QED
    BY <1>2, <1>7, <2>3, CounterStep
<1>8. QED
  BY <1>6, <1>7

-----------------------------------------------------------------------------
(* Every request is counted once *)

Outcomes == {"good", "rawMismatch", "timeouts", "rxErrors", "exceptions", "otherErrors"}

Counted == dceDiag["good"] + dceDiag["rawMismatch"] + dceDiag["timeouts"]
               + dceDiag["rxErrors"] + dceDiag["exceptions"] + dceDiag["otherErrors"]

\* One outcome counted is one more in the sum, up to the wrap.
LEMMA OutcomeCounted ==
    ASSUME LinkTypeOK, NEW c \in Outcomes,
           dceDiag'[c] = (dceDiag[c] + 1) % CounterMod,
           \A d \in Outcomes \ {c} : dceDiag'[d] = dceDiag[d]
    PROVE  Counted' % CounterMod = (Counted + 1) % CounterMod
<1>1. CounterMod \in Nat \ {0}
  BY DceAssumption
<1>2. \A d \in Outcomes : dceDiag[d] \in 0..(CounterMod - 1)
  BY DEF LinkTypeOK, Counters, Outcomes
<1>3. dceDiag'[c] = IF dceDiag[c] = CounterMod - 1 THEN 0 ELSE dceDiag[c] + 1
  BY <1>1, <1>2, CounterStep
<1>4. /\ Counted \in Nat /\ Counted >= dceDiag[c]
      /\ Counted' - dceDiag'[c] = Counted - dceDiag[c] /\ Counted' \in Int
  <2>1. \A d \in Outcomes : dceDiag[d] \in Nat /\ dceDiag'[d] \in Nat
    <3>1. dceDiag'[c] \in Nat
      BY <1>1, <1>2, <1>3
    <3>2. QED
      BY <1>1, <1>2, <3>1
  <2>2. c = "good" \/ c = "rawMismatch" \/ c = "timeouts" \/ c = "rxErrors"
            \/ c = "exceptions" \/ c = "otherErrors"
    BY DEF Outcomes
  <2>3. /\ c # "good" => dceDiag'["good"] = dceDiag["good"]
        /\ c # "rawMismatch" => dceDiag'["rawMismatch"] = dceDiag["rawMismatch"]
        /\ c # "timeouts" => dceDiag'["timeouts"] = dceDiag["timeouts"]
        /\ c # "rxErrors" => dceDiag'["rxErrors"] = dceDiag["rxErrors"]
        /\ c # "exceptions" => dceDiag'["exceptions"] = dceDiag["exceptions"]
        /\ c # "otherErrors" => dceDiag'["otherErrors"] = dceDiag["otherErrors"]
    BY DEF Outcomes
  <2>4. QED
    BY <2>1, <2>2, <2>3 DEF Counted, Outcomes
<1>5. CASE dceDiag[c] = CounterMod - 1
  <2>1. Counted' = (Counted + 1) - CounterMod /\ Counted + 1 >= CounterMod
    BY <1>1, <1>3, <1>4, <1>5
  <2>2. Counted + 1 \in Nat
    BY <1>4
  <2>3. QED
    BY <1>1, <2>1, <2>2, ModuloLess
<1>6. CASE dceDiag[c] # CounterMod - 1
  <2>1. dceDiag[c] \in Int
    BY <1>1, <1>2
  <2>2. Counted' = Counted + 1
    BY <1>3, <1>4, <1>6, <2>1
  <2>3. QED
    BY <2>2
<1>7. QED
  BY <1>5, <1>6

\* Accounting is inductive: a request is counted when it is made, and its
\* outcome when the cycle accounts for it, whatever it is.
LEMMA AccountingStep == TypeOK /\ Accounting /\ [Next]_vars => Accounting'
<1> SUFFICES ASSUME TypeOK, Accounting, [Next]_vars PROVE Accounting'
  OBVIOUS
<1>1. /\ LinkTypeOK /\ CounterMod \in Nat \ {0} /\ Counted \in Nat
      /\ dceDiag \in [Counters -> 0..(CounterMod - 1)]
  <2>1. LinkTypeOK /\ CounterMod \in Nat \ {0}
    BY DceAssumption DEF TypeOK
  <2>2. QED
    BY <2>1 DEF LinkTypeOK, Counted, Counters
<1>2. dceDiag["polls"] = (Counted + (IF InFlight THEN 1 ELSE 0)) % CounterMod
  BY DEF Accounting, Counted
<1>3. SUFFICES dceDiag'["polls"] = (Counted' + (IF InFlight' THEN 1 ELSE 0)) % CounterMod
  BY DEF Accounting, Counted
<1>4. CASE UNCHANGED dceDiag /\ InFlight' = InFlight
  BY <1>2, <1>4 DEF Counted
<1>5. CASE DceStart
  <2>1. ~InFlight /\ InFlight'
    BY <1>5 DEF DceStart, DceRuns, InFlight, DcePcs
  <2>2. /\ dceDiag'["polls"] = (dceDiag["polls"] + 1) % CounterMod
        /\ Counted' = Counted
    BY <1>1, <1>5 DEF DceStart, Count, Counted, Counters
  <2>3. dceDiag["polls"] = Counted % CounterMod
    BY <1>1, <1>2, <2>1
  <2>4. QED
    BY <1>1, <2>1, <2>2, <2>3, CountModulo
<1>6. CASE DceAccount
  <2>1. InFlight /\ ~InFlight'
    BY <1>6 DEF DceAccount, DceRuns, InFlight, DcePcs
  <2>2. \E c \in Outcomes : /\ dceDiag'[c] = (dceDiag[c] + 1) % CounterMod
                            /\ \A d \in Outcomes \ {c} : dceDiag'[d] = dceDiag[d]
    <3>1. CASE DceZeroRatio
      BY <1>1, <3>1 DEF DceZeroRatio, Outcomes, Counters
    <3>2. CASE ~DceZeroRatio
      <4>1. \E c \in Outcomes : Count(c)
        <5>1. CASE eErr = "NO_ERR"
          BY <1>6, <3>2, <5>1 DEF DceAccount, DceGood, DceRefused, Outcomes
        <5>2. CASE eErr # "NO_ERR"
          <6>1. CounterOf(eErr) \in Outcomes
            BY <1>1, <5>2 DEF LinkTypeOK, ReqErrs, CounterOf, Outcomes
          <6>2. QED
            BY <1>6, <5>2, <6>1 DEF DceAccount
        <5>3. QED
          BY <5>1, <5>2
      <4>2. QED
        BY <1>1, <4>1 DEF Count, Outcomes, Counters
    <3>3. QED
      BY <3>1, <3>2
  <2>3. dceDiag'["polls"] = dceDiag["polls"]
    <3>1. CASE DceZeroRatio
      BY <1>1, <3>1 DEF DceZeroRatio, Counters
    <3>2. CASE ~DceZeroRatio
      <4>1. \E c \in Counters \ {"polls"} : Count(c)
        <5>1. CASE eErr = "NO_ERR"
          BY <1>6, <3>2, <5>1 DEF DceAccount, DceGood, DceRefused, Counters
        <5>2. CASE eErr # "NO_ERR"
          <6>1. CounterOf(eErr) \in Counters \ {"polls"}
            BY <1>1, <5>2 DEF LinkTypeOK, ReqErrs, CounterOf, Counters
          <6>2. QED
            BY <1>6, <5>2, <6>1 DEF DceAccount
        <5>3. QED
          BY <5>1, <5>2
      <4>2. QED
        BY <1>1, <4>1 DEF Count, Counters
    <3>3. QED
      BY <3>1, <3>2
  <2>4. Counted' % CounterMod = (Counted + 1) % CounterMod
    BY <1>1, <2>2, OutcomeCounted
  <2>5. Counted' + 0 = Counted'
    <3>1. \A d \in Outcomes : dceDiag'[d] \in Int
      BY <1>1, <2>2 DEF Outcomes, Counters
    <3>2. QED
      BY <3>1 DEF Counted, Outcomes
  <2>6. QED
    BY <1>2, <2>1, <2>3, <2>4, <2>5
<1>7. CASE DceCheck
  <2>1. InFlight' = InFlight
    BY <1>7 DEF DceCheck, DceRuns, InFlight, DcePcs
  <2>2. dceDiag'["polls"] = dceDiag["polls"] /\ Counted' = Counted
    BY <1>1, <1>7 DEF DceCheck, Count, Counted, Counters
  <2>3. QED
    BY <1>2, <2>1, <2>2
<1>8. CASE DceTask /\ ~DceStart /\ ~DceAccount /\ ~DceCheck
  <2>1. UNCHANGED dceDiag
    BY <1>8 DEF DceTask, DceBoot, DceTake, DceBusy, DceDiscard, DceClear, DcePost, DceWoken,
                DceRead, DceFinishTimeout, DceGiveUp, DceWake
  <2>2. InFlight' = InFlight
    BY <1>8 DEF DceTask, DceBoot, DceTake, DceBusy, DceDiscard, DceClear, DcePost, DceWoken,
                DceRead, DceFinishTimeout, DceGiveUp, DceWake, DceRuns, InFlight, DcePcs
  <2>3. QED
    BY <1>4, <2>1, <2>2
<1>9. CASE Tick \/ Stall \/ UNCHANGED dceVars
  BY <1>4, <1>9 DEF Tick, Stall, TimePasses, InFlight, dceVars, waitVars
<1>10. QED
  BY <1>5, <1>6, <1>7, <1>8, <1>9 DEF Next, vars

\* The bench counters account for every request under exactly one outcome,
\* for a counter of any width and across its wrap.
THEOREM OutcomesAddUp == Spec => []Accounting
<1>1. Init => Accounting
  BY DceAssumption DEF Init, Accounting, Counters, InFlight
<1>2. QED
  BY <1>1, AccountingStep, TypeCorrect, PTL DEF Spec

-----------------------------------------------------------------------------
(* The link implements FreshOrZero *)

\* Each step of the link renews, withdraws or ages what is shown, or leaves
\* it alone.
LEMMA PublishedStep ==
    TypeOK /\ AgeInv /\ StaleBound' /\ [Next]_vars => [Published!Next]_<<flowRate, age>>
<1> SUFFICES ASSUME TypeOK, AgeInv, StaleBound', [Next]_vars
             PROVE  [Published!Next]_<<flowRate, age>>
  OBVIOUS
<1>1. CASE UNCHANGED dceVars
  BY <1>1 DEF dceVars, dataVars
<1>2. CASE DceTask
  <2>1. CASE DceAccount
    BY <2>1 DEF DceAccount, DceGood, DceZeroRatio, DceRefused, dce_dataSet, dataVars,
                Published!Next, Published!Renew
  <2>2. CASE DceCheck
    BY <2>2 DEF DceCheck, dce_dataInvalidate, dataVars, Published!Next, Published!Withdraw
  <2>3. CASE ~DceAccount /\ ~DceCheck
    BY <1>2, <2>3 DEF DceTask, DceBoot, DceStart, DceTake, DceBusy, DceDiscard, DceClear,
                      DcePost, DceWoken, DceRead, DceFinishTimeout, DceGiveUp, DceWake,
                      dataVars
  <2>4. QED
    BY <2>1, <2>2, <2>3
<1>3. CASE Tick \/ Stall
  <2>1. flowRate' = flowRate /\ valid' = valid /\ age' = IF valid THEN age + 1 ELSE age
    BY <1>3 DEF AgeInv, Tick, Stall, TimePasses
  <2>2. CASE valid
    <3>1. flowRate = "reading" /\ age + 1 <= MaxAge
      BY <2>1, <2>2 DEF AgeInv, StaleBound
    <3>2. age \in Nat /\ MaxAge \in Nat
      BY DceAssumption DEF TypeOK, LinkTypeOK, MaxAge
    <3>3. QED
      BY <2>1, <2>2, <3>1, <3>2 DEF Published!Next, Published!Older
  <2>3. CASE ~valid
    BY <2>1, <2>3
  <2>4. QED
    BY <2>2, <2>3
<1>4. QED
  BY <1>1, <1>2, <1>3 DEF Next, vars

\* What the EtherNet/IP side reads is zero or a reading of bounded age.
THEOREM LinkImplementsFreshOrZero == Spec => PublishedSpec
<1>1. Init => Published!Init
  BY DEF Init, Published!Init
<1>2. StaleBound /\ StaleBound' /\ TypeOK /\ AgeInv /\ [Next]_vars
          => [Published!Next]_<<flowRate, age>>
  BY PublishedStep
<1>3. QED
  BY <1>1, <1>2, TypeCorrect, AgeInvariant, ReadingsAreBounded, PTL
     DEF Spec, PublishedSpec, Published!Spec

=============================================================================
