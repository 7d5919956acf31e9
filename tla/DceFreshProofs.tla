---------------------------- MODULE DceFreshProofs ----------------------------
(***************************************************************************)
(* A published reading answers the request of the cycle that publishes it, *)
(* and a request that succeeds finds its reply staged: theorems about the  *)
(* CentriFeeder link on a line without noise, with a DCE that answers in   *)
(* time and an mbpoll task that outranks the requester.                    *)
(***************************************************************************)
EXTENDS DceLinkProofs

-----------------------------------------------------------------------------
(* Where a request is *)

\* The line carries nothing, and nobody waits for it.
LineIdle == sndState = "IDLE" /\ rcvState # "RCV" /\ ~dceReq

\* mbpoll has nothing to do for a request. The READY that starts the stack
\* may come at any time.
ReadyOnly == \A i \in 1..Len(eventQ) : eventQ[i] = "READY"
MbFree == mbPc \in {"init", "failed", "get", "READY"} /\ ReadyOnly

\* One event of the request is queued, or mbpoll is at its handling.
OnItsWay(e) ==
    \/ mbPc = e /\ ReadyOnly
    \/ /\ mbPc \in {"get", "READY"}
       /\ \E i \in 1..Len(eventQ) :
            eventQ[i] = e /\ \A j \in 1..Len(eventQ) : j # i => eventQ[j] = "READY"

\* A request that ended well has its reply staged.
Staged == eMasterResult = "NO_ERR" => prvRaw # "none"

\* What is left at least of the finish timeout when `spent` ticks have gone
\* by in the request, not counting the stalls of the cycle.
TimeLeft(spent) == dceLeft + (StallMax - stallLeft) + spent >= FinishTimeout

\* The phases of a request. Each names everything that is in flight.
Nothing    == MbFree /\ LineIdle /\ ~resultSem
Asked      == OnItsWay("FRAME_SENT") /\ LineIdle /\ ~resultSem /\ TimeLeft(0)
Sending    == /\ MbFree /\ ~resultSem /\ TimeLeft(0)
              /\ sndState = "XMIT" /\ txIsr /\ rcvState = "IDLE" /\ ~dceReq
              /\ "snd" \in own
Waiting    == /\ MbFree /\ ~resultSem /\ TimeLeft(RespondTimeout - timerLeft)
              /\ sndState = "XFWR" /\ ~txIsr /\ rcvState = "IDLE" /\ timerMode = "RESPOND"
              /\ dceReq => "wire" \in own /\ dceAge = RespondTimeout - timerLeft
Receiving  == /\ MbFree /\ ~resultSem /\ dceLeft > 0
              /\ sndState = "IDLE" /\ rcvState = "RCV" /\ ~dceReq
              /\ timerMode = "T35" /\ timerLeft = 0
              /\ "rx" \in own
Received   == /\ OnItsWay("FRAME_RECEIVED") \/ OnItsWay("EXECUTE")
              /\ LineIdle /\ ~resultSem /\ "rx" \in own
Failing    == OnItsWay("ERROR_PROCESS") /\ LineIdle /\ ~resultSem
Completing == /\ mbPc \in Callbacks \cup {"give"} /\ ReadyOnly /\ LineIdle /\ ~resultSem
              /\ mbPc = "cbSuccess" => prvRaw # "none"
              /\ mbPc = "give" => Staged
Completed  == /\ mbPc \in {"release", "get", "READY"} /\ ReadyOnly /\ LineIdle /\ resultSem
              /\ Staged

InFlightInWait ==
    \/ Nothing \/ Asked \/ Sending \/ Waiting \/ Receiving \/ Received
    \/ Failing \/ Completing \/ Completed

\* Neither property is inductive: which request a completion or a reply
\* belongs to is only known from where the request is. PhaseInv says that a
\* request is in flight only while dce_task waits for it, in one place.
PhaseInv ==
    /\ dcePc # "boot" => mbPc \notin {"init", "failed"}
    /\ prvRaw # "none" => "raw" \in own
    /\ dcePc # "wait" => Nothing
    /\ dcePc = "wait" => InFlightInWait
    /\ dcePc = "read" => Staged
    /\ NoRawMismatch /\ FreshReply

\* What the theorems assume of the constants: mbpoll outranks the requester
\* (MB_POLL_TASK_PRIORITY 5, DCE_TASK_PRIORITY 4), the line is free of noise,
\* the DCE answers within the response timeout or not at all, and the finish
\* timeout (1000 ms) is longer than the response timeout (200 ms) and the
\* stalls of a cycle together.
Punctual ==
    /\ MbPriority > DcePriority
    /\ NoiseMax = 0
    /\ AnswerMax < RespondTimeout
    /\ FinishTimeout > RespondTimeout + StallMax

-----------------------------------------------------------------------------
(* Lemmas about the event queue *)

\* A READY that is posted hides no event and adds none of the request.
LEMMA ReadyPosted ==
    ASSUME PortTypeOK, mbPc' = mbPc,
           eventQ' = eventQ \/ eventQ' = Append(eventQ, "READY")
    PROVE  /\ ReadyOnly => ReadyOnly'
           /\ \A e \in Events : OnItsWay(e) => OnItsWay(e)'
<1>1. CASE eventQ' = eventQ
  BY <1>1 DEF ReadyOnly, OnItsWay
<1>2. CASE eventQ' = Append(eventQ, "READY")
  <2>1. /\ eventQ \in Seq(Events) /\ Len(eventQ') = Len(eventQ) + 1
        /\ \A i \in 1..Len(eventQ) : eventQ'[i] = eventQ[i]
        /\ eventQ'[Len(eventQ) + 1] = "READY"
    BY <1>2 DEF PortTypeOK
  <2>2. Len(eventQ) \in Nat
    BY <2>1
  <2>3. ReadyOnly => ReadyOnly'
    BY <2>1, <2>2 DEF ReadyOnly
  <2>4. ASSUME NEW e \in Events, OnItsWay(e) PROVE OnItsWay(e)'
    <3>1. CASE mbPc = e /\ ReadyOnly
      BY <2>3, <3>1 DEF OnItsWay
    <3>2. CASE /\ mbPc \in {"get", "READY"}
               /\ \E i \in 1..Len(eventQ) : eventQ[i] = e
                    /\ \A j \in 1..Len(eventQ) : j # i => eventQ[j] = "READY"
      <4>1. PICK i \in 1..Len(eventQ) : eventQ[i] = e
                    /\ \A j \in 1..Len(eventQ) : j # i => eventQ[j] = "READY"
        BY <3>2
      <4>2. i \in 1..Len(eventQ') /\ eventQ'[i] = e
        BY <2>1, <2>2, <4>1
      <4>3. \A j \in 1..Len(eventQ') : j # i => eventQ'[j] = "READY"
        BY <2>1, <2>2, <4>1
      <4>4. QED
        BY <3>2, <4>2, <4>3 DEF OnItsWay
    <3>3. QED
      BY <2>4, <3>1, <3>2 DEF OnItsWay
  <2>5. QED
    BY <2>3, <2>4
<1>3. QED
  BY <1>1, <1>2

\* An event that is posted when there is none but READY is on its way, or
\* it was lost.
LEMMA EventPosted ==
    ASSUME PortTypeOK, ReadyOnly, NEW e \in Events, mbPc' \in {"get", "READY"},
           xMBMasterPortEventPost(e)
    PROVE  ReadyOnly' \/ OnItsWay(e)'
<1>1. CASE eventQ' = eventQ
  BY <1>1 DEF ReadyOnly
<1>2. CASE eventQ' = Append(eventQ, e)
  <2>1. /\ eventQ \in Seq(Events) /\ Len(eventQ') = Len(eventQ) + 1
        /\ \A i \in 1..Len(eventQ) : eventQ'[i] = eventQ[i]
        /\ eventQ'[Len(eventQ) + 1] = e
    BY <1>2 DEF PortTypeOK
  <2>2. Len(eventQ) \in Nat
    BY <2>1
  <2>3. Len(eventQ) + 1 \in 1..Len(eventQ')
    BY <2>1, <2>2
  <2>4. \A j \in 1..Len(eventQ') : j # Len(eventQ) + 1 => eventQ'[j] = "READY"
    BY <2>1, <2>2 DEF ReadyOnly
  <2>5. QED
    BY <2>1, <2>3, <2>4 DEF OnItsWay
<1>3. QED
  BY <1>1, <1>2 DEF xMBMasterPortEventPost

\* mbpoll takes an event: a READY, or the one of the request.
LEMMA EventTaken ==
    ASSUME PortTypeOK, MbGet
    PROVE  /\ ReadyOnly => mbPc' = "READY" /\ ReadyOnly'
           /\ \A e \in Events : OnItsWay(e) => OnItsWay(e)'
<1>0. mbPc = "get"
  BY DEF MbGet
<1>1. PICK h \in Events : xMBMasterPortEventGet(h) /\ mbPc' = h
  BY DEF MbGet
<1>2. /\ eventQ \in Seq(Events) /\ eventQ # <<>> /\ eventQ[1] = h
      /\ Len(eventQ) \in Nat \ {0} /\ Len(eventQ') = Len(eventQ) - 1
      /\ \A i \in 1..Len(eventQ') : eventQ'[i] = eventQ[i + 1]
  BY <1>1 DEF PortTypeOK, xMBMasterPortEventGet
<1>3. ReadyOnly => mbPc' = "READY" /\ ReadyOnly'
  BY <1>1, <1>2 DEF ReadyOnly
<1>4. ASSUME NEW e \in Events, OnItsWay(e) PROVE OnItsWay(e)'
  <2>1. CASE mbPc = e
    BY <1>0, <2>1 DEF Events
  <2>2. CASE mbPc # e
    <3>1. PICK i \in 1..Len(eventQ) : eventQ[i] = e
                  /\ \A j \in 1..Len(eventQ) : j # i => eventQ[j] = "READY"
      BY <1>4, <2>2 DEF OnItsWay
    <3>2. CASE i = 1
      <4>1. ReadyOnly'
        BY <1>2, <3>1, <3>2 DEF ReadyOnly
      <4>2. QED
        BY <1>1, <1>2, <3>1, <3>2, <4>1 DEF OnItsWay
    <3>3. CASE i # 1
      <4>1. mbPc' = "READY"
        BY <1>1, <1>2, <3>1, <3>3
      <4>2. i - 1 \in 1..Len(eventQ') /\ eventQ'[i - 1] = e
        BY <1>2, <3>1, <3>3
      <4>3. \A j \in 1..Len(eventQ') : j # i - 1 => eventQ'[j] = "READY"
        BY <1>2, <3>1, <3>3
      <4>4. QED
        BY <4>1, <4>2, <4>3 DEF OnItsWay
    <3>4. QED
      BY <3>2, <3>3
  <2>3. QED
    BY <2>1, <2>2
<1>5. QED
  BY <1>3, <1>4

-----------------------------------------------------------------------------
(* Lemmas about mbpoll and the line at rest *)

\* With no event of a request mbpoll starts up, takes a READY or ignores it.
LEMMA FreeStep ==
    ASSUME PortTypeOK, MbFree, MbPoll
    PROVE  /\ MbFree'
           /\ UNCHANGED <<runRes, resultSem, eMasterResult, rcvState, sndState, rxFrame, prvRaw,
                          dceReq, dceAge, own>>
           /\ mbPc \in {"get", "READY"} =>
                  /\ mbPc' \in {"get", "READY"}
                  /\ UNCHANGED <<timerMode, timerLeft, rxIsr, txIsr>>
<1> USE DEF semVars, rtuVars, lineVars, timerVars, uartVars
<1>1. MbStart \/ MbGet \/ MbReady
  BY DEF MbFree, MbPoll, MbFrameSent, MbFrameReceived, MbExecute, MbErrorProcess,
         MbCallback, MbGive, MbRelease, Callbacks
<1>2. CASE MbStart
  <2>1. mbPc = "init" /\ mbPc' \in {"failed", "get"} /\ eventQ' = eventQ
    BY <1>2 DEF MbStart, eventVars
  <2>2. QED
    BY <1>2, <2>1 DEF MbStart, MbFree, ReadyOnly
<1>3. CASE MbGet
  BY <1>3, EventTaken DEF MbGet, MbFree
<1>4. CASE MbReady
  BY <1>4 DEF MbReady, MbFree, ReadyOnly, portVars, eventVars
<1>5. QED
  BY <1>1, <1>2, <1>3, <1>4

\* On a line at rest no interrupt concerns a request.
LEMMA IdleInterrupt ==
    ASSUME MasterTypeOK, Punctual, LineIdle, Interrupts
    PROVE  /\ LineIdle' /\ mbPc' = mbPc
           /\ UNCHANGED <<runRes, resultSem, eMasterResult, prvRaw, own, rxFrame>>
           /\ eventQ' = eventQ \/ eventQ' = Append(eventQ, "READY")
<1> USE DEF LineIdle, semVars, MasterTypeOK
<1>1. CASE TransmissionComplete
  BY <1>1 DEF TransmissionComplete, eventVars
<1>2. ~DceAnswer /\ ~Noise
  BY DEF DceAnswer, Noise, Punctual
<1>3. CASE TimerExpired
  <2>1. CASE rcvState = "INIT"
    BY <1>3, <2>1 DEF TimerExpired, xMBMasterPortEventPost, lineVars
  <2>2. CASE rcvState = "IDLE"
    <3>1. UNCHANGED eventVars
      BY <1>3, <2>2 DEF TimerExpired
    <3>2. QED
      BY <1>3, <3>1 DEF TimerExpired, eventVars, lineVars
  <2>3. QED
    BY <2>1, <2>2
<1>4. QED
  BY <1>1, <1>2, <1>3 DEF Interrupts

\* An event on its way is taken, or handled, and nothing else.
LEMMA OnItsWayStep ==
    ASSUME PortTypeOK, NEW e \in Events, OnItsWay(e), MbPoll
    PROVE  \/ mbPc = e /\ ReadyOnly
           \/ /\ OnItsWay(e)'
              /\ UNCHANGED <<runRes, resultSem, eMasterResult, rcvState, sndState, rxFrame,
                             prvRaw, dceReq, dceAge, own>>
<1> SUFFICES ASSUME ~(mbPc = e /\ ReadyOnly) PROVE MbGet \/ MbReady
  <2>1. CASE MbGet
    BY <2>1, EventTaken DEF MbGet, semVars, rtuVars, lineVars
  <2>2. CASE MbReady
    BY <2>2 DEF OnItsWay, MbReady, ReadyOnly, portVars, eventVars, semVars, rtuVars, lineVars
  <2>3. QED
    BY <2>1, <2>2
<1>1. mbPc \in {"get", "READY"}
  BY DEF OnItsWay
<1>2. QED
  BY <1>1 DEF MbPoll, MbStart, MbFrameSent, MbFrameReceived, MbExecute, MbErrorProcess,
              MbCallback, MbGive, MbRelease, Callbacks

-----------------------------------------------------------------------------
(* What mbpoll and the interrupts do in each phase of a request *)

\* A staged reply belongs to the cycle.
RawIsOwn == prvRaw # "none" => "raw" \in own

\* Outside a request mbpoll, the interrupts and the line do nothing for one.
LEMMA PhaseNothing ==
    ASSUME Punctual, MasterTypeOK, Nothing, MbPoll \/ Interrupts
    PROVE  Nothing' /\ UNCHANGED <<eMasterResult, prvRaw, own>>
<1> USE DEF Nothing, MasterTypeOK
<1>1. CASE MbPoll
  BY <1>1, FreeStep DEF LineIdle
<1>2. CASE Interrupts
  BY <1>2, IdleInterrupt, ReadyPosted DEF MbFree
<1>3. QED
  BY <1>1, <1>2

\* FRAME_SENT starts the transmission, or is dropped by a busy receiver.
LEMMA PhaseAsked ==
    ASSUME Punctual, TypeOK, Asked, RawIsOwn, MbPoll \/ Interrupts, UNCHANGED dceVars
    PROVE  (Asked \/ Sending \/ Nothing)' /\ RawIsOwn'
<1> USE DEF TypeOK, MasterTypeOK
<1>1. UNCHANGED <<dceLeft, stallLeft>>
  BY DEF dceVars, waitVars, auxVars
<1>2. "FRAME_SENT" \in Events
  BY DEF Events
<1>3. CASE MbPoll
  <2>1. CASE mbPc = "FRAME_SENT" /\ ReadyOnly
    <3>1. MbFrameSent
      BY <1>3, <2>1 DEF MbPoll, MbStart, MbGet, MbReady, MbFrameReceived, MbExecute,
                        MbErrorProcess, MbCallback, MbGive, MbRelease, Callbacks
    <3>2. /\ mbPc' = "get" /\ ReadyOnly' /\ UNCHANGED <<resultSem, rcvState, dceReq, prvRaw>>
      BY <2>1, <3>1 DEF MbFrameSent, ReadyOnly, eventVars, semVars, lineVars
    <3>3. CASE rcvState = "IDLE"
      <4>1. sndState' = "XMIT" /\ txIsr' /\ own' = own \cup {"snd"}
        BY <3>1, <3>3 DEF MbFrameSent, vMBMasterPortSerialEnable, Asked, LineIdle
      <4>2. QED
        BY <1>1, <3>2, <3>3, <4>1 DEF Asked, Sending, MbFree, LineIdle, TimeLeft, RawIsOwn
    <3>4. CASE rcvState # "IDLE"
      BY <3>1, <3>2, <3>4 DEF MbFrameSent, Asked, Nothing, MbFree, LineIdle, RawIsOwn
    <3>5. QED
      BY <3>3, <3>4
  <2>2. CASE ~(mbPc = "FRAME_SENT" /\ ReadyOnly)
    <3>1. OnItsWay("FRAME_SENT")' /\ UNCHANGED <<resultSem, rcvState, sndState, dceReq, prvRaw, own>>
      BY <1>2, <1>3, <2>2, OnItsWayStep DEF Asked
    <3>2. QED
      BY <1>1, <3>1 DEF Asked, LineIdle, TimeLeft, RawIsOwn
  <2>3. QED
    BY <2>1, <2>2
<1>4. CASE Interrupts
  <2>1. /\ LineIdle' /\ UNCHANGED <<resultSem, prvRaw, own, mbPc>>
        /\ eventQ' = eventQ \/ eventQ' = Append(eventQ, "READY")
    BY <1>4, IdleInterrupt DEF Asked
  <2>2. OnItsWay("FRAME_SENT")'
    BY <1>2, <2>1, ReadyPosted DEF Asked
  <2>3. QED
    BY <1>1, <2>1, <2>2 DEF Asked, TimeLeft, RawIsOwn
<1>5. QED
  BY <1>3, <1>4

\* The transmission completes and the response timeout starts.
LEMMA PhaseSending ==
    ASSUME Punctual, TypeOK, Sending, RawIsOwn, MbPoll \/ Interrupts, UNCHANGED dceVars,
           mbPc \notin {"init", "failed"}
    PROVE  (Sending \/ Waiting \/ Nothing)' /\ RawIsOwn'
<1> USE DEF TypeOK, MasterTypeOK
<1>1. UNCHANGED <<dceLeft, stallLeft>>
  BY DEF dceVars, waitVars, auxVars
<1>2. CASE MbPoll
  <2>1. mbPc \in {"get", "READY"}
    BY DEF Sending, MbFree
  <2>2. MbFree' /\ UNCHANGED <<resultSem, rcvState, sndState, prvRaw, dceReq, own, txIsr>>
    BY <1>2, <2>1, FreeStep DEF Sending
  <2>3. QED
    BY <1>1, <2>2 DEF Sending, TimeLeft, RawIsOwn
<1>3. CASE TransmissionComplete
  <2>1. /\ sndState' = "XFWR" /\ timerMode' = "RESPOND" /\ timerLeft' = RespondTimeout
        /\ dceReq' = TRUE /\ dceAge' = 0 /\ Inherit("wire", "snd")
        /\ txIsr' = FALSE
    BY <1>3 DEF TransmissionComplete, vMBMasterPortSerialEnable,
                vMBMasterPortTimersRespondTimeoutEnable, Sending
  <2>2. "wire" \in own' /\ ("raw" \in own => "raw" \in own')
    BY <2>1 DEF Inherit, Sending
  <2>3. UNCHANGED <<eventQ, resultSem, mbPc, rcvState, prvRaw>>
    BY <1>3 DEF TransmissionComplete, eventVars, semVars
  <2>4. MbFree'
    BY <2>3 DEF Sending, MbFree, ReadyOnly
  <2>5. TimeLeft(RespondTimeout - timerLeft)'
    BY <1>1, <2>1, PortAssumption DEF Sending, TimeLeft, LinkTypeOK
  <2>6. QED
    BY <2>1, <2>2, <2>3, <2>4, <2>5, PortAssumption DEF Sending, Waiting, RawIsOwn
<1>4. CASE TimerExpired
  <2>1. UNCHANGED eventVars
    BY <1>4 DEF TimerExpired, Sending
  <2>2. QED
    BY <1>4, <2>1 DEF TimerExpired, Sending, Nothing, MbFree, ReadyOnly, LineIdle, eventVars,
                      semVars, lineVars, RawIsOwn
<1>5. ~DceAnswer /\ ~Noise
  BY DEF DceAnswer, Noise, Sending, Punctual
<1>6. QED
  BY <1>2, <1>3, <1>4, <1>5 DEF Interrupts

\* The DCE answers, or the response timeout runs out after it no longer can.
LEMMA PhaseWaiting ==
    ASSUME Punctual, TypeOK, Waiting, RawIsOwn, MbPoll \/ Interrupts, UNCHANGED dceVars,
           mbPc \notin {"init", "failed"}
    PROVE  (Waiting \/ Receiving \/ Failing \/ Nothing)' /\ RawIsOwn'
<1> USE DEF TypeOK, MasterTypeOK, PortTypeOK
<1>0. mbPc \in {"get", "READY"}
  BY DEF Waiting, MbFree
<1>1. UNCHANGED <<dceLeft, stallLeft>>
  BY DEF dceVars, waitVars, auxVars
<1>2. CASE MbPoll
  <2>1. /\ MbFree' /\ UNCHANGED <<resultSem, rcvState, sndState, prvRaw, dceReq, dceAge, own>>
        /\ UNCHANGED <<timerMode, timerLeft, txIsr>>
    BY <1>0, <1>2, FreeStep DEF Waiting
  <2>2. QED
    BY <1>1, <2>1 DEF Waiting, TimeLeft, RawIsOwn
<1>3. CASE TransmissionComplete
  BY <1>3 DEF TransmissionComplete, Waiting
<1>4. CASE DceAnswer
  <2>1. /\ dceReq /\ dceReq' = FALSE /\ UNCHANGED <<eventQ, resultSem, mbPc, prvRaw>>
        /\ MbFree'
    BY <1>4 DEF DceAnswer, eventVars, semVars, Waiting, MbFree, ReadyOnly
  <2>2. CASE rxIsr
    <3>1. rcvState' = "RCV" /\ sndState' = "IDLE" /\ timerMode' = "T35" /\ timerLeft' = 0
      BY <1>4, <2>2 DEF DceAnswer, ByteReceived, vMBMasterPortTimersT35Enable, Waiting
    <3>2. "rx" \in own' /\ ("raw" \in own => "raw" \in own')
      BY <1>4, <2>1, <2>2 DEF DceAnswer, Inherit, Waiting
    <3>3. dceLeft' > 0
      <4>1. RespondTimeout - timerLeft <= AnswerMax
        BY <2>1, MasterAssumption DEF Waiting
      <4>2. dceLeft + StallMax + AnswerMax >= FinishTimeout
        BY <4>1, DceAssumption, MasterAssumption, PortAssumption
           DEF Waiting, TimeLeft, LinkTypeOK
      <4>3. QED
        BY <1>1, <4>2, DceAssumption, MasterAssumption, PortAssumption DEF Punctual, LinkTypeOK
    <3>4. QED
      BY <2>1, <3>1, <3>2, <3>3 DEF Waiting, Receiving, RawIsOwn
  <2>3. CASE ~rxIsr
    BY <1>1, <1>4, <2>1, <2>3 DEF DceAnswer, timerVars, uartVars, Waiting, TimeLeft, RawIsOwn
  <2>4. QED
    BY <2>2, <2>3
<1>5. CASE TimerExpired
  <2>1. timerLeft = 0
    BY <1>5 DEF TimerExpired, TimerDue
  <2>2. ~dceReq
    BY <2>1, PortAssumption, MasterAssumption DEF Waiting, Punctual
  <2>3. xMBMasterPortEventPost("ERROR_PROCESS") /\ "ERROR_PROCESS" \in Events
    BY <1>5 DEF TimerExpired, Waiting, Events
  <2>4. /\ UNCHANGED <<mbPc, resultSem, prvRaw, own, dceReq>>
        /\ rcvState' = "IDLE" /\ sndState' = "IDLE"
    BY <1>5 DEF TimerExpired, semVars, lineVars
  <2>5. ReadyOnly' \/ OnItsWay("ERROR_PROCESS")'
    BY <1>0, <2>3, <2>4, EventPosted DEF Waiting, MbFree
  <2>6. QED
    BY <1>0, <2>2, <2>4, <2>5 DEF Waiting, Failing, Nothing, MbFree, LineIdle, RawIsOwn
<1>6. ~Noise
  BY DEF Noise, Punctual
<1>7. QED
  BY <1>2, <1>3, <1>4, <1>5, <1>6 DEF Interrupts

\* The answer ends.
LEMMA PhaseReceiving ==
    ASSUME Punctual, TypeOK, Receiving, RawIsOwn, MbPoll \/ Interrupts, UNCHANGED dceVars,
           mbPc \notin {"init", "failed"}
    PROVE  (Receiving \/ Received \/ Nothing)' /\ RawIsOwn'
<1> USE DEF TypeOK, MasterTypeOK
<1>0. mbPc \in {"get", "READY"}
  BY DEF Receiving, MbFree
<1>1. UNCHANGED dceLeft
  BY DEF dceVars, waitVars
<1>2. CASE MbPoll
  <2>1. /\ MbFree' /\ UNCHANGED <<resultSem, rcvState, sndState, prvRaw, dceReq, own>>
        /\ UNCHANGED <<timerMode, timerLeft>>
    BY <1>0, <1>2, FreeStep DEF Receiving
  <2>2. QED
    BY <1>1, <2>1 DEF Receiving, RawIsOwn
<1>3. CASE TransmissionComplete
  BY <1>1, <1>3 DEF TransmissionComplete, Receiving, MbFree, ReadyOnly, eventVars, semVars,
                    timerVars, RawIsOwn
<1>4. ~DceAnswer /\ ~Noise
  BY DEF DceAnswer, Noise, Receiving, Punctual
<1>5. CASE TimerExpired
  <2>1. xMBMasterPortEventPost("FRAME_RECEIVED") /\ "FRAME_RECEIVED" \in Events
    BY <1>5 DEF TimerExpired, Receiving, Events
  <2>2. /\ UNCHANGED <<mbPc, resultSem, prvRaw, own, dceReq>>
        /\ rcvState' = "IDLE" /\ sndState' = "IDLE"
    BY <1>5 DEF TimerExpired, semVars, lineVars
  <2>3. ReadyOnly' \/ OnItsWay("FRAME_RECEIVED")'
    BY <1>0, <2>1, <2>2, EventPosted DEF Receiving, MbFree
  <2>4. QED
    BY <1>0, <2>2, <2>3 DEF Receiving, Received, Nothing, MbFree, LineIdle, RawIsOwn
<1>6. QED
  BY <1>2, <1>3, <1>4, <1>5 DEF Interrupts

\* mbpoll looks at the frame, stages it, or finds it to be an error.
LEMMA PhaseReceived ==
    ASSUME Punctual, TypeOK, Received, RawIsOwn, MbPoll \/ Interrupts
    PROVE  (Received \/ Failing \/ Completing \/ Nothing)' /\ RawIsOwn'
<1> USE DEF TypeOK, MasterTypeOK
<1>0. {"FRAME_RECEIVED", "EXECUTE", "ERROR_PROCESS"} \subseteq Events
  BY DEF Events
<1>1. CASE Interrupts
  <2>1. /\ LineIdle' /\ UNCHANGED <<resultSem, prvRaw, own, mbPc>>
        /\ eventQ' = eventQ \/ eventQ' = Append(eventQ, "READY")
    BY <1>1, IdleInterrupt DEF Received
  <2>2. OnItsWay("FRAME_RECEIVED")' \/ OnItsWay("EXECUTE")'
    BY <1>0, <2>1, ReadyPosted DEF Received
  <2>3. QED
    BY <2>1, <2>2 DEF Received, RawIsOwn
<1>2. ASSUME NEW e \in {"FRAME_RECEIVED", "EXECUTE"}, OnItsWay(e), MbPoll
      PROVE  (Received \/ Failing \/ Completing \/ Nothing)' /\ RawIsOwn'
  <2>1. CASE ~(mbPc = e /\ ReadyOnly)
    <3>1. OnItsWay(e)' /\ UNCHANGED <<resultSem, rcvState, sndState, dceReq, prvRaw, own>>
      BY <1>0, <1>2, <2>1, OnItsWayStep
    <3>2. QED
      BY <3>1 DEF Received, LineIdle, RawIsOwn
  <2>2. CASE mbPc = "FRAME_RECEIVED" /\ ReadyOnly
    <3>1. MbFrameReceived
      BY <1>2, <2>2 DEF MbPoll, MbStart, MbGet, MbReady, MbFrameSent, MbExecute,
                        MbErrorProcess, MbCallback, MbGive, MbRelease, Callbacks
    <3>2. /\ mbPc' = "get" /\ UNCHANGED <<resultSem, rcvState, sndState, dceReq, prvRaw, own>>
          /\ \/ xMBMasterPortEventPost("ERROR_PROCESS")
             \/ xMBMasterPortEventPost("EXECUTE")
      BY <3>1 DEF MbFrameReceived, semVars, lineVars
    <3>3. ReadyOnly' \/ OnItsWay("ERROR_PROCESS")' \/ OnItsWay("EXECUTE")'
      BY <1>0, <2>2, <3>2, EventPosted
    <3>4. QED
      BY <3>2, <3>3 DEF Received, Failing, Nothing, MbFree, LineIdle, RawIsOwn
  <2>3. CASE mbPc = "EXECUTE" /\ ReadyOnly
    <3>1. MbExecute
      BY <1>2, <2>3 DEF MbPoll, MbStart, MbGet, MbReady, MbFrameSent, MbFrameReceived,
                        MbErrorProcess, MbCallback, MbGive, MbRelease, Callbacks
    <3>2. UNCHANGED <<resultSem, rcvState, sndState, dceReq>>
      BY <3>1 DEF MbExecute, semVars, lineVars
    <3>3. CASE rxFrame \in {"good", "zero"}
      <4>1. /\ mbPc' = "cbSuccess" /\ prvRaw' = rxFrame /\ Inherit("raw", "rx")
            /\ eventQ' = eventQ
        BY <3>1, <3>3 DEF MbExecute, eMBMasterRegHoldingCB, eventVars
      <4>2. "raw" \in own'
        BY <4>1 DEF Inherit, Received
      <4>3. ReadyOnly'
        BY <2>3, <4>1 DEF ReadyOnly
      <4>4. QED
        BY <3>2, <3>3, <4>1, <4>2, <4>3 DEF Received, Completing, LineIdle, Callbacks, RawIsOwn
    <3>4. CASE rxFrame \notin {"good", "zero"}
      <4>1. /\ mbPc' = "get" /\ UNCHANGED <<prvRaw, own>>
            /\ xMBMasterPortEventPost("ERROR_PROCESS")
        BY <3>1, <3>4 DEF MbExecute
      <4>2. ReadyOnly' \/ OnItsWay("ERROR_PROCESS")'
        BY <1>0, <2>3, <4>1, EventPosted
      <4>3. QED
        BY <3>2, <4>1, <4>2 DEF Received, Failing, Nothing, MbFree, LineIdle, RawIsOwn
    <3>5. QED
      BY <3>3, <3>4
  <2>4. QED
    BY <2>1, <2>2, <2>3
<1>3. QED
  BY <1>1, <1>2 DEF Received

\* The error event chooses the callback.
LEMMA PhaseFailing ==
    ASSUME Punctual, TypeOK, Failing, RawIsOwn, MbPoll \/ Interrupts
    PROVE  (Failing \/ Completing)' /\ RawIsOwn'
<1> USE DEF TypeOK, MasterTypeOK
<1>0. "ERROR_PROCESS" \in Events
  BY DEF Events
<1>1. CASE Interrupts
  <2>1. /\ LineIdle' /\ UNCHANGED <<resultSem, prvRaw, own, mbPc>>
        /\ eventQ' = eventQ \/ eventQ' = Append(eventQ, "READY")
    BY <1>1, IdleInterrupt DEF Failing
  <2>2. OnItsWay("ERROR_PROCESS")'
    BY <1>0, <2>1, ReadyPosted DEF Failing
  <2>3. QED
    BY <2>1, <2>2 DEF Failing, RawIsOwn
<1>2. CASE MbPoll
  <2>1. CASE ~(mbPc = "ERROR_PROCESS" /\ ReadyOnly)
    <3>1. /\ OnItsWay("ERROR_PROCESS")'
          /\ UNCHANGED <<resultSem, rcvState, sndState, dceReq, prvRaw, own>>
      BY <1>0, <1>2, <2>1, OnItsWayStep DEF Failing
    <3>2. QED
      BY <3>1 DEF Failing, LineIdle, RawIsOwn
  <2>2. CASE mbPc = "ERROR_PROCESS" /\ ReadyOnly
    <3>1. MbErrorProcess
      BY <1>2, <2>2 DEF MbPoll, MbStart, MbGet, MbReady, MbFrameSent, MbFrameReceived,
                        MbExecute, MbCallback, MbGive, MbRelease, Callbacks
    <3>2. mbPc' \in Callbacks \ {"cbSuccess"}
      BY <3>1 DEF MbErrorProcess, Callbacks
    <3>3. UNCHANGED <<eventQ, resultSem, rcvState, sndState, dceReq, prvRaw, own>>
      BY <3>1 DEF MbErrorProcess, portVars, eventVars, semVars, rtuVars, lineVars
    <3>4. mbPc' # "give"
      BY <3>2 DEF Callbacks
    <3>5. QED
      BY <2>2, <3>2, <3>3, <3>4 DEF Failing, Completing, ReadyOnly, LineIdle, RawIsOwn
  <2>3. QED
    BY <2>1, <2>2
<1>3. QED
  BY <1>1, <1>2

\* The callback stores the result and wakes the requester.
LEMMA PhaseCompleting ==
    ASSUME Punctual, TypeOK, Completing, RawIsOwn, MbPoll \/ Interrupts
    PROVE  (Completing \/ Completed)' /\ RawIsOwn'
<1> USE DEF TypeOK, MasterTypeOK
<1>1. CASE Interrupts
  <2>1. /\ LineIdle' /\ UNCHANGED <<resultSem, eMasterResult, prvRaw, own, mbPc>>
        /\ eventQ' = eventQ \/ eventQ' = Append(eventQ, "READY")
    BY <1>1, IdleInterrupt DEF Completing
  <2>2. ReadyOnly'
    BY <2>1, ReadyPosted DEF Completing
  <2>3. QED
    BY <2>1, <2>2 DEF Completing, Staged, RawIsOwn
<1>2. CASE mbPc \in Callbacks /\ MbPoll
  <2>1. MbCallback
    BY <1>2 DEF MbPoll, MbStart, MbGet, MbReady, MbFrameSent, MbFrameReceived, MbExecute,
                MbErrorProcess, MbGive, MbRelease, Callbacks
  <2>2. /\ mbPc' = "give" /\ eMasterResult' = ResultOf(mbPc)
        /\ UNCHANGED <<eventQ, resultSem, rcvState, sndState, dceReq, prvRaw, own>>
    BY <2>1 DEF MbCallback, CallbackResult, eventVars, rtuVars, lineVars
  <2>3. ResultOf(mbPc) = "NO_ERR" => mbPc = "cbSuccess"
    BY <1>2 DEF ResultOf, Callbacks
  <2>4. QED
    BY <2>2, <2>3 DEF Completing, ReadyOnly, LineIdle, Staged, RawIsOwn, Callbacks
<1>3. CASE mbPc = "give" /\ MbPoll
  <2>1. MbGive
    BY <1>3 DEF MbPoll, MbStart, MbGet, MbReady, MbFrameSent, MbFrameReceived, MbExecute,
                MbErrorProcess, MbCallback, MbRelease, Callbacks
  <2>2. /\ mbPc' = "release" /\ resultSem' = TRUE
        /\ UNCHANGED <<eventQ, eMasterResult, rcvState, sndState, dceReq, prvRaw, own>>
    BY <2>1 DEF MbGive, CallbackGive, eventVars, rtuVars, lineVars
  <2>3. QED
    BY <1>3, <2>2 DEF Completing, Completed, ReadyOnly, LineIdle, Staged, RawIsOwn
<1>4. QED
  BY <1>1, <1>2, <1>3 DEF Completing

\* mbpoll releases the run resource; no second completion follows.
LEMMA PhaseCompleted ==
    ASSUME Punctual, TypeOK, Completed, RawIsOwn, MbPoll \/ Interrupts
    PROVE  Completed' /\ RawIsOwn'
<1> USE DEF TypeOK, MasterTypeOK
<1>1. CASE Interrupts
  <2>1. /\ LineIdle' /\ UNCHANGED <<resultSem, eMasterResult, prvRaw, own, mbPc>>
        /\ eventQ' = eventQ \/ eventQ' = Append(eventQ, "READY")
    BY <1>1, IdleInterrupt DEF Completed
  <2>2. ReadyOnly'
    BY <2>1, ReadyPosted DEF Completed
  <2>3. QED
    BY <2>1, <2>2 DEF Completed, Staged, RawIsOwn
<1>2. CASE mbPc = "release" /\ MbPoll
  <2>1. MbRelease
    BY <1>2 DEF MbPoll, MbStart, MbGet, MbReady, MbFrameSent, MbFrameReceived, MbExecute,
                MbErrorProcess, MbCallback, MbGive, Callbacks
  <2>2. /\ mbPc' = "get"
        /\ UNCHANGED <<eventQ, resultSem, eMasterResult, rcvState, sndState, dceReq, prvRaw, own>>
    BY <2>1 DEF MbRelease, vMBMasterRunResRelease, eventVars, rtuVars, lineVars
  <2>3. QED
    BY <2>2 DEF Completed, ReadyOnly, LineIdle, Staged, RawIsOwn
<1>3. CASE mbPc \in {"get", "READY"} /\ MbPoll
  <2>1. MbFree' /\ mbPc' \in {"get", "READY"}
        /\ UNCHANGED <<resultSem, eMasterResult, rcvState, sndState, prvRaw, dceReq, own>>
    BY <1>3, FreeStep DEF Completed, MbFree
  <2>2. QED
    BY <2>1 DEF Completed, MbFree, LineIdle, Staged, RawIsOwn
<1>4. QED
  BY <1>1, <1>2, <1>3 DEF Completed

-----------------------------------------------------------------------------
(* A request is in flight only while dce_task waits for it *)

\* mbpoll and the interrupts move a request from phase to phase.
LEMMA PhaseServers ==
    ASSUME Punctual, TypeOK, PhaseInv, MbPoll \/ Interrupts, UNCHANGED dceVars
    PROVE  PhaseInv'
<1> USE DEF PhaseInv
<1>1. UNCHANGED <<dcePc, eErr, pubOwn>>
  BY DEF dceVars, waitVars, auxVars
<1>2. RawIsOwn
  BY DEF RawIsOwn
<1>3. CASE dcePc # "wait"
  <2>1. Nothing' /\ UNCHANGED <<eMasterResult, prvRaw, own>>
    BY <1>3, PhaseNothing DEF TypeOK
  <2>2. mbPc \notin {"init", "failed"} => mbPc' \notin {"init", "failed"}
    <3>1. CASE MbPoll
      BY <1>3, <3>1, FreeStep DEF Nothing, MbFree, TypeOK, MasterTypeOK
    <3>2. CASE Interrupts
      BY <1>3, <3>2, IdleInterrupt DEF Nothing, TypeOK
    <3>3. QED
      BY <3>1, <3>2
  <2>3. QED
    BY <1>1, <1>3, <2>1, <2>2 DEF Staged, NoRawMismatch, FreshReply
<1>4. CASE dcePc = "wait"
  <2>1. mbPc \notin {"init", "failed"}
    BY <1>4
  <2>2. InFlightInWait' /\ RawIsOwn'
    <3>1. CASE Nothing
      BY <1>2, <3>1, PhaseNothing DEF TypeOK, InFlightInWait, RawIsOwn
    <3>2. CASE Asked
      BY <1>2, <3>2, PhaseAsked DEF InFlightInWait
    <3>3. CASE Sending
      BY <1>2, <2>1, <3>3, PhaseSending DEF InFlightInWait
    <3>4. CASE Waiting
      BY <1>2, <2>1, <3>4, PhaseWaiting DEF InFlightInWait
    <3>5. CASE Receiving
      BY <1>2, <2>1, <3>5, PhaseReceiving DEF InFlightInWait
    <3>6. CASE Received
      BY <1>2, <3>6, PhaseReceived DEF InFlightInWait
    <3>7. CASE Failing
      BY <1>2, <3>7, PhaseFailing DEF InFlightInWait
    <3>8. CASE Completing
      BY <1>2, <3>8, PhaseCompleting DEF InFlightInWait
    <3>9. CASE Completed
      BY <1>2, <3>9, PhaseCompleted DEF InFlightInWait
    <3>10. QED
      BY <1>4, <3>1, <3>2, <3>3, <3>4, <3>5, <3>6, <3>7, <3>8, <3>9 DEF InFlightInWait
  <2>3. mbPc' \notin {"init", "failed"}
    <3>1. CASE MbPoll
      <4>1. CASE MbErrorProcess
        BY <4>1 DEF MbErrorProcess, TypeOK, MasterTypeOK
      <4>2. CASE ~MbErrorProcess
        BY <2>1, <3>1, <4>2 DEF MbPoll, MbStart, MbGet, MbReady, MbFrameSent,
             MbFrameReceived, MbExecute, MbCallback, MbGive, MbRelease, Events
      <4>3. QED
        BY <4>1, <4>2
    <3>2. CASE Interrupts
      BY <2>1, <3>2 DEF Interrupts, TransmissionComplete, DceAnswer, Noise, TimerExpired
    <3>3. QED
      BY <3>1, <3>2
  <2>4. QED
    BY <1>1, <1>4, <2>2, <2>3 DEF RawIsOwn, NoRawMismatch, FreshReply
<1>5. QED
  BY <1>3, <1>4

-----------------------------------------------------------------------------
(* The steps of the requester and of the clock *)

\* While mbpoll waits for an event none of a request is on its way.
LEMMA IdleHasNoEvent ==
    ASSUME MbIdle, NEW e \in Events
    PROVE  ~OnItsWay(e)
BY DEF MbIdle, OnItsWay, Events

\* The requester finds its request finished, lost, or still on the line.
LEMMA IdlePhases ==
    ASSUME MbIdle, InFlightInWait
    PROVE  Nothing \/ Sending \/ Waiting \/ Receiving \/ Completed
<1>1. ~Asked /\ ~Received /\ ~Failing
  BY IdleHasNoEvent DEF Asked, Received, Failing, Events
<1>2. ~Completing
  BY DEF MbIdle, Completing, Callbacks
<1>3. QED
  BY <1>1, <1>2 DEF InFlightInWait

\* dce_task gives up only when nothing of its request is in flight.
LEMMA PhaseWaitOver ==
    ASSUME Punctual, TypeOK, PhaseInv, MbIdle, dcePc = "wait", dceLeft = 0, ~resultSem
    PROVE  Nothing
<1>1. dceLeft = 0 /\ stallLeft \in Nat /\ timerLeft \in Nat /\ StallMax \in Nat
      /\ FinishTimeout \in Nat /\ RespondTimeout \in Nat
      /\ FinishTimeout > RespondTimeout + StallMax
  BY DceAssumption, PortAssumption DEF TypeOK, LinkTypeOK, MasterTypeOK, PortTypeOK, Punctual
<1>2. ~TimeLeft(0) /\ ~TimeLeft(RespondTimeout - timerLeft)
  BY <1>1 DEF TimeLeft
<1>3. QED
  BY <1>1, <1>2, IdlePhases DEF PhaseInv, Sending, Waiting, Receiving, Completed

\* A request leaves the requester with the whole finish timeout ahead.
LEMMA PhasePost ==
    ASSUME Punctual, TypeOK, PhaseInv, DcePost
    PROVE  (Nothing \/ Asked)' /\ UNCHANGED <<mbPc, prvRaw, own, eErr, pubOwn>>
<1>1. /\ UNCHANGED <<mbPc, prvRaw, own, eErr, pubOwn>>
      /\ UNCHANGED <<resultSem, rcvState, sndState, dceReq, stallLeft>>
      /\ dceLeft' = FinishTimeout /\ xMBMasterPortEventPost("FRAME_SENT")
  BY DEF DcePost, semVars, rtuVars, lineVars, auxVars
<1>2. dcePc = "post"
  BY DEF DcePost, DceRuns
<1>3. Nothing /\ mbPc \in {"get", "READY"}
  BY <1>2 DEF PhaseInv, Nothing, MbFree
<1>4. TimeLeft(0)'
  BY <1>1, DceAssumption DEF TimeLeft, TypeOK, LinkTypeOK
<1>5. LineIdle' /\ ~resultSem'
  BY <1>1, <1>3 DEF Nothing, LineIdle
<1>6. ReadyOnly' \/ OnItsWay("FRAME_SENT")'
  BY <1>1, <1>3, EventPosted DEF Nothing, MbFree, TypeOK, MasterTypeOK, Events
<1>7. QED
  BY <1>1, <1>3, <1>4, <1>5, <1>6 DEF Nothing, Asked, MbFree

\* Between two requests the requester disturbs nothing, and a new cycle
\* starts without a reply.
LEMMA PhaseBetween ==
    ASSUME Punctual, TypeOK, PhaseInv,
           DceStart \/ DceTake \/ DceBusy \/ DceDiscard \/ DceClear \/ DceGiveUp
    PROVE  PhaseInv'
<1>1. /\ dcePc \notin {"boot", "wait"} /\ dcePc' \notin {"boot", "wait", "read"}
      /\ UNCHANGED <<mbPc, eventQ, rcvState, sndState, dceReq, pubOwn>>
  BY DEF DceStart, DceTake, DceBusy, DceDiscard, DceClear, DceGiveUp, DceRuns, mbVars,
         portVars, eventVars, rtuVars, lineVars, auxVars
<1>2. ~resultSem => ~resultSem'
  BY DEF DceStart, DceTake, DceBusy, DceDiscard, DceClear, DceGiveUp, mbVars, portVars,
         semVars, RunResTake, DiscardCompletion, ClearResult, vMBMasterRunResRelease
<1>3. prvRaw' # "none" => "raw" \in own'
  <2>1. CASE DceStart
    BY <2>1 DEF DceStart, mbcb_rawInvalidate
  <2>2. CASE ~DceStart
    BY <2>2 DEF PhaseInv, DceTake, DceBusy, DceDiscard, DceClear, DceGiveUp, mbVars
  <2>3. QED
    BY <2>1, <2>2
<1>4. dcePc' = "account" => eErr' # "NO_ERR"
  BY DEF DceStart, DceTake, DceBusy, DceDiscard, DceClear, DceGiveUp, DceRuns
<1>5. Nothing' /\ mbPc' \notin {"init", "failed"}
  BY <1>1, <1>2 DEF PhaseInv, Nothing, MbFree, ReadyOnly, LineIdle
<1>6. FreshReply'
  BY <1>1 DEF PhaseInv, FreshReply
<1>7. QED
  BY <1>1, <1>3, <1>4, <1>5, <1>6 DEF PhaseInv, NoRawMismatch

\* The steps at the end of a cycle and before the first one.
LEMMA PhaseOutside ==
    ASSUME Punctual, TypeOK, PhaseInv, DceBoot \/ DceRead \/ DceAccount \/ DceCheck \/ DceWake
    PROVE  PhaseInv'
<1>1. /\ dcePc # "wait" /\ dcePc' \notin {"boot", "wait", "read"}
      /\ UNCHANGED <<mbPc, eventQ, resultSem, rcvState, sndState, dceReq, prvRaw, own>>
  BY DEF DceBoot, DceRead, DceAccount, DceCheck, DceWake, DceRuns, mbVars, portVars,
         eventVars, semVars, rtuVars, lineVars
<1>2. mbPc \notin {"init", "failed"}
  BY DEF PhaseInv, DceBoot, DceRead, DceAccount, DceCheck, DceWake, DceRuns, dceMbReady
<1>3. Nothing'
  BY <1>1 DEF PhaseInv, Nothing, MbFree, ReadyOnly, LineIdle
<1>4. FreshReply'
  <2>1. CASE DceAccount
    <3>1. CASE DceGood
      BY <3>1 DEF PhaseInv, DceGood, FreshReply
    <3>2. CASE ~DceGood
      <4>1. pubOwn' = pubOwn
        BY <2>1, <3>2 DEF DceAccount, DceZeroRatio, DceRefused
      <4>2. QED
        BY <4>1 DEF PhaseInv, FreshReply
    <3>3. QED
      BY <3>1, <3>2
  <2>2. CASE ~DceAccount
    <3>1. pubOwn' = pubOwn
      BY <2>2 DEF DceBoot, DceRead, DceCheck, DceWake, auxVars
    <3>2. QED
      BY <3>1 DEF PhaseInv, FreshReply
  <2>3. QED
    BY <2>1, <2>2
<1>5. NoRawMismatch'
  <2>1. CASE DceRead
    BY <1>1, <2>1 DEF DceRead, DceRuns, PhaseInv, Staged, NoRawMismatch
  <2>2. CASE ~DceRead
    BY <2>2 DEF DceBoot, DceAccount, DceCheck, DceWake, DceRuns, NoRawMismatch
  <2>3. QED
    BY <2>1, <2>2
<1>6. QED
  BY <1>1, <1>2, <1>3, <1>4, <1>5 DEF PhaseInv

\* The requester is woken by its completion, or gives up with nothing in
\* flight: the next request starts from a line at rest.
LEMMA PhaseDceTask == ASSUME Punctual, TypeOK, PhaseInv, DceTask PROVE PhaseInv'
<1>1. CASE DcePost
  <2>1. (Nothing \/ Asked)' /\ UNCHANGED <<mbPc, prvRaw, own, eErr, pubOwn>>
    BY <1>1, PhasePost
  <2>2. dcePc = "post" /\ dcePc' = "wait"
    BY <1>1 DEF DcePost, DceRuns
  <2>3. FreshReply'
    BY <2>1 DEF PhaseInv, FreshReply
  <2>4. QED
    BY <2>1, <2>2, <2>3 DEF PhaseInv, InFlightInWait, NoRawMismatch
<1>2. CASE DceWoken
  <2>1. /\ dcePc = "wait" /\ dcePc' = "read" /\ resultSem /\ ~resultSem' /\ MbIdle
        /\ UNCHANGED <<mbPc, eventQ, rcvState, sndState, dceReq, prvRaw, own, eMasterResult>>
    BY <1>2 DEF DceWoken, DceRuns, ResultTake, eventVars, rtuVars, lineVars, Punctual
  <2>2. pubOwn' = pubOwn
    BY <1>2 DEF DceWoken, auxVars
  <2>3. Completed
    BY <2>1, IdlePhases DEF PhaseInv, Nothing, Sending, Waiting, Receiving
  <2>4. mbPc = "get" /\ mbPc' = "get"
    BY <2>1, <2>3 DEF Completed, MbIdle
  <2>5. Nothing' /\ Staged'
    BY <2>1, <2>3, <2>4 DEF Completed, Nothing, MbFree, ReadyOnly, LineIdle, Staged
  <2>6. FreshReply'
    BY <2>2 DEF PhaseInv, FreshReply
  <2>7. QED
    BY <2>1, <2>4, <2>5, <2>6 DEF PhaseInv, NoRawMismatch
<1>3. CASE DceFinishTimeout
  <2>1. /\ dcePc = "wait" /\ dcePc' = "giveup" /\ ~resultSem /\ dceLeft = 0 /\ MbIdle
        /\ UNCHANGED <<mbPc, eventQ, resultSem, rcvState, sndState, dceReq, prvRaw, own>>
    BY <1>3 DEF DceFinishTimeout, DceRuns, Punctual, mbVars, portVars, eventVars, semVars,
                rtuVars, lineVars
  <2>2. pubOwn' = pubOwn
    BY <1>3 DEF DceFinishTimeout, auxVars
  <2>3. Nothing'
    BY <2>1, PhaseWaitOver DEF Nothing, MbFree, ReadyOnly, LineIdle
  <2>4. FreshReply'
    BY <2>2 DEF PhaseInv, FreshReply
  <2>5. QED
    BY <2>1, <2>3, <2>4 DEF PhaseInv, NoRawMismatch
<1>4. QED
  BY <1>1, <1>2, <1>3, PhaseBetween, PhaseOutside DEF DceTask

\* Time takes from the finish timeout only what the response timeout and the
\* stalls account for; it does not pass while an interrupt is due.
LEMMA PhaseTick == ASSUME Punctual, TypeOK, PhaseInv, Tick \/ Stall PROVE PhaseInv'
<1>1. TimePasses /\ MasterTick /\ ~InterruptPending
  BY DEF Tick, Stall, TimePasses
<1>2. UNCHANGED <<mbPc, eventQ, resultSem, eMasterResult, rcvState, sndState, timerMode,
                  prvRaw, own>>
  BY <1>1 DEF MasterTick, eventVars, semVars, rtuVars
<1>3. txIsr' = txIsr
  BY <1>1 DEF MasterTick, uartVars
<1>4. UNCHANGED <<dcePc, eErr, pubOwn>>
  BY <1>1 DEF TimePasses
<1>5. dceReq' => dceReq /\ dceAge' = dceAge + 1
  BY <1>1 DEF MasterTick
<1>6. LineIdle => LineIdle'
  BY <1>2, <1>5 DEF LineIdle
<1>7. \A e \in Events : OnItsWay(e) => OnItsWay(e)'
  BY <1>2 DEF OnItsWay, ReadyOnly
<1>8. Nothing => Nothing'
  BY <1>2, <1>6 DEF Nothing, MbFree, ReadyOnly
<1>9. /\ {dceLeft, dceLeft', stallLeft, stallLeft', StallMax, FinishTimeout} \subseteq Nat
      /\ dceLeft' >= dceLeft - 1 /\ stallLeft' <= stallLeft
  BY <1>1, DceAssumption DEF TypeOK, LinkTypeOK, TimePasses, Tick, Stall
<1>10. dcePc = "wait" => InFlightInWait'
  <2>1. CASE Nothing
    BY <1>8, <2>1 DEF InFlightInWait
  <2>2. CASE Asked
    <3>1. Stall
      BY <2>2, IdleHasNoEvent DEF Asked, Tick, Events
    <3>2. TimeLeft(0)'
      <4>1. dceLeft + (StallMax - stallLeft) + 0 >= FinishTimeout
        BY <2>2 DEF Asked, TimeLeft
      <4>2. stallLeft' = stallLeft - 1
        BY <3>1 DEF Stall
      <4>3. dceLeft' + (StallMax - stallLeft') + 0 >= FinishTimeout
        BY <1>9, <4>1, <4>2
      <4>4. QED
        BY <4>3 DEF TimeLeft
    <3>3. QED
      BY <1>2, <1>6, <1>7, <2>2, <3>2 DEF Asked, InFlightInWait, Events
  <2>3. ~Sending /\ ~Receiving
    BY <1>1 DEF InterruptPending, TimerDue, Sending, Receiving
  <2>4. CASE Waiting
    <3>1. timerLeft \in Nat /\ RespondTimeout \in Nat /\ timerLeft' = timerLeft - 1
      BY <1>1, <2>4, PortAssumption DEF Waiting, MasterTick, TypeOK, MasterTypeOK, PortTypeOK
    <3>2. TimeLeft(RespondTimeout - timerLeft)'
      <4>1. dceLeft + (StallMax - stallLeft) + (RespondTimeout - timerLeft) >= FinishTimeout
        BY <2>4 DEF Waiting, TimeLeft
      <4>2. dceLeft' + (StallMax - stallLeft') + (RespondTimeout - timerLeft')
                >= FinishTimeout
        BY <1>9, <3>1, <4>1
      <4>3. QED
        BY <4>2 DEF TimeLeft
    <3>3. dceReq' => "wire" \in own' /\ dceAge' = RespondTimeout - timerLeft'
      BY <1>2, <1>5, <2>4, <3>1 DEF Waiting
    <3>4. MbFree' /\ ~resultSem' /\ ~txIsr'
      BY <1>2, <1>3, <2>4 DEF Waiting, MbFree, ReadyOnly
    <3>5. QED
      BY <1>2, <2>4, <3>2, <3>3, <3>4 DEF Waiting, InFlightInWait
  <2>5. CASE Received
    BY <1>2, <1>6, <1>7, <2>5 DEF Received, InFlightInWait, Events
  <2>6. CASE Failing
    BY <1>2, <1>6, <1>7, <2>6 DEF Failing, InFlightInWait, Events
  <2>7. CASE Completing
    BY <1>2, <1>6, <2>7 DEF Completing, ReadyOnly, Staged, InFlightInWait
  <2>8. CASE Completed
    BY <1>2, <1>6, <2>8 DEF Completed, ReadyOnly, Staged, InFlightInWait
  <2>9. QED
    BY <2>1, <2>2, <2>3, <2>4, <2>5, <2>6, <2>7, <2>8 DEF PhaseInv, InFlightInWait
<1>11. QED
  BY <1>2, <1>4, <1>8, <1>10 DEF PhaseInv, Staged, NoRawMismatch, FreshReply

\* PhaseInv holds initially and every step keeps it.
LEMMA PhaseInvariant == ASSUME Punctual PROVE Spec => []PhaseInv
<1>1. Init => PhaseInv
  <2> SUFFICES ASSUME Init PROVE PhaseInv
    OBVIOUS
  <2>1. /\ mbPc = "init" /\ eventQ = <<>> /\ sndState = "IDLE" /\ rcvState = "INIT"
        /\ dcePc = "boot" /\ prvRaw = "none"
    BY DEF Init, MasterInit, PortInit
  <2>2. ~dceReq /\ ~resultSem
    BY DEF Init, MasterInit, PortInit
  <2>3. pubOwn
    BY DEF Init
  <2>4. QED
    BY <2>1, <2>2, <2>3 DEF PhaseInv, Nothing, MbFree, ReadyOnly, LineIdle, NoRawMismatch,
                            FreshReply
<1>2. TypeOK /\ PhaseInv /\ [Next]_vars => PhaseInv'
  <2> SUFFICES ASSUME TypeOK, PhaseInv, [Next]_vars PROVE PhaseInv'
    OBVIOUS
  <2>1. CASE (MbPoll \/ Interrupts) /\ UNCHANGED dceVars
    BY <2>1, PhaseServers
  <2>2. CASE DceTask
    BY <2>2, PhaseDceTask
  <2>3. CASE Tick \/ Stall
    BY <2>3, PhaseTick
  <2>4. CASE UNCHANGED vars
    <3>1. UNCHANGED <<mbPc, eventQ, eMasterResult, rcvState, sndState, timerMode, timerLeft,
                      prvRaw, own, dceAge, dcePc, dceLeft, eErr, stallLeft>>
      BY <2>4 DEF vars, mbVars, portVars, eventVars, semVars, timerVars, rtuVars, lineVars,
                  dceVars, waitVars, auxVars
    <3>2. resultSem' = resultSem /\ txIsr' = txIsr /\ dceReq' = dceReq /\ pubOwn' = pubOwn
      BY <2>4 DEF vars, mbVars, portVars, semVars, uartVars, lineVars, dceVars, auxVars
    <3>3. (Nothing => Nothing') /\ (InFlightInWait => InFlightInWait')
      BY <3>1, <3>2 DEF Nothing, InFlightInWait, Asked, Sending, Waiting, Receiving,
           Received, Failing, Completing, Completed, MbFree, ReadyOnly, OnItsWay, LineIdle,
           TimeLeft, Staged
    <3>4. QED
      BY <3>1, <3>2, <3>3 DEF PhaseInv, Staged, NoRawMismatch, FreshReply
  <2>5. QED
    BY <2>1, <2>2, <2>3, <2>4 DEF Next
<1>3. QED
  BY <1>1, <1>2, TypeCorrect, PTL DEF Spec

\* A reading that is published answers the request of the cycle publishing
\* it: the completion, the frame and the staged reply of an earlier request
\* never reach a later one.
THEOREM RepliesAreFresh == ASSUME Punctual PROVE Spec => []FreshReply
<1>1. PhaseInv => FreshReply
  BY DEF PhaseInv
<1>2. QED
  BY <1>1, PhaseInvariant, PTL

\* A request that reports success finds its reply staged: rawMismatch never
\* counts a reply that was there.
THEOREM NoReplyIsMissed == ASSUME Punctual PROVE Spec => []NoRawMismatch
<1>1. PhaseInv => NoRawMismatch
  BY DEF PhaseInv
<1>2. QED
  BY <1>1, PhaseInvariant, PTL
=============================================================================
