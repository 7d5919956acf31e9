------------------------------- MODULE RiopSystem -----------------------------
(***************************************************************************)
(* The application loop over AFE sampling: the commands that AfeSampling   *)
(* takes from anywhere come from the mode machine of RiopLoop, at its      *)
(* periods, and the controller chooses mode and output word at any time.   *)
(*                                                                         *)
(* The loop runs in the GOAL main task, below every task of the            *)
(* application: it is held up while the AFE task works, for InitTicks each *)
(* time NAFE_init waits actively after the reset of the device.            *)
(***************************************************************************)
EXTENDS AfeSampling, RiopLoop

CONSTANT InitTicks    \* ticks NAFE_init takes (100 ms)

ASSUME SystemAssumption == InitTicks \in Nat

sysVars == <<vars, loopVars>>

SysInit == Init /\ LoopInit

\* The loop's step and what it hands over; MCU outputs go to another queue.
Loop ==
    /\ GoalRuns
    /\ LoopStep
    /\ IF DirtyPart \in Parts
       THEN HandOver([part |-> DirtyPart, out |-> IF DirtyPart = "gpio" THEN image.afe ELSE 0])
       ELSE UNCHANGED vars

Poll == GoalRuns /\ LoopPoll /\ UNCHANGED vars

\* The controller's process data, copied in the GOAL task.
Control ==
    /\ GoalRuns
    /\ \E m \in Modes, i \in Images : Exchange(m, i)
    /\ UNCHANGED vars

\* A tick passes for the loop too. The GOAL loop comes round more than once in
\* a tick: the first period is used up and a step that is due is taken by then.
SysTick ==
    /\ Tick
    /\ GoalRuns => ~tim_first /\ ~LoopDue
    /\ LoopWaits(1)

\* The AFE task's reset of the device holds the loop up.
Reset == AfeReset /\ LoopWaits(InitTicks)

AfeOther == AfeGpio \/ AfeStop \/ AfeWake \/ AfeConfigure \/ AfeSingle
Sampling == AfeOther \/ Gpio \/ Nafe \/ SampleDone \/ TimerIsr \/ PinChange

SysNext ==
    \/ Loop \/ Poll \/ Control
    \/ Reset \/ SysTick
    \/ Sampling /\ UNCHANGED loopVars

SysSpec == SysInit /\ [][SysNext]_sysVars

\* As in AfeSampling; the clock goes on, and the GPIO task and the GOAL task
\* below it get to run: each of them lets go of the processor after one round,
\* so that neither is kept from it for ever (strong fairness stands for the
\* 50 ms sleep of the GPIO task).
SysFairSpec ==
    /\ SysSpec /\ SamplingFairness
    /\ SF_vars(GpioCheck \/ GpioReceive)
    /\ SF_sysVars(SysTick) /\ SF_sysVars(Loop \/ Poll)

-----------------------------------------------------------------------------
(* Properties *)

\* What a mode measures.
KindOf(m) ==
    CASE m = 1 -> "hv" [] m = 2 -> "current" [] m = 3 -> "lv" [] m = 6 -> "temp"

\* In a mode that measures, results of that kind are delivered again and again:
\* the periodic modes need no command after the one sent on entry, and the
\* others repeat it (digital_io.c:185-221, 290-296, 339-341).
ModeDelivers ==
    \A m \in {1, 2, 3, 6} \cap Modes :
        <>[](fsm_mode = m) => []<><<SampleDone /\ kind = KindOf(m)>>_vars

\* In the output mode, an output word that the controller leaves alone comes to
\* be on the pins for good.
OutputsFollow ==
    \A v \in 0..GpioMax :
        4 \in Modes /\ <>[](fsm_mode = 4 /\ image.afe = v) => <>[](pins = v)

\* When the controller keeps to a mode and the input pins rest, the board status
\* comes to show them for good, whatever is left in the queue from an earlier
\* phase of sampling (gpio_task.c:72-86).
InputsReported ==
    \A m \in Modes : <>[](fsm_mode = m) => <>[](inStatus = pinsIn)

=============================================================================
