-------------------------------- MODULE ApiRiop -------------------------------
(***************************************************************************)
(* What the tasks of the M7 application share: the command block of the    *)
(* application loop (api_riop.h) and the FreeRTOS queues (init.c).         *)
(***************************************************************************)
EXTENDS Naturals, Sequences

CONSTANTS
    QueueLen,     \* length of the FreeRTOS queues
    GpioMax       \* the AFE output words are numbered 0..GpioMax

ASSUME ApiAssumption == QueueLen \in Nat \ {0} /\ GpioMax \in Nat

\* The commands of afe_command_t that the application loop gives.
Parts == {"hv", "current", "lv", "temp", "gpio"}

\* afe_command_t as digital_io.c fills it: exactly one part is dirty. The
\* output word counts in the GPIO part only, and is 0 in the others.
Commands == [part : Parts, out : 0..GpioMax]

\* Mutant: the length of the queue is not respected.
SentAlways(q, e) == Append(q, e)

\* xQueueSend with no wait: an element that does not fit is dropped.
Sent(q, e) == IF Len(q) < QueueLen THEN Append(q, e) ELSE q

=============================================================================
