----------------------------- MODULE ModbusCritical ----------------------------
(***************************************************************************)
(* The critical sections of the Modbus stack (modbus/modbus_port.c), which *)
(* its tasks and interrupt handlers enter and nest. While interrupts are   *)
(* masked the processor stays with the context that runs; otherwise any    *)
(* other may take it over between two instructions.                        *)
(***************************************************************************)
EXTENDS Naturals

CONSTANTS
    Contexts,     \* tasks and interrupt handlers
    DepthMax      \* how deep a context nests its sections (bound)

ASSUME CriticalAssumption == Contexts # {} /\ DepthMax \in Nat

VARIABLES
    primask,      \* interrupts are masked
    nesting,      \* ulMbCriticalNesting
    saved,        \* ulMbSavedPrimask
    running,      \* the context that has the processor
    pc,           \* "code", or "enter": PRIMASK was read, not yet masked
    ulPrimask,    \* the value each context read
    depth,        \* sections each context is in
    outer         \* other code has masked interrupts for itself

critVars == <<primask, nesting, saved, running, pc, ulPrimask, depth, outer>>

CritTypeOK ==
    /\ primask \in BOOLEAN /\ saved \in BOOLEAN /\ outer \in BOOLEAN
    /\ nesting \in Nat
    /\ running \in Contexts
    /\ pc \in [Contexts -> {"code", "enter"}]
    /\ ulPrimask \in [Contexts -> BOOLEAN]
    /\ depth \in [Contexts -> Nat]

CritInit ==
    /\ primask = FALSE /\ nesting = 0 /\ saved = FALSE
    /\ running \in Contexts
    /\ pc = [c \in Contexts |-> "code"]
    /\ ulPrimask = [c \in Contexts |-> FALSE]
    /\ depth = [c \in Contexts |-> 0]
    /\ outer = FALSE

-----------------------------------------------------------------------------
\* An interrupt, its return or the scheduler gives the processor to c.
Switch(c) ==
    /\ ~primask
    /\ running' = c
    /\ UNCHANGED <<primask, nesting, saved, pc, ulPrimask, depth, outer>>

\* vMBPortEnterCritical reads PRIMASK.
EnterRead ==
    /\ pc[running] = "code" /\ depth[running] < DepthMax
    /\ ulPrimask' = [ulPrimask EXCEPT ![running] = primask]
    /\ pc' = [pc EXCEPT ![running] = "enter"]
    /\ UNCHANGED <<primask, nesting, saved, running, depth, outer>>

\* Mutant: the inner section saves the state too.
SavedAlways == ulPrimask[running]

\* The outermost section saves the state it found.
Saved == IF nesting = 0 THEN ulPrimask[running] ELSE saved

\* ... masks interrupts and, undisturbed from then on, saves and counts.
EnterMask ==
    /\ pc[running] = "enter"
    /\ primask' = TRUE
    /\ saved' = Saved
    /\ nesting' = nesting + 1
    /\ depth' = [depth EXCEPT ![running] = @ + 1]
    /\ pc' = [pc EXCEPT ![running] = "code"]
    /\ UNCHANGED <<running, ulPrimask, outer>>

\* Mutant: the inner exit unmasks too.
MaskedUnnested == primask /\ saved

\* Interrupts are unmasked by the last exit, if they were before the first.
Masked == primask /\ (nesting' # 0 \/ saved)

\* vMBPortExitCritical. The stack calls it in pairs with the entry.
Exit ==
    /\ pc[running] = "code" /\ depth[running] > 0
    /\ depth' = [depth EXCEPT ![running] = @ - 1]
    /\ nesting' = IF nesting > 0 THEN nesting - 1 ELSE nesting
    /\ primask' = IF nesting > 0 THEN Masked ELSE primask
    /\ UNCHANGED <<saved, running, pc, ulPrimask, outer>>

\* Other code masks interrupts around calls of the stack, and unmasks them.
OuterMask ==
    /\ pc[running] = "code" /\ depth[running] = 0 /\ ~outer
    /\ outer' = TRUE /\ primask' = TRUE
    /\ UNCHANGED <<nesting, saved, running, pc, ulPrimask, depth>>

OuterUnmask ==
    /\ pc[running] = "code" /\ depth[running] = 0 /\ outer
    /\ outer' = FALSE /\ primask' = FALSE
    /\ UNCHANGED <<nesting, saved, running, pc, ulPrimask, depth>>

CritNext ==
    \/ \E c \in Contexts : Switch(c)
    \/ EnterRead \/ EnterMask \/ Exit
    \/ OuterMask \/ OuterUnmask

CritSpec == CritInit /\ [][CritNext]_critVars

-----------------------------------------------------------------------------
(* Properties *)

\* Sections exclude one another across contexts: whoever is in one runs, and
\* keeps the processor until the last exit.
Exclusive ==
    \A c \in Contexts : depth[c] > 0 => c = running /\ primask

\* Interrupts are unmasked again once every section is left, and not before
\* other code unmasks what it masked ("Restoring unconditionally would enable
\* interrupts inside an outer critical section", modbus_port.c:41-43).
Restored ==
    (\A c \in Contexts : depth[c] = 0) => (primask <=> outer)

=============================================================================
