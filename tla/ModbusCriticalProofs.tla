------------------------- MODULE ModbusCriticalProofs -------------------------
(***************************************************************************)
(* The critical sections of the Modbus stack exclude one another and       *)
(* restore the interrupt mask, for any contexts and any depth of nesting.  *)
(***************************************************************************)
EXTENDS ModbusCritical, TLAPS

\* The count is the depth of the context that runs, all others being outside.
Counted ==
    /\ nesting = depth[running]
    /\ \A c \in Contexts : c # running => depth[c] = 0

\* Interrupts are masked inside a section and inside other code's own, and
\* the first section of the nest saved which of the two it is.
MaskKnown ==
    /\ primask <=> (nesting > 0 \/ outer)
    /\ nesting > 0 => (saved <=> outer)

\* A context that was taken off the processor between reading PRIMASK and
\* masking had found interrupts unmasked, as they are when it comes back.
ReadHolds ==
    \A c \in Contexts :
        pc[c] = "enter" => (ulPrimask[c] <=> (c = running /\ primask))

IInv == CritTypeOK /\ Counted /\ MaskKnown /\ ReadHolds

LEMMA InitIInv == CritInit => IInv
<1> SUFFICES ASSUME CritInit PROVE IInv
  OBVIOUS
<1>1. primask \in BOOLEAN /\ saved \in BOOLEAN /\ outer \in BOOLEAN
  BY Zenon DEF CritInit
<1>2. CritTypeOK
  BY <1>1 DEF CritInit, CritTypeOK
<1>3. Counted /\ MaskKnown /\ ReadHolds
  BY DEF CritInit, Counted, MaskKnown, ReadHolds
<1>4. QED
  BY <1>2, <1>3 DEF IInv

LEMMA TypeStep == IInv /\ [CritNext]_critVars => CritTypeOK'
<1> SUFFICES ASSUME IInv, [CritNext]_critVars PROVE CritTypeOK'
  OBVIOUS
<1>0. CritTypeOK
  BY DEF IInv
<1>1. ASSUME NEW c \in Contexts, Switch(c) PROVE CritTypeOK'
  BY <1>0, <1>1 DEF Switch, CritTypeOK
<1>2. CASE EnterRead
  BY <1>0, <1>2 DEF EnterRead, CritTypeOK
<1>3. CASE EnterMask
  <2>1. primask' \in BOOLEAN
    BY <1>3, Zenon DEF EnterMask
  <2>2. saved' \in BOOLEAN
    BY <1>0, <1>3 DEF EnterMask, Saved, CritTypeOK
  <2>3. QED
    BY <1>0, <1>3, <2>1, <2>2 DEF EnterMask, CritTypeOK
<1>4. CASE Exit
  <2>1. primask' \in BOOLEAN
    <3>1. Masked \in BOOLEAN
      BY DEF Masked
    <3>2. QED
      BY <1>0, <1>4, <3>1 DEF Exit, CritTypeOK
  <2>2. nesting' \in Nat /\ depth' \in [Contexts -> Nat]
    BY <1>0, <1>4 DEF Exit, CritTypeOK
  <2>3. QED
    BY <1>0, <1>4, <2>1, <2>2 DEF Exit, CritTypeOK
<1>5. CASE OuterMask \/ OuterUnmask
  <2>1. outer' \in BOOLEAN /\ primask' \in BOOLEAN
    BY <1>5, Zenon DEF OuterMask, OuterUnmask
  <2>2. QED
    BY <1>0, <1>5, <2>1 DEF OuterMask, OuterUnmask, CritTypeOK
<1>6. CASE UNCHANGED critVars
  BY <1>0, <1>6 DEF critVars, CritTypeOK
<1>7. QED
  BY <1>1, <1>2, <1>3, <1>4, <1>5, <1>6 DEF CritNext

LEMMA PartsStep == IInv /\ [CritNext]_critVars => Counted' /\ MaskKnown' /\ ReadHolds'
<1> SUFFICES ASSUME IInv, [CritNext]_critVars PROVE Counted' /\ MaskKnown' /\ ReadHolds'
  OBVIOUS
<1> USE DEF CritTypeOK, Counted, MaskKnown, ReadHolds
<1>0. CritTypeOK /\ Counted /\ MaskKnown /\ ReadHolds
  BY DEF IInv
<1>1. ASSUME NEW c \in Contexts, Switch(c) PROVE Counted' /\ MaskKnown' /\ ReadHolds'
  BY <1>0, <1>1 DEF Switch
<1>2. CASE EnterRead
  BY <1>0, <1>2 DEF EnterRead
<1>3. CASE EnterMask
  <2>1. Counted'
    BY <1>0, <1>3 DEF EnterMask
  <2>2. MaskKnown'
    BY <1>0, <1>3 DEF EnterMask, Saved
  <2>3. ReadHolds'
    BY <1>0, <1>3 DEF EnterMask
  <2>4. QED
    BY <2>1, <2>2, <2>3
<1>4. CASE Exit
  <2>1. Counted'
    BY <1>0, <1>4 DEF Exit
  <2>2. MaskKnown'
    BY <1>0, <1>4 DEF Exit, Masked
  <2>3. ReadHolds'
    <3>1. ASSUME NEW c \in Contexts, pc[c] = "enter"
          PROVE  c # running /\ ~ulPrimask[c]
      BY <1>0, <1>4, <3>1 DEF Exit
    <3>2. UNCHANGED <<pc, ulPrimask, running>>
      BY <1>4 DEF Exit
    <3>3. QED
      BY <3>1, <3>2
  <2>4. QED
    BY <2>1, <2>2, <2>3
<1>5. CASE OuterMask
  BY <1>0, <1>5 DEF OuterMask
<1>6. CASE OuterUnmask
  BY <1>0, <1>6 DEF OuterUnmask
<1>7. CASE UNCHANGED critVars
  BY <1>0, <1>7 DEF critVars
<1>8. QED
  BY <1>1, <1>2, <1>3, <1>4, <1>5, <1>6, <1>7 DEF CritNext

LEMMA Inductive == CritSpec => []IInv
<1>1. IInv /\ [CritNext]_critVars => IInv'
  BY TypeStep, PartsStep DEF IInv
<1>2. QED
  BY InitIInv, <1>1, PTL DEF CritSpec

\* Type correctness of the critical sections.
THEOREM CriticalTypeCorrect == CritSpec => []CritTypeOK
BY Inductive, PTL DEF IInv

\* No two contexts are in critical sections at once, and whoever is in one
\* keeps the processor: a task switch cannot come between entry and exit, so
\* that one saved PRIMASK is enough for all of them (modbus_port.c:21-22).
THEOREM SectionsExclude == CritSpec => []Exclusive
<1>1. IInv => Exclusive
  BY DEF IInv, Counted, MaskKnown, Exclusive, CritTypeOK
<1>2. QED
  BY Inductive, <1>1, PTL

\* Once all sections are left, interrupts are masked exactly if other code
\* masked them, however deep the sections were nested and wherever an
\* interrupt came between reading and setting the mask.
THEOREM MaskIsRestored == CritSpec => []Restored
<1>1. IInv => Restored
  BY DEF IInv, Counted, MaskKnown, Restored, CritTypeOK
<1>2. QED
  BY Inductive, <1>1, PTL

=============================================================================
