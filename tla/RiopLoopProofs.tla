---------------------------- MODULE RiopLoopProofs ----------------------------
(***************************************************************************)
(* Every operation of the application loop keeps the types of its          *)
(* variables, whatever it is composed with.                                *)
(***************************************************************************)
EXTENDS RiopLoop, TLAPS

\* Every period is over before the cycle counter wraps.
LEMMA PeriodType == ASSUME NEW m PROVE PeriodOf(m) \in Nat /\ PeriodOf(m) + 1 < CycleWrap
BY LoopAssumption DEF PeriodOf

LEMMA TimeType == Time \in Nat /\ Time + 1 < CycleWrap
BY PeriodType, LoopAssumption DEF Time

\* A remainder is below its divisor.
LEMMA Remainder == ASSUME NEW n \in Nat, NEW k \in Nat \ {0} PROVE n % k \in 0..(k - 1)
OBVIOUS

\* A step keeps the position in the cycle, the counters and the time left over
\* within their bounds.
LEMMA LoopStepType == LoopTypeOK /\ LoopStep => LoopTypeOK'
<1> SUFFICES ASSUME LoopTypeOK, LoopStep PROVE LoopTypeOK'
  OBVIOUS
<1>1. elapsed' \in 0..(CycleWrap - 1)
  <2>1. elapsed > Time /\ elapsed' = elapsed - Time /\ elapsed \in 0..(CycleWrap - 1)
    BY DEF LoopStep, LoopDue, LoopTypeOK
  <2>2. QED
    BY <2>1, TimeType, LoopAssumption
<1>2. fsm' \in 0..5
  <2>1. fsm' = NextFsm
    BY DEF LoopStep
  <2>2. (IF ModeChanged THEN 0 ELSE fsm) \in 0..5
    BY DEF LoopTypeOK
  <2>3. QED
    BY <2>1, <2>2 DEF NextFsm
<1>3. pass' \in [{0, 3} -> 0..(LvEvery - 1)]
  <2>1. pass' = NextPass /\ pass \in [{0, 3} -> 0..(LvEvery - 1)]
    BY DEF LoopStep, LoopTypeOK
  <2>2. ASSUME NEW m \in {0, 3} PROVE (pass[m] + 1) % LvEvery \in 0..(LvEvery - 1)
    <3>1. pass[m] + 1 \in Nat
      BY <2>1, LoopAssumption
    <3>2. QED
      BY <3>1, Remainder, LoopAssumption
  <2>3. CASE fsm_mode \in {0, 3}
    <3>1. [pass EXCEPT ![fsm_mode] = (pass[fsm_mode] + 1) % LvEvery]
             \in [{0, 3} -> 0..(LvEvery - 1)]
      BY <2>1, <2>2, <2>3
    <3>2. QED
      BY <2>1, <3>1 DEF NextPass
  <2>4. CASE fsm_mode \notin {0, 3}
    BY <2>1, <2>4 DEF NextPass
  <2>5. QED
    BY <2>3, <2>4
<1>4. tim_first' \in BOOLEAN
  <2>1. tim_first' = ModeChanged
    BY DEF LoopStep
  <2>2. QED
    BY <2>1 DEF ModeChanged
<1>5. QED
  BY <1>1, <1>2, <1>3, <1>4 DEF LoopTypeOK, LoopStep, Images

LEMMA LoopInitType == LoopInit => LoopTypeOK
<1> SUFFICES ASSUME LoopInit PROVE LoopTypeOK
  OBVIOUS
<1>1. tim_first \in BOOLEAN
  BY Zenon DEF LoopInit
<1>2. image \in Images
  BY ApiAssumption, LoopAssumption DEF LoopInit, Images
<1>3. pass \in [{0, 3} -> 0..(LvEvery - 1)]
  BY LoopAssumption DEF LoopInit
<1>4. QED
  BY <1>1, <1>2, <1>3, ApiAssumption, LoopAssumption DEF LoopInit, LoopTypeOK

LEMMA LoopPollType == LoopTypeOK /\ LoopPoll => LoopTypeOK'
<1> SUFFICES ASSUME LoopTypeOK, LoopPoll PROVE LoopTypeOK'
  OBVIOUS
<1>1. tim_first' \in BOOLEAN
  BY Zenon DEF LoopPoll
<1>2. QED
  BY <1>1 DEF LoopPoll, LoopTypeOK

LEMMA ExchangeType ==
    ASSUME LoopTypeOK, NEW m \in Modes \cup {0}, NEW i \in Images, Exchange(m, i)
    PROVE  LoopTypeOK'
BY DEF Exchange, modeVars, LoopTypeOK

LEMMA LoopWaitsType == ASSUME LoopTypeOK, NEW n \in Nat, LoopWaits(n) PROVE LoopTypeOK'
<1>1. elapsed' \in 0..(CycleWrap - 1)
  <2>1. CycleWrap \in Nat \ {0} /\ elapsed + n \in Nat
    BY LoopAssumption DEF LoopTypeOK
  <2>2. QED
    BY <2>1, Remainder DEF LoopWaits
<1>2. QED
  BY <1>1 DEF LoopWaits, modeVars, LoopTypeOK

=============================================================================
