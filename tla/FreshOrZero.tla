----------------------------- MODULE FreshOrZero -----------------------------
(***************************************************************************)
(* What the CentriFeeder link promises the EtherNet/IP side, which copies  *)
(* the two values into the input assembly without looking at "valid"       *)
(* (appl_eipTxPayloadPrepare): the values are zero, or they are a reading  *)
(* of bounded age. A reading may be renewed or withdrawn at any time, and  *)
(* must be before it exceeds the bound.                                    *)
(***************************************************************************)
EXTENDS Naturals

CONSTANT Bound

VARIABLES shown, age

Init == shown = "zero" /\ age = 0

Renew == shown' = "reading" /\ age' = 0

Withdraw == shown' = "zero" /\ age' = 0

Older ==
    /\ shown = "reading" /\ age < Bound
    /\ age' = age + 1
    /\ UNCHANGED shown

Next == Renew \/ Withdraw \/ Older

Spec == Init /\ [][Next]_<<shown, age>>

=============================================================================
