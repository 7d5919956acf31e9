----------------------------- MODULE ApiRiopProofs ----------------------------
(***************************************************************************)
(* Lemmas about the queues that the tasks share.                           *)
(***************************************************************************)
EXTENDS ApiRiop, SequenceTheorems, TLAPS

\* A send keeps a queue a queue of its elements, no longer than its bound.
LEMMA SentType ==
    ASSUME NEW S, NEW q \in Seq(S), Len(q) <= QueueLen, NEW e \in S
    PROVE  Sent(q, e) \in Seq(S) /\ Len(Sent(q, e)) <= QueueLen
BY ApiAssumption DEF Sent

\* So does taking its first element, which is one of them.
LEMMA TakenType ==
    ASSUME NEW S, NEW q \in Seq(S), Len(q) <= QueueLen, q # <<>>
    PROVE  Head(q) \in S /\ Tail(q) \in Seq(S) /\ Len(Tail(q)) <= QueueLen
BY HeadTailProperties, ApiAssumption

=============================================================================
