-------------------------- MODULE MCOutboxDispatch --------------------------
(* A small instance of OutboxDispatch: three events of two topics.         *)
EXTENDS OutboxDispatch, TLC

CONSTANTS bob, d1, d2

\* 1: an event its handler rejects, of the first topic; 2: a personal event of
\* the same topic, for bob; 3: an announcement by somebody else.
ThreeEvents == 1..3
ThreeTopics == 1 :> 1 @@ 2 :> 1 @@ 3 :> 2
ThreeNamed  == 1 :> {} @@ 2 :> {bob} @@ 3 :> {}
SameTime    == [e \in ThreeEvents |-> 0]
=============================================================================
