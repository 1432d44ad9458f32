------------------------------ MODULE MCTokens ------------------------------
(***************************************************************************)
(* One sign-in, by a parent, by the demo account or by a reviewer, on two  *)
(* instances whose clocks disagree.  One of the clocks is right: what all  *)
(* instances are ahead by is seen by nobody.                               *)
(***************************************************************************)
EXTENDS Tokens, TLC

\* What is only ever compared for equality.
Alike == Permutations(Calls) \cup Permutations(Instances)

OneIsRight == Init /\ \E i \in Instances : ahead[i] = 0

MCSpec == OneIsRight /\ [][Next]_vars
=============================================================================
