--------------------------- MODULE MCBallsExample ---------------------------
EXTENDS BallsExample, TLC

Symmetry == Permutations(Ball) \cup Permutations(State)
=============================================================================
