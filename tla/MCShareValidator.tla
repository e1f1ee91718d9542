-------------------------- MODULE MCShareValidator --------------------------
EXTENDS ShareValidator, TLC

BothCoins == {"BCH", "XEC"}
Jobs == [BCH |-> 3, XEC |-> 2]
Height == [BCH |-> 2, XEC |-> 1]

\* The sessions are interchangeable, and so are the refreshers.
Symmetry == Permutations(Validators) \cup Permutations(Refreshers)
=============================================================================
