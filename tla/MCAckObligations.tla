-------------------------- MODULE MCAckObligations --------------------------
\* Prompts are interchangeable, and so are the redrives.
EXTENDS AckObligations, TLC

CallSymmetry == Permutations(Prompts) \cup Permutations(Redrives)
=============================================================================
