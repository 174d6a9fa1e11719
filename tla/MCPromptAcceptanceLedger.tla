---------------------- MODULE MCPromptAcceptanceLedger ----------------------
\* The nonces are interchangeable.
EXTENDS PromptAcceptanceLedger, TLC

NonceSymmetry == Permutations(Nonces)
=============================================================================
