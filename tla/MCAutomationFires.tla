------------------------- MODULE MCAutomationFires -------------------------
\* Instances of AutomationFires for TLC; the .cfg files give the bounds.
EXTENDS AutomationFires
CONSTANTS s1, e1, e2
OneSlot == {s1}
NoFires == {}
TwoEvents == {e1, e2}
Alike == Permutations(TwoEvents)
=============================================================================
