------------------------- MODULE MCIsolationLevels -------------------------
EXTENDS IsolationLevels, TLC

AllLevels == IsolationLevel
RepeatableLevel == {REPEATABLE_READ}
KeySymmetry == Permutations(Keys)
=============================================================================
