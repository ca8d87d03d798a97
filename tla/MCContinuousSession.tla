------------------------ MODULE MCContinuousSession ------------------------
EXTENDS ContinuousSession, TLC

CONSTANTS a, b

SwapIds == Permutations({a, b})
=============================================================================
