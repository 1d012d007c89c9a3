-------------------------- MODULE MCOutboundGuards --------------------------
EXTENDS OutboundGuards, TLC

MCSymmetry == Permutations(Turns)
=============================================================================
