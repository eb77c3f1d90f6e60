------------------------------- MODULE MCFees -------------------------------
EXTENDS Fees, FeeCases

CONSTANTS a1, a2, o1
=============================================================================
