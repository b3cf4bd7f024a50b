----------------------------- MODULE MCFuelTank -----------------------------
EXTENDS FuelTank

\* Four transactions of 3, 0, 2 and 5 bytes: one without a message between
\* two that may have one, and shares that do not divide evenly.
MCSizeFrom == <<10, 7, 7, 5, 0>>
=============================================================================
