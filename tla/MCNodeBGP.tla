----------------------------- MODULE MCNodeBGP -----------------------------
(* The instance of NodeBGP for TLC.                                        *)
EXTENDS NodeBGP

\* Bound: a device is replaced or lost, or something fails, but not both.  No step
\* that fairness asks for is of either kind, so that none is cut off.
OneOfTwo == faults + changes <= 1
=============================================================================
