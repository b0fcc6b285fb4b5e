----------------------------- MODULE MCApprovals -----------------------------
EXTENDS Approvals, TLC

CONSTANTS r1, r2, d1, d2, d3
=============================================================================
