------------------------------ MODULE MCSession ------------------------------
EXTENDS Session, TLC

CONSTANTS l1, l2, u1, u2

\* Two spellings of one mailbox.
MCStrip == [a \in {"op", "op_"} |-> "op"]

MCSymmetry == Permutations(Links) \cup Permutations(Redeemers)
=============================================================================
