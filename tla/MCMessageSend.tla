---------------------------- MODULE MCMessageSend ----------------------------
EXTENDS MessageSend, TLC

CONSTANTS h1, h2, h3, h4

MCContent == [m \in {"d"} |-> "secret"]
MCNoContent == [m \in {} |-> "plain"]
HandlerSymmetry == Permutations(Handlers)
=============================================================================
