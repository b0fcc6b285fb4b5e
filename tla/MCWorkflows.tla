---------------------------- MODULE MCWorkflows ------------------------------
\* Two runs, two decisions, one call that may be reported twice, a listing on either
\* side of the luxury price.
EXTENDS Workflows, TLC

CONSTANTS r1, r2, d1, d2

S(p, n, h) == [positive |-> p, negative |-> n, hot |-> h]
MCTranscripts == {<<>>, <<S(TRUE, FALSE, FALSE), S(FALSE, TRUE, TRUE)>>,
                  <<S(FALSE, TRUE, FALSE)>>}

L(active, address, price) == [active |-> active, address |-> address, price |-> price]
MCMlsStates == {Gone, L(TRUE, TRUE, 750000), L(TRUE, TRUE, 749999), L(TRUE, TRUE, None)}

MCRegimes == {[llm |-> FALSE, faults |-> FALSE, overlap |-> TRUE],
              [llm |-> FALSE, faults |-> TRUE, overlap |-> FALSE],
              [llm |-> FALSE, faults |-> TRUE, overlap |-> TRUE],
              [llm |-> TRUE, faults |-> FALSE, overlap |-> FALSE]}
=============================================================================
