------------------------------ MODULE MCIntake -------------------------------
\* One listing and a demo dataset of two, two requests.
EXTENDS Intake, TLC

CONSTANTS l1, d1, d2, r1, r2

MCDemoTxns == <<d1, d2>>
MCSymmetry == Permutations(Reqs)

\* The demo with anything going on, a brokerage where uploads may overlap or not.
MCRegimes == {<<TRUE, FALSE>>, <<FALSE, FALSE>>, <<FALSE, TRUE>>}
=============================================================================
