----------------------------- MODULE MCBoundary ------------------------------
\* Two tenants, two keys, two calls that overlap or do not.
EXTENDS Boundary, TLC

CONSTANTS t1, t2, c1, c2

MCSymmetry == Permutations(Calls) \cup Permutations(Tenants)

\* A role that row-level security binds, and one that bypasses it with calls that overlap or do not.
MCRegimes == {<<TRUE, FALSE>>, <<FALSE, FALSE>>, <<FALSE, TRUE>>}
=============================================================================
