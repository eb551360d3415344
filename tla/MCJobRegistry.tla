---------------------------- MODULE MCJobRegistry ----------------------------
\* Model values for JobRegistry, see MCJobRegistry.cfg.
EXTENDS JobRegistry, TLC

Symmetry == Permutations(Runners)
=============================================================================
