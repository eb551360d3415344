---------------------------- MODULE MCAgentRunner ----------------------------
\* Model values for AgentRunner, see the MCAgentRunner*.cfg files.
EXTENDS AgentRunner, TLC

Symmetry == Permutations(Calls)
=============================================================================
