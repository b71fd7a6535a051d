----------------------------- MODULE MCDisputeDesk -----------------------------
\* DisputeDesk for TLC; the agents are interchangeable.
EXTENDS DisputeDesk, TLC

AgentSymmetry == Permutations(Agents)
=============================================================================
