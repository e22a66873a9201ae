---------------------------- MODULE MCAgentRun ----------------------------
EXTENDS AgentRun
CONSTANTS o1, o2, o3, o4, a1
=============================================================================
