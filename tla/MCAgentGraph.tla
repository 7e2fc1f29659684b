----------------------------- MODULE MCAgentGraph -----------------------------
(* Two blocks, one of them with a figure, and two questions on a thread.      *)
EXTENDS AgentGraph, TLC

CONSTANTS table, prose

TheBlocks == {table, prose}
TheFigures == {table}

===============================================================================
