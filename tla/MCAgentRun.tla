------------------------------- MODULE MCAgentRun -------------------------------
EXTENDS AgentRun

CONSTANTS order, refund, ghost
================================================================================
