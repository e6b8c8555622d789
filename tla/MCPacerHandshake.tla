-------------------------- MODULE MCPacerHandshake --------------------------
EXTENDS PacerHandshake, TLC

CONSTANTS c0, c1, c2, c3

=============================================================================
