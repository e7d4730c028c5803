---------------------------- MODULE MCForkServer ----------------------------
EXTENDS ForkServer

MCPids == 1..2
=============================================================================
