---------------------------- MODULE MCToolServer ----------------------------
(* Two calls, each of any tool, with every interleaving of their steps.       *)
EXTENDS ToolServer, TLC
=============================================================================
