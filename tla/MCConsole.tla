------------------------------ MODULE MCConsole ------------------------------
(* The command line, the core and a few tasks.                             *)
EXTENDS Console

CONSTANTS t1, t2

MCPrinters == Tasks \cup {"cli", "core"}
=============================================================================
