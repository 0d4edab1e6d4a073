------------------------------- MODULE MCPmm -------------------------------
(* Model-checking instance of Pmm: any caller, a memory that is not a power *)
(* of two long, so that the last block has no buddy.                        *)
EXTENDS Pmm
=============================================================================
