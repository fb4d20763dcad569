--------------------------- MODULE MCSafeSuspend ---------------------------
(***************************************************************************)
(* Small instances of SafeSuspend for TLC.                                 *)
(***************************************************************************)
EXTENDS SafeSuspendInv

CONSTANTS t1, t2, t3
=============================================================================
