---------------------------- MODULE MCSessionTick ----------------------------
(***************************************************************************)
(* Small libraries for the model checker.                                  *)
(***************************************************************************)
EXTENDS SessionTick
CONSTANTS t1, t2, t3

Empty == <<>>
One == <<t1>>
Two == <<t1, t2>>
Three == <<t1, t2, t3>>
=============================================================================
