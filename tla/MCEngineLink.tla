----------------------------- MODULE MCEngineLink -----------------------------
(***************************************************************************)
(* EngineLink for TLC: small libraries.                                    *)
(***************************************************************************)
EXTENDS EngineLink
CONSTANTS t1, t2, t3

One == <<t1>>
Later == <<t2>>
Two == <<t1, t2>>
Three == <<t1, t2, t3>>
=============================================================================
