------------------------------ MODULE MCGmail ------------------------------
(***************************************************************************)
(* TLC instances of Gmail.                                                 *)
(***************************************************************************)
EXTENDS Gmail

\* The value of Request that RequestAssumption asks for.
CallRequests == [call : Call, item : Item]
=============================================================================
