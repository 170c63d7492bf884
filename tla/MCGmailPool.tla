---------------------------- MODULE MCGmailPool ----------------------------
(***************************************************************************)
(* TLC instance of GmailPool and of its refinement of RequestService.      *)
(***************************************************************************)
EXTENDS GmailPoolService

CONSTANTS r1, r2, r3

\* The requests.
ThreeRequests == {r1, r2, r3}
=============================================================================
