------------------------------- MODULE MCImap -------------------------------
(* Values of Imap's constants for TLC. *)
EXTENDS Imap

CONSTANTS inbox, archive

TwoFolders == {inbox, archive}
=============================================================================
