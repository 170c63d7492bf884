------------------------------- MODULE MCSmtp -------------------------------
(* Values of Smtp's constants for TLC. *)
EXTENDS Smtp

\* A server may announce more, or other things, after STARTTLS.
UsualCapabilities ==
  {[starttls |-> TRUE, size |-> "limit", auth |-> FALSE],
   [starttls |-> TRUE, size |-> "bare", auth |-> TRUE],
   [starttls |-> FALSE, size |-> "absent", auth |-> TRUE]}

AllRefusals == {"CONNECT", "EHLO", "STARTTLS", "AUTH", "MAIL", "RCPT", "DATA", "TEXT"}
=============================================================================
