----------------------------- MODULE MCJobSend -----------------------------
(* Instances of JobSend small enough for TLC. *)
EXTENDS JobSend

Answers == {202, 400, 429, 503}
Waits   == {NoHeader, 1, 5}
=============================================================================
