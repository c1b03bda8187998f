---------------------------- MODULE MCSendBulk ----------------------------
(* Instances of SendBulk small enough for TLC. *)
EXTENDS SendBulk

NoneOrTwo == {0, 2}
=============================================================================
