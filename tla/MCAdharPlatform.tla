-------------------------- MODULE MCAdharPlatform --------------------------
(* Instances of AdharPlatform for TLC.                                     *)
EXTENDS AdharPlatform
=============================================================================
