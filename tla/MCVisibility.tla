---------------------------- MODULE MCVisibility ----------------------------
(* Instances of Visibility for TLC.                                        *)
EXTENDS Visibility
=============================================================================
