------------------------------- MODULE MCFocus -------------------------------
(* Focus, instantiated by the Focus_*.cfg configurations.                  *)
EXTENDS Focus
=============================================================================
