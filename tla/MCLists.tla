------------------------------- MODULE MCLists -------------------------------
(* Lists, instantiated by the Lists_*.cfg configurations.                  *)
EXTENDS Lists
=============================================================================
