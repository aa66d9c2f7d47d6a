----------------------------- MODULE MCRootList -----------------------------
(* Instances of RootList for TLC. *)
EXTENDS RootList
=============================================================================
