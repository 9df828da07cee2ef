----------------------------- MODULE MCAutograd -----------------------------
(***************************************************************************)
(* Autograd over every graph of a few functions.                           *)
(***************************************************************************)
EXTENDS Autograd

AllKinds == {"kernel", "add", "view", "split"}
=============================================================================
