------------------------------ MODULE MCSession ------------------------------
(* Small instances of ClientSession. *)
EXTENDS ClientSession
=============================================================================
