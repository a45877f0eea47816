------------------------------ MODULE MCSession ------------------------------
(***************************************************************************)
(* Small instances of Session for TLC.                                     *)
(***************************************************************************)
EXTENDS Session, TLC

CONSTANTS ann, bob

TwoNames == {ann, bob}
=============================================================================
