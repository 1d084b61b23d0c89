---------------------------- MODULE MCRapsTimer ----------------------------
(* RapsTimer with a few timer names, handed out again once out of use.      *)
EXTENDS RapsTimer
=============================================================================
