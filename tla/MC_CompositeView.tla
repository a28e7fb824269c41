-------------------------- MODULE MC_CompositeView --------------------------
(***************************************************************************)
(* A small instance of CompositeView: one key with two values, so that a   *)
(* lost or reordered entry shows; two or three locations, so that the      *)
(* frozen state goes to a location other than the persistent one.          *)
(***************************************************************************)
EXTENDS CompositeView

MCKey == {1}
MCRanges == {<< <<"NegativeInf">>, <<"PositiveInf">> >>}
=============================================================================
