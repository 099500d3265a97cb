------------------------------ MODULE MCLoader ------------------------------
(***************************************************************************)
(* Loader for TLC: two ids, an ordinary and an oversized tag, and the     *)
(* claim limit scaled down to 1.                                           *)
(***************************************************************************)
EXTENDS Loader
CONSTANTS GPU, LONG
MCClaimLists == {<<>>, <<GPU>>, <<GPU, LONG>>, <<Bad>>}
=============================================================================
