------------------------------- MODULE MCRing -------------------------------
(***************************************************************************)
(* Small instances of Ring for TLC.                                        *)
(***************************************************************************)
EXTENDS Ring

CONSTANTS p1, p2, p3

(* Two packages and one the reader has no room for. *)
MCDataLen ==
  [p \in Pkg |-> CASE p = p1 -> 1 [] p = p2 -> 2 [] p = p3 -> 3]

=============================================================================
