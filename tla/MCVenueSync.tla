---------------------------- MODULE MCVenueSync ----------------------------
(***************************************************************************)
(* Small instances of VenueSync for TLC.                                    *)
(***************************************************************************)
EXTENDS VenueSyncRequirements, TLC

\* Orders are interchangeable, and so are operators.
Symmetry == Permutations(Orders) \cup Permutations(Operators)
=============================================================================
