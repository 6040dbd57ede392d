------------------------------ MODULE MCListing ------------------------------
(***************************************************************************)
(* Model-checking instance of Listing: four actions, pages of two, so a   *)
(* scan takes several pages and rows can arrive or leave between them.    *)
(***************************************************************************)
EXTENDS Listing, TLC

CONSTANTS i1, i2, i3, i4

FourIds == {i1, i2, i3, i4}

\* Action ids are interchangeable uuid4 values.
IdSymmetry == Permutations(Ids)

=============================================================================
