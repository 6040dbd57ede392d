------------------------------ MODULE MCClient ------------------------------
(***************************************************************************)
(* Model-checking instance of Client: the default ClientConfig            *)
(* (max_retries = 3) and enough ids for every attempt to mint one.        *)
(***************************************************************************)
EXTENDS Client, TLC

CONSTANTS i1, i2, i3, i4

FourIds == {i1, i2, i3, i4}

TwoIds == {i1, i2}

ThreeIds == {i1, i2, i3}

\* Action ids are interchangeable uuid4 values.
IdSymmetry == Permutations(Ids)

=============================================================================
