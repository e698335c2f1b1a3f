---------------------------- MODULE MCRelyingParty ----------------------------
(* Two parties and two intents.                                             *)
EXTENDS RelyingParty, TLC

CONSTANTS p1, p2

TwoParties == {p1, p2}
OneIntent == {"intent"}

PartySymmetry == Permutations(TwoParties)
=============================================================================
