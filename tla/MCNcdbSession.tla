------------------------------ MODULE MCNcdbSession ------------------------------
(* Instances of NcdbSession: one archive with two scopes and one excluded bin. *)
EXTENDS NcdbSession, TLC

CONSTANTS cg0, cg1

MCStored == {Members, {"tests", "testplan"}}
MCTree == << cg0, cg1 >>
SessionSymmetry == Permutations(Sessions)

==============================================================================
