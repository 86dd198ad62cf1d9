------------------------------ MODULE MCGateway ------------------------------
(***************************************************************************)
(* Gateway for TLC: model values for ids, and the symmetry of ids that the *)
(* code only compares for equality.                                        *)
(***************************************************************************)
EXTENDS Gateway, TLC

IdSymmetry ==
    Permutations(Challenge) \cup Permutations(Request) \cup Permutations(Tx)
        \cup Permutations(Handler) \cup Permutations(Cron)
=============================================================================
