----------------------------- MODULE MCKeyHistory -----------------------------
(***************************************************************************)
(* Instances of KeyHistory for TLC.                                        *)
(***************************************************************************)
EXTENDS KeyHistory, TLC

\* uuids are only compared, and no uuid is distinguished: any two may be swapped
KeySymmetry == Permutations(Keys)

=============================================================================
