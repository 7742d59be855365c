------------------------------ MODULE MCVpnKeys ------------------------------
(***************************************************************************)
(* Instances of VpnKeys for TLC.                                           *)
(***************************************************************************)
EXTENDS VpnKeys, TLC

\* uuids are only compared, and no uuid is distinguished: any two may be swapped
KeySymmetry == Permutations(Keys)

=============================================================================
