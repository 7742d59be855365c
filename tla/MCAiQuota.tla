------------------------------ MODULE MCAiQuota ------------------------------
(* Keys, proxies and symmetry for TLC.                                               *)
EXTENDS AiQuota, TLC

TwoKeys  == <<"key1", "key2">>
OneProxy == <<"direct">>

MessageSymmetry == Permutations(Messages)

=============================================================================
