----------------------------- MODULE MCXrayAgent ------------------------------
(***************************************************************************)
(* An instance of XrayAgent for TLC: two keys of one user, one of another, *)
(* and a client that is reserved by its uuid and has the email of the      *)
(* first user.                                                             *)
(***************************************************************************)
EXTENDS XrayAgent

CONSTANTS a1, a2, b, admin, alice, bob

MCIds == {a1, a2, b, admin}
MCEmailOf == [i \in MCIds |-> IF i = b THEN bob ELSE alice]

=============================================================================
