---------------------------- MODULE MCEntryCleaner ----------------------------
(***************************************************************************)
(* An instance of EntryCleaner for TLC: two nodes with one place each in   *)
(* the database; the first one's agent would take two.                      *)
(***************************************************************************)
EXTENDS EntryCleaner, TLC

MCMaxUsers == [n \in Nodes |-> 1]
MCAgentMax == [n \in Nodes |-> 3 - n]
CustomerSymmetry == Permutations(Customers)

=============================================================================
