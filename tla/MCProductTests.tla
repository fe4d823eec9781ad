--------------------------- MODULE MCProductTests ---------------------------
(* Instances of ProductTests for TLC. *)
EXTENDS ProductTests

NoSecrets == [t \in Tests |-> NoSecret]

\* The first test is skipped, the second needs a secret that may exist already.
MixedSecrets == <<Unset, "s", NoSecret>>

Second == {2}
None == {}

=============================================================================
