------------------------- MODULE MCDataDestinations -------------------------
(* Instances of DataDestinations for TLC. *)
EXTENDS DataDestinations, TLC

CONSTANTS s1, s2, n1, n2, w1

\* Every pipe has a name of its own: no node name is used again after a drop.
OwnNames == s1 :> n1 @@ s2 :> n2

\* A single connection.
OneName == s1 :> n1

\* A node is dropped and another one of the same name connects.
SameName == s1 :> n1 @@ s2 :> n1

\* How often the goroutine writes.
TwoWrites == w1 :> 2
=============================================================================
