--------------------------- MODULE MCRemoteClusters ---------------------------
(* Small instances of RemoteClusters for TLC. *)
EXTENDS RemoteClusters

CONSTANT c1

\* Every secret has the same cluster.
SharedData == [s \in Secrets |-> {c1}]

\* IDs that occur only in the names of their own controllers.
OwnNames == {<<c, c>> : c \in Clusters}
=============================================================================
