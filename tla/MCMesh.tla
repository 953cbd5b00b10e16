------------------------------- MODULE MCMesh -------------------------------
(* Small instances of the services of the mesh.                             *)
EXTENDS MeshServices

CONSTANTS w1, w2, a, b, c

OwnHome == [n \in Peers |-> n]
=============================================================================
