--------------------------- MODULE MC_Warehouse ---------------------------
(* Model-checking instance of Warehouse: two concurrent requests, three   *)
(* requests in all, one project with two warehouse names, so that two     *)
(* creates race for a name and a later one finds it taken.                *)
EXTENDS Warehouse

CONSTANTS c1, c2, w1, w2, w3, p1, n1, n2, s1, s2, s3

MCClients == {c1, c2}
MCWhIds == {w1, w2, w3}
MCProjects == {p1}
MCWhNames == {n1, n2}
MCSecrets == {s1, s2, s3}
=============================================================================
