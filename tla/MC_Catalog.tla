---------------------------- MODULE MC_Catalog ----------------------------
(* Model-checking instance of Catalog: two concurrent requests, three     *)
(* table ids, two namespaces with two names each, two locations.          *)
EXTENDS Catalog, TLC

CONSTANTS c1, c2, u1, u2, u3, ns1, ns2, n1, n2

MCClients == {c1, c2}
MCUuids == {u1, u2, u3}
MCNamespaces == {ns1, ns2}
MCNames == {n1}

(* Two names and two ids, for the run on writes by a stale id: a rename  *)
(* within one namespace changes a row only when the names differ.        *)
MCNamesTwo == {n1, n2}
MCUuidsTwo == {u1, u2}
MCLocs == {<<"a">>, <<"b">>}

(* One requirement of each kind, with the values that make it pass or     *)
(* fail: UuidMatch of the first minted id, AssertRefSnapshotId of "no     *)
(* snapshot" and of the first snapshot.                                   *)
MCRequirements ==
    {[kind |-> "none"], [kind |-> "not_exist"],
     [kind |-> "uuid_match", uuid |-> u1],
     [kind |-> "ref_snapshot_id", snap |-> 0],
     [kind |-> "ref_snapshot_id", snap |-> 1]}

MCUpdates ==
    {[kind |-> "add_snapshot"],
     [kind |-> "assign_uuid", uuid |-> u1],
     [kind |-> "set_location", location |-> <<"a">>]}

MCSymmetry == Permutations(MCClients)
=============================================================================
