--------------------------- MODULE AtomicCatalog ---------------------------
(***************************************************************************)
(* What the table catalog promises its clients, with every request one    *)
(* atomic step on the "table" relation (spec sections 4 and 8):           *)
(*   - a table is created under a fresh id, and takes the name of a       *)
(*     staged table only;                                                 *)
(*   - a commit of several tables installs new metadata in all of them at *)
(*     once; each keeps its uuid and location and every snapshot it had,  *)
(*     and is no longer staged;                                           *)
(*   - a rename moves one live table to an identifier no other live table *)
(*     has;                                                               *)
(*   - a drop removes one live table.                                     *)
(* Module Catalog splits commits and writes by id into a read and a write *)
(* step; it implements this specification at REPEATABLE READ.            *)
(***************************************************************************)
EXTENDS Naturals

CONSTANTS Uuids, Namespaces, Names, Locs, MaxSnaps, NoRow

VARIABLE tbl

Ident == [ns : Namespaces, name : Names]

SnapId == 1..MaxSnaps

Metadata == [uuid : Uuids, location : Locs,
             snaps : SUBSET SnapId, main : SnapId \cup {0}]

Row == [ns : Namespaces, name : Names, loc : Locs,
        staged : BOOLEAN, meta : Metadata]

IdentOf(r) == [ns |-> r.ns, name |-> r.name]

Live == {u \in Uuids : tbl[u] # NoRow}

Init == tbl = [u \in Uuids |-> NoRow]

(* A fresh table u named t at location loc, replacing the staged tables   *)
(* of that name.                                                          *)
Create(t, loc, staged, u) ==
    LET old == {v \in Live : IdentOf(tbl[v]) = t}
    IN  /\ tbl[u] = NoRow
        /\ \A v \in old : tbl[v].staged
        /\ tbl' = [v \in Uuids |->
                     IF v = u
                     THEN [ns |-> t.ns, name |-> t.name, loc |-> loc,
                           staged |-> staged,
                           meta |-> [uuid |-> u, location |-> loc,
                                     snaps |-> {}, main |-> 0]]
                     ELSE IF v \in old THEN NoRow ELSE tbl[v]]

(* The metadata m may replace that of row r: same uuid and location, and *)
(* no snapshot dropped.                                                   *)
Extends(m, u, r) ==
    /\ m.uuid = u
    /\ m.location = r.loc
    /\ r.meta.snaps \subseteq m.snaps

(* The live tables of S all take new metadata at once, and no other      *)
(* table changes.  The new metadata is read off the next state, so that   *)
(* this action is a condition on a step (it is checked as a property of   *)
(* the steps of Catalog, never run by itself).                            *)
Commit(S) ==
    /\ S \subseteq Live
    /\ DOMAIN tbl' = Uuids
    /\ \A u \in Uuids \ S : tbl'[u] = tbl[u]
    /\ \A u \in S : /\ tbl'[u] \in Row
                    /\ Extends(tbl'[u].meta, u, tbl[u])
                    /\ tbl'[u] = [tbl[u] EXCEPT !.meta = tbl'[u].meta,
                                                !.staged = FALSE]

Rename(u, t) ==
    /\ u \in Live
    /\ \A v \in Live \ {u} : IdentOf(tbl[v]) # t
    /\ tbl' = [tbl EXCEPT ![u] = [@ EXCEPT !.ns = t.ns, !.name = t.name]]

Drop(u) ==
    /\ u \in Live
    /\ tbl' = [tbl EXCEPT ![u] = NoRow]

Next ==
    \/ \E t \in Ident, loc \in Locs, staged \in BOOLEAN, u \in Uuids :
         Create(t, loc, staged, u)
    \/ \E S \in SUBSET Uuids : Commit(S)
    \/ \E u \in Uuids, t \in Ident : Rename(u, t) \/ Drop(u)

Spec == Init /\ [][Next]_tbl

=============================================================================
