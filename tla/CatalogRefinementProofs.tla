------------------------ MODULE CatalogRefinementProofs ------------------------
(***************************************************************************)
(* Proof that module Catalog implements module AtomicCatalog when the     *)
(* write transactions run at REPEATABLE READ: every step of the catalog   *)
(* is a step of AtomicCatalog on the "table" relation, or leaves it       *)
(* unchanged.                                                             *)
(*                                                                         *)
(* The step that needs an argument is the bulk UPDATE of                  *)
(* commit_table_transaction: it writes metadata computed from an earlier  *)
(* read.  It is an AtomicCatalog commit because (1) apply_commits only    *)
(* adds snapshots to the metadata it read (PendingGrows), (2) the change  *)
(* names the row it read and keeps its uuid and location                  *)
(* (PendingConsistent of CatalogProofs), and (3) at REPEATABLE READ the   *)
(* row is still the one read when the write succeeds (NoConcurrentWrite). *)
(***************************************************************************)
EXTENDS CatalogProofs

-----------------------------------------------------------------------------
(* apply_commits only adds snapshots: every update it accepts keeps the    *)
(* snapshots of the metadata it is applied to.                            *)
LEMMA ApplyUpdateGrows ==
    ASSUME NEW up \in UpdateKind, NEW meta \in Metadata, NEW s \in SnapId,
           NEW m \in ApplyUpdate(up, meta, s)
    PROVE  meta.snaps \subseteq m.snaps
<1>1. CASE up.kind = "add_snapshot"
  <2>1. m = [meta EXCEPT !.snaps = @ \cup {s}, !.main = s]
    BY <1>1 DEF ApplyUpdate, AggregateApply
  <2>2. QED
    BY <2>1 DEF Metadata
<1>2. CASE up.kind = "assign_uuid"
  BY <1>2 DEF ApplyUpdate
<1>3. CASE up.kind = "set_location"
  BY <1>3 DEF ApplyUpdate
<1>4. QED
  BY <1>1, <1>2, <1>3 DEF UpdateKind

(* A change a commit has read but not yet written has metadata with every  *)
(* snapshot of the row it read.                                           *)
PendingGrows ==
    \A c \in Clients : req[c].pc = "commit" =>
        \A i \in DOMAIN req[c].changes :
            req[c].changes[i].base.meta.snaps \subseteq req[c].changes[i].meta.snaps

(* The invariant the refinement rests on.                                 *)
RInv == IInv /\ PendingGrows

(* PendingGrows survives a step that leaves every commit in flight alone. *)
LEMMA PendingGrowsStable ==
    ASSUME PendingGrows,
           \A c \in Clients : req'[c].pc = "commit" => req'[c] = req[c]
    PROVE  PendingGrows'
BY DEF PendingGrows

(* Every action of a client but CommitRead leaves the commits in flight  *)
(* as they were.                                                          *)
LEMMA CommitsKept ==
    ASSUME TypeOK, NEW c \in Clients,
           \/ CommitWrite(c) \/ ResolveForRename(c) \/ RenameWrite(c)
           \/ ResolveForDrop(c) \/ DropWrite(c)
    PROVE  \A d \in Clients : req'[d].pc = "commit" => req'[d] = req[d]
<1>1. CASE CommitWrite(c) \/ RenameWrite(c) \/ DropWrite(c)
  <2>1. req' = [req EXCEPT ![c] = Idle]
    BY <1>1 DEF CommitWrite, RenameWrite, DropWrite
  <2>2. QED
    BY <2>1 DEF TypeOK, Idle
<1>2. CASE ResolveForRename(c) \/ ResolveForDrop(c)
  BY <1>2 DEF ResolveForRename, ResolveForDrop, TypeOK
<1>3. QED
  BY <1>1, <1>2

LEMMA CommitReadGrows ==
    ASSUME IInv, PendingGrows, NEW c \in Clients, CommitRead(c)
    PROVE  PendingGrows'
<1>0. PICK n \in 1..MaxChanges :
      /\ snapSeq + n <= MaxSnaps
      /\ \E idents \in [1..n -> Ident] :
           LET ids == TableIdentsToIds(idents, TRUE)
           IN  /\ \A i \in 1..n : ids[i] # NoId
               /\ \E rs \in [1..n -> Requirements], us \in [1..n -> Updates] :
                  /\ \A i \in 1..n : ApplyUpdate(us[i], tbl[ids[i]].meta, snapSeq + i) # {}
                  /\ req' = [req EXCEPT ![c] =
                              [pc |-> "commit",
                               changes |-> [i \in 1..n |-> ChangeOf(ids[i], us[i], snapSeq + i)]]]
  BY DEF CommitRead
<1>1. PICK idents \in [1..n -> Ident], us \in [1..n -> Updates] :
        LET ids == TableIdentsToIds(idents, TRUE)
        IN  /\ \A i \in 1..n : ids[i] # NoId
            /\ \A i \in 1..n : ApplyUpdate(us[i], tbl[ids[i]].meta, snapSeq + i) # {}
            /\ req' = [req EXCEPT ![c] =
                        [pc |-> "commit",
                         changes |-> [i \in 1..n |-> ChangeOf(ids[i], us[i], snapSeq + i)]]]
  BY <1>0
<1> DEFINE ids == TableIdentsToIds(idents, TRUE)
           chs == [i \in 1..n |-> ChangeOf(ids[i], us[i], snapSeq + i)]
<1>2. ASSUME NEW j \in 1..n
      PROVE  chs[j].base.meta.snaps \subseteq chs[j].meta.snaps
  <2>1. ids[j] \in Live
    BY <1>1, TableIdentToIdType DEF TableIdentsToIds
  <2>2. snapSeq + j \in SnapId
    <3>1. MaxSnaps \in Nat /\ snapSeq \in 0..MaxSnaps /\ snapSeq + n <= MaxSnaps /\ n \in Nat
      BY <1>0, ConstantsAssumption DEF TypeOK, IInv
    <3>2. j \in Nat /\ 1 <= j /\ j <= n
      OBVIOUS
    <3>3. snapSeq + j \in 1..MaxSnaps
      BY <3>1, <3>2
    <3>4. QED
      BY <3>3 DEF SnapId
  <2> DEFINE meta == tbl[ids[j]].meta
             m    == CHOOSE m \in ApplyUpdate(us[j], meta, snapSeq + j) : TRUE
  <2>3. m \in ApplyUpdate(us[j], meta, snapSeq + j)
    BY <1>1
  <2>4. meta \in Metadata /\ us[j] \in UpdateKind
    BY <2>1, ConstantsAssumption DEF IInv, TypeOK, Live, Row
  <2>5. meta.snaps \subseteq m.snaps
    BY <2>2, <2>3, <2>4, ApplyUpdateGrows
  <2>6. chs[j].base = tbl[ids[j]] /\ chs[j].meta = m
    BY DEF ChangeOf
  <2>7. QED
    BY <2>5, <2>6
<1>3. SUFFICES ASSUME NEW d \in Clients, req'[d].pc = "commit",
                      NEW i \in DOMAIN req'[d].changes
               PROVE  req'[d].changes[i].base.meta.snaps
                        \subseteq req'[d].changes[i].meta.snaps
  BY DEF PendingGrows
<1>4. CASE d = c
  <2>1. req'[d].changes = chs /\ DOMAIN chs = 1..n
    BY <1>1, <1>4 DEF IInv, TypeOK
  <2>2. QED
    BY <1>2, <2>1
<1>5. CASE d # c
  <2>1. req'[d] = req[d]
    BY <1>1, <1>5 DEF IInv, TypeOK
  <2>2. QED
    BY <1>3, <2>1 DEF PendingGrows
<1>6. QED
  BY <1>4, <1>5

LEMMA InitRInv == Init => RInv
BY InitIInv DEF Init, RInv, PendingGrows, Idle

LEMMA NextRInv == RInv /\ [Next]_vars => RInv'
<1> SUFFICES ASSUME RInv, [Next]_vars PROVE RInv'
  OBVIOUS
<1>1. IInv'
  BY NextIInv DEF RInv
<1>2. CASE \E c \in Clients : CommitRead(c)
  BY <1>1, <1>2, CommitReadGrows DEF RInv
<1>3. CASE \E t \in Ident, loc \in Locs, staged \in BOOLEAN, u \in Uuids :
             CreateTable(t, loc, staged, u)
  <2>1. req' = req
    BY <1>3 DEF CreateTable
  <2>2. QED
    BY <1>1, <2>1, PendingGrowsStable DEF RInv
<1>4. ASSUME NEW c \in Clients,
             \/ CommitWrite(c) \/ ResolveForRename(c) \/ RenameWrite(c)
             \/ ResolveForDrop(c) \/ DropWrite(c)
      PROVE  RInv'
  BY <1>1, <1>4, CommitsKept, PendingGrowsStable DEF RInv, IInv
<1>5. CASE UNCHANGED vars
  BY <1>1, <1>5 DEF vars, RInv, PendingGrows
<1>6. QED
  BY <1>2, <1>3, <1>4, <1>5 DEF Next

-----------------------------------------------------------------------------
(* Each action of Catalog is a step of AtomicCatalog or leaves "table"    *)
(* unchanged.                                                             *)

(* create_table under a fresh id: the id is free, since live ids are      *)
(* minted, and the rows it overwrites are staged.                         *)
LEMMA CreateTableRefines ==
    ASSUME IInv, NEW t \in Ident, NEW loc \in Locs, NEW staged \in BOOLEAN,
           NEW u \in Uuids, CreateTable(t, loc, staged, u)
    PROVE  Atomic!Create(t, loc, staged, u)
<1>1. tbl[u] = NoRow
  BY DEF CreateTable, IInv, LiveMinted, Live
<1>2. QED
  BY <1>1 DEF CreateTable, Overwritable, Atomic!Create, Atomic!Live, Live,
              Atomic!IdentOf, IdentOf

(* The bulk UPDATE of a commit that succeeds at REPEATABLE READ: every    *)
(* row it writes is the row its change read, and takes metadata with the  *)
(* same uuid and location and more snapshots.                             *)
LEMMA CommitWriteRefines ==
    ASSUME Isolation = "repeatable_read", RInv, NEW c \in Clients,
           CommitWrite(c), tbl' # tbl
    PROVE  \E S \in SUBSET Uuids : Atomic!Commit(S)
<1> DEFINE ps  == req[c].changes
           hit == {ps[i].meta.uuid : i \in DOMAIN ps} \cap Live
<1>1. PICK pick \in [hit -> DOMAIN ps] :
        /\ NoConcurrentWrite(ps)
        /\ \A u \in hit : ps[pick[u]].meta.uuid = u
        /\ tbl' = [u \in Uuids |->
                     IF u \in hit
                     THEN [tbl[u] EXCEPT !.meta = ps[pick[u]].meta, !.staged = FALSE]
                     ELSE tbl[u]]
  BY DEF CommitWrite
<1>2. req[c].pc = "commit"
  BY DEF CommitWrite
<1>3. \A i \in DOMAIN ps : ps[i] \in Pending
  <2>1. req[c] \in [pc : {"commit"}, changes : Seq(Pending)]
    BY <1>2 DEF RInv, IInv, TypeOK, ReqState, Idle
  <2>2. QED
    BY <2>1, LenProperties
<1>4. ASSUME NEW u \in hit
      PROVE  /\ tbl'[u] \in Atomic!Row
             /\ Atomic!Extends(tbl'[u].meta, u, tbl[u])
             /\ tbl'[u] = [tbl[u] EXCEPT !.meta = tbl'[u].meta, !.staged = FALSE]
  <2> DEFINE ch == ps[pick[u]]
  <2>1. u \in Uuids /\ tbl[u] \in Row /\ pick[u] \in DOMAIN ps /\ ch \in Pending
    BY <1>1, <1>3 DEF RInv, IInv, TypeOK, Live
  <2>2. tbl'[u] = [tbl[u] EXCEPT !.meta = ch.meta, !.staged = FALSE]
    BY <1>1, <2>1
  <2>3. tbl'[u] \in Row /\ tbl'[u].meta = ch.meta
    BY <2>1, <2>2 DEF Row, Pending
  <2>4. /\ ch.meta.uuid = ch.id
        /\ ch.meta.location = ch.base.loc
        /\ ch.base.meta.snaps \subseteq ch.meta.snaps
    BY <1>2, <2>1 DEF RInv, IInv, PendingConsistent, PendingGrows
  <2>5. ch.meta.uuid = u
    BY <1>1
  <2>6. tbl[ch.id] = ch.base
    BY <1>1, <2>1 DEF NoConcurrentWrite
  <2>7. Atomic!Extends(ch.meta, u, tbl[u])
    BY <2>4, <2>5, <2>6 DEF Atomic!Extends
  <2>8. QED
    BY <2>2, <2>3, <2>7 DEF Row, Atomic!Row, Metadata, Atomic!Metadata,
                             SnapId, Atomic!SnapId
<1>5. hit \subseteq Atomic!Live
  BY DEF Live, Atomic!Live
<1>6. \A u \in Uuids \ hit : tbl'[u] = tbl[u]
  BY <1>1
<1>7. QED
  <2>1. Atomic!Commit(hit)
    BY <1>1, <1>4, <1>5, <1>6 DEF Atomic!Commit
  <2>2. hit \in SUBSET Uuids
    BY DEF Live
  <2>3. QED
    BY <2>1, <2>2

(* A rename that writes moves a live row to an identifier no other live   *)
(* row has.                                                               *)
LEMMA RenameWriteRefines ==
    ASSUME IInv, NEW c \in Clients, RenameWrite(c), tbl' # tbl
    PROVE  \E id \in Uuids, t \in Ident : Atomic!Rename(id, t)
<1> DEFINE r == req[c]
           id == r.id
<1>1. r.pc = "rename"
  BY DEF RenameWrite
<1>2. id \in Uuids /\ r.dst \in Ident
  BY <1>1 DEF IInv, TypeOK, ReqState, Idle
<1>3. PICK new \in {[tbl[id] EXCEPT !.name = r.dst.name],
                    [tbl[id] EXCEPT !.name = r.dst.name, !.ns = r.dst.ns]} :
        /\ id \in Live
        /\ RenameUnique(id, new)
        /\ tbl' = [tbl EXCEPT ![id] = new]
  BY DEF RenameWrite
<1>4. tbl[id] \in Row
  BY <1>3 DEF IInv, TypeOK, Live
<1> DEFINE t == IdentOf(new)
<1>5. t \in Ident /\ new = [tbl[id] EXCEPT !.ns = t.ns, !.name = t.name]
  BY <1>2, <1>4 DEF IdentOf, Ident, Row
<1>6. Atomic!Rename(id, t)
  BY <1>3, <1>5 DEF Atomic!Rename, Atomic!Live, Live, Atomic!IdentOf, IdentOf,
                    RenameUnique
<1>7. QED
  BY <1>2, <1>5, <1>6

(* A drop deletes a live row, or finds none and changes nothing.          *)
LEMMA DropWriteRefines ==
    ASSUME IInv, NEW c \in Clients, DropWrite(c)
    PROVE  \/ \E u \in Uuids : Atomic!Drop(u)
           \/ tbl' = tbl
<1> DEFINE id == req[c].id
<1>1. tbl' = [tbl EXCEPT ![id] = NoRow] /\ req[c].pc = "drop"
  BY DEF DropWrite
<1>2. id \in Uuids
  BY <1>1 DEF IInv, TypeOK, ReqState, Idle
<1>3. CASE tbl[id] # NoRow
  BY <1>1, <1>2, <1>3 DEF Atomic!Drop, Atomic!Live
<1>4. CASE tbl[id] = NoRow
  BY <1>1, <1>2, <1>4 DEF IInv, TypeOK
<1>5. QED
  BY <1>3, <1>4

LEMMA NextRefines ==
    ASSUME Isolation = "repeatable_read"
    PROVE  RInv /\ [Next]_vars => [Atomic!Next]_tbl
<1> SUFFICES ASSUME RInv, [Next]_vars PROVE [Atomic!Next]_tbl
  OBVIOUS
<1>1. CASE \E t \in Ident, loc \in Locs, staged \in BOOLEAN, u \in Uuids :
             CreateTable(t, loc, staged, u)
  BY <1>1, CreateTableRefines DEF RInv, Atomic!Next, Atomic!Ident, Ident
<1>2. ASSUME NEW c \in Clients,
             CommitRead(c) \/ ResolveForRename(c) \/ ResolveForDrop(c)
      PROVE  [Atomic!Next]_tbl
  BY <1>2 DEF CommitRead, ResolveForRename, ResolveForDrop
<1>3. ASSUME NEW c \in Clients, CommitWrite(c)
      PROVE  [Atomic!Next]_tbl
  BY <1>3, CommitWriteRefines DEF Atomic!Next
<1>4. ASSUME NEW c \in Clients, RenameWrite(c)
      PROVE  [Atomic!Next]_tbl
  BY <1>4, RenameWriteRefines DEF RInv, Atomic!Next, Atomic!Ident, Ident
<1>5. ASSUME NEW c \in Clients, DropWrite(c)
      PROVE  [Atomic!Next]_tbl
  <2>1. PICK t \in Ident : TRUE
    <3>1. req[c] \in [pc : {"rename", "drop"}, id : Uuids, src : Ident, dst : Ident]
      BY <1>5 DEF DropWrite, RInv, IInv, TypeOK, ReqState, Idle
    <3>2. QED
      BY <3>1
  <2>2. QED
    BY <1>5, <2>1, DropWriteRefines DEF RInv, Atomic!Next, Atomic!Ident, Ident
<1>6. CASE UNCHANGED vars
  BY <1>6 DEF vars
<1>7. QED
  BY <1>1, <1>2, <1>3, <1>4, <1>5, <1>6 DEF Next

(* At REPEATABLE READ the catalog implements AtomicCatalog, for every     *)
(* value of the constants: create_table, the bulk UPDATE of               *)
(* commit_table_transaction, rename_table and drop_table each take one    *)
(* atomic step of the abstract catalog, and every other step leaves the   *)
(* "table" relation alone.  No commit drops a snapshot of the row it      *)
(* writes, or writes a row other than the one it read.                    *)
THEOREM Refinement ==
    ASSUME Isolation = "repeatable_read"
    PROVE  Spec => ImplementsAtomic
<1>1. Init => Atomic!Init
  BY DEF Init, Atomic!Init
<1>2. QED
  BY <1>1, InitRInv, NextRInv, NextRefines, PTL DEF Spec, ImplementsAtomic, Atomic!Spec

=============================================================================
