--------------------------- MODULE SnapshotProofs ---------------------------
(***************************************************************************)
(* Proofs about the commit history of module Catalog, for every value of  *)
(* its constants: at REPEATABLE READ no snapshot a successful             *)
(* commit_table_transaction added is ever lost, and in no step is a       *)
(* committed table replaced.                                              *)
(*                                                                         *)
(* NoLostSnapshot is not inductive: the bulk UPDATE installs metadata     *)
(* computed at an earlier read.  It holds after the write because         *)
(*   (1) the row is still the one read (NoConcurrentWrite),               *)
(*   (2) apply_commits kept its snapshots (PendingGrows) and put in the   *)
(*       snapshot each change adds (AddedInMeta),                         *)
(*   (3) the check updated.len() == responses.len() fails the commit when *)
(*       two changes name one table, or a change names a row that is      *)
(*       gone, so each table written takes the metadata of the only       *)
(*       change that names it (DistinctImage), and                        *)
(*   (4) a table id gets a history only once it is minted, so a new table *)
(*       starts with none (CommittedMinted).                              *)
(***************************************************************************)
EXTENDS CatalogRefinementProofs, FiniteSetTheorems

-----------------------------------------------------------------------------
(* A table id that create_table has not minted has no commit history.     *)
CommittedMinted == \A u \in Uuids \ minted : committed[u] = {}

(* The snapshot a change in flight adds is in its new metadata.           *)
AddedInMeta ==
    \A c \in Clients : req[c].pc = "commit" =>
        \A i \in DOMAIN req[c].changes :
            req[c].changes[i].added \subseteq req[c].changes[i].meta.snaps

(* The inductive strengthening of NoLostSnapshot.                         *)
SInv == RInv /\ CommittedMinted /\ AddedInMeta /\ NoLostSnapshot

-----------------------------------------------------------------------------
(* If the image of 1..n under g, restricted to L, has n elements, then g  *)
(* maps into L and no two indices to one value: the reading of the check  *)
(* updated.len() != responses.len() in commit_table_transaction.          *)
LEMMA DistinctImage ==
    ASSUME NEW n \in Nat, NEW g, NEW L,
           \A i \in 1..n : i \in DOMAIN g,
           Cardinality({g[i] : i \in 1..n} \cap L) = n
    PROVE  /\ \A i \in 1..n : g[i] \in L
           /\ \A i, j \in 1..n : g[i] = g[j] => i = j
<1> DEFINE I == {g[i] : i \in 1..n}
           f == [i \in 1..n |-> g[i]]
<1>1. f \in Surjection(1..n, I)
  BY DEF Surjection
<1>2. IsFiniteSet(1..n) /\ Cardinality(1..n) = n
  BY FS_Interval
<1>3. IsFiniteSet(I) /\ Cardinality(I) <= n
  BY <1>1, <1>2, FS_Surjection
<1>4. Cardinality(I \cap L) <= Cardinality(I)
  BY <1>3, FS_Intersection
<1>5. Cardinality(I) = n
  BY <1>3, <1>4, FS_CardinalityType
<1>6. f \in Injection(1..n, I)
  BY <1>1, <1>2, <1>5, FS_Surjection
<1>7. I \cap L = I
  BY <1>3, <1>5, FS_Subset
<1>8. QED
  BY <1>6, <1>7 DEF Injection, IsInjective

-----------------------------------------------------------------------------
(* The snapshot an update of apply_commits adds is in the metadata it     *)
(* returns.                                                               *)
LEMMA ApplyUpdateAdds ==
    ASSUME NEW up \in UpdateKind, NEW meta \in Metadata, NEW s \in SnapId,
           NEW m \in ApplyUpdate(up, meta, s)
    PROVE  (IF up.kind = "add_snapshot" THEN {s} ELSE {}) \subseteq m.snaps
<1>1. CASE up.kind = "add_snapshot"
  <2>1. m = [meta EXCEPT !.snaps = @ \cup {s}, !.main = s]
    BY <1>1 DEF ApplyUpdate, AggregateApply
  <2>2. QED
    BY <1>1, <2>1 DEF Metadata
<1>2. QED
  BY <1>1

(* AddedInMeta survives a step that leaves every commit in flight alone.  *)
LEMMA AddedInMetaStable ==
    ASSUME AddedInMeta,
           \A c \in Clients : req'[c].pc = "commit" => req'[c] = req[c]
    PROVE  AddedInMeta'
BY DEF AddedInMeta

(* The changes CommitRead computes carry the snapshots they add.          *)
LEMMA CommitReadAdded ==
    ASSUME IInv, AddedInMeta, NEW c \in Clients, CommitRead(c)
    PROVE  AddedInMeta'
<1>0. PICK n \in 1..MaxChanges :
      /\ snapSeq + n <= MaxSnaps
      /\ \E idents \in [1..n -> Ident] :
           LET ids == TableIdentsToIds(idents, TRUE)
           IN  /\ \A i \in 1..n : ids[i] # NoId
               /\ \E rs \in [1..n -> Requirements], us \in [1..n -> Updates] :
                  /\ \A i \in 1..n : ApplyUpdate(us[i], tbl[ids[i]].meta, snapSeq + i) # {}
                  /\ req' = [req EXCEPT ![c] =
                              [pc |-> "commit",
                               changes |-> [i \in 1..n |-> ChangeOf(ids[i], us[i], snapSeq + i)]]]
  BY DEF CommitRead
<1>1. PICK idents \in [1..n -> Ident], us \in [1..n -> Updates] :
        LET ids == TableIdentsToIds(idents, TRUE)
        IN  /\ \A i \in 1..n : ids[i] # NoId
            /\ \A i \in 1..n : ApplyUpdate(us[i], tbl[ids[i]].meta, snapSeq + i) # {}
            /\ req' = [req EXCEPT ![c] =
                        [pc |-> "commit",
                         changes |-> [i \in 1..n |-> ChangeOf(ids[i], us[i], snapSeq + i)]]]
  BY <1>0
<1> DEFINE ids == TableIdentsToIds(idents, TRUE)
           chs == [i \in 1..n |-> ChangeOf(ids[i], us[i], snapSeq + i)]
<1>2. ASSUME NEW j \in 1..n
      PROVE  chs[j].added \subseteq chs[j].meta.snaps
  <2>1. ids[j] \in Live
    BY <1>1, TableIdentToIdType DEF TableIdentsToIds
  <2>2. snapSeq + j \in SnapId
    <3>1. MaxSnaps \in Nat /\ snapSeq \in 0..MaxSnaps /\ snapSeq + n <= MaxSnaps /\ n \in Nat
      BY <1>0, ConstantsAssumption DEF TypeOK, IInv
    <3>2. j \in Nat /\ 1 <= j /\ j <= n
      OBVIOUS
    <3>3. snapSeq + j \in 1..MaxSnaps
      BY <3>1, <3>2
    <3>4. QED
      BY <3>3 DEF SnapId
  <2> DEFINE meta == tbl[ids[j]].meta
             m    == CHOOSE m \in ApplyUpdate(us[j], meta, snapSeq + j) : TRUE
  <2>3. m \in ApplyUpdate(us[j], meta, snapSeq + j)
    BY <1>1
  <2>4. meta \in Metadata /\ us[j] \in UpdateKind
    BY <2>1, ConstantsAssumption DEF IInv, TypeOK, Live, Row
  <2>5. (IF us[j].kind = "add_snapshot" THEN {snapSeq + j} ELSE {}) \subseteq m.snaps
    BY <2>2, <2>3, <2>4, ApplyUpdateAdds
  <2>6. /\ chs[j].added = IF us[j].kind = "add_snapshot" THEN {snapSeq + j} ELSE {}
        /\ chs[j].meta = m
    BY DEF ChangeOf
  <2>7. QED
    BY <2>5, <2>6
<1>3. SUFFICES ASSUME NEW d \in Clients, req'[d].pc = "commit",
                      NEW i \in DOMAIN req'[d].changes
               PROVE  req'[d].changes[i].added \subseteq req'[d].changes[i].meta.snaps
  BY DEF AddedInMeta
<1>4. CASE d = c
  <2>1. req'[d].changes = chs /\ DOMAIN chs = 1..n
    BY <1>1, <1>4 DEF IInv, TypeOK
  <2>2. QED
    BY <1>2, <2>1
<1>5. CASE d # c
  <2>1. req'[d] = req[d]
    BY <1>1, <1>5 DEF IInv, TypeOK
  <2>2. QED
    BY <1>3, <2>1 DEF AddedInMeta
<1>6. QED
  BY <1>4, <1>5

-----------------------------------------------------------------------------
(* The bulk UPDATE of commit_table_transaction at REPEATABLE READ: a     *)
(* successful write keeps every committed snapshot and records the ones   *)
(* it adds; a failed one changes neither the rows nor the history.       *)
LEMMA CommitWriteSnapshot ==
    ASSUME Isolation = "repeatable_read", SInv, NEW c \in Clients, CommitWrite(c)
    PROVE  CommittedMinted' /\ NoLostSnapshot'
<1> DEFINE ps  == req[c].changes
           hit == {ps[i].meta.uuid : i \in DOMAIN ps} \cap Live
<1>0. /\ req[c].pc = "commit"
      /\ UNCHANGED minted
  BY DEF CommitWrite
<1>1. CASE UNCHANGED <<tbl, committed>>
  BY <1>0, <1>1 DEF SInv, CommittedMinted, NoLostSnapshot, Live
<1>2. CASE /\ NoConcurrentWrite(ps)
           /\ AllRowsUpdated(hit, ps)
           /\ \E pick \in [hit -> DOMAIN ps] :
                /\ \A u \in hit : ps[pick[u]].meta.uuid = u
                /\ tbl' = [u \in Uuids |->
                             IF u \in hit
                             THEN [tbl[u] EXCEPT !.meta = ps[pick[u]].meta,
                                                 !.staged = FALSE]
                             ELSE tbl[u]]
           /\ committed' = [u \in Uuids |->
                              committed[u] \cup
                                UNION {ps[i].added : i \in {j \in DOMAIN ps :
                                                      ps[j].meta.uuid = u}}]
  <2>1. PICK pick \in [hit -> DOMAIN ps] :
          /\ \A u \in hit : ps[pick[u]].meta.uuid = u
          /\ tbl' = [u \in Uuids |->
                       IF u \in hit
                       THEN [tbl[u] EXCEPT !.meta = ps[pick[u]].meta,
                                           !.staged = FALSE]
                       ELSE tbl[u]]
    BY <1>2
  <2>2. /\ ps \in Seq(Pending)
        /\ DOMAIN ps = 1..Len(ps)
        /\ \A i \in DOMAIN ps : ps[i] \in Pending
    <3>1. req[c] \in [pc : {"commit"}, changes : Seq(Pending)]
      BY <1>0 DEF SInv, RInv, IInv, TypeOK, ReqState, Idle
    <3>2. QED
      BY <3>1, LenProperties
  <2> DEFINE n == Len(ps)
             g == [i \in DOMAIN ps |-> ps[i].meta.uuid]
  <2>3. /\ \A i \in DOMAIN ps : ps[i].meta.uuid \in Live
        /\ \A i, j \in DOMAIN ps : ps[i].meta.uuid = ps[j].meta.uuid => i = j
    <3>1. n \in Nat
      BY <2>2, LenProperties
    <3>2. {g[i] : i \in 1..n} = {ps[i].meta.uuid : i \in DOMAIN ps}
      BY <2>2
    <3>3. Cardinality({g[i] : i \in 1..n} \cap Live) = n
      BY <1>2, <3>2 DEF AllRowsUpdated
    <3>4. /\ \A i \in 1..n : g[i] \in Live
          /\ \A i, j \in 1..n : g[i] = g[j] => i = j
      BY <2>2, <3>1, <3>3, DistinctImage
    <3>5. QED
      BY <2>2, <3>4
  <2>4. \A i \in DOMAIN ps : /\ ps[i].id \in minted
                             /\ ps[i].meta.uuid = ps[i].id
                             /\ ps[i].base.meta.snaps \subseteq ps[i].meta.snaps
                             /\ ps[i].added \subseteq ps[i].meta.snaps
    BY <1>0 DEF SInv, RInv, IInv, PendingConsistent, PendingGrows, AddedInMeta
  <2>5. CommittedMinted'
    <3> SUFFICES ASSUME NEW u \in Uuids \ minted PROVE committed'[u] = {}
      BY <1>0 DEF CommittedMinted
    <3>1. \A i \in DOMAIN ps : ps[i].meta.uuid # u
      BY <2>4
    <3>2. committed[u] = {}
      BY DEF SInv, CommittedMinted
    <3>3. QED
      BY <1>2, <3>1, <3>2
  <2>6. \A u \in Uuids : tbl'[u] # NoRow <=> tbl[u] # NoRow
    <3>1. \A u \in hit : tbl[u] \in Row
      BY DEF SInv, RInv, IInv, TypeOK, Live
    <3>2. \A u \in hit : tbl'[u] \in Row
      <4> SUFFICES ASSUME NEW u \in hit PROVE tbl'[u] \in Row
        OBVIOUS
      <4>1. pick[u] \in DOMAIN ps /\ ps[pick[u]].meta \in Metadata
        BY <2>1, <2>2 DEF Pending
      <4>2. tbl'[u] = [tbl[u] EXCEPT !.meta = ps[pick[u]].meta, !.staged = FALSE]
        BY <2>1 DEF Live
      <4>3. QED
        BY <3>1, <4>1, <4>2 DEF Row
    <3>3. QED
      BY <2>1, <3>1, <3>2, ConstantsAssumption DEF Live
  <2>7. NoLostSnapshot'
    <3> SUFFICES ASSUME NEW u \in Uuids, tbl'[u] # NoRow
                 PROVE  committed'[u] \subseteq tbl'[u].meta.snaps
      BY DEF NoLostSnapshot, Live
    <3>1. u \in Live
      BY <2>6 DEF Live
    <3>2. committed[u] \subseteq tbl[u].meta.snaps
      BY <3>1 DEF SInv, NoLostSnapshot
    <3>3. CASE u \in hit
      <4> DEFINE k == pick[u]
      <4>1. k \in DOMAIN ps /\ ps[k].meta.uuid = u
        BY <2>1, <3>3
      <4>2. tbl'[u].meta = ps[k].meta
        BY <2>1, <3>3, <3>1 DEF SInv, RInv, IInv, TypeOK, Live, Row
      <4>3. tbl[u] = ps[k].base
        BY <1>2, <2>4, <4>1 DEF NoConcurrentWrite
      <4>4. \A i \in DOMAIN ps : ps[i].meta.uuid = u => ps[i].added \subseteq ps[k].meta.snaps
        <5> SUFFICES ASSUME NEW i \in DOMAIN ps, ps[i].meta.uuid = u
                     PROVE  ps[i].added \subseteq ps[k].meta.snaps
          OBVIOUS
        <5>1. i = k
          BY <2>3, <4>1
        <5>2. QED
          BY <2>4, <5>1
      <4>5. committed'[u] = committed[u] \cup
              UNION {ps[i].added : i \in {j \in DOMAIN ps : ps[j].meta.uuid = u}}
        BY <1>2
      <4>6. UNION {ps[i].added : i \in {j \in DOMAIN ps : ps[j].meta.uuid = u}}
              \subseteq ps[k].meta.snaps
        BY <4>4
      <4>7. committed[u] \subseteq ps[k].meta.snaps
        BY <2>4, <3>2, <4>1, <4>3
      <4>8. QED
        BY <4>2, <4>5, <4>6, <4>7
    <3>4. CASE u \notin hit
      <4>1. \A i \in DOMAIN ps : ps[i].meta.uuid # u
        BY <2>3, <3>1, <3>4
      <4>2. tbl'[u] = tbl[u]
        BY <2>1, <3>4
      <4>3. committed'[u] = committed[u] \cup
              UNION {ps[i].added : i \in {j \in DOMAIN ps : ps[j].meta.uuid = u}}
        BY <1>2
      <4>4. {j \in DOMAIN ps : ps[j].meta.uuid = u} = {}
        BY <4>1
      <4>5. committed'[u] = committed[u]
        BY <4>3, <4>4
      <4>6. QED
        BY <3>2, <4>2, <4>5
    <3>5. QED
      BY <3>3, <3>4
  <2>8. QED
    BY <2>5, <2>7
<1>3. QED
  BY <1>1, <1>2 DEF CommitWrite

-----------------------------------------------------------------------------
(* create_table: a fresh id has no history, and the rows it removes are   *)
(* no longer live.                                                        *)
LEMMA CreateTableSnapshot ==
    ASSUME SInv, NEW t \in Ident, NEW loc \in Locs, NEW staged \in BOOLEAN,
           NEW u \in Uuids, CreateTable(t, loc, staged, u)
    PROVE  CommittedMinted' /\ NoLostSnapshot'
<1> DEFINE old  == {v \in Live : IdentOf(tbl[v]) = t}
           meta == [uuid |-> u, location |-> loc, snaps |-> {}, main |-> 0]
           row  == [ns |-> t.ns, name |-> t.name, loc |-> loc,
                    staged |-> staged, meta |-> meta]
<1>1. /\ u \notin minted
      /\ tbl' = [v \in Uuids |-> IF v = u THEN row
                                 ELSE IF v \in old THEN NoRow
                                 ELSE tbl[v]]
      /\ minted' = minted \cup {u}
      /\ committed' = committed
  BY DEF CreateTable
<1>2. committed[u] = {}
  BY <1>1 DEF SInv, CommittedMinted
<1>3. CommittedMinted'
  BY <1>1 DEF SInv, CommittedMinted
<1>4. NoLostSnapshot'
  <2> SUFFICES ASSUME NEW v \in Uuids, tbl'[v] # NoRow
               PROVE  committed'[v] \subseteq tbl'[v].meta.snaps
    BY DEF NoLostSnapshot, Live
  <2>1. CASE v = u
    BY <1>1, <1>2, <2>1
  <2>2. CASE v # u
    <3>1. tbl'[v] = tbl[v] /\ v \in Live
      BY <1>1, <2>2 DEF Live
    <3>2. QED
      BY <1>1, <3>1 DEF SInv, NoLostSnapshot
  <2>3. QED
    BY <2>1, <2>2
<1>5. QED
  BY <1>3, <1>4

(* rename_table keeps the metadata of the row it renames; drop_table      *)
(* removes a row; neither touches the history.                            *)
LEMMA RenameDropSnapshot ==
    ASSUME SInv, NEW c \in Clients, RenameWrite(c) \/ DropWrite(c)
    PROVE  CommittedMinted' /\ NoLostSnapshot'
<1>1. /\ UNCHANGED <<minted, committed>>
      /\ \A v \in Uuids : tbl'[v] = NoRow \/ (tbl[v] # NoRow /\ tbl'[v].meta = tbl[v].meta)
  <2>1. CASE RenameWrite(c)
    <3> DEFINE r   == req[c]
               u   == r.id
               new == IF r.src.ns = r.dst.ns
                      THEN [tbl[u] EXCEPT !.name = r.dst.name]
                      ELSE [tbl[u] EXCEPT !.name = r.dst.name, !.ns = r.dst.ns]
    <3>1. CASE u \in Live /\ tbl' = [tbl EXCEPT ![u] = new]
      <4>1. tbl[u] \in Row
        BY <3>1 DEF SInv, RInv, IInv, TypeOK, Live
      <4>2. new.meta = tbl[u].meta
        BY <4>1 DEF Row
      <4>3. QED
        BY <2>1, <3>1, <4>2 DEF RenameWrite, SInv, RInv, IInv, TypeOK, Live
    <3>2. CASE UNCHANGED tbl
      BY <2>1, <3>2 DEF RenameWrite
    <3>3. QED
      BY <2>1, <3>1, <3>2 DEF RenameWrite
  <2>2. CASE DropWrite(c)
    BY <2>2 DEF DropWrite, SInv, RInv, IInv, TypeOK
  <2>3. QED
    BY <2>1, <2>2
<1>2. QED
  BY <1>1 DEF SInv, CommittedMinted, NoLostSnapshot, Live

LEMMA InitSInv == Init => SInv
BY InitRInv DEF Init, SInv, CommittedMinted, AddedInMeta, NoLostSnapshot, Live, Idle

LEMMA NextSInv ==
    ASSUME Isolation = "repeatable_read"
    PROVE  SInv /\ [Next]_vars => SInv'
<1> SUFFICES ASSUME SInv, [Next]_vars PROVE SInv'
  OBVIOUS
<1>1. RInv'
  BY NextRInv DEF SInv
<1>2. CASE \E t \in Ident, loc \in Locs, staged \in BOOLEAN, u \in Uuids :
             CreateTable(t, loc, staged, u)
  <2>1. req' = req
    BY <1>2 DEF CreateTable
  <2>2. AddedInMeta'
    BY <2>1, AddedInMetaStable DEF SInv
  <2>3. QED
    BY <1>1, <1>2, <2>2, CreateTableSnapshot DEF SInv
<1>3. ASSUME NEW c \in Clients, CommitRead(c) PROVE SInv'
  <2>1. UNCHANGED <<tbl, minted, committed>>
    BY <1>3 DEF CommitRead
  <2>2. QED
    BY <1>1, <1>3, <2>1, CommitReadAdded
       DEF SInv, RInv, CommittedMinted, NoLostSnapshot, Live
<1>4. ASSUME NEW c \in Clients, ResolveForRename(c) \/ ResolveForDrop(c) PROVE SInv'
  <2>1. UNCHANGED <<tbl, minted, committed>>
    BY <1>4 DEF ResolveForRename, ResolveForDrop
  <2>2. AddedInMeta'
    BY <1>4, CommitsKept, AddedInMetaStable DEF SInv, RInv, IInv
  <2>3. QED
    BY <1>1, <2>1, <2>2 DEF SInv, CommittedMinted, NoLostSnapshot, Live
<1>5. ASSUME NEW c \in Clients, CommitWrite(c) \/ RenameWrite(c) \/ DropWrite(c)
      PROVE  SInv'
  <2>1. AddedInMeta'
    BY <1>5, CommitsKept, AddedInMetaStable DEF SInv, RInv, IInv
  <2>2. CommittedMinted' /\ NoLostSnapshot'
    BY <1>5, CommitWriteSnapshot, RenameDropSnapshot
  <2>3. QED
    BY <1>1, <2>1, <2>2 DEF SInv
<1>6. CASE UNCHANGED vars
  BY <1>1, <1>6 DEF vars, SInv, CommittedMinted, AddedInMeta, NoLostSnapshot, Live
<1>7. QED
  BY <1>2, <1>3, <1>4, <1>5, <1>6 DEF Next

(* No snapshot a successful commit_table_transaction added is ever lost   *)
(* from its table's metadata while the table exists, for every value of   *)
(* the constants, when the write transactions run at REPEATABLE READ.    *)
(* (At READ COMMITTED the run catalog_read_committed shows a lost         *)
(* snapshot: two commits that read the same metadata both write.)         *)
THEOREM NoLostSnapshotInvariant ==
    ASSUME Isolation = "repeatable_read"
    PROVE  Spec => []NoLostSnapshot
<1>1. SInv => NoLostSnapshot
  BY DEF SInv
<1>2. QED
  BY InitSInv, NextSInv, <1>1, PTL DEF Spec

-----------------------------------------------------------------------------
(* The step condition of CommittedNotReplaced: every committed table      *)
(* keeps its id, its location and its metadata_location, or is dropped    *)
(* without another row taking its identifier.                            *)
NotReplacedStep ==
    \A u \in Live :
        ~tbl[u].staged =>
           \/ /\ tbl'[u] # NoRow
              /\ tbl'[u].loc = tbl[u].loc
              /\ ~tbl'[u].staged
           \/ /\ tbl'[u] = NoRow
              /\ \A v \in Uuids : tbl'[v] # NoRow =>
                                    IdentOf(tbl'[v]) # IdentOf(tbl[u])

(* A step that leaves every committed row as it was, or keeps its         *)
(* location and leaves it committed, satisfies the step condition.        *)
LEMMA KeepsCommitted ==
    ASSUME TypeOK,
           \A u \in Live : ~tbl[u].staged =>
               /\ tbl'[u] # NoRow
               /\ tbl'[u].loc = tbl[u].loc
               /\ ~tbl'[u].staged
    PROVE  NotReplacedStep
BY DEF NotReplacedStep

(* Every action of Catalog satisfies the step condition.  create_table    *)
(* overwrites only staged rows under a fresh id; the bulk UPDATE and      *)
(* rename_table keep the location and leave a committed row committed;   *)
(* drop_table removes one row, whose identifier no other row has.        *)
LEMMA NextNotReplaced ==
    IInv /\ IdentsUnique /\ [Next]_vars => [NotReplacedStep]_vars
<1> SUFFICES ASSUME IInv, IdentsUnique, [Next]_vars PROVE [NotReplacedStep]_vars
  OBVIOUS
<1>0. TypeOK
  BY DEF IInv
<1>1. ASSUME NEW t \in Ident, NEW loc \in Locs, NEW staged \in BOOLEAN,
             NEW u \in Uuids, CreateTable(t, loc, staged, u)
      PROVE  NotReplacedStep
  <2> DEFINE old == {v \in Live : IdentOf(tbl[v]) = t}
  <2>1. /\ u \notin minted
        /\ \A v \in old : tbl[v].staged
        /\ \A v \in Uuids : v # u /\ v \notin old => tbl'[v] = tbl[v]
    BY <1>1 DEF CreateTable, Overwritable
  <2>2. \A v \in Live : ~tbl[v].staged => v # u /\ v \notin old
    BY <2>1 DEF IInv, LiveMinted
  <2>3. QED
    BY <1>0, <2>1, <2>2, KeepsCommitted DEF Live
<1>2. ASSUME NEW c \in Clients, CommitWrite(c) PROVE NotReplacedStep
  <2> DEFINE ps  == req[c].changes
             hit == {ps[i].meta.uuid : i \in DOMAIN ps} \cap Live
  <2>0. req[c].pc = "commit"
    BY <1>2 DEF CommitWrite
  <2>1. CASE UNCHANGED tbl
    BY <1>0, <2>1, KeepsCommitted DEF Live
  <2>2. CASE \E pick \in [hit -> DOMAIN ps] :
               tbl' = [u \in Uuids |->
                         IF u \in hit
                         THEN [tbl[u] EXCEPT !.meta = ps[pick[u]].meta,
                                             !.staged = FALSE]
                         ELSE tbl[u]]
    <3>1. PICK pick \in [hit -> DOMAIN ps] :
            tbl' = [u \in Uuids |->
                      IF u \in hit
                      THEN [tbl[u] EXCEPT !.meta = ps[pick[u]].meta,
                                          !.staged = FALSE]
                      ELSE tbl[u]]
      BY <2>2
    <3>2. ASSUME NEW u \in Live
          PROVE  /\ tbl'[u] # NoRow
                 /\ tbl'[u].loc = tbl[u].loc
                 /\ tbl'[u].staged => tbl[u].staged
      <4>1. tbl[u] \in Row
        BY <1>0 DEF TypeOK, Live
      <4>2. CASE u \in hit
        <5>1. tbl'[u] = [tbl[u] EXCEPT !.meta = ps[pick[u]].meta, !.staged = FALSE]
          BY <3>1, <4>2 DEF Live
        <5>2. tbl'[u].loc = tbl[u].loc /\ tbl'[u].staged = FALSE
          BY <4>1, <5>1 DEF Row
        <5>3. tbl'[u] # NoRow
          <6>1. req[c] \in [pc : {"commit"}, changes : Seq(Pending)]
            BY <1>0, <2>0 DEF TypeOK, ReqState, Idle
          <6>2. pick[u] \in DOMAIN ps
            BY <4>2
          <6>3. \A i \in DOMAIN ps : ps[i] \in Pending
            BY <6>1, LenProperties
          <6>4. ps[pick[u]] \in Pending
            BY <6>2, <6>3
          <6>5. tbl'[u] \in Row
            BY <4>1, <5>1, <6>4 DEF Row, Pending
          <6>6. QED
            BY <6>5, ConstantsAssumption
        <5>4. QED
          BY <5>2, <5>3
      <4>3. CASE u \notin hit
        BY <3>1, <4>3 DEF Live
      <4>4. QED
        BY <4>2, <4>3
    <3>3. QED
      BY <1>0, <3>2, KeepsCommitted
  <2>3. QED
    BY <1>2, <2>1, <2>2 DEF CommitWrite
<1>3. ASSUME NEW c \in Clients, RenameWrite(c) PROVE NotReplacedStep
  <2> DEFINE r   == req[c]
             id  == r.id
             new == IF r.src.ns = r.dst.ns
                    THEN [tbl[id] EXCEPT !.name = r.dst.name]
                    ELSE [tbl[id] EXCEPT !.name = r.dst.name, !.ns = r.dst.ns]
  <2>1. CASE UNCHANGED tbl
    BY <1>0, <2>1, KeepsCommitted DEF Live
  <2>2. CASE id \in Live /\ tbl' = [tbl EXCEPT ![id] = new]
    <3>1. tbl[id] \in Row
      BY <1>0, <2>2 DEF TypeOK, Live
    <3>2. new # NoRow /\ new.loc = tbl[id].loc /\ new.staged = tbl[id].staged
      <4>1. new \in Row
        <5>1. r \in [pc : {"rename", "drop"}, id : Uuids, src : Ident, dst : Ident]
          BY <1>3, <1>0 DEF RenameWrite, TypeOK, ReqState, Idle
        <5>2. QED
          BY <3>1, <5>1 DEF Row, Ident
      <4>2. QED
        BY <3>1, <4>1, ConstantsAssumption DEF Row
    <3>3. QED
      BY <1>0, <2>2, <3>2, KeepsCommitted DEF TypeOK, Live
  <2>3. QED
    BY <1>3, <2>1, <2>2 DEF RenameWrite
<1>4. ASSUME NEW c \in Clients, DropWrite(c) PROVE NotReplacedStep
  <2> DEFINE id == req[c].id
  <2>1. tbl' = [tbl EXCEPT ![id] = NoRow]
    BY <1>4 DEF DropWrite
  <2> SUFFICES ASSUME NEW u \in Live, ~tbl[u].staged
               PROVE  \/ /\ tbl'[u] # NoRow
                         /\ tbl'[u].loc = tbl[u].loc
                         /\ ~tbl'[u].staged
                      \/ /\ tbl'[u] = NoRow
                         /\ \A v \in Uuids : tbl'[v] # NoRow =>
                                               IdentOf(tbl'[v]) # IdentOf(tbl[u])
    BY DEF NotReplacedStep
  <2>2. CASE u = id
    <3>1. tbl'[u] = NoRow
      BY <1>0, <2>1, <2>2 DEF TypeOK, Live
    <3>2. \A v \in Uuids : tbl'[v] # NoRow => v # u /\ v \in Live /\ tbl'[v] = tbl[v]
      BY <1>0, <2>1, <2>2 DEF TypeOK, Live
    <3>3. QED
      BY <3>1, <3>2 DEF IdentsUnique
  <2>3. CASE u # id
    BY <1>0, <2>1, <2>3 DEF TypeOK, Live
  <2>4. QED
    BY <2>2, <2>3
<1>5. ASSUME NEW c \in Clients,
             CommitRead(c) \/ ResolveForRename(c) \/ ResolveForDrop(c)
      PROVE  NotReplacedStep
  <2>1. UNCHANGED tbl
    BY <1>5 DEF CommitRead, ResolveForRename, ResolveForDrop
  <2>2. QED
    BY <1>0, <2>1, KeepsCommitted DEF Live
<1>6. CASE UNCHANGED vars
  BY <1>6 DEF vars
<1>7. QED
  BY <1>1, <1>2, <1>3, <1>4, <1>5, <1>6 DEF Next

(* A committed table is never replaced, for every value of the constants  *)
(* and at either isolation level: in no step does a committed table lose  *)
(* its id or location or become staged again, and when it is dropped no   *)
(* other row has its identifier.  It rests on the invariants that live    *)
(* ids were minted (so create_table's fresh id is free) and that          *)
(* identifiers are unique (so drop_table removes the only row of its      *)
(* name).                                                                 *)
THEOREM CommittedNotReplacedHolds == Spec => CommittedNotReplaced
<1>1. Init => IInv /\ UInv
  BY InitIInv, InitTypeOK DEF Init, UInv, IdentsUnique, Live
<1>2. IInv /\ UInv /\ [Next]_vars => (IInv /\ UInv)'
  BY NextIInv, NextUnique
<1>3. IInv /\ UInv /\ [Next]_vars => [NotReplacedStep]_vars
  BY NextNotReplaced DEF UInv
<1>4. QED
  BY <1>1, <1>2, <1>3, PTL DEF Spec, CommittedNotReplaced, NotReplacedStep

=============================================================================
