---------------------------- MODULE CatalogProofs ----------------------------
(***************************************************************************)
(* Proofs about module Catalog, for every value of its constants.         *)
(***************************************************************************)
EXTENDS Catalog, SequenceTheorems, TLAPS

-----------------------------------------------------------------------------
(* Lemmas on the operators the actions are built from.                    *)

(* table_ident_to_id returns a live table id or NoId.                     *)
LEMMA TableIdentToIdType ==
    ASSUME NEW t, NEW b
    PROVE  TableIdentToId(t, b) \in Live \cup {NoId}
BY DEF TableIdentToId

(* An update applied by apply_commits yields a metadata document that     *)
(* keeps the uuid and the location it was applied to.                    *)
LEMMA ApplyUpdateType ==
    ASSUME NEW up \in UpdateKind, NEW meta \in Metadata, NEW s \in SnapId,
           NEW m \in ApplyUpdate(up, meta, s)
    PROVE  /\ m \in Metadata
           /\ m.uuid = meta.uuid
           /\ m.location = meta.location
<1>1. CASE up.kind = "add_snapshot"
  <2>1. m = [meta EXCEPT !.snaps = @ \cup {s}, !.main = s]
    BY <1>1 DEF ApplyUpdate, AggregateApply
  <2>2. QED
    BY <2>1 DEF Metadata
<1>2. CASE up.kind = "assign_uuid"
  BY <1>2 DEF ApplyUpdate
<1>3. CASE up.kind = "set_location"
  BY <1>3 DEF ApplyUpdate
<1>4. QED
  BY <1>1, <1>2, <1>3 DEF UpdateKind

-----------------------------------------------------------------------------
(* Type correctness.                                                      *)

LEMMA InitTypeOK == Init => TypeOK
BY ConstantsAssumption DEF Init, TypeOK, ReqState, Idle

LEMMA CreateTableTypeOK ==
    ASSUME TypeOK, NEW t \in Ident, NEW loc \in Locs, NEW staged \in BOOLEAN,
           NEW u \in Uuids, CreateTable(t, loc, staged, u)
    PROVE  TypeOK'
<1> DEFINE meta == [uuid |-> u, location |-> loc, snaps |-> {}, main |-> 0]
           row  == [ns |-> t.ns, name |-> t.name, loc |-> loc,
                    staged |-> staged, meta |-> meta]
<1>1. row \in Row
  BY DEF Row, Metadata, Ident
<1>2. tbl' \in [Uuids -> Row \cup {NoRow}]
  BY <1>1 DEF CreateTable, TypeOK
<1>3. QED
  BY <1>2 DEF CreateTable, TypeOK

(* A change built from a live row, an update a client may send and a      *)
(* snapshot id in range, that apply_commits accepts, is well typed and    *)
(* its new metadata keeps the uuid and location of the row read.         *)
LEMMA ChangeOfType ==
    ASSUME TypeOK, NEW id \in Live, NEW up \in Updates, NEW s \in SnapId,
           ApplyUpdate(up, tbl[id].meta, s) # {}
    PROVE  /\ ChangeOf(id, up, s) \in Pending
           /\ ChangeOf(id, up, s).meta.uuid = tbl[id].meta.uuid
           /\ ChangeOf(id, up, s).meta.location = tbl[id].meta.location
<1> DEFINE m == CHOOSE m \in ApplyUpdate(up, tbl[id].meta, s) : TRUE
<1>1. tbl[id] \in Row
  BY DEF Live, TypeOK
<1>2. m \in ApplyUpdate(up, tbl[id].meta, s)
  OBVIOUS
<1>3. /\ m \in Metadata
      /\ m.uuid = tbl[id].meta.uuid
      /\ m.location = tbl[id].meta.location
  BY <1>1, <1>2, ApplyUpdateType, ConstantsAssumption DEF Row
<1>4. QED
  BY <1>1, <1>3 DEF ChangeOf, Pending, Live

LEMMA CommitReadTypeOK ==
    ASSUME TypeOK, NEW c \in Clients, CommitRead(c)
    PROVE  TypeOK'
<1>0. PICK n \in 1..MaxChanges :
        /\ snapSeq + n <= MaxSnaps
        /\ \E idents \in [1..n -> Ident] :
           LET ids == TableIdentsToIds(idents, TRUE)
           IN  /\ \A i \in 1..n : ids[i] # NoId
               /\ \E rs \in [1..n -> Requirements], us \in [1..n -> Updates] :
                  /\ \A i \in 1..n : ApplyUpdate(us[i], tbl[ids[i]].meta, snapSeq + i) # {}
                  /\ req' = [req EXCEPT ![c] =
                              [pc |-> "commit",
                               changes |-> [i \in 1..n |-> ChangeOf(ids[i], us[i], snapSeq + i)]]]
                  /\ snapSeq' = snapSeq + n
  BY DEF CommitRead
<1>1. PICK idents \in [1..n -> Ident], us \in [1..n -> Updates] :
        LET ids == TableIdentsToIds(idents, TRUE)
        IN  /\ \A i \in 1..n : ids[i] # NoId
            /\ \A i \in 1..n : ApplyUpdate(us[i], tbl[ids[i]].meta, snapSeq + i) # {}
            /\ req' = [req EXCEPT ![c] =
                        [pc |-> "commit",
                         changes |-> [i \in 1..n |-> ChangeOf(ids[i], us[i], snapSeq + i)]]]
            /\ snapSeq' = snapSeq + n
  BY <1>0
<1> DEFINE ids == TableIdentsToIds(idents, TRUE)
<1>2. ASSUME NEW j \in 1..n
      PROVE  ChangeOf(ids[j], us[j], snapSeq + j) \in Pending
  <2>1. ids[j] \in Live
    BY <1>1, TableIdentToIdType DEF TableIdentsToIds
  <2>2. snapSeq + j \in SnapId
    <3>1. MaxSnaps \in Nat /\ snapSeq \in 0..MaxSnaps /\ snapSeq + n <= MaxSnaps /\ n \in Nat
      BY <1>0, ConstantsAssumption DEF TypeOK
    <3>2. j \in Nat /\ 1 <= j /\ j <= n
      OBVIOUS
    <3>3. snapSeq + j \in 1..MaxSnaps
      BY <3>1, <3>2, SMTT(30)
    <3>4. QED
      BY <3>3 DEF SnapId
  <2>3. ApplyUpdate(us[j], tbl[ids[j]].meta, snapSeq + j) # {}
    BY <1>1
  <2>4. us[j] \in Updates
    OBVIOUS
  <2>5. QED
    BY <2>1, <2>2, <2>3, <2>4, ChangeOfType
<1>3. [i \in 1..n |-> ChangeOf(ids[i], us[i], snapSeq + i)] \in Seq(Pending)
  <2>1. n \in Nat
    BY ConstantsAssumption
  <2>2. [i \in 1..n |-> ChangeOf(ids[i], us[i], snapSeq + i)] \in [1..n -> Pending]
    BY <1>2
  <2>3. [i \in 1..n |-> ChangeOf(ids[i], us[i], snapSeq + i)]
          \in UNION {[1..m -> Pending] : m \in Nat}
    BY <2>1, <2>2, Zenon
  <2>4. QED
    BY <2>3, SeqDef, Zenon
<1>4. req' \in [Clients -> ReqState]
  BY <1>1, <1>3 DEF ReqState, TypeOK
<1>5. snapSeq' \in 0..MaxSnaps
  BY <1>0, <1>1 DEF TypeOK
<1>6. QED
  BY <1>4, <1>5 DEF CommitRead, TypeOK

LEMMA CommitWriteTypeOK ==
    ASSUME TypeOK, NEW c \in Clients, CommitWrite(c)
    PROVE  TypeOK'
<1> DEFINE ps  == req[c].changes
           hit == {ps[i].meta.uuid : i \in DOMAIN ps} \cap Live
<1>1. ps \in Seq(Pending)
  <2>1. req[c] \in ReqState /\ req[c].pc = "commit"
    BY DEF CommitWrite, TypeOK
  <2>2. req[c] \in [pc : {"commit"}, changes : Seq(Pending)]
    BY <2>1 DEF ReqState, Idle
  <2>3. QED
    BY <2>2
<1>2. /\ DOMAIN ps = 1..Len(ps)
      /\ \A i \in DOMAIN ps : ps[i] \in Pending
  BY <1>1, LenProperties
<1>3. req' \in [Clients -> ReqState]
  BY DEF CommitWrite, TypeOK, ReqState, Idle
<1>4. CASE tbl' = tbl /\ committed' = committed
  BY <1>3, <1>4 DEF CommitWrite, TypeOK
<1>5. CASE ~(tbl' = tbl /\ committed' = committed)
  <2>1. PICK pick \in [hit -> DOMAIN ps] :
          tbl' = [u \in Uuids |->
                    IF u \in hit
                    THEN [tbl[u] EXCEPT !.meta = ps[pick[u]].meta, !.staged = FALSE]
                    ELSE tbl[u]]
    BY <1>5 DEF CommitWrite
  <2>2. committed' = [u \in Uuids |->
                        committed[u] \cup
                          UNION {ps[i].added : i \in {j \in DOMAIN ps :
                                                ps[j].meta.uuid = u}}]
    BY <1>5 DEF CommitWrite
  <2>3. ASSUME NEW u \in hit
        PROVE  [tbl[u] EXCEPT !.meta = ps[pick[u]].meta, !.staged = FALSE] \in Row
    <3>1. tbl[u] \in Row
      BY DEF Live, TypeOK
    <3>2. ps[pick[u]].meta \in Metadata
      BY <1>2 DEF Pending
    <3>3. QED
      BY <3>1, <3>2 DEF Row
  <2>4. tbl' \in [Uuids -> Row \cup {NoRow}]
    BY <2>1, <2>3 DEF TypeOK
  <2>5. committed' \in [Uuids -> SUBSET SnapId]
    BY <1>2, <2>2 DEF TypeOK, Pending
  <2>6. QED
    BY <1>3, <2>4, <2>5 DEF CommitWrite, TypeOK
<1>6. QED
  BY <1>4, <1>5

LEMMA ResolveTypeOK ==
    ASSUME TypeOK, NEW c \in Clients, ResolveForRename(c) \/ ResolveForDrop(c)
    PROVE  TypeOK'
<1>1. ASSUME NEW src \in Ident, NEW b
      PROVE  TableIdentToId(src, b) # NoId => TableIdentToId(src, b) \in Uuids
  BY TableIdentToIdType DEF Live
<1>2. req' \in [Clients -> ReqState]
  BY <1>1 DEF ResolveForRename, ResolveForDrop, TypeOK, ReqState, Idle
<1>3. QED
  BY <1>2 DEF ResolveForRename, ResolveForDrop, TypeOK

LEMMA RenameWriteTypeOK ==
    ASSUME TypeOK, NEW c \in Clients, RenameWrite(c)
    PROVE  TypeOK'
<1> DEFINE r == req[c]
           u == r.id
<1>1. r.id \in Uuids /\ r.src \in Ident /\ r.dst \in Ident
  BY DEF RenameWrite, TypeOK, ReqState, Idle
<1>2. req' \in [Clients -> ReqState]
  BY DEF RenameWrite, TypeOK, ReqState, Idle
<1>3. CASE tbl' = tbl
  BY <1>2, <1>3 DEF RenameWrite, TypeOK
<1>4. CASE tbl' # tbl
  <2>1. u \in Live
    BY <1>4 DEF RenameWrite
  <2>2. tbl[u] \in Row
    BY <2>1 DEF Live, TypeOK
  <2>3. /\ [tbl[u] EXCEPT !.name = r.dst.name] \in Row
        /\ [tbl[u] EXCEPT !.name = r.dst.name, !.ns = r.dst.ns] \in Row
    BY <1>1, <2>2 DEF Row, Ident
  <2>4. tbl' \in [Uuids -> Row \cup {NoRow}]
    BY <1>1, <1>4, <2>3 DEF RenameWrite, TypeOK
  <2>5. QED
    BY <1>2, <2>4 DEF RenameWrite, TypeOK
<1>5. QED
  BY <1>3, <1>4

LEMMA DropWriteTypeOK ==
    ASSUME TypeOK, NEW c \in Clients, DropWrite(c)
    PROVE  TypeOK'
<1>1. req[c].id \in Uuids
  BY DEF DropWrite, TypeOK, ReqState, Idle
<1>2. QED
  BY <1>1 DEF DropWrite, TypeOK, ReqState, Idle

LEMMA NextTypeOK == TypeOK /\ [Next]_vars => TypeOK'
<1> SUFFICES ASSUME TypeOK, [Next]_vars PROVE TypeOK'
  OBVIOUS
<1>1. CASE \E t \in Ident, loc \in Locs, staged \in BOOLEAN, u \in Uuids :
             CreateTable(t, loc, staged, u)
  BY <1>1, CreateTableTypeOK
<1>2. ASSUME NEW c \in Clients,
             \/ CommitRead(c) \/ CommitWrite(c)
             \/ ResolveForRename(c) \/ RenameWrite(c)
             \/ ResolveForDrop(c) \/ DropWrite(c)
      PROVE  TypeOK'
  BY <1>2, CommitReadTypeOK, CommitWriteTypeOK, ResolveTypeOK,
     RenameWriteTypeOK, DropWriteTypeOK
<1>3. CASE UNCHANGED vars
  BY <1>3 DEF vars, TypeOK
<1>4. QED
  BY <1>1, <1>2, <1>3 DEF Next

(* Type correctness of the catalog: every reachable state of the tables,  *)
(* the minted ids, the snapshot counter, the requests in flight and the   *)
(* commit history is well typed, for every value of the constants.       *)
THEOREM TypeCorrect == Spec => []TypeOK
BY InitTypeOK, NextTypeOK, PTL DEF Spec

-----------------------------------------------------------------------------
(* Every row's metadata names the row.                                    *)

(* Every live table id was minted by create_table.                       *)
LiveMinted == Live \subseteq minted

(* A change a commit has read but not yet written carries the id of a     *)
(* minted table, new metadata with that table's uuid and location, and    *)
(* the row under that id, if there is one, still has that location.      *)
PendingConsistent ==
    \A c \in Clients : req[c].pc = "commit" =>
        \A i \in DOMAIN req[c].changes :
            LET ch == req[c].changes[i]
            IN  /\ ch.id \in minted
                /\ ch.meta.uuid = ch.id
                /\ ch.meta.location = ch.base.loc
                /\ tbl[ch.id] # NoRow => tbl[ch.id].loc = ch.base.loc

(* The inductive strengthening of MetadataMatchesRow.                     *)
IInv == TypeOK /\ LiveMinted /\ MetadataMatchesRow /\ PendingConsistent

(* PendingConsistent survives a step that mints no fewer ids, keeps the   *)
(* location of every minted row it does not delete, and leaves every      *)
(* request that is a commit after the step as it was.                    *)
LEMMA PendingStable ==
    ASSUME TypeOK, PendingConsistent,
           minted \subseteq minted',
           \A v \in minted : tbl'[v] = NoRow \/ (tbl[v] # NoRow /\ tbl'[v].loc = tbl[v].loc),
           \A c \in Clients : req'[c].pc = "commit" => req'[c] = req[c]
    PROVE  PendingConsistent'
<1> SUFFICES ASSUME NEW c \in Clients, req'[c].pc = "commit",
                    NEW i \in DOMAIN req'[c].changes
             PROVE  LET ch == req'[c].changes[i]
                    IN  /\ ch.id \in minted'
                        /\ ch.meta.uuid = ch.id
                        /\ ch.meta.location = ch.base.loc
                        /\ tbl'[ch.id] # NoRow => tbl'[ch.id].loc = ch.base.loc
  BY DEF PendingConsistent
<1>1. req'[c] = req[c] /\ req[c].pc = "commit"
  OBVIOUS
<1> DEFINE ch == req[c].changes[i]
<1>2. /\ ch.id \in minted
      /\ ch.meta.uuid = ch.id
      /\ ch.meta.location = ch.base.loc
      /\ tbl[ch.id] # NoRow => tbl[ch.id].loc = ch.base.loc
  BY <1>1 DEF PendingConsistent
<1>3. QED
  BY <1>1, <1>2

LEMMA InitIInv == Init => IInv
<1> SUFFICES ASSUME Init PROVE IInv
  OBVIOUS
<1>1. Live = {}
  BY DEF Init, Live
<1>2. \A c \in Clients : req[c].pc # "commit"
  BY DEF Init, Idle
<1>3. QED
  BY <1>1, <1>2, InitTypeOK DEF IInv, LiveMinted, MetadataMatchesRow, PendingConsistent

LEMMA CreateTableIInv ==
    ASSUME IInv, NEW t \in Ident, NEW loc \in Locs, NEW staged \in BOOLEAN,
           NEW u \in Uuids, CreateTable(t, loc, staged, u)
    PROVE  IInv'
<1> DEFINE old  == {v \in Live : IdentOf(tbl[v]) = t}
           meta == [uuid |-> u, location |-> loc, snaps |-> {}, main |-> 0]
           row  == [ns |-> t.ns, name |-> t.name, loc |-> loc,
                    staged |-> staged, meta |-> meta]
<1>1. /\ u \notin minted
      /\ tbl' = [v \in Uuids |-> IF v = u THEN row
                                 ELSE IF v \in old THEN NoRow
                                 ELSE tbl[v]]
      /\ minted' = minted \cup {u}
      /\ req' = req
  BY DEF CreateTable
<1>2. TypeOK'
  BY CreateTableTypeOK DEF IInv
<1>3. LiveMinted'
  BY <1>1 DEF IInv, LiveMinted, Live, TypeOK
<1>4. MetadataMatchesRow'
  BY <1>1 DEF IInv, MetadataMatchesRow, Live, TypeOK
<1>5. PendingConsistent'
  <2>1. \A v \in minted : tbl'[v] = NoRow \/ (tbl[v] # NoRow /\ tbl'[v].loc = tbl[v].loc)
    BY <1>1 DEF IInv, TypeOK, Live
  <2>2. QED
    BY <1>1, <2>1, PendingStable DEF IInv
<1>6. QED
  BY <1>2, <1>3, <1>4, <1>5 DEF IInv

LEMMA CommitReadIInv ==
    ASSUME IInv, NEW c \in Clients, CommitRead(c)
    PROVE  IInv'
<1>0. PICK n \in 1..MaxChanges :
      /\ snapSeq + n <= MaxSnaps
      /\ \E idents \in [1..n -> Ident] :
           LET ids == TableIdentsToIds(idents, TRUE)
           IN  /\ \A i \in 1..n : ids[i] # NoId
               /\ \E rs \in [1..n -> Requirements], us \in [1..n -> Updates] :
                  /\ \A i \in 1..n : ApplyUpdate(us[i], tbl[ids[i]].meta, snapSeq + i) # {}
                  /\ req' = [req EXCEPT ![c] =
                              [pc |-> "commit",
                               changes |-> [i \in 1..n |-> ChangeOf(ids[i], us[i], snapSeq + i)]]]
  BY DEF CommitRead
<1>1. PICK idents \in [1..n -> Ident], us \in [1..n -> Updates] :
        LET ids == TableIdentsToIds(idents, TRUE)
        IN  /\ \A i \in 1..n : ids[i] # NoId
            /\ \A i \in 1..n : ApplyUpdate(us[i], tbl[ids[i]].meta, snapSeq + i) # {}
            /\ req' = [req EXCEPT ![c] =
                        [pc |-> "commit",
                         changes |-> [i \in 1..n |-> ChangeOf(ids[i], us[i], snapSeq + i)]]]
  BY <1>0
<1> DEFINE ids == TableIdentsToIds(idents, TRUE)
           chs == [i \in 1..n |-> ChangeOf(ids[i], us[i], snapSeq + i)]
<1>2. UNCHANGED <<tbl, minted>>
  BY DEF CommitRead
<1>3. TypeOK'
  BY CommitReadTypeOK DEF IInv
<1>4. (LiveMinted /\ MetadataMatchesRow)'
  BY <1>2 DEF IInv, LiveMinted, MetadataMatchesRow, Live
<1>5. ASSUME NEW j \in 1..n
      PROVE  /\ chs[j].id \in minted
             /\ chs[j].meta.uuid = chs[j].id
             /\ chs[j].meta.location = chs[j].base.loc
  <2>1. ids[j] \in Live
    BY <1>1, TableIdentToIdType DEF TableIdentsToIds
  <2>2. snapSeq + j \in SnapId
    <3>1. MaxSnaps \in Nat /\ snapSeq \in 0..MaxSnaps /\ snapSeq + n <= MaxSnaps /\ n \in Nat
      BY <1>0, ConstantsAssumption DEF TypeOK, IInv
    <3>2. j \in Nat /\ 1 <= j /\ j <= n
      OBVIOUS
    <3>3. snapSeq + j \in 1..MaxSnaps
      BY <3>1, <3>2
    <3>4. QED
      BY <3>3 DEF SnapId
  <2>3. /\ ChangeOf(ids[j], us[j], snapSeq + j).meta.uuid = tbl[ids[j]].meta.uuid
        /\ ChangeOf(ids[j], us[j], snapSeq + j).meta.location = tbl[ids[j]].meta.location
    BY <1>1, <2>1, <2>2, ChangeOfType DEF IInv
  <2>4. /\ tbl[ids[j]].meta.uuid = ids[j]
        /\ tbl[ids[j]].meta.location = tbl[ids[j]].loc
    BY <2>1 DEF IInv, MetadataMatchesRow
  <2>5. QED
    BY <2>1, <2>3, <2>4 DEF IInv, LiveMinted, ChangeOf
<1>6. PendingConsistent'
  <2> SUFFICES ASSUME NEW d \in Clients, req'[d].pc = "commit",
                      NEW i \in DOMAIN req'[d].changes
               PROVE  LET ch == req'[d].changes[i]
                      IN  /\ ch.id \in minted'
                          /\ ch.meta.uuid = ch.id
                          /\ ch.meta.location = ch.base.loc
                          /\ tbl'[ch.id] # NoRow => tbl'[ch.id].loc = ch.base.loc
    BY DEF PendingConsistent
  <2>1. CASE d = c
    <3>1. req'[d].changes = chs /\ DOMAIN chs = 1..n
      BY <1>1, <2>1 DEF IInv, TypeOK
    <3>2. chs[i].base = tbl[chs[i].id]
      BY <3>1 DEF ChangeOf
    <3>3. i \in 1..n
      BY <3>1
    <3>4. /\ chs[i].id \in minted
          /\ chs[i].meta.uuid = chs[i].id
          /\ chs[i].meta.location = chs[i].base.loc
      BY <3>3, <1>5
    <3>5. QED
      BY <1>2, <3>1, <3>2, <3>4
  <2>2. CASE d # c
    <3>1. req'[d] = req[d]
      BY <1>1, <2>2 DEF IInv, TypeOK
    <3>2. QED
      BY <1>2, <3>1 DEF IInv, PendingConsistent
  <2>3. QED
    BY <2>1, <2>2
<1>7. QED
  BY <1>3, <1>4, <1>6 DEF IInv

LEMMA CommitWriteIInv ==
    ASSUME IInv, NEW c \in Clients, CommitWrite(c)
    PROVE  IInv'
<1> DEFINE ps  == req[c].changes
           hit == {ps[i].meta.uuid : i \in DOMAIN ps} \cap Live
<1>1. TypeOK'
  BY CommitWriteTypeOK DEF IInv
<1>2. /\ req' = [req EXCEPT ![c] = Idle]
      /\ minted' = minted
      /\ req[c].pc = "commit"
  BY DEF CommitWrite
<1>3. \A d \in Clients : req'[d].pc = "commit" => req'[d] = req[d]
  BY <1>2 DEF IInv, TypeOK, Idle
<1>4. \A i \in DOMAIN ps : ps[i] \in Pending
  <2>1. req[c] \in [pc : {"commit"}, changes : Seq(Pending)]
    BY <1>2 DEF IInv, TypeOK, ReqState, Idle
  <2>2. QED
    BY <2>1, LenProperties
<1>5. CASE tbl' = tbl
  <2>1. PendingConsistent'
    BY <1>2, <1>3, <1>5, PendingStable DEF IInv, TypeOK
  <2>2. QED
    BY <1>1, <1>2, <1>5, <2>1 DEF IInv, LiveMinted, MetadataMatchesRow, Live
<1>6. CASE tbl' # tbl
  <2>1. PICK pick \in [hit -> DOMAIN ps] :
          /\ \A u \in hit : ps[pick[u]].meta.uuid = u
          /\ tbl' = [u \in Uuids |->
                       IF u \in hit
                       THEN [tbl[u] EXCEPT !.meta = ps[pick[u]].meta, !.staged = FALSE]
                       ELSE tbl[u]]
    BY <1>6 DEF CommitWrite
  <2>2. ASSUME NEW u \in hit
        PROVE  /\ tbl'[u] # NoRow
               /\ tbl'[u].loc = tbl[u].loc
               /\ tbl'[u].meta = ps[pick[u]].meta
    <3>1. tbl[u] \in Row /\ ps[pick[u]] \in Pending
      BY <1>4 DEF IInv, TypeOK, Live
    <3>2. u \in Uuids /\ pick[u] \in DOMAIN ps
      BY <2>1 DEF Live
    <3>3. tbl'[u] = [tbl[u] EXCEPT !.meta = ps[pick[u]].meta, !.staged = FALSE]
      BY <2>1, <3>2
    <3>4. [tbl[u] EXCEPT !.meta = ps[pick[u]].meta, !.staged = FALSE] \in Row
      BY <3>1 DEF Row, Pending
    <3>5. tbl'[u] # NoRow
      BY <3>3, <3>4, ConstantsAssumption
    <3>6. tbl'[u].loc = tbl[u].loc /\ tbl'[u].meta = ps[pick[u]].meta
      BY <3>1, <3>3 DEF Row
    <3>7. QED
      BY <3>5, <3>6
  <2>3. \A v \in Uuids \ hit : tbl'[v] = tbl[v]
    BY <2>1
  <2>4. Live' = Live
    BY <2>2, <2>3 DEF Live
  <2>5. MetadataMatchesRow'
    <3> SUFFICES ASSUME NEW u \in Live'
                 PROVE  tbl'[u].meta.uuid = u /\ tbl'[u].meta.location = tbl'[u].loc
      BY DEF MetadataMatchesRow
    <3>1. CASE u \in hit
      <4> DEFINE k == pick[u]
      <4>1. k \in DOMAIN ps /\ ps[k] \in Pending
        BY <1>4, <2>1, <3>1
      <4>2. /\ ps[k].meta.uuid = ps[k].id
            /\ ps[k].meta.location = ps[k].base.loc
            /\ tbl[ps[k].id] # NoRow => tbl[ps[k].id].loc = ps[k].base.loc
        <5>1. PendingConsistent
          BY DEF IInv
        <5>2. QED
          BY <1>2, <4>1, <5>1 DEF PendingConsistent
      <4>5. ps[k].meta.uuid = u
        BY <2>1, <3>1
      <4>3. tbl[u] # NoRow
        BY <3>1 DEF Live
      <4>4. QED
        BY <2>2, <3>1, <4>2, <4>3, <4>5
    <3>2. CASE u \notin hit
      BY <2>3, <2>4, <3>2 DEF IInv, MetadataMatchesRow, Live
    <3>3. QED
      BY <3>1, <3>2
  <2>6. PendingConsistent'
    <3>1. \A v \in minted : tbl'[v] = NoRow \/ (tbl[v] # NoRow /\ tbl'[v].loc = tbl[v].loc)
      BY <2>2, <2>3 DEF IInv, TypeOK, Live
    <3>2. QED
      BY <1>2, <1>3, <3>1, PendingStable DEF IInv
  <2>7. QED
    BY <1>1, <1>2, <2>4, <2>5, <2>6 DEF IInv, LiveMinted
<1>7. QED
  BY <1>5, <1>6

LEMMA ResolveIInv ==
    ASSUME IInv, NEW c \in Clients, ResolveForRename(c) \/ ResolveForDrop(c)
    PROVE  IInv'
<1>1. TypeOK'
  BY ResolveTypeOK DEF IInv
<1>2. /\ UNCHANGED <<tbl, minted>>
      /\ req'[c].pc \in {"rename", "drop"}
      /\ \A d \in Clients \ {c} : req'[d] = req[d]
  BY DEF ResolveForRename, ResolveForDrop, IInv, TypeOK
<1>3. PendingConsistent'
  BY <1>2, PendingStable DEF IInv, TypeOK
<1>4. QED
  BY <1>1, <1>2, <1>3 DEF IInv, LiveMinted, MetadataMatchesRow, Live

LEMMA RenameWriteIInv ==
    ASSUME IInv, NEW c \in Clients, RenameWrite(c)
    PROVE  IInv'
<1> DEFINE r == req[c]
           id == r.id
<1>1. TypeOK'
  BY RenameWriteTypeOK DEF IInv
<1>2. /\ req' = [req EXCEPT ![c] = Idle]
      /\ minted' = minted
      /\ r.pc = "rename"
  BY DEF RenameWrite
<1>3. \A d \in Clients : req'[d].pc = "commit" => req'[d] = req[d]
  BY <1>2 DEF IInv, TypeOK, Idle
<1>4. r.id \in Uuids /\ r.dst \in Ident
  BY <1>2 DEF IInv, TypeOK, ReqState, Idle
<1>5. CASE tbl' = tbl
  <2>1. PendingConsistent'
    BY <1>2, <1>3, <1>5, PendingStable DEF IInv, TypeOK
  <2>2. QED
    BY <1>1, <1>2, <1>5, <2>1 DEF IInv, LiveMinted, MetadataMatchesRow, Live
<1>6. CASE tbl' # tbl
  <2>0. PICK new \in {[tbl[id] EXCEPT !.name = r.dst.name],
                      [tbl[id] EXCEPT !.name = r.dst.name, !.ns = r.dst.ns]} :
          tbl' = [tbl EXCEPT ![id] = new]
    BY <1>6 DEF RenameWrite
  <2>1. id \in Live
    BY <1>6 DEF RenameWrite
  <2>2. tbl[id] \in Row
    BY <2>1 DEF Live, IInv, TypeOK
  <2>3. /\ tbl'[id] # NoRow
        /\ tbl'[id].loc = tbl[id].loc
        /\ tbl'[id].meta = tbl[id].meta
    <3>2. new \in Row
      BY <1>4, <2>2 DEF Row, Ident
    <3>3. new.loc = tbl[id].loc /\ new.meta = tbl[id].meta
      BY <2>2 DEF Row
    <3>4. tbl'[id] = new
      BY <1>4, <2>0 DEF IInv, TypeOK
    <3>5. QED
      BY <3>2, <3>3, <3>4, ConstantsAssumption
  <2>4. \A v \in Uuids \ {id} : tbl'[v] = tbl[v]
    BY <2>0 DEF IInv, TypeOK
  <2>5. Live' = Live
    BY <1>4, <2>1, <2>3, <2>4 DEF Live
  <2>6. MetadataMatchesRow'
    <3> SUFFICES ASSUME NEW v \in Live'
                 PROVE  tbl'[v].meta.uuid = v /\ tbl'[v].meta.location = tbl'[v].loc
      BY DEF MetadataMatchesRow
    <3>1. v \in Live /\ v \in Uuids
      BY <2>5 DEF Live
    <3>2. tbl[v].meta.uuid = v /\ tbl[v].meta.location = tbl[v].loc
      BY <3>1 DEF IInv, MetadataMatchesRow
    <3>3. CASE v = id
      BY <2>3, <3>2, <3>3
    <3>4. CASE v # id
      BY <2>4, <3>1, <3>2, <3>4
    <3>5. QED
      BY <3>3, <3>4
  <2>7. PendingConsistent'
    <3>1. \A v \in minted : tbl'[v] = NoRow \/ (tbl[v] # NoRow /\ tbl'[v].loc = tbl[v].loc)
      BY <1>4, <2>1, <2>3, <2>4 DEF IInv, TypeOK, Live
    <3>2. QED
      BY <1>2, <1>3, <3>1, PendingStable DEF IInv
  <2>8. QED
    BY <1>1, <1>2, <2>5, <2>6, <2>7 DEF IInv, LiveMinted
<1>7. QED
  BY <1>5, <1>6

LEMMA DropWriteIInv ==
    ASSUME IInv, NEW c \in Clients, DropWrite(c)
    PROVE  IInv'
<1>1. TypeOK'
  BY DropWriteTypeOK DEF IInv
<1>2. /\ req' = [req EXCEPT ![c] = Idle]
      /\ minted' = minted
      /\ req[c].pc = "drop"
      /\ tbl' = [tbl EXCEPT ![req[c].id] = NoRow]
  BY DEF DropWrite
<1>3. \A d \in Clients : req'[d].pc = "commit" => req'[d] = req[d]
  BY <1>2 DEF IInv, TypeOK, Idle
<1>4. \A v \in Uuids : tbl'[v] = NoRow \/ tbl'[v] = tbl[v]
  BY <1>2 DEF IInv, TypeOK
<1>5. PendingConsistent'
  BY <1>2, <1>3, <1>4, PendingStable DEF IInv, TypeOK
<1>6. QED
  BY <1>1, <1>2, <1>4, <1>5 DEF IInv, LiveMinted, MetadataMatchesRow, Live

LEMMA NextIInv == IInv /\ [Next]_vars => IInv'
<1> SUFFICES ASSUME IInv, [Next]_vars PROVE IInv'
  OBVIOUS
<1>1. CASE \E t \in Ident, loc \in Locs, staged \in BOOLEAN, u \in Uuids :
             CreateTable(t, loc, staged, u)
  BY <1>1, CreateTableIInv
<1>2. ASSUME NEW c \in Clients,
             \/ CommitRead(c) \/ CommitWrite(c)
             \/ ResolveForRename(c) \/ RenameWrite(c)
             \/ ResolveForDrop(c) \/ DropWrite(c)
      PROVE  IInv'
  BY <1>2, CommitReadIInv, CommitWriteIInv, ResolveIInv,
     RenameWriteIInv, DropWriteIInv
<1>3. CASE UNCHANGED vars
  BY <1>3 DEF vars, IInv, TypeOK, LiveMinted, MetadataMatchesRow,
             PendingConsistent, Live
<1>4. QED
  BY <1>1, <1>2, <1>3 DEF Next

(* Every table's metadata names its row, for every value of the           *)
(* constants: the uuid of the metadata is the table_id and its location  *)
(* the table_location, through create_table over staged rows, commits    *)
(* written back by the uuid of the metadata they computed, renames and    *)
(* drops.  The inductive invariant adds that live ids were minted and     *)
(* that a commit in flight carries metadata of the row it read, whose     *)
(* location no later step changes.                                       *)
THEOREM MetadataMatchesRowInvariant == Spec => []MetadataMatchesRow
<1>1. IInv => MetadataMatchesRow
  BY DEF IInv
<1>2. QED
  BY InitIInv, NextIInv, <1>1, PTL DEF Spec

-----------------------------------------------------------------------------
(* Identifiers stay unique.  TypeOK /\ IdentsUnique is inductive: a step  *)
(* either keeps the identifier of every row it leaves live, or is         *)
(* create_table, which removes the rows of the name it inserts, or        *)
(* rename_table, which writes only under the unique constraint.          *)

UInv == TypeOK /\ IdentsUnique

(* A step that drops rows or keeps their identifiers keeps them unique.   *)
LEMMA IdentsStable ==
    ASSUME TypeOK, IdentsUnique,
           \A v \in Uuids : \/ tbl'[v] = NoRow
                            \/ tbl[v] # NoRow /\ IdentOf(tbl'[v]) = IdentOf(tbl[v])
    PROVE  IdentsUnique'
BY DEF IdentsUnique, Live

LEMMA CreateTableUnique ==
    ASSUME TypeOK, IdentsUnique, NEW t \in Ident, NEW loc \in Locs,
           NEW staged \in BOOLEAN, NEW u \in Uuids, CreateTable(t, loc, staged, u)
    PROVE  IdentsUnique'
<1> DEFINE old  == {v \in Live : IdentOf(tbl[v]) = t}
           meta == [uuid |-> u, location |-> loc, snaps |-> {}, main |-> 0]
           row  == [ns |-> t.ns, name |-> t.name, loc |-> loc,
                    staged |-> staged, meta |-> meta]
<1>1. tbl' = [v \in Uuids |-> IF v = u THEN row
                              ELSE IF v \in old THEN NoRow
                              ELSE tbl[v]]
  BY DEF CreateTable
<1>2. IdentOf(row) = t
  BY DEF IdentOf, Ident
<1>3. \A v \in Live' \ {u} : v \in Live \ old /\ tbl'[v] = tbl[v]
  BY <1>1 DEF Live
<1> SUFFICES ASSUME NEW a \in Live', NEW b \in Live', a # b,
                    IdentOf(tbl'[a]) = IdentOf(tbl'[b])
             PROVE  FALSE
  BY DEF IdentsUnique
<1>4. CASE a = u
  BY <1>1, <1>2, <1>3, <1>4
<1>5. CASE b = u
  BY <1>1, <1>2, <1>3, <1>5
<1>6. CASE a # u /\ b # u
  BY <1>3, <1>6 DEF IdentsUnique
<1>7. QED
  BY <1>4, <1>5, <1>6

LEMMA CommitWriteUnique ==
    ASSUME TypeOK, IdentsUnique, NEW c \in Clients, CommitWrite(c)
    PROVE  IdentsUnique'
<1> DEFINE ps  == req[c].changes
           hit == {ps[i].meta.uuid : i \in DOMAIN ps} \cap Live
<1>1. CASE tbl' = tbl
  BY <1>1, IdentsStable
<1>2. CASE tbl' # tbl
  <2>1. PICK pick \in [hit -> DOMAIN ps] :
          tbl' = [u \in Uuids |->
                    IF u \in hit
                    THEN [tbl[u] EXCEPT !.meta = ps[pick[u]].meta, !.staged = FALSE]
                    ELSE tbl[u]]
    BY <1>2 DEF CommitWrite
  <2>2. ASSUME NEW v \in hit
        PROVE  tbl[v] # NoRow /\ IdentOf(tbl'[v]) = IdentOf(tbl[v])
    <3>1. tbl[v] \in Row /\ v \in Uuids /\ tbl[v] # NoRow
      BY DEF TypeOK, Live
    <3>2. tbl'[v] = [tbl[v] EXCEPT !.meta = ps[pick[v]].meta, !.staged = FALSE]
      BY <2>1, <3>1
    <3>3. QED
      BY <3>1, <3>2 DEF Row, IdentOf
  <2>3. \A v \in Uuids \ hit : tbl'[v] = tbl[v]
    BY <2>1
  <2>4. QED
    BY <2>2, <2>3, IdentsStable DEF Live
<1>3. QED
  BY <1>1, <1>2

LEMMA RenameWriteUnique ==
    ASSUME TypeOK, IdentsUnique, NEW c \in Clients, RenameWrite(c)
    PROVE  IdentsUnique'
<1> DEFINE r == req[c]
           id == r.id
<1>1. CASE tbl' = tbl
  BY <1>1, IdentsStable
<1>2. CASE tbl' # tbl
  <2>1. PICK new \in {[tbl[id] EXCEPT !.name = r.dst.name],
                      [tbl[id] EXCEPT !.name = r.dst.name, !.ns = r.dst.ns]} :
          /\ id \in Live
          /\ RenameUnique(id, new)
          /\ tbl' = [tbl EXCEPT ![id] = new]
    BY <1>2 DEF RenameWrite
  <2>2. id \in Uuids /\ tbl'[id] = new
    BY <2>1 DEF Live, TypeOK
  <2>3. \A v \in Uuids \ {id} : tbl'[v] = tbl[v]
    BY <2>1 DEF TypeOK
  <2>4. \A v \in Live' \ {id} : v \in Live /\ IdentOf(tbl[v]) # IdentOf(new)
    BY <2>1, <2>3 DEF RenameUnique, Live
  <2> SUFFICES ASSUME NEW a \in Live', NEW b \in Live', a # b,
                      IdentOf(tbl'[a]) = IdentOf(tbl'[b])
               PROVE  FALSE
    BY DEF IdentsUnique
  <2>5. CASE a = id
    BY <2>2, <2>3, <2>4, <2>5 DEF Live
  <2>6. CASE b = id
    BY <2>2, <2>3, <2>4, <2>6 DEF Live
  <2>7. CASE a # id /\ b # id
    BY <2>3, <2>4, <2>7 DEF IdentsUnique, Live
  <2>8. QED
    BY <2>5, <2>6, <2>7
<1>3. QED
  BY <1>1, <1>2

LEMMA DropWriteUnique ==
    ASSUME TypeOK, IdentsUnique, NEW c \in Clients, DropWrite(c)
    PROVE  IdentsUnique'
<1>1. tbl' = [tbl EXCEPT ![req[c].id] = NoRow]
  BY DEF DropWrite
<1>2. \A v \in Uuids : tbl'[v] = NoRow \/ tbl'[v] = tbl[v]
  BY <1>1 DEF TypeOK
<1>3. QED
  BY <1>2, IdentsStable

LEMMA NextUnique == UInv /\ [Next]_vars => UInv'
<1> SUFFICES ASSUME UInv, [Next]_vars PROVE UInv'
  OBVIOUS
<1>1. TypeOK'
  BY NextTypeOK DEF UInv
<1>2. CASE \E t \in Ident, loc \in Locs, staged \in BOOLEAN, u \in Uuids :
             CreateTable(t, loc, staged, u)
  BY <1>1, <1>2, CreateTableUnique DEF UInv
<1>3. ASSUME NEW c \in Clients, CommitRead(c) \/ ResolveForRename(c) \/ ResolveForDrop(c)
      PROVE  IdentsUnique'
  BY <1>3, IdentsStable DEF UInv, CommitRead, ResolveForRename, ResolveForDrop
<1>4. ASSUME NEW c \in Clients, CommitWrite(c) \/ RenameWrite(c) \/ DropWrite(c)
      PROVE  IdentsUnique'
  BY <1>4, CommitWriteUnique, RenameWriteUnique, DropWriteUnique DEF UInv
<1>5. CASE UNCHANGED vars
  BY <1>1, <1>5, IdentsStable DEF vars, UInv
<1>6. QED
  BY <1>1, <1>2, <1>3, <1>4, <1>5 DEF Next, UInv

(* No two live rows share a (namespace, name), for every value of the     *)
(* constants: create_table removes the staged rows it overwrites, and     *)
(* rename_table writes only when the unique constraint admits the new     *)
(* identifier.  It is what makes table_ident_to_id and load_table agree.  *)
LEMMA IdentsUniqueInvariant == Spec => []IdentsUnique
<1>1. Init => UInv
  BY InitTypeOK DEF Init, UInv, IdentsUnique, Live
<1>2. UInv => IdentsUnique
  BY DEF UInv
<1>3. QED
  BY <1>1, <1>2, NextUnique, PTL DEF Spec

-----------------------------------------------------------------------------
(* The read paths agree once identifiers are unique: every path looks up  *)
(* the one row named t, and each filters staged rows the same way.        *)
LEMMA ReadPathsAgreeFromUnique == UInv => ReadPathsAgree
<1> SUFFICES ASSUME UInv, NEW t \in Ident
             PROVE  LET id   == TableIdentToId(t, FALSE)
                        list == ListTables(t.ns, FALSE)
                    IN  /\ LoadTable(t) = IF id = NoId THEN {} ELSE {id}
                        /\ {u \in DOMAIN list : list[u] = t} = LoadTable(t)
                        /\ \A u \in Uuids : (GetTableMetadataById(u, FALSE) = {t})
                                             <=> u \in LoadTable(t)
  BY DEF ReadPathsAgree
<1> DEFINE hits == {u \in Live : IdentOf(tbl[u]) = t}
           list == ListTables(t.ns, FALSE)
<1>1. \A u \in Uuids : u \in LoadTable(t) <=> u \in hits /\ ~tbl[u].staged
  BY DEF LoadTable
<1>2. /\ DOMAIN list = {v \in Live : tbl[v].ns = t.ns /\ ~tbl[v].staged}
      /\ \A u \in DOMAIN list : list[u] = IdentOf(tbl[u])
  BY DEF ListTables
<1>3. {u \in DOMAIN list : list[u] = t} = LoadTable(t)
  <2>1. \A u \in Live : IdentOf(tbl[u]) = t => tbl[u].ns = t.ns
    BY DEF IdentOf, Ident
  <2>2. ASSUME NEW u \in Uuids
        PROVE  (u \in DOMAIN list /\ list[u] = t) <=> u \in LoadTable(t)
    BY <1>1, <1>2, <2>1 DEF Live
  <2>3. DOMAIN list \subseteq Uuids /\ LoadTable(t) \subseteq Uuids
    BY <1>2 DEF LoadTable, Live
  <2>4. QED
    BY <2>2, <2>3
<1>4. \A u \in Uuids : (GetTableMetadataById(u, FALSE) = {t}) <=> u \in LoadTable(t)
  BY <1>1 DEF GetTableMetadataById
<1>5. \A u, v \in hits : u = v
  BY DEF UInv, IdentsUnique
<1>6. CASE hits = {}
  <2>1. TableIdentToId(t, FALSE) = NoId
    BY <1>6 DEF TableIdentToId
  <2>2. LoadTable(t) = {}
    BY <1>1, <1>6 DEF LoadTable
  <2>3. QED
    BY <1>3, <1>4, <2>1, <2>2
<1>7. CASE hits # {}
  <2>1. PICK v \in hits : TRUE
    BY <1>7
  <2>2. hits = {v}
    BY <1>5
  <2>3. TableIdentToId(t, FALSE) = IF tbl[v].staged THEN NoId ELSE v
    BY <2>2 DEF TableIdentToId
  <2>4. LoadTable(t) = IF tbl[v].staged THEN {} ELSE {v}
    BY <1>1, <2>2 DEF LoadTable
  <2>5. v # NoId
    BY ConstantsAssumption DEF Live
  <2>6. QED
    BY <1>3, <1>4, <2>3, <2>4, <2>5
<1>8. QED
  BY <1>6, <1>7

(* The read paths agree in every reachable state, for every value of the  *)
(* constants: table_ident_to_id, load_table, list_tables and             *)
(* get_table_metadata_by_id find the same committed table under each      *)
(* identifier, because no two live rows share one.                       *)
THEOREM ReadPathsAgreeInvariant == Spec => []ReadPathsAgree
<1>1. Init => UInv
  BY InitTypeOK DEF Init, UInv, IdentsUnique, Live
<1>2. QED
  BY <1>1, NextUnique, ReadPathsAgreeFromUnique, PTL DEF Spec

=============================================================================
