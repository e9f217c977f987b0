--------------------------- MODULE WarehouseProofs ---------------------------
(***************************************************************************)
(* Proofs about module Warehouse, for every value of its constants: type  *)
(* correctness of every step of create_warehouse and delete_warehouse.    *)
(***************************************************************************)
EXTENDS Warehouse, TLAPS

-----------------------------------------------------------------------------
(* Type correctness.                                                      *)

LEMMA InitTypeOK == Init => TypeOK
BY WarehouseAssumption DEF Init, TypeOK, Idle

LEMMA NextTypeOK == TypeOK /\ [Next]_vars => TypeOK'
<1> SUFFICES ASSUME TypeOK, [Next]_vars PROVE TypeOK'
  OBVIOUS
<1>1. ASSUME NEW c \in Clients, NEW p \in Projects, NEW n \in WhNames,
             NEW cred \in BOOLEAN, Begin(c, p, n, cred)
      PROVE  TypeOK'
  BY <1>1, WarehouseAssumption DEF Begin, TypeOK, CreateState
<1>2. ASSUME NEW c \in Clients, CreateSecret(c) PROVE TypeOK'
  <2>1. req[c] \in CreateState
    BY <1>2 DEF CreateSecret, TypeOK, Idle
  <2>2. CASE \E s \in Secrets \ store :
               /\ store' = store \cup {s}
               /\ req' = [req EXCEPT ![c].secret = s, ![c].pc = "insert"]
    <3>1. PICK s \in Secrets \ store :
            /\ store' = store \cup {s}
            /\ req' = [req EXCEPT ![c].secret = s, ![c].pc = "insert"]
      BY <2>2
    <3>2. req' = [req EXCEPT ![c] = [req[c] EXCEPT !.secret = s, !.pc = "insert"]]
      BY <3>1 DEF TypeOK
    <3>3. [req[c] EXCEPT !.secret = s, !.pc = "insert"] \in CreateState
      BY <2>1 DEF CreateState
    <3>4. QED
      BY <1>2, <3>1, <3>2, <3>3 DEF CreateSecret, TypeOK
  <2>3. CASE req' = [req EXCEPT ![c] = Idle] /\ UNCHANGED store
    BY <1>2, <2>3 DEF CreateSecret, TypeOK
  <2>4. QED
    BY <1>2, <2>2, <2>3 DEF CreateSecret
<1>3. ASSUME NEW c \in Clients, CreateWarehouseProfile(c) PROVE TypeOK'
  <2>1. req[c] \in CreateState
    BY <1>3 DEF CreateWarehouseProfile, TypeOK, Idle
  <2>2. CASE \E w \in WhIds \ minted :
               /\ req' = [req EXCEPT ![c].id = w, ![c].pc = "commit"]
               /\ minted' = minted \cup {w}
    <3>1. PICK w \in WhIds \ minted :
            /\ req' = [req EXCEPT ![c].id = w, ![c].pc = "commit"]
            /\ minted' = minted \cup {w}
      BY <2>2
    <3>2. req' = [req EXCEPT ![c] = [req[c] EXCEPT !.id = w, !.pc = "commit"]]
      BY <3>1 DEF TypeOK
    <3>3. [req[c] EXCEPT !.id = w, !.pc = "commit"] \in CreateState
      BY <2>1 DEF CreateState
    <3>4. UNCHANGED <<wh, store, requests>>
      BY <1>3 DEF CreateWarehouseProfile
    <3>5. QED
      BY <3>1, <3>2, <3>3, <3>4 DEF TypeOK
  <2>3. CASE req' = [req EXCEPT ![c] = Idle] /\ UNCHANGED minted
    BY <1>3, <2>3 DEF CreateWarehouseProfile, TypeOK
  <2>4. QED
    BY <1>3, <2>2, <2>3 DEF CreateWarehouseProfile
<1>4. ASSUME NEW c \in Clients, Commit(c) PROVE TypeOK'
  <2>1. req[c] \in CreateState
    BY <1>4 DEF Commit, TypeOK, Idle
  <2>2. [project |-> req[c].project, name |-> req[c].name,
         secret |-> req[c].secret] \in WhRow
    BY <2>1 DEF CreateState, WhRow
  <2>3. QED
    BY <1>4, <2>2 DEF Commit, TypeOK
<1>5. ASSUME NEW c \in Clients, Cancel(c) PROVE TypeOK'
  BY <1>5 DEF Cancel, TypeOK
<1>6. ASSUME NEW w \in WhIds, DeleteWarehouse(w) PROVE TypeOK'
  BY <1>6 DEF DeleteWarehouse, TypeOK
<1>7. CASE UNCHANGED vars
  BY <1>7 DEF vars, TypeOK
<1>8. QED
  BY <1>1, <1>2, <1>3, <1>4, <1>5, <1>6, <1>7 DEF Next

(* The type invariant holds in every reachable state.                     *)
THEOREM TypeCorrect == Spec => []TypeOK
BY InitTypeOK, NextTypeOK, PTL DEF Spec

=============================================================================
