--------------------------- MODULE PageTokenProofs ---------------------------
(***************************************************************************)
(* Proofs about module PageToken, for every set of sample strings and     *)
(* every set of connections: the JSON round trip of PageToken, the type   *)
(* invariant of the exchanges, and exactly which NextPageToken values a   *)
(* reader gets back.                                                      *)
(***************************************************************************)
EXTENDS PageToken, TLAPS

-----------------------------------------------------------------------------
(* Deserialize inverts Serialize on every PageToken: the query parameter  *)
(* keeps the three states absent, empty and present.                      *)
LEMMA PageTokenSerdeInverse ==
    ASSUME NEW t \in PageToken
    PROVE  DeserializePageToken(SerializePageToken(t)) = t
<1>1. CASE t \in [kind : {"present"}, s : Strings \ {""}]
  <2>1. t.kind = "present" /\ t.s \in Strings /\ t.s # ""
    BY <1>1
  <2>2. t = [kind |-> "present", s |-> t.s]
    BY <1>1
  <2>3. SerializePageToken(t) = t.s
    BY <2>1 DEF SerializePageToken
  <2>4. t.s # None
    BY <2>1, StringsAssumption
  <2>5. QED
    BY <2>1, <2>2, <2>3, <2>4 DEF DeserializePageToken
<1>2. CASE t = [kind |-> "not_specified"]
  BY <1>2 DEF SerializePageToken, DeserializePageToken
<1>3. CASE t = [kind |-> "empty"]
  <2>1. SerializePageToken(t) = "" /\ "" # None
    BY <1>3, StringsAssumption DEF SerializePageToken
  <2>2. QED
    BY <1>3, <2>1 DEF DeserializePageToken
<1>4. QED
  BY <1>1, <1>2, <1>3 DEF PageToken

(* The constructors and the serde functions stay within their types.      *)
LEMMA PageTokenOpsType ==
    /\ \A str \in Strings : NewPresent(str) \in PageToken
    /\ \A str \in Strings : NewNextToken(str) \in NextPageToken
    /\ \A t \in PageToken : SerializePageToken(t) \in Json
    /\ \A t \in NextPageToken : SerializeNextPageToken(t) \in Json
    /\ \A j \in Json : DeserializeNextPageToken(j) \in NextPageToken
<1>1. \A str \in Strings : NewPresent(str) \in PageToken
  BY DEF NewPresent, PageToken
<1>2. \A str \in Strings : NewNextToken(str) \in NextPageToken
  BY DEF NewNextToken, NextPageToken
<1>3. ASSUME NEW t \in PageToken PROVE SerializePageToken(t) \in Json
  <2>1. CASE t \in [kind : {"present"}, s : Strings \ {""}]
    BY <2>1 DEF SerializePageToken, Json
  <2>2. CASE t = [kind |-> "not_specified"]
    BY <2>2 DEF SerializePageToken, Json
  <2>3. CASE t = [kind |-> "empty"]
    BY <2>3, StringsAssumption DEF SerializePageToken, Json
  <2>4. QED
    BY <2>1, <2>2, <2>3 DEF PageToken
<1>4. ASSUME NEW t \in NextPageToken PROVE SerializeNextPageToken(t) \in Json
  <2>1. CASE t \in [kind : {"next"}, s : Strings]
    BY <2>1 DEF SerializeNextPageToken, Json
  <2>2. CASE t = [kind |-> "finished"]
    BY <2>2, StringsAssumption DEF SerializeNextPageToken, Json
  <2>3. CASE t = [kind |-> "not_supported"]
    BY <2>3 DEF SerializeNextPageToken, Json
  <2>4. QED
    BY <2>1, <2>2, <2>3 DEF NextPageToken
<1>5. \A j \in Json : DeserializeNextPageToken(j) \in NextPageToken
  BY DEF Json, DeserializeNextPageToken, NextPageToken
<1>6. QED
  BY <1>1, <1>2, <1>3, <1>4, <1>5

-----------------------------------------------------------------------------
LEMMA InitTypeOK == Init => TypeOK
BY DEF Init, TypeOK, Json

LEMMA NextTypeOK == TypeOK /\ [Next]_vars => TypeOK'
<1> SUFFICES ASSUME TypeOK, [Next]_vars PROVE TypeOK'
  OBVIOUS
<1>1. ASSUME NEW k \in Conns,
             NEW t \in {[kind |-> "not_specified"]} \cup {NewPresent(str) : str \in Strings},
             Request(k, t)
      PROVE  TypeOK'
  <2>1. t \in PageToken
    BY PageTokenOpsType DEF PageToken
  <2>2. QED
    BY <1>1, <2>1 DEF Request, TypeOK, Json
<1>2. ASSUME NEW k \in Conns, ParseRequest(k) PROVE TypeOK'
  <2>1. reqSent[k] \in PageToken
    BY <1>2 DEF ParseRequest, TypeOK
  <2>2. DeserializePageToken(SerializePageToken(reqSent[k])) \in PageToken
    BY <2>1, PageTokenSerdeInverse
  <2>3. QED
    BY <1>2, <2>2 DEF ParseRequest, TypeOK
<1>3. ASSUME NEW k \in Conns,
             NEW t \in {NewNextToken(str) : str \in Strings}
                       \cup {[kind |-> "finished"], [kind |-> "not_supported"]},
             Respond(k, t)
      PROVE  TypeOK'
  <2>1. t \in NextPageToken
    BY PageTokenOpsType DEF NextPageToken
  <2>2. SerializeNextPageToken(t) \in Json
    BY <2>1, PageTokenOpsType
  <2>3. QED
    BY <1>3, <2>1, <2>2 DEF Respond, TypeOK
<1>4. ASSUME NEW k \in Conns, Read(k) PROVE TypeOK'
  <2>1. DeserializeNextPageToken(wire[k]) \in NextPageToken
    BY PageTokenOpsType DEF TypeOK
  <2>2. QED
    BY <1>4, <2>1 DEF Read, TypeOK
<1>5. CASE UNCHANGED vars
  BY <1>5 DEF vars, TypeOK
<1>6. QED
  BY <1>1, <1>2, <1>3, <1>4, <1>5 DEF Next

(* Every reachable state of the exchanges is well typed.                  *)
THEOREM TypeCorrect == Spec => []TypeOK
BY InitTypeOK, NextTypeOK, PTL DEF Spec

-----------------------------------------------------------------------------
(* The inductive form of PageTokenRoundTrip: with the type invariant, a   *)
(* parsed token is reset by every new request and set only by parsing.   *)
PInv == TypeOK /\ PageTokenRoundTrip

LEMMA NextPInv == PInv /\ [Next]_vars => PInv'
<1> SUFFICES ASSUME PInv, [Next]_vars PROVE PInv'
  OBVIOUS
<1>1. TypeOK'
  BY NextTypeOK DEF PInv
<1>2. ASSUME NEW k \in Conns, NEW t, Request(k, t) PROVE PageTokenRoundTrip'
  BY <1>2 DEF Request, PInv, TypeOK, PageTokenRoundTrip
<1>3. ASSUME NEW k \in Conns, ParseRequest(k) PROVE PageTokenRoundTrip'
  <2>1. reqSent[k] \in PageToken
    BY <1>3 DEF ParseRequest, PInv, TypeOK
  <2>2. reqRecv'[k] = reqSent[k]
    BY <1>3, <2>1, PageTokenSerdeInverse DEF ParseRequest, PInv, TypeOK
  <2>3. QED
    BY <1>3, <2>2 DEF ParseRequest, PInv, TypeOK, PageTokenRoundTrip
<1>4. ASSUME NEW k \in Conns, NEW t, Respond(k, t) \/ Read(k) PROVE PageTokenRoundTrip'
  BY <1>4 DEF Respond, Read, PInv, PageTokenRoundTrip
<1>5. CASE UNCHANGED vars
  BY <1>1, <1>5 DEF vars, PInv, PageTokenRoundTrip
<1>6. QED
  BY <1>1, <1>2, <1>3, <1>4, <1>5 DEF Next, PInv

(* page-token survives the query string in every reachable state, for     *)
(* every set of strings and connections: the server parses the token the *)
(* client sent, absent, empty or present.                                *)
THEOREM PageTokenRoundTripInvariant == Spec => []PageTokenRoundTrip
<1>1. Init => PInv
  BY InitTypeOK DEF Init, PInv, PageTokenRoundTrip
<1>2. PInv => PageTokenRoundTrip
  BY DEF PInv
<1>3. QED
  BY <1>1, <1>2, NextPInv, PTL DEF Spec

-----------------------------------------------------------------------------
(* Exactly one token built by NextPageToken::new_next_token or sent as    *)
(* NotSupported is misread by the Deserialize impl: Finished, the token   *)
(* of the empty string, which is serialized as "null" and read back as    *)
(* NextToken("null") because the arm for every non-empty string comes     *)
(* before the arm for "null".  Every other constructed token survives.    *)
THEOREM NextTokenRoundTripExactly ==
    \A str \in Strings :
        LET t == NewNextToken(str)
        IN  DeserializeNextPageToken(SerializeNextPageToken(t)) = t <=> str # ""
<1> SUFFICES ASSUME NEW str \in Strings
             PROVE  (DeserializeNextPageToken(SerializeNextPageToken(NewNextToken(str)))
                       = NewNextToken(str)) <=> str # ""
  OBVIOUS
<1>1. "null" # None /\ "" # None /\ str # None
  BY StringsAssumption
<1>2. CASE str = ""
  <2>1. NewNextToken(str) = [kind |-> "finished"]
    BY <1>2 DEF NewNextToken
  <2>2. SerializeNextPageToken([kind |-> "finished"]) = "null"
    BY DEF SerializeNextPageToken
  <2>3. DeserializeNextPageToken("null") = [kind |-> "next", s |-> "null"]
    BY <1>1 DEF DeserializeNextPageToken
  <2>4. [kind |-> "next", s |-> "null"] # [kind |-> "finished"]
    OBVIOUS
  <2>5. QED
    BY <1>2, <2>1, <2>2, <2>3, <2>4
<1>3. CASE str = "null"
  <2>1. NewNextToken(str) = [kind |-> "not_supported"]
    BY <1>3 DEF NewNextToken
  <2>2. SerializeNextPageToken([kind |-> "not_supported"]) = None
    BY DEF SerializeNextPageToken
  <2>3. DeserializeNextPageToken(None) = [kind |-> "not_supported"]
    BY DEF DeserializeNextPageToken
  <2>4. QED
    BY <1>3, <2>1, <2>2, <2>3
<1>4. CASE str \notin {"", "null"}
  <2>1. NewNextToken(str) = [kind |-> "next", s |-> str]
    BY <1>4 DEF NewNextToken
  <2>2. SerializeNextPageToken([kind |-> "next", s |-> str]) = str
    BY DEF SerializeNextPageToken
  <2>3. DeserializeNextPageToken(str) = [kind |-> "next", s |-> str]
    BY <1>1, <1>4 DEF DeserializeNextPageToken
  <2>4. QED
    BY <1>4, <2>1, <2>2, <2>3
<1>5. QED
  BY <1>2, <1>3, <1>4

=============================================================================
