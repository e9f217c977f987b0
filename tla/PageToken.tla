------------------------------ MODULE PageToken ------------------------------
(***************************************************************************)
(* The pagination tokens of crates/iceberg-rest-server/src/types.rs and    *)
(* their JSON form.  A JSON field is absent (None) or a string; strings   *)
(* are drawn from Strings, which holds "" and "null".  A response is      *)
(* serialized by the server and deserialized by a reader of the same type *)
(* (a client built on these types, or a test).                            *)
(***************************************************************************)
CONSTANTS
    Strings,    \* sample string values
    Conns,      \* connections on which list requests are exchanged
    None        \* the absent JSON value

ASSUME StringsAssumption == {"", "null"} \subseteq Strings /\ None \notin Strings

PageToken ==
    [kind : {"present"}, s : Strings \ {""}]
    \cup {[kind |-> "not_specified"], [kind |-> "empty"]}

(* The values of the enum: NextToken's doc comment asks for a string     *)
(* that is "not "" and not "null"", but the variant is public and holds   *)
(* any string.                                                           *)
NextPageToken ==
    [kind : {"next"}, s : Strings]
    \cup {[kind |-> "finished"], [kind |-> "not_supported"]}

(* PageToken::new_present                                                *)
NewPresent(str) ==
    IF str = "" THEN [kind |-> "empty"] ELSE [kind |-> "present", s |-> str]

(* NextPageToken::new_next_token, the constructor that keeps NextToken    *)
(* away from "" and "null".                                              *)
NewNextToken(str) ==
    CASE str = ""     -> [kind |-> "finished"]
      [] str = "null" -> [kind |-> "not_supported"]
      [] OTHER        -> [kind |-> "next", s |-> str]

Json == Strings \cup {None}

(* impl Serialize for PageToken                                          *)
SerializePageToken(t) ==
    CASE t.kind = "present"       -> t.s
      [] t.kind = "not_specified" -> None
      [] t.kind = "empty"         -> ""

(* Mutant: the first arm without its guard !s.is_empty().                 *)
DeserializePageTokenNoGuard(j) ==
    IF j # None THEN [kind |-> "present", s |-> j] ELSE [kind |-> "not_specified"]

(* Mutant: no Some(_) arm; an empty value is read as absent.              *)
DeserializePageTokenNoEmptyArm(j) ==
    IF j # None /\ j # "" THEN [kind |-> "present", s |-> j]
    ELSE [kind |-> "not_specified"]

(* impl Deserialize for PageToken: the first match arm that fits.        *)
DeserializePageToken(j) ==
    IF j # None /\ j # "" THEN [kind |-> "present", s |-> j]
    ELSE IF j # None THEN [kind |-> "empty"]
    ELSE [kind |-> "not_specified"]

(* impl Serialize for NextPageToken                                      *)
SerializeNextPageToken(t) ==
    CASE t.kind = "next"          -> t.s
      [] t.kind = "finished"      -> "null"
      [] t.kind = "not_supported" -> None

(* impl Deserialize for NextPageToken: the first match arm that fits, in *)
(* the order of the code.                                                 *)
DeserializeNextPageToken(j) ==
    IF j # None /\ j # "" THEN [kind |-> "next", s |-> j]
    ELSE IF j # None /\ j = "null" THEN [kind |-> "not_supported"]
    ELSE IF j # None THEN [kind |-> "finished"]
    ELSE [kind |-> "not_supported"]

VARIABLES
    reqSent,    \* per connection: the page token a client put in its query
    reqRecv,    \* per connection: the page token the server parsed
    sent,       \* per connection: the next-page token of the response
    wire,       \* per connection: the JSON value of that field
    received    \* per connection: the next-page token the client parsed

vars == <<reqSent, reqRecv, sent, wire, received>>

Init ==
    /\ reqSent = [k \in Conns |-> None] /\ reqRecv = [k \in Conns |-> None]
    /\ sent = [k \in Conns |-> None] /\ wire = [k \in Conns |-> None]
    /\ received = [k \in Conns |-> None]

(* A client sends a list request with page token t on connection k (a     *)
(* new exchange: the previous one on k, if any, is finished).            *)
Request(k, t) ==
    /\ reqSent[k] = None \/ received[k] # None
    /\ reqSent' = [reqSent EXCEPT ![k] = t]
    /\ reqRecv' = [reqRecv EXCEPT ![k] = None]
    /\ sent' = [sent EXCEPT ![k] = None]
    /\ wire' = [wire EXCEPT ![k] = None]
    /\ received' = [received EXCEPT ![k] = None]

(* The server parses the query parameter.                                *)
ParseRequest(k) ==
    /\ reqSent[k] # None /\ reqRecv[k] = None
    /\ reqRecv' = [reqRecv EXCEPT ![k] = DeserializePageToken(SerializePageToken(reqSent[k]))]
    /\ UNCHANGED <<reqSent, sent, wire, received>>

(* The server responds with next-page token t, built by one of the       *)
(* constructors, and serializes it.                                       *)
Respond(k, t) ==
    /\ reqRecv[k] # None /\ sent[k] = None
    /\ sent' = [sent EXCEPT ![k] = t]
    /\ wire' = [wire EXCEPT ![k] = SerializeNextPageToken(t)]
    /\ UNCHANGED <<reqSent, reqRecv, received>>

(* The client deserializes the field.                                     *)
Read(k) ==
    /\ sent[k] # None /\ received[k] = None
    /\ received' = [received EXCEPT ![k] = DeserializeNextPageToken(wire[k])]
    /\ UNCHANGED <<reqSent, reqRecv, sent, wire>>

Next ==
    \E k \in Conns :
       \/ \E t \in {[kind |-> "not_specified"]} \cup {NewPresent(str) : str \in Strings} :
            Request(k, t)
       \/ ParseRequest(k)
       \/ \E t \in {NewNextToken(str) : str \in Strings}
                   \cup {[kind |-> "finished"], [kind |-> "not_supported"]} :
            Respond(k, t)
       \/ Read(k)

Spec == Init /\ [][Next]_vars

(* Type invariant.                                                        *)
TypeOK ==
    /\ reqSent \in [Conns -> PageToken \cup {None}]
    /\ reqRecv \in [Conns -> PageToken \cup {None}]
    /\ sent \in [Conns -> NextPageToken \cup {None}]
    /\ wire \in [Conns -> Json]
    /\ received \in [Conns -> NextPageToken \cup {None}]

(* page-token survives the query string: the token the server parses is  *)
(* the one the client sent, for the three states a page token has        *)
(* (absent, empty, present).                                             *)
PageTokenRoundTrip ==
    \A k \in Conns : reqRecv[k] # None => reqRecv[k] = reqSent[k]

(* next-page-token survives the wire: what a client deserializes is the  *)
(* token the server serialized.  The Deserialize impl has an arm for     *)
(* "null" (the encoding of Finished), placed after the arm that takes    *)
(* every non-empty string.                                               *)
NextPageTokenRoundTrip ==
    \A k \in Conns : received[k] # None => received[k] = sent[k]
=============================================================================
