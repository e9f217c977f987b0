------------------------- MODULE MC_LocationLookup -------------------------
(* Lookup by location over a catalog of tables created by one client.     *)
EXTENDS LocationLookup, TLC

CONSTANTS c1, u1, u2, u3, ns1, n1, n2

MCClients == {c1}
MCUuids == {u1, u2, u3}
MCNamespaces == {ns1}
MCNames == {n1, n2}

(* "a" is a prefix of the others; "a_" and "a%" hold an unescaped LIKE   *)
(* wildcard, "a\" the escape character, which escapes the appended "%".  *)
MCLocs == {<<"a">>, <<"a", "_">>, <<"a", "%">>, <<"a", "\\">>}

Chars == {"a", "b", "_", "%", "\\"}
(* The paths tried: every string of one or two characters; the matcher   *)
(* is compared with the reference on strings of up to three.              *)
MCPaths == UNION {[1..n -> Chars] : n \in 1..2}
RefPaths == UNION {[1..n -> Chars] : n \in 0..3}

MCRequirements == {[kind |-> "none"]}
MCUpdates == {[kind |-> "add_snapshot"]}

(* A reference LIKE, by recursion on the pattern as Postgres scans it:    *)
(* the escape character makes the next one literal, "%" takes any run,    *)
(* "_" one character, any other character itself.                         *)
RECURSIVE LikeRef(_, _)
LikeRef(s, q) ==
    IF q = <<>> THEN s = <<>>
    ELSE IF Head(q) = Esc /\ Len(q) >= 2
         THEN s # <<>> /\ Head(s) = q[2] /\ LikeRef(Tail(s), Tail(Tail(q)))
    ELSE IF Head(q) = "%"
         THEN LikeRef(s, Tail(q)) \/ (s # <<>> /\ LikeRef(Tail(s), q))
    ELSE s # <<>> /\ (Head(q) = "_" \/ Head(s) = Head(q)) /\ LikeRef(Tail(s), Tail(q))

(* The matcher of LocationLookup agrees with the reference on every       *)
(* pattern loc || '%' with loc of at most two characters and every path.  *)
ASSUME LikeAgreesWithReference ==
    \A loc \in UNION {[1..n -> Chars] : n \in 0..2} :
        \A p \in RefPaths :
            Like(p, loc \o <<"%">>) = LikeRef(p, loc \o <<"%">>)
=============================================================================
