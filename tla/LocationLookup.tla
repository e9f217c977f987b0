--------------------------- MODULE LocationLookup ---------------------------
(***************************************************************************)
(* get_table_metadata_by_s3_location over the catalog of module Catalog.  *)
(* A location is a sequence of characters; the query selects the rows     *)
(* with  $path LIKE t.table_location || '%'  and                          *)
(* LENGTH(t.table_location) <= length of $path, under an active           *)
(* warehouse, and fetch_one returns the first of them.  The characters    *)
(* of the model include the ones LIKE gives a meaning: "_" (any one      *)
(* character), "%" (any run) and the default escape character "\".       *)
(***************************************************************************)
EXTENDS Catalog

CONSTANT Paths      \* the query paths tried, sequences of characters

(* Table locations and query paths are strings, sequences of characters. *)
ASSUME SequencesAssumption == Locs \subseteq Seq(STRING) /\ Paths \subseteq Seq(STRING)

(* s is a prefix of t: IsPrefix of SequencesExt, written with SubSeq of   *)
(* Sequences so that the properties below can be proved (SequencesExt     *)
(* declares RECURSIVE operators, which the prover cannot load).           *)
IsPrefixOf(s, t) == Len(s) <= Len(t) /\ SubSeq(t, 1, Len(s)) = s

(* The default escape character of LIKE.                                 *)
Esc == "\\"

(* The number of escape characters right before position i of pattern q. *)
EscRun(q, i) ==
    CHOOSE k \in 0..(i - 1) :
        /\ \A j \in (i - k)..(i - 1) : q[j] = Esc
        /\ k = i - 1 \/ q[i - k - 1] # Esc

(* Position i of q is escaped: an odd run of escape characters precedes it. *)
Escaped(q, i) == EscRun(q, i) % 2 = 1

(* The positions of q that are pattern elements: all but the escape      *)
(* characters that escape the next one.                                  *)
Tokens(q) == {i \in 1..Len(q) : q[i] # Esc \/ Escaped(q, i)}

(* The elements of q before position i.                                  *)
ElemsBefore(q, i) == {j \in Tokens(q) : j < i}

(* Where the part of path taken by the elements before i ends, e[j]       *)
(* being where the part of element j ends.                                *)
ElemStart(q, e, i) ==
    IF ElemsBefore(q, i) = {} THEN 0
    ELSE e[CHOOSE j \in ElemsBefore(q, i) : \A k \in ElemsBefore(q, i) : k <= j]

(* The ends e split path among the elements of q in order: an unescaped   *)
(* "%" takes any run, an unescaped "_" one character, any other element   *)
(* one character equal to it; the last element ends at the end of path.   *)
SplitFits(path, q, e) ==
    /\ e[Len(q)] = Len(path)
    /\ \A i \in Tokens(q) :
          IF q[i] = "%" /\ ~Escaped(q, i)
          THEN e[i] >= ElemStart(q, e, i)
          ELSE /\ e[i] = ElemStart(q, e, i) + 1
               /\ (q[i] = "_" /\ ~Escaped(q, i)) \/ path[e[i]] = q[i]

(* path LIKE q, for a pattern q that ends in "%" (as every pattern of the *)
(* query does): some split of path fits the elements of q.                *)
Like(path, q) == \E e \in [Tokens(q) -> 0..Len(path)] : SplitFits(path, q, e)

(* Mutant: the pattern is '%' || loc || '%', a match anywhere in path.  *)
LikePrefixAnywhere(path, loc) == Like(path, <<"%">> \o loc \o <<"%">>)

(* $2 LIKE t.table_location || '%': the stored location is the pattern,  *)
(* with its "_", "%" and "\" read as LIKE reads them.                   *)
LikePrefix(path, loc) == Like(path, loc \o <<"%">>)

(* Mutant: the length guard compares with < instead of <=.                *)
LocationMatchesStrict(path) ==
    {u \in Live : LikePrefix(path, tbl[u].loc) /\ Len(tbl[u].loc) < Len(path)}

(* The rows the SELECT returns for path; fetch_one takes any one of them, *)
(* NotFound if there is none.                                             *)
LocationMatches(path) ==
    {u \in Live : LikePrefix(path, tbl[u].loc) /\ Len(tbl[u].loc) <= Len(path)}

-----------------------------------------------------------------------------
(* The location loc holds the character c.                                *)
Holds(loc, c) == \E i \in 1..Len(loc) : loc[i] = c

(* The lookup finds every table that owns the path: when a table's        *)
(* location is a prefix of the path (the path itself or a file under it), *)
(* the query returns that table's row among its results (spec 4.2).       *)
LookupFindsOwner ==
    \A p \in Paths : \A u \in Live :
        IsPrefixOf(tbl[u].loc, p) => u \in LocationMatches(p)

(* The same for the locations without the escape character: "_" and "%"  *)
(* in the stored location only widen the LIKE, so the owner is found      *)
(* (LookupFindsOwner fails only for a location holding a backslash).     *)
LookupComplete ==
    \A p \in Paths : \A u \in Live :
        ~Holds(tbl[u].loc, Esc) /\ IsPrefixOf(tbl[u].loc, p)
            => u \in LocationMatches(p)

(* The lookup returns only a table that owns the path: every row the      *)
(* query returns has a location that is a prefix of the path (spec 4.2:   *)
(* "the unique table whose table_location is a prefix of path").          *)
LookupReturnsOwner ==
    \A p \in Paths : \A u \in LocationMatches(p) : IsPrefixOf(tbl[u].loc, p)

(* The wildcard finding, bounded: every row the query returns for a path  *)
(* belongs to a table that owns the path unless its location holds one of *)
(* the characters LIKE gives a meaning, "_", "%" or the escape character  *)
(* (LookupReturnsOwner fails only for such locations).                    *)
OwnerUnlessWildcard ==
    \A p \in Paths : \A u \in LocationMatches(p) :
        (\A c \in {"_", "%", Esc} : ~Holds(tbl[u].loc, c))
            => IsPrefixOf(tbl[u].loc, p)

(* The lookup is unambiguous: no path is matched by two rows (spec        *)
(* invariant 7: a table location that is a prefix of another is to be     *)
(* disallowed), so fetch_one has no choice to make.                      *)
LookupUnambiguous ==
    \A p \in Paths : Cardinality(LocationMatches(p)) <= 1
=============================================================================
