------------------------ MODULE LocationLookupProofs ------------------------
(***************************************************************************)
(* Proofs about get_table_metadata_by_s3_location (module LocationLookup) *)
(* for every alphabet, every set of locations and paths and every value   *)
(* of the catalog's constants: the LIKE query finds every table whose     *)
(* location, free of the escape character, is a prefix of the path.      *)
(***************************************************************************)
EXTENDS LocationLookup, CatalogProofs

-----------------------------------------------------------------------------
(* In a pattern without the escape character no run of it precedes any   *)
(* position.                                                              *)
LEMMA NoEscRun ==
    ASSUME NEW q, \A j \in 1..Len(q) : q[j] # Esc,
           NEW i \in 1..Len(q)
    PROVE  EscRun(q, i) = 0
<1> DEFINE P(k) == /\ \A j \in (i - k)..(i - 1) : q[j] = Esc
                   /\ k = i - 1 \/ q[i - k - 1] # Esc
<1>1. P(0)
  OBVIOUS
<1>2. \A k \in 0..(i - 1) : P(k) => k = 0
  <2> SUFFICES ASSUME NEW k \in 0..(i - 1), P(k), k # 0 PROVE FALSE
    OBVIOUS
  <2>1. i - 1 \in (i - k)..(i - 1) /\ i - 1 \in 1..Len(q)
    OBVIOUS
  <2>2. QED
    BY <2>1
<1>3. QED
  BY <1>1, <1>2 DEF EscRun

(* Without the escape character, every position of a pattern is an       *)
(* element and none is escaped.                                           *)
LEMMA PlainTokens ==
    ASSUME NEW q, \A j \in 1..Len(q) : q[j] # Esc
    PROVE  /\ Tokens(q) = 1..Len(q)
           /\ \A i \in 1..Len(q) : ~Escaped(q, i)
<1>1. \A i \in 1..Len(q) : ~Escaped(q, i)
  BY NoEscRun DEF Escaped
<1>2. QED
  BY <1>1 DEF Tokens

(* The greatest of 1..n is n.                                             *)
LEMMA IntervalMax ==
    ASSUME NEW n \in Nat \ {0}
    PROVE  (CHOOSE j \in 1..n : \A k \in 1..n : k <= j) = n
<1>1. \A j \in 1..n : (\A k \in 1..n : k <= j) => j = n
  OBVIOUS
<1>2. \A k \in 1..n : k <= n
  OBVIOUS
<1>3. QED
  BY <1>1, <1>2

(* Under a pattern without the escape character, the part of the         *)
(* elements before i ends where the element i - 1 ends.                   *)
LEMMA PlainStart ==
    ASSUME NEW q, \A j \in 1..Len(q) : q[j] # Esc,
           NEW e, NEW i \in 1..Len(q)
    PROVE  ElemStart(q, e, i) = IF i = 1 THEN 0 ELSE e[i - 1]
<1>1. ElemsBefore(q, i) = 1..(i - 1)
  BY PlainTokens DEF ElemsBefore
<1>2. CASE i = 1
  <2>1. ElemsBefore(q, i) = {}
    BY <1>1, <1>2
  <2>2. QED
    BY <2>1, <1>2 DEF ElemStart
<1>3. CASE i # 1
  <2>1. (CHOOSE j \in 1..(i - 1) : \A k \in 1..(i - 1) : k <= j) = i - 1
    BY <1>3, IntervalMax
  <2>2. 1..(i - 1) # {}
    BY <1>3
  <2>3. (CHOOSE j \in ElemsBefore(q, i) : \A k \in ElemsBefore(q, i) : k <= j) = i - 1
    BY <1>1, <2>1, Zenon
  <2>4. ElemsBefore(q, i) # {}
    BY <1>1, <2>2
  <2>5. ElemStart(q, e, i) = e[CHOOSE j \in ElemsBefore(q, i) : \A k \in ElemsBefore(q, i) : k <= j]
    BY <2>4 DEF ElemStart
  <2>6. QED
    BY <2>3, <2>5, <1>3
<1>4. QED
  BY <1>2, <1>3

-----------------------------------------------------------------------------
(* A location without the escape character that is a prefix of the path  *)
(* passes both conditions of the WHERE clause: the LIKE (each character   *)
(* of the location takes the same character of the path, the appended "%" *)
(* the rest) and LENGTH(location) <= LENGTH(path).                        *)
LEMMA PrefixMatches ==
    ASSUME NEW loc \in Seq(STRING), NEW path \in Seq(STRING),
           ~Holds(loc, Esc), IsPrefixOf(loc, path)
    PROVE  LikePrefix(path, loc) /\ Len(loc) <= Len(path)
<1> DEFINE pat == loc \o <<"%">>
           len == Len(loc)
           ends == [x \in 1..(len + 1) |-> IF x <= len THEN x ELSE Len(path)]
<1>1. len <= Len(path) /\ SubSeq(path, 1, len) = loc
  BY DEF IsPrefixOf
<1>2. \A m \in 1..len : loc[m] = path[m] /\ path[m] \in STRING
  <2> SUFFICES ASSUME NEW m \in 1..len PROVE loc[m] = path[m] /\ path[m] \in STRING
    OBVIOUS
  <2>1. SubSeq(path, 1, len)[m] = path[m]
    BY <1>1
  <2>2. QED
    BY <1>1, <2>1
<1> DEFINE Chr == STRING \cup {"%"}
<1>3. /\ pat \in Seq(Chr)
      /\ Len(pat) = len + 1
      /\ \A m \in 1..len : pat[m] = loc[m]
      /\ pat[len + 1] = "%"
  <2>1. "%" \in Chr /\ loc \in Seq(Chr)
    BY SeqMonotonic
  <2>2. pat = Append(loc, "%")
    BY <2>1, AppendIsConcat
  <2>3. QED
    BY <2>1, <2>2, AppendProperties
<1>4. \A m \in 1..Len(pat) : pat[m] # Esc
  <2>1. \A m \in 1..len : pat[m] # Esc
    BY <1>3 DEF Holds
  <2>2. "%" # Esc
    BY DEF Esc
  <2>3. QED
    BY <1>3, <2>1, <2>2
<1>5. Tokens(pat) = 1..(len + 1) /\ \A m \in 1..(len + 1) : ~Escaped(pat, m)
  BY <1>3, <1>4, PlainTokens
<1>6. ends \in [Tokens(pat) -> 0..Len(path)]
  BY <1>1, <1>5
<1>7. \A m \in 1..(len + 1) : ElemStart(pat, ends, m) = m - 1
  <2> SUFFICES ASSUME NEW m \in 1..(len + 1) PROVE ElemStart(pat, ends, m) = m - 1
    OBVIOUS
  <2>0. m \in 1..Len(pat)
    BY <1>3
  <2>1. \A f : ElemStart(pat, f, m) = IF m = 1 THEN 0 ELSE f[m - 1]
    BY <1>4, <2>0, PlainStart, Zenon
  <2>2. m # 1 => ends[m - 1] = m - 1
    OBVIOUS
  <2>3. ElemStart(pat, ends, m) = IF m = 1 THEN 0 ELSE ends[m - 1]
    BY <2>1, Zenon
  <2>4. QED
    BY <2>2, <2>3
<1>8. SplitFits(path, pat, ends)
  <2>1. ends[Len(pat)] = Len(path)
    BY <1>3
  <2>2. ASSUME NEW m \in 1..(len + 1)
        PROVE  IF pat[m] = "%" /\ ~Escaped(pat, m)
               THEN ends[m] >= ElemStart(pat, ends, m)
               ELSE /\ ends[m] = ElemStart(pat, ends, m) + 1
                    /\ (pat[m] = "_" /\ ~Escaped(pat, m)) \/ path[ends[m]] = pat[m]
    <3>1. ElemStart(pat, ends, m) = m - 1
      BY <1>7
    <3>2. CASE m <= len
      <4>1. ends[m] = m
        BY <3>2
      <4>2. pat[m] = path[m]
        BY <1>2, <1>3, <3>2
      <4>3. m \in Nat /\ m = (m - 1) + 1 /\ m >= m - 1
        BY <3>2
      <4>4. QED
        BY <3>1, <4>1, <4>2, <4>3
    <3>3. CASE m = len + 1
      <4>1. ends[m] = Len(path) /\ pat[m] = "%" /\ ~Escaped(pat, m)
        BY <1>3, <1>5, <3>3
      <4>2. Len(path) >= m - 1
        BY <1>1, <3>3
      <4>3. Len(path) >= ElemStart(pat, ends, m)
        BY <3>1, <4>2
      <4>4. QED
        BY <4>1, <4>3, Zenon
    <3>4. m <= len \/ m = len + 1
      OBVIOUS
    <3>5. QED
      BY <3>2, <3>3, <3>4
  <2>3. QED
    BY <2>1, <2>2, <1>5 DEF SplitFits
<1>9. QED
  BY <1>1, <1>6, <1>8 DEF LikePrefix, Like

(* The location of a live row is a string.                                *)
LEMMA LiveLocation ==
    ASSUME TypeOK, NEW u \in Live
    PROVE  tbl[u].loc \in Seq(STRING)
BY SequencesAssumption DEF TypeOK, Live, Row

-----------------------------------------------------------------------------
(* The lookup by location finds every table that owns the path and whose  *)
(* location holds no backslash, in every reachable state of the catalog:  *)
(* creates, commits, renames and drops never make                         *)
(* get_table_metadata_by_s3_location miss such a row.                     *)
THEOREM LookupCompleteInvariant == Spec => []LookupComplete
<1>1. TypeOK => LookupComplete
  <2> SUFFICES ASSUME TypeOK, NEW p \in Paths, NEW u \in Live,
                      ~Holds(tbl[u].loc, Esc), IsPrefixOf(tbl[u].loc, p)
               PROVE  u \in LocationMatches(p)
    BY DEF LookupComplete
  <2>1. tbl[u].loc \in Seq(STRING) /\ p \in Seq(STRING)
    BY LiveLocation, SequencesAssumption
  <2>2. QED
    BY <2>1, PrefixMatches DEF LocationMatches
<1>2. QED
  BY <1>1, TypeCorrect, PTL

=============================================================================
