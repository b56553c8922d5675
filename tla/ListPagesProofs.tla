---------------------------- MODULE ListPagesProofs ----------------------------
(***************************************************************************)
(* What a client that reads a list page by page is promised: proofs about  *)
(* ListPages, for any list, page size and number of changes.  The place of *)
(* an item in the list is the number of items ahead of it (Rank); a page   *)
(* is the items whose rank lies between two tokens, and a change that lets *)
(* nothing out of the list, or nothing in, moves ranks one way only.       *)
(***************************************************************************)
EXTENDS ListPages, FiniteSetTheorems, SequenceTheorems, TLAPS

-------------------------------------------------------------------------------
(***************************************************************************)
(* Sequences and pages.                                                    *)
(***************************************************************************)

\* The smaller of two numbers.
LEMMA MinOfTwo ==
    ASSUME NEW a \in Int, NEW b \in Int
    PROVE  Min({a, b}) = IF a <= b THEN a ELSE b
<1>. DEFINE m == IF a <= b THEN a ELSE b
<1>1. m \in {a, b} /\ \A y \in {a, b} : m <= y  OBVIOUS
<1>2. \A x \in {a, b} : (\A y \in {a, b} : x <= y) => x = m  OBVIOUS
<1>. QED  BY <1>1, <1>2 DEF Min

\* LIMIT and OFFSET return the rows between two positions.
LEMMA SliceIs ==
    ASSUME NEW S, NEW s \in Seq(S), NEW offset \in Nat, NEW n \in Nat
    PROVE  /\ Slice(s, offset, n) \in Seq(S)
           /\ Len(Slice(s, offset, n)) <= n
           /\ \A k \in 1 .. Len(Slice(s, offset, n)) :
                 offset + k \in 1 .. Len(s) /\ Slice(s, offset, n)[k] = s[offset + k]
           /\ \A k \in 1 .. n : offset + k <= Len(s) => k <= Len(Slice(s, offset, n))
<1>1. PICK len \in Nat : len = Len(s)  BY LenProperties
<1>2. PICK d \in Int : d = len - offset  OBVIOUS
<1>3. PICK m \in Int : m = Min({n, d}) /\ m = IF n <= d THEN n ELSE d  BY MinOfTwo
<1>4. PICK size \in Nat : size = IF m < 0 THEN 0 ELSE m  OBVIOUS
<1>5. 1 .. m = 1 .. size  BY <1>4
<1>6. Slice(s, offset, n) = [k \in 1 .. size |-> s[offset + k]]
  BY <1>1, <1>2, <1>3, <1>5 DEF Slice
<1>7. \A k \in 1 .. size : offset + k \in 1 .. len  BY <1>2, <1>3, <1>4
<1>8. \A k \in 1 .. size : s[offset + k] \in S  BY <1>1, <1>7, ElementOfSeq
<1>9. /\ [k \in 1 .. size |-> s[offset + k]] \in Seq(S)
      /\ Len([k \in 1 .. size |-> s[offset + k]]) = size
  BY <1>8
<1>10. \A k \in 1 .. n : offset + k <= len => k <= size  BY <1>2, <1>3, <1>4
<1>11. size <= n  BY <1>2, <1>3, <1>4
<1>. QED  BY <1>1, <1>6, <1>7, <1>9, <1>10, <1>11

-------------------------------------------------------------------------------
(***************************************************************************)
(* The order of a list.                                                    *)
(***************************************************************************)

\* Item i comes before item j, newest first.
Ahead(r, i, j) == r[i].at > r[j].at \/ (r[i].at = r[j].at /\ i > j)

\* How many items come before item i.
Rank(r, i) == Cardinality({j \in Listed(r) : Ahead(r, j, i)})

\* A row that is listed has a time.
Stamped(r) == \A i \in Listed(r) : r[i].at > 0

\* Two items are not ahead of each other, and one of them is.
LEMMA AheadIsOrder ==
    ASSUME NEW r \in [Items -> Rows], NEW i \in Items, NEW j \in Items
    PROVE  /\ ~(Ahead(r, i, j) /\ Ahead(r, j, i))
           /\ i # j => Ahead(r, i, j) \/ Ahead(r, j, i)
           /\ \A m \in Items : Ahead(r, m, i) /\ Ahead(r, i, j) => Ahead(r, m, j)
<1>1. /\ i \in Nat /\ j \in Nat /\ r[i].at \in Nat /\ r[j].at \in Nat
      /\ \A m \in Items : m \in Nat /\ r[m].at \in Nat
  BY ListAssumption DEF Rows
<1>. QED  BY <1>1 DEF Ahead

\* Where no two times tie, the order of the query is that order.
LEMMA QueryOrder ==
    ASSUME list \in Lists, NEW r \in [Items -> Rows], ~Tied(r), Stamped(r),
           NEW i \in Listed(r), NEW j \in Listed(r), i # j, Before(list, r, i, j)
    PROVE  Ahead(r, i, j)
<1>1. i \in Items /\ j \in Items  BY DEF Listed
<1>2. r[i].at \in Nat /\ r[j].at \in Nat  BY <1>1, ListAssumption DEF Rows
<1>3. CASE r[i].at > r[j].at  BY <1>3 DEF Ahead
<1>4. CASE r[i].at = r[j].at /\ (list = "history" => i > j)
  <2>1. r[i].at # 0  BY <1>2 DEF Stamped
  <2>2. list # "favorites"  BY <1>1, <1>4, <2>1 DEF Tied
  <2>3. list = "history"  BY <2>2 DEF Lists
  <2>. QED  BY <1>4, <2>3 DEF Ahead
<1>. QED  BY <1>3, <1>4 DEF Before

\* What the query returns: each listed item once, in the order.
LEMMA ResultIs ==
    ASSUME NEW r \in [Items -> Rows], NEW s \in Results(list, r)
    PROVE  /\ s \in Seq(Listed(r))
           /\ \A i \in Listed(r) : \E k \in 1 .. Len(s) : s[k] = i
           /\ \A j, k \in 1 .. Len(s) : s[j] = s[k] => j = k
           /\ \A j, k \in 1 .. Len(s) : j < k => Before(list, r, s[j], s[k])
<1>. DEFINE L == Listed(r)
<1>1. L \subseteq Items /\ IsFiniteSet(L)
  BY ListAssumption, FS_Subset DEF Listed
<1>2. PICK n \in Nat : n = Cardinality(L)  BY <1>1, FS_CardinalityType
<1>3. /\ s \in [1 .. n -> L]
      /\ \A j, k \in 1 .. n : j # k => s[j] # s[k]
      /\ \A j, k \in DOMAIN s : j < k => Before(list, r, s[j], s[k])
  BY <1>2 DEF Results, SetToSeqs
<1>4. s \in Seq(L) /\ Len(s) = n  BY <1>3
<1>5. s \in Injection(1 .. n, L)  BY <1>3 DEF Injection, IsInjective
<1>6. Cardinality(1 .. n) = n  BY FS_Interval
<1>7. s \in Surjection(1 .. n, L)  BY <1>1, <1>2, <1>5, <1>6, FS_Injection
<1>8. \A i \in L : \E k \in 1 .. n : s[k] = i  BY <1>7 DEF Surjection
<1>. QED  BY <1>3, <1>4, <1>8

\* The item at a place of the result has as many items ahead of it.
LEMMA RankOfPosition ==
    ASSUME list \in Lists, NEW r \in [Items -> Rows], ~Tied(r), Stamped(r),
           NEW s \in Results(list, r), NEW k \in 1 .. Len(s)
    PROVE  s[k] \in Listed(r) /\ Rank(r, s[k]) = k - 1
<1>. DEFINE T == {j \in Listed(r) : Ahead(r, j, s[k])}
            D == 1 .. (k - 1)
            f == [m \in D |-> s[m]]
<1>0. s \in Seq(Listed(r))  BY ResultIs
<1>1. PICK n \in Nat : n = Len(s)  BY <1>0, LenProperties
<1>00. s \in [1 .. n -> Listed(r)]  BY <1>0, <1>1, LenProperties
<1>2. /\ s \in [1 .. n -> Listed(r)]
      /\ \A i \in Listed(r) : \E m \in 1 .. n : s[m] = i
      /\ \A j, m \in 1 .. n : s[j] = s[m] => j = m
      /\ \A j, m \in 1 .. n : j < m => Before(list, r, s[j], s[m])
  BY <1>1, <1>00, ResultIs
<1>3. k \in 1 .. n /\ k \in Nat /\ D \subseteq 1 .. n  BY <1>1
<1>4. \A j, m \in 1 .. n : j < m => Ahead(r, s[j], s[m])
  BY <1>2, QueryOrder
<1>5. Listed(r) \subseteq Items  BY DEF Listed
<1>6. \A m \in 1 .. n : Ahead(r, s[m], s[k]) => m \in D
  <2>. SUFFICES ASSUME NEW m \in 1 .. n, Ahead(r, s[m], s[k])  PROVE m \in D
    OBVIOUS
  <2>1. s[m] \in Items /\ s[k] \in Items  BY <1>2, <1>3, <1>5
  <2>2. ~Ahead(r, s[k], s[m])  BY <2>1, AheadIsOrder
  <2>3. ~(k < m)  BY <1>3, <1>4, <2>2
  <2>4. m # k  BY <2>2
  <2>. QED  BY <1>3, <2>3, <2>4
<1>7. \A m \in D : s[m] \in T
  BY <1>2, <1>3, <1>4
<1>8. f \in [D -> T]  BY <1>7
<1>9. f \in Bijection(D, T)
  <2>1. \A j, m \in D : f[j] = f[m] => j = m  BY <1>2, <1>3
  <2>2. \A t \in T : \E m \in D : f[m] = t
    <3>. SUFFICES ASSUME NEW t \in T  PROVE \E m \in D : f[m] = t
      OBVIOUS
    <3>1. PICK m \in 1 .. n : s[m] = t  BY <1>2
    <3>2. m \in D  BY <1>6, <3>1
    <3>. QED  BY <3>1, <3>2
  <2>. QED  BY <1>8, <2>1, <2>2 DEF Bijection, Injection, Surjection, IsInjective
<1>10. IsFiniteSet(D) /\ Cardinality(D) = k - 1  BY <1>3, FS_Interval
<1>11. Cardinality(T) = k - 1
  BY <1>9, <1>10, FS_Bijection DEF ExistsBijection
<1>. QED  BY <1>2, <1>3, <1>11 DEF Rank


-------------------------------------------------------------------------------
(***************************************************************************)
(* The steps.                                                              *)
(***************************************************************************)

\* What holds besides the types: a page that is being made was asked for at a
\* token, it is full if another one follows, and a row that nobody touched is
\* as it was when the reading began.
ReadInv ==
    /\ Stamped(rows)
    /\ \A i \in Items \ touched : rows[i] = first[i]
    /\ Making => token >= 0
    /\ Making => (page.next # -1 => Len(page.items) = limit)

\* The page holds the rows of the result from the token on, as many as the
\* limit allows, and there is a next page exactly if the result goes on.
LEMMA PageRead ==
    ASSUME TypeOK, ReadItems
    PROVE  \E s \in Results(list, rows) :
             /\ page'.items \in Seq(Listed(rows)) /\ Len(page'.items) <= limit
             /\ \A k \in 1 .. Len(page'.items) :
                   token + k \in 1 .. Len(s) /\ page'.items[k] = s[token + k]
             /\ \A k \in 1 .. limit : token + k <= Len(s) => k <= Len(page'.items)
             /\ page'.next # -1 => page'.next = token + limit /\ Len(page'.items) = limit
             /\ page'.next = -1 => Len(s) <= token + limit
             /\ page'.asked = catalog
<1>1. PICK s \in Results(list, rows) :
        page' = [items |-> Slice(Slice(s, token, limit + 1), 0, limit),
                 next |-> NextToken(token, Len(Slice(s, token, limit + 1))),
                 asked |-> catalog]
  BY DEF ReadItems
<1>2. rows \in [Items -> Rows] /\ limit \in Nat \ {0} /\ token \in Nat
  <2>1. limit \in 1 .. MaxPageSize /\ answered \in Seq(Entries) /\ token \in {-1, Len(answered)}
    BY DEF TypeOK
  <2>2. token >= 0  BY DEF ReadItems
  <2>3. Len(answered) \in Nat  BY <2>1, LenProperties
  <2>. QED  BY <2>1, <2>2, <2>3, ListAssumption DEF TypeOK
<1>3. s \in Seq(Listed(rows))  BY <1>2, ResultIs
<1>4. PICK found : found = Slice(s, token, limit + 1)  OBVIOUS
<1>5. PICK len \in Nat : len = Len(s)  BY <1>3, LenProperties
<1>6. /\ found \in Seq(Listed(rows)) /\ Len(found) <= limit + 1
      /\ \A k \in 1 .. Len(found) : token + k \in 1 .. len /\ found[k] = s[token + k]
      /\ \A k \in 1 .. (limit + 1) : token + k <= len => k <= Len(found)
  BY <1>2, <1>3, <1>4, <1>5, SliceIs
<1>7. PICK m \in Nat : m = Len(found)  BY <1>6, LenProperties
<1>8. PICK items : items = Slice(found, 0, limit)  OBVIOUS
<1>9. /\ items \in Seq(Listed(rows)) /\ Len(items) <= limit
      /\ \A k \in 1 .. Len(items) : 0 + k \in 1 .. m /\ items[k] = found[0 + k]
      /\ \A k \in 1 .. limit : 0 + k <= m => k <= Len(items)
  BY <1>2, <1>6, <1>7, <1>8, SliceIs
<1>10. PICK n \in Nat : n = Len(items)  BY <1>9, LenProperties
<1>11. \A k \in 1 .. n : k \in 1 .. m /\ items[k] = found[k]
  BY <1>9, <1>10
<1>12. page'.items = items /\ page'.next = NextToken(token, m) /\ page'.asked = catalog
  BY <1>1, <1>4, <1>7, <1>8
<1>13. \A k \in 1 .. n : token + k \in 1 .. len /\ items[k] = s[token + k]
  BY <1>6, <1>7, <1>11
<1>14. \A k \in 1 .. limit : token + k <= len => k <= n
  BY <1>2, <1>6, <1>7, <1>9, <1>10
<1>15. /\ page'.next # -1 => page'.next = token + limit /\ n = limit
       /\ page'.next = -1 => len <= token + limit
  <2>1. CASE m > limit
    <3>1. page'.next = token + limit  BY <1>12, <2>1 DEF NextToken
    <3>2. limit <= n  BY <1>2, <1>9, <1>10, <2>1
    <3>. QED  BY <1>2, <1>9, <1>10, <3>1, <3>2
  <2>2. CASE ~(m > limit)
    <3>1. page'.next = -1  BY <1>12, <2>2 DEF NextToken
    <3>2. ~(token + (limit + 1) <= len)  BY <1>2, <1>6, <1>7, <2>2
    <3>. QED  BY <1>2, <1>5, <3>1, <3>2
  <2>. QED  BY <2>1, <2>2
<1>. QED  BY <1>5, <1>9, <1>10, <1>12, <1>13, <1>14, <1>15

\* An item is shown with what was looked up for it.
LEMMA ShowsIs ==
    ASSUME TypeOK, Making, NEW k \in 1 .. Len(page.items)
    PROVE  LET v == VideoOf(list, page.items[k]) IN
           /\ v \in VideosOf(list) /\ Shows(k) \in Entries
           /\ Shows(k).item = page.items[k] /\ page.items[k] \in Items
           /\ Shows(k).video = IF catalog[v] > 0 THEN v ELSE NoVideo
           /\ Shows(k).version = IF Shows(k).video = NoVideo THEN 0 ELSE catalog[v]
           /\ Shows(k).since = page.asked[v]
<1>. DEFINE v == VideoOf(list, page.items[k])
<1>1. page.items[k] \in Items /\ k \in DOMAIN page.items
  BY ElementOfSeq, LenProperties DEF TypeOK
<1>2. v \in VideosOf(list) /\ v \in Videos  BY <1>1 DEF VideosOf, Videos, TypeOK
<1>3. /\ Shows(k) = [item |-> page.items[k], video |-> Joined(page.items)[k],
                     version |-> IF Joined(page.items)[k] = NoVideo THEN 0 ELSE catalog[v],
                     since |-> page.asked[v]]
      /\ Joined(page.items)[k] = IF catalog[v] > 0 THEN v ELSE NoVideo
  BY <1>1 DEF Shows, Joined
<1>4. catalog[v] \in 0 .. MaxVersion /\ page.asked[v] \in 0 .. MaxVersion
  BY <1>2 DEF TypeOK
<1>5. 0 \in 0 .. MaxVersion  BY ListAssumption
<1>6. Shows(k) \in Entries  BY <1>1, <1>2, <1>3, <1>4, <1>5 DEF Entries
<1>. QED  BY <1>1, <1>2, <1>3, <1>6

\* The page that is answered comes behind what was answered.
LEMMA Appended ==
    ASSUME TypeOK, ReadVideos,
           NEW n \in Nat, n = Len(answered), NEW p \in Nat, p = Len(page.items)
    PROVE  /\ answered' \in Seq(Entries) /\ Len(answered') = n + p
           /\ \A k \in 1 .. n : answered'[k] = answered[k]
           /\ \A k \in 1 .. p : answered'[n + k] = Shows(k)
<1>. DEFINE new == [k \in DOMAIN page.items |-> Shows(k)]
<1>1. Making /\ answered' = answered \o new  BY DEF ReadVideos
<1>2. page.items \in Seq(Items) /\ answered \in Seq(Entries)  BY <1>1 DEF TypeOK
<1>3. DOMAIN page.items = 1 .. p  BY <1>2, LenProperties
<1>4. \A k \in 1 .. p : Shows(k) \in Entries  BY <1>1, ShowsIs
<1>5. new \in Seq(Entries) /\ Len(new) = p /\ \A k \in 1 .. p : new[k] = Shows(k)
  <2>1. new = [k \in 1 .. p |-> Shows(k)]  BY <1>3
  <2>. QED  BY <1>4, <2>1
<1>. HIDE DEF new
<1>. QED  BY <1>1, <1>2, <1>5, ConcatProperties

\* A mutation puts one row in the place of another; a favorite keeps its time.
LEMMA MutationIs ==
    ASSUME TypeOK, Stamped(rows), NEW i \in Items,
           AddFavorite(i) \/ RemoveFavorite(i) \/ Report(i)
    PROVE  \E row \in Rows :
             Change(i, row) /\ row.at > 0 /\ (list = "favorites" => rows[i].at \in {0, row.at})
<1>1. rows[i] \in Rows  BY DEF TypeOK
<1>2. \A at \in 1 .. MaxTime : [at |-> at, deleted |-> FALSE] \in Rows /\ at > 0
  BY ListAssumption DEF Rows
<1>3. CASE AddFavorite(i)
  <2>1. PICK at \in 1 .. MaxTime :
          Change(i, [at |-> IF rows[i].at = 0 THEN at ELSE rows[i].at, deleted |-> FALSE])
    BY <1>3 DEF AddFavorite
  <2>2. PICK t \in 1 .. MaxTime : t = IF rows[i].at = 0 THEN at ELSE rows[i].at
    BY <1>1, ListAssumption DEF Rows
  <2>3. Change(i, [at |-> t, deleted |-> FALSE])  BY <2>1, <2>2
  <2>. QED  BY <1>2, <2>2, <2>3
<1>4. CASE RemoveFavorite(i)
  <2>1. Change(i, [rows[i] EXCEPT !.deleted = TRUE]) /\ ~rows[i].deleted
    BY <1>4 DEF RemoveFavorite
  <2>2. PICK row : row = [rows[i] EXCEPT !.deleted = TRUE]  OBVIOUS
  <2>3. row \in Rows /\ row.at = rows[i].at  BY <1>1, <2>2 DEF Rows
  <2>4. rows[i].at > 0  BY <2>1 DEF Stamped, Listed
  <2>. QED  BY <2>1, <2>2, <2>3, <2>4
<1>5. CASE Report(i)
  BY <1>2, <1>5 DEF Report
<1>. QED  BY <1>3, <1>4, <1>5

-------------------------------------------------------------------------------
(***************************************************************************)
(* The types.                                                              *)
(***************************************************************************)

\* The initial states have their types.
LEMMA ReadInit == Init => TypeOK /\ ReadInv
<1>. SUFFICES ASSUME Init  PROVE TypeOK /\ ReadInv
  OBVIOUS
<1>1. /\ rows \in [Items -> Rows] /\ first = rows
      /\ \A i \in Items : ~rows[i].deleted => rows[i].at > 0
  <2>1. rows \in [Items -> [at : 1 .. MaxTime, deleted : {FALSE}] \cup {Absent}] /\ first = rows
    BY DEF Init
  <2>2. \A row \in [at : 1 .. MaxTime, deleted : {FALSE}] \cup {Absent} :
          row \in Rows /\ (~row.deleted => row.at > 0)
    <3>1. \A row \in [at : 1 .. MaxTime, deleted : {FALSE}] : row \in Rows /\ row.at > 0
      <4>1. \A at \in 1 .. MaxTime : at \in 0 .. MaxTime /\ at > 0  BY ListAssumption
      <4>2. {FALSE} \subseteq BOOLEAN  OBVIOUS
      <4>. QED  BY <4>1, <4>2, Zenon DEF Rows
    <3>2. 0 \in 0 .. MaxTime  BY ListAssumption
    <3>3. Absent \in Rows /\ Absent.deleted  BY <3>2 DEF Rows, Absent
    <3>. QED  BY <3>1, <3>3
  <2>. QED  BY <2>1, <2>2
<1>2. limit \in 1 .. MaxPageSize
  <2>1. PICK size \in PageSizes : limit = ParsePageSize(size)  BY DEF Init
  <2>2. size \in Int  BY ListAssumption
  <2>. QED  BY <2>1, <2>2, ListAssumption DEF ParsePageSize
<1>3. answered \in Seq(Entries) /\ token \in {-1, Len(answered)}  BY DEF Init
<1>4. catalog \in [VideosOf(list) -> 0 .. MaxVersion]
  <2>1. 0 .. 1 \subseteq 0 .. MaxVersion  BY ListAssumption
  <2>. QED  BY <2>1 DEF Init
<1>5. ~Making  BY DEF Init, Making
<1>6. TypeOK
  <2>1. list \in Lists /\ changes \in 0 .. MaxChanges  BY ListAssumption DEF Init
  <2>2. touched \subseteq Items /\ shrunk \in BOOLEAN /\ grown \in BOOLEAN  BY DEF Init
  <2>. QED  BY <1>1, <1>2, <1>3, <1>4, <1>5, <2>1, <2>2 DEF TypeOK
<1>7. ReadInv  BY <1>1, <1>5 DEF ReadInv, Stamped, Listed
<1>. QED  BY <1>6, <1>7

\* What a page that was read is, in terms of its types.
LEMMA ReadItemsTyped ==
    ASSUME TypeOK, ReadInv, ReadItems
    PROVE  TypeOK' /\ ReadInv'
<1>1. /\ page'.items \in Seq(Listed(rows)) /\ Len(page'.items) <= limit
      /\ page'.next # -1 => page'.next = token + limit /\ Len(page'.items) = limit
      /\ page'.asked = catalog
  BY PageRead
<1>2. Listed(rows) \subseteq Items  BY DEF Listed
<1>3. page'.items \in Seq(Items)  BY <1>1, <1>2, ElementOfSeq, SeqDef
<1>4. UNCHANGED <<list, rows, limit, token, catalog, answered, changes>>  BY DEF ReadItems
<1>5. /\ first' \in {first, rows} /\ touched' \in {touched, {}}
      /\ shrunk' \in {shrunk, FALSE} /\ grown' \in {grown, FALSE}
      /\ \A i \in Items \ touched' : rows[i] = first'[i]
  BY DEF ReadItems, ReadInv
<1>6. VideosOf(list)' = VideosOf(list)  BY <1>4 DEF VideosOf
<1>7. TypeOK'
  BY <1>1, <1>3, <1>4, <1>5, <1>6 DEF TypeOK
<1>8. token >= 0  BY DEF ReadItems
<1>9. ReadInv'
  BY <1>1, <1>4, <1>5, <1>8 DEF ReadInv, Stamped, Listed
<1>. QED  BY <1>7, <1>9

\* The answer has the items of the page, and the token is how many there are.
LEMMA ReadVideosTyped ==
    ASSUME TypeOK, ReadInv, ReadVideos
    PROVE  TypeOK' /\ ReadInv'
<1>1. Making /\ page' = NoPage /\ token' = page.next  BY DEF ReadVideos
<1>2. PICK n \in Nat : n = Len(answered)  BY LenProperties DEF TypeOK
<1>3. PICK p \in Nat : p = Len(page.items)  BY <1>1, LenProperties DEF TypeOK
<1>4. answered' \in Seq(Entries) /\ Len(answered') = n + p  BY <1>2, <1>3, Appended
<1>5. token = n  BY <1>1, <1>2 DEF TypeOK, ReadInv
<1>6. page.next \in {-1, n + p}
  BY <1>1, <1>3, <1>5 DEF TypeOK, ReadInv
<1>7. token' \in {-1, n + p}  BY <1>1, <1>6
<1>8. UNCHANGED <<list, rows, limit, catalog, first, changes, touched, shrunk, grown>>
  BY DEF ReadVideos
<1>9. VideosOf(list)' = VideosOf(list)  BY <1>8 DEF VideosOf
<1>10. ~Making'  BY <1>1 DEF Making, NoPage
<1>11. TypeOK'
  BY <1>4, <1>7, <1>8, <1>9, <1>10 DEF TypeOK
<1>12. ReadInv'  BY <1>8, <1>10 DEF ReadInv, Stamped, Listed
<1>. QED  BY <1>11, <1>12

\* A mutation leaves a row, with a time.
LEMMA ChangeTyped ==
    ASSUME TypeOK, ReadInv, NEW i \in Items, NEW row \in Rows, Change(i, row), row.at > 0
    PROVE  TypeOK' /\ ReadInv'
<1>1. UNCHANGED <<list, limit, token, catalog, page, answered, first>>  BY DEF Change
<1>2. rows' = [rows EXCEPT ![i] = row] /\ touched' = touched \cup {i}  BY DEF Change
<1>3. rows \in [Items -> Rows]  BY DEF TypeOK
<1>4. rows' \in [Items -> Rows]  BY <1>2, <1>3
<1>5. shrunk' \in BOOLEAN /\ grown' \in BOOLEAN  BY DEF Change
<1>6. changes' \in 0 .. MaxChanges
  BY ListAssumption DEF Change, Counted, TypeOK
<1>7. VideosOf(list)' = VideosOf(list) /\ Making' = Making
  BY <1>1 DEF VideosOf, Making, NoPage
<1>8. touched' \subseteq Items  BY <1>2 DEF TypeOK
<1>9. TypeOK'
  BY <1>1, <1>4, <1>5, <1>6, <1>7, <1>8 DEF TypeOK
<1>10. \A j \in Items : rows'[j] = IF j = i THEN row ELSE rows[j]  BY <1>2, <1>3
<1>11. Stamped(rows')
  BY <1>10 DEF ReadInv, Stamped, Listed
<1>12. \A j \in Items \ touched' : rows'[j] = first'[j]
  BY <1>1, <1>2, <1>10 DEF ReadInv
<1>13. Making' => token' >= 0 /\ (page'.next # -1 => Len(page'.items) = limit')
  BY <1>1, <1>7 DEF ReadInv
<1>14. ReadInv'  BY <1>11, <1>12, <1>13 DEF ReadInv
<1>. QED  BY <1>9, <1>14

\* Every step keeps the types.
LEMMA ReadStep ==
    ASSUME TypeOK, ReadInv, [Next]_vars
    PROVE  TypeOK' /\ ReadInv'
<1>1. CASE ReadItems  BY <1>1, ReadItemsTyped
<1>2. CASE ReadVideos  BY <1>2, ReadVideosTyped
<1>3. CASE ReadFails
  <2>1. UNCHANGED <<list, rows, limit, token, catalog, answered, first, changes, touched, shrunk, grown>>
    BY <1>3 DEF ReadFails
  <2>2. VideosOf(list)' = VideosOf(list)  BY <2>1 DEF VideosOf
  <2>3. ~Making'  BY <1>3 DEF ReadFails, Making, NoPage
  <2>4. TypeOK'  BY <2>1, <2>2, <2>3 DEF TypeOK
  <2>5. ReadInv'  BY <2>1, <2>3 DEF ReadInv, Stamped, Listed
  <2>. QED  BY <2>4, <2>5
<1>4. ASSUME NEW i \in Items, AddFavorite(i) \/ RemoveFavorite(i) \/ Report(i)
      PROVE  TypeOK' /\ ReadInv'
  <2>1. Stamped(rows)  BY DEF ReadInv
  <2>2. PICK row \in Rows : Change(i, row) /\ row.at > 0  BY <1>4, <2>1, MutationIs
  <2>. QED  BY <2>2, ChangeTyped
<1>5. ASSUME NEW v \in VideosOf(list), Project(v)
      PROVE  TypeOK' /\ ReadInv'
  <2>1. UNCHANGED <<list, rows, limit, token, page, answered, first, touched, shrunk, grown>>
    BY <1>5 DEF Project
  <2>2. VideosOf(list)' = VideosOf(list) /\ Making' = Making
    BY <2>1 DEF VideosOf, Making, NoPage
  <2>3. catalog' \in [VideosOf(list) -> 0 .. MaxVersion]
    <3>1. catalog' = [catalog EXCEPT ![v] = catalog[v] + 1] /\ catalog[v] < MaxVersion
      BY <1>5 DEF Project
    <3>2. catalog \in [VideosOf(list) -> 0 .. MaxVersion]  BY DEF TypeOK
    <3>3. catalog[v] + 1 \in 0 .. MaxVersion  BY <1>5, <3>1, <3>2, ListAssumption
    <3>. QED  BY <3>1, <3>2, <3>3
  <2>4. changes' \in 0 .. MaxChanges
    BY <1>5, ListAssumption DEF Project, Counted, TypeOK
  <2>5. TypeOK'  BY <2>1, <2>2, <2>3, <2>4 DEF TypeOK
  <2>6. ReadInv'  BY <2>1, <2>2 DEF ReadInv, Stamped, Listed
  <2>. QED  BY <2>5, <2>6
<1>6. CASE UNCHANGED vars
  BY <1>6 DEF vars, TypeOK, ReadInv, Making, NoPage, Stamped, Listed, VideosOf
<1>. QED  BY <1>1, <1>2, <1>3, <1>4, <1>5, <1>6 DEF Next, Done

\* Every variable keeps its type; a client that has not reached the end is at
\* the token that counts the items he was shown, so no page but the last is
\* short.
THEOREM TypeCorrect == Spec => []TypeOK
<1>1. Spec => [](TypeOK /\ ReadInv)
  BY ReadInit, ReadStep, PTL DEF Spec
<1>. QED  BY <1>1, PTL


-------------------------------------------------------------------------------
(***************************************************************************)
(* The videos of the items.                                                *)
(***************************************************************************)

\* A projection that was there when the page was asked for is not older now.
AskedInv == Making => \A v \in VideosOf(list) : page.asked[v] <= catalog[v]

\* A video is told from no video.
LEMMA VideoIsNumber ==
    ASSUME NEW l, NEW i \in Items
    PROVE  VideoOf(l, i) \in VideosOf(l) /\ VideoOf(l, i) \in Nat /\ VideoOf(l, i) # NoVideo
<1>1. i \in Nat  BY ListAssumption
<1>2. VideoOf(l, i) \in Nat  BY <1>1 DEF VideoOf
<1>. QED  BY <1>2 DEF VideosOf, NoVideo

\* What was shown stays right while the projections only become newer.
LEMMA VideosKeep ==
    ASSUME TypeOK, TypeOK', ShownWithItsVideo, UNCHANGED <<list, answered>>,
           \A v \in VideosOf(list) : catalog[v] <= catalog'[v]
    PROVE  ShownWithItsVideo'
<1>. USE DEF ShownWithItsVideo
<1>1. VideosOf(list)' = VideosOf(list)  BY DEF VideosOf
<1>2. \A k \in DOMAIN answered :
        /\ answered[k] \in Entries /\ VideoOf(list, answered[k].item) \in VideosOf(list)
  <2>1. answered \in Seq(Entries) /\ DOMAIN answered = 1 .. Len(answered)
    BY LenProperties DEF TypeOK
  <2>2. \A k \in DOMAIN answered : answered[k] \in Entries  BY <2>1, ElementOfSeq
  <2>3. \A k \in DOMAIN answered : answered[k].item \in Items  BY <2>2 DEF Entries
  <2>. QED  BY <2>2, <2>3, VideoIsNumber
<1>3. \A v \in VideosOf(list) : catalog[v] \in Nat /\ catalog'[v] \in Nat
  BY <1>1, ListAssumption DEF TypeOK
<1>4. \A k \in DOMAIN answered : answered[k].version \in Nat
  BY <1>2, ListAssumption DEF Entries
<1>5. \A k \in DOMAIN answered :
        answered[k].version <= catalog'[VideoOf(list, answered[k].item)]
  <2>. SUFFICES ASSUME NEW k \in DOMAIN answered
                PROVE answered[k].version <= catalog'[VideoOf(list, answered[k].item)]
    OBVIOUS
  <2>. DEFINE v == VideoOf(list, answered[k].item)
  <2>1. v \in VideosOf(list) /\ answered[k].version <= catalog[v]  BY <1>2
  <2>. QED  BY <1>3, <1>4, <2>1
<1>. QED  BY <1>5

\* The new page is right, and no older than the pages before.
LEMMA VideosRead ==
    ASSUME TypeOK, ReadInv, ShownWithItsVideo, AskedInv, ReadVideos
    PROVE  ShownWithItsVideo'
<1>1. Making /\ UNCHANGED <<list, catalog>>  BY DEF ReadVideos
<1>2. PICK n \in Nat : n = Len(answered)  BY LenProperties DEF TypeOK
<1>3. PICK p \in Nat : p = Len(page.items)  BY <1>1, LenProperties DEF TypeOK
<1>4. /\ answered' \in Seq(Entries) /\ Len(answered') = n + p
      /\ \A k \in 1 .. n : answered'[k] = answered[k]
      /\ \A k \in 1 .. p : answered'[n + k] = Shows(k)
  BY <1>2, <1>3, Appended
<1>. DEFINE V(k) == VideoOf(list, answered'[k].item)
<1>5. \A k \in 1 .. (n + p) : answered'[k] \in Entries  BY <1>4, ElementOfSeq
<1>6. \A k \in 1 .. (n + p) :
        /\ V(k) \in VideosOf(list) /\ V(k) # NoVideo /\ catalog[V(k)] \in Nat
        /\ answered'[k].version \in Nat /\ answered'[k].since \in Nat
  <2>. SUFFICES ASSUME NEW k \in 1 .. (n + p)
                PROVE  /\ V(k) \in VideosOf(list) /\ V(k) # NoVideo /\ catalog[V(k)] \in Nat
                       /\ answered'[k].version \in Nat /\ answered'[k].since \in Nat
    OBVIOUS
  <2>1. answered'[k].item \in Items /\ answered'[k].version \in Nat /\ answered'[k].since \in Nat
    BY <1>5, ListAssumption DEF Entries
  <2>2. V(k) \in VideosOf(list) /\ V(k) # NoVideo  BY <2>1, VideoIsNumber
  <2>. QED  BY <2>1, <2>2, ListAssumption DEF TypeOK
<1>7. \A k \in (n + 1) .. (n + p) :
        /\ answered'[k].video = IF catalog[V(k)] > 0 THEN V(k) ELSE NoVideo
        /\ answered'[k].version = catalog[V(k)]
        /\ answered'[k].since <= catalog[V(k)]
  <2>. SUFFICES ASSUME NEW j \in 1 .. p
                PROVE  /\ answered'[n + j].video = IF catalog[V(n + j)] > 0 THEN V(n + j) ELSE NoVideo
                       /\ answered'[n + j].version = catalog[V(n + j)]
                       /\ answered'[n + j].since <= catalog[V(n + j)]
    <3>1. \A k \in (n + 1) .. (n + p) : k - n \in 1 .. p /\ k = n + (k - n)  OBVIOUS
    <3>. QED  BY <3>1
  <2>1. answered'[n + j] = Shows(j)  BY <1>4
  <2>2. PICK v : v = VideoOf(list, page.items[j])  OBVIOUS
  <2>3. /\ v \in VideosOf(list) /\ Shows(j).item = page.items[j] /\ Shows(j).since = page.asked[v]
        /\ Shows(j).video = IF catalog[v] > 0 THEN v ELSE NoVideo
        /\ Shows(j).version = IF Shows(j).video = NoVideo THEN 0 ELSE catalog[v]
    BY <1>1, <1>3, <2>2, ShowsIs
  <2>4. V(n + j) = v  BY <2>1, <2>2, <2>3
  <2>5. v # NoVideo /\ catalog[v] \in Nat  BY <1>6, <2>4
  <2>6. Shows(j).version = catalog[v]  BY <2>3, <2>5
  <2>7. page.asked[v] <= catalog[v]  BY <1>1, <2>3 DEF AskedInv
  <2>. QED  BY <2>1, <2>3, <2>4, <2>6, <2>7
<1>8. \A k \in 1 .. n :
        /\ answered'[k].video \in {V(k), NoVideo}
        /\ answered'[k].video = NoVideo <=> answered'[k].version = 0
        /\ answered'[k].since <= answered'[k].version /\ answered'[k].version <= catalog[V(k)]
        /\ \A m \in k + 1 .. n : V(m) = V(k) => answered'[k].version <= answered'[m].version
  <2>1. DOMAIN answered = 1 .. n  BY <1>2, LenProperties DEF TypeOK
  <2>2. \A k \in 1 .. n : \A m \in k + 1 .. n : answered'[m] = answered[m]
    BY <1>4
  <2>3. \A k \in 1 .. n :
          /\ answered[k].video \in {VideoOf(list, answered[k].item), NoVideo}
          /\ answered[k].video = NoVideo <=> answered[k].version = 0
          /\ answered[k].since <= answered[k].version
          /\ answered[k].version <= catalog[VideoOf(list, answered[k].item)]
          /\ \A m \in k + 1 .. n :
                VideoOf(list, answered[m].item) = VideoOf(list, answered[k].item) =>
                    answered[k].version <= answered[m].version
    BY <1>2, <2>1 DEF ShownWithItsVideo
  <2>. QED  BY <1>4, <2>2, <2>3
<1>. HIDE DEF V
<1>9. \A k \in 1 .. (n + p) :
        /\ answered'[k].video \in {V(k), NoVideo}
        /\ answered'[k].video = NoVideo <=> answered'[k].version = 0
        /\ answered'[k].since <= answered'[k].version /\ answered'[k].version <= catalog[V(k)]
        /\ \A m \in k + 1 .. (n + p) : V(m) = V(k) => answered'[k].version <= answered'[m].version
  <2>. SUFFICES ASSUME NEW k \in 1 .. (n + p)
                PROVE  /\ answered'[k].video \in {V(k), NoVideo}
                       /\ answered'[k].video = NoVideo <=> answered'[k].version = 0
                       /\ answered'[k].since <= answered'[k].version /\ answered'[k].version <= catalog[V(k)]
                       /\ \A m \in k + 1 .. (n + p) : V(m) = V(k) => answered'[k].version <= answered'[m].version
    OBVIOUS
  <2>1. answered'[k].video \in {V(k), NoVideo}  BY <1>7, <1>8
  <2>2. answered'[k].video = NoVideo <=> answered'[k].version = 0
    <3>1. CASE k <= n  BY <1>8, <3>1
    <3>2. CASE ~(k <= n)
      <4>1. k \in (n + 1) .. (n + p)  BY <3>2
      <4>. QED  BY <1>6, <1>7, <4>1
    <3>. QED  BY <3>1, <3>2
  <2>3. answered'[k].since <= answered'[k].version /\ answered'[k].version <= catalog[V(k)]
    <3>1. CASE k <= n  BY <1>8, <3>1
    <3>2. CASE ~(k <= n)
      <4>1. k \in (n + 1) .. (n + p)  BY <3>2
      <4>. QED  BY <1>6, <1>7, <4>1
    <3>. QED  BY <3>1, <3>2
  <2>4. ASSUME NEW m \in k + 1 .. (n + p), V(m) = V(k)
        PROVE  answered'[k].version <= answered'[m].version
    <3>1. CASE m <= n
      <4>1. k \in 1 .. n /\ m \in k + 1 .. n  BY <3>1
      <4>. QED  BY <1>8, <2>4, <4>1
    <3>2. CASE ~(m <= n)
      <4>1. m \in (n + 1) .. (n + p)  BY <3>2
      <4>2. answered'[m].version = catalog[V(k)]  BY <1>7, <2>4, <4>1
      <4>. QED  BY <2>3, <4>2
    <3>. QED  BY <3>1, <3>2
  <2>. QED  BY <2>1, <2>2, <2>3, <2>4
<1>10. DOMAIN answered' = 1 .. (n + p)  BY <1>4, LenProperties
<1>. QED  BY <1>1, <1>4, <1>9, <1>10 DEF ShownWithItsVideo, V

\* Every item is shown with its own video, at a version between that of the
\* question and that of the answer, and no page shows a video older than a
\* page before it.
THEOREM ShownWithItsVideoCorrect == Spec => []ShownWithItsVideo
<1>1. Init => ShownWithItsVideo /\ AskedInv
  BY DEF Init, ShownWithItsVideo, AskedInv, Making
<1>2. ASSUME TypeOK, ReadInv, TypeOK', ShownWithItsVideo, AskedInv, [Next]_vars
      PROVE  ShownWithItsVideo' /\ AskedInv'
  <2>1. CASE ReadVideos
    <3>1. ~Making'  BY <2>1 DEF ReadVideos, Making, NoPage
    <3>. QED  BY <1>2, <2>1, <3>1, VideosRead DEF AskedInv
  <2>2. CASE ~ReadVideos
    <3>1. UNCHANGED <<list, answered>>
      BY <1>2, <2>2 DEF Next, Done, vars, ReadItems, ReadFails, AddFavorite, RemoveFavorite,
                        Report, Change, Project
    <3>2. VideosOf(list)' = VideosOf(list)  BY <3>1 DEF VideosOf
    <3>3. \A v \in VideosOf(list) : catalog[v] \in Nat  BY <1>2, ListAssumption DEF TypeOK
    <3>4. \A v \in VideosOf(list) : catalog[v] <= catalog'[v]
      <4>1. CASE \E w \in VideosOf(list) : Project(w)
        <5>1. PICK w \in VideosOf(list) : Project(w)  BY <4>1
        <5>2. catalog' = [catalog EXCEPT ![w] = catalog[w] + 1]  BY <5>1 DEF Project
        <5>. QED  BY <1>2, <3>3, <5>2 DEF TypeOK
      <4>2. CASE catalog' = catalog  BY <3>3, <4>2
      <4>. QED
        BY <1>2, <2>2, <4>1, <4>2 DEF Next, Done, vars, ReadItems, ReadFails, AddFavorite,
                                      RemoveFavorite, Report, Change
    <3>5. ShownWithItsVideo'  BY <1>2, <3>1, <3>4, VideosKeep
    <3>6. AskedInv'
      <4>1. CASE ReadItems
        <5>1. page'.asked = catalog /\ catalog' = catalog
          BY <1>2, <4>1, PageRead DEF ReadItems
        <5>. QED  BY <3>2, <3>3, <5>1 DEF AskedInv
      <4>2. CASE ReadFails  BY <4>2 DEF ReadFails, AskedInv, Making, NoPage
      <4>3. CASE page' = page
        <5>1. Making' = Making  BY <4>3 DEF Making, NoPage
        <5>2. ASSUME Making, NEW v \in VideosOf(list)  PROVE page.asked[v] <= catalog'[v]
          <6>1. page.asked[v] \in Nat /\ page.asked[v] <= catalog[v]
            BY <1>2, <5>2, ListAssumption DEF TypeOK, AskedInv
          <6>2. catalog[v] \in Nat /\ catalog'[v] \in Nat /\ catalog[v] <= catalog'[v]
            BY <1>2, <3>2, <3>3, <3>4, ListAssumption DEF TypeOK
          <6>. QED  BY <6>1, <6>2
        <5>. QED  BY <3>2, <4>3, <5>1, <5>2 DEF AskedInv
      <4>. QED
        BY <1>2, <2>2, <4>1, <4>2, <4>3 DEF Next, Done, vars, AddFavorite, RemoveFavorite,
                                            Report, Change, Project
    <3>. QED  BY <3>5, <3>6
  <2>. QED  BY <2>1, <2>2
<1>. QED  BY <1>1, <1>2, ReadInit, ReadStep, PTL DEF Spec


-------------------------------------------------------------------------------
(***************************************************************************)
(* How ranks move.                                                         *)
(***************************************************************************)

\* The items that were in the list when the reading began and that no mutation
\* has touched.
Untouched == Listed(first) \ touched

InAnswer(i) == \E k \in DOMAIN answered : answered[k].item = i
InPage(i) == \E k \in DOMAIN page.items : page.items[k] = i

\* A rank is a number.
LEMMA RankIsNumber ==
    ASSUME NEW r, NEW i
    PROVE  /\ IsFiniteSet({j \in Listed(r) : Ahead(r, j, i)})
           /\ Rank(r, i) \in Nat
<1>. DEFINE S == {j \in Listed(r) : Ahead(r, j, i)}
<1>1. S \in SUBSET Items  BY DEF Listed
<1>. HIDE DEF S
<1>2. IsFiniteSet(S)  BY <1>1, ListAssumption, FS_Subset
<1>3. Cardinality(S) \in Nat  BY <1>2, FS_CardinalityType
<1>. QED  BY <1>2, <1>3 DEF Rank, S

\* More items ahead make a higher rank.
LEMMA RankGrows ==
    ASSUME NEW r, NEW i, NEW t, NEW k,
           \A j \in Listed(r) : Ahead(r, j, i) => j \in Listed(t) /\ Ahead(t, j, k)
    PROVE  Rank(r, i) <= Rank(t, k)
<1>1. {j \in Listed(r) : Ahead(r, j, i)} \in SUBSET {j \in Listed(t) : Ahead(t, j, k)}
  OBVIOUS
<1>. QED  BY <1>1, RankIsNumber, FS_Subset DEF Rank

\* Of two items the one ahead has the lower rank.
LEMMA RankIsOrder ==
    ASSUME NEW r \in [Items -> Rows], NEW i \in Listed(r), NEW j \in Listed(r),
           Rank(r, i) < Rank(r, j)
    PROVE  Ahead(r, i, j)
<1>1. i \in Items /\ j \in Items  BY DEF Listed
<1>2. SUFFICES ASSUME ~Ahead(r, i, j)  PROVE FALSE
  OBVIOUS
<1>3. i = j \/ Ahead(r, j, i)  BY <1>1, <1>2, AheadIsOrder
<1>4. \A m \in Listed(r) : Ahead(r, m, j) => Ahead(r, m, i)
  BY <1>1, <1>3, AheadIsOrder DEF Listed
<1>5. Rank(r, j) <= Rank(r, i)  BY <1>4, RankGrows
<1>6. Rank(r, i) \in Nat /\ Rank(r, j) \in Nat  BY RankIsNumber
<1>. QED  BY <1>5, <1>6

\* The page holds the ranks from the token on, and all of them if it is the last.
LEMMA PageRanks ==
    ASSUME TypeOK, ReadInv, ReadItems, ~Tied(rows)
    PROVE  /\ DOMAIN page'.items = 1 .. Len(page'.items)
           /\ \A k \in DOMAIN page'.items :
                 /\ page'.items[k] \in Listed(rows)
                 /\ Rank(rows, page'.items[k]) = token + k - 1
                 /\ page'.next # -1 => token + k - 1 < page'.next
           /\ \A i \in Listed(rows) : token <= Rank(rows, i) =>
                 InPage(i)' \/ (page'.next # -1 /\ page'.next <= Rank(rows, i))
<1>1. PICK s \in Results(list, rows) :
        /\ page'.items \in Seq(Listed(rows)) /\ Len(page'.items) <= limit
        /\ \A k \in 1 .. Len(page'.items) :
              token + k \in 1 .. Len(s) /\ page'.items[k] = s[token + k]
        /\ \A k \in 1 .. limit : token + k <= Len(s) => k <= Len(page'.items)
        /\ page'.next # -1 => page'.next = token + limit /\ Len(page'.items) = limit
        /\ page'.next = -1 => Len(s) <= token + limit
  BY PageRead
<1>2. /\ list \in Lists /\ rows \in [Items -> Rows] /\ Stamped(rows) /\ limit \in Nat \ {0}
      /\ token \in Nat
  <2>1. Len(answered) \in Nat  BY LenProperties DEF TypeOK
  <2>2. token \in {-1, Len(answered)} /\ token >= 0  BY DEF TypeOK, ReadItems
  <2>. QED  BY <2>1, <2>2, ListAssumption DEF TypeOK, ReadInv
<1>3. PICK items : items = page'.items  OBVIOUS
<1>4. PICK n \in Nat : n = Len(items)  BY <1>1, <1>3, LenProperties
<1>5. DOMAIN items = 1 .. n  BY <1>1, <1>3, <1>4, LenProperties
<1>6. s \in Seq(Listed(rows))  BY <1>2, ResultIs
<1>7. PICK len \in Nat : len = Len(s)  BY <1>6, LenProperties
<1>8. \A k \in 1 .. len : s[k] \in Listed(rows) /\ Rank(rows, s[k]) = k - 1
  BY <1>2, <1>7, RankOfPosition
<1>9. \A k \in 1 .. n :
        /\ items[k] \in Listed(rows)
        /\ Rank(rows, items[k]) = token + k - 1
        /\ page'.next # -1 => token + k - 1 < page'.next
  <2>. SUFFICES ASSUME NEW k \in 1 .. n
                PROVE  /\ items[k] \in Listed(rows)
                       /\ Rank(rows, items[k]) = token + k - 1
                       /\ page'.next # -1 => token + k - 1 < page'.next
    OBVIOUS
  <2>1. token + k \in 1 .. len /\ items[k] = s[token + k]  BY <1>1, <1>3, <1>4, <1>7
  <2>2. n <= limit  BY <1>1, <1>3, <1>4
  <2>. QED  BY <1>1, <1>2, <1>8, <2>1, <2>2
<1>10. ASSUME NEW i \in Listed(rows), token <= Rank(rows, i)
       PROVE  \/ \E k \in 1 .. n : items[k] = i
              \/ page'.next # -1 /\ page'.next <= Rank(rows, i)
  <2>1. PICK m \in 1 .. len : s[m] = i  BY <1>2, <1>7, ResultIs
  <2>2. Rank(rows, i) = m - 1  BY <1>8, <2>1
  <2>3. CASE m <= token + limit
    <3>1. PICK k \in 1 .. limit : m = token + k
      <4>1. m - token \in 1 .. limit /\ m = token + (m - token)  BY <1>2, <1>10, <2>2, <2>3
      <4>. QED  BY <4>1
    <3>2. k \in 1 .. n  BY <1>1, <1>3, <1>4, <1>7, <3>1
    <3>3. items[k] = s[token + k]  BY <1>1, <1>3, <1>4, <3>2
    <3>. QED  BY <2>1, <3>1, <3>2, <3>3
  <2>4. CASE ~(m <= token + limit)
    <3>1. ~(len <= token + limit)  BY <1>2, <2>4
    <3>2. page'.next # -1  BY <1>1, <1>7, <3>1
    <3>3. page'.next = token + limit  BY <1>1, <3>2
    <3>. QED  BY <1>2, <2>2, <2>4, <3>2, <3>3
  <2>. QED  BY <2>3, <2>4
<1>. QED  BY <1>3, <1>4, <1>5, <1>9, <1>10 DEF InPage

\* What is answered is what was answered and the items of the page.
LEMMA AnswerIs ==
    ASSUME TypeOK, ReadVideos, NEW i \in Items
    PROVE  InAnswer(i)' <=> InAnswer(i) \/ InPage(i)
<1>0. Making  BY DEF ReadVideos
<1>1. PICK n \in Nat : n = Len(answered)  BY LenProperties DEF TypeOK
<1>2. PICK p \in Nat : p = Len(page.items)  BY <1>0, LenProperties DEF TypeOK
<1>3. /\ answered' \in Seq(Entries) /\ Len(answered') = n + p
      /\ \A k \in 1 .. n : answered'[k] = answered[k]
      /\ \A k \in 1 .. p : answered'[n + k] = Shows(k)
  BY <1>1, <1>2, Appended
<1>4. /\ DOMAIN answered = 1 .. n /\ DOMAIN page.items = 1 .. p /\ DOMAIN answered' = 1 .. (n + p)
  BY <1>0, <1>1, <1>2, <1>3, LenProperties DEF TypeOK
<1>5. \A k \in 1 .. p : answered'[n + k].item = page.items[k]
  BY <1>0, <1>2, <1>3, ShowsIs
<1>6. \A k \in 1 .. n : k \in 1 .. (n + p)  OBVIOUS
<1>7. \A k \in 1 .. p : n + k \in 1 .. (n + p)  OBVIOUS
<1>8. \A k \in 1 .. (n + p) : k \in 1 .. n \/ (k - n \in 1 .. p /\ k = n + (k - n))  OBVIOUS
<1>9. InAnswer(i) => InAnswer(i)'  BY <1>3, <1>4, <1>6 DEF InAnswer
<1>10. InPage(i) => InAnswer(i)'  BY <1>4, <1>5, <1>7 DEF InAnswer, InPage
<1>11. InAnswer(i)' => InAnswer(i) \/ InPage(i)
  <2>. SUFFICES ASSUME NEW k \in 1 .. (n + p), answered'[k].item = i
                PROVE  InAnswer(i) \/ InPage(i)
    BY <1>4 DEF InAnswer
  <2>1. CASE k \in 1 .. n  BY <1>3, <1>4, <2>1 DEF InAnswer
  <2>2. ASSUME NEW m \in 1 .. p, k = n + m  PROVE InPage(i)
    BY <1>4, <1>5, <2>2 DEF InPage
  <2>. QED  BY <1>8, <2>1, <2>2
<1>. QED  BY <1>9, <1>10, <1>11

\* Rows that tie stay tied: a favorite keeps its time.
LEMMA TiesStay ==
    ASSUME TypeOK, ReadInv, [Next]_vars, Tied(rows)
    PROVE  Tied(rows)'
<1>1. PICK j, m \in Items : /\ list = "favorites" /\ j # m
                            /\ rows[j].at = rows[m].at /\ rows[j].at # 0
  BY DEF Tied
<1>2. list' = list
  BY DEF Next, Done, vars, ReadItems, ReadVideos, ReadFails, AddFavorite, RemoveFavorite,
         Report, Change, Project
<1>3. CASE \E i \in Items : AddFavorite(i) \/ RemoveFavorite(i) \/ Report(i)
  <2>1. PICK i \in Items : AddFavorite(i) \/ RemoveFavorite(i) \/ Report(i)  BY <1>3
  <2>2. Stamped(rows)  BY DEF ReadInv
  <2>3. PICK row \in Rows :
          Change(i, row) /\ row.at > 0 /\ (list = "favorites" => rows[i].at \in {0, row.at})
    BY <2>1, <2>2, MutationIs
  <2>4. \A k \in Items : rows'[k] = IF k = i THEN row ELSE rows[k]
    BY <2>3 DEF Change, TypeOK
  <2>5. \A k \in Items : rows[k].at # 0 => rows'[k].at = rows[k].at
    BY <1>1, <2>3, <2>4
  <2>6. rows'[j].at = rows'[m].at /\ rows'[j].at # 0  BY <1>1, <2>5
  <2>. QED  BY <1>1, <1>2, <2>6 DEF Tied
<1>4. CASE rows' = rows  BY <1>2, <1>4 DEF Tied
<1>. QED
  BY <1>3, <1>4 DEF Next, Done, vars, ReadItems, ReadVideos, ReadFails, Project

\* A mutation leaves an item that it does not touch where it is.
LEMMA ChangeKeeps ==
    ASSUME TypeOK, ReadInv, NEW c \in Items, NEW row \in Rows, Change(c, row),
           NEW i \in Items, i \in Untouched'
    PROVE  /\ i \in Untouched /\ i # c /\ i \in Listed(rows) /\ rows'[i] = rows[i]
           /\ \A j \in Items : rows'[j] = IF j = c THEN row ELSE rows[j]
<1>1. first' = first /\ touched' = touched \cup {c}  BY DEF Change
<1>2. \A j \in Items : rows'[j] = IF j = c THEN row ELSE rows[j]  BY DEF Change, TypeOK
<1>3. i \in Untouched /\ i # c  BY <1>1 DEF Untouched, Listed
<1>4. rows[i] = first[i] /\ i \in Listed(first)  BY <1>3 DEF Untouched, ReadInv
<1>. QED  BY <1>2, <1>3, <1>4 DEF Listed

\* Unless something comes in or moves up, no rank grows.
LEMMA RankNotUp ==
    ASSUME TypeOK, ReadInv, NEW c \in Items, NEW row \in Rows, Change(c, row), ~grown',
           NEW i \in Items, i \in Untouched'
    PROVE  Rank(rows', i) <= Rank(rows, i)
<1>1. /\ i # c /\ rows'[i] = rows[i]
      /\ \A j \in Items : rows'[j] = IF j = c THEN row ELSE rows[j]
  BY ChangeKeeps
<1>2. row.deleted \/ (~rows[c].deleted /\ ~(row.at > rows[c].at))  BY DEF Change
<1>3. row.at \in Nat /\ \A j \in Items : rows[j].at \in Nat
  BY ListAssumption DEF TypeOK, Rows
<1>4. \A j \in Listed(rows') : Ahead(rows', j, i) => j \in Listed(rows) /\ Ahead(rows, j, i)
  <2>. SUFFICES ASSUME NEW j \in Items, ~rows'[j].deleted, Ahead(rows', j, i)
                PROVE  ~rows[j].deleted /\ Ahead(rows, j, i)
    BY DEF Listed
  <2>1. CASE j # c  BY <1>1, <2>1 DEF Ahead
  <2>2. CASE j = c
    <3>1. ~rows[c].deleted /\ ~(row.at > rows[c].at)  BY <1>1, <1>2, <2>2
    <3>2. row.at > rows[i].at \/ (row.at = rows[i].at /\ c > i)  BY <1>1, <2>2 DEF Ahead
    <3>. QED  BY <1>3, <2>2, <3>1, <3>2 DEF Ahead
  <2>. QED  BY <2>1, <2>2
<1>. QED  BY <1>4, RankGrows

\* Unless something leaves or moves down, no rank falls.
LEMMA RankNotDown ==
    ASSUME TypeOK, ReadInv, NEW c \in Items, NEW row \in Rows, Change(c, row), ~shrunk',
           NEW i \in Items, i \in Untouched'
    PROVE  Rank(rows, i) <= Rank(rows', i)
<1>1. /\ i # c /\ rows'[i] = rows[i]
      /\ \A j \in Items : rows'[j] = IF j = c THEN row ELSE rows[j]
  BY ChangeKeeps
<1>2. rows[c].deleted \/ (~row.deleted /\ ~(row.at < rows[c].at))  BY DEF Change
<1>3. row.at \in Nat /\ \A j \in Items : rows[j].at \in Nat
  BY ListAssumption DEF TypeOK, Rows
<1>4. \A j \in Listed(rows) : Ahead(rows, j, i) => j \in Listed(rows') /\ Ahead(rows', j, i)
  <2>. SUFFICES ASSUME NEW j \in Items, ~rows[j].deleted, Ahead(rows, j, i)
                PROVE  ~rows'[j].deleted /\ Ahead(rows', j, i)
    BY DEF Listed
  <2>1. CASE j # c  BY <1>1, <2>1 DEF Ahead
  <2>2. CASE j = c
    <3>1. ~row.deleted /\ ~(row.at < rows[c].at)  BY <1>2, <2>2
    <3>2. rows[c].at > rows[i].at \/ (rows[c].at = rows[i].at /\ c > i)  BY <2>2 DEF Ahead
    <3>. QED  BY <1>1, <1>3, <2>2, <3>1, <3>2 DEF Ahead
  <2>. QED  BY <2>1, <2>2
<1>. QED  BY <1>4, RankGrows


-------------------------------------------------------------------------------
(***************************************************************************)
(* No item twice.                                                          *)
(***************************************************************************)

\* An item that was shown, or is on the page, has a rank below the next token,
\* and is there once.
Once(i) ==
    /\ \A k, m \in DOMAIN answered : answered[k].item = i /\ answered[m].item = i => k = m
    /\ InAnswer(i) /\ token # -1 => Rank(rows, i) < token
    /\ Making /\ InPage(i) =>
          /\ ~InAnswer(i)
          /\ \A k, m \in DOMAIN page.items : page.items[k] = i /\ page.items[m] = i => k = m
          /\ page.next # -1 => Rank(rows, i) < page.next

OnceInv == NeverTied /\ ~grown => \A i \in Untouched : Once(i)

\* Before the first page is answered nothing was shown.
LEMMA NothingYet ==
    ASSUME TypeOK, token = 0
    PROVE  answered = <<>> /\ DOMAIN answered = {}
<1>1. answered \in Seq(Entries) /\ Len(answered) = 0  BY DEF TypeOK
<1>2. answered = <<>>  BY <1>1, EmptySeq
<1>. QED  BY <1>2

\* The page that is read begins where the items shown end.
LEMMA OnceReadItems ==
    ASSUME TypeOK, ReadInv, OnceInv, ReadItems, NeverTied', ~grown',
           NEW i \in Items, i \in Untouched'
    PROVE  Once(i)'
<1>1. UNCHANGED <<list, rows, limit, token, answered>> /\ token >= 0  BY DEF ReadItems
<1>2. ~Tied(rows)  BY <1>1 DEF NeverTied, Tied
<1>3. PICK items, next : items = page'.items /\ next = page'.next  OBVIOUS
<1>4. \A k \in DOMAIN items :
        /\ items[k] \in Listed(rows)
        /\ Rank(rows, items[k]) = token + k - 1
        /\ next # -1 => token + k - 1 < next
  BY <1>2, <1>3, PageRanks
<1>5. DOMAIN items \subseteq Nat \ {0}
  BY <1>2, <1>3, PageRead, LenProperties
<1>6. /\ \A k, m \in DOMAIN answered : answered[k].item = i /\ answered[m].item = i => k = m
      /\ InAnswer(i) => Rank(rows, i) < token
  <2>1. CASE token = 0  BY <2>1, NothingYet DEF InAnswer
  <2>2. CASE token # 0
    <3>1. UNCHANGED <<first, touched, grown>>  BY <2>2 DEF ReadItems
    <3>2. NeverTied /\ i \in Untouched  BY <1>1, <3>1 DEF NeverTied, Tied, Untouched, Listed
    <3>3. token # -1  BY <1>1
    <3>. QED  BY <3>1, <3>2, <3>3 DEF OnceInv, Once
  <2>. QED  BY <2>1, <2>2
<1>7. token \in Int  BY LenProperties DEF TypeOK
<1>8. \A k \in DOMAIN items : items[k] = i => ~InAnswer(i) /\ (next # -1 => Rank(rows, i) < next)
  BY <1>4, <1>5, <1>6, <1>7
<1>9. \A k, m \in DOMAIN items : items[k] = i /\ items[m] = i => k = m
  BY <1>4, <1>5, <1>7
<1>. QED  BY <1>1, <1>3, <1>6, <1>8, <1>9 DEF Once, InAnswer, InPage

\* The answer takes over the items of the page.
LEMMA OnceReadVideos ==
    ASSUME TypeOK, ReadInv, OnceInv, ReadVideos, NeverTied', ~grown',
           NEW i \in Items, i \in Untouched'
    PROVE  Once(i)'
<1>1. UNCHANGED <<list, rows, first, touched, grown>> /\ Making /\ token' = page.next
  BY DEF ReadVideos
<1>2. NeverTied /\ i \in Untouched  BY <1>1 DEF NeverTied, Tied, Untouched, Listed
<1>3. Once(i)  BY <1>1, <1>2 DEF OnceInv
<1>4. PICK n \in Nat : n = Len(answered)  BY LenProperties DEF TypeOK
<1>5. PICK p \in Nat : p = Len(page.items)  BY <1>1, LenProperties DEF TypeOK
<1>6. /\ answered' \in Seq(Entries) /\ Len(answered') = n + p
      /\ \A k \in 1 .. n : answered'[k] = answered[k]
      /\ \A k \in 1 .. p : answered'[n + k] = Shows(k)
  BY <1>4, <1>5, Appended
<1>7. /\ DOMAIN answered = 1 .. n /\ DOMAIN page.items = 1 .. p /\ DOMAIN answered' = 1 .. (n + p)
  BY <1>1, <1>4, <1>5, <1>6, LenProperties DEF TypeOK
<1>8. \A k \in 1 .. p : answered'[n + k].item = page.items[k]
  BY <1>1, <1>5, <1>6, ShowsIs
<1>9. \A k \in 1 .. (n + p) : k \in 1 .. n \/ (k - n \in 1 .. p /\ k = n + (k - n))  OBVIOUS
<1>10. \A k \in 1 .. (n + p) : answered'[k].item = i =>
         \/ k \in 1 .. n /\ answered[k].item = i
         \/ k - n \in 1 .. p /\ k = n + (k - n) /\ page.items[k - n] = i
  BY <1>6, <1>8, <1>9
<1>11. /\ (\E k \in 1 .. p : page.items[k] = i) => InPage(i)
       /\ (\E k \in 1 .. n : answered[k].item = i) => InAnswer(i)
  BY <1>7 DEF InPage, InAnswer
<1>12. ASSUME NEW k \in 1 .. (n + p), NEW m \in 1 .. (n + p),
              answered'[k].item = i, answered'[m].item = i
       PROVE  k = m
  <2>1. CASE InPage(i)
    <3>1. ~InAnswer(i)  BY <1>1, <1>3, <2>1 DEF Once
    <3>2. /\ k - n \in 1 .. p /\ k = n + (k - n) /\ page.items[k - n] = i
          /\ m - n \in 1 .. p /\ m = n + (m - n) /\ page.items[m - n] = i
      BY <1>10, <1>11, <1>12, <3>1
    <3>3. k - n = m - n  BY <1>1, <1>3, <1>7, <2>1, <3>2 DEF Once
    <3>. QED  BY <3>2, <3>3
  <2>2. CASE ~InPage(i)
    <3>1. k \in 1 .. n /\ answered[k].item = i /\ m \in 1 .. n /\ answered[m].item = i
      BY <1>10, <1>11, <1>12, <2>2
    <3>. QED  BY <1>3, <1>7, <3>1 DEF Once
  <2>. QED  BY <2>1, <2>2
<1>13. InAnswer(i)' /\ token' # -1 => Rank(rows, i) < token'
  <2>. SUFFICES ASSUME InAnswer(i)', page.next # -1  PROVE Rank(rows, i) < page.next
    BY <1>1
  <2>1. CASE InPage(i)  BY <1>1, <1>3, <2>1 DEF Once
  <2>2. CASE ~InPage(i)
    <3>1. InAnswer(i)  BY <2>2, AnswerIs
    <3>2. token >= 0 /\ token \in Int  BY <1>1, LenProperties DEF TypeOK, ReadInv
    <3>3. Rank(rows, i) < token  BY <1>3, <3>1, <3>2 DEF Once
    <3>4. page.next = token + limit /\ limit \in Nat  BY <1>1, ListAssumption DEF TypeOK
    <3>5. Rank(rows, i) \in Nat  BY RankIsNumber
    <3>. QED  BY <3>2, <3>3, <3>4, <3>5
  <2>. QED  BY <2>1, <2>2
<1>14. ~Making'  BY DEF ReadVideos, Making, NoPage
<1>. QED  BY <1>1, <1>7, <1>12, <1>13, <1>14 DEF Once, Listed, Rank

\* A mutation that lets nothing in moves no item that was shown past the token.
LEMMA OnceChange ==
    ASSUME TypeOK, ReadInv, OnceInv, NEW c \in Items, NEW row \in Rows, Change(c, row),
           NeverTied, ~grown', NEW i \in Items, i \in Untouched'
    PROVE  Once(i)'
<1>1. UNCHANGED <<list, limit, token, page, answered>>  BY DEF Change
<1>2. ~grown  BY DEF Change
<1>3. Once(i)  BY <1>2, ChangeKeeps DEF OnceInv
<1>4. Rank(rows', i) <= Rank(rows, i)  BY RankNotUp
<1>5. Rank(rows, i) \in Nat /\ Rank(rows', i) \in Nat  BY RankIsNumber
<1>6. token \in Int  BY LenProperties DEF TypeOK
<1>7. Making => page.next \in Int  BY <1>6, ListAssumption DEF TypeOK
<1>8. Making' = Making /\ InPage(i)' = InPage(i) /\ InAnswer(i)' = InAnswer(i)
  BY <1>1 DEF Making, NoPage, InPage, InAnswer
<1>9. InAnswer(i) /\ token # -1 => Rank(rows', i) < token  BY <1>3, <1>4, <1>5, <1>6 DEF Once
<1>10. Making /\ InPage(i) => (page.next # -1 => Rank(rows', i) < page.next)
  BY <1>3, <1>4, <1>5, <1>7 DEF Once
<1>. QED  BY <1>1, <1>3, <1>8, <1>9, <1>10 DEF Once

\* The invariant is kept.
LEMMA OnceStep ==
    ASSUME TypeOK, ReadInv, OnceInv, [Next]_vars
    PROVE  OnceInv'
<1>. SUFFICES ASSUME NeverTied', ~grown', NEW i \in Items, i \in Untouched'
              PROVE  Once(i)'
  BY DEF OnceInv, Untouched, Listed
<1>1. CASE ReadItems  BY <1>1, OnceReadItems
<1>2. CASE ReadVideos  BY <1>2, OnceReadVideos
<1>3. CASE \E c \in Items : AddFavorite(c) \/ RemoveFavorite(c) \/ Report(c)
  <2>1. PICK c \in Items : AddFavorite(c) \/ RemoveFavorite(c) \/ Report(c)  BY <1>3
  <2>2. PICK row \in Rows : Change(c, row)  BY <2>1, MutationIs DEF ReadInv
  <2>3. first' = first /\ list' = list  BY <2>2 DEF Change
  <2>4. NeverTied  BY <2>3, TiesStay DEF NeverTied, Tied
  <2>. QED  BY <2>2, <2>4, OnceChange
<1>4. CASE UNCHANGED <<list, rows, token, answered, first, touched, grown>> /\ (page' = page \/ page' = NoPage)
  <2>1. NeverTied /\ i \in Untouched /\ ~grown
    BY <1>4 DEF NeverTied, Tied, Untouched, Listed
  <2>2. Once(i)  BY <2>1 DEF OnceInv
  <2>3. Making' => page' = page /\ Making  BY <1>4 DEF Making, NoPage
  <2>. QED  BY <1>4, <2>2, <2>3 DEF Once, InAnswer, InPage
<1>. QED
  BY <1>1, <1>2, <1>3, <1>4 DEF Next, Done, vars, ReadFails, Project

\* An item that no mutation has touched is shown at most once unless another one
\* came into the list or moved up in it.
THEOREM ShownOnceCorrect == Spec => []ShownOnceUnlessGrown
<1>1. Init => OnceInv
  BY DEF Init, OnceInv, Once, InAnswer, Making
<1>2. TypeOK /\ OnceInv => ShownOnceUnlessGrown
  <2>. SUFFICES ASSUME TypeOK, OnceInv, NeverTied, ~grown, NEW i \in Listed(first) \ touched
                PROVE  Copies(i) <= 1
    BY DEF ShownOnceUnlessGrown
  <2>. DEFINE K == {k \in DOMAIN Shown : Shown[k] = i}
  <2>1. \A k, m \in K : k = m  BY DEF OnceInv, Once, Untouched, Shown
  <2>. HIDE DEF K
  <2>2. CASE K = {}  BY <2>2, FS_EmptySet DEF Copies, K
  <2>3. CASE K # {}
    <3>1. PICK k : k \in K  BY <2>3
    <3>2. K = {k}  BY <2>1, <3>1
    <3>3. Cardinality(K) = 1  BY <3>2, FS_Singleton
    <3>. QED  BY <3>3 DEF Copies, K
  <2>. QED  BY <2>2, <2>3
<1>. QED  BY <1>1, <1>2, ReadInit, ReadStep, OnceStep, PTL DEF Spec


-------------------------------------------------------------------------------
(***************************************************************************)
(* No item missed.                                                         *)
(***************************************************************************)

\* An item that was not shown has a rank from the token on, and while a page is
\* being made it is on it or comes behind it.
Reach(i) ==
    \/ InAnswer(i)
    \/ /\ token # -1 /\ token <= Rank(rows, i)
       /\ Making => InPage(i) \/ (page.next # -1 /\ page.next <= Rank(rows, i))

ReachInv == NeverTied /\ ~shrunk => \A i \in Untouched : Reach(i)

\* The page that is read begins where the items shown end.
LEMMA ReachReadItems ==
    ASSUME TypeOK, ReadInv, ReachInv, ReadItems, NeverTied', ~shrunk',
           NEW i \in Items, i \in Untouched'
    PROVE  Reach(i)'
<1>1. UNCHANGED <<list, rows, limit, token, answered>> /\ token >= 0  BY DEF ReadItems
<1>2. ~Tied(rows)  BY <1>1 DEF NeverTied, Tied
<1>3. i \in Listed(rows)
  <2>1. ReadInv'  BY ReadItemsTyped
  <2>2. rows'[i] = first'[i] /\ ~first'[i].deleted
    BY <2>1 DEF ReadInv, Untouched, Listed
  <2>. QED  BY <1>1, <2>2 DEF Listed
<1>4. Rank(rows, i) \in Nat /\ token \in Nat
  <2>1. Rank(rows, i) \in Nat  BY RankIsNumber
  <2>2. Len(answered) \in Nat  BY LenProperties DEF TypeOK
  <2>. QED  BY <1>1, <2>1, <2>2 DEF TypeOK
<1>5. InAnswer(i) \/ token <= Rank(rows, i)
  <2>1. CASE token = 0  BY <1>4, <2>1
  <2>2. CASE token # 0
    <3>1. UNCHANGED <<first, touched, shrunk>>  BY <2>2 DEF ReadItems
    <3>2. NeverTied /\ i \in Untouched  BY <1>1, <3>1 DEF NeverTied, Tied, Untouched, Listed
    <3>. QED  BY <3>1, <3>2 DEF ReachInv, Reach
  <2>. QED  BY <2>1, <2>2
<1>6. token <= Rank(rows, i) =>
        InPage(i)' \/ (page'.next # -1 /\ page'.next <= Rank(rows, i))
  BY <1>2, <1>3, PageRanks
<1>. QED  BY <1>1, <1>4, <1>5, <1>6 DEF Reach, InAnswer, InPage

\* The answer takes over the items of the page.
LEMMA ReachReadVideos ==
    ASSUME TypeOK, ReadInv, ReachInv, ReadVideos, NeverTied', ~shrunk',
           NEW i \in Items, i \in Untouched'
    PROVE  Reach(i)'
<1>1. UNCHANGED <<list, rows, first, touched, shrunk>> /\ Making /\ token' = page.next
  BY DEF ReadVideos
<1>2. NeverTied /\ i \in Untouched  BY <1>1 DEF NeverTied, Tied, Untouched, Listed
<1>3. Reach(i)  BY <1>1, <1>2 DEF ReachInv
<1>4. InAnswer(i)' <=> InAnswer(i) \/ InPage(i)  BY AnswerIs
<1>5. ~Making'  BY DEF ReadVideos, Making, NoPage
<1>. QED  BY <1>1, <1>3, <1>4, <1>5 DEF Reach

\* A mutation that lets nothing out moves no item before the token.
LEMMA ReachChange ==
    ASSUME TypeOK, ReadInv, ReachInv, NEW c \in Items, NEW row \in Rows, Change(c, row),
           NeverTied, ~shrunk', NEW i \in Items, i \in Untouched'
    PROVE  Reach(i)'
<1>1. UNCHANGED <<list, limit, token, page, answered>>  BY DEF Change
<1>2. ~shrunk  BY DEF Change
<1>3. Reach(i)  BY <1>2, ChangeKeeps DEF ReachInv
<1>4. Rank(rows, i) <= Rank(rows', i)  BY RankNotDown
<1>5. Rank(rows, i) \in Nat /\ Rank(rows', i) \in Nat  BY RankIsNumber
<1>6. token \in Int  BY LenProperties DEF TypeOK
<1>7. Making => page.next \in Int  BY <1>6, ListAssumption DEF TypeOK
<1>8. Making' = Making /\ InPage(i)' = InPage(i) /\ InAnswer(i)' = InAnswer(i)
  BY <1>1 DEF Making, NoPage, InPage, InAnswer
<1>9. token <= Rank(rows, i) => token <= Rank(rows', i)  BY <1>4, <1>5, <1>6
<1>10. Making /\ page.next <= Rank(rows, i) => page.next <= Rank(rows', i)
  BY <1>4, <1>5, <1>7
<1>. QED  BY <1>1, <1>3, <1>8, <1>9, <1>10 DEF Reach

\* The invariant is kept.
LEMMA ReachStep ==
    ASSUME TypeOK, ReadInv, ReachInv, [Next]_vars
    PROVE  ReachInv'
<1>. SUFFICES ASSUME NeverTied', ~shrunk', NEW i \in Items, i \in Untouched'
              PROVE  Reach(i)'
  BY DEF ReachInv, Untouched, Listed
<1>1. CASE ReadItems  BY <1>1, ReachReadItems
<1>2. CASE ReadVideos  BY <1>2, ReachReadVideos
<1>3. CASE \E c \in Items : AddFavorite(c) \/ RemoveFavorite(c) \/ Report(c)
  <2>1. PICK c \in Items : AddFavorite(c) \/ RemoveFavorite(c) \/ Report(c)  BY <1>3
  <2>2. PICK row \in Rows : Change(c, row)  BY <2>1, MutationIs DEF ReadInv
  <2>3. first' = first /\ list' = list  BY <2>2 DEF Change
  <2>4. NeverTied  BY <2>3, TiesStay DEF NeverTied, Tied
  <2>. QED  BY <2>2, <2>4, ReachChange
<1>4. CASE UNCHANGED <<list, rows, token, answered, first, touched, shrunk>> /\ (page' = page \/ page' = NoPage)
  <2>1. NeverTied /\ i \in Untouched /\ ~shrunk
    BY <1>4 DEF NeverTied, Tied, Untouched, Listed
  <2>2. Reach(i)  BY <2>1 DEF ReachInv
  <2>3. Making' => page' = page /\ Making  BY <1>4 DEF Making, NoPage
  <2>. QED  BY <1>4, <2>2, <2>3 DEF Reach, InAnswer, InPage
<1>. QED
  BY <1>1, <1>2, <1>3, <1>4 DEF Next, Done, vars, ReadFails, Project

\* A client who reads to the end is shown every item that no mutation has touched
\* unless another one left the list or moved down in it.
THEOREM ShownAllCorrect == Spec => []ShownUnlessShrunk
<1>1. Init => ReachInv
  <2>1. \A i : Rank(rows, i) \in Nat  BY RankIsNumber
  <2>2. Init => token = 0 /\ ~Making  BY DEF Init, Making
  <2>3. \A i : Init => token # -1 /\ token <= Rank(rows, i)  BY <2>1, <2>2
  <2>. QED  BY <2>2, <2>3 DEF ReachInv, Reach
<1>2. TypeOK /\ ReachInv => ShownUnlessShrunk
  <2>. SUFFICES ASSUME TypeOK, ReachInv, token = -1, NeverTied, ~shrunk,
                       NEW i \in Listed(first) \ touched
                PROVE  Copies(i) >= 1
    BY DEF ShownUnlessShrunk
  <2>. DEFINE K == {k \in DOMAIN Shown : Shown[k] = i}
  <2>1. InAnswer(i)  BY DEF ReachInv, Reach, Untouched
  <2>2. K # {}  BY <2>1 DEF InAnswer, Shown
  <2>3. IsFiniteSet(K)
    <3>1. PICK n \in Nat : n = Len(answered)  BY LenProperties DEF TypeOK
    <3>2. K \in SUBSET (1 .. n)  BY <3>1, LenProperties DEF TypeOK, Shown
    <3>3. IsFiniteSet(1 .. n)  BY FS_Interval
    <3>. HIDE DEF K
    <3>. QED  BY <3>2, <3>3, FS_Subset
  <2>. HIDE DEF K
  <2>4. Cardinality(K) \in Nat /\ Cardinality(K) # 0
    BY <2>2, <2>3, FS_CardinalityType, FS_EmptySet
  <2>5. Cardinality(K) >= 1  BY <2>4
  <2>. QED  BY <2>5 DEF Copies, K
<1>. QED  BY <1>1, <1>2, ReadInit, ReadStep, ReachStep, PTL DEF Spec

-------------------------------------------------------------------------------
(***************************************************************************)
(* The order of the pages.                                                 *)
(***************************************************************************)

\* While nothing moved, an item was shown as the one of its rank.
OrderInv ==
    NeverTied /\ ~shrunk /\ ~grown =>
        /\ \A k \in DOMAIN answered :
              answered[k].item \in Listed(rows) /\ Rank(rows, answered[k].item) = k - 1
        /\ Making => \A k \in DOMAIN page.items :
              page.items[k] \in Listed(rows) /\ Rank(rows, page.items[k]) = token + k - 1

\* The page that is read begins where the items shown end.
LEMMA OrderReadItems ==
    ASSUME TypeOK, ReadInv, OrderInv, ReadItems
    PROVE  OrderInv'
<1>. SUFFICES ASSUME NeverTied', ~shrunk', ~grown'
              PROVE  /\ \A k \in DOMAIN answered' :
                           /\ answered'[k].item \in Listed(rows')
                           /\ Rank(rows', answered'[k].item) = k - 1
                     /\ \A k \in DOMAIN page'.items :
                           /\ page'.items[k] \in Listed(rows')
                           /\ Rank(rows', page'.items[k]) = token' + k - 1
  BY DEF OrderInv, Listed, Rank, Ahead
<1>1. UNCHANGED <<list, rows, limit, token, answered>> /\ token >= 0  BY DEF ReadItems
<1>2. ~Tied(rows)  BY <1>1 DEF NeverTied, Tied
<1>3. \A k \in DOMAIN page'.items :
        page'.items[k] \in Listed(rows) /\ Rank(rows, page'.items[k]) = token + k - 1
  BY <1>2, PageRanks
<1>4. \A k \in DOMAIN answered :
        answered[k].item \in Listed(rows) /\ Rank(rows, answered[k].item) = k - 1
  <2>1. CASE token = 0  BY <2>1, NothingYet
  <2>2. CASE token # 0
    <3>1. UNCHANGED <<first, shrunk, grown>>  BY <2>2 DEF ReadItems
    <3>2. NeverTied  BY <1>1, <3>1 DEF NeverTied, Tied
    <3>. QED  BY <3>1, <3>2 DEF OrderInv
  <2>. QED  BY <2>1, <2>2
<1>. QED  BY <1>1, <1>3, <1>4

\* The answer takes over the items of the page.
LEMMA OrderReadVideos ==
    ASSUME TypeOK, ReadInv, OrderInv, ReadVideos
    PROVE  OrderInv'
<1>1. UNCHANGED <<list, rows, first, shrunk, grown>> /\ Making  BY DEF ReadVideos
<1>2. ~Making'  BY DEF ReadVideos, Making, NoPage
<1>. SUFFICES ASSUME NeverTied', ~shrunk', ~grown', NEW k \in DOMAIN answered'
              PROVE  answered'[k].item \in Listed(rows) /\ Rank(rows, answered'[k].item) = k - 1
  BY <1>1, <1>2 DEF OrderInv, Listed, Rank, Ahead
<1>3. NeverTied /\ ~shrunk /\ ~grown  BY <1>1 DEF NeverTied, Tied
<1>4. PICK n \in Nat : n = Len(answered)  BY LenProperties DEF TypeOK
<1>5. PICK p \in Nat : p = Len(page.items)  BY <1>1, LenProperties DEF TypeOK
<1>6. /\ answered' \in Seq(Entries) /\ Len(answered') = n + p
      /\ \A j \in 1 .. n : answered'[j] = answered[j]
      /\ \A j \in 1 .. p : answered'[n + j] = Shows(j)
  BY <1>4, <1>5, Appended
<1>7. /\ DOMAIN answered = 1 .. n /\ DOMAIN page.items = 1 .. p /\ DOMAIN answered' = 1 .. (n + p)
  BY <1>1, <1>4, <1>5, <1>6, LenProperties DEF TypeOK
<1>8. token = n  BY <1>1, <1>4 DEF TypeOK, ReadInv
<1>9. CASE k <= n
  <2>1. k \in DOMAIN answered /\ answered'[k] = answered[k]  BY <1>6, <1>7, <1>9
  <2>. QED  BY <1>3, <2>1 DEF OrderInv
<1>10. ASSUME NEW j \in 1 .. p, k = n + j
       PROVE  answered'[k].item \in Listed(rows) /\ Rank(rows, answered'[k].item) = k - 1
  <2>1. answered'[k].item = page.items[j]  BY <1>1, <1>5, <1>6, <1>10, ShowsIs
  <2>2. page.items[j] \in Listed(rows) /\ Rank(rows, page.items[j]) = n + j - 1
    BY <1>1, <1>3, <1>7, <1>8 DEF OrderInv
  <2>. QED  BY <1>10, <2>1, <2>2
<1>11. k <= n \/ (k - n \in 1 .. p /\ k = n + (k - n))  BY <1>7
<1>. QED  BY <1>9, <1>10, <1>11

\* A mutation that lets nothing in and nothing out changes nothing.
LEMMA OrderChange ==
    ASSUME TypeOK, ReadInv, OrderInv, NEW c \in Items, NEW row \in Rows,
           AddFavorite(c) \/ RemoveFavorite(c) \/ Report(c), Change(c, row), NeverTied
    PROVE  OrderInv'
<1>1. UNCHANGED <<list, limit, token, page, answered>>  BY DEF Change
<1>2. Making' = Making  BY <1>1 DEF Making, NoPage
<1>. SUFFICES ASSUME ~shrunk', ~grown'
              PROVE  /\ ~shrunk /\ ~grown
                     /\ rows' = rows
  BY <1>1, <1>2 DEF OrderInv, Listed, Rank, Ahead
<1>3. ~shrunk /\ ~grown  BY DEF Change
<1>4. /\ rows[c].deleted \/ (~row.deleted /\ ~(row.at < rows[c].at))
      /\ row.deleted \/ (~rows[c].deleted /\ ~(row.at > rows[c].at))
  BY DEF Change
<1>5. rows[c] \in Rows  BY DEF TypeOK
<1>6. rows' = [rows EXCEPT ![c] = row]  BY DEF Change
<1>7. ~(rows[c].deleted /\ row.deleted)
  <2>1. rows'[c] = row  BY <1>6 DEF TypeOK
  <2>2. CASE RemoveFavorite(c)  BY <2>2 DEF RemoveFavorite
  <2>3. CASE AddFavorite(c) \/ Report(c)
    <3>1. ~rows'[c].deleted  BY <2>3 DEF AddFavorite, Report, Change, TypeOK
    <3>. QED  BY <2>1, <3>1
  <2>. QED  BY <2>2, <2>3
<1>8. row = rows[c]
  <2>1. row.at \in Int /\ rows[c].at \in Int  BY <1>5, ListAssumption DEF Rows
  <2>2. row.at = rows[c].at /\ ~row.deleted /\ ~rows[c].deleted  BY <1>4, <1>7, <2>1
  <2>3. row.deleted = rows[c].deleted  BY <1>5, <2>2, Zenon DEF Rows
  <2>4. \A x, y \in Rows : x.at = y.at /\ x.deleted = y.deleted => x = y  BY DEF Rows
  <2>. QED  BY <1>5, <2>2, <2>3, <2>4
<1>9. rows' = rows  BY <1>6, <1>8 DEF TypeOK
<1>. QED  BY <1>3, <1>9

\* The invariant is kept.
LEMMA OrderStep ==
    ASSUME TypeOK, ReadInv, OrderInv, [Next]_vars
    PROVE  OrderInv'
<1>1. CASE ReadItems  BY <1>1, OrderReadItems
<1>2. CASE ReadVideos  BY <1>2, OrderReadVideos
<1>3. CASE \E c \in Items : AddFavorite(c) \/ RemoveFavorite(c) \/ Report(c)
  <2>1. PICK c \in Items : AddFavorite(c) \/ RemoveFavorite(c) \/ Report(c)  BY <1>3
  <2>2. PICK row \in Rows : Change(c, row)  BY <2>1, MutationIs DEF ReadInv
  <2>3. first' = first /\ list' = list  BY <2>2 DEF Change
  <2>4. CASE NeverTied  BY <2>1, <2>2, <2>4, OrderChange
  <2>5. CASE ~NeverTied
    <3>1. ~NeverTied'  BY <2>3, <2>5, TiesStay DEF NeverTied, Tied
    <3>. QED  BY <3>1 DEF OrderInv
  <2>. QED  BY <2>4, <2>5
<1>4. CASE UNCHANGED <<list, rows, token, answered, first, shrunk, grown>> /\ (page' = page \/ page' = NoPage)
  <2>1. Making' => page' = page /\ Making  BY <1>4 DEF Making, NoPage
  <2>. QED  BY <1>4, <2>1 DEF OrderInv, NeverTied, Tied, Listed, Rank, Ahead
<1>. QED
  BY <1>1, <1>2, <1>3, <1>4 DEF Next, Done, vars, ReadFails, Project

\* Across all its pages a list in which nothing moved is shown newest first.
THEOREM ShownInOrderCorrect == Spec => []ShownInOrder
<1>1. Init => OrderInv
  BY DEF Init, OrderInv, Making
<1>2. TypeOK /\ OrderInv => ShownInOrder
  <2>. SUFFICES ASSUME TypeOK, OrderInv, NeverTied, ~shrunk, ~grown,
                       NEW k \in DOMAIN Shown, NEW m \in DOMAIN Shown, k < m
                PROVE  Ahead(rows, Shown[k], Shown[m])
    BY DEF ShownInOrder, Ahead
  <2>1. DOMAIN Shown = DOMAIN answered /\ DOMAIN answered \subseteq Nat
    BY LenProperties DEF TypeOK, Shown
  <2>2. /\ Shown[k] \in Listed(rows) /\ Rank(rows, Shown[k]) = k - 1
        /\ Shown[m] \in Listed(rows) /\ Rank(rows, Shown[m]) = m - 1
    BY <2>1 DEF OrderInv, Shown
  <2>3. Rank(rows, Shown[k]) < Rank(rows, Shown[m])  BY <2>1, <2>2
  <2>. QED  BY <2>2, <2>3, RankIsOrder DEF TypeOK
<1>. QED  BY <1>1, <1>2, ReadInit, ReadStep, OrderStep, PTL DEF Spec

===============================================================================
