------------------------------ MODULE ListPages ------------------------------
(***************************************************************************)
(* ListFavorites and ListWatchHistory: a client reads the list of one user *)
(* page by page, while the same user's other calls change it.  A page is   *)
(* one SELECT with LIMIT and OFFSET; the page token is the offset of the   *)
(* next page and nothing else is kept between two pages.  A second query   *)
(* finds the videos of the page, which the catalog inbox changes meanwhile *)
(* (CatalogInbox).                                                         *)
(*                                                                         *)
(* An item of favorites is an engagement row, ordered by created_at, which *)
(* has no tie break; an item of the history is a watch log, ordered by     *)
(* last_watched_at and then by video.                                      *)
(***************************************************************************)
EXTENDS Integers, FiniteSets, SequencesExt

CONSTANTS Items,            \* numbers: see VideoOf
          PageSizes,        \* what clients ask for
          DefaultPageSize,
          MaxPageSize,
          MaxTime,          \* bound: the instants a row can be stamped with
          MaxChanges,       \* bound: mutations during one reading
          MaxVersion        \* bound: the version of a projection

ASSUME ListAssumption == /\ Items \subseteq Nat /\ Items # {} /\ IsFiniteSet(Items)
                         /\ PageSizes \subseteq Int
                         /\ DefaultPageSize \in Nat /\ MaxPageSize \in Nat
                         /\ 0 < DefaultPageSize /\ DefaultPageSize <= MaxPageSize
                         /\ MaxTime \in Nat /\ MaxChanges \in Nat /\ MaxVersion \in Nat \ {0}

Lists == {"favorites", "history"}
Rows == [at : 0 .. MaxTime, deleted : BOOLEAN]
Absent == [at |-> 0, deleted |-> TRUE]

\* The like and the bookmark of a video are two items of favorites; the history
\* has one item of a video, and the numbers follow the video ids.
VideoOf(l, i) == IF l = "favorites" THEN i \div 2 ELSE i
VideosOf(l) == {VideoOf(l, i) : i \in Items}
Videos == UNION {VideosOf(l) : l \in Lists}

\* An item as it is shown: with the video and the version that was joined to
\* it, and the version there was when the page was asked for.  0: no projection.
NoVideo == -1
Entries == [item : Items, video : Videos \cup {NoVideo},
            version : 0 .. MaxVersion, since : 0 .. MaxVersion]

VARIABLES list,     \* which of the two lists is read
          rows,     \* the rows of the user: created_at or last_watched_at
          limit,    \* the page size of the reading
          token,    \* the offset of the next page, -1 after the last page
          catalog,  \* the version of each video in profile.videos_projection
          page,     \* the page that is being made: its items, the token behind
                    \* it and the catalog when it was asked for
          answered, \* the items of the pages read
          first,    \* the rows when the first page was read
          changes,  \* how many mutations there were since
          touched,  \* the items they changed
          shrunk,   \* an item has left the list or moved down in it
          grown     \* an item has come into the list or moved up in it

vars == <<list, rows, limit, token, catalog, page, answered, first, changes, touched, shrunk, grown>>

-------------------------------------------------------------------------------
Listed(r) == {i \in Items : ~r[i].deleted}

\* MUTANT: neither list has a tie break.
Before_NoTieBreak(l, r, i, j) == r[i].at >= r[j].at

\* Whether item i may stand before item j in the result of the query.
Before(l, r, i, j) ==
    \/ r[i].at > r[j].at
    \/ r[i].at = r[j].at /\ (l = "history" => i > j)

\* The orders in which the database may return the rows.
Results(l, r) ==
    {s \in SetToSeqs(Listed(r)) :
        \A i, j \in DOMAIN s : i < j => Before(l, r, s[i], s[j])}

\* MUTANT: no maximum.
ParsePageSize_NoMaximum(size) == IF size <= 0 THEN DefaultPageSize ELSE size

\* Whatever a client asks for: at least one item, at most MaxPageSize.
ParsePageSize(size) ==
    IF size <= 0 THEN DefaultPageSize ELSE IF size > MaxPageSize THEN MaxPageSize ELSE size

\* MUTANT: the next page begins behind the item that was read ahead.
NextToken_ReadAhead(offset, found) == IF found > limit THEN offset + found ELSE -1

\* The query reads one row more than the page to see whether there is another.
NextToken(offset, found) == IF found > limit THEN offset + limit ELSE -1

\* LIMIT n OFFSET k.
Slice(s, offset, n) == [k \in 1 .. Min({n, Len(s) - offset}) |-> s[offset + k]]

NoPage == [items |-> <<>>, next |-> -1, asked |-> <<>>]
Making == page # NoPage

\* The items of the page, or none: the client asks for the page at its token.
ReadItems ==
    /\ token >= 0 /\ ~Making
    /\ \E s \in Results(list, rows) :
         LET found == Slice(s, token, limit + 1) IN
         page' = [items |-> Slice(found, 0, limit), next |-> NextToken(token, Len(found)),
                  asked |-> catalog]
    /\ \/ token = 0 /\ first' = rows /\ touched' = {} /\ shrunk' = FALSE /\ grown' = FALSE
       \/ token > 0 /\ UNCHANGED <<first, touched, shrunk, grown>>
    /\ UNCHANGED <<list, rows, limit, token, catalog, answered, changes>>

\* MUTANT: the videos are joined in the order in which the query returns them.
Joined_ByPosition(items) ==
    LET ids == {VideoOf(list, items[k]) : k \in DOMAIN items}
        found == SetToSeq({v \in ids : catalog[v] > 0}) IN
    [k \in DOMAIN items |-> IF k > Len(found) THEN NoVideo ELSE found[k]]

\* Each item with its video, if the projections have it: the query returns the
\* rows it finds, in any order, and they are looked up by id.
Joined(items) ==
    [k \in DOMAIN items |-> LET v == VideoOf(list, items[k]) IN IF catalog[v] > 0 THEN v ELSE NoVideo]

Shows(k) ==
    LET v == Joined(page.items)[k] IN
    [item |-> page.items[k], video |-> v, version |-> IF v = NoVideo THEN 0 ELSE catalog[v],
     since |-> page.asked[VideoOf(list, page.items[k])]]

\* The videos of the page in one query, and the page is answered.
ReadVideos ==
    /\ Making
    /\ answered' = answered \o [k \in DOMAIN page.items |-> Shows(k)]
    /\ token' = page.next
    /\ page' = NoPage
    /\ UNCHANGED <<list, rows, limit, catalog, first, changes, touched, shrunk, grown>>

\* A query fails (for favorites, that of the statistics too, which are not
\* shown); the client has no page and asks for it again.
ReadFails ==
    /\ Making
    /\ page' = NoPage
    /\ UNCHANGED <<list, rows, limit, token, catalog, answered, first, changes, touched, shrunk, grown>>

-------------------------------------------------------------------------------
(***************************************************************************)
(* The mutations and the inbox.  Only what they do during the reading      *)
(* matters.                                                                *)
(***************************************************************************)

Counted ==
    /\ token > 0 \/ Making
    /\ changes < MaxChanges
    /\ changes' = changes + 1

Change(i, row) ==
    /\ Counted
    /\ rows' = [rows EXCEPT ![i] = row]
    /\ touched' = touched \cup {i}
    /\ shrunk' = (shrunk \/ (~rows[i].deleted /\ (row.deleted \/ row.at < rows[i].at)))
    /\ grown' = (grown \/ (~row.deleted /\ (rows[i].deleted \/ row.at > rows[i].at)))
    /\ UNCHANGED <<list, limit, token, catalog, page, answered, first>>

\* A favorite that comes back keeps its created_at and so its old place.
AddFavorite(i) ==
    /\ list = "favorites" /\ rows[i].deleted
    /\ \E at \in 1 .. MaxTime :
         Change(i, [at |-> IF rows[i].at = 0 THEN at ELSE rows[i].at, deleted |-> FALSE])

RemoveFavorite(i) ==
    /\ list = "favorites" /\ ~rows[i].deleted
    /\ Change(i, [rows[i] EXCEPT !.deleted = TRUE])

\* A report stamps its log, with the server's time or one the client states.
Report(i) ==
    /\ list = "history"
    /\ \E at \in 1 .. MaxTime : Change(i, [at |-> at, deleted |-> FALSE])

\* The inbox creates the projection of a video or replaces it by a newer one.
Project(v) ==
    /\ catalog[v] < MaxVersion
    /\ Counted
    /\ catalog' = [catalog EXCEPT ![v] = @ + 1]
    /\ UNCHANGED <<list, rows, limit, token, page, answered, first, touched, shrunk, grown>>

-------------------------------------------------------------------------------
Init ==
    /\ list \in Lists
    /\ rows \in [Items -> [at : 1 .. MaxTime, deleted : {FALSE}] \cup {Absent}]
    /\ limit \in {ParsePageSize(size) : size \in PageSizes}
    /\ token = 0
    /\ catalog \in [VideosOf(list) -> 0 .. 1]
    /\ page = NoPage
    /\ answered = <<>>
    /\ first = rows
    /\ changes = 0
    /\ touched = {}
    /\ shrunk = FALSE
    /\ grown = FALSE

Done == token = -1 /\ UNCHANGED vars

Next ==
    \/ ReadItems \/ ReadVideos \/ ReadFails
    \/ \E i \in Items : AddFavorite(i) \/ RemoveFavorite(i) \/ Report(i)
    \/ \E v \in VideosOf(list) : Project(v)
    \/ Done

Spec == Init /\ [][Next]_vars

-------------------------------------------------------------------------------
TypeOK ==
    /\ list \in Lists
    /\ rows \in [Items -> Rows] /\ first \in [Items -> Rows]
    /\ limit \in 1 .. MaxPageSize
    /\ answered \in Seq(Entries) /\ token \in {-1, Len(answered)}
    /\ catalog \in [VideosOf(list) -> 0 .. MaxVersion]
    /\ Making => /\ page.items \in Seq(Items) /\ Len(page.items) <= limit
                 /\ page.next \in {-1, token + limit}
                 /\ page.asked \in [VideosOf(list) -> 0 .. MaxVersion]
    /\ changes \in 0 .. MaxChanges
    /\ touched \subseteq Items
    /\ shrunk \in BOOLEAN /\ grown \in BOOLEAN

Shown == [k \in DOMAIN answered |-> answered[k].item]
Copies(i) == Cardinality({k \in DOMAIN Shown : Shown[k] = i})

\* Rows that leave the order to the database.
Tied(r) == list = "favorites" /\ \E i, j \in Items : i # j /\ r[i].at = r[j].at /\ r[i].at # 0
NeverTied == ~Tied(first) /\ ~Tied(rows)

\* An item that nobody touched during the reading is shown, unless another one
\* left the list or moved down: then the items behind it move into pages that
\* were read.
ShownUnlessShrunk ==
    token = -1 /\ NeverTied /\ ~shrunk =>
        \A i \in Listed(first) \ touched : Copies(i) >= 1

\* And it is shown once, unless another one came into the list or moved up.
ShownOnceUnlessGrown ==
    NeverTied /\ ~grown => \A i \in Listed(first) \ touched : Copies(i) <= 1

\* A list that did not change is shown in its order, newest first, across all
\* pages.
ShownInOrder ==
    NeverTied /\ ~shrunk /\ ~grown =>
        \A k, m \in DOMAIN Shown : k < m =>
            LET i == Shown[k]
                j == Shown[m] IN
            rows[i].at > rows[j].at \/ (rows[i].at = rows[j].at /\ i > j)

\* An item is shown with its own video or, if there was none, with none: as it
\* was at one moment between the question and the answer, although the page is
\* put together from two queries.  And a client that meets a video again on a
\* later page does not see it older.
ShownWithItsVideo ==
    \A k \in DOMAIN answered :
        LET e == answered[k]
            v == VideoOf(list, e.item) IN
        /\ e.video \in {v, NoVideo} /\ (e.video = NoVideo <=> e.version = 0)
        /\ e.since <= e.version /\ e.version <= catalog[v]
        /\ \A m \in k + 1 .. Len(answered) :
              VideoOf(list, answered[m].item) = v => e.version <= answered[m].version
===============================================================================
