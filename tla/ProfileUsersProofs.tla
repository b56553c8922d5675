-------------------------- MODULE ProfileUsersProofs --------------------------
(***************************************************************************)
(* What holds of ProfileUsers for every set of calls, of preference keys   *)
(* and of stated versions, and of ProfileApi for every set of requests.    *)
(***************************************************************************)
EXTENDS ProfileApi, TLAPS

\* The verdict is one of the answers or to go on.
LEMMA VerdictType ==
    ASSUME NEW in, NEW loaded
    PROVE  Verdict(in, loaded) \in Refusals \cup {"upsert"}
  BY DEF Verdict, Refusals

\* The patch of a row, or of no row, is a row.
LEMMA PatchedType ==
    ASSUME TypeOK, NEW c \in Calls, NEW old \in Rows \cup {None}
    PROVE  Patched(c, old) \in Rows
  BY ProfileAssumption DEF Patched, Blank, Rows

\* A transaction that reached its commit has a row to commit.
RowReady == \A c \in Calls : pc[c] = "commit" => pend[c] \in Rows

-------------------------------------------------------------------------------
\* Every variable keeps its type, and a commit has a whole row to commit.
THEOREM TypeCorrect == Spec => [](TypeOK /\ RowReady)
<1>1. Init => TypeOK /\ RowReady
  BY DEF Init, TypeOK, RowReady, InTx
<1>2. TypeOK /\ RowReady /\ [Next]_vars => (TypeOK /\ RowReady)'
  <2> SUFFICES ASSUME TypeOK, RowReady, [Next]_vars PROVE (TypeOK /\ RowReady)'
    OBVIOUS
  <2> USE DEF TypeOK, RowReady, InTx, Ended, Committed
  <2>1. ASSUME NEW c \in Calls, Load(c) PROVE (TypeOK /\ RowReady)'
    <3>1. Verdict(input[c], row) \in Refusals \cup {"upsert"}
      BY VerdictType
    <3>2. Len(history) \in Nat
      OBVIOUS
    <3>3. pc' \in [Calls -> InTx \cup Ended] /\ \A d \in Calls : pc'[d] = "commit" => pc[d] = "commit"
      BY <2>1, <3>1 DEF Load, Refusals
    <3> QED
      BY <2>1, <3>2, <3>3 DEF Load
  <2>2. ASSUME NEW c \in Calls, Upsert(c) PROVE (TypeOK /\ RowReady)'
    <3>1. Patched(c, read[c]) \in Rows
      BY PatchedType
    <3> QED
      BY <2>2, <3>1 DEF Upsert
  <2>3. ASSUME NEW c \in Calls, Commit(c) PROVE (TypeOK /\ RowReady)'
    <3>1. [call |-> c, row |-> pend[c]] \in Entries
      BY <2>3 DEF Commit, Entries
    <3> QED
      BY <2>3, <3>1 DEF Commit
  <2>4. ASSUME NEW c \in Calls, Rollback(c) PROVE (TypeOK /\ RowReady)'
    BY <2>4 DEF Rollback
  <2>5. CASE UNCHANGED vars
    BY <2>5 DEF vars
  <2> QED
    BY <2>1, <2>2, <2>3, <2>4, <2>5 DEF Next, Proceed, Done
<1> QED
  BY <1>1, <1>2, PTL DEF Spec

\* Rows once committed stay where they are.
LEMMA HistoryGrows ==
    ASSUME TypeOK, [Next]_vars
    PROVE  /\ Len(history') \in Nat /\ Len(history) <= Len(history')
           /\ \A i \in 0 .. Len(history) : RowAfter(i)' = RowAfter(i)
<1>1. ASSUME NEW c \in Calls, Commit(c)
      PROVE  /\ Len(history') = Len(history) + 1
             /\ \A i \in 1 .. Len(history) : history'[i] = history[i]
  BY <1>1 DEF Commit, TypeOK
<1>2. ASSUME NEW c \in Calls, Load(c) \/ Upsert(c) \/ Rollback(c) PROVE history' = history
  BY <1>2 DEF Load, Upsert, Rollback
<1>3. CASE UNCHANGED vars
  BY <1>3 DEF vars, RowAfter, TypeOK
<1> QED
  BY <1>1, <1>2, <1>3 DEF Next, Proceed, Done, RowAfter, TypeOK, vars

\* A call that goes on builds on the row it loaded, as it was then.
LEMMA BuildOnLoadedStep ==
    ASSUME TypeOK, BuildOnLoaded, [Next]_vars
    PROVE  BuildOnLoaded'
<1>0. /\ Len(history) \in Nat
      /\ row = RowAfter(Len(history))
      /\ \A d \in Calls : BuildsOnLoaded(d)
  BY DEF BuildOnLoaded, TypeOK
<1>1. (row = RowAfter(Len(history)))'
  <2>1. ASSUME NEW c \in Calls, Commit(c) PROVE row' = RowAfter(Len(history))'
    BY <1>0, <2>1 DEF Commit, RowAfter, TypeOK
  <2>2. ASSUME NEW c \in Calls, Load(c) \/ Upsert(c) \/ Rollback(c)
        PROVE  row' = RowAfter(Len(history))'
    BY <1>0, <2>2 DEF Load, Upsert, Rollback, RowAfter
  <2>3. CASE UNCHANGED vars
    BY <1>0, <2>3 DEF vars, RowAfter
  <2> QED
    BY <2>1, <2>2, <2>3 DEF Next, Proceed, Done
<1>2. ASSUME NEW d \in Calls, input' = input, pc'[d] = pc[d], read'[d] = read[d],
             pend'[d] = pend[d], seen'[d] = seen[d]
      PROVE  BuildsOnLoaded(d)'
  <2>1. Verdict(input[d], read[d])' = Verdict(input[d], read[d])
    BY <1>2 DEF Verdict
  <2>2. Patched(d, read[d])' = Patched(d, read[d])
    BY <1>2 DEF Patched, Blank
  <2>3. BuildsOnLoaded(d)
    BY <1>0
  <2>4. pc[d] \in {"upsert", "commit"} \cup Committed =>
           /\ seen[d] \in 0 .. Len(history')
           /\ read[d] = RowAfter(seen[d])'
    BY <1>0, <1>2, <2>3, HistoryGrows DEF BuildsOnLoaded, RowAfter
  <2> QED
    BY <1>2, <2>1, <2>2, <2>3, <2>4 DEF BuildsOnLoaded, Committed
<1>3. ASSUME NEW c \in Calls, Load(c) PROVE BuildOnLoaded'
  <2>1. BuildsOnLoaded(c)'
    <3>1. /\ input' = input /\ history' = history
          /\ pc'[c] = Verdict(input[c], row) /\ read'[c] = row /\ seen'[c] = Len(history)
          /\ pc'[c] \in Refusals \cup {"upsert"}
      BY <1>3, VerdictType DEF Load, TypeOK
    <3>2. RowAfter(seen[c])' = RowAfter(Len(history))
      BY <3>1 DEF RowAfter
    <3>3. Verdict(input[c], read[c])' = Verdict(input[c], row)
      BY <3>1 DEF Verdict
    <3> QED
      BY <1>0, <3>1, <3>2, <3>3 DEF BuildsOnLoaded, Refusals, Committed
  <2>2. ASSUME NEW d \in Calls, d # c PROVE BuildsOnLoaded(d)'
    BY <1>2, <1>3, <2>2 DEF Load, TypeOK
  <2> QED
    BY <1>1, <2>1, <2>2 DEF BuildOnLoaded
<1>4. ASSUME NEW c \in Calls, Upsert(c) PROVE BuildOnLoaded'
  <2>1. BuildsOnLoaded(c)'
    <3>1. /\ input' = input /\ history' = history /\ read' = read /\ seen' = seen
          /\ pc[c] = "upsert" /\ pc'[c] = "commit" /\ pend'[c] = Patched(c, read[c])
      BY <1>4 DEF Upsert, TypeOK
    <3>2. /\ Patched(c, read[c])' = Patched(c, read[c])
          /\ Verdict(input[c], read[c])' = Verdict(input[c], read[c])
          /\ RowAfter(seen[c])' = RowAfter(seen[c])
      BY <3>1 DEF Patched, Blank, Verdict, RowAfter
    <3>3. BuildsOnLoaded(c)
      BY <1>0
    <3> QED
      BY <3>1, <3>2, <3>3 DEF BuildsOnLoaded
  <2>2. ASSUME NEW d \in Calls, d # c PROVE BuildsOnLoaded(d)'
    BY <1>2, <1>4, <2>2 DEF Upsert, TypeOK
  <2> QED
    BY <1>1, <2>1, <2>2 DEF BuildOnLoaded
<1>5. ASSUME NEW c \in Calls, Commit(c) PROVE BuildOnLoaded'
  <2>1. BuildsOnLoaded(c)'
    <3>1. /\ input' = input /\ read' = read /\ seen' = seen /\ pend' = pend
          /\ pc[c] = "commit"
      BY <1>5 DEF Commit
    <3>2. /\ Patched(c, read[c])' = Patched(c, read[c])
          /\ Verdict(input[c], read[c])' = Verdict(input[c], read[c])
      BY <3>1 DEF Patched, Blank, Verdict
    <3>3. BuildsOnLoaded(c)
      BY <1>0
    <3>4. seen[c] \in 0 .. Len(history') /\ read[c] = RowAfter(seen[c])'
      BY <1>0, <3>1, <3>3, HistoryGrows DEF BuildsOnLoaded, RowAfter
    <3> QED
      BY <3>1, <3>2, <3>3, <3>4 DEF BuildsOnLoaded
  <2>2. ASSUME NEW d \in Calls, d # c PROVE BuildsOnLoaded(d)'
    BY <1>2, <1>5, <2>2 DEF Commit, TypeOK
  <2> QED
    BY <1>1, <2>1, <2>2 DEF BuildOnLoaded
<1>6. ASSUME NEW c \in Calls, Rollback(c) PROVE BuildOnLoaded'
  <2>1. BuildsOnLoaded(c)'
    BY <1>6 DEF Rollback, TypeOK, BuildsOnLoaded, Committed
  <2>2. ASSUME NEW d \in Calls, d # c PROVE BuildsOnLoaded(d)'
    BY <1>2, <1>6, <2>2 DEF Rollback, TypeOK
  <2> QED
    BY <1>1, <2>1, <2>2 DEF BuildOnLoaded
<1>7. CASE UNCHANGED vars
  <2>1. ASSUME NEW d \in Calls PROVE BuildsOnLoaded(d)'
    BY <1>2, <1>7, <2>1 DEF vars
  <2> QED
    BY <1>1, <2>1 DEF BuildOnLoaded
<1> QED
  BY <1>3, <1>4, <1>5, <1>6, <1>7 DEF Next, Proceed, Done

\* Every call keeps what it loaded, whatever the others commit meanwhile.
THEOREM BuildOnLoadedCorrect == Spec => []BuildOnLoaded
<1>1. Init => BuildOnLoaded
  BY DEF Init, BuildOnLoaded, BuildsOnLoaded, RowAfter, Committed
<1> QED
  BY <1>1, BuildOnLoadedStep, TypeCorrect, PTL DEF Spec

-------------------------------------------------------------------------------
\* Every committed row names one of the calls.
LEMMA HistoryCalls ==
    ASSUME TypeOK, NEW i \in DOMAIN history
    PROVE  history[i].call \in Calls
<1>1. history \in Seq(Entries)
  BY DEF TypeOK
<1>2. history[i] \in Entries
  BY <1>1
<1> QED
  BY <1>2 DEF Entries

\* Answers and rows match: one committed row for each committed call.
THEOREM AnswersMatchHistory == Spec => []OneRowPerCommittedCall
<1>1. Init => OneRowPerCommittedCall
  BY DEF Init, OneRowPerCommittedCall, Committed
<1>2. ASSUME TypeOK, OneRowPerCommittedCall, [Next]_vars PROVE OneRowPerCommittedCall'
  <2>0. \A i \in DOMAIN history : history[i].call \in Calls
    BY <1>2, HistoryCalls
  <2>1. ASSUME NEW c \in Calls, Commit(c) PROVE OneRowPerCommittedCall'
    <3> DEFINE n == Len(history)
    <3>1. /\ n \in Nat /\ DOMAIN history = 1 .. n /\ DOMAIN history' = 1 .. n + 1
          /\ \A i \in 1 .. n : history'[i] = history[i]
          /\ history'[n + 1] = [call |-> c, row |-> pend[c]]
      BY <1>2, <2>1 DEF Commit, TypeOK
    <3>2. /\ pend' = pend /\ pc[c] \notin Committed /\ pc'[c] \in Committed
          /\ \A d \in Calls : d # c => pc'[d] = pc[d]
      BY <1>2, <2>1 DEF Commit, TypeOK, Committed
    <3>3. \A i \in 1 .. n : history[i].call # c
      BY <1>2, <3>1, <3>2 DEF OneRowPerCommittedCall
    <3>4. \A d \in Calls : pc'[d] \in Committed =>
             \E i \in 1 .. n + 1 : history'[i] = [call |-> d, row |-> pend'[d]]
      <4> SUFFICES ASSUME NEW d \in Calls, pc'[d] \in Committed
                   PROVE  \E i \in 1 .. n + 1 : history'[i] = [call |-> d, row |-> pend'[d]]
        OBVIOUS
      <4>1. CASE d = c
        BY <3>1, <3>2, <4>1
      <4>2. CASE d # c
        <5>1. PICK i \in 1 .. n : history[i] = [call |-> d, row |-> pend[d]]
          BY <1>2, <3>1, <3>2, <4>2 DEF OneRowPerCommittedCall
        <5> QED
          BY <3>1, <3>2, <5>1
      <4> QED BY <4>1, <4>2
    <3>5. \A i \in 1 .. n + 1 : pc'[history'[i].call] \in Committed
      BY <1>2, <2>0, <3>1, <3>2, <3>3 DEF OneRowPerCommittedCall
    <3>6. \A i, j \in 1 .. n + 1 : history'[i].call = history'[j].call => i = j
      BY <1>2, <3>1, <3>3 DEF OneRowPerCommittedCall
    <3> QED
      BY <3>1, <3>4, <3>5, <3>6 DEF OneRowPerCommittedCall
  <2>2. ASSUME NEW c \in Calls, Load(c) \/ Upsert(c) \/ Rollback(c)
        PROVE  OneRowPerCommittedCall'
    <3>1. /\ history' = history /\ pc[c] \notin Committed /\ pc'[c] \notin Committed
          /\ \A d \in Calls : d # c => pc'[d] = pc[d] /\ pend'[d] = pend[d]
      <4>1. CASE Load(c)
        BY <1>2, <4>1, VerdictType DEF Load, TypeOK, Committed, Refusals
      <4>2. CASE Upsert(c) \/ Rollback(c)
        BY <1>2, <4>2 DEF Upsert, Rollback, TypeOK, Committed, InTx
      <4> QED BY <2>2, <4>1, <4>2
    <3> QED
      BY <1>2, <2>0, <3>1 DEF OneRowPerCommittedCall
  <2>3. CASE UNCHANGED vars
    BY <1>2, <2>3 DEF vars, OneRowPerCommittedCall
  <2> QED
    BY <1>2, <2>1, <2>2, <2>3 DEF Next, Proceed, Done
<1> QED
  BY <1>1, <1>2, TypeCorrect, PTL DEF Spec

\* What a call asks for is fixed, so the row it makes of another one and its
\* verdict on it are.
LEMMA InputsFixed ==
    ASSUME input' = input, NEW d, NEW b
    PROVE  Patched(d, b)' = Patched(d, b) /\ Verdict(input[d], b)' = Verdict(input[d], b)
  BY DEF Patched, Blank, Verdict

\* The exact extent of the version check, for any number of calls: a committed
\* row is the patch of the row that was current when its call loaded.
THEOREM RowsAreBuiltOnLoaded == Spec => []RowsBuiltOnLoaded
<1>1. Init => RowsBuiltOnLoaded
  BY DEF Init, RowsBuiltOnLoaded, RowAfter
<1>2. ASSUME TypeOK, BuildOnLoaded, OneRowPerCommittedCall, RowsBuiltOnLoaded,
             BuildOnLoaded', [Next]_vars
      PROVE  RowsBuiltOnLoaded'
  <2>0. /\ (row = RowAfter(Len(history)))' /\ Len(history) \in Nat /\ seen \in [Calls -> Nat]
        /\ DOMAIN history = 1 .. Len(history)
        /\ \A i \in 1 .. Len(history) : history[i].call \in Calls
    <3>1. DOMAIN history = 1 .. Len(history)
      BY <1>2 DEF TypeOK
    <3>2. (row = RowAfter(Len(history)))'
      BY <1>2 DEF BuildOnLoaded
    <3>3. Len(history) \in Nat /\ seen \in [Calls -> Nat]
      BY <1>2 DEF TypeOK
    <3>4. \A i \in 1 .. Len(history) : history[i].call \in Calls
      BY <1>2, <3>1, HistoryCalls
    <3> QED
      BY <3>1, <3>2, <3>3, <3>4
  <2>1. ASSUME NEW i \in 1 .. Len(history), history'[i] = history[i], input' = input,
               seen'[history[i].call] = seen[history[i].call]
        PROVE  BuiltOnLoaded(i)'
    <3>1. PICK c \in Calls : c = history[i].call
      BY <2>0
    <3>2. PICK j \in Nat : j = seen[c]
      BY <2>0
    <3>3. PICK b : b = RowAfter(j)
      OBVIOUS
    <3>4. j < i /\ history[i].row = Patched(c, b) /\ Verdict(input[c], b) = "upsert"
      BY <1>2, <3>1, <3>2, <3>3 DEF RowsBuiltOnLoaded, BuiltOnLoaded
    <3>5. RowAfter(j)' = b
      BY <1>2, <2>0, <3>3, <3>4, HistoryGrows
    <3>6. Patched(c, b)' = Patched(c, b) /\ Verdict(input[c], b)' = Verdict(input[c], b)
      BY <2>1, InputsFixed
    <3>7. /\ history'[i].call = c /\ seen'[c] = j
          /\ history'[i].row = Patched(c, b)' /\ Verdict(input[c], b)' = "upsert"
      BY <2>1, <3>1, <3>2, <3>4, <3>6
    <3> QED
      BY <3>4, <3>5, <3>7 DEF BuiltOnLoaded
  <2>2. ASSUME NEW c \in Calls, Commit(c) PROVE RowsBuiltOnLoaded'
    <3>0. PICK n \in Nat : n = Len(history)
      BY <2>0
    <3>1. /\ input' = input /\ seen' = seen /\ pc[c] = "commit"
          /\ DOMAIN history' = 1 .. n + 1 /\ Len(history') = n + 1
          /\ \A i \in 1 .. n : history'[i] = history[i]
          /\ history'[n + 1] = [call |-> c, row |-> pend[c]]
      BY <1>2, <2>2, <3>0 DEF Commit, TypeOK
    <3>2. \A i \in 1 .. n : BuiltOnLoaded(i)'
      BY <2>1, <3>0, <3>1
    <3>3. BuiltOnLoaded(n + 1)'
      <4>1. PICK j \in Nat : j = seen[c]
        BY <2>0
      <4>2. PICK b : b = RowAfter(j)
        OBVIOUS
      <4>3. j \in 0 .. n /\ read[c] = b /\ Verdict(input[c], b) = "upsert" /\ pend[c] = Patched(c, b)
        BY <1>2, <3>0, <3>1, <4>1, <4>2 DEF BuildOnLoaded, BuildsOnLoaded
      <4>4. RowAfter(j)' = b
        BY <1>2, <3>0, <4>2, <4>3, HistoryGrows
      <4>5. /\ j < n + 1
            /\ history'[n + 1].call = c /\ seen'[c] = j /\ history'[n + 1].row = Patched(c, b)'
            /\ Verdict(input[c], b)' = "upsert"
        BY <2>0, <3>1, <4>1, <4>3, InputsFixed
      <4> QED
        BY <4>4, <4>5 DEF BuiltOnLoaded
    <3>4. \A i \in 1 .. n + 1 : i \in 1 .. n \/ i = n + 1
      BY <2>0
    <3>5. \A i \in 1 .. n + 1 : BuiltOnLoaded(i)'
      BY <3>2, <3>3, <3>4
    <3> QED
      BY <2>0, <3>1, <3>5 DEF RowsBuiltOnLoaded
  <2>3. ASSUME NEW c \in Calls, Load(c) \/ Upsert(c) \/ Rollback(c)
        PROVE  RowsBuiltOnLoaded'
    <3>1. input' = input /\ history' = history /\ \A d \in Calls : pc[d] \in Committed => seen'[d] = seen[d]
      BY <1>2, <2>3 DEF Load, Upsert, Rollback, TypeOK, Committed
    <3>2. \A i \in 1 .. Len(history) : BuiltOnLoaded(i)'
      BY <1>2, <2>0, <2>1, <3>1 DEF OneRowPerCommittedCall
    <3> QED
      BY <2>0, <3>1, <3>2 DEF RowsBuiltOnLoaded
  <2>4. CASE UNCHANGED vars
    <3>1. input' = input /\ history' = history /\ seen' = seen
      BY <2>4 DEF vars
    <3>2. \A i \in 1 .. Len(history) : BuiltOnLoaded(i)'
      BY <2>1, <3>1
    <3> QED
      BY <2>0, <3>1, <3>2 DEF RowsBuiltOnLoaded
  <2> QED
    BY <1>2, <2>2, <2>3, <2>4 DEF Next, Proceed, Done
<1> QED
  BY <1>1, <1>2, TypeCorrect, BuildOnLoadedCorrect, AnswersMatchHistory, PTL DEF Spec

-------------------------------------------------------------------------------
(***************************************************************************)
(* ProfileApi: the service under the requests that reach it.               *)
(***************************************************************************)

\* The four paths of the preferences are told apart, and each is one of them.
LEMMA Paths ==
    /\ Columns = {"display_name", "avatar_url"} /\ Columns \cap Reserved = {}
    /\ \A f \in Reserved : ReservedPath[f] \in PreferencesPaths
    /\ "profile.preferences.extra" \in PreferencesPaths
    /\ Fields = Columns \cup PrefKeys /\ Reserved \subseteq PrefKeys
    /\ Columns \cap PrefKeys = {}
  BY RequestsAssumption DEF Columns, Reserved, ReservedPath, PreferencesPaths, Fields

\* What is true of the requests that reach the service.
LEMMA AcceptedShape ==
    ASSUME NEW r \in Requests, Accepted(r)
    PROVE  /\ r.op \in {"profile", "preferences"} /\ r.expected \in Versions \cup {None}
           /\ r.given \subseteq Columns \cup Reserved /\ r.extra \subseteq PrefKeys
           /\ r.op = "preferences" => r.given \subseteq Reserved
           /\ r.given \cap Reserved # {} \/ r.extra # {} => r.preferences
           /\ r.message /\ (r.op = "preferences" => PreferencesSets(r) # {})
  BY RequestsAssumption DEF Accepted, Messages

\* A request that reaches the service asks for something the service knows.
LEMMA AskedFor ==
    ASSUME NEW r \in Requests, Accepted(r)
    PROVE  InputOf(r) \in Inputs
<1>1. CASE r.op = "profile"
  <2>1. ProfileSets(r) \in SUBSET Fields
    BY AcceptedShape, Paths DEF ProfileSets
  <2> QED
    BY <1>1, <2>1, AcceptedShape DEF InputOf, Inputs
<1>2. CASE r.op = "preferences"
  <2>1. PreferencesSets(r) \in (SUBSET PrefKeys) \ {{}}
    BY <1>2, AcceptedShape, Paths DEF PreferencesSets
  <2> QED
    BY <1>2, <2>1, AcceptedShape DEF InputOf, Inputs
<1> QED
  BY <1>1, <1>2, AcceptedShape

\* What the service is asked to set is what the request is about and gives.
LEMMA SetsAbout ==
    ASSUME NEW r \in Requests, Accepted(r), NEW f \in Fields
    PROVE  /\ f \in InputOf(r).sets => About(r, f)
           /\ f \in r.given \ r.extra /\ Should(r, PathOf(r, f)) => f \in InputOf(r).sets
           /\ f \in r.extra \ Reserved /\ About(r, f) => f \in InputOf(r).sets
<1>0. /\ \A path \in PreferencesPaths : Should(r, path) => PatchesPreferences(r)
      /\ r.given \cap Reserved # {} \/ r.extra # {} => r.preferences
      /\ r.extra \subseteq PrefKeys /\ r.given \subseteq Columns \cup Reserved
  BY AcceptedShape DEF PatchesPreferences
<1>1. CASE r.op = "profile"
  <2>1. InputOf(r).sets = ProfileSets(r)
    BY <1>1 DEF InputOf
  <2>2. About(r, f) <=> Should(r, PathOf(r, f)) \/ (f \in r.extra /\ PatchesPreferences(r))
    BY <1>1 DEF About
  <2>3. CASE f = "display_name"
    <3>1. PathOf(r, f) = "profile.display_name" /\ f \notin r.extra /\ f \notin Reserved
      BY <1>0, <1>1, <2>3, Paths DEF PathOf
    <3>2. f \in ProfileSets(r) <=> Should(r, "profile.display_name") /\ f \in r.given
      BY <2>3, <3>1, AcceptedShape DEF ProfileSets
    <3> QED
      BY <2>1, <2>2, <3>1, <3>2
  <2>4. CASE f = "avatar_url"
    <3>1. PathOf(r, f) = "profile.avatar_url" /\ f \notin r.extra /\ f \notin Reserved
      BY <1>0, <1>1, <2>4, Paths DEF PathOf
    <3>2. f \in ProfileSets(r) <=> Should(r, "profile.avatar_url")
      BY <2>4, <3>1, AcceptedShape DEF ProfileSets
    <3> QED
      BY <2>1, <2>2, <3>1, <3>2
  <2>5. CASE f \in PrefKeys
    <3>1. f \notin Columns /\ f # "display_name" /\ f # "avatar_url"
      BY <2>5, Paths
    <3>2. f \in ProfileSets(r) <=>
             /\ PatchesPreferences(r) /\ r.preferences
             /\ (f \in r.given \cap Reserved /\ Should(r, ReservedPath[f])) \/ f \in r.extra
      BY <3>1, AcceptedShape DEF ProfileSets
    <3>3. CASE f \in Reserved
      <4>1. PathOf(r, f) = ReservedPath[f]
        BY <1>1, <3>1, <3>3 DEF PathOf
      <4>2. Should(r, ReservedPath[f]) => PatchesPreferences(r)
        BY <1>0, <3>3, Paths
      <4>3. f \in r.given \/ f \in r.extra => r.preferences
        BY <1>0, <3>3
      <4> QED
        BY <2>1, <2>2, <3>2, <3>3, <4>1, <4>2, <4>3
    <3>4. CASE f \notin Reserved
      <4>1. PathOf(r, f) = "profile.preferences.extra"
        BY <1>1, <3>1, <3>4 DEF PathOf
      <4>2. Should(r, "profile.preferences.extra") => PatchesPreferences(r)
        BY <1>0, Paths
      <4>3. (f \in r.extra => r.preferences) /\ f \notin r.given
        BY <1>0, <3>1, <3>4
      <4> QED
        BY <2>1, <2>2, <3>2, <3>4, <4>1, <4>2, <4>3
    <3> QED
      BY <3>3, <3>4
  <2> QED
    BY <2>3, <2>4, <2>5, Paths
<1>2. CASE r.op = "preferences"
  <2>1. /\ f \in InputOf(r).sets <=>
              (f \in r.given \cap Reserved /\ Should(r, f)) \/ (Should(r, "extra") /\ f \in r.extra)
        /\ PathOf(r, f) = IF f \in Reserved THEN f ELSE "extra"
        /\ About(r, f) <=> f \notin Columns /\ (Should(r, PathOf(r, f)) \/ (f \in r.extra /\ Should(r, "extra")))
    BY <1>2 DEF InputOf, PreferencesSets, PathOf, About
  <2>2. r.given \subseteq Reserved /\ (f \in r.given \/ f \in r.extra => f \notin Columns)
    BY <1>2, AcceptedShape, Paths
  <2> QED
    BY <2>1, <2>2
<1> QED
  BY <1>1, <1>2, AcceptedShape

\* Every call asks for what its request says.
Asked == /\ request \in [Calls -> {r \in Requests : Accepted(r)}]
         /\ input = [c \in Calls |-> InputOf(request[c])]

\* What a call is given to do is what its request says, for good.
LEMMA AskedCorrect == ApiSpec => []Asked
<1>1. ApiInit => Asked
  BY DEF ApiInit, Asked
<1>2. Asked /\ [ApiNext]_<<vars, request>> => Asked'
  <2> SUFFICES ASSUME Asked, [ApiNext]_<<vars, request>> PROVE Asked'
    OBVIOUS
  <2>1. request' = request
    BY DEF ApiNext
  <2>2. input' = input
    BY DEF ApiNext, Next, Proceed, Load, Upsert, Commit, Rollback, Done, vars
  <2> QED
    BY <2>1, <2>2 DEF Asked
<1> QED
  BY <1>1, <1>2, PTL DEF ApiSpec

\* The handlers drive the service: whatever is proved of ProfileUsers holds
\* under every set of requests.
THEOREM RequestsRunService == ApiSpec => Spec
<1>1. ApiInit => Init
  <2> SUFFICES ASSUME ApiInit PROVE Init
    OBVIOUS
  <2>1. \A c \in Calls : request[c] \in Requests /\ Accepted(request[c])
    BY DEF ApiInit
  <2>2. input \in [Calls -> Inputs]
    BY <2>1, AskedFor DEF ApiInit
  <2> QED
    BY <2>2 DEF ApiInit, Init
<1>2. [ApiNext]_<<vars, request>> => [Next]_vars
  BY DEF ApiNext
<1> QED
  BY <1>1, <1>2, PTL DEF ApiSpec, Spec

\* An update changes in the answer what its mask names, as given, and nothing
\* else, whatever other calls commit in between.
THEOREM MaskConfinesCorrect == ApiSpec => []MaskConfines
<1>1. ASSUME TypeOK, Asked, RowsBuiltOnLoaded PROVE MaskConfines
  <2> SUFFICES ASSUME NEW i \in 1 .. Len(history), NEW f \in Fields
               PROVE  LET c == history[i].call
                          r == request[c]
                          before == IF seen[c] = 0 THEN [g \in Fields |-> None]
                                    ELSE Shown(RowAfter(seen[c]))
                          after == Shown(history[i].row) IN
                      /\ ~About(r, f) => after[f] = before[f]
                      /\ f \in r.given \ r.extra /\ Should(r, PathOf(r, f)) => after[f] = c
                      /\ f \in r.extra \ Reserved /\ About(r, f) => after[f] = c
    BY DEF MaskConfines
  <2>1. PICK c \in Calls : c = history[i].call
    BY <1>1, HistoryCalls DEF TypeOK
  <2>2. PICK r \in Requests : r = request[c] /\ Accepted(r) /\ input[c] = InputOf(r)
    BY <1>1 DEF Asked
  <2>3. PICK j \in Nat : j = seen[c] /\ j < i
    BY <1>1, <2>1 DEF TypeOK, RowsBuiltOnLoaded, BuiltOnLoaded
  <2>4. /\ j = 0 => RowAfter(j) = None
        /\ j # 0 => RowAfter(j) \in Rows /\ RowAfter(j) # None
    <3>1. j # 0 => RowAfter(j) = history[j].row /\ j \in DOMAIN history
      BY <1>1, <2>3 DEF RowAfter, TypeOK
    <3>2. \A k \in DOMAIN history : history[k].row \in Rows
      <4>1. \A k \in DOMAIN history : history[k] \in Entries
        BY <1>1 DEF TypeOK
      <4> QED
        BY <4>1 DEF Entries
    <3> QED
      BY <3>1, <3>2, ProfileAssumption DEF RowAfter
  <2>5. history[i].row = Patched(c, RowAfter(j))
    BY <1>1, <2>1, <2>3 DEF RowsBuiltOnLoaded, BuiltOnLoaded
  <2>6. PICK old : old = IF j = 0 THEN None ELSE RowAfter(j).fields[f]
    OBVIOUS
  <2>7. history[i].row.fields[f] = IF f \in InputOf(r).sets THEN c ELSE old
    BY <2>2, <2>4, <2>5, <2>6 DEF Patched, Blank
  <2>8. \A row_ : Shown(row_)[f] =
           IF row_.fields[f] # None /\ Mistyped(f, row_.fields[f]) THEN None ELSE row_.fields[f]
    BY DEF Shown
  <2>9. ~ About(r, f) => f \notin InputOf(r).sets
    BY <2>2, SetsAbout
  <2>10. /\ f \in r.given \ r.extra /\ Should(r, PathOf(r, f)) =>
               f \in InputOf(r).sets /\ ~ Mistyped(f, c)
         /\ f \in r.extra \ Reserved /\ About(r, f) => f \in InputOf(r).sets /\ ~ Mistyped(f, c)
    BY <2>2, SetsAbout DEF Mistyped
  <2>11. Shown(history[i].row)[f] =
            IF j = 0 /\ f \notin InputOf(r).sets THEN None
            ELSE IF f \in InputOf(r).sets THEN IF Mistyped(f, c) THEN None ELSE c
            ELSE Shown(RowAfter(j))[f]
    <3>1. c # None
      BY ProfileAssumption
    <3> QED
      BY <2>6, <2>7, <2>8, <3>1
  <2> QED
    BY <2>1, <2>2, <2>3, <2>9, <2>10, <2>11
<1> QED
  BY <1>1, RequestsRunService, AskedCorrect, TypeCorrect, RowsAreBuiltOnLoaded, PTL
===============================================================================
