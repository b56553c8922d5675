----------------------------- MODULE ProfileUsers -----------------------------
(***************************************************************************)
(* UpdateProfile and UpdatePreferences on the row of one user (rows of     *)
(* different users share nothing).  Each call runs one READ COMMITTED      *)
(* transaction: it loads the row without locking it, decides on what it    *)
(* loaded (the expected version, the name a creation needs), and then      *)
(* overwrites every column by an upsert that does not look at the version  *)
(* again.                                                                  *)
(*                                                                         *)
(* A value is named by the call that wrote it: the calls write different   *)
(* values, so the row says whose update is still there.                    *)
(***************************************************************************)
EXTENDS Naturals, FiniteSets, Sequences

CONSTANTS Calls,
          PrefKeys,  \* the keys of preferences_json
          Versions,  \* the expected_profile_version values clients send
          None       \* no row, no value, no expected version, no lock holder

Fields == {"display_name", "avatar_url"} \cup PrefKeys
Rows == [fields : [Fields -> Calls \cup {None}], version : Nat]

ASSUME ProfileAssumption == /\ Versions \subseteq Nat
                            /\ None \notin Calls \cup Rows \cup Nat

\* sets: the fields the request gives (an empty display_name counts as not
\* given).  The profile call may come with an empty
\* preferences message and set nothing; the preferences call may not.
Inputs ==
    [op : {"profile"}, sets : SUBSET Fields, expected : Versions \cup {None}] \cup
    [op : {"preferences"}, sets : (SUBSET PrefKeys) \ {{}}, expected : Versions \cup {None}]

VARIABLES input,    \* what each call asks for
          pc,       \* the statement each call runs next, or how it ended
          row,      \* the committed row of profile.users
          read,     \* what each call loaded
          pend,     \* the uncommitted row of each call, its answer later
          lock,     \* holder of the row
          history,  \* every committed row with its call, in commit order
          seen      \* how many rows were committed when each call loaded

vars == <<input, pc, row, read, pend, lock, history, seen>>

InTx == {"load", "upsert", "commit"}
Committed == {"answered", "unanswered"}
Refusals == {"conflict", "notFound", "invalid"}
Ended == Committed \cup Refusals \cup {"rejected"}

-------------------------------------------------------------------------------
\* What the service answers on the loaded row, "upsert" when it goes on.
Verdict(in, loaded) ==
    CASE loaded = None /\ in.op = "preferences" -> "notFound"
      [] loaded = None /\ in.op = "profile" /\ in.expected # None -> "conflict"
      [] loaded = None /\ in.op = "profile" /\ in.expected = None
           /\ "display_name" \notin in.sets -> "invalid"
      [] loaded # None /\ in.expected \notin {None, loaded.version} -> "conflict"
      [] OTHER -> "upsert"

\* A plain SELECT: it takes no lock.
Load(c) ==
    /\ pc[c] = "load"
    /\ read' = [read EXCEPT ![c] = row]
    /\ pc' = [pc EXCEPT ![c] = Verdict(input[c], row)]
    /\ seen' = [seen EXCEPT ![c] = Len(history)]
    /\ UNCHANGED <<input, row, pend, lock, history>>

Blank == [fields |-> [f \in Fields |-> None], version |-> 0]

\* MUTANT: preferences that were never set stay a nil map.
Patched_NilPrefs(c, old) ==
    LET base == IF old = None THEN Blank ELSE old IN
    [fields |-> [f \in (Fields \ PrefKeys) \cup input[c].sets |->
                    IF f \in input[c].sets THEN c ELSE base.fields[f]],
     version |-> base.version + 1]

\* The row a call makes of another: its own values over the old ones.
Patched(c, old) ==
    LET base == IF old = None THEN Blank ELSE old IN
    [fields |-> [f \in Fields |-> IF f \in input[c].sets THEN c ELSE base.fields[f]],
     version |-> base.version + 1]

\* MUTANT: the version is counted up in the statement, the fields are not.
Upsert_VersionInPlace(c) ==
    /\ pc[c] = "upsert"
    /\ lock = None
    /\ lock' = c
    /\ pend' = [pend EXCEPT ![c] =
                  [Patched(c, read[c]) EXCEPT !.version = IF row = None THEN 1 ELSE row.version + 1]]
    /\ pc' = [pc EXCEPT ![c] = "commit"]
    /\ UNCHANGED <<input, row, read, history, seen>>

\* MUTANT: the upsert runs on the pool instead of the session, and commits.
Upsert_OutsideTx(c) ==
    /\ pc[c] = "upsert"
    /\ lock = None
    /\ row' = Patched(c, read[c])
    /\ pend' = [pend EXCEPT ![c] = row']
    /\ history' = Append(history, [call |-> c, row |-> row'])
    /\ pc' = [pc EXCEPT ![c] = "commit"]
    /\ UNCHANGED <<input, read, lock, seen>>

\* INSERT ... ON CONFLICT DO UPDATE of every column, by the values computed
\* from the loaded row; it waits for a concurrent writer and then overwrites.
Upsert(c) ==
    /\ pc[c] = "upsert"
    /\ lock = None
    /\ lock' = c
    /\ pend' = [pend EXCEPT ![c] = Patched(c, read[c])]
    /\ pc' = [pc EXCEPT ![c] = "commit"]
    /\ UNCHANGED <<input, row, read, history, seen>>

\* The answer is the row the upsert returned; the acknowledgement of the
\* commit may be lost.
Commit(c) ==
    /\ pc[c] = "commit"
    /\ row' = pend[c]
    /\ history' = Append(history, [call |-> c, row |-> pend[c]])
    /\ lock' = None
    /\ \E end \in Committed : pc' = [pc EXCEPT ![c] = end]
    /\ UNCHANGED <<input, read, pend, seen>>

\* Any statement can fail (lock_timeout, the command timeout, a connection).
Rollback(c) ==
    /\ pc[c] \in InTx
    /\ lock' = IF lock = c THEN None ELSE lock
    /\ pc' = [pc EXCEPT ![c] = "rejected"]
    /\ UNCHANGED <<input, row, read, pend, history, seen>>

-------------------------------------------------------------------------------
Init ==
    /\ input \in [Calls -> Inputs]
    /\ pc = [c \in Calls |-> "load"]
    /\ row = None
    /\ read = [c \in Calls |-> None]
    /\ pend = [c \in Calls |-> None]
    /\ lock = None
    /\ history = <<>>
    /\ seen = [c \in Calls |-> 0]

Proceed(c) == Load(c) \/ Upsert(c) \/ Commit(c)
Done == (\A c \in Calls : pc[c] \in Ended) /\ UNCHANGED vars
Next == (\E c \in Calls : Proceed(c) \/ Rollback(c)) \/ Done

Spec == Init /\ [][Next]_vars

-------------------------------------------------------------------------------
Entries == [call : Calls, row : Rows]

TypeOK ==
    /\ input \in [Calls -> Inputs]
    /\ pc \in [Calls -> InTx \cup Ended]
    /\ row \in Rows \cup {None}
    /\ read \in [Calls -> Rows \cup {None}]
    /\ pend \in [Calls -> Rows \cup {None}]
    /\ lock \in Calls \cup {None}
    /\ history \in Seq(Entries)
    /\ seen \in [Calls -> Nat]

\* The committed row after i commits.
RowAfter(i) == IF i = 0 THEN None ELSE history[i].row

BuiltOnLoaded(i) ==
    LET c == history[i].call
        base == RowAfter(seen[c]) IN
    /\ seen[c] < i
    /\ history[i].row = Patched(c, base)
    /\ Verdict(input[c], base) = "upsert"

\* The exact promise of the version check.  Every committed row is the patch of
\* one whole row, the one that was current when its call loaded: no field and
\* no version number comes from anywhere else, and an expected version was the
\* version of that row.  So an update can only be lost to a call that had
\* loaded before it was committed; calls that do not overlap keep the lock.
RowsBuiltOnLoaded ==
    /\ row = RowAfter(Len(history))
    /\ \A i \in 1 .. Len(history) : BuiltOnLoaded(i)

\* Why: a call that goes on keeps what it loaded, and history only grows.
BuildsOnLoaded(c) ==
    /\ pc[c] \in {"upsert", "commit"} \cup Committed =>
          /\ seen[c] \in 0 .. Len(history)
          /\ read[c] = RowAfter(seen[c])
          /\ Verdict(input[c], read[c]) = "upsert"
    /\ pc[c] \in {"commit"} \cup Committed => pend[c] = Patched(c, read[c])
BuildOnLoaded == row = RowAfter(Len(history)) /\ \A c \in Calls : BuildsOnLoaded(c)

\* A call that was answered, or lost its answer after the commit, has one row
\* in the history, the one it was answered with; a call that was refused or
\* rolled back has none, at no time.
OneRowPerCommittedCall ==
    /\ \A c \in Calls : pc[c] \in Committed =>
          \E i \in DOMAIN history : history[i] = [call |-> c, row |-> pend[c]]
    /\ \A i \in DOMAIN history : pc[history[i].call] \in Committed
    /\ \A i, j \in DOMAIN history : history[i].call = history[j].call => i = j

-------------------------------------------------------------------------------
\* ARCHITECTURE.md: writes are matched against profile_version, so that two
\* devices do not overwrite each other.  An update that states a version
\* replaces the row of that version.
ExpectedVersionIsReplaced ==
    \A i \in 1 .. Len(history) :
        LET in == input[history[i].call] IN
        in.expected # None => RowAfter(i - 1) # None /\ RowAfter(i - 1).version = in.expected
===============================================================================
