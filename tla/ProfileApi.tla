------------------------------ MODULE ProfileApi ------------------------------
(***************************************************************************)
(* UpdateProfile and UpdatePreferences from the request to the answer: the *)
(* handler finds out whose profile is meant, turns the message and its     *)
(* update mask into the input of the service (ProfileUsers), and shows the *)
(* row the service wrote.                                                  *)
(*                                                                         *)
(* The preferences are one map in the row.  Two of its keys have a field   *)
(* of their own in the messages; every other key travels in extra, which   *)
(* may also name those two.                                                *)
(***************************************************************************)
EXTENDS ProfileUsers

CONSTANTS Requests,  \* the requests clients send
          Me         \* the user whose row ProfileUsers models

VARIABLE request     \* what the client of each call sent

Columns == {"display_name", "avatar_url"}
Reserved == {"learning_goal", "daily_quota_minutes"}

Claims == [sub : STRING, userId : STRING, uid : STRING]

\* A request: its kind; the user_id it states and the claims of the caller
\* (None without a readable header); the paths of its mask; the fields of the
\* message that are there and not blank; the keys of extra; whether the profile
\* (or preferences) message and the preferences in it are there at all; the
\* expected version.
Messages ==
    [op : {"profile", "preferences"}, userId : STRING, claims : Claims \cup {None},
     mask : SUBSET STRING, given : SUBSET (Columns \cup Reserved),
     extra : SUBSET PrefKeys, message : BOOLEAN, preferences : BOOLEAN,
     expected : Versions \cup {None}]

\* What one message can hold: an UpdatePreferences has no columns to give, and
\* there are no preferences outside the preferences message.  A column and a
\* key of the preferences are named apart.
ASSUME RequestsAssumption ==
    /\ Requests \subseteq Messages
    /\ \A r \in Requests : /\ r.op = "preferences" => r.given \subseteq Reserved
                           /\ r.given \cap Reserved # {} \/ r.extra # {} => r.preferences
    /\ Reserved \subseteq PrefKeys
    /\ Columns \cap PrefKeys = {}

-------------------------------------------------------------------------------
(***************************************************************************)
(* Whose profile.                                                          *)
(***************************************************************************)

\* The first claim that is not blank.
ExtractUserID(claims) ==
    LET given == SelectSeq(<<claims.sub, claims.userId, claims.uid>>, LAMBDA id : id # "")
    IN  IF given = <<>> THEN "" ELSE Head(given)

MetadataUser(r) == IF r.claims = None THEN "" ELSE ExtractUserID(r.claims)

\* The id in the request, else the caller's.
ResolveUserID(r) == IF r.userId # "" THEN r.userId ELSE MetadataUser(r)

-------------------------------------------------------------------------------
(***************************************************************************)
(* What is to be changed.                                                  *)
(***************************************************************************)

\* An empty mask names everything.
Should(r, path) == r.mask = {} \/ path \in r.mask

\* The path of a reserved key.
ReservedPath == [learning_goal |-> "profile.preferences.learning_goal",
                 daily_quota_minutes |-> "profile.preferences.daily_quota_minutes"]
PreferencesPaths == {"profile.preferences", "profile.preferences.extra",
                     ReservedPath.learning_goal, ReservedPath.daily_quota_minutes}
PatchesPreferences(r) == r.message /\ \E path \in PreferencesPaths : Should(r, path)

\* MUTANT: the mask of the preferences is taken for all of them.
ProfileSets_WholePreferences(r) ==
    IF ~r.message THEN {}
    ELSE (IF Should(r, "profile.display_name") THEN r.given \cap {"display_name"} ELSE {})
         \cup (IF Should(r, "profile.avatar_url") THEN {"avatar_url"} ELSE {})
         \cup (IF PatchesPreferences(r) /\ r.preferences THEN (r.given \cap Reserved) \cup r.extra ELSE {})

\* The fields an UpdateProfile changes.  A blank display_name is as good as
\* none; an avatar_url in the mask is written even when it is blank.  Under any
\* path of the preferences the whole of extra is taken.
ProfileSets(r) ==
    IF ~r.message THEN {}
    ELSE (IF Should(r, "profile.display_name") THEN r.given \cap {"display_name"} ELSE {})
         \cup (IF Should(r, "profile.avatar_url") THEN {"avatar_url"} ELSE {})
         \cup (IF PatchesPreferences(r) /\ r.preferences
               THEN {k \in r.given \cap Reserved : Should(r, ReservedPath[k])} \cup r.extra
               ELSE {})

\* The fields an UpdatePreferences changes.
PreferencesSets(r) ==
    {k \in r.given \cap Reserved : Should(r, k)} \cup (IF Should(r, "extra") THEN r.extra ELSE {})

InputOf(r) ==
    [op |-> r.op, expected |-> r.expected,
     sets |-> IF r.op = "profile" THEN ProfileSets(r) ELSE PreferencesSets(r)]

\* What reaches the transaction: a request about a known user that has
\* something to change.  An UpdateProfile also has when it sets a display_name
\* to nothing or its preferences message is empty.
Accepted(r) ==
    /\ ResolveUserID(r) = Me
    /\ r.message
    /\ IF r.op = "preferences" THEN PreferencesSets(r) # {}
       ELSE \/ Should(r, "profile.display_name") \/ Should(r, "profile.avatar_url")
            \/ PatchesPreferences(r)

-------------------------------------------------------------------------------
(***************************************************************************)
(* What is shown.                                                          *)
(***************************************************************************)

\* In these requests a value of extra under a reserved key has another type
\* than the field.  (One of the same type would be as good as the field.)
Mistyped(key, writer) == key \in Reserved /\ key \in request[writer].extra

\* toPreferencesVO: a reserved key is shown by its field if its value has the
\* type of the field, and not at all otherwise.
Shown(row_) ==
    [f \in Fields |-> IF row_.fields[f] # None /\ Mistyped(f, row_.fields[f]) THEN None
                      ELSE row_.fields[f]]

-------------------------------------------------------------------------------
ApiInit ==
    /\ request \in [Calls -> {r \in Requests : Accepted(r)}]
    /\ input = [c \in Calls |-> InputOf(request[c])]
    /\ pc = [c \in Calls |-> "load"]
    /\ row = None /\ lock = None /\ history = <<>>
    /\ read = [c \in Calls |-> None] /\ pend = [c \in Calls |-> None]
    /\ seen = [c \in Calls |-> 0]

ApiNext == Next /\ UNCHANGED request

ApiSpec == ApiInit /\ [][ApiNext]_<<vars, request>>

-------------------------------------------------------------------------------
PathOf(r, f) ==
    IF r.op = "preferences" THEN IF f \in Reserved THEN f ELSE "extra"
    ELSE CASE f = "display_name" -> "profile.display_name"
           [] f = "avatar_url" -> "profile.avatar_url"
           [] f \in Reserved -> ReservedPath[f]
           [] OTHER -> "profile.preferences.extra"

\* Whether the request is about the field: its path is in the mask, or extra
\* brings it along under another path of the preferences.  An UpdatePreferences
\* is about no column.
About(r, f) ==
    /\ f \in Columns => r.op = "profile"
    /\ \/ Should(r, PathOf(r, f))
       \/ f \in r.extra /\ (IF r.op = "profile" THEN PatchesPreferences(r) ELSE Should(r, "extra"))

\* The mask against the rows and the answers, across all the calls that wrote
\* them: what a request is not about shows in its answer as it showed in the
\* row the call loaded, and what it gives under its mask shows as given.  (A
\* value that extra puts under a reserved key is the exception: see Shown.)
MaskConfines ==
    \A i \in 1 .. Len(history) :
        LET c == history[i].call
            r == request[c]
            before == IF seen[c] = 0 THEN [f \in Fields |-> None] ELSE Shown(RowAfter(seen[c]))
            after == Shown(history[i].row) IN
        \A f \in Fields :
            /\ ~About(r, f) => after[f] = before[f]
            /\ f \in r.given \ r.extra /\ Should(r, PathOf(r, f)) => after[f] = c
            /\ f \in r.extra \ Reserved /\ About(r, f) => after[f] = c

===============================================================================
