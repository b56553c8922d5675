----------------------------- MODULE MCProfileApi -----------------------------
(***************************************************************************)
(* Instances of ProfileApi for TLC: one request of each shape.             *)
(***************************************************************************)
EXTENDS ProfileApi, TLC

Whole ==
    [op |-> "profile", userId |-> "me", claims |-> None, mask |-> {},
     given |-> {"display_name", "avatar_url", "learning_goal", "daily_quota_minutes"},
     extra |-> {"theme"}, message |-> TRUE, preferences |-> TRUE, expected |-> None]
Preferences == [Whole EXCEPT !.op = "preferences", !.given = @ \cap Reserved]
Caller == [sub |-> "", userId |-> "me", uid |-> "other"]

FewRequests ==
    {Whole,
     [Whole EXCEPT !.userId = "", !.claims = Caller, !.mask = {"profile.display_name"}, !.expected = 1],
     [Whole EXCEPT !.userId = ""],
     [Whole EXCEPT !.given = {}, !.mask = {"profile.display_name", "profile.avatar_url"}],
     [Whole EXCEPT !.mask = {"profile.preferences"}],
     [Whole EXCEPT !.mask = {"profile.preferences.learning_goal"}, !.expected = 2],
     [Whole EXCEPT !.mask = {"profile.preferences.learning_goal"}, !.extra = {"daily_quota_minutes"}],
     [Whole EXCEPT !.mask = {"profile.preferences"}, !.preferences = FALSE, !.given = @ \ Reserved, !.extra = {}],
     [Whole EXCEPT !.message = FALSE, !.preferences = FALSE, !.given = {}, !.extra = {}],
     Preferences,
     [Preferences EXCEPT !.mask = {"daily_quota_minutes"}, !.expected = 1],
     [Preferences EXCEPT !.mask = {"extra"}],
     [Preferences EXCEPT !.mask = {"extra"}, !.extra = {"learning_goal", "theme"}],
     [Preferences EXCEPT !.mask = {"learning_goal"}, !.given = {}]}

\* Calls are interchangeable: no action or property names one.
Symmetry == Permutations(Calls)
===============================================================================
