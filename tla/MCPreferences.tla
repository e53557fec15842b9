------------------------------ MODULE MCPreferences ------------------------------
(***************************************************************************)
(* Model-checking instance of Preferences: two requests that write and one *)
(* that writes or recommends.  Two attributes have stored preferences, a   *)
(* (quietness) and b (tourist-attractions); room-view is the slug of one   *)
(* and the normalized key of the other, city-center-access an alias of b,  *)
(* and the other slugs name nothing.                                       *)
(***************************************************************************)
EXTENDS Preferences

CONSTANTS a, b, r1, r2, r3

MCExact == [s \in Attributes |-> CASE s = "quietness"           -> {a}
                                       [] s = "tourist-attractions" -> {b}
                                       [] s = "room-view"           -> {a, b}
                                       [] OTHER                     -> {}]
MCAlias == [s \in Attributes |-> CASE s = "city-center-access" -> {b}
                                       [] s = "room-comfort"       -> {a, b}
                                       [] OTHER                    -> {}]

\* Preferences as the payloads state them.
Like(x, w) == [attr |-> x, weight |-> w, minimum |-> 0, mandatory |-> FALSE]
Must(x, w, m) == [attr |-> x, weight |-> w, minimum |-> m, mandatory |-> TRUE]

\* The user has a profile and one manual preference; the trip one override.
Old(w) == [weight |-> w, minimum |-> 0, mandatory |-> FALSE, by |-> "prior"]
MCPrior == [k \in Keys |-> CASE k = <<"ONBOARDING_DETERMINISTIC", a>> -> Old(100)
                             [] k = <<"USER_MANUAL", a>>              -> Old(240)
                             [] k = <<"TRIP", b>>                     -> Old(150)
                             [] OTHER                                 -> NoRow]

\* All but hotel 5 are at home; 2 lacks a, and 3 falls short of its minimum.  4 is
\* rated high enough only by a source that is not its primary one, and 3 by none;
\* 1 is of another type; 7, as good as any, comes after the candidates.
MCScores == 1 :> (a :> 4000 @@ b :> 2000) @@ 2 :> (a :> 0 @@ b :> 4500)
            @@ 3 :> (a :> 3000 @@ b :> 3000) @@ 4 :> (a :> 5000 @@ b :> 5000)
            @@ 5 :> (a :> 4500 @@ b :> 1500) @@ 6 :> (a :> 3500 @@ b :> 4000)
            @@ 7 :> (a :> 5000 @@ b :> 5000)
MCLocatedIn == [h \in Hotels |-> IF h = 5 THEN "away" ELSE "home"]
MCTypeOf == [h \in Hotels |-> IF h = 1 THEN "hostel" ELSE "resort"]
MCSourced == [h \in Hotels |-> CASE h = 3 -> {} [] h = 4 -> {2, 5} [] OTHER -> {4}]
MCRating == [h \in Hotels |-> CASE h = 3 -> None [] h = 4 -> 2 [] OTHER -> 4]

Do(kind, items) == [kind |-> kind, items |-> items, answers |-> <<>>, place |-> "home",
                    limit |-> 0, type |-> "any", floor |-> None, of |-> r1]
Answered(k, d, v) == [key |-> k, dims |-> d, values |-> v]
Complete(answers) == [Do("adaptive_complete", <<>>) EXCEPT !.answers = answers]
Recommended(n, t, f) == [Do("recommend", <<>>) EXCEPT !.limit = n, !.type = t, !.floor = f]
RunOf(r) == [Do("lookup", <<>>) EXCEPT !.of = r]

\* Two conversations that order a and b differently, one that meets the alias.
Scenic == <<Answered("none", {"activities"}, <<"outdoors">>),
            Answered("none", {"privacy", "location"}, <<"scenery">>),
            Answered("mountain_scenery", {"location"}, <<"scenery">>)>>
Quiet  == <<Answered("travel_group", {}, <<"couple">>),
            Answered("rural_isolation", {"location", "privacy"}, <<"isolation">>),
            Answered("couple_style", {}, <<"adventure">>)>>
Busy   == <<Answered("travel_pace", {"activities"}, <<"active_packed">>)>>

MCMenu ==
    r1 :> {Do("replace_manual", <<Like(a, 60), Like(b, 300)>>),
           Do("replace_trip", <<Must(a, 300, 3500), Like(b, 0)>>),
           Complete(Scenic), RunOf(r2), RunOf(r3)}
    @@ r2 :> {Do("replace_manual", <<Like(b, 120), Like(b, 30)>>),
              Do("delete_manual", <<Like(a, 0)>>),
              Do("upsert_manual", <<Like(a, 0)>>),
              Do("upsert_manual", <<Like("foreign", 30)>>),
              Do("replace_trip", <<Like(b, 210), Must(a, 90, 0)>>),
              Do("replace_trip", <<Like(a, 30), Like(a, 60)>>),
              Do("replace_trip", <<Like("foreign", 30)>>),
              [Do("chat", <<Must(b, 300, 4000)>>) EXCEPT !.limit = 2],
              Complete(Quiet), Complete(Busy)}
    @@ r3 :> {Recommended(2, "resort", 4),
              [Do("update_trip", <<>>) EXCEPT !.place = "away"],
              Do("delete_trip", <<>>)}
=============================================================================
