----------------------------- MODULE AdaptiveProfile -----------------------------
(***************************************************************************)
(* The deterministic profile of an adaptive conversation: what the saved   *)
(* answers say about the attributes of the taxonomy, as weights.           *)
(*                                                                         *)
(* Points count in hundredths, and weights in the points they come from:   *)
(* the code divides them by FullScore and rounds.                          *)
(***************************************************************************)
EXTENDS Integers, Sequences, FiniteSets, FiniteSetsExt, SequencesExt, TLC

\* _NORMALIZATION_SCALE: the points that make the weight 1.0.
FullScore == 300

\* In alphabetical order.
Slugs == <<"bathroom", "beach-access", "bed-comfort", "breakfast", "city-center-access",
           "cleanliness", "gym", "nearby-restaurants", "nightlife", "parking", "pool",
           "public-transport", "quietness", "restaurant", "room-comfort", "room-condition",
           "room-service", "room-size", "room-view", "spa", "tourist-attractions", "wifi">>
Attributes == ToSet(Slugs)

\* Canonical question keys.
Topics ==
    {"adaptive_location", "travel_group", "price_value", "travel_pace", "food_preference",
     "destination_branch", "beach_activity", "beach_proximity", "mountain_outdoors",
     "mountain_scenery", "mountain_recovery", "city_focus", "city_location", "rural_isolation",
     "rural_stay_style", "destination_detail", "couple_style", "family_needs", "friends_vibe"}

\* Dimensions a question may be about; the others it names are forgotten.
Dimensions ==
    {"activities", "food", "friends_vibe", "family_needs", "hospitality", "kids", "location",
     "price", "privacy", "room_quality", "social"}

-----------------------------------------------------------------------------
(* The points of the attributes: for a dimension, for a choice, for a group *)

NoEffects == [slug \in {} |-> 0]

DimensionEffects ==
    "location"     :> ("city-center-access" :> 45 @@ "public-transport" :> 35
                       @@ "tourist-attractions" :> 45)
 @@ "room_quality" :> ("room-comfort" :> 55 @@ "room-condition" :> 45 @@ "cleanliness" :> 35)
 @@ "food"         :> ("restaurant" :> 50 @@ "breakfast" :> 35 @@ "nearby-restaurants" :> 45)
 @@ "amenities"    :> ("spa" :> 40 @@ "pool" :> 35 @@ "wifi" :> 25)
 @@ "hospitality"  :> ("room-service" :> 50 @@ "restaurant" :> 30)
 @@ "activities"   :> ("tourist-attractions" :> 55 @@ "public-transport" :> 25)
 @@ "privacy"      :> ("quietness" :> 65)
 @@ "social"       :> ("nightlife" :> 60 @@ "nearby-restaurants" :> 35)

\* Every choice of a set has the same points.
Each(choices, effects) == [c \in choices |-> effects]

UniversalEffects ==
    "price_value" :>
        (   "best_value"        :> ("room-comfort" :> 35)
         @@ "balanced_value"    :> ("room-comfort" :> 55 @@ "room-condition" :> 35)
         @@ "premium_quality"   :> ("room-comfort" :> 80 @@ "room-condition" :> 70 @@ "spa" :> 40)
         @@ "luxury_experience" :> ("room-comfort" :> 85 @@ "room-condition" :> 75
                                    @@ "spa" :> 70 @@ "room-service" :> 55))
 @@ "travel_pace" :>
        (   "active_packed" :> ("tourist-attractions" :> 90 @@ "city-center-access" :> 45
                                @@ "public-transport" :> 35)
         @@ Each({"mixed_pace", "mixed"}, "tourist-attractions" :> 50
                                          @@ "city-center-access" :> 30 @@ "room-comfort" :> 30)
         @@ Each({"restful_relaxed", "restful", "relaxed"},
                 "quietness" :> 90 @@ "room-comfort" :> 65 @@ "spa" :> 50 @@ "room-view" :> 35))
 @@ "food_preference" :>
        (   "eating_out"   :> ("nearby-restaurants" :> 90 @@ "restaurant" :> 45)
         @@ "hotel_dining" :> ("restaurant" :> 85 @@ "room-service" :> 75 @@ "breakfast" :> 45)
         @@ "mix"          :> ("nearby-restaurants" :> 60 @@ "restaurant" :> 60
                               @@ "breakfast" :> 45))

PartyEffects ==
    "couple_style" :>
        (   "romance"   :> ("quietness" :> 80 @@ "spa" :> 65 @@ "room-service" :> 55
                            @@ "room-comfort" :> 55)
         @@ "adventure" :> ("tourist-attractions" :> 90 @@ "beach-access" :> 55
                            @@ "public-transport" :> 35)
         @@ Each({"decompression", "relaxation"},
                 "quietness" :> 100 @@ "room-comfort" :> 80 @@ "spa" :> 65 @@ "room-service" :> 45))
 @@ "family_needs" :>
        (   Each({"kids", "family_friendly"},
                 "room-size" :> 80 @@ "pool" :> 60 @@ "parking" :> 35 @@ "bathroom" :> 30)
         @@ "convenience" :> ("room-size" :> 55 @@ "parking" :> 45 @@ "room-service" :> 35))
 @@ "friends_vibe" :>
        (   "social"    :> ("nightlife" :> 85 @@ "tourist-attractions" :> 65
                            @@ "city-center-access" :> 45)
         @@ "adventure" :> ("tourist-attractions" :> 85 @@ "public-transport" :> 40
                            @@ "beach-access" :> 35)
         @@ "relaxed"   :> ("quietness" :> 45 @@ "room-comfort" :> 45 @@ "room-size" :> 35))

CoastAndHillEffects ==
    "beach_activity" :>
        (   "water_sports" :> ("beach-access" :> 100 @@ "tourist-attractions" :> 50)
         @@ "swimming"     :> ("beach-access" :> 90)
         @@ "relaxation"   :> ("beach-access" :> 80 @@ "quietness" :> 45))
 @@ "beach_proximity"   :> ("near_beach" :> ("beach-access" :> 100))
 @@ "mountain_outdoors" :> Each({"outdoors", "adventure"},
                                "tourist-attractions" :> 90 @@ "public-transport" :> 35)
 @@ "mountain_scenery"  :> Each({"scenery", "views"}, "room-view" :> 90 @@ "quietness" :> 45)
 @@ "mountain_recovery" :> Each({"recovery", "rest"},
                                "quietness" :> 90 @@ "spa" :> 60 @@ "room-comfort" :> 50)

TownAndCountryEffects ==
    "city_focus" :>
        (   "culture"          :> ("tourist-attractions" :> 80 @@ "city-center-access" :> 55)
         @@ "food"             :> ("nearby-restaurants" :> 75 @@ "restaurant" :> 55)
         @@ "nightlife"        :> ("nightlife" :> 85 @@ "city-center-access" :> 55)
         @@ "peaceful_retreat" :> ("quietness" :> 90 @@ "room-view" :> 45))
 @@ "city_location" :>
        (   "central"    :> ("city-center-access" :> 90 @@ "public-transport" :> 65)
         @@ "convenient" :> ("city-center-access" :> 80 @@ "public-transport" :> 60)
         @@ "peaceful"   :> ("quietness" :> 80 @@ "room-view" :> 35))
 @@ "rural_isolation" :> Each({"peaceful_isolation", "isolation", "peaceful_retreat"},
                              "quietness" :> 100 @@ "room-view" :> 60 @@ "room-comfort" :> 40)
 @@ "rural_stay_style" :>
        (   "nature" :> ("quietness" :> 70 @@ "room-view" :> 55)
         @@ "cozy"   :> ("quietness" :> 65 @@ "room-comfort" :> 60)
         @@ "resort" :> ("quietness" :> 55 @@ "spa" :> 55 @@ "room-comfort" :> 50))

DetailEffects ==
    "destination_detail" :>
        (   Each({"peaceful_isolation", "peaceful_retreat"},
                 "quietness" :> 100 @@ "room-view" :> 60 @@ "room-comfort" :> 45)
         @@ "scenery"   :> ("room-view" :> 90 @@ "quietness" :> 40)
         @@ "outdoors"  :> ("tourist-attractions" :> 90 @@ "public-transport" :> 35)
         @@ "culture"   :> ("tourist-attractions" :> 75 @@ "city-center-access" :> 40)
         @@ "food"      :> ("nearby-restaurants" :> 75 @@ "restaurant" :> 50)
         @@ "nightlife" :> ("nightlife" :> 80 @@ "city-center-access" :> 45))

ValueEffects == UniversalEffects @@ PartyEffects @@ CoastAndHillEffects
                @@ TownAndCountryEffects @@ DetailEffects

GroupEffects ==
    Each({"family", "family_with_kids"}, PartyEffects["family_needs"]["family_friendly"])
 @@ "friends" :> PartyEffects["friends_vibe"]["social"]
 @@ "couple"  :> PartyEffects["couple_style"]["decompression"]

\* What an answer may choose; no table knows "other".
Picks == UNION {DOMAIN ValueEffects[k] : k \in DOMAIN ValueEffects}
         \cup DOMAIN GroupEffects \cup {"other"}

\* The tables are finite, speak of what exists, and give points.
ASSUME ProfileAssumption ==
    /\ IsFiniteSet(Picks)
    /\ DOMAIN ValueEffects \subseteq Topics
    /\ \A k \in DOMAIN ValueEffects : \A c \in DOMAIN ValueEffects[k] :
         ValueEffects[k][c] # NoEffects /\ DOMAIN ValueEffects[k][c] \subseteq Attributes
    /\ \A d \in DOMAIN DimensionEffects : DOMAIN DimensionEffects[d] \subseteq Attributes
    /\ LET Counts(effects) == \A s \in DOMAIN effects : effects[s] \in Nat
       IN  /\ \A k \in DOMAIN ValueEffects : \A c \in DOMAIN ValueEffects[k] :
                Counts(ValueEffects[k][c])
           /\ \A d \in DOMAIN DimensionEffects : Counts(DimensionEffects[d])
           /\ \A g \in DOMAIN GroupEffects : Counts(GroupEffects[g])

-----------------------------------------------------------------------------
(* The profile *)

\* A saved answer: the key and the dimensions of its question, what was chosen.
Answer == [key: Topics \cup {"none"}, dims: SUBSET Dimensions, values: Seq(Picks)]

\* The key of a question: its own, or the one its only dimension stands for.
KeyOf(answer) ==
    IF answer.key # "none" THEN answer.key
    ELSE CASE answer.dims = {"price"}        -> "price_value"
           [] answer.dims = {"activities"}   -> "travel_pace"
           [] answer.dims = {"food"}         -> "food_preference"
           [] answer.dims = {"location"}     -> "destination_detail"
           [] answer.dims = {"family_needs"} -> "family_needs"
           [] answer.dims = {"friends_vibe"} -> "friends_vibe"
           [] OTHER                          -> "none"

\* Answers of questions without a key say nothing.
Telling(answers) == {i \in DOMAIN answers : KeyOf(answers[i]) # "none"}

EffectsOf(table, entry) == IF entry \in DOMAIN table THEN table[entry] ELSE NoEffects
PointsOf(effects, slug) == IF slug \in DOMAIN effects THEN effects[slug] ELSE 0

\* A choice without effects of its own has those of its question's dimensions.
Effect(key, choice, dims, slug) ==
    LET own == EffectsOf(EffectsOf(ValueEffects, key), choice)
    IN  IF own # NoEffects THEN PointsOf(own, slug)
        ELSE SumFunction([d \in dims |-> PointsOf(EffectsOf(DimensionEffects, d), slug)])

Groups(answers) ==
    UNION {ToSet(answers[i].values) :
             i \in {i \in Telling(answers) : KeyOf(answers[i]) = "travel_group"}}

Points(answers, slug) ==
    SumFunction([i \in Telling(answers) |->
        SumFunction([v \in DOMAIN answers[i].values |->
            Effect(KeyOf(answers[i]), answers[i].values[v], answers[i].dims, slug)])])
    + SumFunction([g \in Groups(answers) |-> PointsOf(EffectsOf(GroupEffects, g), slug)])

Weight(answers, slug) == Min({Points(answers, slug), FullScore})

\* The elements of a set as a strict order R without ties lists them: each
\* comes after those that R puts before it.
InOrder(S, R) ==
    [n \in 1 .. Cardinality(S) |->
        CHOOSE x \in S : Cardinality({y \in S : <<y, x>> \in R}) = n - 1]

\* The attributes the answers speak for, each with its weight; they are listed
\* the heaviest first, alphabetically where they weigh the same.
Profile(answers) ==
    {p \in {<<Weight(answers, Slugs[i]), i>> : i \in DOMAIN Slugs} : p[1] > 0}
HeaviestFirst(items) ==
    {p \in items \X items : p[1][1] > p[2][1] \/ (p[1][1] = p[2][1] /\ p[1][2] < p[2][2])}
=============================================================================
