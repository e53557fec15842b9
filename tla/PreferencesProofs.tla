--------------------------- MODULE PreferencesProofs ---------------------------
(***************************************************************************)
(* Proofs about Preferences for any requests and menus, taxonomy, hotels,  *)
(* places and number of crashes.                                           *)
(***************************************************************************)
EXTENDS Preferences, SumTheorems, FiniteSetTheorems, SequenceTheorems, TLAPS

\* What a request may ask.
LEMMA Asking ==
    ASSUME NEW r \in Requests, NEW o \in Menu[r]
    PROVE  o \in Op /\ o.kind \in Kinds /\ (o.kind = "chat" => o.items # <<>>)
<1>1. Menu \in [Requests -> SUBSET Op]
  BY PreferencesAssumption
<1>2. \A p \in Requests : \A q \in Menu[p] : q.kind \in Kinds /\ (q.kind = "chat" => q.items # <<>>)
  BY PreferencesAssumption
<1>3. QED
  BY <1>1, <1>2

-----------------------------------------------------------------------------
(* Rankings                                                                *)

\* R puts the elements of S in an order without ties.
Strict(S, R) ==
    /\ \A x \in S : <<x, x>> \notin R
    /\ \A x, y \in S : x # y => <<x, y>> \in R \/ <<y, x>> \in R
    /\ \A x, y, z \in S : <<x, y>> \in R /\ <<y, z>> \in R => <<x, z>> \in R

\* What R puts before x.
Ahead(S, R, x) == {y \in S : <<y, x>> \in R}

\* The place of an element is the number of those before it, and each number
\* below the size of the set is somebody's place.
LEMMA EachHasAPlace ==
    ASSUME NEW S, IsFiniteSet(S), NEW R, Strict(S, R)
    PROVE  /\ \A x \in S : Cardinality(Ahead(S, R, x)) \in 0 .. Cardinality(S) - 1
           /\ \A x, y \in S : <<x, y>> \in R =>
                Cardinality(Ahead(S, R, x)) < Cardinality(Ahead(S, R, y))
           /\ \A n \in 0 .. Cardinality(S) - 1 : \E x \in S : Cardinality(Ahead(S, R, x)) = n
<1> DEFINE place(x) == Cardinality(Ahead(S, R, x))
           size == Cardinality(S)
           Slots == 0 .. size - 1
<1>1. size \in Nat /\ \A x \in S : IsFiniteSet(Ahead(S, R, x)) /\ place(x) \in Nat
  BY FS_CardinalityType, FS_Subset DEF Ahead
<1>2. \A x \in S : place(x) < size
  <2>1. ASSUME NEW x \in S PROVE place(x) < size
    <3>1. Ahead(S, R, x) \in SUBSET S /\ x \notin Ahead(S, R, x)
      BY DEF Strict, Ahead
    <3>2. place(x) <= size /\ (size = place(x) => S = Ahead(S, R, x))
      BY <3>1, FS_Subset
    <3>3. QED
      BY <1>1, <3>1, <3>2
  <2>2. QED
    BY <2>1
<1>3. \A x, y \in S : <<x, y>> \in R => place(x) < place(y)
  <2>1. ASSUME NEW x \in S, NEW y \in S, <<x, y>> \in R PROVE place(x) < place(y)
    <3>1. /\ Ahead(S, R, x) \in SUBSET Ahead(S, R, y)
          /\ x \in Ahead(S, R, y) /\ x \notin Ahead(S, R, x)
      BY <2>1 DEF Strict, Ahead
    <3>2. IsFiniteSet(Ahead(S, R, y))
      BY <1>1
    <3>3. /\ place(x) <= place(y)
          /\ place(y) = place(x) => Ahead(S, R, y) = Ahead(S, R, x)
      BY <3>1, <3>2, FS_Subset
    <3>4. QED
      BY <1>1, <3>1, <3>3
  <2>2. QED
    BY <2>1
<1>4. \A n \in Slots : \E x \in S : place(x) = n
  <2> DEFINE f == [x \in S |-> place(x)]
             T == {place(x) : x \in S}
  <2>1. f \in Bijection(S, T)
    <3>1. \A x, y \in S : place(x) = place(y) => x = y
      <4>1. ASSUME NEW x \in S, NEW y \in S, x # y PROVE place(x) # place(y)
        <5>1. <<x, y>> \in R \/ <<y, x>> \in R
          BY <4>1 DEF Strict
        <5>2. place(x) \in Nat /\ place(y) \in Nat
          BY <1>1
        <5>3. place(x) < place(y) \/ place(y) < place(x)
          BY <1>3, <5>1
        <5>4. QED
          BY <5>2, <5>3
      <4>2. QED
        BY <4>1
    <3>2. f \in [S -> T] /\ \A x, y \in S : f[x] = f[y] => x = y
      BY <3>1
    <3>3. \A t \in T : \E x \in S : f[x] = t
      OBVIOUS
    <3>4. QED
      BY <3>2, <3>3 DEF Bijection, Injection, Surjection, IsInjective
  <2>2. IsFiniteSet(T) /\ Cardinality(T) = size
    BY <2>1, FS_Bijection DEF ExistsBijection
  <2>3. T \in SUBSET Slots /\ IsFiniteSet(Slots) /\ Cardinality(Slots) = size
    <3>1. IsFiniteSet(Slots) /\ Cardinality(Slots) = size
      BY <1>1, FS_Interval
    <3>2. QED
      BY <1>1, <1>2, <3>1
  <2>4. T = Slots
    BY <2>2, <2>3, FS_Subset
  <2>5. QED
    BY <2>4
<1>5. QED
  BY <1>1, <1>2, <1>3, <1>4

\* InOrder lists each element once, those that R puts before it first.
LEMMA Ordered ==
    ASSUME NEW S, IsFiniteSet(S), NEW R, Strict(S, R)
    PROVE  /\ InOrder(S, R) \in Seq(S)
           /\ Len(InOrder(S, R)) = Cardinality(S) /\ Cardinality(S) \in Nat
           /\ \A m, n \in 1 .. Cardinality(S) :
                m < n => <<InOrder(S, R)[m], InOrder(S, R)[n]>> \in R
           /\ \A x \in S : \E n \in 1 .. Cardinality(S) : InOrder(S, R)[n] = x
<1> DEFINE place(x) == Cardinality(Ahead(S, R, x))
           size == Cardinality(S)
           list == InOrder(S, R)
<1>1. size \in Nat
  BY FS_CardinalityType
<1>2. \A n \in 1 .. size : list[n] \in S /\ place(list[n]) = n - 1
  <2>1. ASSUME NEW n \in 1 .. size PROVE list[n] \in S /\ place(list[n]) = n - 1
    <3>1. \E x \in S : place(x) = n - 1
      BY <1>1, EachHasAPlace
    <3>2. list[n] = CHOOSE x \in S : place(x) = n - 1
      BY DEF InOrder, Ahead
    <3>3. QED
      BY <3>1, <3>2
  <2>2. QED
    BY <2>1
<1>3. list \in [1 .. size -> S]
  BY <1>2 DEF InOrder
<1>4. list \in Seq(S) /\ Len(list) = size
  BY <1>1, <1>3
<1>5. \A x, y \in S : place(x) < place(y) => <<x, y>> \in R
  <2>1. ASSUME NEW x \in S, NEW y \in S, place(x) < place(y) PROVE <<x, y>> \in R
    <3>1. place(x) \in Int /\ place(y) \in Int
      BY <1>1, EachHasAPlace
    <3>2. x # y /\ ~(place(y) < place(x))
      BY <2>1, <3>1
    <3>3. <<y, x>> \notin R
      BY <3>2, EachHasAPlace
    <3>4. QED
      BY <3>2, <3>3 DEF Strict
  <2>2. QED
    BY <2>1
<1>6. \A m, n \in 1 .. size : m < n => <<list[m], list[n]>> \in R
  <2>1. ASSUME NEW m \in 1 .. size, NEW n \in 1 .. size, m < n PROVE <<list[m], list[n]>> \in R
    <3>1. place(list[m]) < place(list[n])
      BY <1>1, <1>2, <2>1
    <3>2. QED
      BY <1>2, <1>5, <3>1
  <2>2. QED
    BY <2>1
<1>7. \A x \in S : \E n \in 1 .. size : list[n] = x
  <2>1. ASSUME NEW x \in S PROVE \E n \in 1 .. size : list[n] = x
    <3>1. place(x) \in 0 .. size - 1
      BY EachHasAPlace
    <3>2. PICK n \in 1 .. size : n = place(x) + 1
      BY <1>1, <3>1
    <3>3. list[n] \in S /\ place(list[n]) = place(x)
      BY <1>1, <1>2, <3>1, <3>2
    <3>4. list[n] = x
      <4>1. \A y \in S : <<y, x>> \in R \/ <<x, y>> \in R => place(y) # place(x)
        BY <3>1, EachHasAPlace
      <4>2. QED
        BY <3>3, <4>1 DEF Strict
    <3>5. QED
      BY <3>4
  <2>2. QED
    BY <2>1
<1>8. QED
  BY <1>1, <1>4, <1>6, <1>7

-----------------------------------------------------------------------------
(* Types                                                                   *)

\* The sum of a function is the sum over its domain.
LEMMA SumOfFunction ==
    ASSUME NEW f
    PROVE  SumFunction(f) = SumOver(f, DOMAIN f)
<1>1. SumFunction(f) = (CHOOSE h : Summing(f, DOMAIN f, h))[DOMAIN f]
  BY DEF SumFunction, SumFunctionOnSet, FoldFunctionOnSet, MapThenFoldSet, Summing, SumStep, AnyOf
<1>2. QED
  BY <1>1, SumIsChosen

\* Naturals add up to a natural.
LEMMA SumOfNaturals ==
    ASSUME NEW f, IsFiniteSet(DOMAIN f), \A x \in DOMAIN f : f[x] \in Nat
    PROVE  SumFunction(f) \in Nat
  BY SumOfFunction, SumTyped

\* The effects of the tables give points.
LEMMA EffectsCount ==
    ASSUME NEW slug
    PROVE  /\ \A k, c : PointsOf(EffectsOf(EffectsOf(ValueEffects, k), c), slug) \in Nat
           /\ \A d : PointsOf(EffectsOf(DimensionEffects, d), slug) \in Nat
           /\ \A g : PointsOf(EffectsOf(GroupEffects, g), slug) \in Nat
<1>1. DOMAIN NoEffects = {}
  BY DEF NoEffects
<1>2. PointsOf(NoEffects, slug) = 0
  BY <1>1 DEF PointsOf
<1>3. \A k, c : PointsOf(EffectsOf(EffectsOf(ValueEffects, k), c), slug) \in Nat
  BY <1>1, <1>2, ProfileAssumption DEF PointsOf, EffectsOf
<1>4. \A d : PointsOf(EffectsOf(DimensionEffects, d), slug) \in Nat
  BY <1>2, ProfileAssumption DEF PointsOf, EffectsOf
<1>5. \A g : PointsOf(EffectsOf(GroupEffects, g), slug) \in Nat
  BY <1>2, ProfileAssumption DEF PointsOf, EffectsOf
<1>6. QED
  BY <1>3, <1>4, <1>5

\* There are finitely many dimensions.
LEMMA DimensionsFinite == IsFiniteSet(Dimensions)
<1> DEFINE A == {"activities", "food", "friends_vibe"}
           B == {"family_needs", "hospitality", "kids", "location"}
           C == {"price", "privacy", "room_quality", "social"}
<1>1. \A x, y, z, w : IsFiniteSet({x, y, z, w})
  <2>1. ASSUME NEW x, NEW y, NEW z, NEW w PROVE IsFiniteSet({x, y, z, w})
    <3>1. IsFiniteSet(((({} \cup {x}) \cup {y}) \cup {z}) \cup {w})
      BY FS_EmptySet, FS_AddElement
    <3>2. {x, y, z, w} = ((({} \cup {x}) \cup {y}) \cup {z}) \cup {w}
      OBVIOUS
    <3>3. QED
      BY <3>1, <3>2
  <2>2. QED
    BY <2>1
<1>2. IsFiniteSet(A) /\ IsFiniteSet(B) /\ IsFiniteSet(C)
  <2>1. A = {"activities", "food", "friends_vibe", "friends_vibe"}
    OBVIOUS
  <2>2. QED
    BY <1>1, <2>1
<1>3. IsFiniteSet(A \cup B \cup C)
  BY <1>2, FS_Union
<1>4. Dimensions = A \cup B \cup C
  BY DEF Dimensions
<1>5. QED
  BY <1>3, <1>4

\* What the answers say of an attribute is a number of points, and its weight
\* is not above that of a full score.
LEMMA PointsType ==
    ASSUME NEW answers \in Seq(Answer), NEW slug
    PROVE  Points(answers, slug) \in Nat /\ Weight(answers, slug) \in 0 .. FullScore
<1> DEFINE Said(i, v) == Effect(KeyOf(answers[i]), answers[i].values[v], answers[i].dims, slug)
           told(i) == [v \in DOMAIN answers[i].values |-> Said(i, v)]
           all == [i \in Telling(answers) |-> SumFunction(told(i))]
           group == [g \in Groups(answers) |-> PointsOf(EffectsOf(GroupEffects, g), slug)]
<1>1. \A i \in Telling(answers) : /\ i \in 1 .. Len(answers) /\ answers[i] \in Answer
                                  /\ answers[i].dims \in SUBSET Dimensions
                                  /\ answers[i].values \in Seq(Picks)
  <2>1. ASSUME NEW i \in Telling(answers) PROVE i \in 1 .. Len(answers) /\ answers[i] \in Answer
    BY DEF Telling
  <2>2. QED
    BY <2>1 DEF Answer
<1>2. \A i \in Telling(answers) : \A v \in DOMAIN answers[i].values : Said(i, v) \in Nat
  <2>1. ASSUME NEW i \in Telling(answers), NEW v \in DOMAIN answers[i].values
        PROVE  Said(i, v) \in Nat
    <3> DEFINE dims == answers[i].dims
               general == [d \in dims |-> PointsOf(EffectsOf(DimensionEffects, d), slug)]
    <3>1. IsFiniteSet(dims)
      BY <1>1, DimensionsFinite, FS_Subset
    <3>2. DOMAIN general = dims /\ \A d \in dims : general[d] \in Nat
      BY EffectsCount
    <3>3. SumFunction(general) \in Nat
      BY <3>1, <3>2, SumOfNaturals
    <3>4. QED
      BY <3>3, EffectsCount DEF Effect
  <2>2. QED
    BY <2>1
<1>3. \A i \in Telling(answers) : SumFunction(told(i)) \in Nat
  <2>1. ASSUME NEW i \in Telling(answers) PROVE SumFunction(told(i)) \in Nat
    <3>1. DOMAIN told(i) = 1 .. Len(answers[i].values) /\ Len(answers[i].values) \in Nat
      BY <1>1
    <3>2. IsFiniteSet(DOMAIN told(i))
      BY <3>1, FS_Interval
    <3>3. \A v \in DOMAIN told(i) : told(i)[v] \in Nat
      BY <1>2
    <3> HIDE DEF told
    <3>4. QED
      BY <3>2, <3>3, SumOfNaturals
  <2>2. QED
    BY <2>1
<1>4. SumFunction(all) \in Nat
  <2>1. IsFiniteSet(Telling(answers))
    <3>1. IsFiniteSet(1 .. Len(answers))
      BY FS_Interval
    <3>2. Telling(answers) \in SUBSET (1 .. Len(answers))
      BY <1>1
    <3>3. QED
      BY <3>1, <3>2, FS_Subset
  <2>2. DOMAIN all = Telling(answers) /\ \A i \in DOMAIN all : all[i] \in Nat
    BY <1>3
  <2> HIDE DEF all
  <2>3. QED
    BY <2>1, <2>2, SumOfNaturals
<1>5. SumFunction(group) \in Nat
  <2>1. Groups(answers) \in SUBSET Picks
    <3>1. \A i \in Telling(answers) : ToSet(answers[i].values) \in SUBSET Picks
      BY <1>1 DEF ToSet
    <3>2. QED
      BY <3>1 DEF Groups
  <2>2. IsFiniteSet(Groups(answers))
    BY <2>1, ProfileAssumption, FS_Subset
  <2>3. DOMAIN group = Groups(answers) /\ \A g \in DOMAIN group : group[g] \in Nat
    BY EffectsCount
  <2> HIDE DEF group
  <2>4. QED
    BY <2>2, <2>3, SumOfNaturals
<1>6. Points(answers, slug) = SumFunction(all) + SumFunction(group)
  BY DEF Points
<1> HIDE DEF all, group
<1>7. Points(answers, slug) \in Nat
  BY <1>4, <1>5, <1>6
<1>8. ASSUME NEW p \in Nat PROVE Min({p, 300}) \in 0 .. 300
  <2>1. \E x \in {p, 300} : \A y \in {p, 300} : x <= y
    OBVIOUS
  <2>2. /\ Min({p, 300}) \in {p, 300}
        /\ \A y \in {p, 300} : Min({p, 300}) <= y
    BY <2>1 DEF Min
  <2> DEFINE least == Min({p, 300})
  <2>3. least \in {p, 300} /\ least <= 300
    BY <2>2
  <2> HIDE DEF least
  <2>4. least \in 0 .. 300
    BY <2>3
  <2>5. QED
    BY <2>4 DEF least
<1>9. Weight(answers, slug) = Min({Points(answers, slug), 300})
  BY DEF Weight, FullScore
<1>10. QED
  BY <1>7, <1>8, <1>9 DEF FullScore

\* What a profile writes: an item whose attribute may be one that a lookup
\* fails to find.
PayItem == [attr: Attrs \cup {"foreign", "key_error"}, weight: 0 .. FullScore,
            minimum: 0 .. TopScore, mandatory: BOOLEAN]

\* There are finitely many slugs.
LEMMA SlugsFinite == DOMAIN Slugs = 1 .. 22 /\ IsFiniteSet(DOMAIN Slugs)
<1>1. DOMAIN Slugs = 1 .. 22
  BY DEF Slugs
<1>2. \A n \in Nat : IsFiniteSet(1 .. n)
  BY FS_Interval
<1>3. 22 \in Nat
  OBVIOUS
<1>4. QED
  BY <1>1, <1>2, <1>3

\* The attributes the answers speak for are finitely many, each with its weight
\* in one item.
LEMMA ProfileType ==
    ASSUME NEW answers \in Seq(Answer)
    PROVE  /\ Profile(answers) \in SUBSET ((0 .. FullScore) \X DOMAIN Slugs)
           /\ IsFiniteSet(Profile(answers))
           /\ DOMAIN Slugs \in SUBSET Nat
<1> DEFINE item(i) == <<Weight(answers, Slugs[i]), i>>
           all == {item(i) : i \in DOMAIN Slugs}
           f == [i \in DOMAIN Slugs |-> item(i)]
<1>1. DOMAIN Slugs = 1 .. 22
  BY SlugsFinite
<1>2. \A i \in DOMAIN Slugs : item(i) \in (0 .. FullScore) \X DOMAIN Slugs
  <2>1. \A i \in DOMAIN Slugs : Weight(answers, Slugs[i]) \in 0 .. FullScore
    BY PointsType
  <2>2. QED
    BY <2>1
<1>3. IsFiniteSet(all)
  <2>1. f \in [DOMAIN Slugs -> all] /\ \A t \in all : \E i \in DOMAIN Slugs : f[i] = t
    <3> HIDE DEF item
    <3>1. f \in [DOMAIN Slugs -> all]
      OBVIOUS
    <3>2. \A t \in all : \E i \in DOMAIN Slugs : t = item(i) /\ f[i] = item(i)
      OBVIOUS
    <3>3. QED
      BY <3>1, <3>2
  <2>2. IsFiniteSet(DOMAIN Slugs)
    BY SlugsFinite
  <2> HIDE DEF f, all
  <2>3. f \in Surjection(DOMAIN Slugs, all)
    BY <2>1 DEF Surjection
  <2>4. QED
    BY <2>2, <2>3, FS_Surjection
<1>4. Profile(answers) \in SUBSET all
  BY DEF Profile
<1>5. all \in SUBSET ((0 .. FullScore) \X DOMAIN Slugs)
  BY <1>2
<1>6. DOMAIN Slugs \in SUBSET Nat
  BY <1>1
<1> HIDE DEF all
<1>7. QED
  BY <1>3, <1>4, <1>5, <1>6, FS_Subset

\* The heaviest come first, without ties.
LEMMA HeaviestFirstOrders ==
    ASSUME NEW items \in SUBSET ((0 .. FullScore) \X DOMAIN Slugs), DOMAIN Slugs \in SUBSET Nat
    PROVE  Strict(items, HeaviestFirst(items))
<1>1. \A p \in items : p[1] \in Int /\ p[2] \in Int /\ p = <<p[1], p[2]>>
  BY DEF FullScore
<1>2. \A p, q \in items : <<p, q>> \in HeaviestFirst(items) <=>
                            p[1] > q[1] \/ (p[1] = q[1] /\ p[2] < q[2])
  BY DEF HeaviestFirst
<1>3. \A p, q \in items : p # q => p[1] # q[1] \/ p[2] # q[2]
  BY <1>1
<1>4. \A p \in items : <<p, p>> \notin HeaviestFirst(items)
  BY <1>1, <1>2
<1>5. \A p, q \in items : p # q => \/ <<p, q>> \in HeaviestFirst(items)
                                   \/ <<q, p>> \in HeaviestFirst(items)
  BY <1>1, <1>2, <1>3
<1>6. \A p, q, s \in items : /\ <<p, q>> \in HeaviestFirst(items)
                             /\ <<q, s>> \in HeaviestFirst(items)
                             => <<p, s>> \in HeaviestFirst(items)
  <2>1. ASSUME NEW p \in items, NEW q \in items, NEW s \in items,
               <<p, q>> \in HeaviestFirst(items), <<q, s>> \in HeaviestFirst(items)
        PROVE  p[1] > s[1] \/ (p[1] = s[1] /\ p[2] < s[2])
    <3>1. /\ p[1] > q[1] \/ (p[1] = q[1] /\ p[2] < q[2])
          /\ q[1] > s[1] \/ (q[1] = s[1] /\ q[2] < s[2])
      BY <1>2, <2>1
    <3>2. QED
      BY <1>1, <3>1
  <2>2. QED
    BY <1>2, <2>1
<1>7. QED
  BY <1>4, <1>5, <1>6 DEF Strict

\* What the taxonomy makes of a slug: an attribute, a failure, or nothing.
LEMMA ResolveType ==
    ASSUME NEW slug \in Attributes, NEW first \in Firsts
    PROVE  Resolve(slug, first) \in Attrs \cup {"key_error", "unresolved"}
<1>1. CASE Exact[slug] # {}
  <2>1. first[slug] \in Attrs
    BY <1>1 DEF Firsts
  <2>2. Resolve(slug, first) = first[slug]
    BY <1>1 DEF Resolve
  <2>3. QED
    BY <2>1, <2>2
<1>2. CASE Exact[slug] = {}
  BY <1>2 DEF Resolve
<1>3. QED
  BY <1>1, <1>2

\* A profile is a sequence of items.
LEMMA FromProfileType ==
    ASSUME NEW answers \in Seq(Answer), NEW first \in Firsts
    PROVE  FromProfile(answers, first) \in Seq(PayItem)
<1> DEFINE known == {p \in Profile(answers) : Resolve(Slugs[p[2]], first) # "unresolved"}
           ranked == InOrder(known, HeaviestFirst(known))
           item(n) == [attr |-> Resolve(Slugs[ranked[n][2]], first), weight |-> ranked[n][1],
                       minimum |-> 0, mandatory |-> FALSE]
<1>1. known \in SUBSET Profile(answers)
  OBVIOUS
<1>2. Strict(known, HeaviestFirst(known)) /\ IsFiniteSet(known)
  <2>1. IsFiniteSet(known)
    BY <1>1, ProfileType, FS_Subset
  <2>2. QED
    BY <1>1, <2>1, ProfileType, HeaviestFirstOrders
<1>3. ranked \in Seq(known)
  BY <1>2, Ordered
<1>4. \A n \in DOMAIN ranked : item(n) \in PayItem
  <2>1. ASSUME NEW n \in DOMAIN ranked PROVE item(n) \in PayItem
    <3>1. ranked[n] \in known
      BY <1>3
    <3>2. /\ ranked[n][1] \in 0 .. FullScore /\ ranked[n][2] \in DOMAIN Slugs
          /\ Resolve(Slugs[ranked[n][2]], first) # "unresolved"
      BY <3>1, ProfileType
    <3>3. Slugs[ranked[n][2]] \in Attributes
      BY <3>2 DEF Attributes, ToSet
    <3>4. Resolve(Slugs[ranked[n][2]], first) \in Attrs \cup {"foreign", "key_error"}
      BY <3>2, <3>3, ResolveType
    <3> HIDE DEF ranked
    <3>5. 0 \in 0 .. TopScore
      BY DEF TopScore
    <3>6. QED
      BY <3>2, <3>4, <3>5 DEF PayItem
  <2>2. QED
    BY <2>1
<1>5. FromProfile(answers, first) = [n \in DOMAIN ranked |-> item(n)]
  BY DEF FromProfile
<1>6. DOMAIN ranked = 1 .. Len(ranked) /\ Len(ranked) \in Nat
  BY <1>3
<1> HIDE DEF ranked, item
<1>7. QED
  BY <1>4, <1>5, <1>6

\* The attributes that weigh on a hotel are among the wanted ones, and they are
\* finitely many.
LEMMA WantedType ==
    ASSUME NEW used \in [Attrs -> Pref], NEW h \in Hotels
    PROVE  /\ Wanted(used) \in SUBSET Attrs /\ IsFiniteSet(Wanted(used))
           /\ Scored(h, used) \in SUBSET Wanted(used) /\ IsFiniteSet(Scored(h, used))
           /\ \A a \in Attrs : used[a].weight \in Nat /\ Scores[h][a] \in Nat
           /\ \A a \in Wanted(used) : used[a].weight > 0
<1>1. Wanted(used) \in SUBSET Attrs /\ Scored(h, used) \in SUBSET Wanted(used)
  BY DEF Wanted, Scored
<1>2. IsFiniteSet(Wanted(used)) /\ IsFiniteSet(Scored(h, used))
  <2>1. IsFiniteSet(Attrs)
    BY PreferencesAssumption
  <2>2. IsFiniteSet(Wanted(used))
    BY <1>1, <2>1, FS_Subset
  <2>3. QED
    BY <1>1, <2>2, FS_Subset
<1>3. \A a \in Attrs : used[a].weight \in Nat
  <2>1. ASSUME NEW a \in Attrs PROVE used[a].weight \in Nat
    <3>1. used[a] \in Pref
      OBVIOUS
    <3>2. used[a].weight \in 0 .. 300
      BY <3>1 DEF Pref, FullScore
    <3>3. QED
      BY <3>2
  <2>2. QED
    BY <2>1
<1>4. \A a \in Attrs : Scores[h][a] \in Nat
  <2>1. Scores \in [Hotels -> [Attrs -> 0 .. TopScore]]
    BY PreferencesAssumption
  <2>2. TopScore \in Nat
    BY DEF TopScore
  <2>3. QED
    BY <2>1, <2>2
<1>5. QED
  BY <1>1, <1>2, <1>3, <1>4 DEF Wanted

\* Wanted attributes weigh something together.
LEMMA WeightPositive ==
    ASSUME NEW used \in [Attrs -> Pref], NEW h \in Hotels, NEW attrs \in SUBSET Wanted(used)
    PROVE  WeightOf(attrs, used) \in Nat /\ (attrs # {} => WeightOf(attrs, used) > 0)
<1> DEFINE f == [a \in attrs |-> used[a].weight]
<1>1. IsFiniteSet(attrs) /\ DOMAIN f = attrs
  BY WantedType, FS_Subset
<1>2. \A a \in attrs : f[a] \in Nat /\ f[a] > 0
  BY WantedType
<1>3. WeightOf(attrs, used) = SumOver(f, attrs)
  BY SumOfFunction DEF WeightOf
<1> HIDE DEF f
<1>4. SumOver(f, attrs) \in Nat
  BY <1>1, <1>2, SumTyped
<1>5. ASSUME NEW y \in attrs PROVE SumOver(f, attrs) > 0
  <2>1. SumOver(f, attrs) = f[y] + SumOver(f, attrs \ {y})
    BY <1>1, <1>2, SumAdds
  <2>2. IsFiniteSet(attrs \ {y})
    BY <1>1, FS_RemoveElement
  <2>3. SumOver(f, attrs \ {y}) \in Nat
    BY <1>2, <2>2, SumTyped
  <2>4. QED
    BY <1>2, <2>1, <2>3
<1>6. QED
  BY <1>3, <1>4, <1>5

\* A hotel that has something to weigh has an integer for a rating and for a
\* coverage.
LEMMA RatingType ==
    ASSUME NEW used \in [Attrs -> Pref], NEW h \in Hotels, Scored(h, used) # {}
    PROVE  Personalized(h, used) \in Int /\ Coverage(h, used) \in Int
<1> DEFINE s == Scored(h, used)
           f == [a \in s |-> Scores[h][a] * used[a].weight]
<1>1. \A n, d \in Nat : d > 0 => Rounded(n, d) \in Int
  BY DEF Rounded
<1>2. WeightOf(s, used) \in Nat /\ WeightOf(s, used) > 0
  BY WantedType, WeightPositive
<1>3. WeightOf(Wanted(used), used) \in Nat /\ WeightOf(Wanted(used), used) > 0
  BY WantedType, WeightPositive
<1>4. SumFunction(f) \in Nat
  <2>1. IsFiniteSet(DOMAIN f)
    BY WantedType
  <2>2. \A a \in DOMAIN f : f[a] \in Nat
    BY WantedType
  <2> HIDE DEF f
  <2>3. QED
    BY <2>1, <2>2, SumOfNaturals
<1>5. Personalized(h, used) \in Int
  <2>1. Personalized(h, used) = Rounded(SumFunction(f), WeightOf(s, used))
    BY DEF Personalized
  <2> HIDE DEF f, s
  <2>2. QED
    BY <1>1, <1>2, <1>4, <2>1
<1>6. Coverage(h, used) \in Int
  <2>1. 10000 * WeightOf(s, used) \in Nat
    BY <1>2
  <2>2. QED
    BY <1>1, <1>3, <2>1 DEF Coverage
<1>7. QED
  BY <1>5, <1>6

\* The standing of a hotel is four integers, the last of which is the hotel.
LEMMA StandingType ==
    ASSUME NEW used \in [Attrs -> Pref], NEW h \in Hotels,
           Wanted(used) = {} \/ Ranked(h, used)
    PROVE  /\ Standing(h, used) \in Int \X Int \X Int \X Int
           /\ Standing(h, used)[4] = h
           /\ Standing(h, used)[1] = IF Wanted(used) = {} THEN 0 ELSE Personalized(h, used)
<1>1. h \in Int /\ Rating[h] \in Int
  BY PreferencesAssumption DEF None
<1>2. CASE Wanted(used) = {}
  BY <1>1, <1>2 DEF Standing
<1>3. CASE Wanted(used) # {}
  <2>1. Personalized(h, used) \in Int /\ Coverage(h, used) \in Int
    BY <1>3, RatingType DEF Ranked
  <2>2. QED
    BY <1>1, <1>3, <2>1 DEF Standing
<1>4. QED
  BY <1>2, <1>3

\* The best come first, without ties.
LEMMA BestFirstOrders ==
    ASSUME NEW standings \in SUBSET (Int \X Int \X Int \X Int)
    PROVE  Strict(standings, BestFirst(standings))
<1>1. \A s \in standings : /\ s[1] \in Int /\ s[2] \in Int /\ s[3] \in Int /\ s[4] \in Int
                           /\ s = <<s[1], s[2], s[3], s[4]>>
  OBVIOUS
<1>2. \A s, t \in standings : <<s, t>> \in BestFirst(standings) <=> Better(s, t)
  BY DEF BestFirst
<1>3. \A s, t \in standings : s # t => s[1] # t[1] \/ s[2] # t[2] \/ s[3] # t[3] \/ s[4] # t[4]
  BY <1>1
<1>4. \A s \in standings : ~Better(s, s)
  BY <1>1 DEF Better
<1>5. \A s, t \in standings : s # t => Better(s, t) \/ Better(t, s)
  BY <1>1, <1>3 DEF Better
<1>6. \A s, t, u \in standings : Better(s, t) /\ Better(t, u) => Better(s, u)
  BY <1>1 DEF Better
<1>7. QED
  BY <1>2, <1>4, <1>5, <1>6 DEF Strict

\* The hotels that a ranking lists, and what it rates them.
Rankable(hotels, used) == {h \in hotels : Wanted(used) = {} \/ Ranked(h, used)}
Rate(h, used) == IF Wanted(used) = {} THEN 0 ELSE Personalized(h, used)

\* The standings of hotels, as a ranking lists them.
LEMMA RankingLists ==
    ASSUME NEW used \in [Attrs -> Pref], NEW hotels \in SUBSET Hotels,
           NEW standings, standings = Standings(hotels, used),
           NEW all, all = InOrder(standings, BestFirst(standings))
    PROVE  /\ Cardinality(standings) \in Nat
           /\ \A n \in 1 .. Cardinality(standings) : all[n][4] \in Rankable(hotels, used)
           /\ \A h \in Rankable(hotels, used) :
                \E n \in 1 .. Cardinality(standings) : all[n][4] = h
           /\ \A m, n \in 1 .. Cardinality(standings) : m < n =>
                /\ all[m][4] # all[n][4]
                /\ Rate(all[m][4], used) >= Rate(all[n][4], used)
<1> DEFINE rankable == Rankable(hotels, used)
           size == Cardinality(standings)
           f == [h \in rankable |-> Standing(h, used)]
<1>1. /\ rankable \in SUBSET Hotels
      /\ \A h \in rankable : /\ Standing(h, used) \in Int \X Int \X Int \X Int
                             /\ Standing(h, used)[4] = h
                             /\ Standing(h, used)[1] = Rate(h, used)
  BY StandingType DEF Rankable, Rate
<1>2. standings = {Standing(h, used) : h \in rankable}
  BY DEF Standings, Rankable
<1>3. standings \in SUBSET (Int \X Int \X Int \X Int)
  BY <1>1, <1>2
<1>4. IsFiniteSet(standings)
  <2>1. IsFiniteSet(rankable)
    <3>1. IsFiniteSet(Hotels)
      BY PreferencesAssumption
    <3>2. QED
      BY <1>1, <3>1, FS_Subset
  <2>2. f \in [rankable -> standings] /\ \A s \in standings : \E h \in rankable : f[h] = s
    BY <1>2
  <2> HIDE DEF f, rankable
  <2>3. f \in Surjection(rankable, standings)
    BY <2>2 DEF Surjection
  <2>4. QED
    BY <2>1, <2>3, FS_Surjection
<1>5. /\ all \in Seq(standings) /\ Len(all) = size /\ size \in Nat
      /\ \A m, n \in 1 .. size : m < n => <<all[m], all[n]>> \in BestFirst(standings)
      /\ \A s \in standings : \E n \in 1 .. size : all[n] = s
  <2>1. Strict(standings, BestFirst(standings))
    BY <1>3, BestFirstOrders
  <2>2. QED
    BY <1>4, <2>1, Ordered
<1> HIDE DEF size
<1>6. \A n \in 1 .. size : all[n] \in standings
  BY <1>5
<1>7. \A n \in 1 .. size : /\ all[n][4] \in rankable
                           /\ all[n] = Standing(all[n][4], used)
                           /\ all[n][1] = Rate(all[n][4], used)
  <2>1. ASSUME NEW n \in 1 .. size
        PROVE  /\ all[n][4] \in rankable
               /\ all[n] = Standing(all[n][4], used)
               /\ all[n][1] = Rate(all[n][4], used)
    <3>1. PICK h \in rankable : all[n] = Standing(h, used)
      BY <1>2, <1>6
    <3>2. all[n][4] = h /\ all[n][1] = Rate(h, used)
      BY <1>1, <3>1
    <3>3. QED
      BY <3>1, <3>2
  <2>2. QED
    BY <2>1
<1>8. \A h \in rankable : \E n \in 1 .. size : all[n][4] = h
  <2>1. ASSUME NEW h \in rankable PROVE \E n \in 1 .. size : all[n][4] = h
    <3>1. PICK n \in 1 .. size : all[n] = Standing(h, used)
      BY <1>2, <1>5
    <3>2. QED
      BY <1>1, <3>1
  <2>2. QED
    BY <2>1
<1>9. ASSUME NEW m \in 1 .. size, NEW n \in 1 .. size, m < n
      PROVE  all[m][4] # all[n][4] /\ Rate(all[m][4], used) >= Rate(all[n][4], used)
  <2>1. Better(all[m], all[n])
    <3>1. <<all[m], all[n]>> \in BestFirst(standings)
      BY <1>5, <1>9
    <3>2. QED
      BY <3>1 DEF BestFirst
  <2>2. /\ all[m][1] \in Int /\ all[m][2] \in Int /\ all[m][3] \in Int /\ all[m][4] \in Int
        /\ all[n][1] \in Int /\ all[n][2] \in Int /\ all[n][3] \in Int /\ all[n][4] \in Int
    BY <1>3, <1>6
  <2>3. all[m][1] >= all[n][1]
    BY <2>1, <2>2 DEF Better
  <2>4. all[m] # all[n]
    BY <2>1, <2>2 DEF Better
  <2>5. QED
    BY <1>7, <2>3, <2>4
<1>10. QED
  BY <1>5, <1>7, <1>8, <1>9 DEF size

\* The lesser of two numbers.
LEMMA LesserOf ==
    ASSUME NEW m \in Nat, NEW n \in Nat
    PROVE  /\ Min({m, n}) \in Nat /\ Min({m, n}) <= m /\ Min({m, n}) <= n
           /\ Min({m, n}) = m \/ Min({m, n}) = n
<1>1. \E x \in {m, n} : \A y \in {m, n} : x <= y
  OBVIOUS
<1>2. Min({m, n}) \in {m, n} /\ \A y \in {m, n} : Min({m, n}) <= y
  BY <1>1 DEF Min
<1>3. QED
  BY <1>2

\* The weights of preferences are numbers.
LEMMA WeightType ==
    ASSUME NEW used \in [Attrs -> Pref]
    PROVE  \A a \in Attrs : used[a].weight \in Nat
<1>1. ASSUME NEW a \in Attrs PROVE used[a].weight \in Nat
  <2>1. used[a] \in Pref
    OBVIOUS
  <2>2. used[a].weight \in 0 .. 300
    BY <2>1 DEF Pref, FullScore
  <2>3. QED
    BY <2>2
<1>2. QED
  BY <1>1

\* What entitles a hotel to a place is what _rank_one admits.
LEMMA SuitsIsRanked ==
    ASSUME NEW used \in [Attrs -> Pref],
           \A a \in Attrs : used[a].weight = 0 => ~used[a].mandatory, NEW h \in Hotels
    PROVE  Suits(h, used) <=> Ranked(h, used)
<1>1. \A a \in Attrs : a \in Wanted(used) <=> used[a].weight > 0
  BY DEF Wanted
<1>2. \A a \in Attrs : used[a].mandatory => a \in Wanted(used)
  BY <1>1, WeightType
<1>3. (\E a \in Attrs : used[a].weight > 0 /\ Scores[h][a] > 0) <=> Scored(h, used) # {}
  BY <1>1 DEF Scored, Wanted
<1>4. (\A a \in Attrs : used[a].mandatory => Scores[h][a] > 0 /\ Scores[h][a] >= used[a].minimum)
      <=> \A a \in Wanted(used) : used[a].mandatory =>
            Scores[h][a] > 0 /\ Scores[h][a] >= used[a].minimum
  BY <1>1, <1>2 DEF Wanted
<1>5. QED
  BY <1>3, <1>4 DEF Suits, Ranked


\* A list of the hotels of a set, the better before the worse, and its beginning.
Ranks(list, size, S, used) ==
    /\ \A n \in 1 .. size : list[n] \in S
    /\ \A h \in S : \E n \in 1 .. size : list[n] = h
    /\ \A m, n \in 1 .. size : m < n => /\ list[m] # list[n]
                                        /\ Rate(list[m], used) >= Rate(list[n], used)
Begins(results, list, size, top) ==
    /\ top \in Nat /\ top <= size /\ results \in [1 .. top -> Hotels]
    /\ \A n \in 1 .. top : results[n] = list[n]

\* What a ranking that it shows must be.
Listed(results, S, size, top, used) ==
    /\ ToSet(results) \subseteq S /\ Cardinality(ToSet(results)) = top
    /\ top = size => ToSet(results) = S
    /\ \A m, n \in 1 .. top : m < n => Rate(results[m], used) >= Rate(results[n], used)
    /\ \A h \in S \ ToSet(results), g \in ToSet(results) : Rate(g, used) >= Rate(h, used)

\* A list of hotels in order, cut off, has what it must have of them.
LEMMA Listing ==
    ASSUME NEW used, NEW S \in SUBSET Hotels, NEW size \in Nat, NEW list,
           Ranks(list, size, S, used),
           NEW top, NEW results, Begins(results, list, size, top)
    PROVE  /\ results \in Seq(Hotels) /\ Len(results) = top /\ DOMAIN results = 1 .. top
           /\ Listed(results, S, size, top, used)
<1> DEFINE listed == ToSet(results)
<1> USE DEF Ranks, Begins
<1>1. results \in Seq(Hotels) /\ Len(results) = top /\ DOMAIN results = 1 .. top
  OBVIOUS
<1>2. listed = {results[n] : n \in 1 .. top}
  BY <1>1 DEF ToSet
<1>3. \A n \in 1 .. top : n \in 1 .. size
  OBVIOUS
<1> HIDE DEF listed
<1>4. Cardinality(listed) = top
  <2>1. \A m, n \in 1 .. top : results[m] = results[n] => m = n
    <3>1. ASSUME NEW m \in 1 .. top, NEW n \in 1 .. top, m # n PROVE results[m] # results[n]
      <4>1. m < n \/ n < m
        BY <3>1
      <4>2. QED
        BY <1>3, <4>1
    <3>2. QED
      BY <3>1
  <2>2. \A h \in listed : \E n \in 1 .. top : results[n] = h
    BY <1>2
  <2>3. results \in [1 .. top -> listed]
    BY <1>2
  <2>4. results \in Bijection(1 .. top, listed)
    BY <2>1, <2>2, <2>3 DEF Bijection, Injection, Surjection, IsInjective
  <2>5. IsFiniteSet(1 .. top) /\ Cardinality(1 .. top) = top
    BY FS_Interval
  <2>6. QED
    BY <2>4, <2>5, FS_Bijection DEF ExistsBijection
<1>5. listed \subseteq S
  BY <1>2, <1>3
<1>6. top = size => listed = S
  BY <1>2, <1>5
<1>7. \A m, n \in 1 .. top : m < n => Rate(results[m], used) >= Rate(results[n], used)
  BY <1>3
<1>8. ASSUME NEW h \in S \ listed, NEW g \in listed PROVE Rate(g, used) >= Rate(h, used)
  <2>1. PICK n \in 1 .. size : list[n] = h
    BY <1>8
  <2>2. PICK m \in 1 .. top : results[m] = g
    BY <1>2
  <2>3. n \notin 1 .. top
    BY <1>2, <1>8, <2>1
  <2>4. m < n /\ m \in 1 .. size
    BY <1>3, <2>3
  <2>5. QED
    BY <2>1, <2>2, <2>4
<1>9. QED
  BY <1>1, <1>4, <1>5, <1>6, <1>7, <1>8 DEF listed, Listed

\* The hotels a ranking is told of.
Reachable(place, type, floor) == FirstOf(Matching(place, type, floor), MaxCandidates)

\* The candidates are the allowed hotels with few allowed ones before them.
LEMMA CandidatesAllowed ==
    ASSUME NEW run, NEW h
    PROVE  h \in Reachable(run.place, run.type, run.floor) <=>
             /\ h \in Hotels /\ Allowed(h, run)
             /\ Cardinality(AllowedBefore(h, run)) < MaxCandidates
<1> DEFINE found == Matching(run.place, run.type, run.floor)
<1>1. \A g : g \in found <=> g \in Hotels /\ Allowed(g, run)
  <2>1. ASSUME NEW g \in Hotels
        PROVE  run.type \in {"any", TypeOf[g]} <=> (run.type # "any" => TypeOf[g] = run.type)
    OBVIOUS
  <2>2. ASSUME NEW g \in Hotels
        PROVE  (\E n \in Sourced[g] : n >= run.floor) <=> {n \in Sourced[g] : n >= run.floor} # {}
    OBVIOUS
  <2>3. ASSUME NEW g \in Hotels PROVE g \in found <=> Allowed(g, run)
    BY <2>1, <2>2 DEF Matching, Allowed
  <2>4. QED
    BY <2>3 DEF Matching
<1>2. {g \in found : g < h} = AllowedBefore(h, run)
  BY <1>1 DEF AllowedBefore
<1>3. QED
  BY <1>1, <1>2 DEF Reachable, FirstOf

\* Where nothing weighs the rating is none, and the hotels with a claim are the
\* rankable ones of the destination.
LEMMA EntitledIsRankable ==
    ASSUME NEW used \in [Attrs -> Pref],
           \A a \in Attrs : used[a].weight = 0 => ~used[a].mandatory,
           NEW run, run.used = used
    PROVE  /\ Entitled(run) = Rankable(Reachable(run.place, run.type, run.floor), used)
           /\ \A h : Worth(h, used) = Rate(h, used)
<1>1. Plain(used) <=> Wanted(used) = {}
  BY WeightType DEF Wanted, Plain
<1>2. \A h \in Hotels : Suits(h, used) <=> Ranked(h, used)
  BY SuitsIsRanked
<1> DEFINE hotels == Reachable(run.place, run.type, run.floor)
<1>4. Plain(run.used) <=> Plain(used)
  BY DEF Plain
<1>3. ASSUME NEW h PROVE h \in Entitled(run) <=> h \in Rankable(hotels, used)
  <2>1. h \in Entitled(run) <=> /\ h \in Hotels /\ Allowed(h, run)
                                /\ Cardinality(AllowedBefore(h, run)) < MaxCandidates
                                /\ (Plain(run.used) \/ Suits(h, run.used))
    BY DEF Entitled
  <2>2. h \in hotels <=> /\ h \in Hotels /\ Allowed(h, run)
                         /\ Cardinality(AllowedBefore(h, run)) < MaxCandidates
    BY CandidatesAllowed
  <2>3. h \in Rankable(hotels, used) <=> h \in hotels /\ (Wanted(used) = {} \/ Ranked(h, used))
    BY DEF Rankable
  <2>4. QED
    BY <1>1, <1>2, <1>4, <2>1, <2>2, <2>3
<1>5. QED
  BY <1>1, <1>3 DEF Worth, Rate

\* A run that lists rankable hotels in order, cut off at its limit, obeys.
LEMMA ListObeys ==
    ASSUME NEW run, NEW used \in [Attrs -> Pref],
           run.used = used, \A h : Worth(h, used) = Rate(h, used),
           NEW S \in SUBSET Hotels, Entitled(run) = S, NEW size \in Nat, NEW list,
           Ranks(list, size, S, used),
           NEW top, NEW results, Begins(results, list, size, top), run.results = results,
           top <= run.limit, top = size \/ top = run.limit
    PROVE  results \in Seq(Hotels) /\ Obeys(run)
<1> DEFINE listed == ToSet(results)
<1>1. /\ results \in Seq(Hotels) /\ Len(results) = top /\ DOMAIN results = 1 .. top
      /\ Listed(results, S, size, top, used)
  BY Listing
<1> HIDE DEF listed
<1>2. /\ listed \subseteq Entitled(run)
      /\ Len(run.results) = Cardinality(listed)
      /\ Len(run.results) <= run.limit
      /\ listed = Entitled(run) \/ Len(run.results) = run.limit
      /\ \A m, n \in DOMAIN run.results :
           m < n => Worth(run.results[m], run.used) >= Worth(run.results[n], run.used)
      /\ \A h \in Entitled(run) \ listed, g \in listed :
           Worth(g, run.used) >= Worth(h, run.used)
  BY <1>1 DEF Listed, listed
<1>3. QED
  BY <1>1, <1>2, Zenon DEF Obeys, listed

\* What a run is made of makes a run.
LEMMA RunType ==
    ASSUME NEW r \in Requests, NEW p \in Places, NEW used \in [Attrs -> Pref],
           NEW type \in Types \cup {"any"}, NEW floor \in Nat \cup {None}, NEW limit \in Nat,
           NEW results \in Seq(Hotels)
    PROVE  [by |-> r, place |-> p, used |-> used, type |-> type, floor |-> floor,
            limit |-> limit, results |-> results] \in Run
  BY DEF Run

\* The run that a request stores.
RunAs(r, p, type, floor, limit, used) ==
    LET standings == Standings(Reachable(p, type, floor), used)
        all == InOrder(standings, BestFirst(standings))
    IN  [by |-> r, place |-> p, used |-> used, type |-> type, floor |-> floor, limit |-> limit,
         results |-> [n \in 1 .. Min({Cardinality(standings), limit}) |-> all[n][4]]]

\* It obeys the preferences it used.
LEMMA RankingKept ==
    ASSUME NEW r \in Requests, NEW p \in Places, NEW type \in Types \cup {"any"},
           NEW floor \in Nat \cup {None}, NEW limit \in Nat,
           NEW used \in [Attrs -> Pref],
           \A a \in Attrs : used[a].weight = 0 => ~used[a].mandatory
    PROVE  /\ RunAs(r, p, type, floor, limit, used) \in Run
           /\ Obeys(RunAs(r, p, type, floor, limit, used))
<1> DEFINE standings == Standings(Reachable(p, type, floor), used)
           all == InOrder(standings, BestFirst(standings))
           run == RunAs(r, p, type, floor, limit, used)
           size == Cardinality(standings)
           top == Min({size, limit})
           hotels == Rankable(Reachable(p, type, floor), used)
           list == [n \in 1 .. size |-> all[n][4]]
           results == [n \in 1 .. top |-> all[n][4]]
<1>1. /\ size \in Nat
      /\ \A n \in 1 .. size : all[n][4] \in hotels
      /\ \A h \in hotels : \E n \in 1 .. size : all[n][4] = h
      /\ \A m, n \in 1 .. size : m < n => /\ all[m][4] # all[n][4]
                                          /\ Rate(all[m][4], used) >= Rate(all[n][4], used)
  <2>1. Reachable(p, type, floor) \in SUBSET Hotels
    BY DEF Reachable, FirstOf, Matching
  <2>2. QED
    BY <2>1, RankingLists
<1>2. top \in Nat /\ top <= size /\ top <= limit /\ (top = size \/ top = limit)
  BY <1>1, LesserOf
<1>3. /\ run.by = r /\ run.place = p /\ run.used = used /\ run.type = type
      /\ run.floor = floor /\ run.limit = limit /\ run.results = results
      /\ run = [by |-> r, place |-> p, used |-> used, type |-> type, floor |-> floor,
                limit |-> limit, results |-> results]
  BY DEF RunAs
<1>4. hotels \in SUBSET Hotels /\ Entitled(run) = hotels /\ \A h : Worth(h, used) = Rate(h, used)
  <2>1. hotels \in SUBSET Hotels
    BY DEF Rankable, Reachable, FirstOf, Matching
  <2>2. QED
    BY <1>3, <2>1, EntitledIsRankable
<1>5. \A n \in 1 .. top : n \in 1 .. size
  BY <1>1, <1>2
<1>6. results \in [1 .. top -> Hotels] /\ \A n \in 1 .. top : results[n] = list[n]
  BY <1>1, <1>3, <1>4, <1>5
<1>7. \A n \in 1 .. size : list[n] = all[n][4]
  OBVIOUS
<1>8. Ranks(list, size, hotels, used) /\ Begins(results, list, size, top)
  <2>1. Ranks(list, size, hotels, used)
    BY <1>1, <1>7 DEF Ranks
  <2>2. Begins(results, list, size, top)
    BY <1>2, <1>6 DEF Begins
  <2>3. QED
    BY <2>1, <2>2
<1> HIDE DEF size, top, hotels, list, results, run
<1>9. results \in Seq(Hotels) /\ Obeys(run)
  <2>1. size \in Nat /\ run.used = used /\ top <= run.limit /\ (top = size \/ top = run.limit)
    BY <1>1, <1>2, <1>3
  <2>2. QED
    BY <1>3, <1>4, <1>8, <2>1, ListObeys
<1>10. run \in Run
  <2>1. [by |-> r, place |-> p, used |-> used, type |-> type, floor |-> floor,
         limit |-> limit, results |-> results] \in Run
    BY <1>9, RunType
  <2>2. QED
    BY <1>3, <2>1, Zenon
<1>11. QED
  BY <1>9, <1>10 DEF run

\* What a request says is a message.
LEMMA SaysType ==
    ASSUME NEW r \in Requests, NEW role \in {"user", "assistant"}
    PROVE  /\ Says(r, role) \in Message
           /\ Says(r, role).by = r /\ Says(r, role).role = role
           /\ Says(r, role).intent = IF op[r].kind \in Intents THEN op[r].kind ELSE "none"
  BY DEF Says, Message

-----------------------------------------------------------------------------
(* The types of the variables                                              *)

Rows == Row \cup {NoRow}
Asks == [kind: Kinds \cup Intents \cup {"none"}, items: Seq(Item), answers: Seq(Answer),
         place: Places, limit: Nat, type: Types \cup {"any"}, floor: Nat \cup {None},
         of: Requests]
Stages == {"idle", "interpreting", "reading", "checking", "deleting", "working", "merging",
           "ranking", "caching", "replying", "done"}
Outcomes == {"none", "ok", "refused", "error", "failed", "crashed"}
Held == [place: Places, user: BOOLEAN]
Doomed == [key: Keys, by: Writers]

\* What a transaction writes: rows under some of the keys.
Changes == UNION {[keys -> Rows] : keys \in SUBSET Keys}

\* What all requests see.
Public ==
    /\ trip \in [place: Places, deleted: BOOLEAN] /\ user \in BOOLEAN
    /\ runs \in [Requests -> Run \cup {NoRun}] /\ cache \in [Requests -> Run \cup {NoRun}]
    /\ served \in [Requests -> [of: Requests, run: Run] \cup {NoRun}]
    /\ said \in Seq(Message) /\ crashes \in 0 .. MaxCrashes

\* Where the requests are.  A message has something to say.
Progress ==
    /\ op \in [Requests -> Asks] /\ pc \in [Requests -> Stages]
    /\ outcome \in [Requests -> Outcomes]
    /\ \A r \in Requests : (outcome[r] = "none") = (pc[r] # "done")
    /\ \A r \in Requests : InChat(r) \/ pc[r] = "interpreting" => op[r].items # <<>>

\* What they have loaded.
Reading == held \in [Requests -> Held] /\ seen \in [Requests -> [Attrs -> Pref]]

\* What they write.
Writing ==
    /\ rows \in [Keys -> Rows] /\ payload \in [Requests -> Seq(PayItem)]
    /\ written \in [Requests -> Nat] /\ doomed \in [Requests -> Seq(Doomed)]
    /\ tx \in [Requests -> Changes] /\ applied \in SUBSET Requests
    /\ \A r \in Requests : written[r] <= Len(payload[r])
    /\ \A r, q \in Requests : r # q => DOMAIN tx[r] \cap DOMAIN tx[q] = {}

\* Only a request at work has written something or is about to delete.
Settled ==
    \A r \in Requests :
        pc[r] # "working" => written[r] = 0 /\ doomed[r] = <<>> /\ tx[r] = Empty

\* The inductive strengthening of TypeOK.
Typed == Public /\ Progress /\ Reading /\ Writing /\ Settled

\* What the literals are.
LEMMA Literals ==
    /\ Empty \in Changes /\ DOMAIN Empty = {}
    /\ NoRow \in Rows /\ NoRow \notin Row
    /\ Unused \in Pref
    /\ \A row \in Rows : Preference(row) \in Pref
<1>1. DOMAIN Empty = {}
  BY DEF Empty
<1>2. Empty \in Changes
  <2>1. Empty \in [{} -> Rows]
    BY DEF Empty
  <2>2. {} \in SUBSET Keys
    OBVIOUS
  <2>3. QED
    BY <2>1, <2>2 DEF Changes
<1>3. NoRow \in Rows
  BY DEF Rows
<1>4. NoRow \notin Row
  BY PreferencesAssumption DEF NoRow, Row, Writers
<1>5. 0 \in 0 .. FullScore /\ 0 \in 0 .. TopScore
  BY DEF FullScore, TopScore
<1>6. Unused \in Pref
  BY <1>5 DEF Unused, Pref
<1>7. \A row \in Rows : Preference(row) \in Pref
  <2>1. Preference(NoRow) = Unused
    BY DEF Preference, NoRow, Unused
  <2>2. ASSUME NEW row \in Row PROVE Preference(row) \in Pref
    BY DEF Row, Preference, Pref
  <2>3. QED
    BY <1>6, <2>1, <2>2 DEF Rows
<1>8. QED
  BY <1>1, <1>2, <1>3, <1>4, <1>6, <1>7

\* A change has a row for each of its keys.
LEMMA ChangeType ==
    ASSUME NEW t \in Changes
    PROVE  /\ DOMAIN t \in SUBSET Keys /\ t = [k \in DOMAIN t |-> t[k]]
           /\ \A k \in DOMAIN t : t[k] \in Rows
<1>1. PICK keys \in SUBSET Keys : t \in [keys -> Rows]
  BY DEF Changes
<1>2. QED
  BY <1>1

\* What a statement sees is a row or none, and what it writes is a change.
LEMMA StatementType ==
    ASSUME Writing, NEW r \in Requests, NEW k \in Keys
    PROVE  /\ Current(r, k) \in Rows
           /\ \A value \in Rows : /\ Written(r, k, value) \in Changes
                                  /\ DOMAIN Written(r, k, value) = DOMAIN tx[r] \cup {k}
<1>1. tx[r] \in Changes /\ rows[k] \in Rows
  BY DEF Writing
<1>2. Current(r, k) \in Rows
  BY <1>1, ChangeType DEF Current
<1>3. ASSUME NEW value \in Rows
      PROVE  /\ Written(r, k, value) \in Changes
             /\ DOMAIN Written(r, k, value) = DOMAIN tx[r] \cup {k}
  <2> DEFINE keys == DOMAIN tx[r] \cup {k}
  <2>1. keys \in SUBSET Keys /\ \A l \in DOMAIN tx[r] : tx[r][l] \in Rows
    BY <1>1, ChangeType
  <2>2. Written(r, k, value) \in [keys -> Rows]
    BY <2>1 DEF Written
  <2> HIDE DEF keys
  <2>3. Written(r, k, value) \in Changes /\ DOMAIN Written(r, k, value) = keys
    BY <2>1, <2>2 DEF Changes
  <2>4. QED
    BY <2>3 DEF keys
<1>4. QED
  BY <1>2, <1>3

\* The absence of a request is a request for nothing.
LEMMA NothingAsked ==
    ASSUME NEW r \in Requests, NEW p \in Places
    PROVE  NoOp \in Asks /\ NoOp.kind = "none" /\ Unloaded \in Held
<1>1. NoOp.place \in Places /\ NoOp.of \in Requests
  BY DEF NoOp
<1>2. NoOp \in Asks
  BY <1>1 DEF NoOp, Asks
<1>3. QED
  BY <1>1, <1>2 DEF NoOp, Unloaded, Held

\* The end of a transaction leaves nothing of its request behind.
LEMMA Closed ==
    ASSUME Typed, NEW r \in Requests, NEW c \in BOOLEAN, Close(r, c)
    PROVE  /\ Reading' /\ Writing'
           /\ written'[r] = 0 /\ doomed'[r] = <<>> /\ tx'[r] = Empty
           /\ \A q \in Requests \ {r} : /\ written'[q] = written[q] /\ doomed'[q] = doomed[q]
                                        /\ tx'[q] = tx[q]
<1> USE DEF Typed
<1>1. Unloaded \in Held
  <2>1. trip.place \in Places
    BY DEF Public
  <2>2. QED
    BY <2>1, NothingAsked
<1>2. Reading'
  <2>1. [a \in Attrs |-> Unused] \in [Attrs -> Pref]
    BY Literals
  <2>2. QED
    BY <1>1, <2>1 DEF Close, Released, Reading
<1>3. rows' \in [Keys -> Rows]
  <2>1. \A k \in Keys : Current(r, k) \in Rows
    BY StatementType
  <2>2. QED
    BY <2>1 DEF Close, Released, Writing
<1>4. /\ payload' \in [Requests -> Seq(PayItem)] /\ payload'[r] = <<>>
      /\ \A q \in Requests \ {r} : payload'[q] = payload[q]
  BY DEF Close, Released, Writing
<1>5. /\ written' \in [Requests -> Nat] /\ written'[r] = 0
      /\ \A q \in Requests \ {r} : written'[q] = written[q]
  BY DEF Close, Released, Writing
<1>6. /\ doomed' \in [Requests -> Seq(Doomed)] /\ doomed'[r] = <<>>
      /\ \A q \in Requests \ {r} : doomed'[q] = doomed[q]
  BY DEF Close, Released, Writing
<1>7. /\ tx' \in [Requests -> Changes] /\ tx'[r] = Empty
      /\ \A q \in Requests \ {r} : tx'[q] = tx[q]
  BY Literals DEF Close, Released, Writing
<1>8. \A q \in Requests : written'[q] <= Len(payload'[q])
  <2>1. \A q \in Requests : written[q] <= Len(payload[q])
    BY DEF Writing
  <2>2. written'[r] <= Len(payload'[r])
    BY <1>4, <1>5
  <2>3. \A q \in Requests \ {r} : written'[q] <= Len(payload'[q])
    BY <1>4, <1>5, <2>1
  <2>4. QED
    BY <2>2, <2>3
<1>9. \A p, q \in Requests : p # q => DOMAIN tx'[p] \cap DOMAIN tx'[q] = {}
  BY <1>7, Literals DEF Writing
<1>10. applied' \in SUBSET Requests
  BY DEF Close, Writing
<1>11. QED
  BY <1>2, <1>3, <1>4, <1>5, <1>6, <1>7, <1>8, <1>9, <1>10 DEF Writing

\* The end of a request.
LEMMA EndTyped ==
    ASSUME Typed, NEW r \in Requests, NEW how \in Outcomes \ {"none"}, NEW c \in BOOLEAN,
           End(r, how, c), Public'
    PROVE  Typed'
<1>1. Close(r, c)
  BY DEF End
<1>2. Reading' /\ Writing' /\ Settled'
  BY <1>1, Closed DEF End, Typed, Settled, Progress
<1>3. Progress'
  <2>1. NoOp \in Asks /\ NoOp.kind = "none"
    <3>1. trip.place \in Places
      BY DEF Typed, Public
    <3>2. QED
      BY <3>1, NothingAsked
  <2>2. /\ op' \in [Requests -> Asks] /\ pc' \in [Requests -> Stages]
        /\ outcome' \in [Requests -> Outcomes]
        /\ pc'[r] = "done" /\ outcome'[r] = how /\ op'[r] = NoOp
        /\ \A q \in Requests \ {r} : /\ pc'[q] = pc[q] /\ outcome'[q] = outcome[q]
                                     /\ op'[q] = op[q]
    BY <2>1 DEF End, Typed, Progress, Stages
  <2>3. \A q \in Requests : (outcome'[q] = "none") = (pc'[q] # "done")
    BY <2>2 DEF Typed, Progress
  <2>4. \A q \in Requests :
          InChat(q)' \/ pc'[q] = "interpreting" => op'[q].items # <<>>
    BY <2>1, <2>2 DEF Typed, Progress, InChat, Intents
  <2>5. QED
    BY <2>2, <2>3, <2>4 DEF Progress
<1>4. QED
  BY <1>2, <1>3 DEF Typed

\* A commit that is not the end of its request.
LEMMA ProceedTyped ==
    ASSUME Typed, NEW r \in Requests, NEW step \in Stages \ {"working", "done", "interpreting"},
           pc[r] # "done", Proceed(r, step), Public'
    PROVE  Typed'
<1>1. Close(r, TRUE)
  BY DEF Proceed
<1>2. Reading' /\ Writing' /\ Settled'
  BY <1>1, Closed DEF Proceed, Typed, Settled, Progress
<1>3. Progress'
  BY DEF Proceed, Typed, Progress, InChat
<1>4. QED
  BY <1>2, <1>3 DEF Typed

\* A step of a request that changes none of what it loaded or writes.
LEMMA MoveTyped ==
    ASSUME Typed, NEW r \in Requests, NEW step \in Stages \ {"done", "interpreting"}, pc[r] # "done",
           pc' = [pc EXCEPT ![r] = step], pc[r] = "working" => step = "working",
           UNCHANGED <<op, outcome, others, crashes>>, Reading', Writing',
           \A q \in Requests : q # r \/ step # "working" =>
               written'[q] = written[q] /\ doomed'[q] = doomed[q] /\ tx'[q] = tx[q]
    PROVE  Typed'
<1>1. Public'
  BY DEF Typed, Public, others
<1>2. Progress'
  BY DEF Typed, Progress, InChat
<1>3. Settled'
  BY DEF Typed, Settled, Progress
<1>4. QED
  BY <1>1, <1>2, <1>3 DEF Typed

\* The steps that end a request and change nothing that all see.
LEMMA EndsTyped ==
    ASSUME Typed, NEW r \in Requests
    PROVE  /\ \A o \in Menu[r] : Refuse(r, o) => Typed'
           /\ (LoseTrip(r) \/ FailStatement(r) \/ FailProfile(r) \/ BreakDeadlock(r)
               \/ FailToInterpret(r)) => Typed'
           /\ Crash(r) => Typed'
<1>1. \A how \in {"refused", "error", "failed", "crashed", "ok"} : how \in Outcomes \ {"none"}
  BY DEF Outcomes
<1>2. ASSUME UNCHANGED <<others, crashes>> PROVE Public'
  BY <1>2 DEF Typed, Public, others
<1>3. ASSUME NEW o \in Menu[r], Refuse(r, o) PROVE Typed'
  BY <1>1, <1>2, <1>3, EndTyped DEF Refuse
<1>4. ASSUME LoseTrip(r) PROVE Typed'
  BY <1>1, <1>2, <1>4, EndTyped DEF LoseTrip
<1>5. ASSUME FailStatement(r) \/ FailProfile(r) PROVE Typed'
  BY <1>1, <1>2, <1>5, EndTyped DEF FailStatement, FailProfile
<1>6. ASSUME BreakDeadlock(r) \/ FailToInterpret(r) PROVE Typed'
  BY <1>1, <1>2, <1>6, EndTyped DEF BreakDeadlock, FailToInterpret
<1>7. ASSUME Crash(r) PROVE Typed'
  <2>1. End(r, "crashed", FALSE)
    BY <1>7 DEF Crash
  <2>2. Public'
    BY <1>7, PreferencesAssumption DEF Crash, Typed, Public, others
  <2>3. QED
    BY <1>1, <2>1, <2>2, EndTyped
<1>8. QED
  BY <1>3, <1>4, <1>5, <1>6, <1>7

\* A set in some order: each element once.
LEMMA AllListed ==
    ASSUME NEW S, IsFiniteSet(S), NEW order \in SetToSeqs(S)
    PROVE  /\ order \in Seq(S) /\ Len(order) = Cardinality(S) /\ Cardinality(S) \in Nat
           /\ DOMAIN order = 1 .. Len(order)
           /\ \A x \in S : \E n \in DOMAIN order : order[n] = x
           /\ \A m, n \in DOMAIN order : m # n => order[m] # order[n]
<1> DEFINE size == Cardinality(S)
<1>1. size \in Nat
  BY FS_CardinalityType
<1>2. order \in [1 .. size -> S] /\ \A m, n \in 1 .. size : m # n => order[m] # order[n]
  BY DEF SetToSeqs
<1>3. order \in Seq(S) /\ Len(order) = size /\ DOMAIN order = 1 .. size
  BY <1>1, <1>2
<1>4. IsFiniteSet(1 .. size) /\ Cardinality(1 .. size) = size
  BY <1>1, FS_Interval
<1> HIDE DEF size
<1>5. order \in Injection(1 .. size, S)
  BY <1>2 DEF Injection, IsInjective
<1>6. order \in Surjection(1 .. size, S)
  BY <1>4, <1>5, FS_Injection DEF size
<1>7. \A x \in S : \E n \in 1 .. size : order[n] = x
  BY <1>6 DEF Surjection
<1>8. QED
  BY <1>1, <1>2, <1>3, <1>7 DEF size

\* The user's rows come from one table and then the other.
LEMMA UserTablesOrder ==
    ASSUME NEW order \in SetToSeqs(UserTables)
    PROVE  \/ order[1] = "USER_MANUAL" /\ order[2] = "ONBOARDING_DETERMINISTIC"
           \/ order[1] = "ONBOARDING_DETERMINISTIC" /\ order[2] = "USER_MANUAL"
<1>1. UserTables = {"USER_MANUAL", "ONBOARDING_DETERMINISTIC"}
  BY DEF UserTables, Tables
<1>2. IsFiniteSet(UserTables) /\ Cardinality(UserTables) = 2
  <2> DEFINE one == {"USER_MANUAL"}
             two == one \cup {"ONBOARDING_DETERMINISTIC"}
  <2>1. IsFiniteSet(one) /\ Cardinality(one) = 1
    BY FS_Singleton
  <2>2. IsFiniteSet(two) /\ Cardinality(two) = 2
    <3>1. "ONBOARDING_DETERMINISTIC" \notin one
      OBVIOUS
    <3> HIDE DEF one
    <3>2. Cardinality(two) = Cardinality(one) + 1
      BY <2>1, <3>1, FS_AddElement
    <3>3. IsFiniteSet(two)
      BY <2>1, FS_AddElement
    <3>4. QED
      BY <2>1, <3>2, <3>3
  <2>3. UserTables = two
    BY <1>1
  <2> HIDE DEF two
  <2>4. QED
    BY <2>2, <2>3
<1>3. Len(order) = 2 /\ DOMAIN order = 1 .. 2
  <2>1. Len(order) = Cardinality(UserTables) /\ DOMAIN order = 1 .. Len(order)
    BY <1>2, AllListed
  <2>2. QED
    BY <1>2, <2>1
<1>4. order[1] \in UserTables /\ order[2] \in UserTables /\ order[1] # order[2]
  <2>1. order \in Seq(UserTables) /\ 1 \in DOMAIN order /\ 2 \in DOMAIN order
    BY <1>2, <1>3, AllListed
  <2>2. QED
    BY <1>2, <2>1, AllListed
<1>5. QED
  BY <1>1, <1>4

\* There are finitely many keys.
LEMMA KeysFinite == IsFiniteSet(Keys) /\ IsFiniteSet(Attrs)
<1>1. IsFiniteSet(Attrs)
  BY PreferencesAssumption
<1>2. IsFiniteSet((({} \cup {"USER_MANUAL"}) \cup {"ONBOARDING_DETERMINISTIC"}) \cup {"TRIP"})
  BY FS_EmptySet, FS_AddElement
<1>3. Tables = (({} \cup {"USER_MANUAL"}) \cup {"ONBOARDING_DETERMINISTIC"}) \cup {"TRIP"}
  BY DEF Tables
<1>4. QED
  BY <1>1, <1>2, <1>3, FS_Product DEF Keys

\* The trip's rows are read into the items that the chat writes back.
LEMMA ReadTripRowsTyped ==
    ASSUME Typed, NEW r \in Requests, ReadTripRows(r)
    PROVE  Typed'
<1> DEFINE found == {a \in Attrs : rows[<<"TRIP", a>>] # NoRow}
           new == op[r].items[1]
           attrs(order) == IF new.attr \in ToSet(order) THEN order ELSE Append(order, new.attr)
           Merged(a) == LET row == rows[<<"TRIP", a>>]
                        IN  IF a = new.attr THEN new
                            ELSE [attr |-> a, weight |-> row.weight,
                                  minimum |-> row.minimum, mandatory |-> row.mandatory]
           items(order) == [n \in DOMAIN attrs(order) |-> Merged(attrs(order)[n])]
<1>1. PICK order \in SetToSeqs(found) : payload' = [payload EXCEPT ![r] = items(order)]
  BY DEF ReadTripRows
<1>2. order \in Seq(found)
  <2>1. IsFiniteSet(found)
    BY KeysFinite, FS_Subset
  <2>2. QED
    BY <2>1, AllListed
<1>3. new \in Item
  <2>1. op[r].items \in Seq(Item) /\ op[r].items # <<>>
    BY DEF ReadTripRows, Typed, Progress, Asks, InChat, Intents
  <2>2. QED
    BY <2>1
<1>4. new \in PayItem /\ new.attr \in Attrs \cup {"foreign"}
  BY <1>3 DEF Item, PayItem
<1>5. \A a \in Attrs : a # new.attr => Merged(a) \in PayItem
  <2>1. ASSUME NEW a \in Attrs, a # new.attr PROVE Merged(a) \in PayItem
    <3>1. <<"TRIP", a>> \in Keys
      BY DEF Keys, Tables
    <3>2. Preference(rows[<<"TRIP", a>>]) \in Pref
      BY <3>1, Literals DEF Typed, Writing
    <3>3. QED
      BY <2>1, <3>2 DEF Preference, Pref, PayItem
  <2>2. QED
    BY <2>1
<1>6. attrs(order) \in Seq(Attrs \cup {"foreign"}) /\
      \A n \in DOMAIN attrs(order) : attrs(order)[n] \in Attrs \/ attrs(order)[n] = new.attr
  <2>1. found \in SUBSET Attrs
    OBVIOUS
  <2> HIDE DEF found, new
  <2>2. order \in Seq(Attrs)
    BY <1>2, <2>1
  <2>3. QED
    BY <1>4, <2>2
<1>7. \A n \in DOMAIN attrs(order) : Merged(attrs(order)[n]) \in PayItem
  BY <1>4, <1>5, <1>6
<1>8. items(order) \in Seq(PayItem)
  <2> HIDE DEF attrs, Merged
  <2>1. DOMAIN attrs(order) = 1 .. Len(attrs(order)) /\ Len(attrs(order)) \in Nat
    BY <1>6
  <2>2. QED
    BY <1>7, <2>1
<1> HIDE DEF items
<1>9. Writing'
  <2>1. payload' \in [Requests -> Seq(PayItem)] /\ written' = written /\ written[r] = 0
        /\ \A q \in Requests \ {r} : payload'[q] = payload[q]
    BY <1>1, <1>8 DEF ReadTripRows, Typed, Writing, Settled
  <2>2. \A q \in Requests : written'[q] <= Len(payload'[q])
    <3>1. \A q \in Requests : written[q] <= Len(payload[q])
      BY DEF Typed, Writing
    <3>2. payload'[r] \in Seq(PayItem)
      BY <2>1
    <3>3. written'[r] <= Len(payload'[r])
      BY <2>1, <3>2
    <3>4. \A q \in Requests \ {r} : written'[q] <= Len(payload'[q])
      BY <2>1, <3>1
    <3>5. QED
      BY <3>3, <3>4
  <2>3. QED
    BY <2>1, <2>2 DEF ReadTripRows, Typed, Writing
<1>10. QED
  <2>1. Reading' /\ "checking" \in Stages
    BY DEF ReadTripRows, Typed, Reading, Stages
  <2>2. QED
    BY <1>9, <2>1, MoveTyped DEF ReadTripRows

\* The statement that deletes lists the rows it found.
LEMMA FindTyped ==
    ASSUME Typed, NEW r \in Requests, Find(r)
    PROVE  Typed'
<1> DEFINE row(k) == [key |-> k, by |-> rows[k].by]
           found == {row(k) : k \in Found(r)}
           f == [k \in Found(r) |-> row(k)]
<1>1. PICK order \in SetToSeqs(found) : doomed' = [doomed EXCEPT ![r] = order]
  BY DEF Find
<1>2. \A k \in Found(r) : k \in Keys /\ row(k) \in Doomed
  <2>1. ASSUME NEW k \in Found(r) PROVE k \in Keys /\ row(k) \in Doomed
    <3>1. k \in Keys /\ rows[k] \in Row
      BY DEF Found, Typed, Writing, Rows
    <3>2. QED
      BY <3>1 DEF Row, Doomed
  <2>2. QED
    BY <2>1
<1>3. IsFiniteSet(found)
  <2>1. IsFiniteSet(Found(r))
    BY <1>2, KeysFinite, FS_Subset
  <2>2. f \in Surjection(Found(r), found)
    BY DEF Surjection
  <2> HIDE DEF f, found
  <2>3. QED
    BY <2>1, <2>2, FS_Surjection
<1>4. order \in Seq(Doomed)
  <2>1. order \in Seq(found) /\ found \in SUBSET Doomed
    BY <1>2, <1>3, AllListed
  <2> HIDE DEF found
  <2>2. QED
    BY <2>1
<1> HIDE DEF found
<1>5. Writing'
  <2>1. doomed' \in [Requests -> Seq(Doomed)]
    BY <1>1, <1>4 DEF Typed, Writing
  <2>2. payload' \in [Requests -> Seq(PayItem)] /\ written' = written /\ written[r] = 0
        /\ (payload'[r] = <<>> \/ payload'[r] = payload[r])
        /\ \A q \in Requests \ {r} : payload'[q] = payload[q]
    BY DEF Find, Typed, Writing, Settled
  <2>3. \A q \in Requests : written'[q] <= Len(payload'[q])
    <3>1. \A q \in Requests : written[q] <= Len(payload[q])
      BY DEF Typed, Writing
    <3>2. payload'[r] \in Seq(PayItem)
      BY <2>2
    <3>3. written'[r] <= Len(payload'[r])
      BY <2>2, <3>2
    <3>4. \A q \in Requests \ {r} : written'[q] <= Len(payload'[q])
      BY <2>2, <3>1
    <3>5. QED
      BY <3>3, <3>4
  <2>4. QED
    BY <2>1, <2>2, <2>3 DEF Find, Typed, Writing
<1>6. QED
  <2>1. Reading' /\ "working" \in Stages
    BY DEF Find, Typed, Reading, Stages
  <2>2. \A q \in Requests : q # r => doomed'[q] = doomed[q] /\ written'[q] = written[q]
                                     /\ tx'[q] = tx[q]
    BY <1>1 DEF Find, Typed, Writing
  <2>3. QED
    BY <1>5, <2>1, <2>2, MoveTyped DEF Find

\* No other transaction holds the key that a statement that need not wait writes.
LEMMA KeyIsFree ==
    ASSUME NEW r \in Requests, NEW k, k \in NextKey(r), WaitsFor(r) = {}
    PROVE  \A q \in Requests \ {r} : k \notin DOMAIN tx[q]
  BY DEF WaitsFor

\* A key nobody else holds is written.
LEMMA KeyWritten ==
    ASSUME Writing, NEW r \in Requests, NEW k \in Keys, NEW value \in Rows,
           k \in NextKey(r), WaitsFor(r) = {},
           tx' = [tx EXCEPT ![r] = Written(r, k, value)]
    PROVE  /\ tx' \in [Requests -> Changes]
           /\ \A p, q \in Requests : p # q => DOMAIN tx'[p] \cap DOMAIN tx'[q] = {}
<1>1. \A q \in Requests \ {r} : k \notin DOMAIN tx[q]
  BY KeyIsFree
<1>2. Written(r, k, value) \in Changes /\ DOMAIN Written(r, k, value) = DOMAIN tx[r] \cup {k}
  BY StatementType
<1>3. /\ tx \in [Requests -> Changes]
      /\ \A p, q \in Requests : p # q => DOMAIN tx[p] \cap DOMAIN tx[q] = {}
  BY DEF Writing
<1>4. tx' \in [Requests -> Changes]
  BY <1>2, <1>3
<1>5. /\ DOMAIN tx'[r] = DOMAIN tx[r] \cup {k}
      /\ \A q \in Requests \ {r} : tx'[q] = tx[q]
  BY <1>2, <1>3
<1>6. \A p, q \in Requests : p # q => DOMAIN tx'[p] \cap DOMAIN tx'[q] = {}
  BY <1>1, <1>3, <1>5
<1>7. QED
  BY <1>4, <1>6

\* A row is deleted, or skipped.
LEMMA DeleteTyped ==
    ASSUME Typed, NEW r \in Requests, Delete(r)
    PROVE  Typed'
<1> DEFINE row == Head(doomed[r])
<1>1. /\ doomed[r] \in Seq(Doomed) /\ doomed[r] # <<>>
      /\ doomed' = [doomed EXCEPT ![r] = Tail(doomed[r])]
  BY DEF Delete, Typed, Writing
<1>2. row.key \in Keys
  <2>1. row \in Doomed
    BY <1>1
  <2>2. QED
    BY <2>1 DEF Doomed
<1>3. NextKey(r) = {row.key} /\ WaitsFor(r) = {}
  <2>1. pc[r] = "working" /\ WaitsFor(r) = {}
    BY DEF Delete
  <2>2. QED
    BY <1>1, <2>1 DEF NextKey, Unwritten
<1>4. /\ tx' = tx \/ tx' = [tx EXCEPT ![r] = Written(r, row.key, NoRow)]
      /\ UNCHANGED <<rows, payload, written, pc, op, outcome, others, crashes, held, seen, applied>>
  BY DEF Delete
<1>5. doomed' \in [Requests -> Seq(Doomed)] /\ \A q \in Requests \ {r} : doomed'[q] = doomed[q]
  BY <1>1 DEF Typed, Writing
<1> HIDE DEF row
<1>6. /\ tx' \in [Requests -> Changes]
      /\ \A p, q \in Requests : p # q => DOMAIN tx'[p] \cap DOMAIN tx'[q] = {}
      /\ \A q \in Requests \ {r} : tx'[q] = tx[q]
  <2>1. CASE tx' = tx
    BY <2>1 DEF Typed, Writing
  <2>2. CASE tx' = [tx EXCEPT ![r] = Written(r, row.key, NoRow)]
    <3>1. row.key \in NextKey(r) /\ NoRow \in Rows
      BY <1>3, Literals
    <3>2. /\ tx' \in [Requests -> Changes]
          /\ \A p, q \in Requests : p # q => DOMAIN tx'[p] \cap DOMAIN tx'[q] = {}
      BY <1>2, <1>3, <2>2, <3>1, KeyWritten DEF Typed
    <3>3. QED
      BY <2>2, <3>2 DEF Typed, Writing
  <2>3. QED
    BY <1>4, <2>1, <2>2
<1>7. Writing' /\ Reading'
  BY <1>4, <1>5, <1>6 DEF Typed, Writing, Reading
<1>8. QED
  <2>1. pc[r] = "working" /\ pc' = [pc EXCEPT ![r] = "working"]
    BY <1>4 DEF Delete, Typed, Progress
  <2>2. QED
    BY <1>4, <1>5, <1>6, <1>7, <2>1, MoveTyped DEF Stages

\* What an item becomes when it is stored.
LEMMA StoredType ==
    ASSUME NEW r \in Requests, NEW old \in Rows, NEW item \in PayItem
    PROVE  /\ Stored(old, r, item) \in Row
           /\ Stored(old, r, item).by = IF old = NoRow THEN r ELSE old.by
           /\ Preference(Stored(old, r, item)) =
                [weight |-> item.weight, minimum |-> item.minimum, mandatory |-> item.mandatory]
<1>1. (IF old = NoRow THEN r ELSE old.by) \in Writers
  BY DEF Rows, Row, Writers
<1>2. QED
  BY <1>1 DEF Stored, Row, PayItem, Preference

\* An item is written.
LEMMA WriteTyped ==
    ASSUME Typed, NEW r \in Requests, Write(r)
    PROVE  Typed'
<1> DEFINE k == <<TableOf(r), NextItem(r).attr>>
           value == Stored(Current(r, k), r, NextItem(r))
<1>1. /\ pc[r] = "working" /\ written[r] < Len(payload[r])
      /\ doomed[r] = <<>> /\ NextItem(r).attr \in Attrs /\ WaitsFor(r) = {}
      /\ tx' = [tx EXCEPT ![r] = Written(r, k, value)]
      /\ written' = [written EXCEPT ![r] = written[r] + 1]
      /\ UNCHANGED <<rows, payload, doomed, pc, op, outcome, others, crashes, held, seen, applied>>
  BY DEF Write, Unwritten, Accepted
<1>2. NextItem(r) \in PayItem
  <2>1. payload[r] \in Seq(PayItem) /\ written[r] \in Nat
    BY DEF Typed, Writing
  <2>2. written[r] + 1 \in 1 .. Len(payload[r])
    BY <1>1, <2>1
  <2>3. QED
    BY <2>1, <2>2 DEF NextItem
<1>3. k \in Keys
  BY <1>1 DEF Keys, Tables, TableOf
<1>4. NextKey(r) = {k}
  BY DEF Write, NextKey
<1>5. value \in Rows
  <2>1. Current(r, k) \in Rows
    BY <1>3, StatementType DEF Typed
  <2>2. QED
    BY <1>2, <2>1, StoredType DEF Rows
<1> HIDE DEF k, value
<1>6. /\ tx' \in [Requests -> Changes]
      /\ \A p, q \in Requests : p # q => DOMAIN tx'[p] \cap DOMAIN tx'[q] = {}
  <2>1. k \in NextKey(r)
    BY <1>4
  <2>2. QED
    BY <1>1, <1>3, <1>5, <2>1, KeyWritten DEF Typed
<1>7. /\ written' \in [Requests -> Nat] /\ written'[r] = written[r] + 1
      /\ \A q \in Requests \ {r} : written'[q] = written[q] /\ tx'[q] = tx[q]
  BY <1>1 DEF Typed, Writing
<1>8. \A q \in Requests : written'[q] <= Len(payload'[q])
  <2>1. /\ \A q \in Requests : written[q] <= Len(payload[q])
        /\ payload' = payload /\ written[r] \in Nat /\ Len(payload[r]) \in Nat
    BY <1>1 DEF Typed, Writing
  <2>2. QED
    BY <1>1, <1>7, <2>1
<1>9. Writing' /\ Reading'
  BY <1>1, <1>6, <1>7, <1>8 DEF Typed, Writing, Reading
<1>10. QED
  <2>1. pc' = [pc EXCEPT ![r] = "working"]
    BY <1>1 DEF Typed, Progress
  <2>2. QED
    BY <1>1, <1>7, <1>9, <2>1, MoveTyped DEF Stages

\* What only reads, or waits for the trip.
LEMMA ReadsTyped ==
    ASSUME Typed, NEW r \in Requests, Recheck(r) \/ ReadUserRows(r) \/ ReadOverrides(r)
    PROVE  Typed'
<1>1. "deleting" \in Stages /\ "merging" \in Stages /\ "ranking" \in Stages
  BY DEF Stages
<1>2. CASE Recheck(r)
  <2>1. Writing' /\ Reading'
    BY <1>2 DEF Recheck, Typed, Writing, Reading
  <2>2. QED
    BY <1>1, <1>2, <2>1, MoveTyped DEF Recheck
<1>3. \A k \in Keys : rows[k] \in Rows
  BY DEF Typed, Writing
<1>4. CASE ReadUserRows(r)
  <2>1. PICK order \in SetToSeqs(UserTables) :
          seen' = [seen EXCEPT ![r] = [a \in Attrs |-> Preference(Selected(order, a))]]
    BY <1>4 DEF ReadUserRows
  <2>2. \A a \in Attrs : Selected(order, a) \in Rows
    <3>1. order[1] \in Tables /\ order[2] \in Tables
      BY UserTablesOrder DEF Tables
    <3>2. \A a \in Attrs, t \in Tables : rows[<<t, a>>] \in Rows
      BY <1>3 DEF Keys
    <3>3. QED
      BY <3>1, <3>2, Literals DEF Selected, Kept
  <2>3. [a \in Attrs |-> Preference(Selected(order, a))] \in [Attrs -> Pref]
    BY <2>2, Literals
  <2>4. Writing' /\ Reading'
    BY <1>4, <2>1, <2>3 DEF ReadUserRows, Typed, Writing, Reading
  <2>5. QED
    BY <1>1, <1>4, <2>4, MoveTyped DEF ReadUserRows
<1>5. CASE ReadOverrides(r)
  <2> DEFINE merged == [a \in Attrs |-> IF rows[<<"TRIP", a>>] # NoRow
                                        THEN Preference(rows[<<"TRIP", a>>]) ELSE seen[r][a]]
  <2>1. seen' = [seen EXCEPT ![r] = merged]
    BY <1>5 DEF ReadOverrides
  <2>2. merged \in [Attrs -> Pref]
    <3>1. \A a \in Attrs : <<"TRIP", a>> \in Keys
      BY DEF Keys, Tables
    <3>2. \A a \in Attrs : Preference(rows[<<"TRIP", a>>]) \in Pref
      BY <1>3, <3>1, Literals
    <3>3. seen[r] \in [Attrs -> Pref]
      BY DEF Typed, Reading
    <3>4. QED
      BY <3>2, <3>3
  <2> HIDE DEF merged
  <2>3. Writing' /\ Reading'
    BY <1>5, <2>1, <2>2 DEF ReadOverrides, Typed, Writing, Reading
  <2>4. QED
    BY <1>1, <1>5, <2>3, MoveTyped DEF ReadOverrides
<1>6. QED
  BY <1>2, <1>4, <1>5

\* A transaction commits, and its request ends or goes on to the reply.
LEMMA CommitTyped ==
    ASSUME Typed, NEW r \in Requests, Commit(r)
    PROVE  Typed'
<1>1. user' \in BOOLEAN /\ UNCHANGED <<trip, runs, cache, said, served, crashes>>
  BY DEF Commit, Typed, Public
<1>2. Public'
  BY <1>1 DEF Typed, Public
<1>3. \/ End(r, "refused", FALSE) \/ Proceed(r, "replying") \/ End(r, "ok", TRUE)
  BY DEF Commit
<1>4. /\ "refused" \in Outcomes \ {"none"} /\ "ok" \in Outcomes \ {"none"}
      /\ "replying" \in Stages \ {"working", "done", "interpreting"} /\ pc[r] # "done"
  BY DEF Outcomes, Stages, Commit
<1>5. QED
  BY <1>2, <1>3, <1>4, EndTyped, ProceedTyped

\* A request begins.
LEMMA BeginTyped ==
    ASSUME Typed, NEW r \in Requests, NEW o \in Menu[r], Begin(r, o)
    PROVE  Typed'
<1>1. /\ o \in Op /\ o.kind \in Kinds /\ (o.kind = "chat" => o.items # <<>>)
      /\ o.items \in Seq(Item) /\ o.answers \in Seq(Answer)
  <2>1. o \in Op /\ o.kind \in Kinds /\ (o.kind = "chat" => o.items # <<>>)
    BY Asking
  <2>2. QED
    BY <2>1 DEF Op
<1>2. pc[r] = "idle" /\ op' = [op EXCEPT ![r] = o] /\ o \in Asks
  <2>1. pc[r] = "idle" /\ op' = [op EXCEPT ![r] = o]
    BY DEF Begin
  <2>2. o \in Asks
    BY <1>1 DEF Op, Asks
  <2>3. QED
    BY <2>1, <2>2
<1>3. PICK step \in {"interpreting", "reading", "working", "deleting"} :
        pc' = [pc EXCEPT ![r] = step] /\ (step = "interpreting" => o.kind = "chat")
  BY DEF Begin
<1>4. Progress'
  <2>1. /\ \A q \in Requests \ {r} : pc'[q] = pc[q] /\ op'[q] = op[q]
        /\ pc'[r] = step /\ op'[r] = o /\ outcome' = outcome
        /\ op' \in [Requests -> Asks] /\ pc' \in [Requests -> Stages]
    BY <1>2, <1>3 DEF Begin, Typed, Progress, Stages
  <2>2. \A q \in Requests : (outcome'[q] = "none") = (pc'[q] # "done")
    BY <1>2, <2>1 DEF Typed, Progress
  <2>3. \A q \in Requests :
          InChat(q)' \/ pc'[q] = "interpreting" => op'[q].items # <<>>
    BY <1>1, <1>3, <2>1 DEF Typed, Progress, InChat, Intents, Kinds, ManualKinds, TripKinds,
       RunKinds
  <2>4. QED
    BY <2>1, <2>2, <2>3 DEF Typed, Progress
<1>5. Public'
  <2>1. said' \in Seq(Message)
    BY SaysType DEF Begin, Typed, Public
  <2>2. QED
    BY <2>1 DEF Begin, Typed, Public
<1>6. Writing'
  <2>2. PICK items \in IF o.kind = "adaptive_complete" THEN Profiles[o.answers] ELSE {o.items} :
          /\ payload' = [payload EXCEPT ![r] = items]
          /\ UNCHANGED <<rows, written, doomed, tx, applied>>
    BY DEF Begin
  <2>1. items \in Seq(PayItem)
    <3>1. Profiles[o.answers] = {FromProfile(o.answers, first) : first \in Firsts}
      BY DEF Profiles
    <3>2. \A first \in Firsts : FromProfile(o.answers, first) \in Seq(PayItem)
      BY <1>1, FromProfileType
    <3>3. o.items \in Seq(PayItem)
      <4>1. Item \in SUBSET PayItem
        BY DEF Item, PayItem
      <4>2. QED
        BY <1>1, <4>1
    <3>4. QED
      BY <2>2, <3>1, <3>2, <3>3
  <2>3. payload' \in [Requests -> Seq(PayItem)]
    BY <2>1, <2>2 DEF Typed, Writing
  <2>4. \A q \in Requests : written'[q] <= Len(payload'[q])
    <3>1. written[r] = 0 /\ Len(items) \in Nat /\ Len(items) >= 0
      BY <1>2, <2>1 DEF Typed, Settled
    <3>2. \A q \in Requests : written[q] <= Len(payload[q])
      BY DEF Typed, Writing
    <3>3. payload'[r] = items /\ \A q \in Requests \ {r} : payload'[q] = payload[q]
      BY <2>2 DEF Typed, Writing
    <3>4. QED
      BY <2>2, <3>1, <3>2, <3>3
  <2>5. QED
    BY <2>2, <2>3, <2>4 DEF Typed, Writing
<1>7. Reading'
  BY DEF Begin, Typed, Public, Reading, Held
<1>8. Settled'
  BY <1>2, <1>3 DEF Begin, Typed, Settled, Progress
<1>9. QED
  BY <1>4, <1>5, <1>6, <1>7, <1>8 DEF Typed

\* The trip changes, or is deleted.
LEMMA ChangeTripTyped ==
    ASSUME Typed, NEW r \in Requests, NEW o \in Menu[r], ChangeTrip(r, o)
    PROVE  Typed'
<1>1. o.place \in Places
  <2>1. o \in Op
    BY Asking
  <2>2. QED
    BY <2>1 DEF Op
<1>2. Public'
  BY <1>1 DEF ChangeTrip, Typed, Public
<1>3. QED
  BY <1>2, EndTyped DEF ChangeTrip, Outcomes

\* A message is interpreted, or answered at once.
LEMMA InterpretTyped ==
    ASSUME Typed, NEW r \in Requests, Interpret(r) \/ AnswerAtOnce(r)
    PROVE  Typed'
<1>1. CASE Interpret(r)
  <2>1. PICK kind \in Intents : op' = [op EXCEPT ![r].kind = kind]
    BY <1>1 DEF Interpret, Becomes, Intents
  <2>2. op[r] \in Asks /\ op[r].items # <<>>
    BY <1>1 DEF Interpret, Typed, Progress
  <2>3. [op[r] EXCEPT !.kind = kind] \in Asks /\ [op[r] EXCEPT !.kind = kind].items # <<>>
    BY <2>2 DEF Asks
  <2>4. /\ pc' = [pc EXCEPT ![r] = "reading"] /\ pc[r] = "interpreting"
        /\ op' \in [Requests -> Asks] /\ op'[r].items # <<>> /\ outcome' = outcome
        /\ \A q \in Requests \ {r} : op'[q] = op[q]
    BY <1>1, <2>1, <2>3 DEF Interpret, Typed, Progress
  <2>5. Progress'
    BY <2>4 DEF Typed, Progress, InChat, Stages
  <2>6. Public' /\ Writing' /\ Settled'
    BY <1>1, <2>4 DEF Interpret, Typed, Public, Writing, Settled, Progress, others
  <2>7. Reading'
    <3>1. held' = [held EXCEPT ![r].place = trip.place] /\ trip.place \in Places
      BY <1>1 DEF Interpret, Typed, Public
    <3>2. QED
      BY <1>1, <3>1 DEF Interpret, Typed, Reading, Held
  <2>8. QED
    BY <2>5, <2>6, <2>7 DEF Typed
<1>2. CASE AnswerAtOnce(r)
  <2>1. Public'
    BY <1>2 DEF AnswerAtOnce, Typed, Public, others
  <2>2. QED
    BY <1>2, <2>1, ProceedTyped DEF AnswerAtOnce, Stages
<1>3. QED
  BY <1>1, <1>2

\* The assistant replies.
LEMMA ReplyTyped ==
    ASSUME Typed, NEW r \in Requests, Reply(r)
    PROVE  Typed'
<1>1. said' \in Seq(Message)
  <2>1. Says(r, "assistant") \in Message
    BY SaysType
  <2>2. QED
    BY <2>1 DEF Reply, Typed, Public
<1>2. Public'
  BY <1>1 DEF Reply, Typed, Public
<1>3. QED
  BY <1>2, EndTyped DEF Reply, Outcomes

\* A run is put in the cache, or not.
LEMMA CachedType ==
    ASSUME Typed, NEW r \in Requests, NEW run \in Run \cup {NoRun}, Cached(r, run)
    PROVE  cache' \in [Requests -> Run \cup {NoRun}]
  BY DEF Cached, CacheKey, Typed, Public

\* A run is cached; a lookup answers one.
LEMMA CacheTyped ==
    ASSUME Typed, NEW r \in Requests
    PROVE  /\ Cache(r) => Typed'
           /\ \A o \in Menu[r] : Lookup(r, o) => Typed'
<1>1. "ok" \in Outcomes \ {"none"} /\ \A q \in Requests : runs[q] \in Run \cup {NoRun}
  BY DEF Outcomes, Typed, Public
<1>2. ASSUME Cache(r) PROVE Typed'
  <2>1. cache' \in [Requests -> Run \cup {NoRun}]
    BY <1>1, <1>2, CachedType DEF Cache
  <2>2. Public'
    BY <1>2, <2>1 DEF Cache, Typed, Public
  <2>3. QED
    BY <1>1, <1>2, <2>2, EndTyped DEF Cache
<1>3. ASSUME NEW o \in Menu[r], Lookup(r, o) PROVE Typed'
  <2>1. o.of \in Requests
    <3>1. o \in Op
      BY Asking
    <3>2. QED
      BY <3>1 DEF Op
  <2>2. PICK run \in Run : served' = [served EXCEPT ![r] = [of |-> o.of, run |-> run]]
    <3>1. CASE ~Refused(o) /\ served' = [served EXCEPT ![r] = [of |-> o.of, run |-> runs[o.of]]]
      <4>1. runs[o.of] # NoRun
        BY <1>3, <3>1 DEF Refused, Lookup
      <4>2. QED
        BY <1>1, <2>1, <3>1, <4>1
    <3>2. CASE /\ cache[o.of] # NoRun
               /\ served' = [served EXCEPT ![r] = [of |-> o.of, run |-> cache[o.of]]]
      BY <2>1, <3>2 DEF Typed, Public
    <3>3. QED
      BY <1>3, <3>1, <3>2 DEF Lookup, CacheKey
  <2>3. served' \in [Requests -> [of: Requests, run: Run] \cup {NoRun}]
    BY <2>1, <2>2 DEF Typed, Public
  <2>4. cache' \in [Requests -> Run \cup {NoRun}]
    <3>1. cache' = cache \/ Cached(o.of, runs[o.of])
      BY <1>3 DEF Lookup
    <3>2. QED
      BY <1>1, <2>1, <3>1, CachedType DEF Typed, Public
  <2>5. UNCHANGED <<trip, user, runs, said, crashes>> /\ End(r, "ok", FALSE)
    BY <1>3 DEF Lookup
  <2>6. Public'
    BY <2>3, <2>4, <2>5 DEF Typed, Public
  <2>7. QED
    BY <1>1, <2>5, <2>6, EndTyped
<1>4. QED
  BY <1>2, <1>3

\* The preferences that a ranking uses.
LEMMA UsedType ==
    ASSUME Typed, NEW r \in Requests
    PROVE  /\ Used(r) \in [Attrs -> Pref]
           /\ \A a \in Attrs : Used(r)[a].weight = 0 => ~Used(r)[a].mandatory
<1>1. \A a \in Attrs : seen[r][a] \in Pref
  BY DEF Typed, Reading
<1>2. \A a \in Attrs : Used(r)[a] = IF seen[r][a].weight > 0 THEN seen[r][a] ELSE Unused
  BY DEF Used
<1>3. Used(r) \in [Attrs -> Pref]
  BY <1>1, Literals DEF Used
<1>4. QED
  BY <1>2, <1>3 DEF Unused

\* What a recommendation stores is a run that obeys the preferences it used.
LEMMA RecommendStores ==
    ASSUME Typed, NEW r \in Requests, Recommend(r)
    PROVE  \E run \in Run : Obeys(run) /\ runs' = [runs EXCEPT ![r] = run]
<1>1. /\ held[r].place \in Places /\ op[r].type \in Types \cup {"any"}
      /\ op[r].floor \in Nat \cup {None} /\ op[r].limit \in Nat
  BY DEF Typed, Reading, Held, Progress, Asks
<1>2. Candidates(r) = Reachable(held[r].place, op[r].type, op[r].floor)
  BY DEF Candidates, Reachable
<1> DEFINE used == Used(r)
           run == RunAs(r, held[r].place, op[r].type, op[r].floor, op[r].limit, used)
<1>3. runs' = [runs EXCEPT ![r] = run]
  BY <1>2, Zenon DEF Recommend, RunAs
<1>4. used \in [Attrs -> Pref] /\ \A a \in Attrs : used[a].weight = 0 => ~used[a].mandatory
  BY UsedType
<1> HIDE DEF used
<1>5. run \in Run /\ Obeys(run)
  BY <1>1, <1>4, RankingKept
<1> HIDE DEF run
<1>6. QED
  BY <1>3, <1>5

\* A ranking is stored.
LEMMA RecommendTyped ==
    ASSUME Typed, NEW r \in Requests, Recommend(r)
    PROVE  Typed'
<1>1. PICK run \in Run : runs' = [runs EXCEPT ![r] = run]
  BY RecommendStores
<1>2. /\ UNCHANGED <<trip, user, cache, said, served, crashes>> /\ pc[r] = "ranking"
      /\ Proceed(r, "replying") \/ Proceed(r, "caching")
  BY DEF Recommend
<1>3. Public'
  BY <1>1, <1>2 DEF Typed, Public
<1>4. QED
  BY <1>2, <1>3, ProceedTyped DEF Stages

\* The initial states.
LEMMA InitTyped == Init => Typed
<1> SUFFICES ASSUME Init PROVE Typed
  OBVIOUS
<1>1. Public
  <2>1. 0 \in 0 .. MaxCrashes /\ <<>> \in Seq(Message)
    BY PreferencesAssumption
  <2>2. trip \in [place: Places, deleted: BOOLEAN] /\ user \in BOOLEAN
    BY DEF Init
  <2>3. QED
    BY <2>1, <2>2 DEF Init, Public
<1>2. \A r \in Requests : NoOp \in Asks /\ NoOp.kind = "none" /\ Unloaded \in Held
  <2>1. trip.place \in Places
    BY <1>1 DEF Public
  <2>2. QED
    BY <2>1, NothingAsked
<1>3. Progress
  BY <1>2 DEF Init, Progress, Stages, Outcomes, InChat, Intents
<1>4. Reading
  <2>1. [a \in Attrs |-> Unused] \in [Attrs -> Pref]
    BY Literals
  <2>2. QED
    BY <1>2, <2>1 DEF Init, Reading
<1>5. Writing
  <2>1. rows \in [Keys -> Rows]
    BY PreferencesAssumption DEF Init, Rows
  <2>2. Len(<<>>) = 0
    OBVIOUS
  <2>3. QED
    BY <2>1, <2>2, Literals DEF Init, Writing
<1>6. Settled
  BY DEF Init, Settled
<1>7. QED
  BY <1>1, <1>3, <1>4, <1>5, <1>6 DEF Typed

\* Every step keeps the types.
LEMMA StepTyped == Typed /\ [Next]_vars => Typed'
<1> SUFFICES ASSUME Typed, [Next]_vars PROVE Typed'
  OBVIOUS
<1>1. CASE UNCHANGED vars
  BY <1>1 DEF vars, others, Typed, Public, Progress, Reading, Writing, Settled, InChat
<1>2. ASSUME NEW r \in Requests, NEW o \in Menu[r],
             Begin(r, o) \/ Refuse(r, o) \/ ChangeTrip(r, o) \/ Lookup(r, o)
      PROVE  Typed'
  BY <1>2, BeginTyped, EndsTyped, ChangeTripTyped, CacheTyped
<1>3. ASSUME NEW r \in Requests, Step(r) \/ Crash(r) PROVE Typed'
  BY <1>3, ReadTripRowsTyped, ReadsTyped, EndsTyped, FindTyped, DeleteTyped, WriteTyped,
     CommitTyped, RecommendTyped, CacheTyped, InterpretTyped, ReplyTyped DEF Step
<1>4. QED
  BY <1>1, <1>2, <1>3 DEF Next

\* Every variable keeps its type, and no two open transactions hold the same
\* key, for any requests, menus, taxonomy, hotels and crashes.
THEOREM TypesAreKept == Spec => []TypeOK
<1>1. Typed => TypeOK
  <2> SUFFICES ASSUME Typed PROVE TypeOK
    OBVIOUS
  <2>1. rows \in [Keys -> Row \cup {NoRow}]
    BY DEF Typed, Writing, Rows
  <2>2. ASSUME NEW r \in Requests
        PROVE  /\ written[r] \in 0 .. Len(payload[r]) /\ DOMAIN tx[r] \subseteq Keys
               /\ \A q \in Requests \ {r} : DOMAIN tx[r] \cap DOMAIN tx[q] = {}
    <3>1. tx[r] \in Changes /\ written[r] \in Nat /\ written[r] <= Len(payload[r])
          /\ payload[r] \in Seq(PayItem)
          /\ \A q \in Requests \ {r} : DOMAIN tx[r] \cap DOMAIN tx[q] = {}
      BY DEF Typed, Writing
    <3>2. QED
      BY <3>1, ChangeType
  <2>3. applied \subseteq Requests
    BY DEF Typed, Writing
  <2>4. QED
    BY <2>1, <2>2, <2>3 DEF TypeOK, Typed, Public, Progress, Reading, Stages, Outcomes, Held
<1>2. QED
  BY InitTyped, StepTyped, <1>1, PTL DEF Spec

\* Only the request's own Recommend stores its run, which obeys.
LEMMA RunsChange ==
    ASSUME Typed, Next, NEW q \in Requests, runs'[q] # runs[q]
    PROVE  Recommend(q) /\ runs'[q] \in Run /\ Obeys(runs'[q])
<1>1. ASSUME NEW r \in Requests, NEW o \in Menu[r],
             Begin(r, o) \/ Refuse(r, o) \/ ChangeTrip(r, o) \/ Lookup(r, o)
      PROVE  runs' = runs
  BY <1>1 DEF Begin, Refuse, ChangeTrip, Lookup, others
<1>2. ASSUME NEW r \in Requests, Crash(r) PROVE runs' = runs
  BY <1>2 DEF Crash, others
<1>3. ASSUME NEW r \in Requests, Step(r), ~Recommend(r) PROVE runs' = runs
  BY <1>3 DEF Step, ReadTripRows, Recheck, LoseTrip, Find, Delete, Write, Commit,
     FailStatement, FailProfile, BreakDeadlock, ReadUserRows, ReadOverrides, Cache, Interpret,
     AnswerAtOnce, FailToInterpret, Reply, others
<1>4. ASSUME NEW r \in Requests, Recommend(r)
      PROVE  r = q /\ runs'[q] \in Run /\ Obeys(runs'[q])
  <2>1. PICK run \in Run : Obeys(run) /\ runs' = [runs EXCEPT ![r] = run]
    BY <1>4, RecommendStores
  <2>2. QED
    BY <2>1 DEF Typed, Public
<1>5. QED
  BY <1>1, <1>2, <1>3, <1>4 DEF Next

\* Every stored run ranks the first MaxCandidates of the hotels its filters allow
\* as its preferences of positive weight ask: what it lists is entitled, best
\* first, each hotel once, at most limit of them, and none of those candidates
\* that it leaves out is better (RecommendationService.generate, candidates,
\* rank_hotels), for any taxonomy, hotels, sources, scores and interleaving.
THEOREM RankingsObey == Spec => []RankingObeys
<1>1. Init => RankingObeys
  BY DEF Init, RankingObeys
<1>2. Typed /\ RankingObeys /\ [Next]_vars => RankingObeys'
  <2> SUFFICES ASSUME Typed, RankingObeys, [Next]_vars PROVE RankingObeys'
    OBVIOUS
  <2>1. \A run : Obeys(run)' = Obeys(run)
    BY DEF Obeys, Entitled, Allowed, AllowedBefore, Worth, Plain, Suits, Personalized, Scored,
           Wanted, WeightOf
  <2>2. ASSUME NEW q \in Requests, runs'[q] # NoRun PROVE Obeys(runs'[q])
    <3>1. CASE runs'[q] = runs[q]
      BY <2>2, <3>1 DEF RankingObeys
    <3>2. CASE runs'[q] # runs[q]
      <4>1. Next
        BY <3>2 DEF vars, others
      <4>2. QED
        BY <3>2, <4>1, RunsChange
    <3>3. QED
      BY <3>1, <3>2
  <2>3. QED
    BY <2>1, <2>2 DEF RankingObeys
<1>3. QED
  BY InitTyped, StepTyped, <1>1, <1>2, PTL DEF Spec

-----------------------------------------------------------------------------
(* A ranking uses what was stored                                          *)

\* The user's row for an attribute: the manual one, else the profile's.
OwedToUser(a) ==
    IF rows[<<"USER_MANUAL", a>>] # NoRow THEN rows[<<"USER_MANUAL", a>>]
    ELSE rows[<<"ONBOARDING_DETERMINISTIC", a>>]

\* A request whose reading no commit disturbed has read what is stored.
HasRead(r) ==
    fresh[r] =>
      /\ pc[r] = "merging" => \A a \in Attrs : seen[r][a] = Preference(OwedToUser(a))
      /\ pc[r] = "ranking" => \A a \in Attrs : seen[r][a] = Preference(Owed(a))
Snapshots == fresh \in [Requests -> BOOLEAN] /\ \A r \in Requests : HasRead(r)

\* A step in which only r, which reads no preference, moves; and either what is
\* stored stays, or nothing read before counts any more.
Apart(r) ==
    /\ pc'[r] \notin {"merging", "ranking"}
    /\ \A q \in Requests \ {r} : pc'[q] = pc[q] /\ seen'[q] = seen[q]
    /\ \/ rows' = rows /\ fresh' = fresh
       \/ fresh' = [q \in Requests |-> FALSE]

\* The end of a transaction either leaves the rows or spoils what was read.
LEMMA ClosedRows ==
    ASSUME Typed, NEW r \in Requests, NEW c \in BOOLEAN, Close(r, c)
    PROVE  /\ \A q \in Requests \ {r} : seen'[q] = seen[q]
           /\ \/ rows' = rows /\ fresh' = fresh
              \/ fresh' = [q \in Requests |-> FALSE]
<1>1. \A q \in Requests \ {r} : seen'[q] = seen[q]
  BY DEF Close, Released, Typed, Reading
<1>2. CASE c /\ tx[r] # Empty
  BY <1>1, <1>2 DEF Close, Released
<1>3. CASE ~(c /\ tx[r] # Empty)
  <2>1. fresh' = fresh
    BY <1>3 DEF Close, Released
  <2>2. rows' = rows
    <3>1. CASE ~c
      BY <3>1 DEF Close, Released
    <3>2. CASE tx[r] = Empty
      <4>1. \A k \in Keys : Current(r, k) = rows[k]
        BY <3>2, Literals DEF Current
      <4>2. rows = [k \in Keys |-> rows[k]]
        BY DEF Typed, Writing
      <4>3. rows' = [k \in Keys |-> Current(r, k)] \/ rows' = rows
        BY DEF Close, Released
      <4>4. QED
        BY <4>1, <4>2, <4>3
    <3>3. QED
      BY <1>3, <3>1, <3>2
  <2>3. QED
    BY <1>1, <2>1, <2>2
<1>4. QED
  BY <1>2, <1>3

\* Every step but the two that read preferences is one of them.
LEMMA ApartSteps ==
    ASSUME Typed, NEW r \in Requests
    PROVE  /\ \A o \in Menu[r] :
                Begin(r, o) \/ Refuse(r, o) \/ ChangeTrip(r, o) \/ Lookup(r, o) => Apart(r)
           /\ Step(r) \/ Crash(r) => Apart(r) \/ ReadUserRows(r) \/ ReadOverrides(r)
<1>1. ASSUME NEW how, NEW c \in BOOLEAN, End(r, how, c) PROVE Apart(r)
  BY <1>1, ClosedRows DEF End, Apart, Typed, Progress
<1>2. ASSUME NEW step \in {"replying", "caching"}, Proceed(r, step) PROVE Apart(r)
  BY <1>2, ClosedRows DEF Proceed, Apart, Typed, Progress
<1>3. ASSUME NEW o \in Menu[r], Begin(r, o) PROVE Apart(r)
  <2>1. PICK step \in {"interpreting", "reading", "working", "deleting"} :
          pc' = [pc EXCEPT ![r] = step]
    BY <1>3 DEF Begin
  <2>2. UNCHANGED <<rows, fresh, seen>>
    BY <1>3 DEF Begin
  <2>3. QED
    BY <2>1, <2>2 DEF Apart, Typed, Progress
<1>4. ASSUME NEW o \in Menu[r], Refuse(r, o) \/ ChangeTrip(r, o) \/ Lookup(r, o) PROVE Apart(r)
  BY <1>1, <1>4 DEF Refuse, ChangeTrip, Lookup
<1>5. ASSUME \/ LoseTrip(r) \/ FailStatement(r) \/ FailProfile(r) \/ BreakDeadlock(r)
             \/ FailToInterpret(r) \/ Crash(r) \/ Cache(r) \/ Reply(r)
      PROVE  Apart(r)
  BY <1>1, <1>5 DEF LoseTrip, FailStatement, FailProfile, BreakDeadlock, FailToInterpret, Crash,
     Cache, Reply
<1>6. ASSUME Commit(r) \/ Recommend(r) \/ AnswerAtOnce(r) PROVE Apart(r)
  BY <1>1, <1>2, <1>6 DEF Commit, Recommend, AnswerAtOnce
<1>7. ASSUME ReadTripRows(r) \/ Recheck(r) \/ Find(r) \/ Interpret(r) PROVE Apart(r)
  BY <1>7 DEF ReadTripRows, Recheck, Find, Interpret, Apart, Typed, Progress, others
<1>8. ASSUME Delete(r) \/ Write(r) PROVE Apart(r)
  BY <1>8 DEF Delete, Write, Unwritten, Apart, Typed, Progress, others
<1>9. QED
  BY <1>3, <1>4, <1>5, <1>6, <1>7, <1>8 DEF Step

\* Such a step disturbs no reading that counts.
LEMMA ApartKeeps ==
    ASSUME Typed, Snapshots, NEW r \in Requests, Apart(r)
    PROVE  Snapshots'
<1>1. fresh' \in [Requests -> BOOLEAN]
  BY DEF Apart, Snapshots
<1>2. ASSUME NEW q \in Requests PROVE HasRead(q)'
  <2>1. CASE fresh' = [p \in Requests |-> FALSE]
    BY <2>1 DEF HasRead
  <2>2. CASE rows' = rows /\ fresh' = fresh /\ q # r
    BY <2>2 DEF HasRead, Apart, Snapshots, OwedToUser, Owed
  <2>3. CASE q = r
    BY <2>3 DEF HasRead, Apart
  <2>4. QED
    BY <2>1, <2>2, <2>3 DEF Apart
<1>3. QED
  BY <1>1, <1>2 DEF Snapshots

\* What list_effective selects is the user's row.
LEMMA SelectsOwed ==
    ASSUME NEW order \in SetToSeqs(UserTables), NEW a \in Attrs
    PROVE  Selected(order, a) = OwedToUser(a)
  BY UserTablesOrder DEF Selected, Kept, OwedToUser

\* The two reads.
LEMMA ReadsKeep ==
    ASSUME Typed, Snapshots, NEW r \in Requests, ReadUserRows(r) \/ ReadOverrides(r)
    PROVE  Snapshots'
<1>1. CASE ReadUserRows(r)
  <2>1. PICK order \in SetToSeqs(UserTables) :
          seen' = [seen EXCEPT ![r] = [a \in Attrs |-> Preference(Selected(order, a))]]
    BY <1>1 DEF ReadUserRows
  <2>2. /\ fresh' = [fresh EXCEPT ![r] = TRUE] /\ pc' = [pc EXCEPT ![r] = "merging"]
        /\ rows' = rows
    BY <1>1 DEF ReadUserRows
  <2>3. \A a \in Attrs : seen'[r][a] = Preference(OwedToUser(a))
    BY <2>1, SelectsOwed DEF Typed, Reading
  <2>4. HasRead(r)'
    BY <2>2, <2>3 DEF HasRead, OwedToUser, Typed, Progress
  <2>5. ASSUME NEW q \in Requests \ {r} PROVE HasRead(q)'
    <3>1. pc'[q] = pc[q] /\ seen'[q] = seen[q] /\ fresh'[q] = fresh[q]
      BY <2>1, <2>2 DEF Typed, Progress, Reading, Snapshots
    <3>2. QED
      BY <2>2, <3>1 DEF HasRead, Snapshots, OwedToUser, Owed
  <2>6. QED
    BY <2>2, <2>4, <2>5 DEF Snapshots
<1>2. CASE ReadOverrides(r)
  <2>1. /\ fresh' = fresh /\ pc' = [pc EXCEPT ![r] = "ranking"] /\ rows' = rows
        /\ pc[r] = "merging"
    BY <1>2 DEF ReadOverrides
  <2>2. /\ \A a \in Attrs : seen'[r][a] = IF rows[<<"TRIP", a>>] # NoRow
                                          THEN Preference(rows[<<"TRIP", a>>]) ELSE seen[r][a]
        /\ \A q \in Requests \ {r} : seen'[q] = seen[q]
    BY <1>2 DEF ReadOverrides, Typed, Reading
  <2>3. HasRead(r)'
    <3>1. fresh[r] => \A a \in Attrs : seen[r][a] = Preference(OwedToUser(a))
      BY <2>1 DEF Snapshots, HasRead
    <3>2. fresh[r] => \A a \in Attrs : seen'[r][a] = Preference(Owed(a))
      BY <2>2, <3>1 DEF OwedToUser, Owed
    <3>3. QED
      BY <2>1, <3>2 DEF HasRead, Owed, Typed, Progress
  <2>4. ASSUME NEW q \in Requests \ {r} PROVE HasRead(q)'
    <3>1. pc'[q] = pc[q] /\ seen'[q] = seen[q] /\ fresh'[q] = fresh[q]
      BY <2>1, <2>2 DEF Typed, Progress
    <3>2. QED
      BY <2>1, <3>1 DEF HasRead, Snapshots, OwedToUser, Owed
  <2>5. QED
    BY <2>1, <2>3, <2>4 DEF Snapshots
<1>3. QED
  BY <1>1, <1>2

\* A ranking that no commit disturbed used for each attribute the trip's row,
\* else the manual one, else the profile's, and silenced those of weight 0
\* (list_effective, build_effective_preferences, create), whatever else ran.
THEOREM SnapshotsAreHonest == Spec => SnapshotIsHonest
<1> DEFINE Honest ==
        \A r \in Requests :
          runs'[r] # runs[r] /\ fresh[r] =>
            \A a \in Attrs :
              runs'[r].used[a] = IF Owed(a).weight = 0 THEN Unused ELSE Preference(Owed(a))
<1>1. Init => Snapshots
  BY DEF Init, Snapshots, HasRead
<1>2. Typed /\ Snapshots /\ [Next]_vars => Snapshots'
  <2> SUFFICES ASSUME Typed, Snapshots, [Next]_vars PROVE Snapshots'
    OBVIOUS
  <2>1. CASE UNCHANGED vars
    BY <2>1 DEF vars, Snapshots, HasRead, OwedToUser, Owed
  <2>2. CASE Next
    BY <2>2, ApartSteps, ApartKeeps, ReadsKeep DEF Next
  <2>3. QED
    BY <2>1, <2>2
<1>3. Typed /\ Snapshots /\ [Next]_vars => [Honest]_vars
  <2> SUFFICES ASSUME Typed, Snapshots, Next, NEW r \in Requests, runs'[r] # runs[r], fresh[r],
                      NEW a \in Attrs
               PROVE  runs'[r].used[a] =
                        IF Owed(a).weight = 0 THEN Unused ELSE Preference(Owed(a))
    OBVIOUS
  <2>1. Recommend(r)
    BY RunsChange
  <2>2. runs'[r].used = Used(r)
    BY <2>1 DEF Recommend, Typed, Public
  <2>3. seen[r][a] = Preference(Owed(a))
    BY <2>1 DEF Recommend, Snapshots, HasRead
  <2>4. Owed(a).weight \in Nat /\ Preference(Owed(a)).weight = Owed(a).weight
    <3>1. Preference(Owed(a)) \in Pref
      BY <2>3 DEF Typed, Reading
    <3>2. Preference(Owed(a)).weight \in 0 .. 300
      BY <3>1 DEF Pref, FullScore
    <3>3. QED
      BY <3>2 DEF Preference
  <2>5. QED
    BY <2>2, <2>3, <2>4 DEF Used
<1>4. QED
  BY InitTyped, StepTyped, <1>1, <1>2, <1>3, PTL DEF Spec, SnapshotIsHonest

-----------------------------------------------------------------------------
(* Replacements are whole                                                  *)

\* The requests that empty their table first, whose DELETE has found its rows.
Replacing == {"replace_manual", "replace_trip", "UPDATE_TRIP_PREFERENCE"}
KeyOn(r, a) == <<TableOf(r), a>>

\* A request has met those that run, until its last transaction is over.
Engaged == Stages \ {"idle", "replying", "caching", "done"}
Met ==
    /\ met \in [Requests -> SUBSET Requests]
    /\ \A r, q \in Requests :
         r # q /\ pc[r] \in Engaged /\ pc[q] \notin {"idle", "done"} => q \in met[r]

\* A row keeps the identity of the one it updates; the others are the writer's.
Identities ==
    \A r \in Requests : \A k \in DOMAIN tx[r] :
        \/ tx[r][k] = NoRow \/ tx[r][k].by = r
        \/ rows[k] # NoRow /\ tx[r][k].by = rows[k].by

\* What a request at work has deleted and written: the last item of an
\* attribute, and nothing else in its table.
Wrote(r) ==
    pc[r] = "working" =>
      /\ doomed[r] # <<>> => written[r] = 0
      /\ \A n \in 1 .. written[r] :
           (\A m \in 1 .. written[r] : m > n => payload[r][m].attr # payload[r][n].attr) =>
             LET k == KeyOn(r, payload[r][n].attr)
             IN  /\ k \in DOMAIN tx[r] /\ tx[r][k] # NoRow
                 /\ Preference(tx[r][k]) = Preference(payload[r][n])
      /\ \A a \in Attrs : KeyOn(r, a) \in DOMAIN tx[r] =>
           tx[r][KeyOn(r, a)] = NoRow \/ \E n \in 1 .. written[r] : payload[r][n].attr = a

\* A row of the table that is replaced is new, or is deleted or will be.
Covered(r) ==
    pc[r] = "working" /\ op[r].kind \in Replacing =>
      \A a \in Attrs :
        LET k == KeyOn(r, a)
        IN  rows[k] # NoRow =>
              \/ rows[k].by \in met[r] \/ k \in DOMAIN tx[r]
              \/ \E n \in DOMAIN doomed[r] : doomed[r][n].key = k /\ doomed[r][n].by = rows[k].by

\* The inductive strengthening of ReplaceIsWhole.
Replacements == Met /\ Identities /\ \A r \in Requests : Wrote(r) /\ Covered(r)

\* A step of another request, for q: it goes on meeting those it has met.
Elsewhere(q) ==
    /\ pc'[q] = pc[q] /\ op'[q] = op[q] /\ outcome'[q] = outcome[q]
    /\ payload'[q] = payload[q] /\ written'[q] = written[q] /\ doomed'[q] = doomed[q]
    /\ tx'[q] = tx[q] /\ met[q] \subseteq met'[q]

\* What a step may be for the tables: a request begins, goes about, or ends a
\* transaction; Find, Delete and Write are the others.
Runs == {q \in Requests : pc[q] \notin {"idle", "done"}}
Starts(r) ==
    /\ pc[r] = "idle" /\ pc'[r] \in {"interpreting", "reading", "working", "deleting"}
    /\ pc'[r] = "working" => op'[r].kind \notin Replacing
    /\ met' = [q \in Requests |-> IF q = r THEN Runs
                                  ELSE IF q \in Runs THEN met[q] \cup {r} ELSE met[q]]
    /\ UNCHANGED <<rows, written, doomed, tx>>
Wanders(r) ==
    /\ pc[r] \in Engaged \ {"working"} /\ pc'[r] \in Engaged \ {"working"}
    /\ UNCHANGED <<rows, written, doomed, tx, met>>
Closes(r) ==
    /\ \E c \in BOOLEAN : Close(r, c)
    /\ pc'[r] \in {"replying", "caching", "done"}
    /\ pc'[r] # "done" => pc[r] \notin {"idle", "done"}

\* Every step is one of these, and elsewhere for the other requests.
LEMMA Shapes ==
    ASSUME Typed, Met, NEW r \in Requests
    PROVE  /\ \A o \in Menu[r] : Begin(r, o) \/ Refuse(r, o) \/ ChangeTrip(r, o) \/ Lookup(r, o) =>
                /\ Starts(r) \/ Closes(r)
                /\ \A q \in Requests \ {r} : Elsewhere(q)
           /\ Step(r) \/ Crash(r) =>
                /\ Find(r) \/ Delete(r) \/ Write(r) \/ Wanders(r) \/ Closes(r)
                /\ \A q \in Requests \ {r} : Elsewhere(q)
<1> DEFINE Alone == \A q \in Requests \ {r} : Elsewhere(q)
<1> USE DEF Typed, Progress, Writing, Met
<1>1. ASSUME NEW c \in BOOLEAN, Close(r, c)
      PROVE  \A q \in Requests \ {r} :
               /\ payload'[q] = payload[q] /\ written'[q] = written[q] /\ doomed'[q] = doomed[q]
               /\ tx'[q] = tx[q] /\ met[q] \subseteq met'[q]
  BY <1>1 DEF Close, Released
<1>2. ASSUME NEW how, NEW c \in BOOLEAN, End(r, how, c) PROVE Closes(r) /\ Alone
  <2>1. Close(r, c) /\ pc'[r] = "done"
    BY <1>2 DEF End
  <2>2. \A q \in Requests \ {r} : pc'[q] = pc[q] /\ op'[q] = op[q] /\ outcome'[q] = outcome[q]
    BY <1>2 DEF End
  <2>3. QED
    BY <1>1, <2>1, <2>2 DEF Closes, Elsewhere
<1>3. ASSUME NEW step \in {"replying", "caching"}, Proceed(r, step),
             pc[r] \notin {"idle", "done"}
      PROVE  Closes(r) /\ Alone
  <2>1. Close(r, TRUE) /\ pc'[r] = step
    BY <1>3 DEF Proceed
  <2>2. \A q \in Requests \ {r} : pc'[q] = pc[q] /\ op'[q] = op[q] /\ outcome'[q] = outcome[q]
    BY <1>3 DEF Proceed
  <2>3. QED
    BY <1>1, <1>3, <2>1, <2>2 DEF Closes, Elsewhere
<1>4. ASSUME NEW o \in Menu[r], Begin(r, o) PROVE Starts(r) /\ Alone
  <2>1. /\ pc[r] = "idle" /\ op'[r] = o /\ UNCHANGED <<rows, written, doomed, tx, outcome>>
        /\ \A q \in Requests \ {r} : pc'[q] = pc[q] /\ op'[q] = op[q] /\ payload'[q] = payload[q]
    BY <1>4 DEF Begin
  <2>2. met' = [q \in Requests |-> IF q = r THEN Runs
                                   ELSE IF q \in Runs THEN met[q] \cup {r} ELSE met[q]]
    BY <1>4 DEF Begin, Runs
  <2>3. /\ pc'[r] \in {"interpreting", "reading", "working", "deleting"}
        /\ pc'[r] = "working" => o.kind \in {"upsert_manual", "adaptive_complete"}
    BY <1>4 DEF Begin
  <2>4. Starts(r)
    BY <2>1, <2>2, <2>3 DEF Starts, Replacing
  <2>5. Alone
    BY <2>1, <2>2 DEF Elsewhere
  <2>6. QED
    BY <2>4, <2>5
<1>5. ASSUME NEW o \in Menu[r], Refuse(r, o) \/ ChangeTrip(r, o) \/ Lookup(r, o)
      PROVE  Closes(r) /\ Alone
  BY <1>2, <1>5 DEF Refuse, ChangeTrip, Lookup
<1>6. ASSUME \/ LoseTrip(r) \/ FailStatement(r) \/ FailProfile(r) \/ BreakDeadlock(r)
             \/ FailToInterpret(r) \/ Crash(r) \/ Cache(r) \/ Reply(r)
      PROVE  Closes(r) /\ Alone
  BY <1>2, <1>6 DEF LoseTrip, FailStatement, FailProfile, BreakDeadlock, FailToInterpret, Crash,
     Cache, Reply
<1>7. ASSUME Commit(r) \/ Recommend(r) \/ AnswerAtOnce(r) PROVE Closes(r) /\ Alone
  BY <1>2, <1>3, <1>7 DEF Commit, Recommend, AnswerAtOnce
<1>8. ASSUME ReadTripRows(r) PROVE Wanders(r) /\ Alone
  <2>1. /\ pc[r] = "reading" /\ pc'[r] = "checking"
        /\ \A q \in Requests \ {r} : pc'[q] = pc[q] /\ payload'[q] = payload[q]
        /\ UNCHANGED <<rows, op, outcome, written, doomed, tx, met>>
    BY <1>8 DEF ReadTripRows
  <2>2. QED
    BY <2>1 DEF Wanders, Elsewhere, Engaged, Stages
<1>9. ASSUME Recheck(r) \/ Interpret(r) \/ ReadUserRows(r) \/ ReadOverrides(r)
      PROVE  Wanders(r) /\ Alone
  <2>1. /\ pc[r] \in {"checking", "interpreting", "reading", "merging"}
        /\ pc'[r] \in {"deleting", "reading", "merging", "ranking"}
        /\ \A q \in Requests \ {r} : pc'[q] = pc[q] /\ op'[q] = op[q]
        /\ UNCHANGED <<rows, payload, outcome, written, doomed, tx, met>>
    BY <1>9 DEF Recheck, Interpret, Becomes, ReadUserRows, ReadOverrides
  <2>2. QED
    BY <2>1 DEF Wanders, Elsewhere, Engaged, Stages
<1>10. ASSUME Find(r) \/ Delete(r) \/ Write(r) PROVE Alone
  <2>1. CASE Find(r)
    BY <2>1 DEF Find, Elsewhere
  <2>2. CASE Delete(r)
    BY <2>2 DEF Delete, Elsewhere
  <2>3. CASE Write(r)
    BY <2>3 DEF Write, Elsewhere
  <2>4. QED
    BY <1>10, <2>1, <2>2, <2>3
<1>11. QED
  BY <1>4, <1>5, <1>6, <1>7, <1>8, <1>9, <1>10 DEF Step

\* Requests go on meeting those that run.
LEMMA MetKept ==
    ASSUME Typed, Met, NEW r \in Requests, \A q \in Requests \ {r} : Elsewhere(q),
           Starts(r) \/ Wanders(r) \/ Find(r) \/ Delete(r) \/ Write(r) \/ Closes(r)
    PROVE  Met'
<1> USE DEF Typed, Progress, Met
<1>1. CASE Starts(r)
  <2>1. met' \in [Requests -> SUBSET Requests]
    BY <1>1 DEF Starts, Runs
  <2>2. ASSUME NEW p \in Requests, NEW q \in Requests, p # q, pc'[p] \in Engaged,
               pc'[q] \notin {"idle", "done"}
        PROVE  q \in met'[p]
    <3>1. CASE p = r
      BY <1>1, <2>2, <3>1 DEF Starts, Runs, Elsewhere
    <3>2. CASE q = r
      BY <1>1, <2>2, <3>2 DEF Starts, Runs, Elsewhere, Engaged, Stages
    <3>3. CASE p # r /\ q # r
      BY <2>2, <3>3 DEF Elsewhere
    <3>4. QED
      BY <3>1, <3>2, <3>3
  <2>3. QED
    BY <2>1, <2>2
<1>2. CASE Closes(r)
  <2>1. met' = [met EXCEPT ![r] = {}] /\ pc'[r] \notin Engaged
    BY <1>2 DEF Closes, Close, Released, Engaged
  <2>2. ASSUME NEW p \in Requests, NEW q \in Requests, p # q, pc'[p] \in Engaged,
               pc'[q] \notin {"idle", "done"}
        PROVE  q \in met'[p]
    BY <1>2, <2>1, <2>2 DEF Elsewhere, Closes
  <2>3. QED
    BY <2>1, <2>2
<1>3. CASE Wanders(r) \/ Find(r) \/ Delete(r) \/ Write(r)
  <2>1. met' = met /\ pc[r] \in Engaged /\ pc[r] \notin {"idle", "done"}
    BY <1>3 DEF Wanders, Find, Delete, Write, Unwritten, Engaged, Stages
  <2>2. QED
    BY <2>1 DEF Elsewhere
<1>4. QED
  BY <1>1, <1>2, <1>3

\* A row goes into the transaction, and what the transaction is then.
Writes(r, k, value) == tx' = [tx EXCEPT ![r] = Written(r, k, value)]

\* The row written is there, and the others are as they were.
LEMMA WrittenIs ==
    ASSUME Typed, NEW r \in Requests, NEW k, NEW value, Writes(r, k, value)
    PROVE  /\ DOMAIN tx'[r] = DOMAIN tx[r] \cup {k} /\ tx'[r][k] = value
           /\ \A l \in DOMAIN tx[r] : l # k => tx'[r][l] = tx[r][l]
  BY DEF Writes, Written, Typed, Writing

\* What Delete does: it removes the row it found, unless another took its place.
LEMMA DeleteDoes ==
    ASSUME Typed, NEW r \in Requests, Delete(r)
    PROVE  LET row == Head(doomed[r])
           IN  /\ doomed[r] \in Seq(Doomed) /\ doomed[r] # <<>> /\ row.key \in Keys
               /\ doomed'[r] = Tail(doomed[r])
               /\ UNCHANGED <<rows, op, pc, payload, written, met>>
               /\ \/ rows[row.key].by # row.by /\ tx' = tx
                  \/ Writes(r, row.key, NoRow)
<1>1. doomed[r] \in Seq(Doomed) /\ doomed[r] # <<>>
  BY DEF Delete, Typed, Writing
<1>2. Head(doomed[r]).key \in Keys
  <2>1. Head(doomed[r]) \in Doomed
    BY <1>1
  <2>2. QED
    BY <2>1 DEF Doomed
<1>3. doomed'[r] = Tail(doomed[r])
  BY DEF Delete, Typed, Writing
<1>4. QED
  BY <1>1, <1>2, <1>3 DEF Delete, Writes

\* What Write does: the next item is in its table, under the identity it had.
LEMMA WriteDoes ==
    ASSUME Typed, NEW r \in Requests, Write(r)
    PROVE  LET k == KeyOn(r, NextItem(r).attr)
               value == Stored(Current(r, k), r, NextItem(r))
           IN  /\ k \in Keys /\ k \in NextKey(r) /\ NextItem(r).attr \in Attrs
               /\ NextItem(r) \in PayItem /\ Current(r, k) \in Rows
               /\ value \in Row
               /\ value.by = IF Current(r, k) = NoRow THEN r ELSE Current(r, k).by
               /\ Preference(value) = Preference(NextItem(r))
               /\ Writes(r, k, value)
               /\ written[r] \in Nat /\ written[r] + 1 \in 1 .. Len(payload[r])
               /\ written'[r] = written[r] + 1 /\ doomed[r] = <<>> /\ WaitsFor(r) = {}
               /\ UNCHANGED <<rows, op, pc, payload, doomed, met>>
<1> DEFINE k == KeyOn(r, NextItem(r).attr)
           value == Stored(Current(r, k), r, NextItem(r))
<1>1. /\ pc[r] = "working" /\ written[r] < Len(payload[r])
      /\ doomed[r] = <<>> /\ NextItem(r).attr \in Attrs /\ WaitsFor(r) = {}
      /\ Writes(r, k, value)
      /\ written' = [written EXCEPT ![r] = written[r] + 1]
      /\ UNCHANGED <<rows, op, pc, payload, doomed, met>>
  BY DEF Write, Writes, Unwritten, Accepted, KeyOn
<1>2. payload[r] \in Seq(PayItem) /\ written \in [Requests -> Nat]
  BY DEF Typed, Writing
<1>3. written[r] + 1 \in 1 .. Len(payload[r])
  BY <1>1, <1>2
<1>4. NextItem(r) \in PayItem
  BY <1>2, <1>3 DEF NextItem
<1>5. k \in Keys
  BY <1>1 DEF KeyOn, Keys, Tables, TableOf
<1>6. k \in NextKey(r)
  BY <1>1 DEF KeyOn, NextKey, Unwritten
<1>7. Current(r, k) \in Rows
  BY <1>5, StatementType DEF Typed
<1>8. /\ value \in Row /\ value.by = IF Current(r, k) = NoRow THEN r ELSE Current(r, k).by
      /\ Preference(value) = Preference(NextItem(r))
  <2> HIDE DEF k
  <2>1. QED
    BY <1>4, <1>7, StoredType DEF Preference
<1> HIDE DEF k, value
<1>9. QED
  BY <1>1, <1>2, <1>3, <1>4, <1>5, <1>6, <1>7, <1>8 DEF k, value

\* What a committed transaction leaves in the tables, for the others.
LEMMA ClosedTables ==
    ASSUME Typed, NEW r \in Requests, Closes(r), NEW k \in Keys
    PROVE  /\ rows'[k] = rows[k] \/ (k \in DOMAIN tx[r] /\ rows'[k] = tx[r][k])
           /\ tx'[r] = Empty
<1>1. PICK c \in BOOLEAN : Close(r, c)
  BY DEF Closes
<1>2. rows' = [l \in Keys |-> Current(r, l)] \/ rows' = rows
  BY <1>1 DEF Close, Released
<1>3. tx'[r] = Empty
  BY <1>1 DEF Close, Released, Typed, Writing
<1>4. QED
  BY <1>2, <1>3 DEF Current

\* Rows keep their identities.
LEMMA IdentitiesKept ==
    ASSUME Typed, Identities, NEW r \in Requests, \A q \in Requests \ {r} : Elsewhere(q),
           Starts(r) \/ Wanders(r) \/ Find(r) \/ Delete(r) \/ Write(r) \/ Closes(r)
    PROVE  Identities'
<1> SUFFICES ASSUME NEW q \in Requests, NEW k \in DOMAIN tx'[q], tx'[q][k] # NoRow,
                    tx'[q][k].by # q
             PROVE  rows'[k] # NoRow /\ tx'[q][k].by = rows'[k].by
  BY DEF Identities
<1>1. CASE Starts(r) \/ Wanders(r) \/ Find(r)
  <2>1. tx' = tx /\ rows' = rows
    BY <1>1 DEF Starts, Wanders, Find
  <2>2. QED
    BY <2>1 DEF Identities
<1>2. CASE Closes(r)
  <2>1. CASE q = r
    <3>1. k \in DOMAIN Empty
      <4>1. \A l \in Keys : tx'[r] = Empty
        BY <1>2, ClosedTables
      <4>2. tx'[r] = Empty
        BY <1>2 DEF Closes, Close, Released, Typed, Writing
      <4>3. QED
        BY <2>1, <4>2
    <3>2. QED
      BY <3>1, Literals
  <2>2. CASE q # r
    <3>1. tx'[q] = tx[q] /\ k \in Keys /\ k \notin DOMAIN tx[r]
      BY <2>2, ChangeType DEF Elsewhere, Typed, Writing
    <3>2. rows'[k] = rows[k]
      BY <1>2, <3>1, ClosedTables
    <3>3. QED
      BY <3>1, <3>2 DEF Identities
  <2>3. QED
    BY <2>1, <2>2
<1>3. CASE Delete(r)
  <2>1. /\ rows' = rows
        /\ tx' = tx \/ Writes(r, Head(doomed[r]).key, NoRow)
    BY <1>3 DEF Delete, Writes
  <2>2. CASE q = r /\ tx' # tx
    <3>1. k # Head(doomed[r]).key /\ k \in DOMAIN tx[r] /\ tx'[r][k] = tx[r][k]
      BY <2>1, <2>2, WrittenIs
    <3>2. QED
      BY <2>1, <2>2, <3>1 DEF Identities
  <2>3. CASE q # r \/ tx' = tx
    <3>1. tx'[q] = tx[q]
      BY <2>3 DEF Elsewhere
    <3>2. QED
      BY <2>1, <3>1 DEF Identities
  <2>4. QED
    BY <2>2, <2>3
<1>4. CASE Write(r)
  <2> DEFINE key == KeyOn(r, NextItem(r).attr)
             old == Current(r, key)
             value == Stored(old, r, NextItem(r))
  <2>1. /\ rows' = rows /\ Writes(r, key, value)
        /\ value.by = IF old = NoRow THEN r ELSE old.by
    BY <1>4, WriteDoes
  <2> HIDE DEF key, value
  <2>2. CASE q = r
    <3>1. CASE k = key
      <4>1. tx'[r][k] = value
        BY <2>1, <3>1, WrittenIs
      <4>2. value.by = old.by /\ old # NoRow /\ old.by # r
        BY <2>1, <2>2, <4>1
      <4>3. CASE key \in DOMAIN tx[r]
        BY <2>1, <2>2, <3>1, <4>1, <4>2, <4>3 DEF Identities, Current
      <4>4. CASE key \notin DOMAIN tx[r]
        BY <2>1, <2>2, <3>1, <4>1, <4>2, <4>4 DEF Current
      <4>5. QED
        BY <4>3, <4>4
    <3>2. CASE k # key
      <4>1. k \in DOMAIN tx[r] /\ tx'[r][k] = tx[r][k]
        BY <2>1, <2>2, <3>2, WrittenIs
      <4>2. QED
        BY <2>1, <2>2, <4>1 DEF Identities
    <3>3. QED
      BY <3>1, <3>2
  <2>3. CASE q # r
    <3>1. tx'[q] = tx[q]
      BY <2>3 DEF Elsewhere
    <3>2. QED
      BY <2>1, <3>1 DEF Identities
  <2>4. QED
    BY <2>2, <2>3
<1>5. QED
  BY <1>1, <1>2, <1>3, <1>4

\* A request is not disturbed in what it writes.
LEMMA WroteElsewhere ==
    ASSUME NEW q \in Requests, Elsewhere(q), Wrote(q)
    PROVE  Wrote(q)'
  BY DEF Elsewhere, Wrote, KeyOn, TableOf

\* What a request has written is what it was asked.
LEMMA WroteKept ==
    ASSUME Typed, NEW r \in Requests, Wrote(r),
           Starts(r) \/ Wanders(r) \/ Find(r) \/ Delete(r) \/ Write(r) \/ Closes(r)
    PROVE  Wrote(r)'
<1>1. CASE Wanders(r) \/ Closes(r)
  BY <1>1 DEF Wanders, Closes, Wrote
<1>2. CASE Starts(r) \/ Find(r)
  <2>1. written[r] = 0 /\ tx[r] = Empty /\ written' = written /\ tx' = tx
    BY <1>2 DEF Starts, Find, Typed, Settled
  <2>2. written'[r] = 0 /\ DOMAIN tx'[r] = {}
    BY <2>1, Literals
  <2>3. QED
    BY <2>2 DEF Wrote
<1> DEFINE Latest(n, size) == \A m \in 1 .. size : m > n => payload[r][m].attr # payload[r][n].attr
<1>3. CASE Delete(r)
  <2> DEFINE row == Head(doomed[r])
  <2>1. /\ doomed[r] \in Seq(Doomed) /\ doomed[r] # <<>> /\ row.key \in Keys
        /\ UNCHANGED <<rows, op, pc, payload, written, met>>
        /\ tx' = tx \/ Writes(r, row.key, NoRow)
    BY <1>3, DeleteDoes
  <2> HIDE DEF row
  <2>2. pc[r] = "working" /\ written[r] = 0 /\ written'[r] = 0
    BY <1>3, <2>1 DEF Delete, Wrote
  <2>3. ASSUME NEW a \in Attrs, KeyOn(r, a) \in DOMAIN tx'[r]
        PROVE  tx'[r][KeyOn(r, a)] = NoRow
    <3>1. KeyOn(r, a) \in DOMAIN tx[r] => tx[r][KeyOn(r, a)] = NoRow
      BY <2>2 DEF Wrote
    <3>2. CASE tx' = tx
      BY <2>3, <3>1, <3>2
    <3>3. CASE Writes(r, row.key, NoRow)
      BY <2>3, <3>1, <3>3, WrittenIs
    <3>4. QED
      BY <2>1, <3>2, <3>3
  <2>4. \A a : KeyOn(r, a)' = KeyOn(r, a)
    BY <2>1 DEF KeyOn, TableOf
  <2>5. QED
    BY <2>2, <2>3, <2>4 DEF Wrote
<1>4. CASE Write(r)
  <2> DEFINE new == written[r] + 1
             key == KeyOn(r, NextItem(r).attr)
             value == Stored(Current(r, key), r, NextItem(r))
  <2>1. /\ NextItem(r).attr \in Attrs /\ value \in Row
        /\ Preference(value) = Preference(NextItem(r))
        /\ Writes(r, key, value)
        /\ written[r] \in Nat /\ written'[r] = new /\ doomed[r] = <<>> /\ doomed' = doomed
        /\ UNCHANGED <<op, pc, payload>>
    BY <1>4, WriteDoes
  <2>2. pc[r] = "working" /\ NextItem(r) = payload[r][new]
    BY <1>4 DEF Write, Unwritten, NextItem
  <2> HIDE DEF key, value
  <2>3. /\ DOMAIN tx'[r] = DOMAIN tx[r] \cup {key} /\ tx'[r][key] = value
        /\ \A l \in DOMAIN tx[r] : l # key => tx'[r][l] = tx[r][l]
    BY <2>1, WrittenIs
  <2>4. value # NoRow
    BY <2>1, Literals
  <2>5. ASSUME NEW n \in 1 .. new, Latest(n, new)
        PROVE  /\ KeyOn(r, payload[r][n].attr) \in DOMAIN tx'[r]
               /\ tx'[r][KeyOn(r, payload[r][n].attr)] # NoRow
               /\ Preference(tx'[r][KeyOn(r, payload[r][n].attr)]) = Preference(payload[r][n])
    <3>1. CASE n = new
      <4>1. KeyOn(r, payload[r][n].attr) = key
        BY <2>2, <3>1 DEF key
      <4>2. QED
        BY <2>1, <2>2, <2>3, <2>4, <3>1, <4>1
    <3>2. CASE n # new
      <4>1. n \in 1 .. written[r] /\ new \in 1 .. new /\ new > n
        BY <2>1, <3>2
      <4>2. Latest(n, written[r])
        BY <2>1, <2>5
      <4>3. payload[r][n].attr # NextItem(r).attr
        BY <2>2, <2>5, <4>1
      <4>4. KeyOn(r, payload[r][n].attr) # key
        BY <4>3 DEF key, KeyOn
      <4> DEFINE l == KeyOn(r, payload[r][n].attr)
      <4>5. l \in DOMAIN tx[r] /\ tx[r][l] # NoRow /\ Preference(tx[r][l]) = Preference(payload[r][n])
        BY <2>2, <4>1, <4>2 DEF Wrote
      <4> HIDE DEF l
      <4>6. l \in DOMAIN tx'[r] /\ tx'[r][l] = tx[r][l]
        BY <2>3, <4>4, <4>5 DEF l
      <4>7. QED
        BY <4>5, <4>6 DEF l
    <3>3. QED
      BY <3>1, <3>2
  <2>6. ASSUME NEW a \in Attrs, KeyOn(r, a) \in DOMAIN tx'[r]
        PROVE  tx'[r][KeyOn(r, a)] = NoRow \/ \E n \in 1 .. new : payload[r][n].attr = a
    <3>1. CASE a = NextItem(r).attr
      <4>1. new \in 1 .. new
        BY <2>1
      <4>2. QED
        BY <2>2, <3>1, <4>1
    <3>2. CASE a # NextItem(r).attr
      <4>1. KeyOn(r, a) # key
        BY <3>2 DEF key, KeyOn
      <4>2. KeyOn(r, a) \in DOMAIN tx[r] /\ tx'[r][KeyOn(r, a)] = tx[r][KeyOn(r, a)]
        BY <2>3, <2>6, <4>1
      <4>3. tx[r][KeyOn(r, a)] = NoRow \/ \E n \in 1 .. written[r] : payload[r][n].attr = a
        BY <2>2, <4>2 DEF Wrote
      <4>4. \A n \in 1 .. written[r] : n \in 1 .. new
        BY <2>1
      <4>5. QED
        BY <4>2, <4>3, <4>4
    <3>3. QED
      BY <3>1, <3>2
  <2>7. \A a : KeyOn(r, a)' = KeyOn(r, a)
    BY <2>1 DEF KeyOn, TableOf
  <2> HIDE DEF new
  <2>8. QED
    BY <2>1, <2>2, <2>5, <2>6, <2>7 DEF Wrote
<1>5. QED
  BY <1>1, <1>2, <1>3, <1>4

\* The statement that empties the table finds all its rows.
LEMMA FindFinds ==
    ASSUME Typed, NEW r \in Requests, Find(r), op[r].kind \in Replacing, NEW a \in Attrs,
           rows[KeyOn(r, a)] # NoRow
    PROVE  \E n \in DOMAIN doomed'[r] : /\ doomed'[r][n].key = KeyOn(r, a)
                                        /\ doomed'[r][n].by = rows[KeyOn(r, a)].by
<1> DEFINE row(k) == [key |-> k, by |-> rows[k].by]
           found == {row(k) : k \in Found(r)}
           f == [k \in Found(r) |-> row(k)]
<1>1. PICK order \in SetToSeqs(found) : doomed' = [doomed EXCEPT ![r] = order]
  BY DEF Find
<1>2. doomed'[r] = order
  BY <1>1 DEF Typed, Writing
<1>3. KeyOn(r, a) \in Found(r)
  BY DEF Found, KeyOn, Keys, Tables, TableOf, Replacing
<1>4. IsFiniteSet(found)
  <2>1. IsFiniteSet(Found(r))
    <3>1. Found(r) \in SUBSET Keys
      BY DEF Found
    <3>2. QED
      BY <3>1, KeysFinite, FS_Subset
  <2>2. f \in Surjection(Found(r), found)
    BY DEF Surjection
  <2> HIDE DEF f, found
  <2>3. QED
    BY <2>1, <2>2, FS_Surjection
<1>5. row(KeyOn(r, a)) \in found
  BY <1>3
<1>6. row(KeyOn(r, a)).key = KeyOn(r, a) /\ row(KeyOn(r, a)).by = rows[KeyOn(r, a)].by
  OBVIOUS
<1> HIDE DEF found, row
<1>7. \E n \in DOMAIN order : order[n] = row(KeyOn(r, a))
  BY <1>4, <1>5, AllListed
<1>8. QED
  BY <1>2, <1>6, <1>7

\* Another request's step leaves the rows that are to go covered.
LEMMA CoveredElsewhere ==
    ASSUME Typed, Met, Identities, NEW r \in Requests, NEW q \in Requests \ {r},
           Elsewhere(q), Covered(q),
           Starts(r) \/ Wanders(r) \/ Find(r) \/ Delete(r) \/ Write(r) \/ Closes(r)
    PROVE  Covered(q)'
<1>1. /\ pc'[q] = pc[q] /\ op'[q] = op[q] /\ doomed'[q] = doomed[q] /\ tx'[q] = tx[q]
      /\ \A p : p \in met[q] => p \in met'[q]
      /\ \A a : KeyOn(q, a)' = KeyOn(q, a)
  BY DEF Elsewhere, KeyOn, TableOf
<1> SUFFICES ASSUME pc[q] = "working", op[q].kind \in Replacing, NEW a \in Attrs,
                    rows'[KeyOn(q, a)] # NoRow
             PROVE  \/ rows'[KeyOn(q, a)].by \in met[q] \/ KeyOn(q, a) \in DOMAIN tx[q]
                    \/ \E n \in DOMAIN doomed[q] : /\ doomed[q][n].key = KeyOn(q, a)
                                                   /\ doomed[q][n].by = rows'[KeyOn(q, a)].by
  BY <1>1 DEF Covered
<1> DEFINE k == KeyOn(q, a)
<1>2. k \in Keys
  BY DEF KeyOn, Keys, Tables, TableOf
<1>3. rows[k] # NoRow => \/ rows[k].by \in met[q] \/ k \in DOMAIN tx[q]
                         \/ \E n \in DOMAIN doomed[q] : /\ doomed[q][n].key = k
                                                        /\ doomed[q][n].by = rows[k].by
  BY DEF Covered
<1> HIDE DEF k
<1>4. rows'[k] = rows[k] \/ (Closes(r) /\ k \in DOMAIN tx[r] /\ rows'[k] = tx[r][k])
  <2>1. CASE Closes(r)
    BY <1>2, <2>1, ClosedTables
  <2>2. CASE ~Closes(r)
    BY <2>2 DEF Starts, Wanders, Find, Delete, Write
  <2>3. QED
    BY <2>1, <2>2
<1>5. CASE rows'[k] = rows[k]
  BY <1>3, <1>5 DEF k
<1>6. CASE k \in DOMAIN tx[r] /\ rows'[k] = tx[r][k]
  <2>1. pc[r] = "working"
    BY <1>6, Literals DEF Typed, Settled
  <2>2. r \in met[q]
    BY <2>1 DEF Met, Engaged, Stages
  <2>3. k \notin DOMAIN tx[q]
    BY <1>6 DEF Typed, Writing
  <2>4. tx[r][k].by = r \/ (rows[k] # NoRow /\ tx[r][k].by = rows[k].by)
    BY <1>6 DEF Identities, k
  <2>5. QED
    BY <1>3, <1>6, <2>2, <2>3, <2>4 DEF k
<1>7. QED
  BY <1>4, <1>5, <1>6

\* A request's own steps leave the rows that are to go covered.
LEMMA CoveredKept ==
    ASSUME Typed, NEW r \in Requests, Wrote(r), Covered(r),
           Starts(r) \/ Wanders(r) \/ Find(r) \/ Delete(r) \/ Write(r) \/ Closes(r)
    PROVE  Covered(r)'
<1>1. CASE Starts(r) \/ Wanders(r) \/ Closes(r)
  BY <1>1 DEF Starts, Wanders, Closes, Covered
<1>2. CASE Find(r)
  <2>1. op' = op /\ rows' = rows /\ \A a : KeyOn(r, a)' = KeyOn(r, a)
    BY <1>2 DEF Find, KeyOn, TableOf
  <2>2. QED
    BY <1>2, <2>1, FindFinds DEF Covered
<1>3. CASE Delete(r) \/ Write(r)
  <2>1. /\ pc[r] = "working" /\ UNCHANGED <<rows, op, pc, met>>
        /\ \A a : KeyOn(r, a)' = KeyOn(r, a)
    BY <1>3 DEF Delete, Write, Unwritten, KeyOn, TableOf
  <2> SUFFICES ASSUME op[r].kind \in Replacing, NEW a \in Attrs, rows[KeyOn(r, a)] # NoRow,
                      rows[KeyOn(r, a)].by \notin met[r], KeyOn(r, a) \notin DOMAIN tx'[r]
               PROVE  \E n \in DOMAIN doomed'[r] :
                        /\ doomed'[r][n].key = KeyOn(r, a)
                        /\ doomed'[r][n].by = rows[KeyOn(r, a)].by
    BY <2>1 DEF Covered
  <2> DEFINE k == KeyOn(r, a)
  <2>2. k \notin DOMAIN tx[r] =>
          \E n \in DOMAIN doomed[r] : doomed[r][n].key = k /\ doomed[r][n].by = rows[k].by
    BY <2>1 DEF Covered
  <2> HIDE DEF k
  <2>3. CASE Write(r)
    <3>1. doomed[r] = <<>> /\ DOMAIN tx[r] \subseteq DOMAIN tx'[r]
      BY <2>3, WriteDoes, WrittenIs
    <3>2. QED
      BY <2>2, <3>1 DEF k
  <2>4. CASE Delete(r)
    <3> DEFINE row == Head(doomed[r])
    <3>1. /\ doomed[r] \in Seq(Doomed) /\ doomed[r] # <<>> /\ doomed'[r] = Tail(doomed[r])
          /\ \/ rows[row.key].by # row.by /\ tx' = tx
             \/ Writes(r, row.key, NoRow)
      BY <2>4, DeleteDoes
    <3>2. k \notin DOMAIN tx[r] /\ (rows[row.key].by # row.by \/ row.key # k)
      <4> HIDE DEF row
      <4>1. CASE tx' = tx /\ rows[row.key].by # row.by
        BY <4>1 DEF k
      <4>2. CASE Writes(r, row.key, NoRow)
        BY <4>2, WrittenIs DEF k
      <4>3. QED
        BY <3>1, <4>1, <4>2
    <3>3. PICK n \in DOMAIN doomed[r] : doomed[r][n].key = k /\ doomed[r][n].by = rows[k].by
      BY <2>2, <3>2
    <3>4. n # 1
      <4>1. row = doomed[r][1]
        BY <3>1
      <4>2. QED
        BY <3>2, <3>3, <4>1
    <3>5. n - 1 \in DOMAIN doomed'[r] /\ doomed'[r][n - 1] = doomed[r][n]
      BY <3>1, <3>3, <3>4
    <3>6. QED
      BY <3>3, <3>5 DEF k
  <2>5. QED
    BY <1>3, <2>3, <2>4
<1>4. QED
  BY <1>1, <1>2, <1>3

\* The initial states.
LEMMA InitReplacements == Init => Replacements
  BY Literals DEF Init, Replacements, Met, Identities, Wrote, Covered, Engaged

\* Every step keeps the strengthening.
LEMMA ReplacementsKept == Typed /\ Replacements /\ [Next]_vars => Replacements'
<1> SUFFICES ASSUME Typed, Replacements, [Next]_vars PROVE Replacements'
  OBVIOUS
<1>1. CASE UNCHANGED vars
  <2>1. /\ UNCHANGED <<rows, op, pc, outcome, payload, written, doomed, tx, met>>
        /\ \A r \in Requests : Elsewhere(r)
    BY <1>1 DEF vars, Elsewhere
  <2>2. Met' /\ Identities'
    BY <2>1 DEF Replacements, Met, Identities
  <2>3. \A r \in Requests : Wrote(r)'
    BY <2>1, WroteElsewhere DEF Replacements
  <2>4. \A r \in Requests : Covered(r)'
    BY <2>1 DEF Replacements, Covered, KeyOn, TableOf
  <2>5. QED
    BY <2>2, <2>3, <2>4 DEF Replacements
<1>2. CASE Next
  <2>1. PICK r \in Requests :
          /\ Starts(r) \/ Wanders(r) \/ Find(r) \/ Delete(r) \/ Write(r) \/ Closes(r)
          /\ \A q \in Requests \ {r} : Elsewhere(q)
    BY <1>2, Shapes DEF Next, Replacements
  <2>2. Met' /\ Identities'
    BY <2>1, MetKept, IdentitiesKept DEF Replacements
  <2>3. ASSUME NEW q \in Requests PROVE Wrote(q)' /\ Covered(q)'
    <3>1. CASE q = r
      BY <2>1, <3>1, WroteKept, CoveredKept DEF Replacements
    <3>2. CASE q # r
      BY <2>1, <3>2, WroteElsewhere, CoveredElsewhere DEF Replacements
    <3>3. QED
      BY <3>1, <3>2
  <2>4. QED
    BY <2>2, <2>3 DEF Replacements
<1>3. QED
  BY <1>1, <1>2

\* A request at work ends well, or goes on to reply, by its commit alone.
LEMMA CommitsOnly ==
    ASSUME Typed, Met, Next, NEW q \in Requests, pc[q] = "working",
           outcome'[q] = "ok" \/ pc'[q] = "replying"
    PROVE  doomed[q] = <<>> /\ written[q] = Len(payload[q]) /\ Close(q, TRUE)
<1>1. outcome[q] = "none"
  BY DEF Typed, Progress
<1>2. ASSUME Elsewhere(q) PROVE FALSE
  BY <1>1, <1>2 DEF Elsewhere
<1>3. ASSUME NEW how, NEW c \in BOOLEAN, End(q, how, c) PROVE how = "ok"
  BY <1>3 DEF End, Typed, Progress
<1>4. ASSUME NEW o \in Menu[q], Begin(q, o) \/ Refuse(q, o) \/ ChangeTrip(q, o) \/ Lookup(q, o)
      PROVE  FALSE
  BY <1>4 DEF Begin, Refuse, ChangeTrip, Lookup
<1>5. ASSUME \/ FailStatement(q) \/ FailProfile(q) \/ BreakDeadlock(q) \/ Crash(q)
      PROVE  FALSE
  BY <1>3, <1>5 DEF FailStatement, FailProfile, BreakDeadlock, Crash
<1>6. ASSUME Delete(q) \/ Write(q) PROVE FALSE
  BY <1>1, <1>6 DEF Delete, Write
<1>7. ASSUME Commit(q)
      PROVE  doomed[q] = <<>> /\ written[q] = Len(payload[q]) /\ Close(q, TRUE)
  <2>1. ~End(q, "refused", FALSE)
    BY <1>3
  <2>2. QED
    BY <1>7, <2>1 DEF Commit, End, Proceed
<1>8. ASSUME Step(q) PROVE Commit(q) \/ Delete(q) \/ Write(q) \/ FailStatement(q)
                           \/ FailProfile(q) \/ BreakDeadlock(q)
  BY <1>8 DEF Step, ReadTripRows, Recheck, LoseTrip, Find, ReadUserRows, ReadOverrides,
     Recommend, Cache, Interpret, AnswerAtOnce, FailToInterpret, Reply
<1>9. PICK r \in Requests :
        \/ \E o \in Menu[r] : Begin(r, o) \/ Refuse(r, o) \/ ChangeTrip(r, o) \/ Lookup(r, o)
        \/ Step(r) \/ Crash(r)
  BY DEF Next
<1>10. r = q
  BY <1>2, <1>9, Shapes
<1>11. QED
  BY <1>4, <1>5, <1>6, <1>7, <1>8, <1>9, <1>10

\* When a replacement, a chat's change or a profile commits, each attribute it
\* names has what it asked last, and a replacement leaves no other row of its
\* table than those of requests that ran meanwhile (replace_for_user, replace_
\* preferences, upsert_many), whatever deadlocks, crashes and interleavings.
THEOREM ReplacementsAreWhole == Spec => ReplaceIsWhole
<1> DEFINE Whole ==
        \A r \in Requests :
          pc[r] = "working" /\ (outcome'[r] = "ok" \/ pc'[r] = "replying")
          /\ op[r].kind \in {"replace_manual", "replace_trip", "UPDATE_TRIP_PREFERENCE",
                            "adaptive_complete"} =>
            LET asked == payload[r]
                named == {asked[n].attr : n \in DOMAIN asked}
                Row1(a) == rows'[<<TableOf(r), a>>]
            IN  /\ \A n \in DOMAIN asked :
                     (\A m \in DOMAIN asked : m > n => asked[m].attr # asked[n].attr) =>
                       LET row == Row1(asked[n].attr)
                       IN  /\ row # NoRow /\ row.weight = asked[n].weight
                           /\ row.minimum = asked[n].minimum
                           /\ row.mandatory = asked[n].mandatory
                /\ op[r].kind # "adaptive_complete" =>
                     \A a \in Attrs \ named : Row1(a) # NoRow => Row1(a).by \in met[r]
<1>2. Typed /\ Replacements /\ [Next]_vars => [Whole]_vars
  <2> SUFFICES ASSUME Typed, Replacements, Next, NEW r \in Requests, pc[r] = "working",
                      outcome'[r] = "ok" \/ pc'[r] = "replying",
                      op[r].kind \in Replacing \cup {"adaptive_complete"}
               PROVE  /\ \A n \in DOMAIN payload[r] :
                           (\A m \in DOMAIN payload[r] :
                              m > n => payload[r][m].attr # payload[r][n].attr) =>
                             /\ rows'[KeyOn(r, payload[r][n].attr)] # NoRow
                             /\ Preference(rows'[KeyOn(r, payload[r][n].attr)]) =
                                  Preference(payload[r][n])
                      /\ op[r].kind # "adaptive_complete" =>
                           \A a \in Attrs : /\ \A n \in DOMAIN payload[r] : payload[r][n].attr # a
                                            /\ rows'[KeyOn(r, a)] # NoRow
                                            => rows'[KeyOn(r, a)].by \in met[r]
    BY DEF Replacing, KeyOn, Preference
  <2>1. doomed[r] = <<>> /\ written[r] = Len(payload[r]) /\ Close(r, TRUE)
    BY CommitsOnly DEF Replacements
  <2>2. \A k \in Keys : rows'[k] = Current(r, k)
    BY <2>1 DEF Close, Released
  <2>3. DOMAIN payload[r] = 1 .. written[r]
    BY <2>1 DEF Typed, Writing
  <2>4. DOMAIN tx[r] \in SUBSET Keys
    BY ChangeType DEF Typed, Writing
  <2>5. Wrote(r) /\ Covered(r)
    BY DEF Replacements
  <2>6. ASSUME NEW n \in DOMAIN payload[r],
               \A m \in DOMAIN payload[r] : m > n => payload[r][m].attr # payload[r][n].attr
        PROVE  /\ rows'[KeyOn(r, payload[r][n].attr)] # NoRow
               /\ Preference(rows'[KeyOn(r, payload[r][n].attr)]) = Preference(payload[r][n])
    <3> DEFINE k == KeyOn(r, payload[r][n].attr)
    <3>1. k \in DOMAIN tx[r] /\ tx[r][k] # NoRow /\ Preference(tx[r][k]) = Preference(payload[r][n])
      BY <2>3, <2>5, <2>6 DEF Wrote
    <3> HIDE DEF k
    <3>2. rows'[k] = tx[r][k]
      BY <2>2, <2>4, <3>1 DEF Current
    <3>3. QED
      BY <3>1, <3>2 DEF k
  <2>7. ASSUME op[r].kind # "adaptive_complete", NEW a \in Attrs,
               \A n \in DOMAIN payload[r] : payload[r][n].attr # a, rows'[KeyOn(r, a)] # NoRow
        PROVE  rows'[KeyOn(r, a)].by \in met[r]
    <3>1. KeyOn(r, a) \in DOMAIN tx[r] => tx[r][KeyOn(r, a)] = NoRow
      BY <2>3, <2>5, <2>7 DEF Wrote
    <3>2. rows[KeyOn(r, a)] # NoRow =>
            rows[KeyOn(r, a)].by \in met[r] \/ KeyOn(r, a) \in DOMAIN tx[r]
      BY <2>1, <2>5, <2>7 DEF Covered
    <3>3. KeyOn(r, a) \in Keys
      BY DEF KeyOn, Keys, Tables, TableOf
    <3>4. QED
      BY <2>2, <2>7, <3>1, <3>2, <3>3 DEF Current
  <2>8. QED
    BY <2>6, <2>7
<1>3. QED
  BY InitTyped, StepTyped, InitReplacements, ReplacementsKept, <1>2, PTL DEF Spec, ReplaceIsWhole

-----------------------------------------------------------------------------
(* What is told is stored                                                  *)

\* The variables that are tables have an entry for every request.
Shape ==
    /\ DOMAIN runs = Requests /\ DOMAIN cache = Requests /\ DOMAIN served = Requests
    /\ DOMAIN op = Requests /\ DOMAIN pc = Requests
    /\ \A r \in Requests : "kind" \in DOMAIN op[r]
    /\ said \in Seq(Message)

\* The message of the user that opens a turn is committed.
Asked(r) == \E m \in DOMAIN said : said[m].role = "user" /\ said[m].by = r

\* Where a request with a turn, or with a run, can be.
AtTurn(r) ==
    /\ pc[r] = "interpreting" => op[r].kind = "chat"
    /\ pc[r] = "replying" => InChat(r)
    /\ InChat(r) => Asked(r)
    /\ op[r].kind = "RECOMMEND_HOTELS" => pc[r] \in {"reading", "merging", "ranking", "replying"}
    /\ op[r].kind = "RECOMMEND_HOTELS" /\ pc[r] = "replying" => runs[r] # NoRun
    /\ runs[r] # NoRun => pc[r] \in {"caching", "replying", "done"}

\* A cached run is the stored one, and an answered lookup told the stored one.
ToldOfRuns ==
    /\ \A r \in Requests : cache[r] # NoRun => cache[r] = runs[r]
    /\ \A r \in Requests : served[r] # NoRun =>
         runs[served[r].of] # NoRun /\ served[r].run = runs[served[r].of]

\* The reply n ends its turn.
Answers(n) ==
    /\ pc[said[n].by] = "done"
    /\ \E m \in 1 .. n - 1 : said[m].role = "user" /\ said[m].by = said[n].by
    /\ \A m \in DOMAIN said \ {n} : said[m].by = said[n].by => said[m].role = "user"
    /\ said[n].intent = "RECOMMEND_HOTELS" => runs[said[n].by] # NoRun
ToldOfTurns == \A n \in DOMAIN said : said[n].role = "assistant" => Answers(n)

\* The inductive strengthening of ToldIsStored.
Told ==
    /\ Shape
    /\ \A r \in Requests : AtTurn(r)
    /\ ToldOfRuns
    /\ ToldOfTurns

\* The initial states.
LEMMA InitTold == Init => Told
  BY DEF Init, Told, Shape, AtTurn, InChat, Intents, NoOp, ToldOfRuns, ToldOfTurns, Message

\* A stored run is not the absence of one.
LEMMA RunIsSome ==
    ASSUME NEW b, NEW p, NEW u, NEW t, NEW f, NEW l, NEW s
    PROVE  [by |-> b, place |-> p, used |-> u, type |-> t, floor |-> f, limit |-> l,
            results |-> s] # NoRun
<1> DEFINE run == [by |-> b, place |-> p, used |-> u, type |-> t, floor |-> f, limit |-> l,
                   results |-> s]
<1>1. "place" \in DOMAIN run
  OBVIOUS
<1>2. "place" \notin DOMAIN NoRun
  BY DEF NoRun
<1>3. QED
  BY <1>1, <1>2

\* A message is appended as it is, behind those that were there.
LEMMA Appended ==
    ASSUME said \in Seq(Message), NEW message \in Message, said' = Append(said, message)
    PROVE  /\ said' \in Seq(Message)
           /\ DOMAIN said = 1 .. Len(said) /\ Len(said) \in Nat
           /\ DOMAIN said' = DOMAIN said \cup {Len(said) + 1}
           /\ Len(said) + 1 \notin DOMAIN said
           /\ \A n \in DOMAIN said : said'[n] = said[n]
           /\ said'[Len(said) + 1] = message
  OBVIOUS

\* Every message is somebody's.
LEMMA SaidBy ==
    ASSUME said \in Seq(Message), NEW n \in DOMAIN said
    PROVE  said[n].by \in Requests /\ said[n].role \in {"user", "assistant"}
<1>1. said[n] \in Message
  OBVIOUS
<1>2. QED
  BY <1>1 DEF Message

\* The steps of the model, by what they do to turns and runs.  A request ends.
Ends(r) ==
    /\ pc' = [pc EXCEPT ![r] = "done"] /\ op' = [op EXCEPT ![r] = NoOp]
    /\ UNCHANGED <<runs, cache, said, served>>

\* It goes on, inside its turn or outside.
Goes(r) ==
    /\ op' = op /\ UNCHANGED <<runs, cache, said, served>>
    /\ pc[r] \notin {"idle", "caching", "replying", "done"}
    /\ \E s \in {"checking", "deleting", "working", "merging", "ranking", "replying"} :
         /\ DOMAIN pc' = Requests /\ pc'[r] = s
         /\ \A q \in Requests \ {r} : pc'[q] = pc[q]
         /\ s = "replying" => InChat(r) /\ op[r].kind # "RECOMMEND_HOTELS"
         /\ op[r].kind = "RECOMMEND_HOTELS" => s \in {"merging", "ranking"}

\* Every step but the six that write runs, messages, or what is asked.
LEMMA PlainSteps ==
    ASSUME Shape, \A r \in Requests : AtTurn(r), NEW r \in Requests
    PROVE  /\ \A o \in Menu[r] : Refuse(r, o) \/ ChangeTrip(r, o) => Ends(r)
           /\ (\/ LoseTrip(r) \/ FailStatement(r) \/ FailProfile(r) \/ BreakDeadlock(r)
               \/ FailToInterpret(r) \/ Crash(r)) => Ends(r)
           /\ (\/ ReadTripRows(r) \/ Recheck(r) \/ Find(r) \/ Delete(r) \/ Write(r)
               \/ ReadUserRows(r) \/ ReadOverrides(r) \/ AnswerAtOnce(r)) => Goes(r)
           /\ Commit(r) => Ends(r) \/ Goes(r)
<1>1. ASSUME NEW o \in Menu[r], Refuse(r, o) \/ ChangeTrip(r, o) PROVE Ends(r)
  BY <1>1 DEF Refuse, ChangeTrip, Ends, End, others
<1>2. ASSUME \/ LoseTrip(r) \/ FailStatement(r) \/ FailProfile(r) \/ BreakDeadlock(r)
             \/ FailToInterpret(r) \/ Crash(r)
      PROVE  Ends(r)
  BY <1>2 DEF LoseTrip, FailStatement, FailProfile, BreakDeadlock, FailToInterpret, Crash, Ends,
     End, others
<1>3. ASSUME ReadTripRows(r) \/ Recheck(r) \/ Find(r) PROVE Goes(r)
  BY <1>3 DEF ReadTripRows, Recheck, Find, Goes, others, Shape, AtTurn
<1>4. ASSUME Delete(r) \/ Write(r) PROVE Goes(r)
  <2>1. pc[r] = "working" /\ pc' = pc /\ op' = op /\ UNCHANGED <<runs, cache, said, served>>
    BY <1>4 DEF Delete, Write, Unwritten, others
  <2>2. QED
    BY <2>1 DEF Goes, AtTurn, Shape
<1>5. ASSUME ReadUserRows(r) \/ ReadOverrides(r) PROVE Goes(r)
  BY <1>5 DEF ReadUserRows, ReadOverrides, Goes, others, Shape, AtTurn
<1>6. ASSUME AnswerAtOnce(r) PROVE Goes(r)
  BY <1>6 DEF AnswerAtOnce, Proceed, Goes, others, AtTurn, InChat, Shape
<1>7. ASSUME Commit(r) PROVE Ends(r) \/ Goes(r)
  <2>1. pc[r] = "working" /\ op[r].kind # "RECOMMEND_HOTELS" /\ UNCHANGED <<runs, cache, said, served>>
    BY <1>7 DEF Commit, AtTurn
  <2>2. \/ End(r, "refused", FALSE) \/ End(r, "ok", TRUE)
        \/ InChat(r) /\ Proceed(r, "replying")
    BY <1>7 DEF Commit
  <2>3. CASE InChat(r) /\ Proceed(r, "replying")
    BY <2>1, <2>3 DEF Proceed, Goes, Shape
  <2>4. QED
    BY <2>1, <2>2, <2>3 DEF End, Ends
<1>8. QED
  BY <1>1, <1>2, <1>3, <1>4, <1>5, <1>6, <1>7

\* What does not concern a turn keeps it where it is.
LEMMA TurnKept ==
    ASSUME NEW q \in Requests, AtTurn(q), pc'[q] = pc[q], op'[q] = op[q], runs'[q] = runs[q],
           Asked(q) => Asked(q)'
    PROVE  AtTurn(q)'
  BY DEF AtTurn, InChat

\* A turn stays asked.
LEMMA StaysAsked ==
    ASSUME said \in Seq(Message), NEW q \in Requests, Asked(q),
           said' = said \/ \E message \in Message : said' = Append(said, message)
    PROVE  Asked(q)'
<1>1. CASE said' = said
  BY <1>1 DEF Asked
<1>2. ASSUME NEW message \in Message, said' = Append(said, message) PROVE Asked(q)'
  BY <1>2, Appended DEF Asked
<1>3. QED
  BY <1>1, <1>2

\* An ended request leaves everything told as it was.
LEMMA EndsTold ==
    ASSUME Told, NEW r \in Requests, Ends(r)
    PROVE  Told'
<1>1. Shape'
  BY DEF Told, Shape, Ends, NoOp
<1>2. \A q \in Requests : AtTurn(q)'
  <2>1. ASSUME NEW q \in Requests \ {r} PROVE AtTurn(q)'
    BY TurnKept DEF Ends, Told, Shape, Asked
  <2>2. AtTurn(r)'
    BY DEF Ends, Told, Shape, AtTurn, InChat, NoOp, Intents
  <2>3. QED
    BY <2>1, <2>2
<1>3. ToldOfRuns'
  BY DEF Told, ToldOfRuns, Ends
<1>4. ToldOfTurns'
  BY DEF Told, ToldOfTurns, Answers, Ends, Shape
<1>5. QED
  BY <1>1, <1>2, <1>3, <1>4 DEF Told

\* So does one that goes on.
LEMMA GoesTold ==
    ASSUME Told, NEW r \in Requests, Goes(r)
    PROVE  Told'
<1>1. Shape'
  BY DEF Told, Shape, Goes
<1>2. \A q \in Requests : AtTurn(q)'
  <2>1. ASSUME NEW q \in Requests \ {r} PROVE AtTurn(q)'
    BY TurnKept DEF Goes, Told, Shape, Asked
  <2>2. AtTurn(r)'
    BY DEF Goes, Told, Shape, AtTurn, InChat, Intents, Asked
  <2>3. QED
    BY <2>1, <2>2
<1>3. ToldOfRuns'
  BY DEF Told, ToldOfRuns, Goes
<1>4. ToldOfTurns'
  <2>1. said' = said /\ runs' = runs /\ \A n \in DOMAIN said : said[n].by \in Requests
    BY SaidBy DEF Goes, Told, Shape
  <2>2. \A q \in Requests : pc[q] = "done" => pc'[q] = "done"
    <3>1. pc[r] # "done" /\ \A q \in Requests \ {r} : pc'[q] = pc[q]
      BY DEF Goes
    <3>2. QED
      BY <3>1
  <2>3. ASSUME NEW n \in DOMAIN said, said[n].role = "assistant" PROVE Answers(n)'
    <3>1. Answers(n)
      BY <2>3 DEF Told, ToldOfTurns
    <3>2. QED
      BY <2>1, <2>2, <3>1 DEF Answers
  <2>4. QED
    BY <2>1, <2>3 DEF ToldOfTurns
<1>5. QED
  BY <1>1, <1>2, <1>3, <1>4 DEF Told

\* A request begins: a chat turn commits the message that asks.
LEMMA BeginTold ==
    ASSUME Told, NEW r \in Requests, NEW o \in Menu[r], Begin(r, o)
    PROVE  Told'
<1>1. /\ pc[r] = "idle" /\ o.kind \in Kinds /\ "kind" \in DOMAIN o
      /\ op' = [op EXCEPT ![r] = o] /\ UNCHANGED <<runs, cache, served>>
      /\ pc'[r] \in {"interpreting", "reading", "working", "deleting"}
      /\ pc'[r] = "interpreting" <=> o.kind = "chat"
      /\ DOMAIN pc' = Requests /\ \A q \in Requests \ {r} : pc'[q] = pc[q]
  <2>1. o \in Op /\ o.kind \in Kinds
    BY Asking
  <2>2. "kind" \in DOMAIN o
    BY <2>1 DEF Op
  <2>3. pc[r] = "idle" /\ op' = [op EXCEPT ![r] = o] /\ UNCHANGED <<runs, cache, served>>
    BY DEF Begin
  <2>4. pc' = [pc EXCEPT ![r] =
                    CASE o.kind = "chat"                                   -> "interpreting"
                      [] o.kind = "recommend"                              -> "reading"
                      [] o.kind \in {"upsert_manual", "adaptive_complete"} -> "working"
                      [] OTHER                                             -> "deleting"]
    BY DEF Begin
  <2>5. QED
    BY <2>1, <2>2, <2>3, <2>4 DEF Told, Shape
<1>2. CASE o.kind = "chat"
  <2> DEFINE message == Says(r, "user")
  <2>1. message \in Message /\ message.by = r /\ message.role = "user"
    BY SaysType
  <2>2. said' = Append(said, message)
    BY <1>2 DEF Begin
  <2> HIDE DEF message
  <2>3. Asked(r)'
    BY <2>1, <2>2, Appended DEF Told, Shape, Asked
  <2>4. Shape'
    BY <1>1, <2>1, <2>2, Appended DEF Told, Shape
  <2>5. \A q \in Requests : AtTurn(q)'
    <3>1. ASSUME NEW q \in Requests \ {r} PROVE AtTurn(q)'
      <4>1. Asked(q) => Asked(q)'
        BY <2>1, <2>2, StaysAsked DEF Told, Shape
      <4>2. QED
        BY <1>1, <4>1, TurnKept DEF Told, Shape
    <3>2. AtTurn(r)'
      BY <1>1, <1>2, <2>3 DEF Told, Shape, AtTurn, InChat, Intents
    <3>3. QED
      BY <3>1, <3>2
  <2>6. ToldOfRuns'
    BY <1>1 DEF Told, ToldOfRuns
  <2>7. ToldOfTurns'
    <3>1. \A n \in DOMAIN said : said[n].by \in Requests
      BY SaidBy DEF Told, Shape
    <3>2. ASSUME NEW n \in DOMAIN said, said[n].role = "assistant"
          PROVE  Answers(n)'
      <4>1. /\ n \in Nat /\ \A m \in 1 .. n - 1 : m \in DOMAIN said
            /\ \A m \in DOMAIN said : said'[m] = said[m]
            /\ DOMAIN said' = DOMAIN said \cup {Len(said) + 1}
            /\ said'[Len(said) + 1] = message
        BY <2>1, <2>2, Appended DEF Told, Shape
      <4>2. Answers(n) /\ said[n].by # r
        <5>1. Answers(n)
          BY <3>2 DEF Told, ToldOfTurns
        <5>2. QED
          BY <1>1, <5>1 DEF Answers
      <4>3. pc'[said[n].by] = "done" /\ runs' = runs
        BY <1>1, <3>1, <4>2 DEF Answers
      <4>4. \A m \in DOMAIN said' \ {n} : said'[m].by = said'[n].by => said'[m].role = "user"
        BY <2>1, <4>1, <4>2 DEF Answers
      <4>5. QED
        BY <4>1, <4>2, <4>3, <4>4 DEF Answers
    <3>3. QED
      BY <2>1, <2>2, <3>2, Appended DEF ToldOfTurns, Told, Shape
  <2>8. QED
    BY <2>4, <2>5, <2>6, <2>7 DEF Told
<1>3. CASE o.kind # "chat"
  <2>1. said' = said
    BY <1>3 DEF Begin
  <2>2. Shape'
    BY <1>1, <2>1 DEF Told, Shape
  <2>3. \A q \in Requests : AtTurn(q)'
    <3>1. ASSUME NEW q \in Requests \ {r} PROVE AtTurn(q)'
      BY <1>1, <2>1, TurnKept DEF Told, Shape, Asked
    <3>2. AtTurn(r)'
      BY <1>1, <1>3, <2>1 DEF Told, Shape, AtTurn, InChat, Intents, Kinds, ManualKinds, TripKinds,
         RunKinds
    <3>3. QED
      BY <3>1, <3>2
  <2>4. ToldOfRuns'
    BY <1>1 DEF Told, ToldOfRuns
  <2>5. ToldOfTurns'
    <3>1. \A n \in DOMAIN said : said[n].by \in Requests
      BY SaidBy DEF Told, Shape
    <3>2. \A q \in Requests : pc[q] = "done" => pc'[q] = "done"
      BY <1>1
    <3>3. ASSUME NEW n \in DOMAIN said, said[n].role = "assistant" PROVE Answers(n)'
      <4>1. Answers(n)
        BY <3>3 DEF Told, ToldOfTurns
      <4>2. QED
        BY <1>1, <2>1, <3>1, <3>2, <4>1 DEF Answers
    <3>4. QED
      BY <2>1, <3>3 DEF ToldOfTurns
  <2>6. QED
    BY <2>2, <2>3, <2>4, <2>5 DEF Told
<1>4. QED
  BY <1>2, <1>3

\* A message turns out to ask for something.
LEMMA InterpretTold ==
    ASSUME Told, NEW r \in Requests, Interpret(r)
    PROVE  Told'
<1>1. /\ pc[r] = "interpreting" /\ op[r].kind = "chat" /\ UNCHANGED <<runs, cache, said, served>>
      /\ pc'[r] = "reading" /\ DOMAIN pc' = Requests /\ \A q \in Requests \ {r} : pc'[q] = pc[q]
  BY DEF Interpret, others, Told, Shape, AtTurn
<1>2. /\ DOMAIN op' = Requests /\ \A q \in Requests \ {r} : op'[q] = op[q]
      /\ "kind" \in DOMAIN op'[r] /\ op'[r].kind \in Intents
  BY DEF Interpret, Becomes, Told, Shape, Intents
<1>3. Shape'
  BY <1>1, <1>2 DEF Told, Shape
<1>4. \A q \in Requests : AtTurn(q)'
  <2>1. ASSUME NEW q \in Requests \ {r} PROVE AtTurn(q)'
    BY <1>1, <1>2, TurnKept DEF Told, Shape, Asked
  <2>2. Asked(r)'
    BY <1>1 DEF Told, AtTurn, InChat, Asked
  <2>3. AtTurn(r)'
    BY <1>1, <1>2, <2>2 DEF Told, Shape, AtTurn, InChat, Intents
  <2>4. QED
    BY <2>1, <2>3
<1>5. ToldOfRuns'
  BY <1>1 DEF Told, ToldOfRuns
<1>6. ToldOfTurns'
  <2>1. \A n \in DOMAIN said : said[n].by \in Requests
    BY SaidBy DEF Told, Shape
  <2>2. ASSUME NEW n \in DOMAIN said, said[n].role = "assistant" PROVE Answers(n)'
    BY <1>1, <2>1, <2>2 DEF Told, ToldOfTurns, Answers
  <2>3. QED
    BY <1>1, <2>2 DEF ToldOfTurns
<1>7. QED
  BY <1>3, <1>4, <1>5, <1>6 DEF Told

\* A ranking is stored where there was none.
LEMMA RecommendTold ==
    ASSUME Told, NEW r \in Requests, Recommend(r)
    PROVE  Told'
<1>1. /\ pc[r] = "ranking" /\ UNCHANGED <<cache, said, served, op>>
      /\ pc'[r] = IF InChat(r) THEN "replying" ELSE "caching"
      /\ DOMAIN pc' = Requests /\ \A q \in Requests \ {r} : pc'[q] = pc[q]
  BY DEF Recommend, Proceed, Told, Shape
<1>2. PICK run : run # NoRun /\ runs' = [runs EXCEPT ![r] = run]
  BY RunIsSome DEF Recommend
<1>3. /\ runs[r] = NoRun /\ runs'[r] # NoRun
      /\ DOMAIN runs' = Requests /\ \A q \in Requests \ {r} : runs'[q] = runs[q]
  BY <1>1, <1>2 DEF Told, Shape, AtTurn
<1>4. Shape'
  BY <1>1, <1>3 DEF Told, Shape
<1>5. \A q \in Requests : AtTurn(q)'
  <2>1. ASSUME NEW q \in Requests \ {r} PROVE AtTurn(q)'
    BY <1>1, <1>3, TurnKept DEF Told, Shape, Asked
  <2>2. Asked(r) => Asked(r)'
    BY <1>1 DEF Asked
  <2>3. AtTurn(r)'
    BY <1>1, <1>3, <2>2 DEF Told, AtTurn, InChat, Intents
  <2>4. QED
    BY <2>1, <2>3
<1>6. ToldOfRuns'
  <2>1. \A q \in Requests : cache[q] # NoRun => q # r
    BY <1>3 DEF Told, ToldOfRuns
  <2>2. \A q \in Requests : runs[q] # NoRun => runs'[q] = runs[q]
    BY <1>3
  <2>3. \A q \in DOMAIN served : served[q] # NoRun => runs'[served[q].of] = runs[served[q].of]
    <3>1. ASSUME NEW q \in DOMAIN served, served[q] # NoRun
          PROVE  runs'[served[q].of] = runs[served[q].of]
      <4>1. runs[served[q].of] # NoRun
        BY <3>1 DEF Told, ToldOfRuns, Shape
      <4>2. served[q].of # r
        BY <1>3, <4>1
      <4>3. QED
        BY <1>2, <4>2 DEF Told, Shape
    <3>2. QED
      BY <3>1
  <2>4. QED
    BY <1>1, <1>3, <2>1, <2>2, <2>3 DEF Told, ToldOfRuns, Shape
<1>7. ToldOfTurns'
  <2>1. ASSUME NEW n \in DOMAIN said, said[n].role = "assistant" PROVE Answers(n)'
    <3>1. Answers(n) /\ said[n].by \in Requests
      BY <2>1, SaidBy DEF Told, ToldOfTurns, Shape
    <3>2. said[n].by # r
      BY <1>1, <3>1 DEF Answers
    <3>3. QED
      BY <1>1, <1>3, <3>1, <3>2 DEF Answers
  <2>2. QED
    BY <1>1, <2>1 DEF ToldOfTurns
<1>8. QED
  BY <1>4, <1>5, <1>6, <1>7 DEF Told

\* The cache gets what is stored, or keeps what it had.
LEMMA CacheTold ==
    ASSUME Told, NEW r \in Requests, Cache(r)
    PROVE  Told'
<1>1. /\ UNCHANGED <<runs, said, served>>
      /\ pc' = [pc EXCEPT ![r] = "done"] /\ op' = [op EXCEPT ![r] = NoOp]
      /\ \/ cache' = [cache EXCEPT ![r] = cache[r]]
         \/ cache' = [cache EXCEPT ![r] = runs[r]]
  BY DEF Cache, End, Cached, CacheKey
<1>2. /\ DOMAIN cache' = Requests
      /\ \A q \in Requests : cache'[q] = cache[q] \/ cache'[q] = runs[q]
  BY <1>1 DEF Told, Shape
<1>3. Shape'
  BY <1>1, <1>2 DEF Told, Shape, NoOp
<1>4. \A q \in Requests : AtTurn(q)'
  <2>1. ASSUME NEW q \in Requests \ {r} PROVE AtTurn(q)'
    BY <1>1, TurnKept DEF Told, Shape, Asked
  <2>2. AtTurn(r)'
    BY <1>1 DEF Told, Shape, AtTurn, InChat, NoOp, Intents
  <2>3. QED
    BY <2>1, <2>2
<1>5. ToldOfRuns'
  BY <1>1, <1>2 DEF Told, ToldOfRuns
<1>6. ToldOfTurns'
  <2>1. ASSUME NEW n \in DOMAIN said, said[n].role = "assistant" PROVE Answers(n)'
    <3>1. Answers(n) /\ said[n].by \in Requests
      BY <2>1, SaidBy DEF Told, ToldOfTurns, Shape
    <3>2. QED
      BY <1>1, <3>1 DEF Answers, Told, Shape
  <2>2. QED
    BY <1>1, <2>1 DEF ToldOfTurns
<1>7. QED
  BY <1>3, <1>4, <1>5, <1>6 DEF Told

\* A lookup answers the cached run, or the stored one, which it may put back.
LEMMA LookupTold ==
    ASSUME Told, NEW r \in Requests, NEW o \in Menu[r], Lookup(r, o)
    PROVE  Told'
<1>1. o.of \in Requests
  <2>1. o \in Op
    BY Asking
  <2>2. QED
    BY <2>1 DEF Op
<1>2. /\ UNCHANGED <<runs, said>>
      /\ pc' = [pc EXCEPT ![r] = "done"] /\ op' = [op EXCEPT ![r] = NoOp]
  BY DEF Lookup, End
<1>3. PICK run : /\ served' = [served EXCEPT ![r] = [of |-> o.of, run |-> run]]
                 /\ run # NoRun /\ run = runs[o.of]
                 /\ \/ cache' = cache
                    \/ cache' = [cache EXCEPT ![o.of] = cache[o.of]]
                    \/ cache' = [cache EXCEPT ![o.of] = runs[o.of]]
  <2>1. CASE /\ cache[o.of] # NoRun
             /\ served' = [served EXCEPT ![r] = [of |-> o.of, run |-> cache[o.of]]]
             /\ UNCHANGED cache
    BY <1>1, <2>1 DEF Told, ToldOfRuns
  <2>2. CASE /\ ~Refused(o)
             /\ served' = [served EXCEPT ![r] = [of |-> o.of, run |-> runs[o.of]]]
             /\ Cached(o.of, runs[o.of])
    <3>1. runs[o.of] # NoRun
      BY <2>2 DEF Refused, Lookup
    <3>2. QED
      BY <2>2, <3>1 DEF Cached, CacheKey
  <2>3. QED
    BY <2>1, <2>2 DEF Lookup, CacheKey
<1>4. /\ DOMAIN cache' = Requests
      /\ \A q \in Requests : cache'[q] = cache[q] \/ cache'[q] = runs[q]
  BY <1>1, <1>3 DEF Told, Shape
<1>5. Shape'
  BY <1>2, <1>3, <1>4 DEF Told, Shape, NoOp
<1>6. \A q \in Requests : AtTurn(q)'
  <2>1. ASSUME NEW q \in Requests \ {r} PROVE AtTurn(q)'
    BY <1>2, TurnKept DEF Told, Shape, Asked
  <2>2. AtTurn(r)'
    BY <1>2 DEF Lookup, Told, Shape, AtTurn, InChat, NoOp, Intents
  <2>3. QED
    BY <2>1, <2>2
<1>7. ToldOfRuns'
  <2>1. \A q \in Requests : cache'[q] # NoRun => cache'[q] = runs'[q]
    BY <1>2, <1>4 DEF Told, ToldOfRuns
  <2>2. served'[r].of = o.of /\ served'[r].run = runs[o.of] /\ runs[o.of] # NoRun
    BY <1>3 DEF Told, Shape
  <2>3. \A q \in Requests \ {r} : served'[q] = served[q]
    BY <1>3 DEF Told, Shape
  <2>4. QED
    BY <1>2, <2>1, <2>2, <2>3 DEF Told, ToldOfRuns
<1>8. ToldOfTurns'
  <2>1. ASSUME NEW n \in DOMAIN said, said[n].role = "assistant" PROVE Answers(n)'
    <3>1. Answers(n) /\ said[n].by \in Requests
      BY <2>1, SaidBy DEF Told, ToldOfTurns, Shape
    <3>2. QED
      BY <1>2, <3>1 DEF Answers, Told, Shape
  <2>2. QED
    BY <1>2, <2>1 DEF ToldOfTurns
<1>9. QED
  BY <1>5, <1>6, <1>7, <1>8 DEF Told

\* The assistant's reply closes the turn that the user's message opened.
LEMMA ReplyTold ==
    ASSUME Told, NEW r \in Requests, Reply(r)
    PROVE  Told'
<1> DEFINE message == Says(r, "assistant")
<1>1. /\ message \in Message /\ message.by = r /\ message.role = "assistant"
      /\ message.intent = "RECOMMEND_HOTELS" => op[r].kind = "RECOMMEND_HOTELS"
  BY SaysType
<1>2. /\ pc[r] = "replying" /\ said' = Append(said, message) /\ UNCHANGED <<runs, cache, served>>
      /\ pc' = [pc EXCEPT ![r] = "done"] /\ op' = [op EXCEPT ![r] = NoOp]
  BY DEF Reply, End
<1> HIDE DEF message
<1>3. /\ said' \in Seq(Message)
      /\ DOMAIN said = 1 .. Len(said) /\ Len(said) \in Nat
      /\ DOMAIN said' = DOMAIN said \cup {Len(said) + 1}
      /\ Len(said) + 1 \notin DOMAIN said
      /\ \A n \in DOMAIN said : said'[n] = said[n]
      /\ said'[Len(said) + 1] = message
  BY <1>1, <1>2, Appended DEF Told, Shape
<1>4. Shape'
  BY <1>2, <1>3 DEF Told, Shape, NoOp
<1>5. \A q \in Requests : AtTurn(q)'
  <2>1. ASSUME NEW q \in Requests \ {r} PROVE AtTurn(q)'
    <3>1. Asked(q) => Asked(q)'
      BY <1>1, <1>2, StaysAsked DEF Told, Shape
    <3>2. QED
      BY <1>2, <3>1, TurnKept DEF Told, Shape
  <2>2. AtTurn(r)'
    BY <1>2 DEF Told, Shape, AtTurn, InChat, NoOp, Intents
  <2>3. QED
    BY <2>1, <2>2
<1>6. ToldOfRuns'
  BY <1>2 DEF Told, ToldOfRuns
<1>7. \A n \in DOMAIN said : said[n].by = r => said[n].role = "user"
  <2>1. ASSUME NEW n \in DOMAIN said, said[n].by = r, said[n].role = "assistant" PROVE FALSE
    <3>1. Answers(n)
      BY <2>1 DEF Told, ToldOfTurns
    <3>2. QED
      BY <1>2, <2>1, <3>1 DEF Answers
  <2>2. QED
    BY <2>1, SaidBy DEF Told, Shape
<1>8. ToldOfTurns'
  <2>1. ASSUME NEW n \in DOMAIN said, said[n].role = "assistant" PROVE Answers(n)'
    <3>1. Answers(n) /\ said[n].by \in Requests
      BY <2>1, SaidBy DEF Told, ToldOfTurns, Shape
    <3>2. said[n].by # r /\ pc'[said[n].by] = "done"
      BY <1>2, <1>7, <2>1, <3>1 DEF Answers, Told, Shape
    <3>3. \A m \in DOMAIN said' \ {n} : said'[m].by = said'[n].by => said'[m].role = "user"
      BY <1>1, <1>3, <3>1, <3>2 DEF Answers
    <3>4. \A m \in 1 .. n - 1 : m \in DOMAIN said
      BY <1>3
    <3>5. QED
      BY <1>2, <1>3, <3>1, <3>2, <3>3, <3>4 DEF Answers
  <2>2. ASSUME NEW n, n = Len(said) + 1 PROVE Answers(n)'
    <3>1. InChat(r) /\ Asked(r)
      BY <1>2 DEF Told, AtTurn
    <3>2. op[r].kind = "RECOMMEND_HOTELS" => runs[r] # NoRun
      BY <1>2 DEF Told, AtTurn
    <3>3. pc'[r] = "done"
      BY <1>2 DEF Told, Shape
    <3>4. \E m \in 1 .. Len(said) : said'[m].role = "user" /\ said'[m].by = r
      BY <1>3, <3>1 DEF Asked
    <3>5. (Len(said) + 1) - 1 = Len(said)
      BY <1>3
    <3>6. \A m \in DOMAIN said' \ {Len(said) + 1} : said'[m].by = r => said'[m].role = "user"
      BY <1>3, <1>7
    <3>7. QED
      BY <1>1, <1>2, <1>3, <2>2, <3>2, <3>3, <3>4, <3>5, <3>6 DEF Answers
  <2>3. QED
    BY <1>3, <2>1, <2>2 DEF ToldOfTurns
<1>9. QED
  BY <1>4, <1>5, <1>6, <1>8 DEF Told

\* Every step keeps what was told true.
LEMMA StepTold == Told /\ [Next]_vars => Told'
<1> SUFFICES ASSUME Told, [Next]_vars PROVE Told'
  OBVIOUS
<1>1. CASE UNCHANGED vars
  BY <1>1 DEF vars, others, Told, Shape, AtTurn, InChat, Asked, ToldOfRuns, ToldOfTurns, Answers
<1>2. ASSUME NEW r \in Requests, NEW o \in Menu[r],
             Begin(r, o) \/ Refuse(r, o) \/ ChangeTrip(r, o) \/ Lookup(r, o)
      PROVE  Told'
  BY <1>2, BeginTold, LookupTold, PlainSteps, EndsTold DEF Told
<1>3. ASSUME NEW r \in Requests, Step(r) \/ Crash(r) PROVE Told'
  <2>1. CASE Ends(r) \/ Goes(r)
    BY <2>1, EndsTold, GoesTold
  <2>2. CASE Interpret(r) \/ Recommend(r) \/ Cache(r) \/ Reply(r)
    BY <2>2, InterpretTold, RecommendTold, CacheTold, ReplyTold
  <2>3. Shape /\ \A q \in Requests : AtTurn(q)
    BY DEF Told
  <2>4. CASE \/ LoseTrip(r) \/ FailStatement(r) \/ FailProfile(r) \/ BreakDeadlock(r)
             \/ FailToInterpret(r) \/ Crash(r) \/ Commit(r)
    BY <2>1, <2>3, <2>4, PlainSteps
  <2>5. CASE \/ ReadTripRows(r) \/ Recheck(r) \/ Find(r) \/ Delete(r) \/ Write(r)
             \/ ReadUserRows(r) \/ ReadOverrides(r) \/ AnswerAtOnce(r)
    BY <2>1, <2>3, <2>5, PlainSteps
  <2>6. QED
    BY <1>3, <2>2, <2>4, <2>5 DEF Step
<1>4. QED
  BY <1>1, <1>2, <1>3 DEF Next

\* A turn that changes the trip's preferences has something to change until it
\* has changed it.
Updates(r) == op[r].kind = "UPDATE_TRIP_PREFERENCE"
AtUpdate(r) ==
    Updates(r) =>
      /\ pc[r] \in {"reading", "checking", "deleting", "working", "replying"}
      /\ pc[r] \in {"checking", "deleting", "working"} => payload[r] # <<>>
      /\ pc[r] = "replying" => r \in applied
Announced ==
    \A n \in DOMAIN said :
        said[n].role = "assistant" /\ said[n].intent = "UPDATE_TRIP_PREFERENCE" =>
          said[n].by \in applied

\* With Typed, Replacements and Told, the inductive strengthening of the part of
\* ToldIsStored that is about preferences.
Applied == (\A r \in Requests : AtUpdate(r)) /\ Announced

\* What was committed stays so.
LEMMA AppliedGrows == ASSUME [Next]_vars PROVE applied \subseteq applied'
<1>1. ASSUME NEW r, NEW c \in BOOLEAN, Close(r, c) PROVE applied \subseteq applied'
  BY <1>1 DEF Close
<1>2. ASSUME NEW r, NEW how, NEW c \in BOOLEAN, End(r, how, c) PROVE applied \subseteq applied'
  BY <1>1, <1>2 DEF End
<1>3. ASSUME NEW r, NEW step, Proceed(r, step) PROVE applied \subseteq applied'
  BY <1>1, <1>3 DEF Proceed
<1>4. ASSUME NEW r \in Requests, NEW o \in Menu[r],
             Begin(r, o) \/ Refuse(r, o) \/ ChangeTrip(r, o) \/ Lookup(r, o)
      PROVE  applied \subseteq applied'
  BY <1>2, <1>4 DEF Begin, Refuse, ChangeTrip, Lookup
<1>5. ASSUME NEW r \in Requests,
             \/ ReadTripRows(r) \/ Recheck(r) \/ Find(r) \/ Delete(r) \/ Write(r)
             \/ ReadUserRows(r) \/ ReadOverrides(r) \/ Interpret(r)
      PROVE  applied \subseteq applied'
  BY <1>5 DEF ReadTripRows, Recheck, Find, Delete, Write, ReadUserRows, ReadOverrides, Interpret
<1>6. ASSUME NEW r \in Requests,
             \/ LoseTrip(r) \/ FailStatement(r) \/ FailProfile(r) \/ BreakDeadlock(r)
             \/ Cache(r) \/ FailToInterpret(r) \/ Reply(r) \/ Crash(r)
      PROVE  applied \subseteq applied'
  BY <1>2, <1>6 DEF LoseTrip, FailStatement, FailProfile, BreakDeadlock, Cache, FailToInterpret,
     Reply, Crash
<1>7. ASSUME NEW r \in Requests, Commit(r) \/ Recommend(r) \/ AnswerAtOnce(r)
      PROVE  applied \subseteq applied'
  BY <1>2, <1>3, <1>7 DEF Commit, Recommend, AnswerAtOnce
<1>8. CASE UNCHANGED vars
  BY <1>8 DEF vars
<1>9. QED
  BY <1>4, <1>5, <1>6, <1>7, <1>8 DEF Next, Step

\* The change of a turn is committed before its reply: by then it has written
\* the last of its items.
LEMMA UpdateCommitted ==
    ASSUME Typed, NEW r \in Requests, Wrote(r), Commit(r), payload[r] # <<>>, Close(r, TRUE)
    PROVE  r \in applied'
<1>1. pc[r] = "working" /\ written[r] = Len(payload[r])
  BY DEF Commit
<1>2. written[r] \in 1 .. written[r]
  <2>1. payload[r] \in Seq(PayItem)
    BY DEF Typed, Writing
  <2>2. QED
    BY <1>1, <2>1
<1>3. KeyOn(r, payload[r][written[r]].attr) \in DOMAIN tx[r]
  BY <1>1, <1>2 DEF Wrote
<1>4. tx[r] # Empty
  BY <1>3, Literals
<1>5. QED
  BY <1>4 DEF Close

\* Among the trip's rows the chat puts the one it changes.
LEMMA SomethingToChange ==
    ASSUME Typed, NEW r \in Requests, ReadTripRows(r)
    PROVE  payload'[r] # <<>>
<1> DEFINE found == {a \in Attrs : rows[<<"TRIP", a>>] # NoRow}
           new == op[r].items[1]
           attrs(order) == IF new.attr \in ToSet(order) THEN order ELSE Append(order, new.attr)
           Merged(a) == LET row == rows[<<"TRIP", a>>]
                        IN  IF a = new.attr THEN new
                            ELSE [attr |-> a, weight |-> row.weight,
                                  minimum |-> row.minimum, mandatory |-> row.mandatory]
           items(order) == [n \in DOMAIN attrs(order) |-> Merged(attrs(order)[n])]
<1>1. PICK order \in SetToSeqs(found) : payload' = [payload EXCEPT ![r] = items(order)]
  BY DEF ReadTripRows
<1>2. order \in Seq(found)
  <2>1. IsFiniteSet(found)
    BY KeysFinite, FS_Subset
  <2>2. QED
    BY <2>1, AllListed
<1> HIDE DEF found, new, Merged
<1>3. DOMAIN attrs(order) # {}
  <2>1. CASE new.attr \in ToSet(order)
    BY <2>1 DEF ToSet
  <2>2. CASE new.attr \notin ToSet(order)
    <3>1. order \in Seq(found \cup {new.attr})
      BY <1>2
    <3>2. Append(order, new.attr) \in Seq(found \cup {new.attr}) /\ Len(order) \in Nat
          /\ Len(Append(order, new.attr)) = Len(order) + 1
      BY <3>1
    <3>3. 1 \in DOMAIN Append(order, new.attr)
      BY <3>2
    <3>4. QED
      BY <2>2, <3>3
  <2>3. QED
    BY <2>1, <2>2
<1> HIDE DEF attrs
<1>4. DOMAIN items(order) # {}
  BY <1>3
<1>5. payload'[r] = items(order)
  BY <1>1 DEF Typed, Writing
<1> HIDE DEF items
<1>6. QED
  BY <1>4, <1>5

\* An ended request asks for nothing.
LEMMA EndedUpdate ==
    ASSUME Typed, NEW r \in Requests, NEW how, NEW c \in BOOLEAN, End(r, how, c)
    PROVE  AtUpdate(r)'
<1>1. op'[r] = NoOp
  BY DEF End, Typed, Progress
<1>2. QED
  BY <1>1 DEF AtUpdate, Updates, NoOp

\* The step of a request keeps its own turn where it should be.
LEMMA OwnUpdateKept ==
    ASSUME Typed, NEW r \in Requests, Wrote(r), AtUpdate(r), Step(r) \/ Crash(r)
    PROVE  AtUpdate(r)'
<1> USE DEF AtUpdate, Updates
<1>1. CASE \/ LoseTrip(r) \/ FailStatement(r) \/ FailProfile(r) \/ BreakDeadlock(r)
           \/ Cache(r) \/ FailToInterpret(r) \/ Reply(r) \/ Crash(r)
  BY <1>1, EndedUpdate DEF LoseTrip, FailStatement, FailProfile, BreakDeadlock, Cache,
     FailToInterpret, Reply, Crash
<1>2. CASE ReadTripRows(r)
  <2>1. pc'[r] = "checking"
    BY <1>2 DEF ReadTripRows, Typed, Progress
  <2>2. QED
    BY <1>2, <2>1, SomethingToChange
<1>3. CASE Recheck(r)
  BY <1>3 DEF Recheck, Typed, Progress
<1>4. CASE Find(r)
  <2>1. pc[r] = "deleting" /\ pc'[r] = "working" /\ op' = op
    BY <1>4 DEF Find, Typed, Progress
  <2>2. op[r].kind # "delete_manual" => payload'[r] = payload[r]
    BY <1>4 DEF Find, Typed, Writing
  <2>3. QED
    BY <2>1, <2>2
<1>5. CASE Delete(r) \/ Write(r)
  BY <1>5 DEF Delete, Write, Unwritten
<1>6. CASE Interpret(r)
  BY <1>6 DEF Interpret, Typed, Progress
<1>7. CASE ReadUserRows(r)
  BY <1>7 DEF ReadUserRows
<1>8. CASE ReadOverrides(r)
  BY <1>8 DEF ReadOverrides
<1>9. CASE Recommend(r) \/ AnswerAtOnce(r)
  BY <1>9 DEF Recommend, AnswerAtOnce, Proceed
<1>10. CASE Commit(r)
  <2>1. \/ End(r, "refused", FALSE) \/ End(r, "ok", TRUE)
        \/ Proceed(r, "replying")
    BY <1>10 DEF Commit
  <2>2. CASE Proceed(r, "replying")
    <3>1. pc[r] = "working" /\ Close(r, TRUE) /\ op' = op /\ pc'[r] = "replying"
      BY <1>10, <2>2 DEF Commit, Proceed, Typed, Progress
    <3>2. ASSUME Updates(r) PROVE r \in applied'
      BY <1>10, <3>1, <3>2, UpdateCommitted
    <3>3. QED
      BY <3>1, <3>2
  <2>3. QED
    BY <2>1, <2>2, EndedUpdate
<1>11. QED
  BY <1>1, <1>2, <1>3, <1>4, <1>5, <1>6, <1>7, <1>8, <1>9, <1>10 DEF Step

\* What is said of changed preferences stays true, and becomes said when it is.
LEMMA AnnouncedKept ==
    ASSUME Typed, \A r \in Requests : AtUpdate(r), Announced, [Next]_vars
    PROVE  Announced'
<1>1. applied \subseteq applied'
  BY AppliedGrows
<1>2. CASE said' = said
  BY <1>1, <1>2 DEF Announced
<1>3. ASSUME NEW message \in Message, said' = Append(said, message),
             message.role = "assistant" /\ message.intent = "UPDATE_TRIP_PREFERENCE" =>
               message.by \in applied
      PROVE  Announced'
  <2>1. said \in Seq(Message)
    BY DEF Typed, Public
  <2>2. QED
    BY <1>1, <1>3, <2>1, Appended DEF Announced
<1>4. ASSUME NEW r \in Requests, NEW o \in Menu[r], Begin(r, o) PROVE Announced'
  <2>1. Says(r, "user") \in Message /\ Says(r, "user").role = "user"
    BY SaysType
  <2>2. said' = said \/ said' = Append(said, Says(r, "user"))
    BY <1>4 DEF Begin
  <2>3. QED
    BY <1>2, <1>3, <2>1, <2>2
<1>5. ASSUME NEW r \in Requests, Reply(r) PROVE Announced'
  <2>1. /\ Says(r, "assistant") \in Message /\ Says(r, "assistant").by = r
        /\ Says(r, "assistant").intent = IF op[r].kind \in Intents THEN op[r].kind ELSE "none"
    BY SaysType
  <2>2. said' = Append(said, Says(r, "assistant")) /\ pc[r] = "replying"
    BY <1>5 DEF Reply
  <2>3. op[r].kind = "UPDATE_TRIP_PREFERENCE" => r \in applied
    BY <2>2 DEF AtUpdate, Updates
  <2>4. QED
    BY <1>3, <2>1, <2>2, <2>3
<1>6. ASSUME NEW r \in Requests, NEW o \in Menu[r],
             Refuse(r, o) \/ ChangeTrip(r, o) \/ Lookup(r, o)
      PROVE  said' = said
  BY <1>6 DEF Refuse, ChangeTrip, Lookup, others
<1>7. ASSUME NEW r \in Requests, Step(r) \/ Crash(r), ~Reply(r) PROVE said' = said
  BY <1>7 DEF Step, ReadTripRows, Recheck, LoseTrip, Find, Delete, Write, Commit,
     FailStatement, FailProfile, BreakDeadlock, ReadUserRows, ReadOverrides, Recommend, Cache,
     Interpret, AnswerAtOnce, FailToInterpret, Crash, others
<1>8. CASE UNCHANGED vars
  BY <1>2, <1>8 DEF vars, others
<1>9. QED
  BY <1>2, <1>4, <1>5, <1>6, <1>7, <1>8 DEF Next

\* Every step keeps the turns that change preferences.
LEMMA AppliedKept == Typed /\ Replacements /\ Applied /\ [Next]_vars => Applied'
<1> SUFFICES ASSUME Typed, Replacements, Applied, [Next]_vars PROVE Applied'
  OBVIOUS
<1>1. Announced'
  BY AnnouncedKept DEF Applied
<1>2. \A q \in Requests : AtUpdate(q)'
  <2>1. applied \subseteq applied'
    BY AppliedGrows
  <2>2. ASSUME NEW q \in Requests, Elsewhere(q) PROVE AtUpdate(q)'
    BY <2>1, <2>2 DEF Applied, AtUpdate, Updates, Elsewhere
  <2>3. ASSUME NEW r \in Requests, NEW o \in Menu[r],
               Begin(r, o) \/ Refuse(r, o) \/ ChangeTrip(r, o) \/ Lookup(r, o)
        PROVE  \A q \in Requests : AtUpdate(q)'
    <3>1. AtUpdate(r)'
      <4>1. CASE Begin(r, o)
        <5>1. op'[r] = o /\ o.kind \in Kinds
          BY <4>1, Asking DEF Begin, Typed, Progress
        <5>2. QED
          BY <5>1 DEF AtUpdate, Updates, Kinds, ManualKinds, TripKinds, RunKinds
      <4>2. CASE Refuse(r, o) \/ ChangeTrip(r, o) \/ Lookup(r, o)
        BY <4>2, EndedUpdate DEF Refuse, ChangeTrip, Lookup
      <4>3. QED
        BY <2>3, <4>1, <4>2
    <3>2. \A q \in Requests \ {r} : Elsewhere(q)
      BY <2>3, Shapes DEF Replacements
    <3>3. QED
      BY <2>2, <3>1, <3>2
  <2>4. ASSUME NEW r \in Requests, Step(r) \/ Crash(r) PROVE \A q \in Requests : AtUpdate(q)'
    <3>1. AtUpdate(r)'
      BY <2>4, OwnUpdateKept DEF Applied, Replacements
    <3>2. \A q \in Requests \ {r} : Elsewhere(q)
      BY <2>4, Shapes DEF Replacements
    <3>3. QED
      BY <2>2, <3>1, <3>2
  <2>5. CASE UNCHANGED vars
    BY <2>5 DEF vars, Applied, AtUpdate, Updates
  <2>6. QED
    BY <2>3, <2>4, <2>5 DEF Next
<1>3. QED
  BY <1>1, <1>2 DEF Applied

\* A lookup answers the run it was asked for as it was committed, and a reply
\* of the assistant closes the turn of one message and announces no ranking and
\* no changed preference that is not committed, for any requests and menus, interleavings, deadlocks,
\* failures and crashes (RecommendationService.get, ChatOrchestrator.handle).
THEOREM WhatIsToldIsStored == Spec => []ToldIsStored
<1>1. Told /\ Applied => ToldIsStored
  BY SaidBy DEF Told, ToldOfRuns, ToldOfTurns, Answers, Applied, Announced, ToldIsStored
<1>2. Init => Applied
  BY DEF Init, Applied, AtUpdate, Updates, NoOp, Announced
<1>3. QED
  BY InitTyped, StepTyped, InitReplacements, ReplacementsKept, AppliedKept, InitTold, StepTold,
     <1>1, <1>2, PTL DEF Spec
-----------------------------------------------------------------------------
(* Requests go on                                                          *)

\* A request waits for a key that another wrote, in no cycle of waits.
Waits(r) == pc[r] = "working" /\ WaitsFor(r) # {} /\ ~Deadlocked(r)

\* The statements and calls between a request and its end, and how a step brings it
\* nearer: to a later one, or past a row to delete or an item to write.
StepsLeft(s) ==
    CASE s = "interpreting"             -> 6
      [] s = "reading"                  -> 5
      [] s = "checking"                 -> 4
      [] s \in {"deleting", "merging"}  -> 3
      [] s \in {"working", "ranking"}   -> 2
      [] s \in {"caching", "replying"}  -> 1
      [] OTHER                          -> 0
Nearer(r) ==
    \/ StepsLeft(pc'[r]) < StepsLeft(pc[r])
    \/ /\ pc'[r] = pc[r] /\ payload'[r] = payload[r]
       /\ \/ Len(doomed'[r]) < Len(doomed[r]) /\ written'[r] = written[r]
          \/ /\ doomed'[r] = doomed[r]
             /\ written[r] < written'[r] /\ written'[r] <= Len(payload[r])
Unmoved(r) ==
    /\ pc'[r] = pc[r] /\ payload'[r] = payload[r]
    /\ doomed'[r] = doomed[r] /\ written'[r] = written[r]

\* What is left at each step.
LEMMA StepsInOrder ==
    /\ \A s \in Stages : StepsLeft(s) \in 0 .. 6
    /\ \A s \in Stages : s \notin {"idle", "done"} => StepsLeft(s) >= 1
    /\ StepsLeft("interpreting") = 6 /\ StepsLeft("reading") = 5 /\ StepsLeft("checking") = 4
    /\ StepsLeft("deleting") = 3 /\ StepsLeft("merging") = 3
    /\ StepsLeft("working") = 2 /\ StepsLeft("ranking") = 2
    /\ StepsLeft("caching") = 1 /\ StepsLeft("replying") = 1 /\ StepsLeft("done") = 0
  BY DEF StepsLeft, Stages

\* Who waits for a request waits for one that runs and has written something; if all
\* that run waited, finitely many would wait for each other, and some in cycles.
LEMMA OneRuns == Typed /\ Runs # {} => \E r \in Runs : ~Waits(r)
<1> SUFFICES ASSUME Typed, Runs # {}, \A r \in Runs : Waits(r) PROVE FALSE
  OBVIOUS
<1> DEFINE E == {e \in Requests \X Requests : e[2] \in WaitsFor(e[1])}
<1>1. \A r, q \in Requests : <<r, q>> \in E <=> q \in WaitsFor(r)
  OBVIOUS
<1>2. Runs \in SUBSET Requests /\ IsFiniteSet(Runs)
  BY PreferencesAssumption, FS_Subset DEF Runs
<1>3. ASSUME NEW r \in Runs PROVE \E q \in Runs : <<r, q>> \in E
  <2>1. PICK q \in WaitsFor(r) : TRUE
    BY <1>3 DEF Waits
  <2>2. q \in Requests /\ DOMAIN tx[q] # {}
    BY <2>1 DEF WaitsFor
  <2>3. pc[q] = "working"
    BY <2>2, Literals DEF Typed, Settled
  <2>4. q \in Runs
    BY <2>2, <2>3 DEF Runs
  <2> HIDE DEF E
  <2>5. QED
    BY <1>1, <1>2, <2>1, <2>2, <2>4
<1> HIDE DEF E
<1>4. PICK S \in SUBSET Runs :
         /\ S # {}
         /\ \A q \in S : (\E p \in S : <<q, p>> \in E) /\ (\E p \in S : <<p, q>> \in E)
  BY <1>2, <1>3, Knot
<1>5. PICK r : r \in S
  BY <1>4
<1>6. Deadlocked(r)
  <2>1. \A q \in S : WaitsFor(q) \cap S # {} /\ \E p \in S : q \in WaitsFor(p)
    BY <1>1, <1>2, <1>4
  <2>2. S \in SUBSET Requests
    BY <1>2, <1>4
  <2>3. QED
    BY <1>5, <2>1, <2>2 DEF Deadlocked
<1>7. QED
  BY <1>4, <1>5, <1>6 DEF Waits

\* A step of a request brings it nearer to its end.
LEMMA StepNearer ==
    ASSUME Typed, NEW r \in Requests, Step(r)
    PROVE  Nearer(r)
<1>1. pc \in [Requests -> Stages] /\ pc[r] \in Stages
  BY DEF Typed, Progress
<1>2. ASSUME NEW s \in Stages, pc' = [pc EXCEPT ![r] = s], StepsLeft(s) < StepsLeft(pc[r])
      PROVE  Nearer(r)
  BY <1>1, <1>2 DEF Nearer
<1>3. ASSUME NEW how, NEW c, End(r, how, c), pc[r] \notin {"idle", "done"} PROVE Nearer(r)
  <2>1. pc' = [pc EXCEPT ![r] = "done"] /\ "done" \in Stages
    BY <1>3 DEF End, Stages
  <2>2. StepsLeft("done") < StepsLeft(pc[r])
    BY <1>1, <1>3, StepsInOrder
  <2>3. QED
    BY <1>2, <2>1, <2>2
<1>4. ASSUME NEW s \in {"caching", "replying"}, Proceed(r, s),
             pc[r] \in {"interpreting", "working", "ranking"}
      PROVE  Nearer(r)
  <2>1. pc' = [pc EXCEPT ![r] = s] /\ s \in Stages
    BY <1>4 DEF Proceed, Stages
  <2>2. StepsLeft(s) < StepsLeft(pc[r])
    BY <1>4, StepsInOrder
  <2>3. QED
    BY <1>2, <2>1, <2>2
<1>5. CASE \/ LoseTrip(r) \/ FailStatement(r) \/ FailProfile(r) \/ BreakDeadlock(r)
           \/ FailToInterpret(r) \/ Cache(r) \/ Reply(r)
  BY <1>3, <1>5 DEF LoseTrip, FailStatement, FailProfile, BreakDeadlock, FailToInterpret, Cache,
     Reply, Unwritten
<1>6. CASE Commit(r) \/ AnswerAtOnce(r) \/ Recommend(r)
  <2>1. CASE Commit(r)
    <3>1. pc[r] = "working" /\ (Proceed(r, "replying") \/ \E how, c : End(r, how, c))
      BY <2>1 DEF Commit
    <3>2. QED
      BY <1>3, <1>4, <3>1
  <2>2. CASE AnswerAtOnce(r)
    BY <1>4, <2>2 DEF AnswerAtOnce
  <2>3. CASE Recommend(r)
    <3>1. pc[r] = "ranking" /\ (Proceed(r, "replying") \/ Proceed(r, "caching"))
      BY <2>3 DEF Recommend
    <3>2. QED
      BY <1>4, <3>1
  <2>4. QED
    BY <1>6, <2>1, <2>2, <2>3
<1>7. CASE \/ Interpret(r) \/ ReadTripRows(r) \/ Recheck(r) \/ Find(r)
           \/ ReadUserRows(r) \/ ReadOverrides(r)
  <2> DEFINE Moves(s, t) == pc[r] = s /\ pc' = [pc EXCEPT ![r] = t]
  <2>1. Interpret(r) => Moves("interpreting", "reading")
    BY DEF Interpret
  <2>2. ReadTripRows(r) => Moves("reading", "checking")
    BY DEF ReadTripRows
  <2>3. Recheck(r) => Moves("checking", "deleting")
    BY DEF Recheck
  <2>4. Find(r) => Moves("deleting", "working")
    BY DEF Find
  <2>5. ReadUserRows(r) => Moves("reading", "merging")
    BY DEF ReadUserRows
  <2>6. ReadOverrides(r) => Moves("merging", "ranking")
    BY DEF ReadOverrides
  <2>7. \E t \in {"reading", "checking", "deleting", "working", "merging", "ranking"} :
          pc' = [pc EXCEPT ![r] = t] /\ StepsLeft(t) < StepsLeft(pc[r])
    BY <1>7, <2>1, <2>2, <2>3, <2>4, <2>5, <2>6, StepsInOrder
  <2>8. {"reading", "checking", "deleting", "working", "merging", "ranking"} \in SUBSET Stages
    BY DEF Stages
  <2> HIDE DEF Moves
  <2>9. QED
    BY <1>2, <2>7, <2>8
<1>8. CASE Delete(r)
  <2>1. /\ doomed[r] \in Seq(Doomed) /\ doomed[r] # <<>> /\ doomed'[r] = Tail(doomed[r])
        /\ UNCHANGED <<pc, payload, written>>
    BY <1>8, DeleteDoes
  <2>2. Len(Tail(doomed[r])) < Len(doomed[r])
    BY <2>1
  <2>3. QED
    BY <2>1, <2>2 DEF Nearer
<1>9. CASE Write(r)
  <2>1. /\ written[r] \in Nat /\ written[r] + 1 \in 1 .. Len(payload[r])
        /\ written'[r] = written[r] + 1 /\ UNCHANGED <<pc, payload, doomed>>
    BY <1>9, WriteDoes
  <2>2. written[r] < written'[r] /\ written'[r] <= Len(payload[r])
    BY <2>1
  <2>3. QED
    BY <2>1, <2>2 DEF Nearer
<1>10. QED
  BY <1>5, <1>6, <1>7, <1>8, <1>9 DEF Step

\* What the requests go on by: one that runs waits for none, or its wait is the
\* database's to break, and each step brings its request nearer to its end and
\* leaves the others where they are.  This is what RequestsEnd rests on besides
\* fairness, for any requests and menus, interleavings, deadlocks, failures and
\* crashes (PreferenceService, TripService, ChatOrchestrator.handle).
THEOREM RequestsGoOn ==
    Spec => /\ [](Runs # {} => \E r \in Runs : ~Waits(r))
            /\ [][\A r \in Requests :
                    Step(r) => Nearer(r) /\ \A q \in Requests \ {r} : Unmoved(q)]_vars
<1>1. Typed => (Runs # {} => \E r \in Runs : ~Waits(r))
  BY OneRuns
<1>2. Typed /\ Replacements =>
        [\A r \in Requests :
           Step(r) => Nearer(r) /\ \A q \in Requests \ {r} : Unmoved(q)]_vars
  <2>1. ASSUME Typed, Met, NEW r \in Requests, Step(r)
        PROVE  Nearer(r) /\ \A q \in Requests \ {r} : Unmoved(q)
    BY <2>1, StepNearer, Shapes DEF Elsewhere, Unmoved
  <2>2. QED
    BY <2>1 DEF Replacements
<1>3. QED
  BY InitTyped, StepTyped, InitReplacements, ReplacementsKept, <1>1, <1>2, PTL DEF Spec
=============================================================================
