------------------------------- MODULE Preferences -------------------------------
(***************************************************************************)
(* The attribute preferences of one user, written and read at once:        *)
(*                                                                         *)
(*   - manual preferences are replaced, upserted and deleted; a completed  *)
(*     questionnaire upserts its deterministic profile; the trip's         *)
(*     overrides are replaced, by the trip screen or by the chat, which    *)
(*     reads them first and writes them back with one changed;             *)
(*   - a recommendation reads the user's preferences, then the trip's,     *)
(*     lets the latter override the former, ranks the hotels of the        *)
(*     destination, stores the run with the preferences it used and puts   *)
(*     it in the cache that lookups of runs ask first;                     *)
(*   - a chat turn commits the user's message, is interpreted, does what   *)
(*     the intent asks through the same services, and commits a reply;     *)
(*   - PostgreSQL (read committed) shows a statement what is committed and *)
(*     what its own transaction wrote, and makes it wait for the keys      *)
(*     other transactions wrote; it breaks a cycle of waits.               *)
(*                                                                         *)
(* A preference key is a table (a source of user_preferences, or the       *)
(* trip's table) and an attribute.  Weights count like the points of       *)
(* AdaptiveProfile, FullScore being 1.0; scores and minimums are in        *)
(* thousandths, a minimum of 0 standing for none.                          *)
(***************************************************************************)
EXTENDS AdaptiveProfile

CONSTANTS
    Requests,     \* API calls
    Menu,         \* what each of them may ask
    Attrs,        \* active attributes
    Exact,        \* attributes whose slug or normalized key is the profile's slug
    Alias,        \* attributes that list it as an active alias
    Prior,        \* rows of the tables at the start
    Hotels,       \* active hotels, ordered as their identifiers
    LocatedIn,    \* their places
    Places,
    TypeOf,       \* their types
    Types,
    Scores,       \* relative score of each hotel and attribute, 0 where there is none
    Sourced,      \* the ratings of each hotel by its active sources
    Rating,       \* the one its primary source gives it, which may be none
    MaxCandidates,  \* the limit of candidates: the hotels a ranking is told of
    MaxCrashes    \* bound: deaths of the process serving a request

\* A relative score of 5.0.
TopScore == 5000

\* No rating, which comes below every rating; or no rating asked for.
None == -1

Tables == {"USER_MANUAL", "ONBOARDING_DETERMINISTIC", "TRIP"}
UserTables == Tables \ {"TRIP"}
Keys == Tables \X Attrs
Writers == Requests \cup {"prior"}
Item == [attr: Attrs \cup {"foreign"}, weight: 0 .. FullScore, minimum: 0 .. TopScore,
         mandatory: BOOLEAN]
Row == [weight: 0 .. FullScore, minimum: 0 .. TopScore, mandatory: BOOLEAN, by: Writers]
NoRow == [weight |-> 0, minimum |-> 0, mandatory |-> FALSE, by |-> "nobody"]

\* What a ranking is told of a row.
Pref == [weight: 0 .. FullScore, minimum: 0 .. TopScore, mandatory: BOOLEAN]
Unused == [weight |-> 0, minimum |-> 0, mandatory |-> FALSE]
Preference(row) == [weight |-> row.weight, minimum |-> row.minimum, mandatory |-> row.mandatory]

\* What a chat message may be taken for, besides a question the assistant
\* answers from the catalog or not at all.
Intents == {"UPDATE_TRIP_PREFERENCE", "RECOMMEND_HOTELS"}
ManualKinds == {"replace_manual", "upsert_manual", "delete_manual"}
TripKinds == {"replace_trip", "update_trip", "delete_trip"}
RunKinds == {"recommend", "lookup"}
Kinds == ManualKinds \cup TripKinds \cup RunKinds \cup {"adaptive_complete", "chat"}
Op == [kind: Kinds \cup Intents, items: Seq(Item), answers: Seq(Answer), place: Places,
       limit: Nat, type: Types \cup {"any"}, floor: Nat \cup {None}, of: Requests]

\* A ranking as it is stored, and the messages of the user's conversations.
Run == [by: Requests, place: Places, used: [Attrs -> Pref], type: Types \cup {"any"},
        floor: Nat \cup {None}, limit: Nat, results: Seq(Hotels)]
NoRun == [by |-> "nobody"]
Message == [by: Requests, role: {"user", "assistant"}, intent: Intents \cup {"none"}]

ASSUME PreferencesAssumption ==
    /\ Menu \in [Requests -> SUBSET Op] /\ Requests \cap {"prior", "nobody"} = {}
    /\ \A r \in Requests : \A o \in Menu[r] : o.kind \in Kinds
    /\ \A r \in Requests : \A o \in Menu[r] : o.kind = "chat" => o.items # <<>>
    /\ IsFiniteSet(Requests) /\ IsFiniteSet(Attrs) /\ IsFiniteSet(Hotels)
    /\ Exact \in [Attributes -> SUBSET Attrs] /\ Alias \in [Attributes -> SUBSET Attrs]
    /\ Prior \in [Keys -> Row \cup {NoRow}]
    /\ Hotels \subseteq Nat /\ LocatedIn \in [Hotels -> Places]
    /\ TypeOf \in [Hotels -> Types] /\ "any" \notin Types
    /\ Scores \in [Hotels -> [Attrs -> 0 .. TopScore]] /\ Sourced \in [Hotels -> SUBSET Nat]
    /\ Rating \in [Hotels -> Nat \cup {None}]
    /\ \A h \in Hotels : Rating[h] \in Sourced[h] \cup {None}
    /\ MaxCandidates \in Nat /\ MaxCrashes \in Nat

VARIABLES
    rows,     \* committed preferences
    trip,     \* committed trip: its place, and whether it is deleted
    user,     \* may the user get recommendations
    runs,     \* committed recommendation runs, by request
    cache,    \* the runs in the cache, by key
    said,     \* committed messages of the user's conversations, oldest first
    op,       \* what each request asks
    pc,       \* where it is
    outcome,  \* and how it ended
    held,     \* the trip's place and the user, as the objects it loaded have them
    seen,     \* the preferences it has read
    payload,  \* the items it writes
    written,  \* how many of them it has written
    doomed,   \* the rows its DELETE found and has not removed yet
    tx,       \* what its open transaction wrote
    met,      \* history: the requests that ran while it did
    fresh,    \* history: has no preference been committed since it read
    served,   \* history: the run a lookup answered with
    applied,  \* history: the requests whose preferences were committed
    crashes
others == <<trip, user, runs, cache, said, served>>
vars == <<rows, others, op, pc, outcome, held, seen, payload, written, doomed, tx, met, fresh,
          applied, crashes>>

NoOp == [kind |-> "none", items |-> <<>>, answers |-> <<>>, place |-> CHOOSE p \in Places : TRUE,
         limit |-> 0, type |-> "any", floor |-> None, of |-> CHOOSE r \in Requests : TRUE]
Empty == [k \in {} |-> NoRow]
Unloaded == [place |-> NoOp.place, user |-> FALSE]

Init ==
    /\ rows = Prior
    /\ trip \in [place: Places, deleted: {FALSE}]
    /\ user \in BOOLEAN
    /\ runs = [r \in Requests |-> NoRun]
    /\ cache = [r \in Requests |-> NoRun]
    /\ said = <<>>
    /\ op = [r \in Requests |-> NoOp]
    /\ pc = [r \in Requests |-> "idle"]
    /\ outcome = [r \in Requests |-> "none"]
    /\ held = [r \in Requests |-> Unloaded]
    /\ seen = [r \in Requests |-> [a \in Attrs |-> Unused]]
    /\ payload = [r \in Requests |-> <<>>]
    /\ written = [r \in Requests |-> 0]
    /\ doomed = [r \in Requests |-> <<>>]
    /\ tx = [r \in Requests |-> Empty]
    /\ met = [r \in Requests |-> {}]
    /\ fresh = [r \in Requests |-> FALSE]
    /\ served = [r \in Requests |-> NoRun]
    /\ applied = {}
    /\ crashes = 0

-----------------------------------------------------------------------------
(* Transactions *)

\* A row as the request's statement sees it.
Current(r, k) == IF k \in DOMAIN tx[r] THEN tx[r][k] ELSE rows[k]

Written(r, k, value) == [l \in DOMAIN tx[r] \cup {k} |-> IF l = k THEN value ELSE tx[r][l]]

\* The key a request's next statement writes.
TableOf(r) ==
    CASE op[r].kind \in {"replace_trip", "UPDATE_TRIP_PREFERENCE"} -> "TRIP"
      [] op[r].kind = "adaptive_complete" -> "ONBOARDING_DETERMINISTIC"
      [] OTHER                            -> "USER_MANUAL"
NextItem(r) == payload[r][written[r] + 1]
Unwritten(r) == pc[r] = "working" /\ doomed[r] = <<>> /\ written[r] < Len(payload[r])
NextKey(r) ==
    CASE pc[r] = "working" /\ doomed[r] # <<>> -> {Head(doomed[r]).key}
      [] Unwritten(r)                          -> {<<TableOf(r), NextItem(r).attr>>}
      [] OTHER                                 -> {}

WaitsFor(r) == {q \in Requests \ {r} : NextKey(r) \cap DOMAIN tx[q] # {}}

\* A request waits for one transaction at most, so that requests of which each waits
\* for one of them and is waited for by one of them wait in cycles.
Deadlocked(r) ==
    \E S \in SUBSET Requests :
      /\ r \in S
      /\ \A q \in S : WaitsFor(q) \cap S # {} /\ \E p \in S : q \in WaitsFor(p)

\* What a transaction still holds at its end: nothing, its session being rolled
\* back if it is not committed.
MUTANT_Released(r, committed) == IF committed THEN Empty ELSE tx[r]
Released(r, committed) == Empty

\* The end of a transaction: what it wrote is committed or not, and what was
\* read in it does not matter any more.
Close(r, committed) ==
    /\ rows' = IF committed THEN [k \in Keys |-> Current(r, k)] ELSE rows
    /\ fresh' = IF committed /\ tx[r] # Empty THEN [q \in Requests |-> FALSE] ELSE fresh
    /\ applied' = IF committed /\ tx[r] # Empty THEN applied \cup {r} ELSE applied
    /\ tx' = [tx EXCEPT ![r] = Released(r, committed)]
    /\ held' = [held EXCEPT ![r] = Unloaded]
    /\ seen' = [seen EXCEPT ![r] = [a \in Attrs |-> Unused]]
    /\ payload' = [payload EXCEPT ![r] = <<>>]
    /\ written' = [written EXCEPT ![r] = 0]
    /\ doomed' = [doomed EXCEPT ![r] = <<>>]
    /\ met' = [met EXCEPT ![r] = {}]

\* The end of a request.
End(r, how, committed) ==
    /\ Close(r, committed)
    /\ outcome' = [outcome EXCEPT ![r] = how]
    /\ pc' = [pc EXCEPT ![r] = "done"]
    /\ op' = [op EXCEPT ![r] = NoOp]

\* A commit that is not the end of its request.
MUTANT_Proceed(r, step) ==
    /\ Close(r, FALSE)
    /\ pc' = [pc EXCEPT ![r] = step]
    /\ UNCHANGED <<op, outcome>>
Proceed(r, step) ==
    /\ Close(r, TRUE)
    /\ pc' = [pc EXCEPT ![r] = step]
    /\ UNCHANGED <<op, outcome>>

InChat(r) == op[r].kind \in Intents \cup {"chat"}
Says(r, role) ==
    [by |-> r, role |-> role,
     intent |-> IF op[r].kind \in Intents THEN op[r].kind ELSE "none"]

-----------------------------------------------------------------------------
(* A request is admitted *)

\* A chat turn names the trip when it opens a conversation, not later.
Opens(o) == o.kind = "chat"
Refused(o) ==
    \/ o.kind = "recommend" /\ ~user
    \/ o.kind \in TripKinds \cup {"recommend", "chat"} /\ trip.deleted
    \/ o.kind \in {"replace_manual", "upsert_manual"}
       /\ \E n \in DOMAIN o.items : o.items[n].attr \notin Attrs
    \/ o.kind = "lookup" /\ runs[o.of] = NoRun

\* What the taxonomy makes of a slug of the profile.  Of several attributes it
\* matches exactly, the query returns the one that comes first.  One alias match
\* is looked up in a dictionary under the key 0, which it does not have.
Firsts ==
    LET exact == {s \in Attributes : Exact[s] # {}}
    IN  {first \in [exact -> Attrs] : \A s \in exact : first[s] \in Exact[s]}
Resolve(slug, first) ==
    CASE Exact[slug] # {}              -> first[slug]
      [] Cardinality(Alias[slug]) = 1 /\ Exact[slug] = {} -> "key_error"
      [] OTHER                         -> "unresolved"

\* The unresolved slugs are only reported.
FromProfile(answers, first) ==
    LET known  == {p \in Profile(answers) : Resolve(Slugs[p[2]], first) # "unresolved"}
        ranked == InOrder(known, HeaviestFirst(known))
    IN  [n \in DOMAIN ranked |-> [attr |-> Resolve(Slugs[ranked[n][2]], first),
                                 weight |-> ranked[n][1],
                                 minimum |-> 0, mandatory |-> FALSE]]

\* The profiles that requests may ask for: a table, so that each is computed once.
Profiles ==
    [answers \in {o.answers : o \in UNION {Menu[r] : r \in Requests}} |->
       {FromProfile(answers, first) : first \in Firsts}]

Begin(r, o) ==
    LET running == {q \in Requests : pc[q] \notin {"idle", "done"}}
    IN  /\ pc[r] = "idle" /\ (~Refused(o) \/ Opens(o))
        /\ o.kind \notin {"update_trip", "delete_trip", "lookup"}
        /\ op' = [op EXCEPT ![r] = o]
        /\ pc' = [pc EXCEPT ![r] =
                    CASE o.kind = "chat"                                   -> "interpreting"
                      [] o.kind = "recommend"                              -> "reading"
                      [] o.kind \in {"upsert_manual", "adaptive_complete"} -> "working"
                      [] OTHER                                             -> "deleting"]
        /\ \E items \in IF o.kind = "adaptive_complete" THEN Profiles[o.answers] ELSE {o.items} :
             payload' = [payload EXCEPT ![r] = items]
        /\ held' = [held EXCEPT ![r] = IF o.kind \in {"chat", "recommend"}
                                       THEN [place |-> trip.place, user |-> user] ELSE @]
        /\ said' = IF o.kind = "chat" THEN Append(said, Says(r, "user")) ELSE said
        /\ met' = [q \in Requests |-> IF q = r THEN running
                                      ELSE IF q \in running THEN met[q] \cup {r} ELSE met[q]]
        /\ UNCHANGED <<rows, trip, user, runs, cache, served, outcome, seen, written, doomed, tx,
                       fresh, applied, crashes>>

Refuse(r, o) ==
    /\ pc[r] = "idle" /\ Refused(o)
    /\ End(r, "refused", FALSE)
    /\ UNCHANGED <<others, crashes>>

\* TripService.update and delete touch no preference.
ChangeTrip(r, o) ==
    /\ pc[r] = "idle" /\ ~Refused(o) /\ o.kind \in {"update_trip", "delete_trip"}
    /\ trip' = IF o.kind = "delete_trip" THEN [trip EXCEPT !.deleted = TRUE]
               ELSE [trip EXCEPT !.place = o.place]
    /\ End(r, "ok", FALSE)
    /\ UNCHANGED <<user, runs, cache, said, served, crashes>>

-----------------------------------------------------------------------------
(* Preferences are written *)

\* The chat reads the trip's rows, in any order, and puts the new one among them.
ReadTripRows(r) ==
    /\ pc[r] = "reading" /\ op[r].kind = "UPDATE_TRIP_PREFERENCE"
    /\ \E order \in SetToSeqs({a \in Attrs : rows[<<"TRIP", a>>] # NoRow}) :
         LET new == op[r].items[1]
             attrs == IF new.attr \in ToSet(order) THEN order ELSE Append(order, new.attr)
             Merged(a) == LET row == rows[<<"TRIP", a>>]
                          IN  IF a = new.attr THEN new
                              ELSE [attr |-> a, weight |-> row.weight,
                                    minimum |-> row.minimum, mandatory |-> row.mandatory]
         IN  payload' = [payload EXCEPT ![r] = [n \in DOMAIN attrs |-> Merged(attrs[n])]]
    /\ pc' = [pc EXCEPT ![r] = "checking"]
    /\ UNCHANGED <<rows, others, op, outcome, held, seen, written, doomed, tx, met,
                   fresh, applied, crashes>>

\* replace_preferences looks for the trip again.
Recheck(r) ==
    /\ pc[r] = "checking" /\ ~trip.deleted
    /\ pc' = [pc EXCEPT ![r] = "deleting"]
    /\ UNCHANGED <<rows, others, op, outcome, held, seen, payload, written, doomed,
                   tx, met, fresh, applied, crashes>>
LoseTrip(r) ==
    /\ pc[r] = "checking" /\ trip.deleted
    /\ End(r, "refused", FALSE)
    /\ UNCHANGED <<others, crashes>>

\* The DELETE statement looks for its rows once, in any order.
MUTANT_Found(r) ==
    {k \in Keys : k[1] = TableOf(r) /\ rows[k] # NoRow
                  /\ \E n \in DOMAIN payload[r] : payload[r][n].attr = k[2]}
Found(r) ==
    {k \in Keys : /\ k[1] = TableOf(r) /\ rows[k] # NoRow
                  /\ op[r].kind = "delete_manual" => k[2] = op[r].items[1].attr}
Find(r) ==
    /\ pc[r] = "deleting"
    /\ \E order \in SetToSeqs({[key |-> k, by |-> rows[k].by] : k \in Found(r)}) :
         doomed' = [doomed EXCEPT ![r] = order]
    /\ payload' = [payload EXCEPT ![r] = IF op[r].kind = "delete_manual" THEN <<>> ELSE @]
    /\ pc' = [pc EXCEPT ![r] = "working"]
    /\ UNCHANGED <<rows, others, op, outcome, held, seen, written, tx, met, fresh,
                   applied, crashes>>

\* A row deleted meanwhile is skipped, and so is the one inserted in its place.
Delete(r) ==
    /\ pc[r] = "working" /\ doomed[r] # <<>> /\ WaitsFor(r) = {}
    /\ LET row == Head(doomed[r])
       IN  tx' = IF rows[row.key].by = row.by
                 THEN [tx EXCEPT ![r] = Written(r, row.key, NoRow)] ELSE tx
    /\ doomed' = [doomed EXCEPT ![r] = Tail(@)]
    /\ UNCHANGED <<rows, others, op, pc, outcome, held, seen, payload, written, met,
                   fresh, applied, crashes>>

\* User preferences are upserted, the existing row keeping its identity; the
\* trip's are inserted.
Accepted(r) ==
    /\ NextItem(r).attr \in Attrs
    /\ TableOf(r) = "TRIP" => Current(r, <<"TRIP", NextItem(r).attr>>) = NoRow
MUTANT_Stored(old, r, item) ==
    [weight |-> old.weight + item.weight, minimum |-> item.minimum,
     mandatory |-> item.mandatory, by |-> IF old = NoRow THEN r ELSE old.by]
Stored(old, r, item) ==
    [weight |-> item.weight, minimum |-> item.minimum, mandatory |-> item.mandatory,
     by |-> IF old = NoRow THEN r ELSE old.by]
Write(r) ==
    /\ Unwritten(r) /\ Accepted(r) /\ WaitsFor(r) = {}
    /\ LET k == <<TableOf(r), NextItem(r).attr>>
       IN  tx' = [tx EXCEPT ![r] = Written(r, k, Stored(Current(r, k), r, NextItem(r)))]
    /\ written' = [written EXCEPT ![r] = @ + 1]
    /\ UNCHANGED <<rows, others, op, pc, outcome, held, seen, payload, doomed, met,
                   fresh, applied, crashes>>

\* A second row of the trip and attribute, or an attribute that does not exist,
\* violates a constraint: the request's transaction is rolled back.
FailStatement(r) ==
    /\ Unwritten(r) /\ ~Accepted(r) /\ WaitsFor(r) = {} /\ NextItem(r).attr # "key_error"
    /\ End(r, "error", FALSE)
    /\ UNCHANGED <<others, crashes>>

\* An exception of the program itself is caught, and marking the session FAILED
\* commits the upserts that preceded it.
FailProfile(r) ==
    /\ Unwritten(r) /\ NextItem(r).attr = "key_error"
    /\ End(r, "failed", TRUE)
    /\ UNCHANGED <<others, crashes>>

\* The victim's transaction is aborted, in which no session can be marked either.
BreakDeadlock(r) ==
    /\ pc[r] = "working" /\ Deadlocked(r)
    /\ End(r, "error", FALSE)
    /\ UNCHANGED <<others, crashes>>

Commit(r) ==
    /\ pc[r] = "working" /\ doomed[r] = <<>> /\ written[r] = Len(payload[r])
    /\ CASE op[r].kind = "delete_manual" /\ tx[r] = Empty -> End(r, "refused", FALSE)
         [] InChat(r)                                      -> Proceed(r, "replying")
         [] OTHER                                          -> End(r, "ok", TRUE)
    /\ user' = (user \/ op[r].kind = "adaptive_complete")
    /\ UNCHANGED <<trip, runs, cache, said, served, crashes>>

-----------------------------------------------------------------------------
(* Preferences are read and hotels ranked *)

\* What list_effective keeps of an attribute, its rows coming in some order.
MUTANT_Kept(kept, t, a) == IF kept = NoRow THEN rows[<<t, a>>] ELSE kept
Kept(kept, t, a) ==
    IF rows[<<t, a>>] # NoRow /\ (kept = NoRow \/ t = "USER_MANUAL") THEN rows[<<t, a>>] ELSE kept
Selected(order, a) == Kept(Kept(NoRow, order[1], a), order[2], a)

ReadUserRows(r) ==
    /\ pc[r] = "reading" /\ op[r].kind \in {"recommend", "RECOMMEND_HOTELS"}
    /\ \E order \in SetToSeqs(UserTables) :
         seen' = [seen EXCEPT ![r] = [a \in Attrs |-> Preference(Selected(order, a))]]
    /\ fresh' = [fresh EXCEPT ![r] = TRUE]
    /\ pc' = [pc EXCEPT ![r] = "merging"]
    /\ UNCHANGED <<rows, others, op, outcome, held, payload, written, doomed, tx,
                   met, applied, crashes>>

ReadOverrides(r) ==
    /\ pc[r] = "merging"
    /\ seen' = [seen EXCEPT ![r] =
                  [a \in Attrs |-> IF rows[<<"TRIP", a>>] # NoRow
                                   THEN Preference(rows[<<"TRIP", a>>]) ELSE @[a]]]
    /\ pc' = [pc EXCEPT ![r] = "ranking"]
    /\ UNCHANGED <<rows, others, op, outcome, held, payload, written, doomed, tx,
                   met, fresh, applied, crashes>>

\* The preferences a ranking uses: those of positive weight.
Used(r) == [a \in Attrs |-> IF seen[r][a].weight > 0 THEN seen[r][a] ELSE Unused]
Wanted(used) == {a \in Attrs : used[a].weight > 0}
Scored(h, used) == {a \in Wanted(used) : Scores[h][a] > 0}

\* The hotels of the trip's place that pass the filters of the request, which the
\* chat does not set: whichever of its active sources rates a hotel high enough,
\* primary or not.  Of those the first MaxCandidates are all the ranking is told of.
Matching(place, type, floor) ==
    {h \in Hotels : /\ LocatedIn[h] = place /\ type \in {"any", TypeOf[h]}
                    /\ floor = None \/ \E n \in Sourced[h] : n >= floor}
FirstOf(hotels, n) == {h \in hotels : Cardinality({g \in hotels : g < h}) < n}
Candidates(r) == FirstOf(Matching(held[r].place, op[r].type, op[r].floor), MaxCandidates)

\* _rank_one drops a hotel that misses what is mandatory, or has nothing to weigh.
MUTANT_Ranked(h, used) ==
    /\ \A a \in Scored(h, used) : used[a].mandatory => Scores[h][a] >= used[a].minimum
    /\ Scored(h, used) # {}
Ranked(h, used) ==
    /\ \A a \in Wanted(used) : used[a].mandatory => /\ Scores[h][a] > 0
                                                    /\ Scores[h][a] >= used[a].minimum
    /\ Scored(h, used) # {}

Rounded(n, d) == (2 * n + d) \div (2 * d)
WeightOf(attrs, used) == SumFunction([a \in attrs |-> used[a].weight])
Personalized(h, used) ==
    LET s == Scored(h, used)
    IN  Rounded(SumFunction([a \in s |-> Scores[h][a] * used[a].weight]), WeightOf(s, used))
Coverage(h, used) ==
    Rounded(10000 * WeightOf(Scored(h, used), used), WeightOf(Wanted(used), used))

\* What hotels are sorted by; without preferences they come by identifier.  The
\* count of reviews, that breaks ties of the primary source's rating, is left out.
Standing(h, used) ==
    IF Wanted(used) = {} THEN <<0, 0, 0, h>>
    ELSE <<Personalized(h, used), Coverage(h, used), Rating[h], h>>
Better(s, t) ==
    \/ s[1] > t[1]
    \/ s[1] = t[1] /\ \/ s[2] > t[2]
                      \/ s[2] = t[2] /\ (s[3] > t[3] \/ (s[3] = t[3] /\ s[4] < t[4]))
BestFirst(standings) == {p \in standings \X standings : Better(p[1], p[2])}
Standings(hotels, used) ==
    {Standing(h, used) : h \in {h \in hotels : Wanted(used) = {} \/ Ranked(h, used)}}

Recommend(r) ==
    /\ pc[r] = "ranking"
    /\ \E used \in {Used(r)} : \E standings \in {Standings(Candidates(r), used)} :
       \E all \in {InOrder(standings, BestFirst(standings))} :
         runs' = [runs EXCEPT ![r] =
           [by |-> r, place |-> held[r].place, used |-> used, type |-> op[r].type,
            floor |-> op[r].floor, limit |-> op[r].limit,
            results |-> [n \in 1 .. Min({Cardinality(standings), op[r].limit}) |-> all[n][4]]]]
    /\ Proceed(r, IF InChat(r) THEN "replying" ELSE "caching")
    /\ UNCHANGED <<trip, user, cache, said, served, crashes>>

-----------------------------------------------------------------------------
(* Runs are cached and looked up.  The chat has no cache. *)

CacheKey(r) == r

\* A write that fails is only logged.
Cached(r, run) ==
    \E new \in {cache[CacheKey(r)], run} : cache' = [cache EXCEPT ![CacheKey(r)] = new]

Cache(r) ==
    /\ pc[r] = "caching"
    /\ Cached(r, runs[r])
    /\ End(r, "ok", FALSE)
    /\ UNCHANGED <<trip, user, runs, said, served, crashes>>

\* An entry that expired, or cannot be read, is read from the tables instead
\* and put back; the explanation of one hotel always comes from there.
Lookup(r, o) ==
    /\ pc[r] = "idle" /\ o.kind = "lookup"
    /\ LET hit == cache[CacheKey(o.of)]
       IN  \/ /\ hit # NoRun
              /\ served' = [served EXCEPT ![r] = [of |-> o.of, run |-> hit]]
              /\ UNCHANGED cache
           \/ /\ ~Refused(o)
              /\ served' = [served EXCEPT ![r] = [of |-> o.of, run |-> runs[o.of]]]
              /\ Cached(o.of, runs[o.of])
    /\ End(r, "ok", FALSE)
    /\ UNCHANGED <<trip, user, runs, said, crashes>>

-----------------------------------------------------------------------------
(* The chat *)

Becomes(r, kind) == op' = [op EXCEPT ![r].kind = kind]

\* The message turns out to ask for a preference, for a ranking, or for nothing
\* that changes a preference or a run; or the interpreter or the catalog fails.
Interpret(r) ==
    /\ pc[r] = "interpreting" /\ ~trip.deleted
    /\ \/ op[r].items[1].attr \in Attrs /\ Becomes(r, "UPDATE_TRIP_PREFERENCE")
       \/ held[r].user /\ Becomes(r, "RECOMMEND_HOTELS")
    /\ pc' = [pc EXCEPT ![r] = "reading"]
    /\ held' = [held EXCEPT ![r].place = trip.place]
    /\ UNCHANGED <<rows, others, outcome, seen, payload, written, doomed, tx, met, fresh,
                   applied, crashes>>

AnswerAtOnce(r) ==
    /\ pc[r] = "interpreting"
    /\ Proceed(r, "replying")
    /\ UNCHANGED <<others, crashes>>

FailToInterpret(r) ==
    /\ pc[r] = "interpreting"
    /\ End(r, "error", FALSE)
    /\ UNCHANGED <<others, crashes>>

Reply(r) ==
    /\ pc[r] = "replying"
    /\ said' = Append(said, Says(r, "assistant"))
    /\ End(r, "ok", FALSE)
    /\ UNCHANGED <<trip, user, runs, cache, served, crashes>>

-----------------------------------------------------------------------------

\* The process serving a request dies.
Crash(r) ==
    /\ pc[r] \notin {"idle", "done"} /\ crashes < MaxCrashes
    /\ crashes' = crashes + 1
    /\ End(r, "crashed", FALSE)
    /\ UNCHANGED others

Step(r) ==
    \/ ReadTripRows(r) \/ Recheck(r) \/ LoseTrip(r)
    \/ Find(r) \/ Delete(r) \/ Write(r) \/ Commit(r)
    \/ FailStatement(r) \/ FailProfile(r) \/ BreakDeadlock(r)
    \/ ReadUserRows(r) \/ ReadOverrides(r) \/ Recommend(r) \/ Cache(r)
    \/ Interpret(r) \/ AnswerAtOnce(r) \/ FailToInterpret(r) \/ Reply(r)

Next ==
    \E r \in Requests :
        \/ \E o \in Menu[r] : Begin(r, o) \/ Refuse(r, o) \/ ChangeTrip(r, o) \/ Lookup(r, o)
        \/ Step(r)
        \/ Crash(r)

\* A request that has begun goes on: the server drives it, and PostgreSQL
\* answers its statements, breaking the cycles of waits.
Fairness == \A r \in Requests : WF_vars(Step(r))

Spec == Init /\ [][Next]_vars /\ Fairness

-----------------------------------------------------------------------------
(* Properties *)

\* Every variable keeps its type, and a key is held by one transaction at most.
TypeOK ==
    /\ rows \in [Keys -> Row \cup {NoRow}]
    /\ trip \in [place: Places, deleted: BOOLEAN] /\ user \in BOOLEAN
    /\ \A r \in Requests :
         /\ pc[r] \in {"idle", "interpreting", "reading", "checking", "deleting", "working",
                       "merging", "ranking", "caching", "replying", "done"}
         /\ runs[r] \in Run \cup {NoRun} /\ cache[r] \in Run \cup {NoRun}
         /\ served[r] \in [of: Requests, run: Run] \cup {NoRun}
         /\ outcome[r] \in {"none", "ok", "refused", "error", "failed", "crashed"}
         /\ (outcome[r] = "none") = (pc[r] # "done")
         /\ written[r] \in 0 .. Len(payload[r])
         /\ held[r] \in [place: Places, user: BOOLEAN]
         /\ DOMAIN tx[r] \subseteq Keys
         /\ \A q \in Requests \ {r} : DOMAIN tx[r] \cap DOMAIN tx[q] = {}
    /\ said \in Seq(Message) /\ applied \subseteq Requests /\ crashes \in 0 .. MaxCrashes

\* "Atomic replacement": when a replacement, a chat's change or a profile
\* commits, each attribute it names (the last time it names it) has what it
\* asked, and a replacement leaves no other row of its table than those that
\* requests running at the same time inserted.
ReplaceIsWhole ==
    [][\A r \in Requests :
         pc[r] = "working" /\ (outcome'[r] = "ok" \/ pc'[r] = "replying")
         /\ op[r].kind \in {"replace_manual", "replace_trip", "UPDATE_TRIP_PREFERENCE",
                           "adaptive_complete"} =>
           LET asked == payload[r]
               named == {asked[n].attr : n \in DOMAIN asked}
               Row1(a) == rows'[<<TableOf(r), a>>]
           IN  /\ \A n \in DOMAIN asked :
                    (\A m \in DOMAIN asked : m > n => asked[m].attr # asked[n].attr) =>
                      LET row == Row1(asked[n].attr)
                      IN  /\ row # NoRow /\ row.weight = asked[n].weight
                          /\ row.minimum = asked[n].minimum
                          /\ row.mandatory = asked[n].mandatory
               /\ op[r].kind # "adaptive_complete" =>
                    \A a \in Attrs \ named : Row1(a) # NoRow => Row1(a).by \in met[r]]_vars

\* A run that no commit disturbed used, for each attribute, the trip's row,
\* else the manual one, else the profile's (README: TRIP_SPECIFIC > USER_MANUAL
\* > onboarding); a weight of 0 silences the attribute.
Owed(a) ==
    LET Of(t) == rows[<<t, a>>]
    IN  CASE Of("TRIP") # NoRow                                   -> Of("TRIP")
          [] Of("TRIP") = NoRow /\ Of("USER_MANUAL") # NoRow      -> Of("USER_MANUAL")
          [] Of("TRIP") = NoRow /\ Of("USER_MANUAL") = NoRow      -> Of("ONBOARDING_DETERMINISTIC")
SnapshotIsHonest ==
    [][\A r \in Requests :
         runs'[r] # runs[r] /\ fresh[r] =>
           \A a \in Attrs :
             runs'[r].used[a] =
               IF Owed(a).weight = 0 THEN Unused ELSE Preference(Owed(a))]_vars

\* The hotels with a claim on a place: of the first MaxCandidates, by identifier,
\* of those the destination and the filters allow, the ones that meet what is
\* mandatory and have something to weigh, or all of them where nothing weighs;
\* and what each is worth.
Plain(used) == \A a \in Attrs : used[a].weight = 0
Suits(h, used) ==
    /\ \A a \in Attrs : used[a].mandatory => Scores[h][a] > 0 /\ Scores[h][a] >= used[a].minimum
    /\ \E a \in Attrs : used[a].weight > 0 /\ Scores[h][a] > 0
Allowed(h, run) ==
    /\ LocatedIn[h] = run.place
    /\ run.type # "any" => TypeOf[h] = run.type
    /\ run.floor # None => {n \in Sourced[h] : n >= run.floor} # {}
AllowedBefore(h, run) == {g \in Hotels : g < h /\ Allowed(g, run)}
Entitled(run) ==
    {h \in Hotels : /\ Allowed(h, run) /\ Cardinality(AllowedBefore(h, run)) < MaxCandidates
                    /\ Plain(run.used) \/ Suits(h, run.used)}
Worth(h, used) == IF Plain(used) THEN 0 ELSE Personalized(h, used)

\* A stored run ranks hotels its filters allow, at most limit of them and each
\* once; no preference of positive weight has its mandatory minimum missed (one
\* of weight 0 is dropped before the ranking, and binds nothing); none is before
\* a better one; and where hotels entitled to a place are left out, the limit is
\* reached by hotels worth as much.  Hotels beyond the first MaxCandidates, by
\* identifier, are never looked at, however good.
Obeys(run) ==
    LET listed == ToSet(run.results)
    IN  /\ listed \subseteq Entitled(run)
        /\ Len(run.results) = Cardinality(listed)
        /\ Len(run.results) <= run.limit
        /\ listed = Entitled(run) \/ Len(run.results) = run.limit
        /\ \A m, n \in DOMAIN run.results :
             m < n => Worth(run.results[m], run.used) >= Worth(run.results[n], run.used)
        /\ \A h \in Entitled(run) \ listed, g \in listed :
             Worth(g, run.used) >= Worth(h, run.used)
RankingObeys == \A r \in Requests : runs[r] # NoRun => Obeys(runs[r])

\* What a lookup answers is the run it was asked for as its request committed
\* it; and a reply of the assistant follows the message of the same turn, is the
\* only one of it, and announces no ranking and no changed preference that the
\* turn has not committed.
ToldIsStored ==
    /\ \A r \in Requests : served[r] # NoRun => served[r].run = runs[served[r].of]
    /\ \A n \in DOMAIN said : said[n].role = "assistant" =>
         /\ \E m \in 1 .. n - 1 : said[m].role = "user" /\ said[m].by = said[n].by
         /\ \A m \in DOMAIN said \ {n} : said[m].by = said[n].by => said[m].role = "user"
         /\ said[n].intent = "RECOMMEND_HOTELS" => runs[said[n].by] # NoRun
         /\ said[n].intent = "UPDATE_TRIP_PREFERENCE" => said[n].by \in applied

\* Every request that begins ends, whatever the others hold.  Each runs once,
\* so that the requests that have begun and not ended are none at last.
RequestsEnd == <>[](\A r \in Requests : pc[r] \in {"idle", "done"})

\* "Resolve a provider concept through exact taxonomy keys or active aliases":
\* a conversation whose profile the taxonomy resolves completes, or falls to the
\* database or the death of its process, never to the resolution.
AliasesResolve == \A r \in Requests : outcome[r] # "failed"
=============================================================================
