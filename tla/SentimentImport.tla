---------------------------- MODULE SentimentImport ----------------------------
(***************************************************************************)
(* Imports of precomputed hotel sentiment beside the rescoring of reviews, *)
(* both writing the scores that rankings read.                             *)
(*                                                                         *)
(*   - a job reads one hotel per line of its file; the hotel's attributes  *)
(*     are resolved in the taxonomy (and created when unknown), stored as  *)
(*     aggregates and propagated to the hotel's scores, all in a savepoint *)
(*     that one failing statement takes back as a whole;                   *)
(*   - every BatchSize lines the rows, counters and line checkpoint commit *)
(*     together; the final status commits before the global normalization; *)
(*   - a rescoring task recalculates the hotels that have mentions, one    *)
(*     commit each, and normalizes as well;                                *)
(*   - PostgreSQL (read committed) shows a statement what is committed and *)
(*     what its own transaction wrote; every write takes its rows one by   *)
(*     one, waits for a row another transaction holds, and keeps them to   *)
(*     the end of the transaction or the rollback of its savepoint; a      *)
(*     cycle of waits is broken by failing one of its statements.          *)
(*                                                                         *)
(* One task message exists per job.  It comes back when its worker is      *)
(* lost, and is acknowledged when the hard time limit kills the task.  A   *)
(* rescoring is one run: its redelivery or its retry is another, if it is  *)
(* not dropped for the lock of the first.                                  *)
(* One source, algorithm version, analysis version and review window; the  *)
(* categories exist.                                                       *)
(***************************************************************************)
EXTENDS Integers, Sequences, FiniteSets, FiniteSetsExt, Functions

CONSTANTS
    Jobs,          \* import jobs, each with one message
    Rescorings,    \* runs of process_reviews that got to the recalculation
    Hotels,        \* hotels the source's identifiers map to
    Keys,          \* normalized (category, attribute) keys; one names its attribute
    Names,         \* what a key's slug is when nothing else has taken it
    NameOf,        \* of each key, which other categories may share
    AliasOf,       \* attributes that list the key as an alias
    Prior,         \* attributes that exist and are active at the start
    Inactive,      \* attributes that exist and are not
    Mentioned,     \* hotel and attribute of the mentions reviews made
    Ids,           \* of the rows of scores, which a flush goes by
    Scores,        \* scores a file may state
    ReviewScore,   \* and the one recalculated from mentions
    Files,         \* the files of the jobs, one choice at the start
    BatchSize,     \* settings.worker.import_batch_size
    MaxFailures    \* bound: deaths of a task, and exceptions other than those
                   \* the model gives a cause

Tasks == Jobs \cup Rescorings
Cells == Hotels \X Keys

Entry == [kind: {"good", "zero", "malformed", "category"}, key: Keys, score: Scores]
Line  == [kind: {"blank", "malformed", "unknown", "hotel"}, hotel: Hotels,
          entries: Seq(Entry)]

ASSUME SentimentAssumption ==
    /\ IsFiniteSet(Tasks) /\ Jobs \cap Rescorings = {} /\ IsFiniteSet(Cells)
    /\ NameOf \in [Keys -> Names] /\ AliasOf \in [Keys -> SUBSET Keys]
    /\ Names \cap Keys = {} /\ "none" \notin Names \cup Keys
    /\ Prior \subseteq Keys /\ Inactive \subseteq Keys \ Prior
    /\ \A k, l \in Prior \cup Inactive : NameOf[k] = NameOf[l] => k = l
    /\ Mentioned \subseteq Hotels \X Prior /\ Mentioned # {}
    /\ Ids \in [Cells -> Nat] /\ \A c, d \in Cells : Ids[c] = Ids[d] => c = d
    /\ Scores \subseteq Nat \ {0} /\ ReviewScore \in Nat
    /\ \A f \in Files : \A j \in Jobs : f[j] \in Seq(Line)
    /\ BatchSize \in Nat \ {0} /\ MaxFailures \in Nat

VARIABLES
    file,      \* the lines of each job's file
    attrs,     \* committed taxonomy: is the attribute active, and its slug
    agg,       \* committed aggregates: the stated score, 0 where there is none
    score,     \* committed hotel scores
    job,       \* committed import_jobs rows
    verdict,   \* history: what became of each decided line
    issues,    \* committed data-quality issues of hotels and of attributes
    pc,        \* where each task is
    row,       \* each run's in-memory job row
    delta,     \* ImportCounterDelta of the current line
    at,        \* the current line and entry
    chosen,    \* the slug picked for the attribute about to be created
    values,    \* attribute and score of the resolved entries
    existing,  \* of those, the aggregates that were there before the upsert
    queue,     \* rows the open writes have still to take, in their order
    tx,        \* the open transaction of each task
    saved,     \* and what it was at the savepoint
    todo,      \* hotels to recalculate, or attributes whose population to read
    pop,       \* the populations a normalization has read
    taint,     \* history: of those, the ones whose scores changed since
    excused,   \* history: attributes left unranked by a failure or an overlap
    failures

storeVars == <<attrs, agg, score, job, verdict, issues>>
lineVars  == <<delta, at, chosen, values, existing, saved>>
rankVars  == <<todo, pop, taint, excused>>
vars == <<file, storeVars, pc, row, lineVars, queue, tx, rankVars, failures>>

Counters == {"read", "matched", "failed", "seen", "processed", "inserted", "zero",
             "flawed", "applied", "passed", "created"}
Statuses == {"PENDING", "RUNNING", "PARTIAL", "COMPLETED", "FAILED"}
Verdicts == {"open", "good", "flawed", "failed"}
Steps == {"queued", "lines", "entries", "creating", "upserting", "propagating",
          "recalculating", "scoring", "listing", "ranking", "writing", "acking",
          "done"}

Unranked == {}                \* relative_score_5 IS NULL
NoScore  == [source |-> "none", score |-> 0, relative |-> Unranked]
NoAttr   == [active |-> FALSE, slug |-> "none"]
Zero     == [c \in Counters |-> 0]
Lines(j) == 1 .. Len(file[j])
NoTx     == [attrs |-> <<>>, agg |-> <<>>, score |-> <<>>, verdict |-> <<>>,
             hotel |-> 0, attribute |-> 0, locks |-> {}]
NewJob   == [status |-> "PENDING", completed |-> FALSE, line |-> 0, n |-> Zero]

Init ==
    /\ file \in Files
    /\ attrs = [k \in Keys |->
                  IF k \in Prior \cup Inactive
                  THEN [active |-> k \in Prior, slug |-> NameOf[k]] ELSE NoAttr]
    /\ agg = [c \in Cells |-> 0]
    /\ score = [c \in Cells |-> NoScore]
    /\ job = [j \in Jobs |-> NewJob]
    /\ verdict = [j \in Jobs |-> [l \in Lines(j) |-> "open"]]
    /\ issues = [j \in Jobs |-> [hotel |-> 0, attribute |-> 0]]
    /\ pc = [t \in Tasks |-> "queued"]
    /\ row = [j \in Jobs |-> NewJob]
    /\ delta = [j \in Jobs |-> Zero]
    /\ at = [j \in Jobs |-> [line |-> 0, entry |-> 0]]
    /\ chosen = [j \in Jobs |-> "none"]
    /\ values = [j \in Jobs |-> <<>>]
    /\ existing = [j \in Jobs |-> {}]
    /\ queue = [t \in Tasks |-> <<>>]
    /\ tx = [t \in Tasks |-> NoTx] /\ saved = [j \in Jobs |-> NoTx]
    /\ todo = [t \in Tasks |-> {}]
    /\ pop = [t \in Tasks |-> <<>>]
    /\ taint = [t \in Tasks |-> {}]
    /\ excused = {}
    /\ failures = 0

-----------------------------------------------------------------------------
(* What a transaction sees, holds and waits for                            *)

Over(f, g) ==
    [x \in DOMAIN f \cup DOMAIN g |-> IF x \in DOMAIN g THEN g[x] ELSE f[x]]

AttrsSeen(j) == Over(attrs, tx[j].attrs)
AggSeen(j)   == Over(agg, tx[j].agg)
ScoreSeen(j) == Over(score, tx[j].score)

Exists(as, k) == as[k].slug # "none"

HotelAt(j)  == file[j][at[j].line].hotel
EntryAt(j)  == file[j][at[j].line].entries[at[j].entry]
Resolved(j) == {values[j][i].attr : i \in DOMAIN values[j]}

\* Rows are those of a table, and the keys of an attribute and of its slug.
AttributeRow(k) == <<"attribute", k>>
SlugRow(slug)   == <<"slug", slug>>
RowAt(table, c) == <<table, c[1], c[2]>>
ScoreRow(c)     == RowAt("score", c)

\* The rows of a multi-row insert, in the order of its values; and those of
\* scores written one by one, in any order or in that of their identifiers.
RowsOf(j, table) == [i \in DOMAIN values[j] |-> RowAt(table, <<HotelAt(j), values[j][i].attr>>)]
Orders(cells) ==
    {q \in [1 .. Cardinality(cells) -> cells] : Range(q) = cells}
ById(cells) ==
    {q \in Orders(cells) : \A m, n \in DOMAIN q : m < n => Ids[q[m]] < Ids[q[n]]}
ScoreRows(q) == [i \in DOMAIN q |-> ScoreRow(q[i])]

WaitsFor(t, u) == u # t /\ queue[t] # <<>> /\ Head(queue[t]) \in tx[u].locks
Blocked(t)     == \E u \in Tasks : WaitsFor(t, u)
\* A cycle of waits: each task of it waits for one and is waited for by one.
Deadlocked(t)  ==
    \E S \in SUBSET Tasks :
        /\ t \in S
        /\ \A u \in S : (\E o \in S : WaitsFor(u, o)) /\ (\E o \in S : WaitsFor(o, u))

\* A write takes row after row; its effect comes with the last one.  An
\* attribute that is there needs no insert.
TakeRow(t) ==
    /\ Len(queue[t]) > 1 /\ ~Blocked(t)
    /\ pc[t] = "creating" => ~Exists(AttrsSeen(t), EntryAt(t).key)
    /\ tx' = [tx EXCEPT ![t].locks = @ \cup {Head(queue[t])}]
    /\ queue' = [queue EXCEPT ![t] = Tail(@)]
    /\ UNCHANGED <<file, storeVars, pc, row, lineVars, rankVars, failures>>
AtLastRow(t) == Len(queue[t]) <= 1 /\ ~Blocked(t)
Rows(t)      == tx[t].locks \cup Range(queue[t])
HeldScores(t) == {c \in Cells : ScoreRow(c) \in Rows(t)}

\* The session of a failing task closes, and its transaction with it.
MUTANT_RolledBack(t) == tx
RolledBack(t) == [tx EXCEPT ![t] = NoTx]

-----------------------------------------------------------------------------
(* Relative scores                                                         *)

\* The hotels an attribute is scored for, and what a relative score is
\* computed from.
Population(k) ==
    [h \in {h \in Hotels : score[<<h, k>>].source # "none"} |-> score[<<h, k>>]]
BellCurve(p) == {<<h, p[h].score>> : h \in DOMAIN p}

\* Attributes with a score whose relative value is missing, or was computed
\* from other scores than there are now.
Unfresh ==
    {k \in Keys : \E h \in DOMAIN Population(k) :
                     score[<<h, k>>].relative # BellCurve(Population(k))}

Touch(ks) == taint' = [t \in Tasks |-> taint[t] \cup (ks \cap DOMAIN pop[t])]

-----------------------------------------------------------------------------
(* The job's line loop                                                     *)

Plus(n, d) == [c \in Counters |-> n[c] + d[c]]

\* Everything since the last commit, the counters and the checkpoint with it.
MUTANT_Commit(j, t, r) ==
    /\ attrs' = Over(attrs, t.attrs)
    /\ agg' = Over(agg, t.agg)
    /\ score' = Over(score, t.score)
    /\ verdict' = [verdict EXCEPT ![j] = Over(@, t.verdict)]
    /\ issues' = [issues EXCEPT ![j].hotel = @ + t.hotel, ![j].attribute = @ + t.attribute]
    /\ job' = [job EXCEPT ![j] = [r EXCEPT !.line = job[j].line]]
    /\ tx' = [tx EXCEPT ![j] = NoTx]
    /\ Touch({c[2] : c \in DOMAIN t.score})
Commit(j, t, r) ==
    /\ attrs' = Over(attrs, t.attrs)
    /\ agg' = Over(agg, t.agg)
    /\ score' = Over(score, t.score)
    /\ verdict' = [verdict EXCEPT ![j] = Over(@, t.verdict)]
    /\ issues' = [issues EXCEPT ![j].hotel = @ + t.hotel, ![j].attribute = @ + t.attribute]
    /\ job' = [job EXCEPT ![j] = r]
    /\ tx' = [tx EXCEPT ![j] = NoTx]
    /\ Touch({c[2] : c \in DOMAIN t.score})

\* The end of a line: its transaction, its counters and its verdict.
DecideLine(j, l, t, d, v) ==
    LET u == [t EXCEPT !.verdict = Over(@, [x \in {l} |-> v])]
        r == [row[j] EXCEPT !.line = l, !.n = Plus(@, d)]
    IN  /\ row' = [row EXCEPT ![j] = r]
        /\ IF l % BatchSize = 0
           THEN Commit(j, u, r)
           ELSE tx' = [tx EXCEPT ![j] = u] /\ UNCHANGED <<storeVars, taint>>
        /\ pc' = [pc EXCEPT ![j] = "lines"]
        /\ delta' = [delta EXCEPT ![j] = Zero]
        /\ at' = [at EXCEPT ![j] = [line |-> 0, entry |-> 0]]
        /\ chosen' = [chosen EXCEPT ![j] = "none"]
        /\ values' = [values EXCEPT ![j] = <<>>]
        /\ existing' = [existing EXCEPT ![j] = {}]
        /\ queue' = [queue EXCEPT ![j] = <<>>]
        /\ saved' = [saved EXCEPT ![j] = NoTx]
        /\ UNCHANGED <<file, todo, pop, excused>>

\* The savepoint is taken back and the line counts as failed only.
MUTANT_FailLine(j, l, t) ==
    DecideLine(j, l, [tx[j] EXCEPT !.hotel = @ + 1],
               Plus(delta[j], [Zero EXCEPT !.read = 1, !.failed = 1]), "failed")
FailLine(j, l, t) ==
    DecideLine(j, l, [t EXCEPT !.hotel = @ + 1],
               [Zero EXCEPT !.read = 1, !.failed = 1], "failed")

\* Only COMPLETED returns early.  RUNNING commits before the download, which is
\* outside the try block: when it fails, the task ends and the job stays RUNNING.
Start(j) ==
    /\ pc[j] = "queued"
    /\ IF job[j].status = "COMPLETED"
       THEN /\ pc' = [pc EXCEPT ![j] = "acking"]
            /\ UNCHANGED <<job, row, excused, failures>>
       ELSE /\ job' = [job EXCEPT ![j].status = "RUNNING"]
            /\ row' = [row EXCEPT ![j] = job'[j]]
            /\ \/ /\ pc' = [pc EXCEPT ![j] = "lines"]
                  /\ UNCHANGED <<excused, failures>>
               \/ /\ failures < MaxFailures /\ failures' = failures + 1
                  /\ pc' = [pc EXCEPT ![j] = "acking"]
                  /\ excused' = excused \cup Unfresh
    /\ UNCHANGED <<file, attrs, agg, score, verdict, issues, lineVars, queue, tx, todo,
                   pop, taint>>

\* Lines after the checkpoint that are not blank.
Unread(j) == {l \in Lines(j) : l > row[j].line /\ file[j][l].kind # "blank"}

NextLine(j) ==
    \E l \in Unread(j) :
        /\ pc[j] = "lines" /\ \A m \in Unread(j) : l <= m
        /\ IF file[j][l].kind = "hotel"
           THEN /\ pc' = [pc EXCEPT ![j] = "entries"]
                /\ at' = [at EXCEPT ![j] = [line |-> l, entry |-> 1]]
                /\ delta' = [delta EXCEPT ![j] = [Zero EXCEPT !.read = 1, !.matched = 1]]
                /\ saved' = [saved EXCEPT ![j] = tx[j]]
                /\ UNCHANGED <<file, storeVars, row, chosen, values, existing, queue, tx,
                               rankVars>>
           ELSE FailLine(j, l, tx[j])
        /\ UNCHANGED failures

-----------------------------------------------------------------------------
(* One hotel, inside its savepoint                                         *)

\* What becomes of an entry: its own validation, then duplicates within the
\* hotel, then the taxonomy.  A hit needs an active attribute.
Matches(j, k) == {a \in AliasOf[k] : AttrsSeen(j)[a].active}
Duplicate(j) ==
    \E i \in 1 .. at[j].entry - 1 :
        LET e == file[j][at[j].line].entries[i]
        IN  e.kind = "good" /\ e.key = EntryAt(j).key
Fate(j) ==
    LET e == EntryAt(j)
    IN  IF e.kind # "good" THEN e.kind
        ELSE IF Duplicate(j) THEN "duplicate"
        ELSE IF AttrsSeen(j)[e.key].active THEN "direct"
        ELSE CASE Cardinality(Matches(j, e.key)) > 1 -> "ambiguous"
               [] Cardinality(Matches(j, e.key)) = 1 -> "alias"
               [] OTHER                              -> "new"

\* Counters and issues of an entry that is not stored.
Skip(j, fate) ==
    /\ delta' = [delta EXCEPT
          ![j].seen   = IF fate = "category" THEN @ ELSE @ + 1,
          ![j].zero   = IF fate = "zero" THEN @ + 1 ELSE @,
          ![j].flawed = IF fate \in {"category", "malformed", "ambiguous"} THEN @ + 1 ELSE @]
    /\ tx' = [tx EXCEPT ![j].attribute = IF fate = "zero" THEN @ ELSE @ + 1]

Resolve(j, a, created) ==
    /\ values' = [values EXCEPT ![j] = Append(@, [attr |-> a, score |-> EntryAt(j).score])]
    /\ delta' = [delta EXCEPT ![j].seen = @ + 1, ![j].created = @ + created]

NextEntry(j) == at' = [at EXCEPT ![j].entry = @ + 1]

ReadEntry(j) ==
    /\ pc[j] = "entries" /\ at[j].entry <= Len(file[j][at[j].line].entries)
    /\ LET k == EntryAt(j).key
           used == {AttrsSeen(j)[a].slug : a \in Keys}
       IN  CASE Fate(j) = "new" ->
                  /\ chosen' = [chosen EXCEPT ![j] = IF NameOf[k] \notin used THEN NameOf[k]
                                                    ELSE k]
                  /\ queue' = [queue EXCEPT ![j] = <<AttributeRow(k), SlugRow(chosen'[j])>>]
                  /\ pc' = [pc EXCEPT ![j] = "creating"]
                  /\ UNCHANGED <<at, delta, values, tx>>
             [] Fate(j) \in {"direct", "alias"} ->
                  /\ Resolve(j, IF Fate(j) = "direct" THEN k
                                ELSE CHOOSE a \in Matches(j, k) : TRUE, 0)
                  /\ NextEntry(j)
                  /\ UNCHANGED <<chosen, pc, queue, tx>>
             [] OTHER ->
                  /\ Skip(j, Fate(j))
                  /\ NextEntry(j)
                  /\ UNCHANGED <<chosen, pc, queue, values>>
    /\ UNCHANGED <<file, storeVars, row, existing, saved, rankVars, failures>>

\* INSERT ... ON CONFLICT DO NOTHING, and what is there now, be it of another
\* job or inactive.  A slug taken meanwhile fails the statement.
Create(j) ==
    /\ pc[j] = "creating" /\ ~Blocked(j)
    /\ LET k == EntryAt(j).key
           new == ~Exists(AttrsSeen(j), k)
       IN  /\ new => AtLastRow(j)
           /\ IF new /\ \E a \in Keys : AttrsSeen(j)[a].slug = chosen[j]
              THEN FailLine(j, at[j].line, saved[j])
              ELSE /\ Resolve(j, k, 1)
                   /\ NextEntry(j)
                   /\ pc' = [pc EXCEPT ![j] = "entries"]
                   /\ chosen' = [chosen EXCEPT ![j] = "none"]
                   /\ queue' = [queue EXCEPT ![j] = <<>>]
                   /\ tx' = IF ~new THEN tx
                            ELSE [tx EXCEPT
                              ![j].attrs = Over(@, [a \in {k} |-> [active |-> TRUE,
                                                                   slug |-> chosen[j]]]),
                              ![j].locks = Rows(j)]
                   /\ UNCHANGED <<file, storeVars, row, existing, saved, rankVars>>
    /\ UNCHANGED failures

\* The aggregates that exist are read before the upsert, to tell inserts
\* from updates.
MUTANT_Prefetch(j) ==
    /\ pc[j] = "entries" /\ at[j].entry > Len(file[j][at[j].line].entries)
    /\ existing' = [existing EXCEPT ![j] = {k \in Keys : AggSeen(j)[<<HotelAt(j), k>>] # 0}]
    /\ queue' = [queue EXCEPT ![j] = RowsOf(j, "aggregate")]
    /\ pc' = [pc EXCEPT ![j] = "upserting"]
    /\ UNCHANGED <<file, storeVars, row, delta, at, chosen, values, saved, tx, rankVars,
                   failures>>
Prefetch(j) ==
    /\ pc[j] = "entries" /\ at[j].entry > Len(file[j][at[j].line].entries)
    /\ existing' = [existing EXCEPT ![j] = {k \in Resolved(j) : AggSeen(j)[<<HotelAt(j), k>>] # 0}]
    /\ queue' = [queue EXCEPT ![j] = RowsOf(j, "aggregate")]
    /\ pc' = [pc EXCEPT ![j] = "upserting"]
    /\ UNCHANGED <<file, storeVars, row, delta, at, chosen, values, saved, tx, rankVars,
                   failures>>

\* One statement cannot meet a row twice: two entries of one attribute fail it.
Upsert(j) ==
    /\ pc[j] = "upserting" /\ AtLastRow(j)
    /\ IF Cardinality(Resolved(j)) < Len(values[j])
       THEN FailLine(j, at[j].line, saved[j])
       ELSE LET stated == [c \in {HotelAt(j)} \X Resolved(j) |->
                             (CHOOSE v \in Range(values[j]) : v.attr = c[2]).score]
            IN  /\ tx' = [tx EXCEPT ![j].agg = Over(@, stated), ![j].locks = Rows(j)]
                /\ queue' = [queue EXCEPT ![j] = RowsOf(j, "score")]
                /\ delta' = [delta EXCEPT
                      ![j].processed = Len(values[j]),
                      ![j].inserted = Len(values[j]) - Cardinality(existing[j])]
                /\ pc' = [pc EXCEPT ![j] = "propagating"]
                /\ UNCHANGED <<file, storeVars, row, at, chosen, values, existing, saved,
                               rankVars>>
    /\ UNCHANGED failures

\* The scores of the hotel: inserted with their own value; where an aggregate
\* score exists, set to the value of the first row of the statement; a review
\* score stays.
MUTANT_Applies(s) == TRUE
Applies(s) == s.source # "review"
Propagate(j) ==
    /\ pc[j] = "propagating" /\ AtLastRow(j)
    /\ LET h == HotelAt(j)
           old(k) == ScoreSeen(j)[<<h, k>>]
           applied == {v \in Range(values[j]) : Applies(old(v.attr))}
           new(k) == [source   |-> "aggregate",
                      relative |-> Unranked,
                      score    |-> IF old(k).source = "none"
                                   THEN (CHOOSE v \in applied : v.attr = k).score
                                   ELSE values[j][1].score]
           t == [tx[j] EXCEPT
                   !.score = Over(@, [c \in {<<h, v.attr>> : v \in applied} |-> new(c[2])]),
                   !.locks = Rows(j)]
           d == [delta[j] EXCEPT !.applied = Cardinality(applied),
                                 !.passed = Len(values[j]) - Cardinality(applied)]
       IN  DecideLine(j, at[j].line, t, d, IF d.flawed > 0 THEN "flawed" ELSE "good")
    /\ UNCHANGED failures

\* A statement of the hotel fails, by itself or as the victim of a deadlock.
StatementFails(j) ==
    /\ pc[j] \in {"entries", "creating", "upserting", "propagating"}
    /\ \/ Deadlocked(j) /\ UNCHANGED failures
       \/ failures < MaxFailures /\ failures' = failures + 1
    /\ FailLine(j, at[j].line, saved[j])

-----------------------------------------------------------------------------
(* The end of a run                                                        *)

\* The final status commits; the normalization comes after it.
MUTANT_Ranks(r) == r.status = "COMPLETED" /\ r.n["applied"] > 0
Ranks(r) == r.n["applied"] > 0
Finish(j) ==
    /\ pc[j] = "lines" /\ Unread(j) = {}
    /\ LET n == row[j].n
           r == [row[j] EXCEPT !.completed = TRUE,
                               !.status = IF n["failed"] > 0 \/ n["flawed"] > 0
                                          THEN "PARTIAL" ELSE "COMPLETED"]
       IN  /\ Commit(j, tx[j], r)
           /\ row' = [row EXCEPT ![j] = r]
           /\ pc' = [pc EXCEPT ![j] = IF Ranks(r) THEN "listing" ELSE "acking"]
    /\ UNCHANGED <<file, lineVars, queue, todo, pop, excused, failures>>

\* An exception outside the savepoints, a failing commit and the victim of a
\* deadlock among them: what is not committed is rolled back, and FAILED
\* replaces whatever status is.
MarkFailed(j) ==
    /\ pc[j] \in {"lines", "listing", "ranking", "writing"}
    /\ \/ Deadlocked(j) /\ UNCHANGED failures
       \/ failures < MaxFailures /\ failures' = failures + 1
    /\ job' = [job EXCEPT ![j].status = "FAILED"]
    /\ tx' = RolledBack(j) /\ queue' = [queue EXCEPT ![j] = <<>>]
    /\ todo' = [todo EXCEPT ![j] = {}] /\ pop' = [pop EXCEPT ![j] = <<>>]
    /\ taint' = [taint EXCEPT ![j] = {}]
    /\ excused' = excused \cup Unfresh
    /\ pc' = [pc EXCEPT ![j] = "acking"]
    /\ UNCHANGED <<file, attrs, agg, score, verdict, issues, row, lineVars>>

-----------------------------------------------------------------------------
(* Rescoring and normalization                                             *)

Mentions(h) == {c \in Mentioned : c[1] = h}
Recalculated(t) == IF pc[t] = "queued" THEN {c[1] : c \in Mentioned} ELSE todo[t]

\* One hotel with mentions: a statement for each of its scores ...
BeginHotel(t) ==
    /\ t \in Rescorings /\ pc[t] \in {"queued", "recalculating"}
    /\ \E h \in Recalculated(t) :
          /\ todo' = [todo EXCEPT ![t] = Recalculated(t) \ {h}]
          /\ \E q \in Orders(Mentions(h)) : queue' = [queue EXCEPT ![t] = ScoreRows(q)]
    /\ pc' = [pc EXCEPT ![t] = "scoring"]
    /\ UNCHANGED <<file, storeVars, row, lineVars, tx, pop, taint, excused, failures>>

\* ... and one commit, whatever the scores were.
CommitHotel(t) ==
    /\ pc[t] = "scoring" /\ AtLastRow(t)
    /\ score' = Over(score, [c \in HeldScores(t) |->
                               [source |-> "review", score |-> ReviewScore,
                                relative |-> Unranked]])
    /\ Touch({c[2] : c \in HeldScores(t)})
    /\ tx' = [tx EXCEPT ![t] = NoTx] /\ queue' = [queue EXCEPT ![t] = <<>>]
    /\ pc' = [pc EXCEPT ![t] = IF todo[t] = {} THEN "listing" ELSE "recalculating"]
    /\ UNCHANGED <<file, attrs, agg, job, verdict, issues, row, lineVars, todo, pop, excused,
                   failures>>

List(t) ==
    /\ pc[t] = "listing"
    /\ todo' = [todo EXCEPT ![t] = {k \in Keys : DOMAIN Population(k) # {}}]
    /\ pc' = [pc EXCEPT ![t] = "ranking"]
    /\ UNCHANGED <<file, storeVars, row, lineVars, queue, tx, pop, taint, excused, failures>>

ReadPopulation(t) ==
    LET k == CHOOSE k \in todo[t] : TRUE
    IN  /\ pc[t] = "ranking" /\ todo[t] # {}
        /\ todo' = [todo EXCEPT ![t] = @ \ {k}]
        /\ pop' = [pop EXCEPT ![t] = Over(@, [x \in {k} |-> Population(k)])]
        /\ taint' = [taint EXCEPT ![t] = @ \ {k}]
        /\ UNCHANGED <<file, storeVars, pc, row, lineVars, queue, tx, excused, failures>>

\* The scores of the populations that a normalization read, their relative
\* scores, and those for which that is no change.
ReadCells(t) == {c \in Cells : c[2] \in DOMAIN pop[t] /\ c[1] \in DOMAIN pop[t][c[2]]}
Ranked(t, c) == BellCurve(pop[t][c[2]])
Same(t)      == {c \in ReadCells(t) : pop[t][c[2]][c[1]].relative = Ranked(t, c)}

\* One flush: a statement for each row, by identifier, with a column that
\* differs from what was read.  A relative score that did not change may still
\* differ from its rounded column.
BeginFlush(t) ==
    /\ pc[t] = "ranking" /\ todo[t] = {}
    /\ \E rewritten \in SUBSET Same(t) :
          \E q \in ById((ReadCells(t) \ Same(t)) \cup rewritten) :
             queue' = [queue EXCEPT ![t] = ScoreRows(q)]
    /\ pc' = [pc EXCEPT ![t] = "writing"]
    /\ UNCHANGED <<file, storeVars, row, lineVars, tx, rankVars, failures>>

CommitRelative(t) ==
    /\ pc[t] = "writing" /\ AtLastRow(t)
    /\ LET read == DOMAIN pop[t]
       IN  /\ score' = Over(score, [c \in HeldScores(t) |->
                                      [score[c] EXCEPT !.relative = Ranked(t, c)]])
           /\ excused' = (excused \ read) \cup (read \cap taint[t])
           /\ taint' = [u \in Tasks |-> IF u = t THEN {}
                                     ELSE taint[u] \cup (read \cap DOMAIN pop[u])]
    /\ tx' = [tx EXCEPT ![t] = NoTx] /\ queue' = [queue EXCEPT ![t] = <<>>]
    /\ pop' = [pop EXCEPT ![t] = <<>>]
    /\ pc' = [pc EXCEPT ![t] = "acking"]
    /\ UNCHANGED <<file, attrs, agg, job, verdict, issues, row, lineVars, todo, failures>>

\* The run of a rescoring ends with an exception or the death of its task.
GiveUp(t) ==
    /\ t \in Rescorings
    /\ pc[t] \in {"recalculating", "scoring", "listing", "ranking", "writing"}
    /\ \/ Deadlocked(t) /\ UNCHANGED failures
       \/ failures < MaxFailures /\ failures' = failures + 1
    /\ tx' = RolledBack(t) /\ queue' = [queue EXCEPT ![t] = <<>>]
    /\ todo' = [todo EXCEPT ![t] = {}] /\ pop' = [pop EXCEPT ![t] = <<>>]
    /\ taint' = [taint EXCEPT ![t] = {}]
    /\ excused' = excused \cup Unfresh
    /\ pc' = [pc EXCEPT ![t] = "done"]
    /\ UNCHANGED <<file, storeVars, row, lineVars>>

Acknowledge(t) ==
    /\ pc[t] = "acking"
    /\ pc' = [pc EXCEPT ![t] = "done"]
    /\ UNCHANGED <<file, storeVars, row, lineVars, queue, tx, rankVars, failures>>

\* The task of a job dies and its transaction is rolled back: the message
\* comes back, or is acknowledged when it was the time limit.  A job that says
\* COMPLETED will not normalize when it comes back.
Crash(j) ==
    /\ j \in Jobs /\ pc[j] \notin {"queued", "done"} /\ failures < MaxFailures
    /\ failures' = failures + 1
    /\ \/ /\ pc' = [pc EXCEPT ![j] = "queued"]
          /\ excused' = IF /\ job[j].status = "COMPLETED"
                           /\ pc[j] \in {"listing", "ranking", "writing"}
                        THEN excused \cup Unfresh ELSE excused
       \/ /\ pc' = [pc EXCEPT ![j] = "done"]
          /\ excused' = IF pc[j] = "acking" THEN excused ELSE excused \cup Unfresh
    /\ todo' = [todo EXCEPT ![j] = {}] /\ pop' = [pop EXCEPT ![j] = <<>>]
    /\ taint' = [taint EXCEPT ![j] = {}]
    /\ row' = [row EXCEPT ![j] = NewJob]
    /\ delta' = [delta EXCEPT ![j] = Zero]
    /\ at' = [at EXCEPT ![j] = [line |-> 0, entry |-> 0]]
    /\ chosen' = [chosen EXCEPT ![j] = "none"]
    /\ values' = [values EXCEPT ![j] = <<>>]
    /\ existing' = [existing EXCEPT ![j] = {}]
    /\ queue' = [queue EXCEPT ![j] = <<>>]
    /\ tx' = [tx EXCEPT ![j] = NoTx] /\ saved' = [saved EXCEPT ![j] = NoTx]
    /\ UNCHANGED <<file, storeVars>>

-----------------------------------------------------------------------------

ImportLine(j) ==
    \/ Start(j) \/ NextLine(j)
    \/ ReadEntry(j) \/ Create(j) \/ Prefetch(j) \/ Upsert(j) \/ Propagate(j)
    \/ StatementFails(j) \/ Finish(j) \/ MarkFailed(j)

Work(t) ==
    \/ t \in Jobs /\ ImportLine(t)
    \/ TakeRow(t)
    \/ BeginHotel(t) \/ CommitHotel(t) \/ GiveUp(t)
    \/ List(t) \/ ReadPopulation(t) \/ BeginFlush(t) \/ CommitRelative(t)
    \/ Acknowledge(t)

Quiet == \A t \in Tasks : pc[t] = "done"

Next ==
    \/ \E t \in Tasks : Work(t) \/ Crash(t)
    \/ Quiet /\ UNCHANGED vars

Spec == Init /\ [][Next]_vars

-----------------------------------------------------------------------------
(* Properties                                                              *)

\* Type invariant.
TypeOK ==
    /\ attrs \in [Keys -> [active: BOOLEAN, slug: Names \cup Keys \cup {"none"}]]
    /\ agg \in [Cells -> Scores \cup {0}]
    /\ DOMAIN score = Cells
    /\ \A c \in Cells : /\ score[c].source \in {"none", "aggregate", "review"}
                        /\ score[c].score \in Scores \cup {0, ReviewScore}
                        /\ score[c].relative \subseteq Hotels \X (Scores \cup {ReviewScore})
    /\ \A j \in Jobs :
          /\ \A r \in {job[j], row[j]} :
                /\ r.status \in Statuses /\ r.completed \in BOOLEAN
                /\ r.line \in 0 .. Len(file[j]) /\ r.n \in [Counters -> Nat]
          /\ verdict[j] \in [Lines(j) -> Verdicts]
          /\ issues[j] \in [hotel: Nat, attribute: Nat]
          /\ at[j].line \in 0 .. Len(file[j])
          /\ Resolved(j) \subseteq Keys /\ existing[j] \subseteq Resolved(j)
    /\ \A t \in Tasks :
          /\ DOMAIN tx[t].attrs \subseteq Keys
          /\ DOMAIN tx[t].agg \subseteq Cells /\ DOMAIN tx[t].score \subseteq Cells
    /\ pc \in [Tasks -> Steps]
    /\ excused \subseteq Keys /\ taint \in [Tasks -> SUBSET Keys]

\* The committed counters of a job are those of the lines it decided, each
\* once, through batches, rolled-back hotels, deaths and failed runs
\* (_apply_delta, _read_lines): hotels read, matched and failed; attributes
\* seen, skipped for want of mentions, stored or explained by an issue.
Decided(j, vs) == {l \in Lines(j) : verdict[j][l] \in vs}
Stated(j, kinds) ==
    [l \in Lines(j) |-> Cardinality({i \in DOMAIN file[j][l].entries :
                                       file[j][l].entries[i].kind \in kinds})]
Entries(j, kinds) ==
    MapThenSumSet(LAMBDA l : Stated(j, kinds)[l], Decided(j, {"good", "flawed"}))
CountersTellTheFile ==
    \A j \in Jobs :
        LET n == job[j].n
        IN  /\ n["read"] = Cardinality(Decided(j, {"good", "flawed", "failed"}))
            /\ n["matched"] = Cardinality(Decided(j, {"good", "flawed"}))
            /\ n["failed"] = Cardinality(Decided(j, {"failed"}))
            /\ n["failed"] = issues[j].hotel
            /\ n["seen"] = Entries(j, {"good", "zero", "malformed"})
            /\ n["zero"] = Entries(j, {"zero"})
            /\ n["seen"] + Entries(j, {"category"})
                  = n["processed"] + n["zero"] + issues[j].attribute
            /\ n["processed"] = n["applied"] + n["passed"]
            /\ (n["flawed"] > 0) = (Decided(j, {"flawed"}) # {})

\* Taxonomy, aggregates and scores of a hotel are stored together or not at
\* all (begin_nested): every aggregate has its attribute and a score.
HotelIsWhole ==
    \A c \in Cells : agg[c] # 0 => /\ Exists(attrs, c[2])
                                   /\ score[c].source # "none"

\* When all tasks are done, rankings read relative scores computed from the
\* present scores (run, normalize): every attribute whose scores an import or
\* a recalculation changed was normalized after the change.  The exceptions
\* are a task that failed, died or was killed when scores were committed and
\* not yet ranked, and a normalization that overlapped a change of the scores
\* it had read; and they last until the next normalization that meets neither.
RankedOnFreshScores == Quiet => Unfresh \subseteq excused

\* A score recalculated from reviews is never replaced by an imported one
\* (upsert_aggregate_hotel_scores), whenever the recalculation commits.
ReviewScoresStay ==
    [][\A c \in Cells : score[c].source = "review" => score'[c].source = "review"]_vars

\* Each job decides the lines of its file in order and for good, blank ones
\* by passing them, and the final status it stores agrees with the verdicts
\* (ImportLedger).  A run that comes back to a PARTIAL job, or the failure of
\* the normalization after any final status, opens the ledger again.
Ledger(j) == INSTANCE ImportLedger WITH
    Reopened <- {"partial", "complete"},
    total    <- Len(file[j]),
    pos      <- IF job[j].completed THEN Len(file[j]) ELSE job[j].line,
    verdict  <- [l \in Lines(j) |->
                   IF file[j][l].kind = "blank"
                   THEN IF job[j].completed \/ l <= job[j].line THEN "ok" ELSE "open"
                   ELSE CASE verdict[j][l] = "good" -> "ok"
                          [] verdict[j][l] = "open" -> "open"
                          [] OTHER                  -> "bad"],
    state    <- CASE job[j].status = "COMPLETED" -> "complete"
                  [] job[j].status = "PARTIAL"   -> "partial"
                  [] OTHER                       -> "open"
LedgerSpec ==
    /\ \A j \in Jobs : Ledger(j)!Init
    /\ [][\A j \in Jobs : [Ledger(j)!Next]_(Ledger(j)!vars)]_vars

\* Imports, recalculations and normalizations, which take the rows they write
\* one by one and wait for each other's, do not come to a standstill: until
\* all messages are done with, some task waits for no row or can fail as the
\* victim of a deadlock, and a step that is not a failure takes its task
\* nearer to the end and leaves the others where they are.
Waits(t) == Blocked(t) /\ ~Deadlocked(t)
StepsLeft(step) ==
    CASE step = "queued"  -> 6 [] step = "listing" -> 4 [] step = "ranking" -> 3
      [] step = "writing" -> 2 [] step = "acking"  -> 1 [] step = "done"    -> 0
      [] OTHER            -> 5
HotelStepsLeft(step) ==
    CASE step = "lines" -> 3 [] step \in {"entries", "creating"} -> 2
      [] step \in {"upserting", "scoring"} -> 1 [] OTHER -> 0
InPlace(t) == t \in Jobs => row'[t] = row[t] /\ at'[t] = at[t]
Unmoved(t) ==
    pc'[t] = pc[t] /\ todo'[t] = todo[t] /\ queue'[t] = queue[t] /\ InPlace(t)
NearerInFile(j) ==
    \/ row[j].line < row'[j].line /\ row'[j].line <= Len(file[j])
    \/ /\ row'[j].line = row[j].line
       /\ \/ HotelStepsLeft(pc'[j]) < HotelStepsLeft(pc[j])
          \/ /\ HotelStepsLeft(pc'[j]) = HotelStepsLeft(pc[j])
             /\ \/ /\ at[j].entry < at'[j].entry
                   /\ at'[j].entry <= Len(file[j][at[j].line].entries) + 1
                \/ pc[j] = "entries" /\ pc'[j] = "creating" /\ at'[j] = at[j]
Nearer(t) ==
    \/ StepsLeft(pc'[t]) < StepsLeft(pc[t])
    \/ StepsLeft(pc'[t]) = StepsLeft(pc[t]) /\ t \in Jobs /\ NearerInFile(t)
    \/ /\ StepsLeft(pc'[t]) = StepsLeft(pc[t]) /\ InPlace(t)
       /\ todo'[t] \subseteq todo[t] /\ todo'[t] # todo[t]
    \/ pc[t] = "scoring" /\ pc'[t] = "recalculating" /\ todo'[t] = todo[t]
    \/ /\ pc'[t] = pc[t] /\ todo'[t] = todo[t] /\ InPlace(t)
       /\ Len(queue'[t]) < Len(queue[t])
NoStandstill ==
    /\ [](~Quiet => \E t \in Tasks : pc[t] # "done" /\ ~Waits(t))
    /\ [][failures' = failures =>
            \E t \in Tasks : Nearer(t) /\ \A u \in Tasks \ {t} : Unmoved(u)]_vars

\* "The score is stored in the aggregate row and propagated unchanged as
\* raw_score and score_5" (the design document of the import).
PropagatedUnchanged ==
    \A c \in Cells : score[c].source = "aggregate" => score[c].score = agg[c]
=============================================================================
