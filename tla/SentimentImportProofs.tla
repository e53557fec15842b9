------------------------- MODULE SentimentImportProofs -------------------------
(***************************************************************************)
(* For any files, taxonomy, hotels and scores, and any number of jobs,     *)
(* rescorings and failures of SentimentImport:                             *)
(*                                                                         *)
(*   - its types, strengthened with what a run in the middle of a hotel    *)
(*     holds (Typed);                                                      *)
(*   - an aggregate in the database has its attribute and score (Sound);   *)
(*   - no import overwrites a score computed from reviews;                 *)
(*   - no two tasks hold a row, and none holds any that is not writing     *)
(*     (Sessions);                                                         *)
(*   - a ranking is fresh, or a run still owes it the recalculation, or it *)
(*     is one of the exceptions (Fresher);                                 *)
(*   - the counters and issues of a job tell its decided lines and their   *)
(*     entries, each once (Books), and its stored status tells how they    *)
(*     went (Honest), so that every job is an ImportLedger;                *)
(*   - no waits for rows stop the imports, rescorings and normalizations,  *)
(*     and each step brings one nearer its end.                            *)
(***************************************************************************)
EXTENDS SentimentImport, SumTheorems, FiniteSetTheorems, SequenceTheorems, TLAPS

-----------------------------------------------------------------------------
(* Types, strengthened                                                     *)

\* Functions on a part of D: what a transaction wrote of a table.
Partials(D, S) == UNION {[E -> S] : E \in SUBSET D}

Slugs    == Names \cup Keys
Attr     == [active: BOOLEAN, slug: Slugs \cup {"none"}]
NewAttr  == [active: BOOLEAN, slug: Slugs]
Rated    == Scores \cup {ReviewScore}
Relative == SUBSET (Hotels \X Rated)
Row      == [source: {"none", "aggregate", "review"}, score: Rated \cup {0},
             relative: Relative]
Written  == [source: {"aggregate", "review"}, score: Rated, relative: Relative]
Imported == [source: {"aggregate"}, score: Scores, relative: {Unranked}]
JobRow   == [status: Statuses, completed: BOOLEAN, line: Nat, n: [Counters -> Nat]]
Value    == [attr: Keys, score: Scores]
Lock     == UNION {{"attribute"} \X Keys, {"slug"} \X Slugs,
                   {"aggregate", "score"} \X Hotels \X Keys}
Tx       == [attrs: Partials(Keys, NewAttr), agg: Partials(Cells, Scores),
             score: Partials(Cells, Imported), verdict: Partials(Nat, Verdicts),
             hotel: Nat, attribute: Nat, locks: SUBSET Lock]
Curve    == Partials(Hotels, Written)

InHotel == {"entries", "creating", "upserting", "propagating"}

Stores ==
    /\ attrs \in [Keys -> Attr]
    /\ agg \in [Cells -> Scores \cup {0}]
    /\ score \in [Cells -> Row]
    /\ \A c \in Cells : score[c].source # "none" => score[c] \in Written
    /\ job \in [Jobs -> JobRow]
    /\ verdict \in [Jobs -> Partials(Nat, Verdicts)]
    /\ issues \in [Jobs -> [hotel: Nat, attribute: Nat]]

Memories ==
    /\ row \in [Jobs -> JobRow]
    /\ delta \in [Jobs -> [Counters -> Nat]]
    /\ at \in [Jobs -> [line: Nat, entry: Nat]]
    /\ chosen \in [Jobs -> Slugs \cup {"none"}]
    /\ values \in [Jobs -> Seq(Value)]
    /\ existing \in [Jobs -> SUBSET Keys]
    /\ \A j \in Jobs : existing[j] \subseteq Resolved(j)
    /\ queue \in [Tasks -> Seq(Lock)]
    /\ tx \in [Tasks -> Tx] /\ saved \in [Jobs -> Tx]

Normalizations ==
    /\ pc \in [Tasks -> Steps]
    /\ DOMAIN todo = Tasks /\ \A t \in Tasks : pc[t] = "ranking" => todo[t] \subseteq Keys
    /\ \A t \in Tasks : pc[t] \in {"recalculating", "scoring"} => t \in Rescorings
    /\ pop \in [Tasks -> Partials(Keys, Curve)]
    /\ taint \in [Tasks -> SUBSET Keys] /\ excused \subseteq Keys
    /\ failures \in Nat

\* Lines are lines of the file.
InFile(j) ==
    /\ job[j].line <= Len(file[j]) /\ row[j].line <= Len(file[j])
    /\ at[j].line <= Len(file[j])
    /\ DOMAIN verdict[j] = Lines(j)
    /\ DOMAIN tx[j].verdict \subseteq Lines(j) /\ DOMAIN saved[j].verdict \subseteq Lines(j)

\* Inside a savepoint the run is at a hotel, and before it creates an attribute
\* it is at the entry that names it and has its slug.
AtHotel(j) ==
    /\ pc[j] \in InHotel => /\ at[j].line \in Lines(j) /\ at[j].entry >= 1
                            /\ file[j][at[j].line].kind = "hotel"
    /\ pc[j] = "creating" => /\ at[j].entry <= Len(file[j][at[j].line].entries)
                             /\ chosen[j] \in Slugs

Typed ==
    /\ file \in Files
    /\ Stores /\ Memories /\ Normalizations
    /\ \A j \in Jobs : InFile(j) /\ AtHotel(j)

-----------------------------------------------------------------------------
(* What a transaction wrote, over what is committed                        *)

\* The values of a partial function.
LEMMA PartialValues ==
    ASSUME NEW D, NEW S, NEW f \in Partials(D, S)
    PROVE  DOMAIN f \subseteq D /\ \A x \in DOMAIN f : f[x] \in S
  BY DEF Partials

\* A function on a part is one.
LEMMA PartialFunction ==
    ASSUME NEW D, NEW S, NEW E \in SUBSET D, NEW f \in [E -> S]
    PROVE  f \in Partials(D, S)
  BY DEF Partials

\* So is the empty one.
LEMMA EmptyPartial ==
    ASSUME NEW D, NEW S
    PROVE  <<>> \in Partials(D, S) /\ DOMAIN <<>> = {}
<1>1. DOMAIN <<>> = {} /\ <<>> \in [{} -> S]
  OBVIOUS
<1>2. QED
  BY <1>1, PartialFunction

\* One transaction's writes over earlier ones (the savepoint, the session).
LEMMA OverPartial ==
    ASSUME NEW D, NEW S, NEW f \in Partials(D, S), NEW g \in Partials(D, S)
    PROVE  Over(f, g) \in Partials(D, S)
<1>1. Over(f, g) \in [DOMAIN f \cup DOMAIN g -> S]
  BY PartialValues DEF Over
<1>2. DOMAIN f \cup DOMAIN g \subseteq D
  BY PartialValues
<1>3. QED
  BY <1>1, <1>2, PartialFunction

Fits(g, D, S) == DOMAIN g \subseteq D /\ \A x \in DOMAIN g : g[x] \in S

\* What a transaction wrote over the table.
LEMMA OverTotal ==
    ASSUME NEW D, NEW S, NEW f \in [D -> S], NEW g, Fits(g, D, S)
    PROVE  Over(f, g) \in [D -> S]
<1>1. DOMAIN f \cup DOMAIN g = D
  BY DEF Fits
<1>2. QED
  BY <1>1 DEF Over, Fits

-----------------------------------------------------------------------------
(* Values the steps build                                                  *)

\* What a run starts from (ImportCounterDelta(), a session without a transaction).
LEMMA FreshMemory ==
    /\ Zero \in [Counters -> Nat]
    /\ NewJob \in JobRow /\ NewJob.line = 0
    /\ NoTx \in Tx /\ DOMAIN NoTx.verdict = {}
<1>1. Zero \in [Counters -> Nat]
  BY DEF Zero
<1>2. NewJob \in JobRow /\ NewJob.line = 0
  BY <1>1 DEF NewJob, JobRow, Statuses
<1>3. NoTx \in Tx
  <2>1. /\ <<>> \in Partials(Keys, NewAttr) /\ <<>> \in Partials(Cells, Scores)
        /\ <<>> \in Partials(Cells, Imported) /\ <<>> \in Partials(Nat, Verdicts)
    BY EmptyPartial
  <2>2. QED
    BY <2>1 DEF NoTx, Tx
<1>4. DOMAIN NoTx.verdict = {}
  BY EmptyPartial DEF NoTx
<1>5. QED
  BY <1>1, <1>2, <1>3, <1>4

\* Adding up counters (_apply_delta).
LEMMA PlusCounters ==
    ASSUME NEW n \in [Counters -> Nat], NEW d \in [Counters -> Nat]
    PROVE  Plus(n, d) \in [Counters -> Nat]
  BY DEF Plus

\* What a transaction holds, and that it fits the tables.
WrittenBy(t) ==
    /\ DOMAIN t.attrs \subseteq Keys
    /\ \A k \in DOMAIN t.attrs : t.attrs[k] \in NewAttr /\ t.attrs[k] \in Attr
    /\ DOMAIN t.agg \subseteq Cells
    /\ \A c \in DOMAIN t.agg : t.agg[c] \in Scores /\ t.agg[c] \in Scores \cup {0}
    /\ DOMAIN t.score \subseteq Cells
    /\ \A c \in DOMAIN t.score : /\ t.score[c] \in Imported
                                 /\ t.score[c] \in Written /\ t.score[c] \in Row
    /\ DOMAIN t.verdict \subseteq Nat /\ \A l \in DOMAIN t.verdict : t.verdict[l] \in Verdicts
    /\ t.hotel \in Nat /\ t.attribute \in Nat

\* The writes of a transaction are rows of the tables.
LEMMA TxTyped ==
    ASSUME NEW t \in Tx
    PROVE  WrittenBy(t)
<1>1. /\ t.attrs \in Partials(Keys, NewAttr) /\ t.agg \in Partials(Cells, Scores)
      /\ t.score \in Partials(Cells, Imported) /\ t.verdict \in Partials(Nat, Verdicts)
      /\ t.hotel \in Nat /\ t.attribute \in Nat
  BY DEF Tx
<1>2. NewAttr \subseteq Attr /\ Imported \subseteq Written /\ Written \subseteq Row
  BY DEF NewAttr, Attr, Imported, Written, Row, Rated, Relative, Unranked
<1>3. /\ DOMAIN t.attrs \subseteq Keys /\ \A k \in DOMAIN t.attrs : t.attrs[k] \in NewAttr
      /\ DOMAIN t.agg \subseteq Cells /\ \A c \in DOMAIN t.agg : t.agg[c] \in Scores
  BY <1>1, PartialValues
<1>4. /\ DOMAIN t.score \subseteq Cells /\ \A c \in DOMAIN t.score : t.score[c] \in Imported
      /\ DOMAIN t.verdict \subseteq Nat
      /\ \A l \in DOMAIN t.verdict : t.verdict[l] \in Verdicts
  BY <1>1, PartialValues
<1>5. QED
  BY <1>1, <1>2, <1>3, <1>4 DEF WrittenBy

\* The tables with the writes of a transaction, as the transaction itself sees
\* them and as its commit leaves them.
LEMMA WritesFit ==
    ASSUME Stores, NEW t \in Tx
    PROVE  /\ Over(attrs, t.attrs) \in [Keys -> Attr]
           /\ \A k \in Keys : Over(attrs, t.attrs)[k] =
                                IF k \in DOMAIN t.attrs THEN t.attrs[k] ELSE attrs[k]
           /\ Over(agg, t.agg) \in [Cells -> Scores \cup {0}]
           /\ \A c \in Cells : Over(agg, t.agg)[c] =
                                 IF c \in DOMAIN t.agg THEN t.agg[c] ELSE agg[c]
           /\ Over(score, t.score) \in [Cells -> Row]
           /\ \A c \in Cells : Over(score, t.score)[c] =
                                 IF c \in DOMAIN t.score THEN t.score[c] ELSE score[c]
           /\ \A c \in Cells : Over(score, t.score)[c].source # "none" =>
                                 Over(score, t.score)[c] \in Written
<1> DEFINE as == t.attrs
           gs == t.agg
           ss == t.score
           S  == Scores \cup {0}
<1>1. WrittenBy(t)
  BY TxTyped
<1>2. /\ Fits(as, Keys, Attr) /\ Fits(gs, Cells, S) /\ Fits(ss, Cells, Row)
      /\ \A c \in DOMAIN ss : ss[c] \in Written
  BY <1>1 DEF WrittenBy, Fits
<1>3. /\ attrs \in [Keys -> Attr] /\ agg \in [Cells -> S] /\ score \in [Cells -> Row]
      /\ \A c \in Cells : score[c].source # "none" => score[c] \in Written
  BY DEF Stores
<1> HIDE DEF as, gs, ss, S
<1>4. /\ Over(attrs, as) \in [Keys -> Attr] /\ Over(agg, gs) \in [Cells -> S]
      /\ Over(score, ss) \in [Cells -> Row]
  BY <1>2, <1>3, OverTotal, Zenon
<1>5. DOMAIN attrs = Keys /\ DOMAIN agg = Cells /\ DOMAIN score = Cells
  BY <1>3
<1>6. /\ \A k \in Keys : Over(attrs, as)[k] = IF k \in DOMAIN as THEN as[k] ELSE attrs[k]
      /\ \A c \in Cells : Over(agg, gs)[c] = IF c \in DOMAIN gs THEN gs[c] ELSE agg[c]
      /\ \A c \in Cells : Over(score, ss)[c] = IF c \in DOMAIN ss THEN ss[c] ELSE score[c]
  BY <1>5 DEF Over
<1>7. \A c \in Cells : Over(score, ss)[c].source # "none" => Over(score, ss)[c] \in Written
  <2>1. SUFFICES ASSUME NEW c \in Cells, Over(score, ss)[c].source # "none"
                 PROVE  Over(score, ss)[c] \in Written
    OBVIOUS
  <2>2. Over(score, ss)[c] = IF c \in DOMAIN ss THEN ss[c] ELSE score[c]
    BY <1>6
  <2>3. CASE c \in DOMAIN ss
    BY <1>2, <2>2, <2>3
  <2>4. CASE c \notin DOMAIN ss
    <3>1. Over(score, ss)[c] = score[c]
      BY <2>2, <2>4
    <3>2. QED
      BY <1>3, <2>1, <3>1
  <2>5. QED
    BY <2>3, <2>4
<1>8. QED
  BY <1>4, <1>6, <1>7 DEF as, gs, ss, S

\* What the statements of a run read.
LEMMA SeenTyped ==
    ASSUME Typed, NEW j \in Jobs
    PROVE  /\ AttrsSeen(j) \in [Keys -> Attr]
           /\ AggSeen(j) \in [Cells -> Scores \cup {0}]
           /\ ScoreSeen(j) \in [Cells -> Row]
           /\ \A c \in Cells : ScoreSeen(j)[c].source # "none" => ScoreSeen(j)[c] \in Written
<1>1. Stores /\ tx[j] \in Tx
  BY DEF Typed, Memories, Tasks
<1>2. QED
  BY <1>1, WritesFit DEF AttrsSeen, AggSeen, ScoreSeen

\* A line of a hotel has well-formed entries.
LEMMA LineTyped ==
    ASSUME Typed, NEW j \in Jobs, NEW l \in Lines(j)
    PROVE  /\ file[j][l] \in Line /\ file[j] \in Seq(Line) /\ Len(file[j]) \in Nat /\ l \in Nat
           /\ file[j][l].hotel \in Hotels
           /\ Len(file[j][l].entries) \in Nat
           /\ \A i \in 1 .. Len(file[j][l].entries) : file[j][l].entries[i] \in Entry
<1>1. file[j] \in Seq(Line)
  BY SentimentAssumption DEF Typed
<1>2. file[j][l] \in Line /\ Len(file[j]) \in Nat
  BY <1>1, ElementOfSeq, LenProperties DEF Lines
<1>3. file[j][l].hotel \in Hotels /\ file[j][l].entries \in Seq(Entry)
  BY <1>2 DEF Line
<1>4. QED
  BY <1>1, <1>2, <1>3, ElementOfSeq, LenProperties DEF Lines

\* The rows a line has resolved, in the order of the entries.
LEMMA ValuesTyped ==
    ASSUME NEW v \in Seq(Value)
    PROVE  /\ Len(v) \in Nat /\ DOMAIN v = 1 .. Len(v)
           /\ \A i \in DOMAIN v : v[i] \in Value /\ v[i].attr \in Keys /\ v[i].score \in Scores
           /\ Range(v) = {v[i] : i \in DOMAIN v}
           /\ IsFiniteSet(Range(v)) /\ Cardinality(Range(v)) <= Len(v)
<1>1. Len(v) \in Nat /\ DOMAIN v = 1 .. Len(v) /\ v \in [1 .. Len(v) -> Value]
  BY LenProperties
<1>2. \A i \in DOMAIN v : v[i] \in Value /\ v[i].attr \in Keys /\ v[i].score \in Scores
  BY <1>1 DEF Value
<1>3. Range(v) = {v[i] : i \in DOMAIN v}
  BY DEF Range
<1>4. v \in Surjection(1 .. Len(v), Range(v))
  BY <1>1, <1>3 DEF Surjection
<1>5. IsFiniteSet(1 .. Len(v)) /\ Cardinality(1 .. Len(v)) = Len(v)
  BY <1>1, FS_Interval
<1>6. IsFiniteSet(Range(v)) /\ Cardinality(Range(v)) <= Len(v)
  BY <1>4, <1>5, FS_Surjection
<1>7. QED
  BY <1>1, <1>2, <1>3, <1>6

\* Their attributes are no more than they are.
LEMMA ResolvedTyped ==
    ASSUME Typed, NEW j \in Jobs
    PROVE  /\ Resolved(j) \subseteq Keys /\ IsFiniteSet(Resolved(j))
           /\ Cardinality(Resolved(j)) <= Len(values[j])
           /\ Cardinality(existing[j]) \in 0 .. Len(values[j])
<1>1. values[j] \in Seq(Value) /\ existing[j] \subseteq Resolved(j)
  BY DEF Typed, Memories
<1>2. Len(values[j]) \in Nat /\ DOMAIN values[j] = 1 .. Len(values[j])
  BY <1>1, ValuesTyped
<1>3. Resolved(j) \subseteq Keys
  BY <1>1, ValuesTyped DEF Resolved
<1> DEFINE attr == [i \in 1 .. Len(values[j]) |-> values[j][i].attr]
<1>4. attr \in Surjection(1 .. Len(values[j]), Resolved(j))
  BY <1>2 DEF Surjection, Resolved
<1>5. IsFiniteSet(1 .. Len(values[j])) /\ Cardinality(1 .. Len(values[j])) = Len(values[j])
  BY <1>2, FS_Interval
<1>6. IsFiniteSet(Resolved(j)) /\ Cardinality(Resolved(j)) <= Len(values[j])
  <2> HIDE DEF attr
  <2>1. QED
    BY <1>4, <1>5, FS_Surjection
<1>7. /\ IsFiniteSet(existing[j]) /\ Cardinality(existing[j]) <= Cardinality(Resolved(j))
  BY <1>1, <1>6, FS_Subset
<1>8. Cardinality(existing[j]) \in Nat /\ Cardinality(Resolved(j)) \in Nat
  BY <1>6, <1>7, FS_CardinalityType
<1>9. QED
  BY <1>2, <1>3, <1>6, <1>7, <1>8

\* What a normalization reads of an attribute, and what it computes from it.
LEMMA PopulationTyped ==
    ASSUME Typed, NEW k \in Keys
    PROVE  /\ Population(k) \in Curve
           /\ DOMAIN Population(k) = {h \in Hotels : score[<<h, k>>].source # "none"}
<1>1. \A h \in DOMAIN Population(k) : h \in Hotels /\ score[<<h, k>>] \in Written
  BY DEF Typed, Stores, Cells, Population
<1>2. Population(k) \in [DOMAIN Population(k) -> Written]
  BY <1>1 DEF Population
<1>3. DOMAIN Population(k) \subseteq Hotels
  BY <1>1
<1>4. QED
  BY <1>2, <1>3, PartialFunction DEF Curve, Population

\* A relative score is computed from stated or recalculated scores.
LEMMA BellCurveTyped ==
    ASSUME NEW p \in Curve
    PROVE  BellCurve(p) \in Relative
<1>1. DOMAIN p \subseteq Hotels /\ \A h \in DOMAIN p : p[h] \in Written
  BY PartialValues DEF Curve
<1>2. QED
  BY <1>1 DEF BellCurve, Relative, Written
-----------------------------------------------------------------------------
(* Commits and decided lines                                               *)

\* A commit (_checkpoint, run) writes well-typed rows, touches known attributes
\* and leaves the session without a transaction.
LEMMA CommitTyped ==
    ASSUME Typed, NEW j \in Jobs, NEW t \in Tx, DOMAIN t.verdict \subseteq Lines(j),
           NEW r \in JobRow, r.line <= Len(file[j]), Commit(j, t, r)
    PROVE  /\ Stores'
           /\ tx' \in [Tasks -> Tx] /\ tx'[j] = NoTx /\ \A i \in Tasks : i # j => tx'[i] = tx[i]
           /\ taint' \in [Tasks -> SUBSET Keys]
           /\ \A i \in Jobs : DOMAIN verdict'[i] = Lines(i) /\ job'[i].line <= Len(file[i])
<1>1. Stores /\ WrittenBy(t)
  BY TxTyped DEF Typed
<1>2. /\ attrs' \in [Keys -> Attr] /\ agg' \in [Cells -> Scores \cup {0}]
      /\ score' \in [Cells -> Row]
      /\ \A c \in Cells : score'[c].source # "none" => score'[c] \in Written
  BY <1>1, WritesFit DEF Commit
<1>3. job' \in [Jobs -> JobRow] /\ \A i \in Jobs : job'[i].line <= Len(file[i])
  BY <1>1 DEF Commit, Stores, Typed, InFile
<1>4. /\ verdict' \in [Jobs -> Partials(Nat, Verdicts)]
      /\ \A i \in Jobs : DOMAIN verdict'[i] = Lines(i)
  <2>1. verdict \in [Jobs -> Partials(Nat, Verdicts)] /\ t.verdict \in Partials(Nat, Verdicts)
    BY <1>1 DEF Stores, Tx
  <2>2. \A i \in Jobs : DOMAIN verdict[i] = Lines(i)
    BY DEF Typed, InFile
  <2> DEFINE new == Over(verdict[j], t.verdict)
  <2>3. new \in Partials(Nat, Verdicts) /\ DOMAIN new = Lines(j)
    <3>1. verdict[j] \in Partials(Nat, Verdicts)
      BY <2>1
    <3>2. /\ Over(verdict[j], t.verdict) \in Partials(Nat, Verdicts)
          /\ DOMAIN Over(verdict[j], t.verdict) = DOMAIN verdict[j] \cup DOMAIN t.verdict
      <4>1. Over(verdict[j], t.verdict) \in Partials(Nat, Verdicts)
        BY <2>1, <3>1, OverPartial, Zenon
      <4>2. QED
        BY <4>1 DEF Over
    <3>3. QED
      BY <2>2, <3>2
  <2>4. verdict' = [verdict EXCEPT ![j] = new]
    BY DEF Commit
  <2> HIDE DEF new
  <2>5. QED
    BY <2>1, <2>2, <2>3, <2>4
<1>5. issues' \in [Jobs -> [hotel: Nat, attribute: Nat]]
  <2>1. issues \in [Jobs -> [hotel: Nat, attribute: Nat]] /\ t.hotel \in Nat /\ t.attribute \in Nat
    BY <1>1 DEF Stores, WrittenBy
  <2> DEFINE hotels == issues[j].hotel + t.hotel
             attributes == issues[j].attribute + t.attribute
  <2>2. hotels \in Nat /\ attributes \in Nat
    BY <2>1
  <2>3. issues' = [issues EXCEPT ![j].hotel = hotels, ![j].attribute = attributes]
    BY DEF Commit
  <2> HIDE DEF hotels, attributes
  <2>4. QED
    BY <2>1, <2>2, <2>3
<1>6. tx' \in [Tasks -> Tx] /\ tx'[j] = NoTx /\ \A i \in Tasks : i # j => tx'[i] = tx[i]
  BY FreshMemory DEF Commit, Typed, Memories, Tasks
<1>7. taint' \in [Tasks -> SUBSET Keys]
  <2>1. {c[2] : c \in DOMAIN t.score} \subseteq Keys
    BY <1>1 DEF WrittenBy, Cells
  <2>2. QED
    BY <2>1 DEF Commit, Touch, Typed, Normalizations
<1>8. QED
  BY <1>2, <1>3, <1>4, <1>5, <1>6, <1>7 DEF Stores

\* Two transactions that wrote and hold the same.
SameWrites(u, t) ==
    u.attrs = t.attrs /\ u.agg = t.agg /\ u.score = t.score /\ u.locks = t.locks

\* The verdict of a line, added to those the transaction holds.
LEMMA DecidedTx ==
    ASSUME NEW t \in Tx, NEW l \in Nat, NEW v \in Verdicts
    PROVE  LET u == [t EXCEPT !.verdict = Over(@, [x \in {l} |-> v])]
           IN  /\ u \in Tx /\ DOMAIN u.verdict = DOMAIN t.verdict \cup {l}
               /\ u.verdict = Over(t.verdict, [x \in {l} |-> v])
               /\ SameWrites(u, t)
<1> DEFINE new == [x \in {l} |-> v]
<1>1. new \in Partials(Nat, Verdicts) /\ DOMAIN new = {l}
  <2>1. new \in [{l} -> Verdicts] /\ {l} \in SUBSET Nat
    OBVIOUS
  <2>2. QED
    BY <2>1, PartialFunction
<1> DEFINE held == t.verdict
<1>2. held \in Partials(Nat, Verdicts)
  BY DEF Tx
<1> HIDE DEF new, held
<1>3. /\ Over(held, new) \in Partials(Nat, Verdicts)
      /\ DOMAIN Over(held, new) = DOMAIN held \cup {l}
  <2>1. Over(held, new) \in Partials(Nat, Verdicts)
    BY <1>1, <1>2, OverPartial, Zenon
  <2>2. QED
    BY <2>1, <1>1 DEF Over
<1> DEFINE u == [t EXCEPT !.verdict = Over(@, new)]
<1>4. /\ u \in Tx /\ u.verdict = Over(t.verdict, new)
      /\ SameWrites(u, t)
  BY <1>3 DEF Tx, held, SameWrites
<1>5. u = [t EXCEPT !.verdict = Over(@, [x \in {l} |-> v])]
  BY DEF new
<1> HIDE DEF u
<1>6. QED
  BY <1>3, <1>4, <1>5 DEF new, held

\* A decided line (_read_lines) leaves a well-typed run at the next line.
LEMMA DecideLineTyped ==
    ASSUME Typed, NEW j \in Jobs, NEW l \in Lines(j), NEW t \in Tx,
           DOMAIN t.verdict \subseteq Lines(j), NEW d \in [Counters -> Nat], NEW v \in Verdicts,
           DecideLine(j, l, t, d, v), failures' \in Nat
    PROVE  Typed'
<1> DEFINE u == [t EXCEPT !.verdict = Over(@, [x \in {l} |-> v])]
           r == [row[j] EXCEPT !.line = l, !.n = Plus(@, d)]
<1>1. l \in Nat /\ Len(file[j]) \in Nat /\ l <= Len(file[j])
  BY LineTyped DEF Lines
<1>2. u \in Tx /\ DOMAIN u.verdict \subseteq Lines(j)
  <2>1. u \in Tx /\ DOMAIN u.verdict = DOMAIN t.verdict \cup {l}
    BY <1>1, DecidedTx, ZenonT(60)
  <2>2. QED
    BY <2>1
<1>3. r \in JobRow /\ r.line = l
  BY <1>1, PlusCounters DEF Typed, Memories, JobRow
<1>4. /\ row' = [row EXCEPT ![j] = r] /\ pc' = [pc EXCEPT ![j] = "lines"]
      /\ delta' = [delta EXCEPT ![j] = Zero]
      /\ at' = [at EXCEPT ![j] = [line |-> 0, entry |-> 0]]
      /\ chosen' = [chosen EXCEPT ![j] = "none"] /\ values' = [values EXCEPT ![j] = <<>>]
      /\ existing' = [existing EXCEPT ![j] = {}] /\ saved' = [saved EXCEPT ![j] = NoTx]
      /\ queue' = [queue EXCEPT ![j] = <<>>] /\ UNCHANGED <<file, todo, pop, excused>>
      /\ \/ Commit(j, u, r)
         \/ tx' = [tx EXCEPT ![j] = u] /\ UNCHANGED <<storeVars, taint>>
  BY DEF DecideLine
<1> HIDE DEF u, r
<1>5. /\ Stores' /\ tx' \in [Tasks -> Tx] /\ taint' \in [Tasks -> SUBSET Keys]
      /\ \A i \in Jobs : DOMAIN verdict'[i] = Lines(i) /\ job'[i].line <= Len(file[i])
      /\ \A i \in Jobs : DOMAIN tx'[i].verdict \subseteq Lines(i)
  <2>1. /\ tx \in [Tasks -> Tx] /\ Jobs \subseteq Tasks
        /\ \A i \in Jobs : DOMAIN tx[i].verdict \subseteq Lines(i)
    BY DEF Typed, Memories, InFile, Tasks
  <2>2. CASE Commit(j, u, r)
    <3>1. /\ Stores' /\ tx' \in [Tasks -> Tx] /\ taint' \in [Tasks -> SUBSET Keys]
          /\ tx'[j] = NoTx /\ \A i \in Tasks : i # j => tx'[i] = tx[i]
          /\ \A i \in Jobs : DOMAIN verdict'[i] = Lines(i) /\ job'[i].line <= Len(file[i])
      BY <1>1, <1>2, <1>3, <2>2, CommitTyped
    <3>2. QED
      BY <2>1, <3>1, FreshMemory
  <2>3. CASE tx' = [tx EXCEPT ![j] = u] /\ UNCHANGED <<storeVars, taint>>
    <3>1. tx' \in [Tasks -> Tx] /\ \A i \in Jobs : DOMAIN tx'[i].verdict \subseteq Lines(i)
      BY <1>2, <2>1, <2>3
    <3>2. Stores' /\ taint' \in [Tasks -> SUBSET Keys]
      BY <2>3 DEF Typed, Stores, Normalizations, storeVars
    <3>3. \A i \in Jobs : DOMAIN verdict'[i] = Lines(i) /\ job'[i].line <= Len(file[i])
      BY <2>3 DEF Typed, InFile, storeVars
    <3>4. QED
      BY <3>1, <3>2, <3>3
  <2>4. QED
    BY <1>4, <2>2, <2>3
<1>6. Memories'
  <2>1. /\ row' \in [Jobs -> JobRow] /\ delta' \in [Jobs -> [Counters -> Nat]]
        /\ at' \in [Jobs -> [line: Nat, entry: Nat]]
        /\ chosen' \in [Jobs -> Slugs \cup {"none"}] /\ saved' \in [Jobs -> Tx]
    BY <1>3, <1>4, FreshMemory DEF Typed, Memories
  <2>2. /\ values' \in [Jobs -> Seq(Value)] /\ existing' \in [Jobs -> SUBSET Keys]
    BY <1>4 DEF Typed, Memories
  <2>4. queue' \in [Tasks -> Seq(Lock)]
    <3>1. queue \in [Tasks -> Seq(Lock)] /\ <<>> \in Seq(Lock)
      BY DEF Typed, Memories
    <3>2. QED
      BY <1>4, <3>1
  <2>3. \A i \in Jobs : existing'[i] \subseteq {values'[i][n].attr : n \in DOMAIN values'[i]}
    BY <1>4 DEF Typed, Memories, Resolved
  <2>5. QED
    BY <1>5, <2>1, <2>2, <2>3, <2>4 DEF Memories, Resolved
<1>7. Normalizations'
  BY <1>4, <1>5 DEF Typed, Normalizations, Tasks, Steps
<1>8. \A i \in Jobs : InFile(i)'
  <2>1. file' = file /\ \A i \in Jobs : row'[i].line <= Len(file[i]) /\ at'[i].line <= Len(file[i])
    BY <1>1, <1>3, <1>4 DEF Typed, Memories, InFile
  <2>2. \A i \in Jobs : DOMAIN saved'[i].verdict \subseteq Lines(i)
    BY <1>4, FreshMemory DEF Typed, Memories, InFile
  <2>3. QED
    BY <1>5, <2>1, <2>2 DEF InFile, Lines
<1>9. \A i \in Jobs : AtHotel(i)'
  BY <1>4 DEF Typed, AtHotel, Normalizations, Memories, Tasks, InHotel, Lines
<1>10. QED
  BY <1>4, <1>5, <1>6, <1>7, <1>8, <1>9 DEF Typed

\* A line that fails (run) is decided like any other, whatever the hotel wrote.
LEMMA FailLineTyped ==
    ASSUME Typed, NEW j \in Jobs, NEW l \in Lines(j), NEW t \in Tx,
           DOMAIN t.verdict \subseteq Lines(j), FailLine(j, l, t), failures' \in Nat
    PROVE  Typed'
<1> DEFINE u == [t EXCEPT !.hotel = @ + 1]
           d == [Zero EXCEPT !.read = 1, !.failed = 1]
<1>1. u \in Tx /\ u.verdict = t.verdict
  BY DEF Tx
<1>2. d \in [Counters -> Nat] /\ "failed" \in Verdicts
  BY FreshMemory DEF Counters, Verdicts
<1>3. DecideLine(j, l, u, d, "failed")
  BY DEF FailLine
<1> HIDE DEF u, d
<1>4. DOMAIN u.verdict \subseteq Lines(j)
  BY <1>1
<1>5. QED
  BY <1>1, <1>2, <1>3, <1>4, DecideLineTyped

-----------------------------------------------------------------------------
(* Steps inside a hotel                                                    *)

\* A step of one hotel writes nothing that is committed and is one run's own.
HotelStep(j) ==
    /\ UNCHANGED <<file, storeVars, row, rankVars>> /\ failures' \in Nat
    /\ pc' \in [Tasks -> Steps] /\ pc'[j] \in InHotel
    /\ \A t \in Tasks : t # j => pc'[t] = pc[t]
    /\ \A i \in Jobs : i # j => /\ at'[i] = at[i] /\ chosen'[i] = chosen[i]
                                /\ saved'[i] = saved[i] /\ values'[i] = values[i]
    /\ \A t \in Tasks : t # j => tx'[t] = tx[t] /\ queue'[t] = queue[t]

\* It leaves the run well-typed when it leaves its memory so.
LEMMA HotelStepTyped ==
    ASSUME Typed, NEW j \in Jobs, HotelStep(j), Memories', AtHotel(j)',
           DOMAIN tx'[j].verdict \subseteq Lines(j), DOMAIN saved'[j].verdict \subseteq Lines(j)
    PROVE  Typed'
<1>1. Stores' /\ file' = file
  BY DEF HotelStep, Typed, Stores, storeVars
<1>2. Normalizations'
  BY DEF HotelStep, Typed, Normalizations, rankVars, InHotel, Tasks
<1>3. AtHotel(j)' => at'[j].line <= Len(file[j])
  BY <1>1, LineTyped DEF AtHotel, HotelStep, Lines
<1>4. InFile(j)'
  <2>1. /\ job'[j].line <= Len(file[j]) /\ row'[j].line <= Len(file[j])
        /\ DOMAIN verdict'[j] = Lines(j)
    BY DEF HotelStep, Typed, InFile, storeVars
  <2>2. QED
    BY <1>1, <1>3, <2>1 DEF InFile, Lines
<1>5. ASSUME NEW i \in Jobs, i # j PROVE InFile(i)' /\ AtHotel(i)'
  <2>1. InFile(i) /\ AtHotel(i)
    BY DEF Typed
  <2>2. /\ job'[i] = job[i] /\ row'[i] = row[i] /\ verdict'[i] = verdict[i] /\ at'[i] = at[i]
        /\ chosen'[i] = chosen[i] /\ tx'[i] = tx[i] /\ saved'[i] = saved[i] /\ pc'[i] = pc[i]
    BY <1>5 DEF HotelStep, storeVars, Tasks
  <2>3. QED
    BY <1>1, <2>1, <2>2 DEF InFile, AtHotel, Lines
<1>6. QED
  BY <1>1, <1>2, <1>4, <1>5 DEF Typed

\* The entry a run is at.
LEMMA EntryTyped ==
    ASSUME Typed, NEW j \in Jobs, pc[j] \in InHotel
    PROVE  /\ at[j].line \in Lines(j) /\ at[j].line \in Nat /\ at[j].entry \in Nat
           /\ HotelAt(j) \in Hotels
           /\ at[j].entry <= Len(file[j][at[j].line].entries) =>
                 /\ EntryAt(j).key \in Keys /\ EntryAt(j).score \in Scores
                 /\ EntryAt(j).kind \in {"good", "zero", "malformed", "category"}
<1>1. at[j].line \in Lines(j) /\ at[j].entry >= 1 /\ at[j] \in [line: Nat, entry: Nat]
  BY DEF Typed, AtHotel, Memories
<1>2. /\ file[j][at[j].line].hotel \in Hotels
      /\ Len(file[j][at[j].line].entries) \in Nat
      /\ \A i \in 1 .. Len(file[j][at[j].line].entries) :
            file[j][at[j].line].entries[i] \in Entry
  BY <1>1, LineTyped
<1>3. ASSUME at[j].entry <= Len(file[j][at[j].line].entries) PROVE EntryAt(j) \in Entry
  <2>1. at[j].entry \in 1 .. Len(file[j][at[j].line].entries)
    BY <1>1, <1>2, <1>3
  <2>2. QED
    BY <1>2, <2>1 DEF EntryAt
<1>4. /\ at[j].line \in Nat /\ at[j].entry \in Nat /\ HotelAt(j) \in Hotels
  BY <1>1, <1>2 DEF HotelAt
<1>5. QED
  BY <1>1, <1>3, <1>4 DEF Entry

\* The rows of the attribute a run is about to create.
LEMMA NewRowsTyped ==
    ASSUME Typed, NEW j \in Jobs, pc[j] = "entries",
           at[j].entry <= Len(file[j][at[j].line].entries), NEW slug \in Slugs
    PROVE  <<AttributeRow(EntryAt(j).key), SlugRow(slug)>> \in Seq(Lock)
<1>1. EntryAt(j).key \in Keys
  BY EntryTyped DEF InHotel
<1>2. AttributeRow(EntryAt(j).key) \in Lock /\ SlugRow(slug) \in Lock
  BY <1>1 DEF AttributeRow, SlugRow, Lock
<1>3. QED
  BY <1>2

\* The rows of the inserts of a hotel, and those that scores are written to.
LEMMA RowsTyped ==
    /\ \A c \in Cells : RowAt("aggregate", c) \in Lock /\ ScoreRow(c) \in Lock
    /\ Typed => \A j \in Jobs : pc[j] \in InHotel =>
                   RowsOf(j, "aggregate") \in Seq(Lock) /\ RowsOf(j, "score") \in Seq(Lock)
    /\ \A S \in SUBSET Cells : \A q \in Orders(S) :
          /\ ScoreRows(q) \in Seq(Lock) /\ Range(ScoreRows(q)) = {ScoreRow(c) : c \in S}
          /\ \A i \in DOMAIN ScoreRows(q) : ScoreRows(q)[i] = ScoreRow(q[i]) /\ q[i] \in S
<1>1. ASSUME NEW c \in Cells PROVE RowAt("aggregate", c) \in Lock /\ ScoreRow(c) \in Lock
  BY DEF Cells, RowAt, ScoreRow, Lock
<1>2. ASSUME Typed, NEW j \in Jobs, pc[j] \in InHotel
      PROVE  RowsOf(j, "aggregate") \in Seq(Lock) /\ RowsOf(j, "score") \in Seq(Lock)
  <2>1. HotelAt(j) \in Hotels /\ values[j] \in Seq(Value)
    BY <1>2, EntryTyped DEF Typed, Memories
  <2>2. /\ Len(values[j]) \in Nat /\ DOMAIN values[j] = 1 .. Len(values[j])
        /\ \A i \in DOMAIN values[j] : values[j][i].attr \in Keys
    BY <2>1, ValuesTyped
  <2>3. \A i \in DOMAIN values[j] : <<HotelAt(j), values[j][i].attr>> \in Cells
    BY <2>1, <2>2 DEF Cells
  <2>4. /\ RowsOf(j, "aggregate") \in [1 .. Len(values[j]) -> Lock]
        /\ RowsOf(j, "score") \in [1 .. Len(values[j]) -> Lock]
    BY <1>1, <2>2, <2>3 DEF RowsOf, ScoreRow
  <2>5. QED
    BY <2>2, <2>4, SeqDef
<1>3. ASSUME NEW S \in SUBSET Cells, NEW q \in Orders(S)
      PROVE  /\ ScoreRows(q) \in Seq(Lock) /\ Range(ScoreRows(q)) = {ScoreRow(c) : c \in S}
             /\ \A i \in DOMAIN ScoreRows(q) : ScoreRows(q)[i] = ScoreRow(q[i]) /\ q[i] \in S
  <2> DEFINE n == Cardinality(S)
  <2>1. q \in [1 .. n -> S] /\ {q[i] : i \in DOMAIN q} = S
    BY DEF Orders, Range
  <2>2. n \in Nat
    BY SentimentAssumption, FS_Subset, FS_CardinalityType
  <2> HIDE DEF n
  <2>3. /\ DOMAIN q = 1 .. n /\ \A i \in 1 .. n : q[i] \in S /\ ScoreRow(q[i]) \in Lock
    BY <1>1, <2>1
  <2>4. ScoreRows(q) = [i \in 1 .. n |-> ScoreRow(q[i])]
    BY <2>3 DEF ScoreRows
  <2>5. ScoreRows(q) \in Seq(Lock)
    BY <2>2, <2>3, <2>4, SeqDef
  <2>6. Range(ScoreRows(q)) = {ScoreRow(c) : c \in S}
    BY <2>1, <2>3, <2>4 DEF Range
  <2>7. QED
    BY <2>3, <2>4, <2>5, <2>6
<1>4. QED
  BY <1>1, <1>2, <1>3

\* The rows a task has to do with: it takes one it had to take.
SameRows(t) == Rows(t)' = Rows(t)

\* What a task holds, and is about to.
LEMMA RowsHeldTyped ==
    ASSUME Typed, NEW t \in Tasks
    PROVE  /\ Rows(t) \in SUBSET Lock /\ tx[t].locks \subseteq Rows(t)
           /\ Range(queue[t]) \subseteq Rows(t) /\ queue[t] \in Seq(Lock)
<1>1. queue[t] \in Seq(Lock) /\ tx[t] \in Tx
  BY DEF Typed, Memories
<1>2. Range(queue[t]) \subseteq Lock /\ tx[t].locks \subseteq Lock
  BY <1>1, LenProperties DEF Range, Tx
<1>3. QED
  BY <1>1, <1>2 DEF Rows

\* A resolved entry joins the values of the hotel.
LEMMA ResolveTyped ==
    ASSUME Typed, NEW j \in Jobs, NEW a \in Keys, NEW created \in Nat,
           EntryAt(j).score \in Scores, Resolve(j, a, created)
    PROVE  /\ values' \in [Jobs -> Seq(Value)] /\ delta' \in [Jobs -> [Counters -> Nat]]
           /\ Resolved(j)' = Resolved(j) \cup {a}
           /\ \A i \in Jobs : i # j => values'[i] = values[i]
<1> DEFINE new == [attr |-> a, score |-> EntryAt(j).score]
           old == values[j]
<1>1. old \in Seq(Value) /\ values \in [Jobs -> Seq(Value)] /\ new \in Value /\ new.attr = a
  BY DEF Typed, Memories, Value
<1>2. values' = [values EXCEPT ![j] = Append(old, new)]
  BY DEF Resolve
<1> HIDE DEF new, old
<1>3. /\ Append(old, new) \in Seq(Value) /\ Len(Append(old, new)) = Len(old) + 1
      /\ \A n \in 1 .. Len(old) : Append(old, new)[n] = old[n]
      /\ Append(old, new)[Len(old) + 1] = new
  BY <1>1, AppendProperties
<1>4. /\ values' \in [Jobs -> Seq(Value)] /\ values'[j] = Append(old, new)
      /\ \A i \in Jobs : i # j => values'[i] = values[i]
  BY <1>1, <1>2, <1>3
<1>5. /\ Len(old) \in Nat /\ DOMAIN old = 1 .. Len(old)
      /\ DOMAIN Append(old, new) = 1 .. Len(old) + 1
  BY <1>1, <1>3, LenProperties
<1>6. {Append(old, new)[n].attr : n \in DOMAIN Append(old, new)}
         = {old[n].attr : n \in DOMAIN old} \cup {a}
  <2> DEFINE both == Append(old, new)
  <2>1. /\ \A n \in DOMAIN old : n \in DOMAIN both /\ both[n] = old[n]
        /\ Len(old) + 1 \in DOMAIN both /\ both[Len(old) + 1].attr = a
        /\ \A n \in DOMAIN both : n \in DOMAIN old \/ n = Len(old) + 1
    BY <1>1, <1>3, <1>5
  <2> HIDE DEF both
  <2>2. {both[n].attr : n \in DOMAIN both} = {old[n].attr : n \in DOMAIN old} \cup {a}
    BY <2>1
  <2>3. QED
    BY <2>2 DEF both
<1>7. Resolved(j)' = Resolved(j) \cup {a}
  BY <1>4, <1>6 DEF Resolved, old
<1>8. delta' \in [Jobs -> [Counters -> Nat]]
  <2> DEFINE seen == delta[j].seen + 1
             more == delta[j].created + created
  <2>4. /\ delta \in [Jobs -> [Counters -> Nat]]
        /\ "seen" \in Counters /\ "created" \in Counters
    BY DEF Typed, Memories, Counters
  <2>1. seen \in Nat /\ more \in Nat
    BY <2>4
  <2>2. delta' = [delta EXCEPT ![j].seen = seen, ![j].created = more]
    BY DEF Resolve
  <2> HIDE DEF seen, more
  <2>3. QED
    BY <2>1, <2>2, <2>4
<1>9. QED
  BY <1>4, <1>7, <1>8

\* An entry that is not stored only counts.
LEMMA SkipTyped ==
    ASSUME Typed, NEW j \in Jobs, NEW fate, Skip(j, fate)
    PROVE  /\ delta' \in [Jobs -> [Counters -> Nat]] /\ tx' \in [Tasks -> Tx]
           /\ tx'[j].verdict = tx[j].verdict
           /\ \A i \in Tasks : i # j => tx'[i] = tx[i]
           /\ SameWrites(tx'[j], tx[j])
<1>1. /\ delta \in [Jobs -> [Counters -> Nat]] /\ tx \in [Tasks -> Tx]
      /\ "seen" \in Counters /\ "zero" \in Counters /\ "flawed" \in Counters
  BY DEF Typed, Memories, Counters
<1> DEFINE seen == IF fate = "category" THEN delta[j].seen ELSE delta[j].seen + 1
           zero == IF fate = "zero" THEN delta[j].zero + 1 ELSE delta[j].zero
           flawed == IF fate \in {"category", "malformed", "ambiguous"} THEN delta[j].flawed + 1
                     ELSE delta[j].flawed
           n == IF fate = "zero" THEN tx[j].attribute ELSE tx[j].attribute + 1
<1>2. delta[j].seen \in Nat /\ delta[j].zero \in Nat /\ delta[j].flawed \in Nat
  BY <1>1
<1>3. seen \in Nat /\ zero \in Nat /\ flawed \in Nat
  BY <1>2
<1>4. tx[j] \in Tx /\ tx[j].attribute \in Nat /\ j \in Tasks
  BY <1>1 DEF Tx, Tasks
<1>5. n \in Nat
  BY <1>4
<1>6. /\ delta' = [delta EXCEPT ![j].seen = seen, ![j].zero = zero, ![j].flawed = flawed]
      /\ tx' = [tx EXCEPT ![j].attribute = n]
  BY DEF Skip
<1> HIDE DEF seen, zero, flawed, n
<1>7. delta' \in [Jobs -> [Counters -> Nat]]
  BY <1>1, <1>3, <1>6
<1> DEFINE new == [tx[j] EXCEPT !.attribute = n]
<1>8. /\ new \in Tx /\ new.verdict = tx[j].verdict
      /\ SameWrites(new, tx[j])
  BY <1>4, <1>5 DEF Tx, SameWrites
<1>9. tx' = [tx EXCEPT ![j] = new]
  BY <1>6
<1> HIDE DEF new
<1>10. QED
  BY <1>1, <1>4, <1>7, <1>8, <1>9

\* What an entry resolves to is a known attribute.
LEMMA MatchTyped ==
    ASSUME Typed, NEW j \in Jobs, NEW k \in Keys
    PROVE  /\ Matches(j, k) \subseteq Keys
           /\ Cardinality(Matches(j, k)) = 1 => \E a \in Matches(j, k) : TRUE
<1>1. AliasOf[k] \subseteq Keys
  BY SentimentAssumption
<1>2. Matches(j, k) = {} => Cardinality(Matches(j, k)) = 0
  BY FS_EmptySet
<1>3. QED
  BY <1>1, <1>2 DEF Matches

\* Reading an entry (_import_hotel) stores, skips or is about to create.
LEMMA ReadEntryStep ==
    ASSUME Typed, NEW j \in Jobs, ReadEntry(j)
    PROVE  /\ Typed' /\ HotelStep(j) /\ pc'[j] \in {"entries", "creating"} /\ UNCHANGED saved
           /\ SameWrites(tx'[j], tx[j])
           /\ \A a \in Resolved(j)' : a \in Resolved(j) \/ AttrsSeen(j)[a].active
<1> DEFINE k == EntryAt(j).key
           new == IF NameOf[k] \notin {AttrsSeen(j)[a].slug : a \in Keys} THEN NameOf[k] ELSE k
           rows == <<AttributeRow(k), SlugRow(new)>>
           hit == IF Fate(j) = "direct" THEN k ELSE CHOOSE a \in Matches(j, k) : TRUE
<1>1. /\ pc[j] = "entries" /\ at[j].entry <= Len(file[j][at[j].line].entries)
      /\ UNCHANGED <<file, storeVars, row, existing, saved, rankVars, failures>>
  BY DEF ReadEntry
<1>2. /\ k \in Keys /\ EntryAt(j).score \in Scores
      /\ EntryAt(j).kind \in {"good", "zero", "malformed", "category"}
      /\ at[j].line \in Lines(j) /\ at[j].line \in Nat /\ at[j].entry \in Nat
  BY <1>1, EntryTyped DEF InHotel
<1>12. \/ /\ chosen' = [chosen EXCEPT ![j] = new] /\ pc' = [pc EXCEPT ![j] = "creating"]
          /\ queue' = [queue EXCEPT ![j] = <<AttributeRow(k), SlugRow(chosen'[j])>>]
          /\ UNCHANGED <<at, delta, values, tx>>
       \/ /\ Fate(j) \in {"direct", "alias"} /\ Resolve(j, hit, 0)
          /\ NextEntry(j) /\ UNCHANGED <<chosen, pc, queue, tx>>
       \/ Skip(j, Fate(j)) /\ NextEntry(j) /\ UNCHANGED <<chosen, pc, queue, values>>
  BY DEF ReadEntry
<1>3. \/ /\ chosen' = [chosen EXCEPT ![j] = new] /\ pc' = [pc EXCEPT ![j] = "creating"]
         /\ queue' = [queue EXCEPT ![j] = rows] /\ UNCHANGED <<at, delta, values, tx>>
      \/ /\ Fate(j) \in {"direct", "alias"} /\ Resolve(j, hit, 0)
         /\ NextEntry(j) /\ UNCHANGED <<chosen, pc, queue, tx>>
      \/ Skip(j, Fate(j)) /\ NextEntry(j) /\ UNCHANGED <<chosen, pc, queue, values>>
  <2> HIDE DEF hit, new
  <2>1. DOMAIN chosen = Jobs
    BY DEF Typed, Memories
  <2>2. QED
    BY <1>12, <2>1
<1>4. new \in Slugs /\ (Fate(j) \in {"direct", "alias"} => /\ hit \in Keys
                                                           /\ AttrsSeen(j)[hit].active)
  <2>1. NameOf[k] \in Names
    BY <1>2, SentimentAssumption
  <2>2. Fate(j) = "alias" => Cardinality(Matches(j, k)) = 1
    BY <1>2 DEF Fate
  <2>3. Fate(j) = "direct" => AttrsSeen(j)[k].active
    BY <1>2 DEF Fate
  <2>4. Fate(j) = "alias" => hit \in Matches(j, k)
    BY <1>2, <2>2, MatchTyped
  <2>5. \A a \in Matches(j, k) : a \in Keys /\ AttrsSeen(j)[a].active
    BY <1>2, MatchTyped DEF Matches
  <2>6. new \in Slugs
    BY <1>2, <2>1 DEF Slugs
  <2>7. QED
    BY <1>2, <2>3, <2>4, <2>5, <2>6
<1>11. rows \in Seq(Lock)
  BY <1>1, <1>4, NewRowsTyped
<1> HIDE DEF k, new, hit, rows
<1>5. Memories /\ pc \in [Tasks -> Steps] /\ failures \in Nat /\ j \in Tasks
      /\ DOMAIN tx[j].verdict \subseteq Lines(j) /\ DOMAIN saved[j].verdict \subseteq Lines(j)
      /\ AtHotel(j)
  BY DEF Typed, Normalizations, InFile, Tasks
<1>6. ASSUME NextEntry(j)
      PROVE  /\ at' \in [Jobs -> [line: Nat, entry: Nat]] /\ at'[j].line = at[j].line
             /\ at'[j].entry >= 1 /\ \A i \in Jobs : i # j => at'[i] = at[i]
  <2> DEFINE place == [at[j] EXCEPT !.entry = @ + 1]
  <2>4. at[j] \in [line: Nat, entry: Nat]
    BY <1>5 DEF Memories
  <2>1. place \in [line: Nat, entry: Nat] /\ place.line = at[j].line /\ place.entry >= 1
    BY <2>4
  <2>2. at' = [at EXCEPT ![j] = place] /\ at \in [Jobs -> [line: Nat, entry: Nat]]
    BY <1>5, <1>6 DEF NextEntry, Memories
  <2> HIDE DEF place
  <2>3. QED
    BY <2>1, <2>2
<1>7. CASE /\ chosen' = [chosen EXCEPT ![j] = new] /\ pc' = [pc EXCEPT ![j] = "creating"]
           /\ queue' = [queue EXCEPT ![j] = rows] /\ UNCHANGED <<at, delta, values, tx>>
  <2>1. HotelStep(j) /\ Memories'
    BY <1>1, <1>4, <1>5, <1>7, <1>11 DEF HotelStep, Memories, Steps, InHotel, Resolved
  <2>2. AtHotel(j)'
    BY <1>1, <1>4, <1>5, <1>7 DEF AtHotel, Memories, InHotel, Lines
  <2>3. Resolved(j)' = Resolved(j)
    BY <1>7 DEF Resolved
  <2>4. Typed'
    BY <1>1, <1>5, <1>7, <2>1, <2>2, HotelStepTyped
  <2>5. QED
    BY <1>1, <1>5, <1>7, <2>1, <2>3, <2>4 DEF SameWrites
<1>8. CASE /\ Fate(j) \in {"direct", "alias"} /\ Resolve(j, hit, 0)
           /\ NextEntry(j) /\ UNCHANGED <<chosen, pc, queue, tx>>
  <2>1. /\ values' \in [Jobs -> Seq(Value)] /\ delta' \in [Jobs -> [Counters -> Nat]]
        /\ Resolved(j)' = Resolved(j) \cup {hit}
        /\ \A i \in Jobs : i # j => values'[i] = values[i]
    BY <1>2, <1>4, <1>8, ResolveTyped
  <2>2. \A i \in Jobs : Resolved(i) \subseteq Resolved(i)'
    <3>1. ASSUME NEW i \in Jobs, i # j PROVE Resolved(i)' = Resolved(i)
      BY <2>1, <3>1 DEF Resolved
    <3>2. QED
      BY <2>1, <3>1
  <2>3. HotelStep(j) /\ Memories'
    BY <1>1, <1>5, <1>6, <1>8, <2>1, <2>2 DEF HotelStep, Memories, InHotel
  <2>4. AtHotel(j)'
    BY <1>1, <1>5, <1>6, <1>8 DEF AtHotel, InHotel, Lines
  <2>5. Typed'
    BY <1>1, <1>5, <1>8, <2>3, <2>4, HotelStepTyped
  <2>6. QED
    BY <1>1, <1>4, <1>5, <1>8, <2>1, <2>3, <2>5 DEF SameWrites
<1>9. CASE Skip(j, Fate(j)) /\ NextEntry(j) /\ UNCHANGED <<chosen, pc, queue, values>>
  <2>1. /\ delta' \in [Jobs -> [Counters -> Nat]] /\ tx' \in [Tasks -> Tx]
        /\ tx'[j].verdict = tx[j].verdict /\ \A i \in Tasks : i # j => tx'[i] = tx[i]
        /\ SameWrites(tx'[j], tx[j])
    BY <1>9, SkipTyped
  <2>2. HotelStep(j) /\ Memories'
    BY <1>1, <1>5, <1>6, <1>9, <2>1 DEF HotelStep, Memories, InHotel, Resolved
  <2>3. AtHotel(j)'
    BY <1>1, <1>5, <1>6, <1>9 DEF AtHotel, InHotel, Lines
  <2>4. Resolved(j)' = Resolved(j)
    BY <1>9 DEF Resolved
  <2>5. Typed'
    BY <1>1, <1>5, <2>1, <2>2, <2>3, HotelStepTyped
  <2>6. QED
    BY <1>1, <1>5, <1>9, <2>1, <2>2, <2>4, <2>5
<1>10. QED
  BY <1>3, <1>7, <1>8, <1>9

\* The attribute an import creates (create_attribute).
Fresh(j) == [a \in {EntryAt(j).key} |-> [active |-> TRUE, slug |-> chosen[j]]]

\* Creating an attribute fails the line, or leaves the attribute resolved.
LEMMA CreateStep ==
    ASSUME Typed, NEW j \in Jobs, Create(j)
    PROVE  /\ Typed'
           /\ \/ FailLine(j, at[j].line, saved[j])
              \/ /\ HotelStep(j) /\ pc'[j] = "entries"
                 /\ Resolved(j)' = Resolved(j) \cup {EntryAt(j).key} /\ EntryAt(j).key \in Keys
                 /\ \/ tx'[j].locks = tx[j].locks
                    \/ AtLastRow(j) /\ tx'[j].locks = Rows(j)
                 /\ tx[j].locks \subseteq tx'[j].locks
                 /\ tx'[j].agg = tx[j].agg /\ tx'[j].score = tx[j].score
                 /\ \/ Exists(AttrsSeen(j), EntryAt(j).key) /\ tx'[j].attrs = tx[j].attrs
                    \/ tx'[j].attrs = Over(tx[j].attrs, Fresh(j))
                 /\ UNCHANGED saved
<1> DEFINE k == EntryAt(j).key
           new == ~Exists(AttrsSeen(j), k)
           written == [tx[j] EXCEPT !.attrs = Over(@, Fresh(j)), !.locks = Rows(j)]
<1>1. pc[j] = "creating" /\ UNCHANGED failures
  BY DEF Create
<1>2. \/ FailLine(j, at[j].line, saved[j])
      \/ /\ Resolve(j, k, 1) /\ NextEntry(j) /\ pc' = [pc EXCEPT ![j] = "entries"]
         /\ chosen' = [chosen EXCEPT ![j] = "none"]
         /\ queue' = [queue EXCEPT ![j] = <<>>]
         /\ \/ ~new /\ tx' = tx
            \/ AtLastRow(j) /\ tx' = [tx EXCEPT ![j] = written]
         /\ UNCHANGED <<file, storeVars, row, existing, saved, rankVars>>
  BY DEF Create, Fresh
<1>3. /\ Memories /\ pc \in [Tasks -> Steps] /\ failures \in Nat /\ j \in Tasks
      /\ DOMAIN tx[j].verdict \subseteq Lines(j) /\ DOMAIN saved[j].verdict \subseteq Lines(j)
      /\ AtHotel(j) /\ saved[j] \in Tx /\ tx[j] \in Tx
  BY DEF Typed, Normalizations, InFile, Tasks, Memories
<1>4. at[j].line \in Lines(j) /\ k \in Keys /\ EntryAt(j).score \in Scores /\ chosen[j] \in Slugs
  BY <1>1, <1>3, EntryTyped DEF InHotel, AtHotel
<1>5. CASE FailLine(j, at[j].line, saved[j])
  BY <1>1, <1>3, <1>4, <1>5, FailLineTyped
<1>6. CASE /\ Resolve(j, k, 1) /\ NextEntry(j) /\ pc' = [pc EXCEPT ![j] = "entries"]
           /\ chosen' = [chosen EXCEPT ![j] = "none"]
           /\ queue' = [queue EXCEPT ![j] = <<>>]
           /\ \/ ~new /\ tx' = tx
              \/ AtLastRow(j) /\ tx' = [tx EXCEPT ![j] = written]
           /\ UNCHANGED <<file, storeVars, row, existing, saved, rankVars>>
  <2>1. Fresh(j) \in Partials(Keys, NewAttr)
    <3>1. Fresh(j) \in [{k} -> NewAttr] /\ {k} \in SUBSET Keys
      BY <1>4 DEF Fresh, NewAttr
    <3>2. QED
      BY <3>1, PartialFunction
  <2>2. Rows(j) \in SUBSET Lock /\ tx[j].locks \subseteq Rows(j)
    BY <1>3, RowsHeldTyped
  <2>3. /\ written \in Tx /\ written.attrs = Over(tx[j].attrs, Fresh(j))
        /\ written.agg = tx[j].agg /\ written.score = tx[j].score
        /\ written.verdict = tx[j].verdict /\ tx[j].locks \subseteq written.locks
        /\ written.locks = Rows(j)
    <3> DEFINE t == tx[j]
               old == t.attrs
               as == Over(old, Fresh(j))
               held == Rows(j)
    <3>1. /\ t \in Tx /\ old \in Partials(Keys, NewAttr) /\ held \in SUBSET Lock
          /\ t.locks \subseteq held
      BY <1>3, <2>2 DEF Tx
    <3>2. written = [t EXCEPT !.attrs = as, !.locks = held]
      OBVIOUS
    <3> HIDE DEF t, old, held
    <3>3. as \in Partials(Keys, NewAttr)
      BY <2>1, <3>1, OverPartial, Zenon
    <3> HIDE DEF as, written
    <3>4. /\ written \in Tx /\ written.attrs = as /\ written.agg = t.agg
          /\ written.score = t.score /\ written.verdict = t.verdict
          /\ t.locks \subseteq written.locks /\ written.locks = held
      BY <3>1, <3>2, <3>3 DEF Tx
    <3>5. QED
      BY <3>4 DEF as, old, t, held
  <2>4. /\ values' \in [Jobs -> Seq(Value)] /\ delta' \in [Jobs -> [Counters -> Nat]]
        /\ Resolved(j)' = Resolved(j) \cup {k}
        /\ \A i \in Jobs : i # j => values'[i] = values[i]
    BY <1>4, <1>6, ResolveTyped
  <2>5. \A i \in Jobs : Resolved(i) \subseteq Resolved(i)'
    <3>1. ASSUME NEW i \in Jobs, i # j PROVE Resolved(i)' = Resolved(i)
      BY <2>4, <3>1 DEF Resolved
    <3>2. QED
      BY <2>4, <3>1
  <2>6. /\ at' \in [Jobs -> [line: Nat, entry: Nat]] /\ at'[j].line = at[j].line
        /\ at'[j].entry >= 1 /\ \A i \in Jobs : i # j => at'[i] = at[i]
    <3> DEFINE place == [at[j] EXCEPT !.entry = @ + 1]
    <3>1. at[j] \in [line: Nat, entry: Nat] /\ at \in [Jobs -> [line: Nat, entry: Nat]]
      BY <1>3 DEF Memories
    <3>2. place \in [line: Nat, entry: Nat] /\ place.line = at[j].line /\ place.entry >= 1
      BY <3>1
    <3>3. at' = [at EXCEPT ![j] = place]
      BY <1>6 DEF NextEntry
    <3> HIDE DEF place
    <3>4. QED
      BY <3>1, <3>2, <3>3
  <2> HIDE DEF written, k, new
  <2>7. /\ tx' \in [Tasks -> Tx] /\ \A i \in Tasks : i # j => tx'[i] = tx[i]
        /\ tx'[j].verdict = tx[j].verdict
        /\ tx'[j].agg = tx[j].agg /\ tx'[j].score = tx[j].score
        /\ tx[j].locks \subseteq tx'[j].locks
        /\ tx'[j].locks = tx[j].locks \/ (AtLastRow(j) /\ tx'[j].locks = Rows(j))
        /\ \/ ~new /\ tx'[j].attrs = tx[j].attrs
           \/ tx'[j].attrs = Over(tx[j].attrs, Fresh(j))
    BY <1>3, <1>6, <2>3 DEF Memories
  <2>8. HotelStep(j) /\ Memories'
    <3>1. queue' \in [Tasks -> Seq(Lock)] /\ \A t \in Tasks : t # j => queue'[t] = queue[t]
      <4>1. queue \in [Tasks -> Seq(Lock)] /\ <<>> \in Seq(Lock)
        BY <1>3 DEF Memories
      <4>2. QED
        BY <1>6, <4>1
    <3>2. QED
      BY <1>1, <1>3, <1>6, <2>4, <2>5, <2>6, <2>7, <3>1 DEF HotelStep, Memories, Steps, InHotel
  <2>9. AtHotel(j)'
    BY <1>1, <1>3, <1>6, <2>6 DEF AtHotel, InHotel, Lines
  <2>10. Typed'
    BY <1>3, <1>6, <2>7, <2>8, <2>9, HotelStepTyped
  <2>11. QED
    BY <1>3, <1>4, <1>6, <2>4, <2>7, <2>8, <2>10 DEF k, new
<1>7. QED
  BY <1>2, <1>5, <1>6

\* Looking for the aggregates of the hotel (existing_aggregate_ids) only remembers.
LEMMA PrefetchStep ==
    ASSUME Typed, NEW j \in Jobs, Prefetch(j)
    PROVE  Typed' /\ HotelStep(j) /\ UNCHANGED <<tx, saved, values>>
<1>1. /\ Memories /\ pc \in [Tasks -> Steps] /\ failures \in Nat /\ j \in Tasks
      /\ DOMAIN tx[j].verdict \subseteq Lines(j) /\ DOMAIN saved[j].verdict \subseteq Lines(j)
      /\ AtHotel(j)
  BY DEF Typed, Normalizations, InFile, Tasks
<1> DEFINE found == {k \in Resolved(j) : AggSeen(j)[<<HotelAt(j), k>>] # 0}
           rows == RowsOf(j, "aggregate")
<1>2. /\ pc[j] = "entries" /\ pc' = [pc EXCEPT ![j] = "upserting"]
      /\ existing' = [existing EXCEPT ![j] = found]
      /\ queue' = [queue EXCEPT ![j] = rows]
      /\ UNCHANGED <<file, storeVars, row, delta, at, chosen, values, saved, tx, rankVars,
                     failures>>
  BY DEF Prefetch
<1>3. found \subseteq Resolved(j) /\ Resolved(j) \subseteq Keys
  BY ResolvedTyped
<1>8. rows \in Seq(Lock)
  BY <1>2, RowsTyped DEF InHotel
<1> HIDE DEF found, rows
<1>4. HotelStep(j)
  BY <1>1, <1>2 DEF HotelStep, Steps, InHotel
<1>5. Memories'
  <2>1. \A i \in Jobs : Resolved(i)' = Resolved(i)
    BY <1>2 DEF Resolved
  <2>2. /\ existing' \in [Jobs -> SUBSET Keys]
        /\ \A i \in Jobs : existing'[i] \subseteq Resolved(i)
    BY <1>1, <1>2, <1>3 DEF Memories
  <2>3. QED
    BY <1>1, <1>2, <1>8, <2>1, <2>2 DEF Memories
<1>6. AtHotel(j)'
  BY <1>1, <1>2 DEF AtHotel, InHotel, Lines
<1>7. QED
  BY <1>1, <1>2, <1>4, <1>5, <1>6, HotelStepTyped

\* Storing the aggregates (bulk_upsert_aggregates) fails the line, or adds exactly those of
\* the attributes the hotel states.
LEMMA UpsertStep ==
    ASSUME Typed, NEW j \in Jobs, Upsert(j)
    PROVE  /\ Typed'
           /\ \/ FailLine(j, at[j].line, saved[j])
              \/ /\ HotelStep(j) /\ pc'[j] = "propagating"
                 /\ tx'[j].attrs = tx[j].attrs /\ tx'[j].score = tx[j].score
                 /\ DOMAIN tx'[j].agg = DOMAIN tx[j].agg \cup ({HotelAt(j)} \X Resolved(j))
                 /\ AtLastRow(j) /\ tx'[j].locks = Rows(j) /\ tx[j].locks \subseteq tx'[j].locks
                 /\ queue'[j] = RowsOf(j, "score")
                 /\ UNCHANGED <<at, saved, values>>
<1> DEFINE chosenScore(c) == (CHOOSE v \in Range(values[j]) : v.attr = c[2]).score
           cells == {HotelAt(j)} \X Resolved(j)
           stated == [c \in cells |-> chosenScore(c)]
           written == [tx[j] EXCEPT !.agg = Over(@, stated), !.locks = Rows(j)]
           rows == RowsOf(j, "score")
           processed == Len(values[j])
           inserted == Len(values[j]) - Cardinality(existing[j])
<1>1. pc[j] = "upserting" /\ UNCHANGED failures /\ AtLastRow(j)
  BY DEF Upsert
<1>2. \/ FailLine(j, at[j].line, saved[j])
      \/ /\ tx' = [tx EXCEPT ![j].agg = Over(@, stated), ![j].locks = Rows(j)]
         /\ queue' = [queue EXCEPT ![j] = rows]
         /\ delta' = [delta EXCEPT ![j].processed = processed, ![j].inserted = inserted]
         /\ pc' = [pc EXCEPT ![j] = "propagating"]
         /\ UNCHANGED <<file, storeVars, row, at, chosen, values, existing, saved, rankVars>>
  BY DEF Upsert
<1>3. /\ Memories /\ pc \in [Tasks -> Steps] /\ failures \in Nat /\ j \in Tasks
      /\ DOMAIN tx[j].verdict \subseteq Lines(j) /\ DOMAIN saved[j].verdict \subseteq Lines(j)
      /\ AtHotel(j) /\ saved[j] \in Tx /\ tx[j] \in Tx /\ tx \in [Tasks -> Tx]
      /\ delta \in [Jobs -> [Counters -> Nat]] /\ values[j] \in Seq(Value)
  BY DEF Typed, Normalizations, InFile, Tasks, Memories
<1>4. at[j].line \in Lines(j) /\ HotelAt(j) \in Hotels
  BY <1>1, EntryTyped DEF InHotel
<1>5. CASE FailLine(j, at[j].line, saved[j])
  BY <1>1, <1>3, <1>4, <1>5, FailLineTyped
<1>6. CASE /\ tx' = [tx EXCEPT ![j].agg = Over(@, stated), ![j].locks = Rows(j)]
           /\ queue' = [queue EXCEPT ![j] = rows]
           /\ delta' = [delta EXCEPT ![j].processed = processed, ![j].inserted = inserted]
           /\ pc' = [pc EXCEPT ![j] = "propagating"]
           /\ UNCHANGED <<file, storeVars, row, at, chosen, values, existing, saved, rankVars>>
  <2>1. stated \in Partials(Cells, Scores) /\ DOMAIN stated = cells
    <3>1. Resolved(j) \subseteq Keys
      BY ResolvedTyped
    <3>2. cells \subseteq Cells
      BY <1>4, <3>1 DEF Cells
    <3>3. ASSUME NEW c \in cells PROVE chosenScore(c) \in Scores
      <4>1. c[2] \in Resolved(j)
        OBVIOUS
      <4>2. \E v \in Range(values[j]) : v.attr = c[2]
        BY <1>3, <4>1, ValuesTyped DEF Resolved
      <4>3. \A v \in Range(values[j]) : v.score \in Scores
        BY <1>3, ValuesTyped
      <4>4. QED
        BY <4>2, <4>3
    <3> HIDE DEF chosenScore, cells
    <3>4. stated \in [cells -> Scores] /\ DOMAIN stated = cells
      BY <3>3
    <3>5. QED
      BY <3>2, <3>4, PartialFunction
  <2>2. Rows(j) \in SUBSET Lock /\ tx[j].locks \subseteq Rows(j) /\ rows \in Seq(Lock)
    BY <1>1, <1>3, RowsHeldTyped, RowsTyped DEF InHotel
  <2>3. /\ written \in Tx /\ written.attrs = tx[j].attrs /\ written.score = tx[j].score
        /\ written.verdict = tx[j].verdict /\ DOMAIN written.agg = DOMAIN tx[j].agg \cup cells
        /\ tx[j].locks \subseteq written.locks /\ written.locks = Rows(j)
    <3> HIDE DEF stated, cells
    <3> DEFINE t == tx[j]
               old == t.agg
               gs == Over(old, stated)
               held == Rows(j)
    <3>1. /\ t \in Tx /\ old \in Partials(Cells, Scores) /\ held \in SUBSET Lock
          /\ t.locks \subseteq held
      BY <1>3, <2>2 DEF Tx
    <3>2. written = [t EXCEPT !.agg = gs, !.locks = held]
      OBVIOUS
    <3> HIDE DEF t, old, held
    <3>3. gs \in Partials(Cells, Scores)
      BY <2>1, <3>1, OverPartial, Zenon
    <3>4. DOMAIN gs = DOMAIN old \cup cells
      BY <2>1 DEF Over
    <3> HIDE DEF gs, written
    <3>5. /\ written \in Tx /\ written.agg = gs /\ written.attrs = t.attrs
          /\ written.score = t.score /\ written.verdict = t.verdict
          /\ t.locks \subseteq written.locks /\ written.locks = held
      BY <3>1, <3>2, <3>3 DEF Tx
    <3>6. QED
      BY <3>4, <3>5 DEF old, t, held
  <2>4. tx' = [tx EXCEPT ![j] = written]
    BY <1>6
  <2>5. processed \in Nat /\ inserted \in Nat /\ "processed" \in Counters /\ "inserted" \in Counters
    <3>1. Len(values[j]) \in Nat
      BY <1>3, ValuesTyped
    <3>2. Cardinality(existing[j]) \in 0 .. Len(values[j])
      BY ResolvedTyped
    <3>3. QED
      BY <3>1, <3>2 DEF Counters
  <2> HIDE DEF written, stated, processed, inserted, rows
  <2>6. delta' \in [Jobs -> [Counters -> Nat]]
    BY <1>3, <1>6, <2>5
  <2>7. /\ tx' \in [Tasks -> Tx] /\ tx'[j] = written /\ \A i \in Tasks : i # j => tx'[i] = tx[i]
    BY <1>3, <2>3, <2>4
  <2>8. HotelStep(j) /\ pc'[j] = "propagating"
    BY <1>1, <1>3, <1>6, <2>7 DEF HotelStep, Steps, InHotel
  <2>9. Memories'
    <3>1. queue' \in [Tasks -> Seq(Lock)]
      BY <1>3, <1>6, <2>2 DEF Memories
    <3>2. QED
      BY <1>3, <1>6, <2>6, <2>7, <3>1 DEF Memories, Resolved
  <2>10. AtHotel(j)'
    BY <1>1, <1>3, <1>6 DEF AtHotel, InHotel, Lines
  <2>11. Typed'
    BY <1>3, <1>6, <2>3, <2>7, <2>8, <2>9, <2>10, HotelStepTyped
  <2>13. queue'[j] = rows
    BY <1>3, <1>6 DEF Memories
  <2>12. QED
    BY <1>1, <1>6, <2>3, <2>7, <2>8, <2>11, <2>13 DEF rows
<1>7. QED
  BY <1>2, <1>5, <1>6

\* The resolved rows of the hotel whose score is not one recalculated from reviews.
Applied(j) == {v \in Range(values[j]) : Applies(ScoreSeen(j)[<<HotelAt(j), v.attr>>])}
AppliedCells(j) == {<<HotelAt(j), v.attr>> : v \in Applied(j)}

\* Propagating a hotel's rows (upsert_aggregate_hotel_scores) writes the scores of
\* exactly the applied ones and decides the line.
LEMMA PropagateStep ==
    ASSUME Typed, NEW j \in Jobs, Propagate(j)
    PROVE  /\ Typed' /\ AtLastRow(j)
           /\ \E t \in Tx, d \in [Counters -> Nat], v \in {"flawed", "good"} :
                 /\ DecideLine(j, at[j].line, t, d, v)
                 /\ t.attrs = tx[j].attrs /\ t.agg = tx[j].agg /\ t.verdict = tx[j].verdict
                 /\ t.hotel = tx[j].hotel /\ t.attribute = tx[j].attribute
                 /\ t.locks = Rows(j)
                 /\ DOMAIN t.score = DOMAIN tx[j].score \cup AppliedCells(j)
                 /\ d["applied"] = Cardinality(Applied(j))
                 /\ d["applied"] + d["passed"] = Len(values[j])
                 /\ \A c \in Counters \ {"applied", "passed"} : d[c] = delta[j][c]
                 /\ v = IF d["flawed"] > 0 THEN "flawed" ELSE "good"
           /\ IsFiniteSet(Applied(j)) /\ AppliedCells(j) \subseteq {HotelAt(j)} \X Resolved(j)
<1> DEFINE h == HotelAt(j)
           old(k) == ScoreSeen(j)[<<h, k>>]
           value(k) == IF old(k).source = "none"
                       THEN (CHOOSE v \in Applied(j) : v.attr = k).score ELSE values[j][1].score
           new(k) == [source |-> "aggregate", relative |-> Unranked, score |-> value(k)]
           scored == [c \in AppliedCells(j) |-> new(c[2])]
           t == [tx[j] EXCEPT !.score = Over(@, scored), !.locks = Rows(j)]
           applied == Cardinality(Applied(j))
           passed == Len(values[j]) - applied
           d == [delta[j] EXCEPT !.applied = applied, !.passed = passed]
           v == IF d.flawed > 0 THEN "flawed" ELSE "good"
<1>1. pc[j] = "propagating" /\ UNCHANGED failures /\ AtLastRow(j)
      /\ DecideLine(j, at[j].line, t, d, v)
  BY DEF Propagate, Applied, AppliedCells
<1>2. /\ failures \in Nat /\ tx[j] \in Tx /\ DOMAIN tx[j].verdict \subseteq Lines(j)
      /\ delta[j] \in [Counters -> Nat] /\ values[j] \in Seq(Value)
  BY DEF Typed, Normalizations, InFile, Memories, Tasks
<1>3. at[j].line \in Lines(j) /\ h \in Hotels /\ Rows(j) \in SUBSET Lock
  BY <1>1, EntryTyped, RowsHeldTyped DEF InHotel, Tasks
<1>4. /\ Len(values[j]) \in Nat /\ IsFiniteSet(Range(values[j]))
      /\ Cardinality(Range(values[j])) <= Len(values[j])
      /\ \A w \in Range(values[j]) : /\ w.attr \in Resolved(j) /\ w.attr \in Keys
                                     /\ w.score \in Scores
      /\ Range(values[j]) # {} => values[j][1].score \in Scores
  BY <1>2, ValuesTyped DEF Resolved
<1>5. Applied(j) \subseteq Range(values[j])
  BY DEF Applied
<1>6. /\ IsFiniteSet(Applied(j)) /\ applied \in Nat /\ passed \in Nat
      /\ applied + passed = Len(values[j])
  <2>1. IsFiniteSet(Applied(j)) /\ applied <= Cardinality(Range(values[j])) /\ applied \in Nat
    BY <1>4, <1>5, FS_Subset, FS_CardinalityType
  <2>2. Cardinality(Range(values[j])) \in Nat
    BY <1>4, FS_CardinalityType
  <2> HIDE DEF applied
  <2>3. QED
    BY <1>4, <2>1, <2>2
<1>7. AppliedCells(j) \subseteq {HotelAt(j)} \X Resolved(j) /\ AppliedCells(j) \subseteq Cells
  BY <1>3, <1>4, <1>5 DEF AppliedCells, Cells
<1>8. scored \in Partials(Cells, Imported) /\ DOMAIN scored = AppliedCells(j)
  <2>1. ASSUME NEW c \in AppliedCells(j) PROVE new(c[2]) \in Imported
    <3>1. PICK w \in Applied(j) : c = <<HotelAt(j), w.attr>>
      BY DEF AppliedCells
    <3>2. (CHOOSE x \in Applied(j) : x.attr = c[2]).score \in Scores
      BY <1>4, <1>5, <3>1
    <3>3. values[j][1].score \in Scores
      BY <1>4, <1>5
    <3>4. value(c[2]) \in Scores
      BY <3>2, <3>3
    <3> HIDE DEF value
    <3>5. QED
      BY <3>4 DEF Imported
  <2> HIDE DEF new
  <2>2. scored \in [AppliedCells(j) -> Imported] /\ DOMAIN scored = AppliedCells(j)
    BY <2>1
  <2>3. QED
    BY <1>7, <2>2, PartialFunction
<1>9. /\ t \in Tx /\ t.attrs = tx[j].attrs /\ t.agg = tx[j].agg /\ t.verdict = tx[j].verdict
      /\ DOMAIN t.score = DOMAIN tx[j].score \cup AppliedCells(j)
      /\ t.hotel = tx[j].hotel /\ t.attribute = tx[j].attribute
      /\ t.locks = Rows(j)
  <2> HIDE DEF scored
  <2> DEFINE tj == tx[j]
             was == tj.score
             ss == Over(was, scored)
             held == Rows(j)
  <2>1. tj \in Tx /\ was \in Partials(Cells, Imported) /\ held \in SUBSET Lock
    BY <1>2, <1>3 DEF Tx
  <2>2. t = [tj EXCEPT !.score = ss, !.locks = held]
    OBVIOUS
  <2> HIDE DEF tj, was, held
  <2>3. ss \in Partials(Cells, Imported)
    BY <1>8, <2>1, OverPartial, Zenon
  <2>4. DOMAIN ss = DOMAIN was \cup AppliedCells(j)
    BY <1>8 DEF Over
  <2> HIDE DEF ss, t
  <2>5. /\ t \in Tx /\ t.score = ss /\ t.attrs = tj.attrs /\ t.agg = tj.agg
        /\ t.verdict = tj.verdict /\ t.locks = held
        /\ t.hotel = tj.hotel /\ t.attribute = tj.attribute
    BY <2>1, <2>2, <2>3 DEF Tx
  <2>6. QED
    BY <2>4, <2>5 DEF was, tj, held
<1>10. /\ d \in [Counters -> Nat] /\ d["applied"] = applied /\ d["passed"] = passed
       /\ \A c \in Counters \ {"applied", "passed"} : d[c] = delta[j][c]
  <2> HIDE DEF applied, passed
  <2>1. "applied" \in Counters /\ "passed" \in Counters
    BY DEF Counters
  <2>2. QED
    BY <1>2, <1>6, <2>1
<1>11. v \in {"flawed", "good"} /\ v = IF d["flawed"] > 0 THEN "flawed" ELSE "good"
  OBVIOUS
<1> HIDE DEF t, d, v, scored
<1>12. Typed'
  <2>1. DOMAIN t.verdict \subseteq Lines(j) /\ v \in Verdicts /\ failures' \in Nat
    BY <1>1, <1>2, <1>9, <1>11 DEF Verdicts
  <2>2. QED
    BY <1>1, <1>3, <1>9, <1>10, <2>1, DecideLineTyped
<1>13. QED
  BY <1>1, <1>6, <1>7, <1>9, <1>10, <1>11, <1>12

\* The next line (_read_lines) opens a savepoint for its hotel, or fails at once.
LEMMA NextLineStep ==
    ASSUME Typed, NEW j \in Jobs, NextLine(j)
    PROVE  /\ Typed'
           /\ \/ \E l \in Unread(j) : FailLine(j, l, tx[j]) /\ \A m \in Unread(j) : l <= m
              \/ /\ HotelStep(j) /\ pc'[j] = "entries" /\ tx' = tx /\ saved'[j] = tx[j]
                 /\ values' = values
                 /\ at'[j].line \in Unread(j) /\ \A m \in Unread(j) : at'[j].line <= m
<1>1. PICK l \in Unread(j) :
         /\ pc[j] = "lines" /\ \A m \in Unread(j) : l <= m
         /\ \/ /\ file[j][l].kind = "hotel"
               /\ pc' = [pc EXCEPT ![j] = "entries"]
               /\ at' = [at EXCEPT ![j] = [line |-> l, entry |-> 1]]
               /\ delta' = [delta EXCEPT ![j] = [Zero EXCEPT !.read = 1, !.matched = 1]]
               /\ saved' = [saved EXCEPT ![j] = tx[j]]
               /\ UNCHANGED <<file, storeVars, row, chosen, values, existing, queue, tx,
                              rankVars>>
            \/ FailLine(j, l, tx[j])
         /\ UNCHANGED failures
  BY DEF NextLine
<1>2. /\ Memories /\ pc \in [Tasks -> Steps] /\ failures \in Nat /\ j \in Tasks
      /\ DOMAIN tx[j].verdict \subseteq Lines(j) /\ tx[j] \in Tx
  BY DEF Typed, Normalizations, InFile, Tasks, Memories
<1>3. l \in Lines(j) /\ l \in Nat
  BY LineTyped DEF Unread
<1>4. CASE FailLine(j, l, tx[j])
  BY <1>1, <1>2, <1>3, <1>4, FailLineTyped
<1>5. CASE /\ file[j][l].kind = "hotel"
           /\ pc' = [pc EXCEPT ![j] = "entries"]
           /\ at' = [at EXCEPT ![j] = [line |-> l, entry |-> 1]]
           /\ delta' = [delta EXCEPT ![j] = [Zero EXCEPT !.read = 1, !.matched = 1]]
           /\ saved' = [saved EXCEPT ![j] = tx[j]]
           /\ UNCHANGED <<file, storeVars, row, chosen, values, existing, queue, tx, rankVars>>
  <2> DEFINE place == [line |-> l, entry |-> 1]
             n == [Zero EXCEPT !.read = 1, !.matched = 1]
  <2>1. place \in [line: Nat, entry: Nat] /\ place.line = l /\ place.entry = 1
    BY <1>3
  <2>2. n \in [Counters -> Nat]
    BY FreshMemory
  <2>3. at' = [at EXCEPT ![j] = place] /\ delta' = [delta EXCEPT ![j] = n]
    BY <1>5
  <2> HIDE DEF place, n
  <2>4. /\ at' \in [Jobs -> [line: Nat, entry: Nat]] /\ at'[j] = place
        /\ \A i \in Jobs : i # j => at'[i] = at[i]
    BY <1>2, <2>1, <2>3 DEF Memories
  <2>5. /\ saved' \in [Jobs -> Tx] /\ saved'[j] = tx[j]
        /\ \A i \in Jobs : i # j => saved'[i] = saved[i]
    BY <1>2, <1>5 DEF Memories
  <2>6. HotelStep(j) /\ pc'[j] = "entries"
    BY <1>1, <1>2, <1>5, <2>4, <2>5 DEF HotelStep, Steps, InHotel
  <2>7. Memories'
    <3>1. \A i \in Jobs : Resolved(i)' = Resolved(i)
      BY <1>5 DEF Resolved
    <3>2. delta' \in [Jobs -> [Counters -> Nat]]
      BY <1>2, <2>2, <2>3 DEF Memories
    <3>3. QED
      BY <1>2, <1>5, <2>4, <2>5, <3>1, <3>2 DEF Memories
  <2>8. AtHotel(j)'
    BY <1>3, <1>5, <2>1, <2>4, <2>6 DEF AtHotel, InHotel, Lines
  <2>9. Typed'
    BY <1>2, <1>5, <2>5, <2>6, <2>7, <2>8, HotelStepTyped
  <2>10. QED
    BY <1>1, <1>5, <2>1, <2>4, <2>5, <2>6, <2>9
<1>6. QED
  BY <1>1, <1>4, <1>5

\* A failing statement takes the hotel back.
LEMMA StatementFailsStep ==
    ASSUME Typed, NEW j \in Jobs, StatementFails(j)
    PROVE  Typed' /\ FailLine(j, at[j].line, saved[j])
<1>1. /\ FailLine(j, at[j].line, saved[j]) /\ pc[j] \in InHotel
      /\ UNCHANGED failures \/ failures' = failures + 1
  BY DEF StatementFails, InHotel
<1>2. /\ failures \in Nat /\ saved[j] \in Tx /\ DOMAIN saved[j].verdict \subseteq Lines(j)
  BY DEF Typed, Normalizations, InFile, Memories
<1>3. at[j].line \in Lines(j) /\ failures' \in Nat
  BY <1>1, <1>2, EntryTyped
<1>4. QED
  BY <1>1, <1>2, <1>3, FailLineTyped

-----------------------------------------------------------------------------
(* The other steps of a job                                                *)

\* A task that leaves the line loop, or is not in a hotel, keeps its place.
LEMMA OutsideTyped ==
    ASSUME Typed, file' = file, Stores', Memories', Normalizations',
           \A i \in Jobs : /\ job'[i].line <= Len(file[i]) /\ row'[i].line <= Len(file[i])
                           /\ at'[i].line <= Len(file[i]) /\ DOMAIN verdict'[i] = Lines(i)
                           /\ DOMAIN tx'[i].verdict \subseteq Lines(i)
                           /\ DOMAIN saved'[i].verdict \subseteq Lines(i),
           \A i \in Jobs : \/ pc'[i] \notin InHotel
                           \/ pc'[i] = pc[i] /\ at'[i] = at[i] /\ chosen'[i] = chosen[i]
    PROVE  Typed'
<1>1. \A i \in Jobs : InFile(i)'
  BY DEF InFile, Lines
<1>2. \A i \in Jobs : AtHotel(i)'
  BY DEF Typed, AtHotel, Lines, InHotel
<1>3. QED
  BY <1>1, <1>2 DEF Typed

\* Starting (run) is one commit of the status.
LEMMA StartStep ==
    ASSUME Typed, NEW j \in Jobs, Start(j)
    PROVE  Typed'
<1>1. /\ pc[j] = "queued"
      /\ UNCHANGED <<file, attrs, agg, score, verdict, issues, lineVars, queue, tx, todo, pop,
                     taint>>
  BY DEF Start
<1>2. Stores /\ Memories /\ Normalizations /\ j \in Tasks /\ \A i \in Jobs : InFile(i)
  BY DEF Typed, Tasks
<1>3. CASE pc' = [pc EXCEPT ![j] = "acking"] /\ UNCHANGED <<job, row, excused, failures>>
  <2>1. Stores' /\ Memories'
    BY <1>1, <1>2, <1>3 DEF Stores, Memories, lineVars, Resolved
  <2>2. Normalizations'
    BY <1>1, <1>2, <1>3 DEF Normalizations, Steps
  <2>3. QED
    BY <1>1, <1>2, <1>3, <2>1, <2>2, OutsideTyped
       DEF InFile, lineVars, InHotel, Normalizations, Tasks
<1>4. CASE /\ job' = [job EXCEPT ![j].status = "RUNNING"]
           /\ row' = [row EXCEPT ![j] = job'[j]]
           /\ \/ pc' = [pc EXCEPT ![j] = "lines"] /\ UNCHANGED <<excused, failures>>
              \/ /\ failures' = failures + 1 /\ pc' = [pc EXCEPT ![j] = "acking"]
                 /\ excused' = excused \cup Unfresh
  <2> DEFINE r == [job[j] EXCEPT !.status = "RUNNING"]
  <2>1. job[j] \in JobRow /\ job \in [Jobs -> JobRow] /\ row \in [Jobs -> JobRow]
    BY <1>2 DEF Stores, Memories
  <2>2. r \in JobRow /\ r.line = job[j].line
    BY <2>1 DEF JobRow, Statuses
  <2>3. job' = [job EXCEPT ![j] = r]
    BY <1>4
  <2> HIDE DEF r
  <2>4. /\ job' \in [Jobs -> JobRow] /\ row' \in [Jobs -> JobRow]
        /\ \A i \in Jobs : /\ job'[i].line <= Len(file[i])
                           /\ row'[i].line <= Len(file[i])
    BY <1>2, <1>4, <2>1, <2>2, <2>3 DEF InFile
  <2>5. Stores' /\ Memories'
    <3>1. \A i \in Jobs : Resolved(i)' = Resolved(i)
      BY <1>1 DEF Resolved, lineVars
    <3>2. QED
      BY <1>1, <1>2, <2>4, <3>1 DEF Stores, Memories, lineVars
  <2>6. Unfresh \subseteq Keys
    BY DEF Unfresh
  <2>7. Normalizations'
    <3>1. /\ pc' \in [Tasks -> Steps]
          /\ \A t \in Tasks : pc'[t] \in {"ranking", "recalculating", "scoring"} => pc'[t] = pc[t]
      BY <1>2, <1>4 DEF Normalizations, Steps
    <3>2. excused' \subseteq Keys /\ failures' \in Nat
      BY <1>2, <1>4, <2>6 DEF Normalizations
    <3>3. QED
      BY <1>1, <1>2, <3>1, <3>2 DEF Normalizations
  <2>8. \A i \in Jobs : pc'[i] \notin InHotel \/ pc'[i] = pc[i]
    BY <1>2, <1>4 DEF Normalizations, InHotel, Tasks
  <2>9. QED
    BY <1>1, <1>2, <2>4, <2>5, <2>7, <2>8, OutsideTyped DEF InFile, lineVars
<1>5. QED
  BY <1>3, <1>4 DEF Start

\* What a finished run says of itself (run).
Finished(j) == [row[j] EXCEPT !.completed = TRUE,
                              !.status = IF row[j].n["failed"] > 0 \/ row[j].n["flawed"] > 0
                                         THEN "PARTIAL" ELSE "COMPLETED"]

\* Finishing commits everything with the final status.
LEMMA FinishStep ==
    ASSUME Typed, NEW j \in Jobs, Finish(j)
    PROVE  /\ Typed'
           /\ Finished(j) \in JobRow /\ Finished(j).line = row[j].line
           /\ Finished(j).n = row[j].n /\ Finished(j).completed
           /\ Finished(j).status = IF row[j].n["failed"] > 0 \/ row[j].n["flawed"] > 0
                                   THEN "PARTIAL" ELSE "COMPLETED"
           /\ Commit(j, tx[j], Finished(j))
           /\ pc' = [pc EXCEPT ![j] = IF Ranks(row[j]) THEN "listing" ELSE "acking"]
<1>1. Stores /\ Memories /\ Normalizations /\ j \in Tasks /\ \A i \in Jobs : InFile(i)
  BY DEF Typed, Tasks
<1>2. /\ Finished(j) \in JobRow /\ Finished(j).line = row[j].line
      /\ Finished(j).n = row[j].n /\ Finished(j).completed
      /\ Finished(j).status = IF row[j].n["failed"] > 0 \/ row[j].n["flawed"] > 0
                              THEN "PARTIAL" ELSE "COMPLETED"
  <2>1. row[j] \in JobRow
    BY <1>1 DEF Memories
  <2>2. QED
    BY <2>1 DEF Finished, JobRow, Statuses
<1>3. /\ Commit(j, tx[j], Finished(j)) /\ row' = [row EXCEPT ![j] = Finished(j)]
      /\ pc' = [pc EXCEPT ![j] = IF Ranks(row[j]) THEN "listing" ELSE "acking"]
      /\ UNCHANGED <<file, lineVars, queue, todo, pop, excused, failures>>
  <2>1. Ranks(Finished(j)) = Ranks(row[j])
    BY <1>2 DEF Ranks
  <2>2. QED
    BY <2>1 DEF Finish, Finished
<1>4. /\ Stores' /\ tx' \in [Tasks -> Tx] /\ tx'[j] = NoTx
      /\ \A i \in Tasks : i # j => tx'[i] = tx[i]
      /\ taint' \in [Tasks -> SUBSET Keys]
      /\ \A i \in Jobs : DOMAIN verdict'[i] = Lines(i) /\ job'[i].line <= Len(file[i])
  BY <1>1, <1>2, <1>3, CommitTyped DEF InFile, Memories, Tasks
<1>5. /\ row' \in [Jobs -> JobRow]
      /\ \A i \in Jobs : row'[i].line <= Len(file[i])
  BY <1>1, <1>2, <1>3 DEF Memories, InFile
<1>6. Memories'
  <2>1. \A i \in Jobs : Resolved(i)' = Resolved(i)
    BY <1>3 DEF Resolved, lineVars
  <2>2. QED
    BY <1>1, <1>3, <1>4, <1>5, <2>1 DEF Memories, lineVars
<1>7. /\ pc' \in [Tasks -> Steps]
      /\ \A t \in Tasks : pc'[t] \in {"ranking", "recalculating", "scoring"} => pc'[t] = pc[t]
      /\ \A i \in Jobs : pc'[i] \notin InHotel \/ pc'[i] = pc[i]
  BY <1>1, <1>3 DEF Normalizations, Steps, InHotel, Tasks
<1>8. Normalizations'
  BY <1>1, <1>3, <1>4, <1>7 DEF Normalizations
<1>9. \A i \in Jobs : DOMAIN tx'[i].verdict \subseteq Lines(i)
  BY <1>1, <1>4, FreshMemory DEF InFile, Tasks
<1>10. Typed'
  BY <1>1, <1>3, <1>4, <1>5, <1>6, <1>7, <1>8, <1>9, OutsideTyped DEF InFile, lineVars
<1>11. QED
  BY <1>2, <1>3, <1>10

\* A task whose transaction ends with a failure, its death or its last commit keeps
\* nothing of what it held and read.
LetGo(t, step) ==
    /\ pc' = [pc EXCEPT ![t] = step]
    /\ tx' = [tx EXCEPT ![t] = NoTx] /\ queue' = [queue EXCEPT ![t] = <<>>]
    /\ todo' = [todo EXCEPT ![t] = {}] /\ pop' = [pop EXCEPT ![t] = <<>>]
    /\ taint' = [taint EXCEPT ![t] = {}]

\* What it leaves of the sessions and normalizations is well-typed.
LEMMA LetGoTyped ==
    ASSUME Typed, NEW t \in Tasks, NEW step \in {"queued", "acking", "done"}, LetGo(t, step),
           excused' \subseteq Keys, failures' \in Nat
    PROVE  /\ Normalizations' /\ tx' \in [Tasks -> Tx] /\ queue' \in [Tasks -> Seq(Lock)]
           /\ \A i \in Jobs : DOMAIN tx'[i].verdict \subseteq Lines(i)
           /\ \A i \in Jobs : pc'[i] \notin InHotel \/ (i # t /\ pc'[i] = pc[i])
<1>1. Memories /\ Normalizations /\ Jobs \subseteq Tasks /\ \A i \in Jobs : InFile(i)
  BY DEF Typed, Tasks
<1>2. tx' \in [Tasks -> Tx] /\ \A i \in Jobs : DOMAIN tx'[i].verdict \subseteq Lines(i)
  BY <1>1, FreshMemory DEF LetGo, Memories, InFile
<1>3. queue' \in [Tasks -> Seq(Lock)]
  <2>1. queue \in [Tasks -> Seq(Lock)] /\ <<>> \in Seq(Lock)
    BY <1>1 DEF Memories
  <2>2. QED
    BY <2>1 DEF LetGo
<1>4. pc \in [Tasks -> Steps] /\ pc' = [pc EXCEPT ![t] = step] /\ step \in Steps
  BY <1>1 DEF LetGo, Normalizations, Steps
<1>5. /\ pc' \in [Tasks -> Steps] /\ pc'[t] = step /\ \A u \in Tasks : u # t => pc'[u] = pc[u]
      /\ \A i \in Jobs : pc'[i] \notin InHotel \/ (i # t /\ pc'[i] = pc[i])
  BY <1>1, <1>4 DEF InHotel
<1>6. Normalizations'
  <2>1. <<>> \in Partials(Keys, Curve)
    BY EmptyPartial
  <2>2. pop' \in [Tasks -> Partials(Keys, Curve)] /\ taint' \in [Tasks -> SUBSET Keys]
    BY <1>1, <2>1 DEF LetGo, Normalizations
  <2>3. DOMAIN todo' = Tasks /\ \A u \in Tasks : pc'[u] = "ranking" => todo'[u] \subseteq Keys
    BY <1>1, <1>5 DEF LetGo, Normalizations
  <2>4. \A u \in Tasks : pc'[u] \in {"recalculating", "scoring"} => u \in Rescorings
    BY <1>1, <1>5 DEF Normalizations
  <2>5. QED
    BY <1>5, <2>2, <2>3, <2>4 DEF Normalizations
<1>7. QED
  BY <1>2, <1>3, <1>5, <1>6

\* An unexpected failure (run, exception handler) rolls back and marks the job.
LEMMA MarkFailedStep ==
    ASSUME Typed, NEW j \in Jobs, MarkFailed(j)
    PROVE  Typed' /\ LetGo(j, "acking")
<1>1. /\ failures' = failures \/ failures' = failures + 1
      /\ job' = [job EXCEPT ![j].status = "FAILED"] /\ LetGo(j, "acking")
      /\ excused' = excused \cup Unfresh
      /\ UNCHANGED <<file, attrs, agg, score, verdict, issues, row, lineVars>>
  BY DEF MarkFailed, RolledBack, LetGo
<1>2. Stores /\ Memories /\ Normalizations /\ j \in Tasks /\ \A i \in Jobs : InFile(i)
  BY DEF Typed, Tasks
<1> DEFINE r == [job[j] EXCEPT !.status = "FAILED"]
<1>3. job[j] \in JobRow /\ job \in [Jobs -> JobRow]
  BY <1>2 DEF Stores
<1>4. r \in JobRow /\ r.line = job[j].line
  BY <1>3 DEF JobRow, Statuses
<1>5. job' = [job EXCEPT ![j] = r]
  BY <1>1
<1> HIDE DEF r
<1>6. /\ job' \in [Jobs -> JobRow]
      /\ \A i \in Jobs : job'[i].line <= Len(file[i])
  BY <1>2, <1>3, <1>4, <1>5 DEF InFile
<1>7. /\ Normalizations' /\ tx' \in [Tasks -> Tx] /\ queue' \in [Tasks -> Seq(Lock)]
      /\ \A i \in Jobs : DOMAIN tx'[i].verdict \subseteq Lines(i)
      /\ \A i \in Jobs : pc'[i] \notin InHotel \/ (i # j /\ pc'[i] = pc[i])
  <2>1. excused' \subseteq Keys /\ failures' \in Nat
    BY <1>1, <1>2 DEF Normalizations, Unfresh
  <2>2. QED
    BY <1>1, <1>2, <2>1, LetGoTyped
<1>8. Stores' /\ Memories'
  <2>1. \A i \in Jobs : Resolved(i)' = Resolved(i)
    BY <1>1 DEF Resolved, lineVars
  <2>2. QED
    BY <1>1, <1>2, <1>6, <1>7, <2>1 DEF Stores, Memories, lineVars
<1>9. QED
  BY <1>1, <1>2, <1>6, <1>7, <1>8, OutsideTyped DEF InFile, lineVars

-----------------------------------------------------------------------------
(* Rows                                                                    *)

\* Taking a row (the statements of an executemany, the tuples of an insert) adds it
\* to what the transaction holds, and to nothing else.
LEMMA TakeRowStep ==
    ASSUME Typed, NEW t \in Tasks, TakeRow(t)
    PROVE  /\ Typed' /\ tx' = [tx EXCEPT ![t] = [tx[t] EXCEPT !.locks = @ \cup {Head(queue[t])}]]
           /\ tx'[t] \in Tx /\ tx'[t] = [tx[t] EXCEPT !.locks = tx'[t].locks]
           /\ tx'[t].locks = tx[t].locks \cup {Head(queue[t])} /\ SameRows(t)
           /\ Len(queue'[t]) = Len(queue[t]) - 1
           /\ \A u \in Tasks : u # t => tx'[u] = tx[u] /\ queue'[u] = queue[u]
<1>1. /\ Len(queue[t]) > 1 /\ tx' = [tx EXCEPT ![t].locks = @ \cup {Head(queue[t])}]
      /\ queue' = [queue EXCEPT ![t] = Tail(queue[t])]
      /\ UNCHANGED <<file, storeVars, pc, row, lineVars, rankVars, failures>>
  BY DEF TakeRow
<1>2. Stores /\ Memories /\ Normalizations /\ Jobs \subseteq Tasks /\ \A i \in Jobs : InFile(i)
  BY DEF Typed, Tasks
<1> DEFINE q == queue[t]
           head == Head(q)
           held == tx[t].locks \cup {head}
           new == [tx[t] EXCEPT !.locks = held]
<1>3. q \in Seq(Lock) /\ tx[t] \in Tx /\ q # <<>> /\ Len(q) \in Nat
  <2>1. q \in Seq(Lock) /\ tx[t] \in Tx
    BY <1>2 DEF Memories
  <2>2. QED
    BY <1>1, <2>1, EmptySeq, LenProperties
<1>4. /\ head \in Lock /\ Tail(q) \in Seq(Lock) /\ Len(Tail(q)) = Len(q) - 1
      /\ \A i \in 1 .. Len(Tail(q)) : Tail(q)[i] = q[i + 1]
      /\ head = q[1]
  <2> HIDE DEF q
  <2>1. QED
    BY <1>3, HeadTailProperties
<1>5. Range(q) = {head} \cup Range(Tail(q))
  <2> HIDE DEF q, head
  <2>1. DOMAIN q = 1 .. Len(q) /\ DOMAIN Tail(q) = 1 .. Len(q) - 1
    BY <1>3, <1>4, LenProperties
  <2>2. \A x : (\E i \in 1 .. Len(q) : q[i] = x)
                  <=> x = head \/ \E i \in 1 .. Len(q) - 1 : Tail(q)[i] = x
    <3>1. ASSUME NEW i \in 1 .. Len(q) - 1 PROVE i + 1 \in 1 .. Len(q) /\ Tail(q)[i] = q[i + 1]
      BY <1>3, <1>4
    <3>2. ASSUME NEW i \in 1 .. Len(q), i # 1
          PROVE  i - 1 \in 1 .. Len(q) - 1 /\ Tail(q)[i - 1] = q[i]
      BY <1>3, <1>4, <3>2
    <3>3. 1 \in 1 .. Len(q)
      BY <1>1, <1>3 DEF q
    <3>4. ASSUME NEW x PROVE (\E i \in 1 .. Len(q) : q[i] = x)
                                <=> x = head \/ \E i \in 1 .. Len(q) - 1 : Tail(q)[i] = x
      BY <1>4, <3>1, <3>2, <3>3
    <3>5. QED
      BY <3>4
  <2>3. QED
    BY <2>1, <2>2 DEF Range
<1>6. /\ new \in Tx /\ new.locks = held /\ new.verdict = tx[t].verdict
      /\ new = [tx[t] EXCEPT !.locks = new.locks]
  <2> DEFINE was == tx[t]
  <2>1. was \in Tx /\ held \in SUBSET Lock
    BY <1>3, <1>4 DEF Tx
  <2>2. new = [was EXCEPT !.locks = held]
    OBVIOUS
  <2> HIDE DEF was, held, new
  <2>3. new \in Tx /\ new.locks = held /\ new.verdict = was.verdict
    BY <2>1, <2>2 DEF Tx
  <2>4. QED
    BY <2>2, <2>3 DEF was
<1>7. tx' = [tx EXCEPT ![t] = new] /\ queue' = [queue EXCEPT ![t] = Tail(q)]
  BY <1>1
<1> HIDE DEF new, q
<1>8. /\ tx' \in [Tasks -> Tx] /\ tx'[t] = new /\ \A u \in Tasks : u # t => tx'[u] = tx[u]
  BY <1>2, <1>6, <1>7 DEF Memories
<1>9. /\ queue' \in [Tasks -> Seq(Lock)] /\ queue'[t] = Tail(q)
      /\ \A u \in Tasks : u # t => queue'[u] = queue[u]
  BY <1>2, <1>4, <1>7 DEF Memories
<1>10. SameRows(t)
  BY <1>5, <1>6, <1>8, <1>9 DEF Rows, SameRows, q, held
<1>11. Stores' /\ Memories' /\ Normalizations'
  <2>1. \A i \in Jobs : Resolved(i)' = Resolved(i)
    BY <1>1 DEF Resolved, lineVars
  <2>2. QED
    BY <1>1, <1>2, <1>8, <1>9, <2>1
       DEF Stores, Memories, Normalizations, storeVars, lineVars, rankVars
<1>12. \A i \in Jobs : DOMAIN tx'[i].verdict \subseteq Lines(i)
  BY <1>2, <1>6, <1>8 DEF InFile
<1>13. Typed'
  BY <1>1, <1>2, <1>11, <1>12, OutsideTyped DEF InFile, lineVars, storeVars
<1>14. QED
  BY <1>4, <1>6, <1>7, <1>8, <1>9, <1>10, <1>13 DEF q, held, new

-----------------------------------------------------------------------------
(* Steps of rescorings and normalizations                                  *)

\* A score recalculated from mentions.
Review == [source |-> "review", score |-> ReviewScore, relative |-> Unranked]

\* A step outside the line loop that changes no table and no transaction.
LEMMA AsideTyped ==
    ASSUME Typed, NEW t \in Tasks, UNCHANGED <<file, storeVars, row, lineVars, tx>>,
           queue' \in [Tasks -> Seq(Lock)], Normalizations', pc'[t] \notin InHotel,
           \A u \in Tasks : u # t => pc'[u] = pc[u]
    PROVE  Typed'
<1>1. Stores /\ Memories /\ \A i \in Jobs : InFile(i) /\ i \in Tasks
  BY DEF Typed, Tasks
<1>2. Stores' /\ Memories'
  <2>1. \A i \in Jobs : Resolved(i)' = Resolved(i)
    BY DEF Resolved, lineVars
  <2>2. QED
    BY <1>1, <2>1 DEF Stores, Memories, lineVars, storeVars
<1>3. QED
  BY <1>1, <1>2, OutsideTyped DEF InFile, lineVars, storeVars

\* Taking up the next hotel of a rescoring (recalculate_hotel) only lists its rows.
LEMMA BeginHotelStep ==
    ASSUME Typed, NEW t \in Tasks, BeginHotel(t)
    PROVE  /\ Typed' /\ t \in Rescorings
           /\ \E h \in Recalculated(t) : todo' = [todo EXCEPT ![t] = Recalculated(t) \ {h}]
           /\ \A u \in Tasks : u # t => queue'[u] = queue[u]
<1>1. PICK h \in Recalculated(t) :
         /\ todo' = [todo EXCEPT ![t] = Recalculated(t) \ {h}]
         /\ \E q \in Orders(Mentions(h)) : queue' = [queue EXCEPT ![t] = ScoreRows(q)]
  BY DEF BeginHotel
<1>2. PICK q \in Orders(Mentions(h)) : queue' = [queue EXCEPT ![t] = ScoreRows(q)]
  BY <1>1
<1>3. /\ t \in Rescorings /\ pc' = [pc EXCEPT ![t] = "scoring"]
      /\ UNCHANGED <<file, storeVars, row, lineVars, tx, pop, taint, excused, failures>>
  BY DEF BeginHotel
<1>4. Mentions(h) \in SUBSET Cells
  BY SentimentAssumption DEF Mentions, Cells
<1>5. ScoreRows(q) \in Seq(Lock)
  BY <1>4, RowsTyped
<1>6. Memories /\ Normalizations
  BY DEF Typed
<1>7. queue' \in [Tasks -> Seq(Lock)] /\ \A u \in Tasks : u # t => queue'[u] = queue[u]
  BY <1>2, <1>5, <1>6 DEF Memories
<1>8. /\ pc' \in [Tasks -> Steps] /\ pc'[t] = "scoring"
      /\ \A u \in Tasks : u # t => pc'[u] = pc[u]
  BY <1>3, <1>6 DEF Normalizations, Steps
<1>9. Normalizations'
  <2>1. DOMAIN todo' = Tasks /\ \A u \in Tasks : u # t => todo'[u] = todo[u]
    BY <1>1, <1>6 DEF Normalizations
  <2>2. /\ \A u \in Tasks : pc'[u] = "ranking" => todo'[u] \subseteq Keys
        /\ \A u \in Tasks : pc'[u] \in {"recalculating", "scoring"} => u \in Rescorings
    BY <1>3, <1>6, <1>8, <2>1 DEF Normalizations
  <2>3. QED
    BY <1>3, <1>6, <1>8, <2>1, <2>2 DEF Normalizations
<1>10. Typed'
  BY <1>3, <1>7, <1>8, <1>9, AsideTyped DEF InHotel
<1>11. QED
  BY <1>1, <1>3, <1>7, <1>10

\* Storing a hotel of a rescoring changes the scores whose rows were listed, and lets
\* the rows go.
LEMMA CommitHotelStep ==
    ASSUME Typed, NEW t \in Tasks, CommitHotel(t)
    PROVE  /\ Typed' /\ t \in Rescorings /\ t \notin Jobs
           /\ \A c \in Cells : score'[c] = IF c \in HeldScores(t) THEN Review ELSE score[c]
           /\ Touch({c[2] : c \in HeldScores(t)})
           /\ tx'[t] = NoTx /\ \A u \in Tasks : u # t => tx'[u] = tx[u] /\ queue'[u] = queue[u]
           /\ pc'[t] \in {"listing", "recalculating"}
           /\ \A u \in Tasks : u # t => pc'[u] = pc[u]
<1> DEFINE cells == HeldScores(t)
           new == [c \in cells |-> Review]
           ks == {c[2] : c \in cells}
<1>1. /\ pc[t] = "scoring" /\ score' = Over(score, new) /\ Touch(ks)
      /\ tx' = [tx EXCEPT ![t] = NoTx] /\ queue' = [queue EXCEPT ![t] = <<>>]
      /\ pc' = [pc EXCEPT ![t] = "listing"] \/ pc' = [pc EXCEPT ![t] = "recalculating"]
      /\ UNCHANGED <<file, attrs, agg, job, verdict, issues, row, lineVars, todo, pop, excused,
                     failures>>
  BY DEF CommitHotel, Review
<1>2. /\ Stores /\ Memories /\ Normalizations /\ Jobs \subseteq Tasks
      /\ \A i \in Jobs : InFile(i)
  BY DEF Typed, Tasks
<1>3. t \in Rescorings /\ t \notin Jobs
  BY <1>1, <1>2, SentimentAssumption DEF Normalizations
<1>4. cells \subseteq Cells /\ ks \subseteq Keys
  BY DEF Cells, HeldScores
<1>5. Review \in Row /\ Review \in Written
  BY SentimentAssumption DEF Review, Row, Written, Rated, Relative, Unranked
<1>6. Fits(new, Cells, Row) /\ DOMAIN new = cells /\ \A c \in cells : new[c] = Review
  BY <1>4, <1>5 DEF Fits
<1>8. score \in [Cells -> Row] /\ \A c \in Cells : score[c].source # "none" => score[c] \in Written
  BY <1>2 DEF Stores
<1> HIDE DEF new, cells, ks
<1>10. score' \in [Cells -> Row]
  BY <1>1, <1>6, <1>8, OverTotal, Zenon
<1>11. \A c \in Cells : score'[c] = IF c \in cells THEN Review ELSE score[c]
  BY <1>1, <1>6, <1>8 DEF Over
<1>12. /\ tx' \in [Tasks -> Tx] /\ tx'[t] = NoTx
       /\ \A u \in Tasks : u # t => tx'[u] = tx[u] /\ queue'[u] = queue[u]
       /\ queue' \in [Tasks -> Seq(Lock)]
  <2>1. queue \in [Tasks -> Seq(Lock)] /\ <<>> \in Seq(Lock) /\ tx \in [Tasks -> Tx]
    BY <1>2 DEF Memories
  <2>2. QED
    BY <1>1, <2>1, FreshMemory
<1>13. Stores' /\ Memories'
  <2>1. \A i \in Jobs : Resolved(i)' = Resolved(i)
    BY <1>1 DEF Resolved, lineVars
  <2>2. \A c \in Cells : score'[c].source # "none" => score'[c] \in Written
    BY <1>5, <1>8, <1>11
  <2>3. QED
    BY <1>1, <1>2, <1>10, <1>12, <2>1, <2>2 DEF Stores, Memories, lineVars
<1>14. /\ pc' \in [Tasks -> Steps] /\ pc'[t] \in {"listing", "recalculating"}
       /\ \A u \in Tasks : u # t => pc'[u] = pc[u]
  BY <1>1, <1>2 DEF Normalizations, Steps
<1>15. Normalizations'
  <2>1. taint' \in [Tasks -> SUBSET Keys]
    BY <1>1, <1>2, <1>4 DEF Touch, Normalizations
  <2>2. /\ \A u \in Tasks : pc'[u] = "ranking" => todo'[u] \subseteq Keys
        /\ \A u \in Tasks : pc'[u] \in {"recalculating", "scoring"} => u \in Rescorings
    BY <1>1, <1>2, <1>3, <1>14 DEF Normalizations
  <2>3. QED
    BY <1>1, <1>2, <1>14, <2>1, <2>2 DEF Normalizations
<1>16. \A i \in Jobs : pc'[i] = pc[i] /\ tx'[i] = tx[i]
  BY <1>2, <1>3, <1>12, <1>14
<1>17. Typed'
  BY <1>1, <1>2, <1>13, <1>15, <1>16, OutsideTyped DEF InFile, lineVars
<1>18. QED
  BY <1>1, <1>3, <1>11, <1>12, <1>14, <1>17 DEF cells, ks

\* Listing the attributes that have scores (normalize) reads only.
LEMMA ListStep ==
    ASSUME Typed, NEW t \in Tasks, List(t)
    PROVE  Typed'
<1>1. /\ todo' = [todo EXCEPT ![t] = {k \in Keys : DOMAIN Population(k) # {}}]
      /\ pc' = [pc EXCEPT ![t] = "ranking"]
      /\ UNCHANGED <<file, storeVars, row, lineVars, queue, tx, pop, taint, excused, failures>>
  BY DEF List
<1>2. Memories /\ Normalizations
  BY DEF Typed
<1>4. Normalizations'
  BY <1>1, <1>2 DEF Normalizations, Steps
<1>5. pc'[t] \notin InHotel /\ \A u \in Tasks : u # t => pc'[u] = pc[u]
  BY <1>1, <1>2 DEF Normalizations, InHotel
<1>6. QED
  BY <1>1, <1>2, <1>4, <1>5, AsideTyped DEF Memories

\* The attribute whose population is read next.
NextKey(t) == CHOOSE k \in todo[t] : TRUE

\* Reading a population (normalize) remembers the scores of one attribute as they are.
LEMMA ReadPopulationStep ==
    ASSUME Typed, NEW t \in Tasks, ReadPopulation(t)
    PROVE  /\ Typed' /\ NextKey(t) \in Keys /\ NextKey(t) \in todo[t]
           /\ pop'[t] = Over(pop[t], [x \in {NextKey(t)} |-> Population(NextKey(t))])
           /\ todo'[t] = todo[t] \ {NextKey(t)} /\ taint'[t] = taint[t] \ {NextKey(t)}
           /\ \A u \in Tasks : u # t => pop'[u] = pop[u] /\ todo'[u] = todo[u] /\ taint'[u] = taint[u]
<1> DEFINE k == NextKey(t)
           new == [x \in {k} |-> Population(k)]
<1>1. /\ pc[t] = "ranking" /\ todo[t] # {}
      /\ todo' = [todo EXCEPT ![t] = @ \ {k}]
      /\ pop' = [pop EXCEPT ![t] = Over(@, new)]
      /\ taint' = [taint EXCEPT ![t] = @ \ {k}]
      /\ UNCHANGED <<file, storeVars, pc, row, lineVars, queue, tx, excused, failures>>
  BY DEF ReadPopulation, NextKey
<1>2. Memories /\ Normalizations
  BY DEF Typed
<1>3. k \in todo[t] /\ k \in Keys
  BY <1>1, <1>2 DEF NextKey, Normalizations
<1> DEFINE now == Over(pop[t], new)
<1>4. now \in Partials(Keys, Curve)
  <2>1. Population(k) \in Curve
    BY <1>3, PopulationTyped
  <2>2. new \in [{k} -> Curve] /\ {k} \in SUBSET Keys
    BY <1>3, <2>1
  <2>3. new \in Partials(Keys, Curve)
    BY <2>2, PartialFunction
  <2>4. pop[t] \in Partials(Keys, Curve)
    BY <1>2 DEF Normalizations
  <2> HIDE DEF new
  <2>5. QED
    BY <2>3, <2>4, OverPartial, Zenon
<1>5. pop' = [pop EXCEPT ![t] = now]
  BY <1>1
<1> HIDE DEF k, now
<1>7. Normalizations'
  BY <1>1, <1>2, <1>4, <1>5 DEF Normalizations
<1>8. Typed'
  BY <1>1, <1>2, <1>7, AsideTyped DEF Memories, InHotel
<1>9. /\ pop'[t] = now /\ todo'[t] = todo[t] \ {k} /\ taint'[t] = taint[t] \ {k}
      /\ \A u \in Tasks : u # t => pop'[u] = pop[u] /\ todo'[u] = todo[u] /\ taint'[u] = taint[u]
  BY <1>1, <1>2, <1>5 DEF Normalizations
<1>10. QED
  BY <1>3, <1>8, <1>9 DEF k, now

\* A flush (normalize) sets out the rows whose column differs, and perhaps others it read.
LEMMA BeginFlushStep ==
    ASSUME Typed, NEW t \in Tasks, BeginFlush(t)
    PROVE  /\ Typed' /\ pc'[t] = "writing"
           /\ \A u \in Tasks : u # t => queue'[u] = queue[u] /\ pc'[u] = pc[u]
           /\ \E cells \in SUBSET ReadCells(t) :
                 /\ ReadCells(t) \ Same(t) \subseteq cells
                 /\ Range(queue'[t]) = {ScoreRow(c) : c \in cells}
<1>1. PICK rewritten \in SUBSET Same(t) :
         \E q \in ById((ReadCells(t) \ Same(t)) \cup rewritten) :
            queue' = [queue EXCEPT ![t] = ScoreRows(q)]
  BY DEF BeginFlush
<1> DEFINE cells == (ReadCells(t) \ Same(t)) \cup rewritten
<1>2. PICK q \in ById(cells) : queue' = [queue EXCEPT ![t] = ScoreRows(q)]
  BY <1>1
<1>3. /\ pc[t] = "ranking" /\ pc' = [pc EXCEPT ![t] = "writing"]
      /\ UNCHANGED <<file, storeVars, row, lineVars, tx, rankVars, failures>>
  BY DEF BeginFlush
<1>4. cells \in SUBSET ReadCells(t) /\ cells \in SUBSET Cells /\ ReadCells(t) \ Same(t) \subseteq cells
  BY DEF Same, ReadCells
<1> HIDE DEF cells
<1>5. ScoreRows(q) \in Seq(Lock) /\ Range(ScoreRows(q)) = {ScoreRow(c) : c \in cells}
  BY <1>4, RowsTyped DEF ById
<1>6. Memories /\ Normalizations
  BY DEF Typed
<1>7. /\ queue' \in [Tasks -> Seq(Lock)] /\ queue'[t] = ScoreRows(q)
      /\ \A u \in Tasks : u # t => queue'[u] = queue[u]
  BY <1>2, <1>5, <1>6 DEF Memories
<1>8. /\ pc' \in [Tasks -> Steps] /\ pc'[t] = "writing" /\ pc'[t] \notin InHotel
      /\ \A u \in Tasks : u # t => pc'[u] = pc[u]
  BY <1>3, <1>6 DEF Normalizations, Steps, InHotel
<1>9. Normalizations'
  BY <1>3, <1>6, <1>8 DEF Normalizations, rankVars
<1>10. Typed'
  BY <1>3, <1>7, <1>8, <1>9, AsideTyped
<1>11. QED
  BY <1>4, <1>5, <1>7, <1>8, <1>10

\* A flush sets out only rows it read, and all those whose column differs.
Flushes(t) == HeldScores(t) \subseteq ReadCells(t) /\ ReadCells(t) \ Same(t) \subseteq HeldScores(t)
Flushing   == \A t \in Tasks : pc[t] = "writing" => Flushes(t) /\ todo[t] = {}

\* Its commit (normalize) changes relative scores, of the scores it has read, and nothing
\* else of them: each is what the population that was read gives.
LEMMA CommitRelativeStep ==
    ASSUME Typed, NEW t \in Tasks, CommitRelative(t), Flushes(t)
    PROVE  /\ Typed'
           /\ \A c \in Cells : /\ score'[c].source = score[c].source
                               /\ score'[c].score = score[c].score
                               /\ \/ score'[c] = score[c]
                                  \/ /\ c[2] \in DOMAIN pop[t] /\ c[1] \in DOMAIN pop[t][c[2]]
                                     /\ score'[c].relative = BellCurve(pop[t][c[2]])
           /\ \A c \in Cells :
                 c[2] \in DOMAIN pop[t] /\ c[1] \in DOMAIN pop[t][c[2]] =>
                    \/ score'[c].relative = BellCurve(pop[t][c[2]])
                    \/ /\ score'[c] = score[c]
                       /\ pop[t][c[2]][c[1]].relative = BellCurve(pop[t][c[2]])
           /\ excused' = (excused \ DOMAIN pop[t]) \cup (DOMAIN pop[t] \cap taint[t])
           /\ taint' = [u \in Tasks |-> IF u = t THEN {}
                                     ELSE taint[u] \cup (DOMAIN pop[t] \cap DOMAIN pop[u])]
           /\ tx'[t] = NoTx /\ \A u \in Tasks : u # t => tx'[u] = tx[u] /\ queue'[u] = queue[u]
<1> DEFINE cells  == ReadCells(t)
           new(c) == Ranked(t, c)
           writes == HeldScores(t)
           read   == DOMAIN pop[t]
           flush  == [c \in writes |-> [score[c] EXCEPT !.relative = new(c)]]
<1>1. score' = Over(score, flush)
  BY DEF CommitRelative
<1>2. /\ pc[t] = "writing"
      /\ excused' = (excused \ read) \cup (read \cap taint[t])
      /\ taint' = [u \in Tasks |-> IF u = t THEN {} ELSE taint[u] \cup (read \cap DOMAIN pop[u])]
      /\ tx' = [tx EXCEPT ![t] = NoTx] /\ queue' = [queue EXCEPT ![t] = <<>>]
      /\ pop' = [pop EXCEPT ![t] = <<>>] /\ pc' = [pc EXCEPT ![t] = "acking"]
      /\ UNCHANGED <<file, attrs, agg, job, verdict, issues, row, lineVars, todo, failures>>
  BY DEF CommitRelative
<1>3. /\ Stores /\ Memories /\ Normalizations /\ Jobs \subseteq Tasks
      /\ \A i \in Jobs : InFile(i)
  BY DEF Typed, Tasks
<1>4. \A k \in DOMAIN pop[t] : k \in Keys /\ pop[t][k] \in Curve
  BY <1>3, PartialValues DEF Normalizations
<1>5. \A c \in cells : new(c) \in Relative /\ new(c) = BellCurve(pop[t][c[2]])
  BY <1>4, BellCurveTyped DEF ReadCells, Ranked
<1>6. /\ writes \subseteq cells /\ cells \subseteq Cells
      /\ \A c \in cells \ writes : pop[t][c[2]][c[1]].relative = new(c)
  BY DEF Flushes, Same, ReadCells
<1>7. score \in [Cells -> Row] /\ \A c \in Cells : score[c].source # "none" => score[c] \in Written
  BY <1>3 DEF Stores
<1>8. DOMAIN flush = writes /\ \A c \in writes : /\ flush[c] \in Row
                                                 /\ flush[c].source = score[c].source
                                                 /\ flush[c].score = score[c].score
                                                 /\ flush[c].relative = new(c)
  <2>1. ASSUME NEW c \in writes
        PROVE  /\ flush[c] \in Row /\ flush[c].source = score[c].source
               /\ flush[c].score = score[c].score /\ flush[c].relative = new(c)
    <3>1. score[c] \in Row /\ new(c) \in Relative
      BY <1>5, <1>6, <1>7
    <3>2. flush[c] = [score[c] EXCEPT !.relative = new(c)]
      OBVIOUS
    <3> HIDE DEF flush, new
    <3>3. QED
      BY <3>1, <3>2 DEF Row
  <2>2. DOMAIN flush = writes
    OBVIOUS
  <2> HIDE DEF flush
  <2>3. QED
    BY <2>1, <2>2
<1>10. Fits(flush, Cells, Row)
  <2> HIDE DEF flush, writes, cells
  <2>1. QED
    BY <1>6, <1>8 DEF Fits
<1>12. \A c \in Cells : c[2] \in DOMAIN pop[t] /\ c[1] \in DOMAIN pop[t][c[2]] <=> c \in cells
  BY DEF ReadCells
<1> HIDE DEF flush, writes, cells, new
<1>13. score' \in [Cells -> Row]
  BY <1>1, <1>7, <1>10, OverTotal, Zenon
<1>14. \A c \in Cells : score'[c] = IF c \in writes THEN flush[c] ELSE score[c]
  BY <1>1, <1>7, <1>8 DEF Over
<1>15. \A c \in Cells : /\ score'[c].source = score[c].source
                        /\ score'[c].score = score[c].score
                        /\ \/ score'[c] = score[c]
                           \/ c \in cells /\ score'[c].relative = new(c)
                        /\ c \in cells => \/ score'[c].relative = new(c)
                                          \/ /\ score'[c] = score[c]
                                             /\ pop[t][c[2]][c[1]].relative = new(c)
  BY <1>6, <1>8, <1>14
<1>16. \A c \in Cells : score'[c].source # "none" => score'[c] \in Written
  BY <1>7, <1>13, <1>15 DEF Row, Written
<1>22. /\ tx' \in [Tasks -> Tx] /\ tx'[t] = NoTx
       /\ \A u \in Tasks : u # t => tx'[u] = tx[u] /\ queue'[u] = queue[u]
       /\ queue' \in [Tasks -> Seq(Lock)]
  <2>1. queue \in [Tasks -> Seq(Lock)] /\ <<>> \in Seq(Lock) /\ tx \in [Tasks -> Tx]
    BY <1>3 DEF Memories
  <2>2. QED
    BY <1>2, <2>1, FreshMemory
<1>17. Stores' /\ Memories'
  <2>1. \A i \in Jobs : Resolved(i)' = Resolved(i)
    BY <1>2 DEF Resolved, lineVars
  <2>2. QED
    BY <1>2, <1>3, <1>13, <1>16, <1>22, <2>1 DEF Stores, Memories, lineVars
<1>18. Normalizations'
  <2>1. <<>> \in Partials(Keys, Curve)
    BY EmptyPartial
  <2>2. read \subseteq Keys
    BY <1>4
  <2>3. taint' \in [Tasks -> SUBSET Keys] /\ excused' \subseteq Keys
    BY <1>2, <1>3, <2>2 DEF Normalizations
  <2>4. QED
    BY <1>2, <1>3, <2>1, <2>3 DEF Normalizations, Steps
<1>19. \A i \in Jobs : pc'[i] \notin InHotel \/ pc'[i] = pc[i]
  BY <1>2, <1>3 DEF Normalizations, InHotel
<1>23. \A i \in Jobs : DOMAIN tx'[i].verdict \subseteq Lines(i)
  BY <1>3, <1>22, FreshMemory DEF InFile
<1>20. Typed'
  BY <1>2, <1>3, <1>17, <1>18, <1>19, <1>23, OutsideTyped DEF InFile, lineVars
<1>24. \A c \in cells : new(c) = BellCurve(pop[t][c[2]])
  BY <1>5
<1>21. QED
  BY <1>2, <1>12, <1>15, <1>20, <1>22, <1>24

\* A rescoring that ends with a failure lets go.
LEMMA GiveUpStep ==
    ASSUME Typed, NEW t \in Tasks, GiveUp(t)
    PROVE  Typed' /\ LetGo(t, "done") /\ t \notin Jobs
<1>1. /\ failures' = failures \/ failures' = failures + 1
      /\ LetGo(t, "done") /\ t \in Rescorings /\ excused' = excused \cup Unfresh
      /\ UNCHANGED <<file, storeVars, row, lineVars>>
  BY DEF GiveUp, RolledBack, LetGo
<1>2. Stores /\ Memories /\ Normalizations /\ \A i \in Jobs : InFile(i)
  BY DEF Typed
<1>3. excused' \subseteq Keys /\ failures' \in Nat
  BY <1>1, <1>2 DEF Normalizations, Unfresh
<1>4. /\ Normalizations' /\ tx' \in [Tasks -> Tx] /\ queue' \in [Tasks -> Seq(Lock)]
      /\ \A i \in Jobs : DOMAIN tx'[i].verdict \subseteq Lines(i)
      /\ \A i \in Jobs : pc'[i] \notin InHotel \/ (i # t /\ pc'[i] = pc[i])
  BY <1>1, <1>3, LetGoTyped
<1>5. Stores' /\ Memories'
  <2>1. \A i \in Jobs : Resolved(i)' = Resolved(i)
    BY <1>1 DEF Resolved, lineVars
  <2>2. QED
    BY <1>1, <1>2, <1>4, <2>1 DEF Stores, Memories, lineVars, storeVars
<1>6. Typed'
  BY <1>1, <1>2, <1>4, <1>5, OutsideTyped DEF InFile, lineVars, storeVars
<1>7. QED
  BY <1>1, <1>6, SentimentAssumption

\* Acknowledging a message ends a task and touches nothing else.
LEMMA AcknowledgeStep ==
    ASSUME Typed, NEW t \in Tasks, Acknowledge(t)
    PROVE  Typed'
<1>1. pc' = [pc EXCEPT ![t] = "done"]
      /\ UNCHANGED <<file, storeVars, row, lineVars, queue, tx, rankVars, failures>>
  BY DEF Acknowledge
<1>2. Memories /\ Normalizations
  BY DEF Typed
<1>4. Normalizations'
  BY <1>1, <1>2 DEF Normalizations, Steps, rankVars
<1>5. pc'[t] \notin InHotel /\ \A u \in Tasks : u # t => pc'[u] = pc[u]
  BY <1>1, <1>2 DEF Normalizations, InHotel
<1>6. QED
  BY <1>1, <1>2, <1>4, <1>5, AsideTyped DEF Memories

\* A death of the task of a job rolls its transaction back and forgets its memory.
LEMMA CrashStep ==
    ASSUME Typed, NEW t \in Tasks, Crash(t)
    PROVE  Typed' /\ t \in Jobs /\ (LetGo(t, "queued") \/ LetGo(t, "done"))
<1>1. /\ failures' = failures + 1
      /\ LetGo(t, "queued") \/ LetGo(t, "done")
      /\ UNCHANGED <<file, storeVars>> /\ t \in Jobs
      /\ excused' = excused \cup Unfresh \/ excused' = excused
  BY DEF Crash, LetGo
<1>2. Stores /\ Memories /\ Normalizations /\ \A i \in Jobs : InFile(i)
  BY DEF Typed
<1>3. Stores'
  BY <1>1, <1>2 DEF Stores, storeVars
<1>4. excused' \subseteq Keys /\ failures' \in Nat
  BY <1>1, <1>2 DEF Normalizations, Unfresh
<1>5. /\ Normalizations' /\ tx' \in [Tasks -> Tx] /\ queue' \in [Tasks -> Seq(Lock)]
      /\ \A i \in Jobs : DOMAIN tx'[i].verdict \subseteq Lines(i)
      /\ \A i \in Jobs : pc'[i] \notin InHotel \/ (i # t /\ pc'[i] = pc[i])
  BY <1>1, <1>4, LetGoTyped
<1>6. /\ Memories'
      /\ \A i \in Jobs : /\ row'[i].line <= Len(file[i]) /\ at'[i].line <= Len(file[i])
                         /\ DOMAIN saved'[i].verdict \subseteq Lines(i)
                         /\ i # t => at'[i] = at[i] /\ chosen'[i] = chosen[i]
  <2>1. /\ row' = [row EXCEPT ![t] = NewJob] /\ delta' = [delta EXCEPT ![t] = Zero]
        /\ at' = [at EXCEPT ![t] = [line |-> 0, entry |-> 0]]
        /\ chosen' = [chosen EXCEPT ![t] = "none"] /\ values' = [values EXCEPT ![t] = <<>>]
        /\ existing' = [existing EXCEPT ![t] = {}] /\ saved' = [saved EXCEPT ![t] = NoTx]
    BY DEF Crash
  <2>2. /\ row' \in [Jobs -> JobRow] /\ delta' \in [Jobs -> [Counters -> Nat]]
        /\ at' \in [Jobs -> [line: Nat, entry: Nat]]
        /\ chosen' \in [Jobs -> Slugs \cup {"none"}] /\ saved' \in [Jobs -> Tx]
    BY <1>2, <2>1, FreshMemory DEF Memories
  <2>3. values' \in [Jobs -> Seq(Value)] /\ existing' \in [Jobs -> SUBSET Keys]
    <3>1. values \in [Jobs -> Seq(Value)] /\ existing \in [Jobs -> SUBSET Keys]
      BY <1>2 DEF Memories
    <3>2. <<>> \in Seq(Value)
      OBVIOUS
    <3>3. QED
      BY <2>1, <3>1, <3>2
  <2>4. \A i \in Jobs : existing'[i] \subseteq {values'[i][n].attr : n \in DOMAIN values'[i]}
    BY <1>2, <2>1 DEF Memories, Resolved
  <2>5. Memories'
    BY <1>5, <2>2, <2>3, <2>4 DEF Memories, Resolved
  <2>6. file[t] \in Seq(Line)
    BY <1>1, SentimentAssumption DEF Typed
  <2>7. Len(file[t]) \in Nat
    BY <2>6, LenProperties
  <2>8. \A i \in Jobs : row'[i].line <= Len(file[i]) /\ at'[i].line <= Len(file[i])
    BY <1>2, <2>1, <2>7, FreshMemory DEF InFile, Memories
  <2>9. \A i \in Jobs : DOMAIN saved'[i].verdict \subseteq Lines(i)
    BY <1>2, <2>1, FreshMemory DEF InFile, Memories
  <2>10. \A i \in Jobs : i # t => at'[i] = at[i] /\ chosen'[i] = chosen[i]
    BY <1>2, <2>1 DEF Memories
  <2>11. QED
    BY <2>5, <2>8, <2>9, <2>10
<1>7. \A i \in Jobs : /\ job'[i].line <= Len(file[i]) /\ DOMAIN verdict'[i] = Lines(i)
  BY <1>1, <1>2 DEF InFile, storeVars
<1>8. file' = file
  BY <1>1
<1>9. Typed'
  BY <1>3, <1>5, <1>6, <1>7, <1>8, OutsideTyped
<1>10. QED
  BY <1>1, <1>9

-----------------------------------------------------------------------------
(* The type invariant                                                      *)

\* The initial state: no scores, no verdicts, every message queued.
LEMMA InitTyped == Init => Typed
<1>1. SUFFICES ASSUME Init PROVE Typed
  OBVIOUS
<1>2. file \in Files /\ \A j \in Jobs : file[j] \in Seq(Line)
  BY <1>1, SentimentAssumption DEF Init
<1>3. \A j \in Jobs : Len(file[j]) \in Nat /\ Lines(j) \subseteq Nat
  BY <1>2, LenProperties DEF Lines
<1>4. Stores
  <2>1. \A k \in Keys : attrs[k] \in Attr
    <3>1. ASSUME NEW k \in Keys PROVE attrs[k] \in Attr
      <4>1. NameOf[k] \in Names
        BY SentimentAssumption
      <4>2. attrs[k] = IF k \in Prior \cup Inactive
                       THEN [active |-> k \in Prior, slug |-> NameOf[k]] ELSE NoAttr
        BY <1>1 DEF Init
      <4>3. QED
        BY <4>1, <4>2 DEF Attr, NoAttr, Slugs
    <3>2. QED
      BY <3>1
  <2>2. attrs \in [Keys -> Attr]
    BY <1>1, <2>1 DEF Init
  <2>3. NoScore \in Row /\ NoScore.source = "none"
    BY DEF NoScore, Row, Relative, Unranked
  <2>4. /\ agg \in [Cells -> Scores \cup {0}] /\ score \in [Cells -> Row]
        /\ \A c \in Cells : score[c].source # "none" => score[c] \in Written
    BY <1>1, <2>3 DEF Init
  <2>5. job \in [Jobs -> JobRow] /\ issues \in [Jobs -> [hotel: Nat, attribute: Nat]]
    BY <1>1, FreshMemory DEF Init
  <2>6. verdict \in [Jobs -> Partials(Nat, Verdicts)]
    <3>1. ASSUME NEW j \in Jobs PROVE verdict[j] \in Partials(Nat, Verdicts)
      <4>1. verdict[j] \in [Lines(j) -> Verdicts]
        BY <1>1 DEF Init, Verdicts
      <4>2. QED
        BY <1>3, <4>1, PartialFunction
    <3>2. DOMAIN verdict = Jobs /\ verdict = [j \in Jobs |-> verdict[j]]
      BY <1>1 DEF Init
    <3>3. QED
      BY <3>1, <3>2
  <2>7. QED
    BY <2>2, <2>4, <2>5, <2>6 DEF Stores
<1>5. Memories
  <2>1. <<>> \in Seq(Value)
    OBVIOUS
  <2>2. /\ row \in [Jobs -> JobRow] /\ delta \in [Jobs -> [Counters -> Nat]]
        /\ tx \in [Tasks -> Tx] /\ saved \in [Jobs -> Tx] /\ queue \in [Tasks -> Seq(Lock)]
    BY <1>1, FreshMemory DEF Init
  <2>3. /\ at \in [Jobs -> [line: Nat, entry: Nat]] /\ chosen \in [Jobs -> Slugs \cup {"none"}]
        /\ values \in [Jobs -> Seq(Value)] /\ existing \in [Jobs -> SUBSET Keys]
        /\ \A j \in Jobs : existing[j] = {}
    BY <1>1, <2>1 DEF Init
  <2>4. QED
    BY <2>2, <2>3 DEF Memories
<1>6. Normalizations
  <2>1. <<>> \in Partials(Keys, Curve)
    BY EmptyPartial
  <2>2. QED
    BY <1>1, <2>1 DEF Init, Normalizations, Steps
<1>7. \A j \in Jobs : InFile(j) /\ AtHotel(j)
  <2>1. \A j \in Jobs : /\ job[j] = NewJob /\ row[j] = NewJob /\ at[j].line = 0
                        /\ DOMAIN verdict[j] = Lines(j) /\ tx[j] = NoTx /\ saved[j] = NoTx
                        /\ pc[j] = "queued"
    BY <1>1 DEF Init, Tasks
  <2>2. QED
    BY <1>3, <2>1, FreshMemory DEF InFile, AtHotel, InHotel
<1>8. QED
  BY <1>2, <1>4, <1>5, <1>6, <1>7 DEF Typed

\* Nothing changed, nothing is typed differently.
LEMMA StutterTyped == Typed /\ UNCHANGED vars => Typed'
  BY DEF Typed, vars, storeVars, lineVars, rankVars, Stores, Memories, Normalizations,
         InFile, AtHotel, Lines, Resolved

\* Every step of a run, a rescoring or a normalization, and every death.
LEMMA NextTyped == Typed /\ Flushing /\ [Next]_vars => Typed'
<1>1. SUFFICES ASSUME Typed, Flushing, [Next]_vars PROVE Typed'
  OBVIOUS
<1>2. ASSUME NEW j \in Jobs, ImportLine(j) PROVE Typed'
  BY <1>1, <1>2, StartStep, NextLineStep, ReadEntryStep, CreateStep, PrefetchStep, UpsertStep,
     PropagateStep, StatementFailsStep, FinishStep, MarkFailedStep DEF ImportLine
<1>3. ASSUME NEW t \in Tasks, CommitRelative(t) PROVE Typed'
  BY <1>1, <1>3, CommitRelativeStep DEF Flushing, CommitRelative
<1>4. ASSUME NEW t \in Tasks, Work(t) \/ Crash(t) PROVE Typed'
  BY <1>1, <1>2, <1>3, <1>4, TakeRowStep, BeginHotelStep, CommitHotelStep, ListStep,
     ReadPopulationStep, BeginFlushStep, GiveUpStep, AcknowledgeStep, CrashStep DEF Work
<1>5. QED
  BY <1>1, <1>4, StutterTyped DEF Next

-----------------------------------------------------------------------------
(* What a run knows of the hotel it is in, and what its transaction holds  *)

Known(t, as, k)  == k \in DOMAIN t.attrs \/ Exists(as, k)
Scored(t, ss, c) == c \in DOMAIN t.score \/ ss[c].source # "none"

\* Every aggregate a transaction would store has its attribute and its score.
Whole(t, as, ss) == \A c \in DOMAIN t.agg : Known(t, as, c[2]) /\ Scored(t, ss, c)

\* A run resolves only to attributes that are there; between the aggregates of a
\* hotel and their propagation, the scores of that hotel alone may be missing.
HotelSoFar(j) ==
    /\ \A k \in Resolved(j) : Known(tx[j], attrs, k)
    /\ pc[j] # "propagating" => Whole(tx[j], attrs, score)
    /\ \A c \in DOMAIN tx[j].agg :
          /\ Known(tx[j], attrs, c[2])
          /\ Scored(tx[j], score, c) \/ c \in {HotelAt(j)} \X Resolved(j)
    /\ Whole(saved[j], attrs, score)

\* A transaction holds the scores it wrote, and a savepoint holds no more than
\* its transaction; what it wrote was not recalculated from reviews, and nobody
\* recalculated it since.
Holds(t, ss) ==
    \A c \in DOMAIN t.score : ScoreRow(c) \in t.locks /\ ss[c].source # "review"
Holding(j) ==
    /\ Holds(tx[j], score) /\ Holds(saved[j], score) /\ saved[j].locks \subseteq tx[j].locks
    /\ pc[j] = "propagating" =>
          \A k \in Resolved(j) : ScoreRow(<<HotelAt(j), k>>) \in Rows(j)

\* Outside the line loop nothing is written, outside a hotel there is no savepoint.
InLoop == {"lines"} \cup InHotel
Unwritten(t) == t = [NoTx EXCEPT !.locks = t.locks]
AtRest(j) ==
    /\ pc[j] \notin InLoop => Unwritten(tx[j])
    /\ pc[j] \notin InHotel => saved[j] = NoTx /\ values[j] = <<>>

\* An active attribute exists.
ActiveExist == \A k \in Keys : attrs[k].active => Exists(attrs, k)

Sound ==
    /\ Typed
    /\ HotelIsWhole /\ ActiveExist
    /\ \A j \in Jobs : HotelSoFar(j) /\ Holding(j) /\ AtRest(j)

\* A task that writes nothing has no transaction and is after no row, no row is held by
\* two, and a flush sets out what it should.
Idle == {"queued", "recalculating", "listing", "ranking", "acking", "done"}
Session(t) ==
    /\ pc[t] \in Idle => tx[t] = NoTx
    /\ pc[t] \in Idle \cup {"lines"} => queue[t] = <<>>
Sessions ==
    /\ \A t \in Tasks : Session(t)
    /\ \A t, u \in Tasks : t # u => tx[t].locks \cap tx[u].locks = {}
    /\ Flushing

-----------------------------------------------------------------------------
(* The end of a line, whatever became of it                                *)

\* What a commit does to the tables.
Stored(t) ==
    /\ attrs' = Over(attrs, t.attrs) /\ agg' = Over(agg, t.agg)
    /\ score' = Over(score, t.score) /\ Touch({c[2] : c \in DOMAIN t.score})

\* A line ends with the writes of t and n applied scores more: they are stored with
\* the row of the job, or wait in its transaction.
Ends(j, t, n) ==
    /\ UNCHANGED <<file, todo, pop, excused>>
    /\ pc' = [pc EXCEPT ![j] = "lines"]
    /\ saved' = [saved EXCEPT ![j] = NoTx] /\ values' = [values EXCEPT ![j] = <<>>]
    /\ \A i \in Jobs : i # j => at'[i] = at[i] /\ row'[i] = row[i] /\ job'[i] = job[i]
    /\ \A u \in Tasks : u # j => tx'[u] = tx[u] /\ queue'[u] = queue[u]
    /\ queue'[j] = <<>>
    /\ row'[j].status = row[j].status
    /\ row'[j].n["applied"] = row[j].n["applied"] + n
    /\ \/ Stored(t) /\ tx'[j] = NoTx /\ job'[j] = row'[j]
       \/ UNCHANGED <<attrs, agg, score, job, taint>> /\ SameWrites(tx'[j], t)

\* A decided line ends so (_read_lines).
LEMMA DecideLineEnds ==
    ASSUME Typed, NEW j \in Jobs, NEW l \in Lines(j), NEW t \in Tx, NEW d \in [Counters -> Nat],
           NEW v \in Verdicts, DecideLine(j, l, t, d, v)
    PROVE  Ends(j, t, d["applied"])
<1> DEFINE u == [t EXCEPT !.verdict = Over(@, [x \in {l} |-> v])]
           r == [row[j] EXCEPT !.line = l, !.n = Plus(@, d)]
<1>1. SameWrites(u, t)
  <2>1. l \in Nat
    BY LineTyped
  <2>2. u \in Tx /\ SameWrites(u, t)
    BY <2>1, DecidedTx, ZenonT(60)
  <2>3. QED
    BY <2>2
<1>2. r.status = row[j].status /\ r.n["applied"] = row[j].n["applied"] + d["applied"]
  <2>1. row[j] \in JobRow /\ "applied" \in Counters
    BY DEF Typed, Memories, Counters
  <2>2. QED
    BY <2>1 DEF JobRow, Plus
<1>3. /\ row' = [row EXCEPT ![j] = r] /\ pc' = [pc EXCEPT ![j] = "lines"]
      /\ at' = [at EXCEPT ![j] = [line |-> 0, entry |-> 0]]
      /\ values' = [values EXCEPT ![j] = <<>>] /\ saved' = [saved EXCEPT ![j] = NoTx]
      /\ queue' = [queue EXCEPT ![j] = <<>>] /\ UNCHANGED <<file, todo, pop, excused>>
      /\ \/ Commit(j, u, r)
         \/ tx' = [tx EXCEPT ![j] = u] /\ UNCHANGED <<storeVars, taint>>
  BY DEF DecideLine
<1>4. /\ row \in [Jobs -> JobRow] /\ job \in [Jobs -> JobRow] /\ tx \in [Tasks -> Tx]
      /\ at \in [Jobs -> [line: Nat, entry: Nat]] /\ queue \in [Tasks -> Seq(Lock)]
      /\ Jobs \subseteq Tasks
  BY DEF Typed, Memories, Stores, Tasks
<1> HIDE DEF u, r
<1>5. /\ row'[j] = r /\ \A i \in Jobs : i # j => row'[i] = row[i] /\ at'[i] = at[i]
      /\ queue'[j] = <<>> /\ \A i \in Tasks : i # j => queue'[i] = queue[i]
  BY <1>3, <1>4
<1>6. CASE Commit(j, u, r)
  <2>1. /\ Stored(u) /\ job' = [job EXCEPT ![j] = r] /\ tx' = [tx EXCEPT ![j] = NoTx]
    BY <1>6 DEF Commit, Stored
  <2>2. Stored(t)
    BY <1>1, <2>1 DEF Stored, SameWrites
  <2>3. /\ job'[j] = r /\ \A i \in Jobs : i # j => job'[i] = job[i]
        /\ tx'[j] = NoTx /\ \A i \in Tasks : i # j => tx'[i] = tx[i]
    BY <1>4, <2>1
  <2>4. QED
    BY <1>2, <1>3, <1>5, <2>2, <2>3 DEF Ends
<1>7. CASE tx' = [tx EXCEPT ![j] = u] /\ UNCHANGED <<storeVars, taint>>
  <2>1. tx'[j] = u /\ \A i \in Tasks : i # j => tx'[i] = tx[i]
    BY <1>4, <1>7
  <2>2. SameWrites(tx'[j], t)
    BY <1>1, <2>1
  <2>3. UNCHANGED <<attrs, agg, score, job, taint>>
    BY <1>7 DEF storeVars
  <2>4. QED
    BY <1>2, <1>3, <1>5, <2>1, <2>2, <2>3 DEF Ends
<1>8. QED
  BY <1>3, <1>6, <1>7

\* A failed line ends with what the transaction was before it (run, begin_nested).
LEMMA FailLineEnds ==
    ASSUME Typed, NEW j \in Jobs, NEW l \in Lines(j), NEW t \in Tx, FailLine(j, l, t)
    PROVE  Ends(j, t, 0)
<1> DEFINE u == [t EXCEPT !.hotel = @ + 1]
           d == [Zero EXCEPT !.read = 1, !.failed = 1]
<1>1. u \in Tx /\ SameWrites(u, t)
  BY DEF Tx, SameWrites
<1>2. d \in [Counters -> Nat] /\ "failed" \in Verdicts /\ d["applied"] = 0
  BY FreshMemory DEF Counters, Verdicts, Zero
<1>3. DecideLine(j, l, u, d, "failed")
  BY DEF FailLine
<1> HIDE DEF u, d
<1>4. Ends(j, u, 0)
  BY <1>1, <1>2, <1>3, DecideLineEnds
<1>5. QED
  BY <1>1, <1>4 DEF Ends, SameWrites, Stored
-----------------------------------------------------------------------------
(* Hotels are whole, and review scores stay                                *)

\* Attributes and scores only come, they do not go.
Grows ==
    /\ \A k \in Keys : Exists(attrs, k) => Exists(attrs', k)
    /\ \A c \in Cells : score[c].source # "none" => score'[c].source # "none"

\* What is whole stays whole when attributes and scores come.
LEMMA WholeGrows ==
    ASSUME Typed, Grows, NEW t \in Tx, Whole(t, attrs, score)
    PROVE  Whole(t, attrs', score')
<1>1. DOMAIN t.agg \subseteq Cells /\ \A c \in Cells : c[2] \in Keys
  BY TxTyped DEF WrittenBy, Cells
<1>2. QED
  BY <1>1 DEF Whole, Known, Scored, Grows

\* What a commit leaves of whole hotels and a whole transaction is whole.
LEMMA StoredWhole ==
    ASSUME Sound, NEW t \in Tx, Whole(t, attrs, score), Stored(t)
    PROVE  /\ HotelIsWhole' /\ ActiveExist' /\ Grows
           /\ \A c \in Cells : score'[c].source = "review" =>
                                  score[c].source = "review" /\ c \notin DOMAIN t.score
<1>1. Stores /\ HotelIsWhole /\ ActiveExist
  BY DEF Sound, Typed
<1>2. /\ \A k \in Keys : attrs'[k] = IF k \in DOMAIN t.attrs THEN t.attrs[k] ELSE attrs[k]
      /\ \A c \in Cells : agg'[c] = IF c \in DOMAIN t.agg THEN t.agg[c] ELSE agg[c]
      /\ \A c \in Cells : score'[c] = IF c \in DOMAIN t.score THEN t.score[c] ELSE score[c]
  BY <1>1, WritesFit DEF Stored
<1>3. /\ \A k \in DOMAIN t.attrs : t.attrs[k].slug # "none"
      /\ \A c \in DOMAIN t.score : t.score[c].source = "aggregate"
  BY TxTyped, SentimentAssumption DEF WrittenBy, NewAttr, Slugs, Imported
<1>4. \A k \in Keys : Exists(attrs', k) <=> k \in DOMAIN t.attrs \/ Exists(attrs, k)
  BY <1>2, <1>3 DEF Exists
<1>5. \A c \in Cells : score'[c].source # "none" <=> c \in DOMAIN t.score \/ score[c].source # "none"
  BY <1>2, <1>3
<1>6. ActiveExist'
  BY <1>1, <1>2, <1>4 DEF ActiveExist, Exists
<1>7. HotelIsWhole'
  <2>1. ASSUME NEW c \in Cells, agg'[c] # 0
        PROVE  Exists(attrs', c[2]) /\ score'[c].source # "none"
    <3>1. c[2] \in Keys
      BY DEF Cells
    <3>2. CASE c \in DOMAIN t.agg
      BY <1>4, <1>5, <3>1, <3>2 DEF Whole, Known, Scored
    <3>3. CASE c \notin DOMAIN t.agg
      <4>1. agg[c] # 0
        BY <1>2, <2>1, <3>3
      <4>2. QED
        BY <1>1, <1>4, <1>5, <3>1, <4>1 DEF HotelIsWhole
    <3>4. QED
      BY <3>2, <3>3
  <2>2. QED
    BY <2>1 DEF HotelIsWhole
<1>8. QED
  BY <1>2, <1>3, <1>4, <1>5, <1>6, <1>7 DEF Grows

\* A run another task's step does not concern.
Unconcerned(i) ==
    /\ tx'[i] = tx[i] /\ queue'[i] = queue[i]
    /\ saved'[i] = saved[i] /\ values'[i] = values[i]
    /\ pc'[i] = pc[i] /\ at'[i] = at[i]

\* A run that is outside a hotel after the step.
Outside(i) ==
    /\ pc'[i] \notin InHotel /\ saved'[i] = NoTx /\ values'[i] = <<>>
    /\ pc'[i] \notin InLoop => Unwritten(tx'[i])
    /\ Whole(tx'[i], attrs', score') /\ Holds(tx'[i], score')

\* A recalculation replaces no score that a transaction holds.
Spares(i) ==
    \A c \in Cells : score'[c].source = "review" /\ ScoreRow(c) \in tx[i].locks
                        => score[c].source = "review"

\* A session without a transaction wrote nothing.
LEMMA NothingWritten ==
    ASSUME NEW as, NEW ss, NEW t, Unwritten(t)
    PROVE  Whole(t, as, ss) /\ Holds(t, ss) /\ DOMAIN t.score = {} /\ DOMAIN t.agg = {}
<1>1. /\ DOMAIN NoTx.agg = {} /\ DOMAIN NoTx.score = {}
      /\ [NoTx EXCEPT !.locks = t.locks].agg = NoTx.agg
      /\ [NoTx EXCEPT !.locks = t.locks].score = NoTx.score
  BY EmptyPartial DEF NoTx
<1>2. DOMAIN t.agg = {} /\ DOMAIN t.score = {}
  BY <1>1 DEF Unwritten
<1>3. QED
  BY <1>2 DEF Whole, Holds

\* No transaction, in particular.
LEMMA NoTxUnwritten == Unwritten(NoTx) /\ NoTx.locks = {}
  BY DEF Unwritten, NoTx

\* What a transaction holds, it holds while others change other scores.
LEMMA HoldsOn ==
    ASSUME NEW t \in Tx, Holds(t, score), NEW i \in Jobs, Spares(i), t.locks \subseteq tx[i].locks
    PROVE  Holds(t, score')
<1>1. DOMAIN t.score \subseteq Cells
  BY TxTyped DEF WrittenBy
<1>2. QED
  BY <1>1 DEF Holds, Spares

\* A step keeps runs sound that it does not concern, and those it leaves outside a hotel.
LEMMA StepSound ==
    ASSUME Sound, Typed', file' = file, Grows, HotelIsWhole', ActiveExist',
           \A i \in Jobs : \/ Unconcerned(i) /\ Spares(i)
                           \/ Outside(i)
                           \/ HotelSoFar(i)' /\ Holding(i)' /\ AtRest(i)'
    PROVE  Sound'
<1>1. ASSUME NEW i \in Jobs, Unconcerned(i), Spares(i)
      PROVE  HotelSoFar(i)' /\ Holding(i)' /\ AtRest(i)'
  <2>1. Typed /\ HotelSoFar(i) /\ Holding(i) /\ AtRest(i) /\ tx[i] \in Tx /\ saved[i] \in Tx
    BY DEF Sound, Typed, Memories, Tasks
  <2>2. Resolved(i)' = Resolved(i) /\ HotelAt(i)' = HotelAt(i) /\ Resolved(i) \subseteq Keys
    BY <1>1, <2>1, ResolvedTyped DEF Unconcerned, Resolved, HotelAt
  <2>3. Whole(saved[i], attrs', score')
    BY <2>1, WholeGrows DEF HotelSoFar
  <2>4. pc[i] # "propagating" => Whole(tx[i], attrs', score')
    BY <2>1, WholeGrows DEF HotelSoFar
  <2>5. \A k \in Resolved(i) : Known(tx[i], attrs', k)
    BY <2>1, <2>2 DEF HotelSoFar, Known, Grows
  <2>6. \A c \in DOMAIN tx[i].agg :
           /\ Known(tx[i], attrs', c[2])
           /\ Scored(tx[i], score', c) \/ c \in {HotelAt(i)} \X Resolved(i)
    <3>1. \A c \in DOMAIN tx[i].agg : c \in Cells /\ c[2] \in Keys
      BY <2>1, TxTyped DEF WrittenBy, Cells
    <3>2. QED
      BY <2>1, <3>1 DEF HotelSoFar, Known, Scored, Grows
  <2>7. HotelSoFar(i)'
    BY <1>1, <2>2, <2>3, <2>4, <2>5, <2>6 DEF HotelSoFar, Unconcerned
  <2>8. Holds(tx[i], score') /\ Holds(saved[i], score')
    BY <1>1, <2>1, HoldsOn DEF Holding
  <2>9. Rows(i)' = Rows(i)
    BY <1>1 DEF Unconcerned, Rows
  <2>10. Holding(i)'
    BY <1>1, <2>1, <2>2, <2>8, <2>9 DEF Holding, Unconcerned
  <2>11. QED
    BY <1>1, <2>1, <2>7, <2>10 DEF AtRest, Unconcerned
<1>2. ASSUME NEW i \in Jobs, Outside(i)
      PROVE  HotelSoFar(i)' /\ Holding(i)' /\ AtRest(i)'
  <2>1. Resolved(i)' = {}
    BY <1>2 DEF Outside, Resolved
  <2>2. pc'[i] # "propagating"
    BY <1>2 DEF Outside, InHotel
  <2>3. Whole(NoTx, attrs', score') /\ Holds(NoTx, score') /\ NoTx.locks = {}
    BY NothingWritten, NoTxUnwritten
  <2>4. \A c \in DOMAIN tx'[i].agg : Known(tx'[i], attrs', c[2]) /\ Scored(tx'[i], score', c)
    BY <1>2 DEF Outside, Whole
  <2>5. HotelSoFar(i)'
    BY <1>2, <2>1, <2>2, <2>3, <2>4 DEF HotelSoFar, Outside
  <2>6. Holding(i)' /\ AtRest(i)'
    BY <1>2, <2>2, <2>3 DEF Outside, Holding, AtRest
  <2>7. QED
    BY <2>5, <2>6
<1>3. QED
  BY <1>1, <1>2 DEF Sound

\* The end of a line, whatever it stores, keeps the runs sound.
LEMMA EndsSound ==
    ASSUME Sound, Typed', NEW j \in Jobs, NEW t \in Tx, NEW n, Ends(j, t, n),
           Whole(t, attrs, score), Holds(t, score)
    PROVE  /\ Sound'
           /\ \A c \in Cells : score[c].source = "review" => score'[c].source = "review"
<1>1. /\ \A i \in Jobs : i # j => at'[i] = at[i]
      /\ \A u \in Tasks : u # j => tx'[u] = tx[u] /\ queue'[u] = queue[u]
      /\ pc' = [pc EXCEPT ![j] = "lines"] /\ file' = file
      /\ saved' = [saved EXCEPT ![j] = NoTx] /\ values' = [values EXCEPT ![j] = <<>>]
  BY DEF Ends
<1>2. /\ HotelIsWhole' /\ ActiveExist' /\ Grows
      /\ \A c \in Cells : score'[c].source = "review" => score[c].source = "review"
      /\ \A c \in Cells : score[c].source = "review" => score'[c].source = "review"
      /\ Whole(tx'[j], attrs', score') /\ Holds(tx'[j], score')
  <2>1. CASE Stored(t) /\ tx'[j] = NoTx
    <3>1. /\ HotelIsWhole' /\ ActiveExist' /\ Grows
          /\ \A c \in Cells : score'[c].source = "review" => score[c].source = "review"
      BY <2>1, StoredWhole
    <3>2. Stores
      BY DEF Sound, Typed
    <3>3. \A c \in Cells : score'[c] = IF c \in DOMAIN t.score THEN t.score[c] ELSE score[c]
      BY <2>1, <3>2, WritesFit DEF Stored
    <3>4. \A c \in Cells : score[c].source = "review" => score'[c].source = "review"
      BY <3>3 DEF Holds
    <3>5. QED
      BY <2>1, <3>1, <3>4, NothingWritten, NoTxUnwritten
  <2>2. CASE UNCHANGED <<attrs, agg, score, job, taint>> /\ SameWrites(tx'[j], t)
    <3>1. HotelIsWhole' /\ ActiveExist' /\ Grows
      BY <2>2 DEF Sound, HotelIsWhole, ActiveExist, Grows, Exists
    <3>2. Whole(tx'[j], attrs, score) /\ Holds(tx'[j], score)
      BY <2>2 DEF SameWrites, Whole, Holds, Known, Scored
    <3>3. QED
      BY <2>2, <3>1, <3>2
  <2>3. QED
    BY <2>1, <2>2 DEF Ends
<1>3. /\ pc \in [Tasks -> Steps] /\ saved \in [Jobs -> Tx] /\ values \in [Jobs -> Seq(Value)]
      /\ Jobs \subseteq Tasks
  BY DEF Sound, Typed, Normalizations, Memories, Tasks
<1>4. Outside(j)
  BY <1>1, <1>2, <1>3 DEF Outside, InHotel, InLoop
<1>5. \A i \in Jobs : i # j => Unconcerned(i) /\ Spares(i)
  BY <1>1, <1>2, <1>3 DEF Unconcerned, Spares
<1>6. QED
  BY <1>1, <1>2, <1>4, <1>5, StepSound

\* A step within a hotel keeps the runs sound when it keeps its own so.
LEMMA HotelStepSound ==
    ASSUME Sound, Typed', NEW j \in Jobs, HotelStep(j), HotelSoFar(j)', Holding(j)'
    PROVE  Sound'
<1>1. /\ UNCHANGED <<file, storeVars>> /\ pc'[j] \in InHotel
      /\ \A t \in Tasks : t # j => pc'[t] = pc[t]
      /\ \A u \in Tasks : u # j => tx'[u] = tx[u] /\ queue'[u] = queue[u]
      /\ \A i \in Jobs : i # j => /\ at'[i] = at[i] /\ saved'[i] = saved[i]
                                  /\ values'[i] = values[i]
  BY DEF HotelStep
<1>2. HotelIsWhole' /\ ActiveExist' /\ Grows
  BY <1>1 DEF Sound, HotelIsWhole, ActiveExist, Grows, Exists, storeVars
<1>3. \A i \in Jobs : i # j => Unconcerned(i) /\ Spares(i)
  BY <1>1 DEF Unconcerned, Spares, Tasks, storeVars
<1>4. AtRest(j)'
  BY <1>1 DEF AtRest, InLoop
<1>5. QED
  BY <1>1, <1>2, <1>3, <1>4, StepSound

\* What a run sees active or existing, it knows.
LEMMA SeenKnown ==
    ASSUME Sound, NEW j \in Jobs, NEW k \in Keys,
           AttrsSeen(j)[k].active \/ Exists(AttrsSeen(j), k)
    PROVE  Known(tx[j], attrs, k)
<1>1. Stores /\ tx[j] \in Tx /\ ActiveExist
  BY DEF Sound, Typed, Memories, Tasks
<1>2. AttrsSeen(j)[k] = IF k \in DOMAIN tx[j].attrs THEN tx[j].attrs[k] ELSE attrs[k]
  BY <1>1, WritesFit DEF AttrsSeen
<1>3. QED
  BY <1>1, <1>2 DEF Known, Exists, ActiveExist

\* Reading an entry keeps the hotel so far.
LEMMA ReadEntrySound ==
    ASSUME Sound, NEW j \in Jobs, ReadEntry(j)
    PROVE  Sound'
<1>1. Typed /\ HotelSoFar(j) /\ Holding(j) /\ pc[j] = "entries"
  BY DEF Sound, ReadEntry
<1>2. /\ Typed' /\ HotelStep(j) /\ pc'[j] \in {"entries", "creating"} /\ UNCHANGED saved
      /\ SameWrites(tx'[j], tx[j])
      /\ \A a \in Resolved(j)' : a \in Resolved(j) \/ AttrsSeen(j)[a].active
  BY <1>1, ReadEntryStep
<1>3. attrs' = attrs /\ score' = score
  BY <1>2 DEF HotelStep, storeVars
<1>4. \A a \in Resolved(j)' : Known(tx[j], attrs, a)
  <2>1. \A a \in Resolved(j)' : a \in Keys
    <3>1. values'[j] \in Seq(Value)
      BY <1>2 DEF Typed, Memories
    <3>2. QED
      BY <3>1, ValuesTyped DEF Resolved
  <2>2. QED
    BY <1>1, <1>2, <2>1, SeenKnown DEF HotelSoFar
<1>5. Whole(tx'[j], attrs, score)
  BY <1>1, <1>2 DEF HotelSoFar, SameWrites, Whole, Known, Scored
<1>6. HotelSoFar(j)'
  <2>1. \A c \in DOMAIN tx'[j].agg : Known(tx'[j], attrs, c[2]) /\ Scored(tx'[j], score, c)
    BY <1>5 DEF Whole
  <2>2. \A a \in Resolved(j)' : Known(tx'[j], attrs, a)
    BY <1>2, <1>4 DEF Known, SameWrites
  <2>3. QED
    BY <1>1, <1>2, <1>3, <1>5, <2>1, <2>2 DEF HotelSoFar
<1>7. Holding(j)'
  BY <1>1, <1>2, <1>3 DEF Holding, Holds, SameWrites
<1>8. QED
  BY <1>2, <1>6, <1>7, HotelStepSound

\* Creating an attribute, too: the attribute is there then, or the line fails.
LEMMA CreateSound ==
    ASSUME Sound, NEW j \in Jobs, Create(j)
    PROVE  Sound' \/ FailLine(j, at[j].line, saved[j])
<1> DEFINE k == EntryAt(j).key
<1>1. Typed /\ HotelSoFar(j) /\ Holding(j) /\ pc[j] = "creating"
  BY DEF Sound, Create
<1>2. Typed' /\ (~FailLine(j, at[j].line, saved[j]) =>
         /\ HotelStep(j) /\ pc'[j] = "entries"
         /\ Resolved(j)' = Resolved(j) \cup {k} /\ k \in Keys
         /\ tx[j].locks \subseteq tx'[j].locks
         /\ tx'[j].agg = tx[j].agg /\ tx'[j].score = tx[j].score
         /\ \/ Exists(AttrsSeen(j), k) /\ tx'[j].attrs = tx[j].attrs
            \/ tx'[j].attrs = Over(tx[j].attrs, Fresh(j))
         /\ UNCHANGED saved)
  BY <1>1, CreateStep
<1>3. SUFFICES ASSUME ~FailLine(j, at[j].line, saved[j]) PROVE Sound'
  OBVIOUS
<1>4. attrs' = attrs /\ score' = score
  BY <1>2, <1>3 DEF HotelStep, storeVars
<1>5. DOMAIN tx[j].attrs \subseteq DOMAIN tx'[j].attrs
  BY <1>2, <1>3 DEF Over
<1>6. Known(tx'[j], attrs, k)
  <2>1. CASE Exists(AttrsSeen(j), k)
    <3>1. Known(tx[j], attrs, k)
      BY <1>2, <1>3, <2>1, SeenKnown
    <3>2. QED
      BY <1>5, <3>1 DEF Known
  <2>2. CASE tx'[j].attrs = Over(tx[j].attrs, Fresh(j))
    BY <2>2 DEF Over, Fresh, Known
  <2>3. QED
    BY <1>2, <1>3, <2>1, <2>2
<1> HIDE DEF k
<1>7. \A a \in Resolved(j)' : Known(tx'[j], attrs, a)
  BY <1>1, <1>2, <1>3, <1>5, <1>6 DEF HotelSoFar, Known
<1>8. Whole(tx'[j], attrs, score)
  BY <1>1, <1>2, <1>3, <1>5 DEF HotelSoFar, Whole, Known, Scored
<1>9. HotelSoFar(j)'
  <2>1. \A c \in DOMAIN tx'[j].agg : Known(tx'[j], attrs, c[2]) /\ Scored(tx'[j], score, c)
    BY <1>8 DEF Whole
  <2>2. QED
    BY <1>1, <1>2, <1>3, <1>4, <1>7, <1>8, <2>1 DEF HotelSoFar
<1>10. Holding(j)'
  BY <1>1, <1>2, <1>3, <1>4 DEF Holding, Holds
<1>11. QED
  BY <1>2, <1>3, <1>9, <1>10, HotelStepSound

\* Looking for aggregates changes nothing of it.
LEMMA PrefetchSound ==
    ASSUME Sound, NEW j \in Jobs, Prefetch(j)
    PROVE  Sound'
<1>1. Typed /\ HotelSoFar(j) /\ Holding(j) /\ pc[j] = "entries" /\ pc'[j] = "upserting"
  BY DEF Sound, Prefetch, Typed, Normalizations, Tasks
<1>2. Typed' /\ HotelStep(j) /\ UNCHANGED <<tx, saved, values>>
  BY <1>1, PrefetchStep
<1>3. attrs' = attrs /\ score' = score
  BY <1>2 DEF HotelStep, storeVars
<1>4. Resolved(j)' = Resolved(j)
  BY <1>2 DEF Resolved
<1>5. HotelSoFar(j)'
  <2>1. \A c \in DOMAIN tx[j].agg : Known(tx[j], attrs, c[2]) /\ Scored(tx[j], score, c)
    BY <1>1 DEF Whole, HotelSoFar
  <2>2. QED
    BY <1>1, <1>2, <1>3, <1>4, <2>1 DEF HotelSoFar
<1>6. Holding(j)'
  BY <1>1, <1>2, <1>3 DEF Holding
<1>7. QED
  BY <1>2, <1>5, <1>6, HotelStepSound

\* Storing the aggregates leaves scores of this hotel missing, and of this hotel only.
LEMMA UpsertSound ==
    ASSUME Sound, NEW j \in Jobs, Upsert(j)
    PROVE  Sound' \/ FailLine(j, at[j].line, saved[j])
<1> DEFINE stated == {HotelAt(j)} \X Resolved(j)
<1>1. Typed /\ HotelSoFar(j) /\ Holding(j) /\ pc[j] = "upserting"
  BY DEF Sound, Upsert
<1>2. Typed' /\ (~FailLine(j, at[j].line, saved[j]) =>
         /\ HotelStep(j) /\ pc'[j] = "propagating"
         /\ tx'[j].attrs = tx[j].attrs /\ tx'[j].score = tx[j].score
         /\ DOMAIN tx'[j].agg = DOMAIN tx[j].agg \cup stated
         /\ tx[j].locks \subseteq tx'[j].locks /\ queue'[j] = RowsOf(j, "score")
         /\ UNCHANGED <<at, saved, values>>)
  BY <1>1, UpsertStep
<1>3. SUFFICES ASSUME ~FailLine(j, at[j].line, saved[j]) PROVE Sound'
  OBVIOUS
<1>4. attrs' = attrs /\ score' = score /\ file' = file
  BY <1>2, <1>3 DEF HotelStep, storeVars
<1>5. Resolved(j)' = Resolved(j) /\ HotelAt(j)' = HotelAt(j)
  BY <1>2, <1>3, <1>4 DEF Resolved, HotelAt
<1>6. \A c \in stated : c[2] \in Resolved(j)
  OBVIOUS
<1> HIDE DEF stated
<1>7. \A c \in DOMAIN tx'[j].agg :
         Known(tx'[j], attrs, c[2]) /\ (Scored(tx'[j], score, c) \/ c \in stated)
  <2>1. ASSUME NEW c \in DOMAIN tx'[j].agg
        PROVE  Known(tx'[j], attrs, c[2]) /\ (Scored(tx'[j], score, c) \/ c \in stated)
    <3>1. CASE c \in DOMAIN tx[j].agg
      BY <1>1, <1>2, <1>3, <3>1 DEF HotelSoFar, Whole, Known, Scored
    <3>2. CASE c \in stated
      BY <1>1, <1>2, <1>3, <1>6, <3>2 DEF HotelSoFar, Known
    <3>3. QED
      BY <1>2, <1>3, <2>1, <3>1, <3>2
  <2>2. QED
    BY <2>1
<1>8. HotelSoFar(j)'
  <2>1. \A a \in Resolved(j) : Known(tx'[j], attrs, a)
    BY <1>1, <1>2, <1>3 DEF HotelSoFar, Known
  <2>2. QED
    BY <1>1, <1>2, <1>3, <1>4, <1>5, <1>7, <2>1 DEF HotelSoFar, stated
<1>9. Holding(j)'
  <2>1. ASSUME NEW k \in Resolved(j) PROVE ScoreRow(<<HotelAt(j), k>>) \in Range(queue'[j])
    <3>1. PICK i \in DOMAIN values[j] : values[j][i].attr = k
      BY DEF Resolved
    <3>2. queue'[j][i] = ScoreRow(<<HotelAt(j), k>>) /\ i \in DOMAIN queue'[j]
      BY <1>2, <1>3, <3>1 DEF RowsOf, ScoreRow
    <3>3. QED
      BY <3>2 DEF Range
  <2>2. \A k \in Resolved(j)' : ScoreRow(<<HotelAt(j)', k>>) \in Rows(j)'
    BY <1>5, <2>1 DEF Rows
  <2>3. QED
    BY <1>1, <1>2, <1>3, <1>4, <2>2 DEF Holding, Holds
<1>10. QED
  BY <1>2, <1>3, <1>8, <1>9, HotelStepSound

\* No recalculated score is replaced.
Stays == \A c \in Cells : score[c].source = "review" => score'[c].source = "review"

\* A failed line takes the hotel back and keeps what was whole before it.
LEMMA FailSound ==
    ASSUME Sound, Typed', NEW j \in Jobs, NEW l \in Lines(j),
           \/ FailLine(j, l, saved[j])
           \/ FailLine(j, l, tx[j]) /\ pc[j] = "lines"
    PROVE  Sound' /\ Stays
<1>1. /\ Typed /\ HotelSoFar(j) /\ Holding(j) /\ tx[j] \in Tx /\ saved[j] \in Tx
  BY DEF Sound, Typed, Memories, Tasks
<1>2. CASE FailLine(j, l, saved[j])
  <2>1. Ends(j, saved[j], 0)
    BY <1>1, <1>2, FailLineEnds
  <2>2. QED
    BY <1>1, <2>1, EndsSound DEF HotelSoFar, Holding, Stays
<1>3. CASE FailLine(j, l, tx[j]) /\ pc[j] = "lines"
  <2>1. Ends(j, tx[j], 0)
    BY <1>1, <1>3, FailLineEnds
  <2>2. QED
    BY <1>1, <1>3, <2>1, EndsSound DEF HotelSoFar, Holding, Stays
<1>4. QED
  BY <1>2, <1>3

\* Propagating gives every aggregate of the hotel its score, and spares the recalculated ones
\* that the statement sees.
LEMMA PropagateSound ==
    ASSUME Sound, NEW j \in Jobs, Propagate(j)
    PROVE  Sound' /\ Stays
<1>1. /\ Typed /\ HotelSoFar(j) /\ Holding(j) /\ pc[j] = "propagating"
      /\ tx[j] \in Tx /\ Stores /\ values[j] \in Seq(Value)
  BY DEF Sound, Propagate, Typed, Memories, Tasks
<1>2. Typed' /\ AppliedCells(j) \subseteq {HotelAt(j)} \X Resolved(j)
  BY <1>1, PropagateStep
<1>3. PICK t \in Tx, d \in [Counters -> Nat], v \in {"flawed", "good"} :
         /\ DecideLine(j, at[j].line, t, d, v)
         /\ t.attrs = tx[j].attrs /\ t.agg = tx[j].agg
         /\ t.locks = Rows(j)
         /\ DOMAIN t.score = DOMAIN tx[j].score \cup AppliedCells(j)
  BY <1>1, PropagateStep
<1>4. at[j].line \in Lines(j) /\ HotelAt(j) \in Hotels /\ Resolved(j) \subseteq Keys
  BY <1>1, EntryTyped, ResolvedTyped DEF InHotel
<1>5. Ends(j, t, d["applied"])
  <2>1. v \in Verdicts
    BY DEF Verdicts
  <2>2. QED
    BY <1>1, <1>3, <1>4, <2>1, DecideLineEnds
<1>6. \A c \in Cells : ScoreSeen(j)[c] = IF c \in DOMAIN tx[j].score THEN tx[j].score[c]
                                         ELSE score[c]
  BY <1>1, WritesFit DEF ScoreSeen
<1>7. \A c \in DOMAIN tx[j].score : tx[j].score[c].source = "aggregate"
  BY <1>1, TxTyped DEF WrittenBy, Imported
<1>8. \A c \in {HotelAt(j)} \X Resolved(j) : c \in Cells
  BY <1>4 DEF Cells
<1>9. Whole(t, attrs, score)
  <2>1. ASSUME NEW c \in DOMAIN t.agg PROVE Known(t, attrs, c[2]) /\ Scored(t, score, c)
    <3>1. Known(t, attrs, c[2])
      BY <1>1, <1>3, <2>1 DEF HotelSoFar, Known
    <3>2. CASE Scored(tx[j], score, c)
      BY <1>3, <3>1, <3>2 DEF Scored
    <3>3. CASE c \in {HotelAt(j)} \X Resolved(j)
      <4>1. PICK w \in Range(values[j]) : c = <<HotelAt(j), w.attr>>
        BY <1>1, <3>3, ValuesTyped DEF Resolved
      <4>2. CASE w \in Applied(j)
        <5>1. c \in AppliedCells(j)
          BY <4>1, <4>2 DEF AppliedCells
        <5>2. QED
          BY <1>3, <3>1, <5>1 DEF Scored
      <4>3. CASE w \notin Applied(j)
        <5>1. ScoreSeen(j)[c].source = "review"
          BY <4>1, <4>3 DEF Applied, Applies
        <5>2. score[c].source = "review"
          BY <1>6, <1>7, <1>8, <3>3, <5>1
        <5>3. QED
          BY <3>1, <5>2 DEF Scored
      <4>4. QED
        BY <4>2, <4>3
    <3>4. QED
      BY <1>1, <1>3, <2>1, <3>2, <3>3 DEF HotelSoFar
  <2>2. QED
    BY <2>1 DEF Whole
<1>10. Holds(t, score)
  <2>1. \A k \in Resolved(j) : ScoreRow(<<HotelAt(j), k>>) \in Rows(j)
    BY <1>1 DEF Holding
  <2>2. ASSUME NEW c \in AppliedCells(j)
        PROVE  /\ ScoreRow(c) \in Rows(j)
               /\ c \in DOMAIN tx[j].score \/ score[c].source # "review"
    <3>1. c \in {HotelAt(j)} \X Resolved(j)
      BY <1>2, <2>2
    <3>2. ScoreRow(c) \in Rows(j)
      BY <2>1, <3>1
    <3>3. PICK w \in Applied(j) : c = <<HotelAt(j), w.attr>>
      BY DEF AppliedCells
    <3>4. ScoreSeen(j)[c].source # "review"
      BY <3>3 DEF Applied, Applies
    <3>5. QED
      BY <1>6, <1>8, <3>1, <3>2, <3>4
  <2>3. tx[j].locks \subseteq t.locks
    BY <1>3 DEF Rows
  <2>4. QED
    BY <1>1, <1>3, <2>2, <2>3 DEF Holding, Holds
<1>11. QED
  BY <1>2, <1>5, <1>9, <1>10, EndsSound DEF Stays

\* The next line fails at once or opens a savepoint over a whole transaction.
LEMMA NextLineSound ==
    ASSUME Sound, NEW j \in Jobs, NextLine(j)
    PROVE  Sound' /\ Stays
<1>1. Typed /\ HotelSoFar(j) /\ Holding(j) /\ AtRest(j) /\ pc[j] = "lines"
  BY DEF Sound, NextLine
<1>2. /\ Typed'
      /\ \/ \E l \in Unread(j) : FailLine(j, l, tx[j])
         \/ /\ HotelStep(j) /\ pc'[j] = "entries" /\ tx' = tx /\ saved'[j] = tx[j]
            /\ values' = values
  BY <1>1, NextLineStep
<1>3. CASE \E l \in Unread(j) : FailLine(j, l, tx[j])
  BY <1>1, <1>2, <1>3, FailSound DEF Unread
<1>4. CASE HotelStep(j) /\ pc'[j] = "entries" /\ tx' = tx /\ saved'[j] = tx[j] /\ values' = values
  <2>1. attrs' = attrs /\ score' = score
    BY <1>4 DEF HotelStep, storeVars
  <2>2. Resolved(j) = {} /\ Resolved(j)' = {}
    BY <1>1, <1>4 DEF AtRest, InHotel, Resolved
  <2>3. Whole(tx[j], attrs, score)
    BY <1>1 DEF HotelSoFar
  <2>4. \A c \in DOMAIN tx[j].agg : Known(tx[j], attrs, c[2]) /\ Scored(tx[j], score, c)
    BY <2>3 DEF Whole
  <2>5. HotelSoFar(j)'
    BY <1>4, <2>1, <2>2, <2>3, <2>4 DEF HotelSoFar
  <2>6. Holding(j)'
    BY <1>1, <1>4, <2>1 DEF Holding
  <2>7. QED
    BY <1>2, <1>4, <2>1, <2>5, <2>6, HotelStepSound DEF Stays
<1>5. QED
  BY <1>2, <1>3, <1>4

\* Steps that write no attribute and no aggregate, and take no score away.
LEMMA RatedSound ==
    ASSUME Sound, UNCHANGED <<attrs, agg>>,
           \A c \in Cells : score'[c].source = score[c].source \/ score'[c].source = "review"
    PROVE  HotelIsWhole' /\ ActiveExist' /\ Grows /\ Stays
  BY DEF Sound, HotelIsWhole, ActiveExist, Grows, Exists, Stays

\* A run without a transaction that is in no hotel is outside.
LEMMA OutsideRun ==
    ASSUME NEW j \in Jobs, Unwritten(tx'[j]), saved'[j] = NoTx, values'[j] = <<>>,
           pc'[j] \notin InHotel
    PROVE  Outside(j)
  BY NothingWritten DEF Outside

\* Starting and marking a failure leave a run outside, and write no row of the tables.
LEMMA StatusSound ==
    ASSUME Sound, NEW j \in Jobs, Start(j) \/ MarkFailed(j)
    PROVE  Sound' /\ Stays
<1>1. /\ Typed /\ AtRest(j) /\ pc \in [Tasks -> Steps] /\ Jobs \subseteq Tasks
      /\ tx \in [Tasks -> Tx] /\ queue \in [Tasks -> Seq(Lock)]
  BY DEF Sound, Typed, Normalizations, Memories, Tasks
<1>2. /\ Typed' /\ UNCHANGED <<file, attrs, agg, score, lineVars>>
      /\ pc[j] \in {"queued", "lines", "listing", "ranking", "writing"}
      /\ pc' = [pc EXCEPT ![j] = "acking"] \/ pc' = [pc EXCEPT ![j] = "lines"]
      /\ \/ tx' = tx /\ queue' = queue /\ pc[j] = "queued"
         \/ tx' = [tx EXCEPT ![j] = NoTx] /\ queue' = [queue EXCEPT ![j] = <<>>]
  <2>1. CASE Start(j)
    BY <1>1, <2>1, StartStep DEF Start
  <2>2. CASE MarkFailed(j)
    BY <1>1, <2>2, MarkFailedStep DEF MarkFailed, LetGo
  <2>3. QED
    BY <2>1, <2>2
<1>3. Unwritten(tx'[j]) /\ saved'[j] = NoTx /\ values'[j] = <<>>
  BY <1>1, <1>2, NoTxUnwritten DEF AtRest, InLoop, InHotel, lineVars
<1>4. pc'[j] \notin InHotel
  BY <1>1, <1>2 DEF InHotel
<1>5. Outside(j)
  BY <1>3, <1>4, OutsideRun
<1>6. \A i \in Jobs : i # j => Unconcerned(i) /\ Spares(i)
  BY <1>1, <1>2 DEF Unconcerned, Spares, lineVars
<1>7. HotelIsWhole' /\ ActiveExist' /\ Grows /\ Stays
  BY <1>2, RatedSound
<1>8. QED
  BY <1>2, <1>5, <1>6, <1>7, StepSound

\* Finishing commits a whole transaction.
LEMMA FinishSound ==
    ASSUME Sound, NEW j \in Jobs, Finish(j)
    PROVE  Sound' /\ Stays
<1>1. /\ Typed /\ HotelSoFar(j) /\ Holding(j) /\ AtRest(j) /\ pc \in [Tasks -> Steps]
      /\ Jobs \subseteq Tasks /\ tx \in [Tasks -> Tx] /\ pc[j] = "lines" /\ Stores
  BY DEF Sound, Typed, Normalizations, Memories, Tasks, Finish
<1>2. /\ Typed' /\ Commit(j, tx[j], Finished(j)) /\ UNCHANGED <<file, lineVars, queue>>
      /\ pc' = [pc EXCEPT ![j] = IF Ranks(row[j]) THEN "listing" ELSE "acking"]
  BY <1>1, FinishStep DEF Finish
<1>3. Stored(tx[j]) /\ tx' = [tx EXCEPT ![j] = NoTx]
  BY <1>2 DEF Commit, Stored
<1>4. Whole(tx[j], attrs, score) /\ Holds(tx[j], score)
  BY <1>1 DEF HotelSoFar, Holding
<1>5. /\ HotelIsWhole' /\ ActiveExist' /\ Grows
      /\ \A c \in Cells : score'[c].source = "review" => score[c].source = "review"
  BY <1>1, <1>3, <1>4, StoredWhole
<1>6. Stays
  <2>1. \A c \in Cells : score'[c] = IF c \in DOMAIN tx[j].score THEN tx[j].score[c] ELSE score[c]
    BY <1>1, <1>3, WritesFit DEF Stored
  <2>2. QED
    BY <1>4, <2>1 DEF Holds, Stays
<1>7. tx'[j] = NoTx /\ saved'[j] = NoTx /\ values'[j] = <<>>
  BY <1>1, <1>2, <1>3 DEF AtRest, InHotel, lineVars
<1>8. pc'[j] \notin InHotel
  BY <1>1, <1>2 DEF InHotel
<1>9. Outside(j)
  BY <1>7, <1>8, OutsideRun, NoTxUnwritten
<1>10. \A i \in Jobs : i # j => Unconcerned(i) /\ Spares(i)
  BY <1>1, <1>2, <1>3, <1>5 DEF Unconcerned, Spares, lineVars
<1>11. QED
  BY <1>2, <1>5, <1>6, <1>9, <1>10, StepSound

\* A task that may go on with its last row meets no row of another.
LEMMA RowsApart ==
    ASSUME Typed, Sessions, NEW t \in Tasks, NEW u \in Tasks, u # t
    PROVE  /\ AtLastRow(t) => Rows(t) \cap tx[u].locks = {}
           /\ Len(queue[t]) > 1 /\ ~Blocked(t) => Head(queue[t]) \notin tx[u].locks
<1> DEFINE q == queue[t]
<1>1. q \in Seq(Lock) /\ Len(q) \in Nat
  BY LenProperties DEF Typed, Memories
<1>2. tx[t].locks \cap tx[u].locks = {} /\ Rows(t) = tx[t].locks \cup Range(q)
  BY DEF Sessions, Rows
<1>3. ASSUME q # <<>>, ~Blocked(t) PROVE Head(q) \notin tx[u].locks
  BY <1>3 DEF Blocked, WaitsFor
<1> HIDE DEF q
<1>4. ASSUME Len(q) <= 1 PROVE (q = <<>> /\ Range(q) = {}) \/ (q # <<>> /\ Range(q) = {Head(q)})
  <2>1. CASE q = <<>>
    BY <2>1, LenProperties, EmptySeq DEF Range
  <2>2. CASE q # <<>>
    <3>1. Len(q) = 1 /\ Head(q) = q[1]
      <4>1. Len(q) \in Nat \ {0}
        BY <1>1, <2>2, EmptySeq
      <4>2. Len(q) = 1
        BY <1>4, <4>1
      <4>3. QED
        BY <1>1, <4>2
    <3>2. DOMAIN q = {1}
      BY <1>1, <3>1, LenProperties
    <3>3. QED
      BY <2>2, <3>1, <3>2 DEF Range
  <2>3. QED
    BY <2>1, <2>2
<1>5. ASSUME AtLastRow(t) PROVE Rows(t) \cap tx[u].locks = {}
  BY <1>2, <1>3, <1>4, <1>5 DEF AtLastRow, q
<1>6. ASSUME Len(q) > 1, ~Blocked(t) PROVE Head(q) \notin tx[u].locks
  BY <1>1, <1>3, <1>6, EmptySeq
<1>7. QED
  BY <1>5, <1>6 DEF q

\* Taking a row writes nothing.
LEMMA TakeRowSound ==
    ASSUME Sound, NEW t \in Tasks, TakeRow(t)
    PROVE  Sound' /\ Stays
<1>1. Typed /\ Jobs \subseteq Tasks /\ \A i \in Jobs : HotelSoFar(i) /\ Holding(i) /\ AtRest(i)
  BY DEF Sound, Tasks
<1>2. /\ Typed' /\ tx'[t] = [tx[t] EXCEPT !.locks = tx'[t].locks] /\ tx[t] \in Tx
      /\ tx[t].locks \subseteq tx'[t].locks /\ SameRows(t)
      /\ \A u \in Tasks : u # t => tx'[u] = tx[u] /\ queue'[u] = queue[u]
  BY <1>1, TakeRowStep DEF Typed, Memories
<1>3. UNCHANGED <<file, attrs, agg, score, pc, lineVars>>
  BY DEF TakeRow, storeVars
<1>4. \A i \in Jobs : i # t => Unconcerned(i) /\ Spares(i)
  BY <1>1, <1>2, <1>3 DEF Unconcerned, Spares, lineVars
<1>5. ASSUME NEW i \in Jobs, i = t PROVE HotelSoFar(i)' /\ Holding(i)' /\ AtRest(i)'
  <2>1. tx'[i].attrs = tx[i].attrs /\ tx'[i].agg = tx[i].agg /\ tx'[i].score = tx[i].score
    BY <1>2, <1>5 DEF Tx
  <2>2. /\ Resolved(i)' = Resolved(i) /\ HotelAt(i)' = HotelAt(i) /\ Rows(i)' = Rows(i)
        /\ saved'[i] = saved[i] /\ values'[i] = values[i] /\ pc'[i] = pc[i]
    BY <1>2, <1>3, <1>5 DEF Resolved, HotelAt, SameRows, lineVars
  <2>3. HotelSoFar(i)'
    <3>1. HotelSoFar(i)
      BY <1>1
    <3>2. Whole(tx'[i], attrs, score) <=> Whole(tx[i], attrs, score)
      BY <2>1 DEF Whole, Known, Scored
    <3>3. /\ \A k : Known(tx'[i], attrs, k) <=> Known(tx[i], attrs, k)
          /\ \A c : Scored(tx'[i], score, c) <=> Scored(tx[i], score, c)
      BY <2>1 DEF Known, Scored
    <3>4. QED
      BY <1>3, <2>1, <2>2, <3>1, <3>2, <3>3 DEF HotelSoFar
  <2>4. Holding(i)'
    BY <1>1, <1>2, <1>3, <1>5, <2>1, <2>2 DEF Holding, Holds
  <2>5. AtRest(i)'
    <3>1. ASSUME Unwritten(tx[i]) PROVE Unwritten(tx'[i])
      <4>1. tx[i] = [NoTx EXCEPT !.locks = tx[i].locks] /\ tx'[i] = [tx[i] EXCEPT !.locks = tx'[i].locks]
        BY <1>2, <1>5, <3>1 DEF Unwritten
      <4>2. \A x, y : [[NoTx EXCEPT !.locks = x] EXCEPT !.locks = y] = [NoTx EXCEPT !.locks = y]
        BY DEF NoTx
      <4>3. QED
        BY <4>1, <4>2 DEF Unwritten
    <3>2. QED
      BY <1>1, <2>2, <3>1 DEF AtRest
  <2>6. QED
    BY <2>3, <2>4, <2>5
<1>6. HotelIsWhole' /\ ActiveExist' /\ Grows /\ Stays
  BY <1>3, RatedSound
<1>7. QED
  BY <1>2, <1>3, <1>4, <1>5, <1>6, StepSound

\* A recalculation waited for the scores that transactions hold.
LEMMA CommitHotelSound ==
    ASSUME Sound, Sessions, NEW t \in Tasks, CommitHotel(t)
    PROVE  Sound' /\ Stays
<1>1. Typed
  BY DEF Sound
<1>2. /\ Typed' /\ t \notin Jobs
      /\ \A c \in Cells : score'[c] = IF c \in HeldScores(t) THEN Review ELSE score[c]
      /\ \A u \in Tasks : u # t => tx'[u] = tx[u] /\ queue'[u] = queue[u] /\ pc'[u] = pc[u]
  BY <1>1, CommitHotelStep
<1>3. AtLastRow(t) /\ UNCHANGED <<file, attrs, agg, lineVars>>
  BY DEF CommitHotel
<1>4. \A c \in Cells : score'[c].source = score[c].source \/ score'[c].source = "review"
  BY <1>2 DEF Review
<1>5. ASSUME NEW i \in Jobs PROVE Spares(i) /\ Unconcerned(i)
  <2>1. i \in Tasks /\ i # t
    BY <1>2 DEF Tasks
  <2>2. Rows(t) \cap tx[i].locks = {}
    BY <1>1, <1>3, <2>1, RowsApart
  <2>3. Spares(i)
    BY <1>2, <2>2 DEF Spares, HeldScores
  <2>4. QED
    BY <1>2, <1>3, <2>1, <2>3 DEF Unconcerned, lineVars
<1>6. HotelIsWhole' /\ ActiveExist' /\ Grows /\ Stays
  BY <1>3, <1>4, RatedSound
<1>7. QED
  BY <1>2, <1>3, <1>5, <1>6, StepSound

\* A normalization changes no source; listing what to recalculate or to rank, giving up and
\* acknowledging change nothing at all.
LEMMA AsideSound ==
    ASSUME Sound, Sessions, NEW t \in Tasks,
           \/ BeginHotel(t) \/ List(t) \/ ReadPopulation(t) \/ BeginFlush(t)
           \/ CommitRelative(t) \/ GiveUp(t) \/ Acknowledge(t)
    PROVE  Sound' /\ Stays
<1>1. /\ Typed /\ pc \in [Tasks -> Steps] /\ tx \in [Tasks -> Tx] /\ queue \in [Tasks -> Seq(Lock)]
      /\ \A i \in Jobs : AtRest(i) /\ i \in Tasks
  BY DEF Sound, Typed, Normalizations, Memories, Tasks
<1>2. /\ Typed' /\ UNCHANGED <<file, attrs, agg, lineVars>>
      /\ \A c \in Cells : score'[c].source = score[c].source
      /\ \A u \in Tasks : u # t => tx'[u] = tx[u] /\ queue'[u] = queue[u] /\ pc'[u] = pc[u]
      /\ tx'[t] = tx[t] \/ tx'[t] = NoTx
      /\ t \in Jobs => pc[t] \notin InLoop /\ pc'[t] \notin InHotel
  <2>1. CASE BeginHotel(t)
    <3>1. /\ Typed' /\ t \notin Jobs /\ \A u \in Tasks : u # t => queue'[u] = queue[u]
      BY <1>1, <2>1, BeginHotelStep, SentimentAssumption
    <3>2. UNCHANGED <<file, storeVars, lineVars, tx>> /\ pc' = [pc EXCEPT ![t] = "scoring"]
      BY <2>1 DEF BeginHotel
    <3>3. QED
      BY <1>1, <3>1, <3>2 DEF storeVars
  <2>2. CASE List(t)
    <3>1. /\ UNCHANGED <<file, storeVars, lineVars, tx, queue>> /\ pc[t] = "listing"
          /\ pc' = [pc EXCEPT ![t] = "ranking"]
      BY <2>2 DEF List
    <3>2. QED
      BY <1>1, <2>2, <3>1, ListStep DEF storeVars, InLoop, InHotel
  <2>3. CASE ReadPopulation(t)
    <3>1. UNCHANGED <<file, storeVars, lineVars, tx, queue, pc>> /\ pc[t] = "ranking"
      BY <2>3 DEF ReadPopulation
    <3>2. QED
      BY <1>1, <2>3, <3>1, ReadPopulationStep DEF storeVars, InLoop, InHotel
  <2>4. CASE BeginFlush(t)
    <3>1. UNCHANGED <<file, storeVars, lineVars, tx>> /\ pc[t] = "ranking"
      BY <2>4 DEF BeginFlush
    <3>2. QED
      BY <1>1, <2>4, <3>1, BeginFlushStep DEF storeVars, InLoop, InHotel
  <2>5. CASE CommitRelative(t)
    <3>1. /\ UNCHANGED <<file, attrs, agg, lineVars>> /\ pc[t] = "writing"
          /\ pc' = [pc EXCEPT ![t] = "acking"]
      BY <2>5 DEF CommitRelative
    <3>2. Flushes(t)
      BY <3>1 DEF Sessions, Flushing
    <3>3. QED
      BY <1>1, <2>5, <3>1, <3>2, CommitRelativeStep DEF InLoop, InHotel
  <2>6. CASE GiveUp(t)
    <3>1. UNCHANGED <<file, storeVars, lineVars>>
      BY <2>6 DEF GiveUp
    <3>2. QED
      BY <1>1, <2>6, <3>1, GiveUpStep DEF storeVars, LetGo
  <2>7. CASE Acknowledge(t)
    <3>1. /\ UNCHANGED <<file, storeVars, lineVars, tx, queue>> /\ pc[t] = "acking"
          /\ pc' = [pc EXCEPT ![t] = "done"]
      BY <2>7 DEF Acknowledge
    <3>2. QED
      BY <1>1, <2>7, <3>1, AcknowledgeStep DEF storeVars, InLoop, InHotel
  <2>8. QED
    BY <2>1, <2>2, <2>3, <2>4, <2>5, <2>6, <2>7
<1>3. \A i \in Jobs : i # t => Unconcerned(i) /\ Spares(i)
  BY <1>1, <1>2 DEF Unconcerned, Spares, lineVars
<1>4. ASSUME NEW i \in Jobs, i = t PROVE Outside(i)
  <2>1. Unwritten(tx'[i]) /\ saved'[i] = NoTx /\ values'[i] = <<>>
    BY <1>1, <1>2, <1>4, NoTxUnwritten DEF AtRest, InLoop, lineVars
  <2>2. QED
    BY <1>2, <1>4, <2>1, OutsideRun
<1>5. HotelIsWhole' /\ ActiveExist' /\ Grows /\ Stays
  BY <1>2, RatedSound
<1>6. QED
  BY <1>2, <1>3, <1>4, <1>5, StepSound

\* A death takes back what its transaction wrote.
LEMMA CrashSound ==
    ASSUME Sound, NEW t \in Tasks, Crash(t)
    PROVE  Sound' /\ Stays
<1>1. /\ Typed /\ pc \in [Tasks -> Steps] /\ tx \in [Tasks -> Tx] /\ saved \in [Jobs -> Tx]
      /\ values \in [Jobs -> Seq(Value)] /\ at \in [Jobs -> [line: Nat, entry: Nat]]
      /\ queue \in [Tasks -> Seq(Lock)] /\ Jobs \subseteq Tasks
  BY DEF Sound, Typed, Normalizations, Memories, Tasks
<1>2. /\ Typed' /\ UNCHANGED <<file, storeVars>> /\ t \in Jobs
      /\ pc' = [pc EXCEPT ![t] = "queued"] \/ pc' = [pc EXCEPT ![t] = "done"]
      /\ tx' = [tx EXCEPT ![t] = NoTx] /\ queue' = [queue EXCEPT ![t] = <<>>]
      /\ saved' = [saved EXCEPT ![t] = NoTx] /\ values' = [values EXCEPT ![t] = <<>>]
      /\ at' = [at EXCEPT ![t] = [line |-> 0, entry |-> 0]]
  BY <1>1, CrashStep DEF Crash
<1>3. \A i \in Jobs : i # t => Unconcerned(i) /\ Spares(i)
  BY <1>1, <1>2 DEF Unconcerned, Spares, storeVars
<1>4. Outside(t)
  <2>1. tx'[t] = NoTx /\ saved'[t] = NoTx /\ values'[t] = <<>>
    BY <1>1, <1>2
  <2>2. pc'[t] \notin InHotel
    BY <1>1, <1>2 DEF InHotel
  <2>3. QED
    BY <1>2, <2>1, <2>2, OutsideRun, NoTxUnwritten
<1>5. HotelIsWhole' /\ ActiveExist' /\ Grows /\ Stays
  BY <1>2, RatedSound DEF storeVars
<1>6. QED
  BY <1>2, <1>3, <1>4, <1>5, StepSound

\* Every step of a run, a rescoring or a normalization, and every death.
LEMMA SoundNext == Sound /\ Sessions /\ [Next]_vars => Sound' /\ Stays
<1>1. SUFFICES ASSUME Sound, Sessions, [Next]_vars PROVE Sound' /\ Stays
  OBVIOUS
<1>2. ASSUME NEW j \in Jobs, ImportLine(j) PROVE Sound' /\ Stays
  <2>1. Typed /\ Typed'
    BY <1>1, NextTyped DEF Sound, Sessions
  <2>2. ASSUME FailLine(j, at[j].line, saved[j]), pc[j] \in InHotel PROVE Sound' /\ Stays
    BY <1>1, <2>1, <2>2, EntryTyped, FailSound
  <2>3. CASE ReadEntry(j) \/ Prefetch(j)
    <3>1. Sound' /\ UNCHANGED score
      BY <1>1, <2>3, ReadEntrySound, PrefetchSound DEF ReadEntry, Prefetch, storeVars
    <3>2. QED
      BY <3>1 DEF Stays
  <2>4. CASE Create(j)
    <3>1. pc[j] \in InHotel
      BY <2>4 DEF Create, InHotel
    <3>2. CASE ~FailLine(j, at[j].line, saved[j])
      BY <1>1, <2>1, <2>4, <3>2, CreateSound, CreateStep DEF HotelStep, storeVars, Stays
    <3>3. QED
      BY <2>2, <3>1, <3>2
  <2>5. CASE Upsert(j)
    <3>1. pc[j] \in InHotel
      BY <2>5 DEF Upsert, InHotel
    <3>2. CASE ~FailLine(j, at[j].line, saved[j])
      BY <1>1, <2>1, <2>5, <3>2, UpsertSound, UpsertStep DEF HotelStep, storeVars, Stays
    <3>3. QED
      BY <2>2, <3>1, <3>2
  <2>6. CASE StatementFails(j)
    BY <2>1, <2>2, <2>6, StatementFailsStep DEF StatementFails, InHotel
  <2>7. QED
    BY <1>1, <1>2, <2>3, <2>4, <2>5, <2>6, StatusSound, NextLineSound, PropagateSound, FinishSound
       DEF ImportLine
<1>3. ASSUME NEW t \in Tasks, Work(t) \/ Crash(t) PROVE Sound' /\ Stays
  <2>1. CASE Work(t)
    BY <1>1, <1>2, <2>1, TakeRowSound, CommitHotelSound, AsideSound DEF Work
  <2>2. CASE Crash(t)
    BY <1>1, <2>2, CrashSound
  <2>3. QED
    BY <1>3, <2>1, <2>2
<1>4. CASE UNCHANGED vars
  <2>1. Typed'
    BY <1>1, NextTyped DEF Sound, Sessions
  <2>2. /\ UNCHANGED <<file, attrs, agg, score>>
        /\ \A i \in Jobs : Unconcerned(i) /\ Spares(i)
    BY <1>4 DEF vars, storeVars, lineVars, Unconcerned, Spares
  <2>3. HotelIsWhole' /\ ActiveExist' /\ Grows /\ Stays
    BY <1>1, <2>2, RatedSound
  <2>4. QED
    BY <1>1, <2>1, <2>2, <2>3, StepSound
<1>5. QED
  BY <1>1, <1>3, <1>4 DEF Next

\* The initial state: nothing stored, nothing held.
LEMMA InitSound == Init => Sound
<1>1. SUFFICES ASSUME Init PROVE Sound
  OBVIOUS
<1>2. Typed
  BY <1>1, InitTyped
<1>3. HotelIsWhole
  BY <1>1 DEF Init, HotelIsWhole
<1>4. ActiveExist
  <2>1. ASSUME NEW k \in Keys, attrs[k].active PROVE Exists(attrs, k)
    <3>1. attrs[k] = IF k \in Prior \cup Inactive
                     THEN [active |-> k \in Prior, slug |-> NameOf[k]] ELSE NoAttr
      BY <1>1 DEF Init
    <3>2. NameOf[k] # "none"
      BY SentimentAssumption
    <3>3. QED
      BY <2>1, <3>1, <3>2 DEF Exists, NoAttr
  <2>2. QED
    BY <2>1 DEF ActiveExist
<1>5. ASSUME NEW j \in Jobs PROVE HotelSoFar(j) /\ Holding(j) /\ AtRest(j)
  <2>1. tx[j] = NoTx /\ saved[j] = NoTx /\ values[j] = <<>>
    BY <1>1 DEF Init, Tasks
  <2>2. Resolved(j) = {}
    BY <2>1 DEF Resolved
  <2>3. /\ Whole(NoTx, attrs, score) /\ Holds(NoTx, score) /\ NoTx.locks = {}
        /\ DOMAIN NoTx.agg = {} /\ Unwritten(NoTx)
    BY NothingWritten, NoTxUnwritten
  <2>4. QED
    BY <2>1, <2>2, <2>3 DEF HotelSoFar, Holding, AtRest
<1>6. QED
  BY <1>2, <1>3, <1>4, <1>5 DEF Sound

-----------------------------------------------------------------------------
(* A row is one transaction's                                              *)

\* A step of one task, which holds then no row that another does.
LEMMA SessionStep ==
    ASSUME Sessions, NEW t \in Tasks,
           \A u \in Tasks : u # t => /\ tx'[u] = tx[u] /\ queue'[u] = queue[u] /\ pc'[u] = pc[u]
                                     /\ todo'[u] = todo[u] /\ pop'[u] = pop[u]
                                     /\ tx'[t].locks \cap tx[u].locks = {},
           Session(t)', pc'[t] = "writing" => Flushes(t)' /\ todo'[t] = {}
    PROVE  Sessions'
<1>1. ASSUME NEW u \in Tasks, u # t
      PROVE  Session(u)' /\ (pc'[u] = "writing" => Flushes(u)' /\ todo'[u] = {})
  <2>1. Session(u) /\ (pc[u] = "writing" => Flushes(u) /\ todo[u] = {})
    BY DEF Sessions, Flushing
  <2>2. Session(u)'
    BY <1>1, <2>1 DEF Session
  <2>3. ASSUME pc'[u] = "writing" PROVE Flushes(u)' /\ todo'[u] = {}
    <3>1. /\ Flushes(u) /\ tx'[u] = tx[u] /\ queue'[u] = queue[u] /\ pop'[u] = pop[u]
          /\ todo'[u] = {}
      BY <1>1, <2>1, <2>3
    <3>2. HeldScores(u)' = HeldScores(u)
      BY <3>1 DEF HeldScores, Rows
    <3>3. ReadCells(u)' = ReadCells(u)
      BY <3>1 DEF ReadCells
    <3>4. Same(u)' = Same(u)
      BY <3>1, <3>3 DEF Same, Ranked
    <3>5. QED
      BY <3>1, <3>2, <3>3, <3>4 DEF Flushes
  <2>4. QED
    BY <2>2, <2>3
<1>2. ASSUME NEW a \in Tasks, NEW b \in Tasks, a # b
      PROVE  tx'[a].locks \cap tx'[b].locks = {}
  <2>1. tx[a].locks \cap tx[b].locks = {}
    BY <1>2 DEF Sessions
  <2>2. QED
    BY <1>2, <2>1
<1>3. QED
  BY <1>1, <1>2 DEF Sessions, Flushing

\* A task whose session ends.
LEMMA SessionOver ==
    ASSUME Typed, Sessions, NEW t \in Tasks, NEW step \in Idle, LetGo(t, step)
    PROVE  Sessions'
<1>1. /\ pc \in [Tasks -> Steps] /\ tx \in [Tasks -> Tx] /\ queue \in [Tasks -> Seq(Lock)]
      /\ DOMAIN todo = Tasks /\ pop \in [Tasks -> Partials(Keys, Curve)]
  BY DEF Typed, Memories, Normalizations
<1>2. /\ tx'[t] = NoTx /\ queue'[t] = <<>> /\ pc'[t] = step /\ NoTx.locks = {}
      /\ \A u \in Tasks : u # t => /\ tx'[u] = tx[u] /\ queue'[u] = queue[u] /\ pc'[u] = pc[u]
                                   /\ todo'[u] = todo[u] /\ pop'[u] = pop[u]
  BY <1>1, NoTxUnwritten DEF LetGo
<1>3. Session(t)' /\ pc'[t] # "writing"
  BY <1>2 DEF Session, Idle
<1>4. QED
  BY <1>2, <1>3, SessionStep

\* The end of a line.
LEMMA SessionEnds ==
    ASSUME Typed, Sessions, NEW j \in Jobs, NEW t, NEW n, Ends(j, t, n),
           t.locks \subseteq tx[j].locks \/ (t.locks = Rows(j) /\ AtLastRow(j))
    PROVE  Sessions'
<1>1. pc \in [Tasks -> Steps] /\ j \in Tasks
  BY DEF Typed, Normalizations, Tasks
<1>2. /\ pc' = [pc EXCEPT ![j] = "lines"] /\ UNCHANGED <<todo, pop>> /\ queue'[j] = <<>>
      /\ \A u \in Tasks : u # j => tx'[u] = tx[u] /\ queue'[u] = queue[u]
      /\ tx'[j] = NoTx \/ tx'[j].locks = t.locks
  BY DEF Ends, SameWrites
<1>3. ASSUME NEW u \in Tasks, u # j PROVE tx'[j].locks \cap tx[u].locks = {}
  <2>1. tx[j].locks \cap tx[u].locks = {}
    BY <1>1, <1>3 DEF Sessions
  <2>2. AtLastRow(j) => Rows(j) \cap tx[u].locks = {}
    BY <1>1, <1>3, RowsApart
  <2>3. QED
    BY <1>2, <2>1, <2>2, NoTxUnwritten
<1>4. /\ pc'[j] = "lines" /\ \A u \in Tasks : u # j => pc'[u] = pc[u]
  BY <1>1, <1>2
<1>5. Session(j)'
  BY <1>2, <1>4 DEF Session, Idle
<1>6. QED
  BY <1>1, <1>2, <1>3, <1>4, <1>5, SessionStep

\* A step inside a hotel, which takes its last row at most.
LEMMA SessionInHotel ==
    ASSUME Typed, Sessions, NEW j \in Jobs, HotelStep(j),
           tx'[j].locks \subseteq tx[j].locks \/ (tx'[j].locks = Rows(j) /\ AtLastRow(j))
    PROVE  Sessions'
<1>1. j \in Tasks
  BY DEF Tasks
<1>2. /\ pc'[j] \in InHotel /\ UNCHANGED <<todo, pop>>
      /\ \A u \in Tasks : u # j => tx'[u] = tx[u] /\ queue'[u] = queue[u] /\ pc'[u] = pc[u]
  BY DEF HotelStep, rankVars
<1>3. ASSUME NEW u \in Tasks, u # j PROVE tx'[j].locks \cap tx[u].locks = {}
  <2>1. tx[j].locks \cap tx[u].locks = {}
    BY <1>1, <1>3 DEF Sessions
  <2>2. AtLastRow(j) => Rows(j) \cap tx[u].locks = {}
    BY <1>1, <1>3, RowsApart
  <2>3. QED
    BY <2>1, <2>2
<1>4. Session(j)' /\ pc'[j] # "writing"
  BY <1>2 DEF Session, Idle, InHotel
<1>5. QED
  BY <1>1, <1>2, <1>3, <1>4, SessionStep

\* The line loop of a job.
LEMMA SessionLine ==
    ASSUME Sound, Sessions, NEW j \in Jobs, ImportLine(j)
    PROVE  Sessions'
<1>1. /\ Typed /\ Holding(j) /\ j \in Tasks /\ pc \in [Tasks -> Steps]
      /\ tx[j] \in Tx /\ saved[j] \in Tx /\ tx \in [Tasks -> Tx] /\ Session(j)
      /\ \A u \in Tasks : u # j => tx[j].locks \cap tx[u].locks = {}
  BY DEF Sound, Sessions, Typed, Normalizations, Memories, Tasks
<1>2. ASSUME FailLine(j, at[j].line, saved[j]), pc[j] \in InHotel PROVE Sessions'
  <2>1. at[j].line \in Lines(j)
    BY <1>1, <1>2, EntryTyped
  <2>2. Ends(j, saved[j], 0)
    BY <1>1, <1>2, <2>1, FailLineEnds
  <2>3. QED
    BY <1>1, <2>2, SessionEnds DEF Holding
<1>3. CASE Start(j)
  <2>1. /\ pc[j] = "queued" /\ UNCHANGED <<todo, pop, tx, queue>>
        /\ pc' = [pc EXCEPT ![j] = "acking"] \/ pc' = [pc EXCEPT ![j] = "lines"]
    BY <1>3 DEF Start
  <2>2. /\ pc'[j] \in {"acking", "lines"} /\ \A u \in Tasks : u # j => pc'[u] = pc[u]
    BY <1>1, <2>1
  <2>3. Session(j)'
    BY <1>1, <2>1, <2>2 DEF Session, Idle
  <2>4. QED
    BY <1>1, <2>1, <2>2, <2>3, SessionStep
<1>4. CASE NextLine(j)
  <2>1. \/ \E l \in Unread(j) : FailLine(j, l, tx[j])
        \/ HotelStep(j) /\ tx' = tx
    BY <1>1, <1>4, NextLineStep
  <2>2. CASE \E l \in Unread(j) : FailLine(j, l, tx[j])
    <3>1. PICK l \in Lines(j) : FailLine(j, l, tx[j])
      BY <2>2 DEF Unread
    <3>2. Ends(j, tx[j], 0)
      BY <1>1, <3>1, FailLineEnds
    <3>3. QED
      BY <1>1, <3>2, SessionEnds
  <2>3. QED
    BY <1>1, <2>1, <2>2, SessionInHotel
<1>5. CASE ReadEntry(j)
  BY <1>1, <1>5, ReadEntryStep, SessionInHotel DEF SameWrites
<1>6. CASE Create(j)
  <2>1. pc[j] \in InHotel
    BY <1>6 DEF Create, InHotel
  <2>2. QED
    BY <1>1, <1>2, <1>6, <2>1, CreateStep, SessionInHotel
<1>7. CASE Prefetch(j)
  BY <1>1, <1>7, PrefetchStep, SessionInHotel
<1>8. CASE Upsert(j)
  <2>1. pc[j] \in InHotel
    BY <1>8 DEF Upsert, InHotel
  <2>2. QED
    BY <1>1, <1>2, <1>8, <2>1, UpsertStep, SessionInHotel
<1>9. CASE Propagate(j)
  <2>1. AtLastRow(j) /\ pc[j] \in InHotel
    BY <1>1, <1>9, PropagateStep DEF Propagate, InHotel
  <2>2. PICK t \in Tx, d \in [Counters -> Nat], v \in {"flawed", "good"} :
           DecideLine(j, at[j].line, t, d, v) /\ t.locks = Rows(j)
    BY <1>1, <1>9, PropagateStep
  <2>3. at[j].line \in Lines(j) /\ v \in Verdicts
    BY <1>1, <2>1, EntryTyped DEF Verdicts
  <2>4. Ends(j, t, d["applied"])
    BY <1>1, <2>2, <2>3, DecideLineEnds
  <2>5. QED
    BY <1>1, <2>1, <2>2, <2>4, SessionEnds
<1>10. CASE StatementFails(j)
  BY <1>1, <1>2, <1>10, StatementFailsStep DEF StatementFails, InHotel
<1>11. CASE Finish(j)
  <2>1. /\ pc[j] = "lines" /\ UNCHANGED <<todo, pop, queue>> /\ tx' = [tx EXCEPT ![j] = NoTx]
        /\ pc' = [pc EXCEPT ![j] = IF Ranks(row[j]) THEN "listing" ELSE "acking"]
    BY <1>1, <1>11, FinishStep DEF Finish, Commit
  <2>2. /\ tx'[j] = NoTx /\ pc'[j] \in {"listing", "acking"} /\ queue'[j] = <<>>
        /\ \A u \in Tasks : u # j => tx'[u] = tx[u] /\ pc'[u] = pc[u]
    BY <1>1, <2>1 DEF Session
  <2>3. Session(j)' /\ NoTx.locks = {}
    BY <2>2, NoTxUnwritten DEF Session, Idle
  <2>4. QED
    BY <1>1, <2>1, <2>2, <2>3, SessionStep
<1>12. CASE MarkFailed(j)
  BY <1>1, <1>12, MarkFailedStep, SessionOver DEF Idle
<1>13. QED
  BY <1>3, <1>4, <1>5, <1>6, <1>7, <1>8, <1>9, <1>10, <1>11, <1>12 DEF ImportLine

\* Taking a row, rescoring and normalizing.
LEMMA SessionTask ==
    ASSUME Sound, Sessions, NEW t \in Tasks,
           \/ TakeRow(t) \/ BeginHotel(t) \/ CommitHotel(t) \/ List(t) \/ ReadPopulation(t)
           \/ BeginFlush(t) \/ CommitRelative(t) \/ Acknowledge(t)
    PROVE  Sessions'
<1>1. /\ Typed /\ pc \in [Tasks -> Steps] /\ tx \in [Tasks -> Tx] /\ Session(t)
      /\ queue \in [Tasks -> Seq(Lock)]
      /\ DOMAIN todo = Tasks /\ pop \in [Tasks -> Partials(Keys, Curve)]
      /\ \A u \in Tasks : u # t => tx[t].locks \cap tx[u].locks = {}
      /\ pc[t] = "writing" => Flushes(t) /\ todo[t] = {}
  BY DEF Sound, Sessions, Typed, Normalizations, Memories, Flushing
<1>2. CASE TakeRow(t)
  <2>1. /\ tx'[t].locks = tx[t].locks \cup {Head(queue[t])} /\ SameRows(t)
        /\ \A u \in Tasks : u # t => tx'[u] = tx[u] /\ queue'[u] = queue[u]
    BY <1>1, <1>2, TakeRowStep
  <2>2. UNCHANGED <<pc, todo, pop>> /\ Len(queue[t]) > 1 /\ ~Blocked(t)
    BY <1>2 DEF TakeRow, rankVars
  <2>3. \A u \in Tasks : u # t => tx'[t].locks \cap tx[u].locks = {}
    BY <1>1, <2>1, <2>2, RowsApart
  <2>4. queue[t] # <<>>
    BY <1>1, <2>2, EmptySeq, LenProperties
  <2>5. Session(t)'
    BY <1>1, <2>2, <2>4 DEF Session
  <2>6. ASSUME pc'[t] = "writing" PROVE Flushes(t)' /\ todo'[t] = {}
    <3>1. HeldScores(t)' = HeldScores(t)
      BY <2>1 DEF HeldScores, SameRows
    <3>2. ReadCells(t)' = ReadCells(t) /\ Same(t)' = Same(t)
      BY <2>2 DEF ReadCells, Same, Ranked
    <3>3. QED
      BY <1>1, <2>2, <2>6, <3>1, <3>2 DEF Flushes
  <2>7. QED
    BY <2>1, <2>2, <2>3, <2>5, <2>6, SessionStep
<1>3. CASE BeginHotel(t)
  <2>1. \A u \in Tasks : u # t => queue'[u] = queue[u]
    BY <1>1, <1>3, BeginHotelStep
  <2>2. /\ pc' = [pc EXCEPT ![t] = "scoring"] /\ UNCHANGED <<tx, pop>>
        /\ \E S : todo' = [todo EXCEPT ![t] = S]
    BY <1>3 DEF BeginHotel
  <2>3. /\ pc'[t] = "scoring"
        /\ \A u \in Tasks : u # t => pc'[u] = pc[u] /\ todo'[u] = todo[u]
    BY <1>1, <2>2
  <2>4. Session(t)'
    BY <2>3 DEF Session, Idle
  <2>5. QED
    BY <1>1, <2>1, <2>2, <2>3, <2>4, SessionStep
<1>4. CASE CommitHotel(t)
  <2>1. /\ tx'[t] = NoTx /\ pc'[t] \in {"listing", "recalculating"}
        /\ \A u \in Tasks : u # t => tx'[u] = tx[u] /\ queue'[u] = queue[u] /\ pc'[u] = pc[u]
    BY <1>1, <1>4, CommitHotelStep
  <2>2. queue'[t] = <<>> /\ UNCHANGED <<todo, pop>>
    BY <1>1, <1>4 DEF CommitHotel
  <2>3. Session(t)' /\ pc'[t] # "writing" /\ tx'[t].locks = {}
    BY <2>1, <2>2, NoTxUnwritten DEF Session
  <2>4. QED
    BY <2>1, <2>2, <2>3, SessionStep
<1>5. CASE List(t) \/ ReadPopulation(t) \/ Acknowledge(t)
  <2>1. /\ UNCHANGED <<tx, queue>> /\ pc[t] \in {"listing", "ranking", "acking"}
        /\ pc' = pc \/ (\E step \in {"ranking", "done"} : pc' = [pc EXCEPT ![t] = step])
        /\ todo' = todo \/ \E S : todo' = [todo EXCEPT ![t] = S]
        /\ pop' = pop \/ \E S : pop' = [pop EXCEPT ![t] = S]
    <3>1. CASE List(t)
      BY <3>1 DEF List
    <3>2. CASE ReadPopulation(t)
      BY <3>2 DEF ReadPopulation
    <3>3. CASE Acknowledge(t)
      BY <3>3 DEF Acknowledge, rankVars
    <3>4. QED
      BY <1>5, <3>1, <3>2, <3>3
  <2>2. /\ pc'[t] \in {"listing", "ranking", "acking", "done"}
        /\ \A u \in Tasks : u # t => pc'[u] = pc[u] /\ todo'[u] = todo[u] /\ pop'[u] = pop[u]
    BY <1>1, <2>1
  <2>3. Session(t)'
    BY <1>1, <2>1, <2>2 DEF Session, Idle
  <2>4. QED
    BY <1>1, <2>1, <2>2, <2>3, SessionStep
<1>6. CASE BeginFlush(t)
  <2>1. /\ UNCHANGED <<tx, todo, pop>> /\ todo[t] = {} /\ pc[t] = "ranking"
    BY <1>6 DEF BeginFlush, rankVars
  <2>2. /\ pc'[t] = "writing"
        /\ \A u \in Tasks : u # t => queue'[u] = queue[u] /\ pc'[u] = pc[u]
    BY <1>1, <1>6, BeginFlushStep
  <2>3. PICK cells \in SUBSET ReadCells(t) :
           /\ ReadCells(t) \ Same(t) \subseteq cells
           /\ Range(queue'[t]) = {ScoreRow(c) : c \in cells}
    BY <1>1, <1>6, BeginFlushStep
  <2>4. Session(t)'
    BY <2>2 DEF Session, Idle
  <2>5. Flushes(t)'
    <3>1. tx'[t].locks = {}
      BY <1>1, <2>1, NoTxUnwritten DEF Session, Idle
    <3>2. HeldScores(t)' = cells
      <4>1. \A c, d \in Cells : ScoreRow(c) = ScoreRow(d) => c = d
        BY DEF ScoreRow, RowAt, Cells
      <4>2. cells \subseteq Cells
        BY DEF ReadCells
      <4>3. Rows(t)' = {ScoreRow(c) : c \in cells}
        BY <2>3, <3>1 DEF Rows
      <4>4. QED
        BY <4>1, <4>2, <4>3 DEF HeldScores
    <3>3. ReadCells(t)' = ReadCells(t) /\ Same(t)' = Same(t)
      BY <2>1 DEF ReadCells, Same, Ranked
    <3>4. QED
      BY <2>3, <3>2, <3>3 DEF Flushes
  <2>6. QED
    BY <1>1, <2>1, <2>2, <2>4, <2>5, SessionStep
<1>7. CASE CommitRelative(t)
  <2>1. /\ pc' = [pc EXCEPT ![t] = "acking"] /\ tx' = [tx EXCEPT ![t] = NoTx]
        /\ queue' = [queue EXCEPT ![t] = <<>>] /\ pop' = [pop EXCEPT ![t] = <<>>]
        /\ todo' = todo
    BY <1>7 DEF CommitRelative
  <2>2. /\ pc'[t] = "acking" /\ tx'[t] = NoTx /\ queue'[t] = <<>>
        /\ \A u \in Tasks : u # t => /\ pc'[u] = pc[u] /\ tx'[u] = tx[u] /\ queue'[u] = queue[u]
                                     /\ pop'[u] = pop[u]
    BY <1>1, <2>1
  <2>3. Session(t)' /\ tx'[t].locks = {}
    BY <2>2, NoTxUnwritten DEF Session
  <2>4. QED
    BY <2>1, <2>2, <2>3, SessionStep
<1>8. QED
  BY <1>2, <1>3, <1>4, <1>5, <1>6, <1>7

\* Every step keeps rows apart: a write takes those that are free, and what ends lets go.
LEMMA SessionsNext == Sound /\ Sessions /\ [Next]_vars => Sessions'
<1>1. SUFFICES ASSUME Sound, Sessions, [Next]_vars PROVE Sessions'
  OBVIOUS
<1>2. Typed
  BY <1>1 DEF Sound
<1>3. ASSUME NEW t \in Tasks, GiveUp(t) PROVE Sessions'
  BY <1>1, <1>2, <1>3, GiveUpStep, SessionOver DEF Idle
<1>4. ASSUME NEW t \in Tasks, Crash(t) PROVE Sessions'
  BY <1>1, <1>2, <1>4, CrashStep, SessionOver DEF Idle
<1>5. ASSUME NEW t \in Tasks, Work(t) PROVE Sessions'
  BY <1>1, <1>3, <1>5, SessionLine, SessionTask DEF Work
<1>6. CASE UNCHANGED vars
  <2>1. UNCHANGED <<pc, queue, tx, todo, pop>>
    BY <1>6 DEF vars, rankVars
  <2>2. QED
    BY <1>1, <2>1
       DEF Sessions, Session, Flushing, Flushes, HeldScores, Rows, ReadCells, Same, Ranked
<1>7. QED
  BY <1>1, <1>4, <1>5, <1>6 DEF Next

\* At the start there is no session.
LEMMA InitSessions == Init => Sessions
<1>1. SUFFICES ASSUME Init PROVE Sessions
  OBVIOUS
<1>2. /\ \A t \in Tasks : pc[t] = "queued" /\ tx[t] = NoTx /\ queue[t] = <<>>
  BY <1>1 DEF Init
<1>3. QED
  BY <1>2, NoTxUnwritten DEF Sessions, Session, Flushing

\* Runs are sound and rows are one task's in every reachable state.
LEMMA Soundness == Spec => [](Sound /\ Sessions)
  BY InitSound, InitSessions, SoundNext, SessionsNext, PTL DEF Spec

\* What a run holds is well-typed, in every reachable state.
LEMMA Types == Spec => []Typed
<1>1. Sound => Typed
  BY DEF Sound
<1>2. QED
  BY <1>1, Soundness, PTL

\* The type invariant of the imports and the rescoring.
THEOREM Typing == Spec => []TypeOK
<1>1. ASSUME Typed PROVE TypeOK
  <2>1. Stores /\ Memories /\ Normalizations /\ \A j \in Jobs : InFile(j)
    BY <1>1 DEF Typed
  <2>2. /\ attrs \in [Keys -> [active: BOOLEAN, slug: Names \cup Keys \cup {"none"}]]
        /\ agg \in [Cells -> Scores \cup {0}] /\ DOMAIN score = Cells
    BY <2>1 DEF Stores, Attr, Slugs
  <2>3. \A c \in Cells : /\ score[c].source \in {"none", "aggregate", "review"}
                         /\ score[c].score \in Scores \cup {0, ReviewScore}
                         /\ score[c].relative \subseteq Hotels \X (Scores \cup {ReviewScore})
    BY <2>1 DEF Stores, Row, Relative, Rated
  <2>4. ASSUME NEW j \in Jobs
        PROVE  /\ \A r \in {job[j], row[j]} :
                     /\ r.status \in Statuses /\ r.completed \in BOOLEAN
                     /\ r.line \in 0 .. Len(file[j]) /\ r.n \in [Counters -> Nat]
               /\ verdict[j] \in [Lines(j) -> Verdicts]
               /\ issues[j] \in [hotel: Nat, attribute: Nat]
               /\ at[j].line \in 0 .. Len(file[j])
               /\ Resolved(j) \subseteq Keys /\ existing[j] \subseteq Resolved(j)
    <3>1. file[j] \in Seq(Line)
      BY <1>1, SentimentAssumption DEF Typed
    <3>2. Len(file[j]) \in Nat
      BY <3>1, LenProperties
    <3>3. job[j] \in JobRow /\ row[j] \in JobRow /\ at[j].line \in Nat /\ InFile(j)
      BY <2>1 DEF Stores, Memories
    <3>4. \A r \in {job[j], row[j]} : /\ r.status \in Statuses /\ r.completed \in BOOLEAN
                                      /\ r.line \in 0 .. Len(file[j])
                                      /\ r.n \in [Counters -> Nat]
      BY <3>2, <3>3 DEF JobRow, InFile
    <3>5. verdict[j] \in [Lines(j) -> Verdicts]
      <4>1. verdict[j] \in Partials(Nat, Verdicts)
        BY <2>1 DEF Stores
      <4>2. \E E \in SUBSET Nat : verdict[j] \in [E -> Verdicts]
        BY <4>1 DEF Partials
      <4>3. QED
        BY <3>3, <4>2 DEF InFile
    <3>6. QED
      BY <1>1, <2>1, <3>2, <3>3, <3>4, <3>5, ResolvedTyped DEF InFile, Stores, Memories
  <2>5. \A t \in Tasks : /\ DOMAIN tx[t].attrs \subseteq Keys
                         /\ DOMAIN tx[t].agg \subseteq Cells /\ DOMAIN tx[t].score \subseteq Cells
    BY <2>1, TxTyped DEF Memories, WrittenBy
  <2>6. QED
    BY <2>1, <2>2, <2>3, <2>4, <2>5 DEF TypeOK, Normalizations
<1>2. QED
  BY <1>1, Types, PTL

\* Every stored aggregate has its attribute and a score (begin_nested): a hotel is stored
\* as a whole or not at all.
THEOREM HotelsAreWhole == Spec => []HotelIsWhole
<1>1. Sound => HotelIsWhole
  BY DEF Sound
<1>2. QED
  BY <1>1, Soundness, PTL

\* No import ever replaces a score recalculated from reviews (upsert_aggregate_hotel_scores).
THEOREM ReviewsPrevail == Spec => ReviewScoresStay
<1>1. Sound /\ Sessions /\ [Next]_vars =>
         [\A c \in Cells : score[c].source = "review" => score'[c].source = "review"]_vars
  BY SoundNext DEF Stays
<1>2. QED
  BY <1>1, Soundness, PTL DEF Spec, ReviewScoresStay
-----------------------------------------------------------------------------
(* Rankings read fresh scores                                              *)

\* The tasks that will still normalize an attribute, unless they fail.
Owes(t, k) ==
    \/ t \in Rescorings /\ pc[t] \in {"queued", "recalculating", "scoring", "listing"}
    \/ t \in Jobs /\ pc[t] = "listing"
    \/ /\ t \in Jobs /\ pc[t] \in {"queued"} \cup InLoop
       /\ job[t].n["applied"] > 0 /\ job[t].status # "COMPLETED"
    \/ pc[t] \in {"ranking", "writing"} /\ k \in todo[t] \cup DOMAIN pop[t]

\* The counters of a run tell whether it has changed scores, and until it has
\* finished its job does not say that it has.
Counted(j) ==
    /\ pc[j] \in InLoop =>
          /\ job[j].status # "COMPLETED" /\ row[j].status # "COMPLETED"
          /\ row[j].n["applied"] >= job[j].n["applied"]
          /\ DOMAIN tx[j].score # {} => row[j].n["applied"] > 0
          /\ DOMAIN saved[j].score # {} => row[j].n["applied"] > 0
    /\ pc[j] \in {"listing", "ranking", "writing"} => job[j].n["applied"] > 0

\* A population that was read is the present one, or its attribute is tainted.
Reading(t) == \A k \in DOMAIN pop[t] \ taint[t] : pop[t][k] = Population(k)

Owed(k) == \E t \in Tasks : Owes(t, k)

Fresher ==
    /\ Sound
    /\ \A j \in Jobs : Counted(j)
    /\ \A t \in Tasks : Reading(t)
    /\ \A k \in Unfresh \ excused : Owed(k)

\* A step that changes no score of an attribute changes its population in nothing.
LEMMA ColumnKept ==
    ASSUME NEW k \in Keys, \A h \in Hotels : score'[<<h, k>>] = score[<<h, k>>]
    PROVE  Population(k)' = Population(k) /\ (k \in Unfresh' <=> k \in Unfresh)
<1>1. Population(k)' = Population(k)
  BY DEF Population
<1>2. \A h \in DOMAIN Population(k) : h \in Hotels
  BY DEF Population
<1>3. QED
  BY <1>1, <1>2 DEF Unfresh

\* Scores change in the columns ks only.
Columns(ks) == \A c \in Cells : c[2] \notin ks => score'[c] = score[c]

\* Touching the attributes whose scores change taints the populations that were read.
LEMMA TouchedReading ==
    ASSUME Typed, \A t \in Tasks : Reading(t), NEW ks, Columns(ks), Touch(ks), pop' = pop
    PROVE  /\ \A t \in Tasks : Reading(t)'
           /\ \A k \in Keys \ ks : k \in Unfresh' => k \in Unfresh
<1>1. \A k \in Keys \ ks : Population(k)' = Population(k) /\ (k \in Unfresh' <=> k \in Unfresh)
  <2>1. ASSUME NEW k \in Keys, k \notin ks
        PROVE  Population(k)' = Population(k) /\ (k \in Unfresh' <=> k \in Unfresh)
    <3>1. \A h \in Hotels : score'[<<h, k>>] = score[<<h, k>>]
      BY <2>1 DEF Columns, Cells
    <3>2. QED
      BY <3>1, ColumnKept
  <2>2. QED
    BY <2>1
<1>2. ASSUME NEW t \in Tasks, NEW k \in DOMAIN pop'[t], k \notin taint'[t]
      PROVE  pop'[t][k] = Population(k)'
  <2>1. DOMAIN pop[t] \subseteq Keys
    BY PartialValues DEF Typed, Normalizations
  <2>2. k \notin ks /\ k \notin taint[t]
    BY <1>2 DEF Touch
  <2>3. pop[t][k] = Population(k)
    BY <1>2, <2>2 DEF Reading
  <2>4. QED
    BY <1>1, <1>2, <2>1, <2>2, <2>3
<1>3. QED
  BY <1>1, <1>2 DEF Reading

\* A step that touches no score keeps the readings, those that are not dropped.
LEMMA UntouchedReading ==
    ASSUME Typed, \A t \in Tasks : Reading(t), UNCHANGED score,
           \A t \in Tasks : (pop'[t] = pop[t] /\ taint'[t] = taint[t]) \/ pop'[t] = <<>>
    PROVE  (\A t \in Tasks : Reading(t)') /\ Unfresh' = Unfresh
<1>1. Unfresh' = Unfresh /\ \A k : Population(k)' = Population(k)
  BY DEF Unfresh, Population
<1>2. DOMAIN <<>> = {}
  BY EmptyPartial
<1>3. QED
  BY <1>1, <1>2 DEF Reading

\* A task another task's step does not concern.
SameTask(t) ==
    /\ pc'[t] = pc[t] /\ todo'[t] = todo[t] /\ pop'[t] = pop[t]
    /\ t \in Jobs => job'[t] = job[t]

\* Whatever one task does, the others owe what they owed.
LEMMA OwedStep ==
    ASSUME \A k \in Unfresh \ excused : Owed(k), NEW u \in Tasks,
           \A t \in Tasks : t # u => SameTask(t),
           \A k \in Unfresh' \ excused' :
              \/ Owes(u, k)'
              \/ k \in Unfresh \ excused /\ (Owes(u, k) => Owes(u, k)')
    PROVE  \A k \in Unfresh' \ excused' : Owed(k)'
<1>1. ASSUME NEW k \in Unfresh' \ excused', ~Owes(u, k)' PROVE Owed(k)'
  <2>1. PICK t \in Tasks : Owes(t, k)
    BY <1>1 DEF Owed
  <2>2. t # u
    BY <1>1, <2>1
  <2>3. Owes(t, k)'
    BY <2>1, <2>2 DEF Owes, SameTask
  <2>4. QED
    BY <2>3 DEF Owed
<1>2. QED
  BY <1>1 DEF Owed

\* Applied scores are counted in numbers.
LEMMA AppliedCounts ==
    ASSUME Typed, NEW j \in Jobs
    PROVE  row[j].n["applied"] \in Nat /\ job[j].n["applied"] \in Nat
<1>1. row[j] \in JobRow /\ job[j] \in JobRow /\ "applied" \in Counters
  BY DEF Typed, Memories, Stores, Counters
<1>2. QED
  BY <1>1 DEF JobRow

\* A run's step that concerns no other run keeps what the others count.
LEMMA CountedOn ==
    ASSUME NEW i \in Jobs, Counted(i), pc'[i] = pc[i], job'[i] = job[i], row'[i] = row[i],
           tx'[i] = tx[i], saved'[i] = saved[i]
    PROVE  Counted(i)'
  BY DEF Counted

\* A step within a hotel changes no score and keeps what the run has counted.
LEMMA HotelStepFresher ==
    ASSUME Fresher, Sound', NEW j \in Jobs, HotelStep(j), pc[j] \in InLoop,
           \/ tx'[j].score = tx[j].score /\ saved'[j] = saved[j]
           \/ tx'[j].score = tx[j].score /\ saved'[j] = tx[j]
    PROVE  Fresher'
<1>1. /\ Typed /\ (\A i \in Jobs : Counted(i)) /\ (\A t \in Tasks : Reading(t))
      /\ \A k \in Unfresh \ excused : Owed(k)
  BY DEF Fresher, Sound
<1>2. /\ UNCHANGED <<file, storeVars, row, rankVars>> /\ pc'[j] \in InHotel
      /\ \A t \in Tasks : t # j => pc'[t] = pc[t]
      /\ \A i \in Jobs : i # j => tx'[i] = tx[i] /\ saved'[i] = saved[i]
  BY DEF HotelStep, Tasks
<1>3. /\ UNCHANGED <<score, job, row, todo, pop, taint, excused>>
  BY <1>2 DEF storeVars, rankVars
<1>4. Counted(j)'
  <2>1. Counted(j) /\ pc'[j] \in InLoop /\ pc'[j] \notin {"listing", "ranking", "writing"}
    BY <1>1, <1>2 DEF InLoop, InHotel
  <2>2. QED
    BY <1>3, <2>1 DEF Counted
<1>5. \A i \in Jobs : Counted(i)'
  <2>1. ASSUME NEW i \in Jobs, i # j PROVE Counted(i)'
    BY <1>1, <1>2, <1>3, <2>1, CountedOn DEF Tasks
  <2>2. QED
    BY <1>4, <2>1
<1>6. (\A t \in Tasks : Reading(t)') /\ Unfresh' = Unfresh
  BY <1>1, <1>3, UntouchedReading
<1>7. \A k \in Unfresh' \ excused' : Owed(k)'
  <2>1. \A t \in Tasks : t # j => SameTask(t)
    BY <1>2, <1>3 DEF SameTask
  <2>2. ASSUME NEW k, Owes(j, k) PROVE Owes(j, k)'
    <3>1. j \notin Rescorings
      BY SentimentAssumption
    <3>2. job[j].n["applied"] > 0 /\ job[j].status # "COMPLETED"
      BY <2>2, <3>1 DEF Owes, InLoop, InHotel
    <3>3. QED
      BY <1>2, <1>3, <3>2 DEF Owes, InLoop
  <2>3. j \in Tasks
    BY DEF Tasks
  <2>4. QED
    BY <1>1, <1>3, <1>6, <2>1, <2>2, <2>3, OwedStep
<1>8. QED
  BY <1>5, <1>6, <1>7 DEF Fresher

\* A line that ends owes the normalization of what it stores.
LEMMA EndsFresher ==
    ASSUME Fresher, Sound', NEW j \in Jobs, NEW t \in Tx, NEW n \in Nat, Ends(j, t, n),
           pc[j] \in InLoop, DOMAIN t.score # {} => row[j].n["applied"] + n > 0
    PROVE  Fresher'
<1>1. /\ Typed /\ (\A i \in Jobs : Counted(i)) /\ (\A u \in Tasks : Reading(u))
      /\ \A k \in Unfresh \ excused : Owed(k)
  BY DEF Fresher, Sound
<1>2. /\ UNCHANGED <<file, todo, pop, excused>> /\ pc' = [pc EXCEPT ![j] = "lines"]
      /\ saved' = [saved EXCEPT ![j] = NoTx]
      /\ \A i \in Jobs : i # j => tx'[i] = tx[i] /\ row'[i] = row[i] /\ job'[i] = job[i]
      /\ row'[j].status = row[j].status
      /\ row'[j].n["applied"] = row[j].n["applied"] + n
      /\ \/ Stored(t) /\ tx'[j] = NoTx /\ job'[j] = row'[j]
         \/ UNCHANGED <<attrs, agg, score, job, taint>> /\ SameWrites(tx'[j], t)
  BY DEF Ends, Tasks
<1>3. /\ pc \in [Tasks -> Steps] /\ saved \in [Jobs -> Tx] /\ Jobs \subseteq Tasks /\ Stores
      /\ row[j].n["applied"] \in Nat /\ job[j].n["applied"] \in Nat
  BY <1>1, AppliedCounts DEF Typed, Normalizations, Memories, Tasks
<1>4. /\ pc'[j] = "lines" /\ saved'[j] = NoTx
      /\ \A i \in Jobs : i # j => saved'[i] = saved[i]
      /\ \A u \in Tasks : u # j => pc'[u] = pc[u]
  BY <1>2, <1>3
<1>5. /\ job[j].status # "COMPLETED" /\ row[j].status # "COMPLETED"
      /\ row[j].n["applied"] >= job[j].n["applied"]
  BY <1>1 DEF Counted
<1>6. DOMAIN NoTx.score = {}
  BY NothingWritten, NoTxUnwritten
<1>7. /\ job'[j].status # "COMPLETED" /\ row'[j].status # "COMPLETED"
      /\ row'[j].n["applied"] >= job'[j].n["applied"]
      /\ job'[j].n["applied"] >= job[j].n["applied"]
      /\ DOMAIN tx'[j].score # {} => row'[j].n["applied"] > 0
      /\ job'[j].n["applied"] \in Nat
  <2>1. CASE Stored(t) /\ tx'[j] = NoTx /\ job'[j] = row'[j]
    BY <1>2, <1>3, <1>5, <1>6, <2>1
  <2>2. CASE UNCHANGED <<attrs, agg, score, job, taint>> /\ SameWrites(tx'[j], t)
    BY <1>2, <1>3, <1>5, <2>2 DEF SameWrites
  <2>3. QED
    BY <1>2, <2>1, <2>2
<1>8. \A i \in Jobs : Counted(i)'
  <2>1. ASSUME NEW i \in Jobs, i # j PROVE Counted(i)'
    BY <1>1, <1>2, <1>3, <1>4, <2>1, CountedOn
  <2>2. Counted(j)'
    BY <1>4, <1>6, <1>7 DEF Counted
  <2>3. QED
    BY <2>1, <2>2
<1>9. \A u \in Tasks : u # j => SameTask(u)
  BY <1>2, <1>4 DEF SameTask
<1>10. j \notin Rescorings /\ pc[j] \notin {"queued", "listing", "ranking", "writing"}
  BY SentimentAssumption DEF InLoop, InHotel
<1>11. \A k : job'[j].n["applied"] > 0 => Owes(j, k)'
  BY <1>4, <1>7 DEF Owes, InLoop
<1>12. \A k : Owes(j, k) => Owes(j, k)'
  <2>1. ASSUME NEW k, Owes(j, k) PROVE job[j].n["applied"] > 0
    BY <1>10, <2>1 DEF Owes
  <2>2. QED
    BY <1>3, <1>7, <1>11, <2>1
<1>13. CASE Stored(t) /\ tx'[j] = NoTx /\ job'[j] = row'[j]
  <2> DEFINE ks == {c[2] : c \in DOMAIN t.score}
  <2>1. \A c \in Cells : score'[c] = IF c \in DOMAIN t.score THEN t.score[c] ELSE score[c]
    BY <1>3, <1>13, WritesFit DEF Stored
  <2>2. Columns(ks) /\ Touch(ks)
    BY <1>13, <2>1 DEF Columns, Stored
  <2>3. \A k \in ks : Owes(j, k)'
    <3>1. ks # {} => DOMAIN t.score # {}
      OBVIOUS
    <3>2. QED
      BY <1>2, <1>11, <1>13, <3>1
  <2> HIDE DEF ks
  <2>4. /\ \A u \in Tasks : Reading(u)'
        /\ \A k \in Keys \ ks : k \in Unfresh' => k \in Unfresh
    BY <1>1, <1>2, <2>2, TouchedReading
  <2>5. \A k \in Unfresh' : k \in Keys
    BY DEF Unfresh
  <2>6. \A k \in Unfresh' \ excused' :
           Owes(j, k)' \/ (k \in Unfresh \ excused /\ (Owes(j, k) => Owes(j, k)'))
    BY <1>2, <1>12, <2>3, <2>4, <2>5
  <2>7. \A k \in Unfresh' \ excused' : Owed(k)'
    BY <1>1, <1>3, <1>9, <2>6, OwedStep
  <2>8. QED
    BY <1>8, <2>4, <2>7 DEF Fresher
<1>14. CASE UNCHANGED <<attrs, agg, score, job, taint>> /\ SameWrites(tx'[j], t)
  <2>1. (\A u \in Tasks : Reading(u)') /\ Unfresh' = Unfresh
    BY <1>1, <1>2, <1>14, UntouchedReading
  <2>2. \A k \in Unfresh' \ excused' : Owed(k)'
    BY <1>1, <1>2, <1>3, <1>9, <1>12, <2>1, OwedStep
  <2>3. QED
    BY <1>8, <2>1, <2>2 DEF Fresher
<1>15. QED
  BY <1>2, <1>13, <1>14

\* A hotel or a line that fails stores no more scores than the run has counted.
LEMMA FailFresher ==
    ASSUME Fresher, Sound', NEW j \in Jobs, NEW l \in Lines(j),
           \/ FailLine(j, l, saved[j]) /\ pc[j] \in InHotel
           \/ FailLine(j, l, tx[j]) /\ pc[j] = "lines"
    PROVE  Fresher'
<1>1. /\ Typed /\ tx[j] \in Tx /\ saved[j] \in Tx /\ Counted(j) /\ pc[j] \in InLoop
      /\ row[j].n["applied"] \in Nat
  BY AppliedCounts DEF Fresher, Sound, Typed, Memories, InLoop, Tasks
<1>2. CASE FailLine(j, l, saved[j])
  <2>1. Ends(j, saved[j], 0)
    BY <1>1, <1>2, FailLineEnds
  <2>2. DOMAIN saved[j].score # {} => row[j].n["applied"] + 0 > 0
    BY <1>1 DEF Counted
  <2>3. QED
    BY <1>1, <2>1, <2>2, EndsFresher
<1>3. CASE FailLine(j, l, tx[j])
  <2>1. Ends(j, tx[j], 0)
    BY <1>1, <1>3, FailLineEnds
  <2>2. DOMAIN tx[j].score # {} => row[j].n["applied"] + 0 > 0
    BY <1>1 DEF Counted
  <2>3. QED
    BY <1>1, <2>1, <2>2, EndsFresher
<1>4. QED
  BY <1>2, <1>3

\* Propagating counts the scores it writes.
LEMMA PropagateFresher ==
    ASSUME Fresher, Sound', NEW j \in Jobs, Propagate(j)
    PROVE  Fresher'
<1>1. /\ Typed /\ Counted(j) /\ pc[j] = "propagating" /\ row[j].n["applied"] \in Nat
  BY AppliedCounts DEF Fresher, Sound, Propagate
<1>2. IsFiniteSet(Applied(j))
  BY <1>1, PropagateStep
<1>3. PICK t \in Tx, d \in [Counters -> Nat], v \in {"flawed", "good"} :
         /\ DecideLine(j, at[j].line, t, d, v)
         /\ DOMAIN t.score = DOMAIN tx[j].score \cup AppliedCells(j)
         /\ d["applied"] = Cardinality(Applied(j))
  BY <1>1, PropagateStep
<1>4. at[j].line \in Lines(j) /\ v \in Verdicts /\ pc[j] \in InLoop
  BY <1>1, EntryTyped DEF InHotel, InLoop, Verdicts
<1>5. Ends(j, t, d["applied"])
  BY <1>1, <1>3, <1>4, DecideLineEnds
<1>6. d["applied"] \in Nat
  BY DEF Counters
<1>7. DOMAIN t.score # {} => row[j].n["applied"] + d["applied"] > 0
  <2>1. CASE DOMAIN tx[j].score # {}
    BY <1>1, <1>4, <1>6, <2>1 DEF Counted
  <2>2. CASE AppliedCells(j) # {}
    <3>1. Applied(j) # {}
      BY <2>2 DEF AppliedCells
    <3>2. Cardinality(Applied(j)) # 0
      BY <1>2, <3>1, FS_EmptySet
    <3>3. QED
      BY <1>1, <1>3, <1>6, <3>2
  <2>3. QED
    BY <1>3, <2>1, <2>2
<1>8. QED
  BY <1>4, <1>5, <1>6, <1>7, EndsFresher

\* What a step at the edge of the line loop leaves alone.
Aside(j) ==
    /\ \A t \in Tasks : t # j => SameTask(t)
    /\ \A i \in Jobs : i # j => row'[i] = row[i] /\ tx'[i] = tx[i] /\ saved'[i] = saved[i]

\* The other runs have counted what they had counted.
LEMMA AsideCounted ==
    ASSUME \A i \in Jobs : Counted(i), NEW j \in Tasks, Aside(j), j \in Jobs => Counted(j)'
    PROVE  \A i \in Jobs : Counted(i)'
<1>1. ASSUME NEW i \in Jobs, i # j PROVE Counted(i)'
  BY <1>1, CountedOn DEF Aside, SameTask, Tasks
<1>2. QED
  BY <1>1

\* A start counts on from what is committed; a job that says COMPLETED owes nothing.
LEMMA StartFresher ==
    ASSUME Fresher, Sound', NEW j \in Jobs, Start(j)
    PROVE  Fresher'
<1>1. /\ Typed /\ (\A i \in Jobs : Counted(i)) /\ (\A u \in Tasks : Reading(u)) /\ AtRest(j)
      /\ (\A k \in Unfresh \ excused : Owed(k)) /\ j \in Tasks /\ j \notin Rescorings
  BY SentimentAssumption DEF Fresher, Sound, Tasks
<1>2. /\ pc \in [Tasks -> Steps] /\ job \in [Jobs -> JobRow] /\ row \in [Jobs -> JobRow]
      /\ job[j].n["applied"] \in Nat
  BY <1>1, AppliedCounts DEF Typed, Normalizations, Stores, Memories
<1>3. /\ pc[j] = "queued"
      /\ UNCHANGED <<file, score, lineVars, tx, todo, pop, taint>>
  BY DEF Start
<1>4. (\A u \in Tasks : Reading(u)') /\ Unfresh' = Unfresh
  BY <1>1, <1>3, UntouchedReading
<1>5. DOMAIN tx'[j].score = {} /\ DOMAIN saved'[j].score = {}
  <2>1. Unwritten(tx'[j]) /\ saved'[j] = NoTx
    BY <1>1, <1>3 DEF AtRest, InLoop, InHotel, lineVars
  <2>2. QED
    BY <2>1, NothingWritten, NoTxUnwritten
<1>6. CASE /\ job[j].status = "COMPLETED" /\ pc' = [pc EXCEPT ![j] = "acking"]
           /\ UNCHANGED <<job, row, excused>>
  <2>1. Aside(j) /\ pc'[j] = "acking"
    <3>1. pc'[j] = "acking" /\ \A t \in Tasks : t # j => pc'[t] = pc[t]
      BY <1>1, <1>2, <1>6
    <3>2. saved' = saved
      BY <1>3 DEF lineVars
    <3>3. QED
      BY <1>3, <1>6, <3>1, <3>2 DEF Aside, SameTask
  <2>2. Counted(j)'
    BY <2>1 DEF Counted, InLoop, InHotel
  <2>3. \A k : ~Owes(j, k)
    BY <1>1, <1>3, <1>6 DEF Owes
  <2>4. \A k \in Unfresh' \ excused' : Owed(k)'
    BY <1>1, <1>4, <1>6, <2>1, <2>3, OwedStep DEF Aside
  <2>5. QED
    BY <1>1, <1>4, <2>1, <2>2, <2>4, AsideCounted DEF Fresher
<1>7. CASE /\ job[j].status # "COMPLETED"
           /\ job' = [job EXCEPT ![j].status = "RUNNING"]
           /\ row' = [row EXCEPT ![j] = job'[j]]
           /\ \/ pc' = [pc EXCEPT ![j] = "lines"] /\ UNCHANGED excused
              \/ pc' = [pc EXCEPT ![j] = "acking"] /\ excused' = excused \cup Unfresh
  <2>1. Aside(j) /\ row'[j] = job'[j]
    BY <1>2, <1>3, <1>7 DEF Aside, SameTask, lineVars
  <2>2. job'[j].status = "RUNNING" /\ job'[j].n = job[j].n
    BY <1>2, <1>7 DEF JobRow
  <2>3. CASE pc' = [pc EXCEPT ![j] = "lines"] /\ UNCHANGED excused
    <3>1. pc'[j] = "lines"
      BY <1>1, <1>2, <2>3
    <3>2. Counted(j)'
      BY <1>2, <1>5, <2>1, <2>2, <3>1 DEF Counted
    <3>3. \A k : Owes(j, k) => Owes(j, k)'
      BY <1>1, <1>3, <2>2, <3>1 DEF Owes, InLoop
    <3>4. \A k \in Unfresh' \ excused' : Owed(k)'
      BY <1>1, <1>4, <2>1, <2>3, <3>3, OwedStep DEF Aside
    <3>5. QED
      BY <1>1, <1>4, <2>1, <3>2, <3>4, AsideCounted DEF Fresher
  <2>4. CASE pc' = [pc EXCEPT ![j] = "acking"] /\ excused' = excused \cup Unfresh
    <3>1. Counted(j)'
      BY <1>1, <1>2, <2>4 DEF Counted, InLoop, InHotel
    <3>2. \A k \in Unfresh' \ excused' : Owed(k)'
      BY <1>4, <2>4
    <3>3. QED
      BY <1>1, <1>4, <2>1, <3>1, <3>2, AsideCounted DEF Fresher
  <2>5. QED
    BY <1>7, <2>3, <2>4
<1>8. QED
  BY <1>6, <1>7 DEF Start

\* A finished run that has changed scores goes on to normalize.
LEMMA FinishFresher ==
    ASSUME Fresher, Sound', NEW j \in Jobs, Finish(j)
    PROVE  Fresher'
<1>1. /\ Typed /\ (\A i \in Jobs : Counted(i)) /\ (\A u \in Tasks : Reading(u))
      /\ (\A k \in Unfresh \ excused : Owed(k)) /\ j \in Tasks /\ j \notin Rescorings
  BY SentimentAssumption DEF Fresher, Sound, Tasks
<1>2. /\ pc \in [Tasks -> Steps] /\ job \in [Jobs -> JobRow] /\ row \in [Jobs -> JobRow]
      /\ tx \in [Tasks -> Tx] /\ Stores /\ tx[j] \in Tx
      /\ job[j].n["applied"] \in Nat /\ row[j].n["applied"] \in Nat
  BY <1>1, AppliedCounts DEF Typed, Normalizations, Stores, Memories
<1>3. /\ pc[j] = "lines" /\ Commit(j, tx[j], Finished(j)) /\ Finished(j).n = row[j].n
      /\ pc' = [pc EXCEPT ![j] = IF Ranks(row[j]) THEN "listing" ELSE "acking"]
  BY <1>1, FinishStep DEF Finish
<1>4. /\ UNCHANGED <<file, lineVars, todo, pop, excused>>
      /\ row' = [row EXCEPT ![j] = Finished(j)]
  BY DEF Finish, Finished
<1>5. /\ Stored(tx[j]) /\ job' = [job EXCEPT ![j] = Finished(j)]
      /\ tx' = [tx EXCEPT ![j] = NoTx]
  BY <1>3 DEF Commit, Stored
<1>6. Aside(j) /\ job'[j].n = row[j].n
  BY <1>2, <1>3, <1>4, <1>5 DEF Aside, SameTask, lineVars
<1>7. /\ row[j].n["applied"] >= job[j].n["applied"]
      /\ DOMAIN tx[j].score # {} => row[j].n["applied"] > 0
  BY <1>1, <1>3 DEF Counted, InLoop
<1>8. row[j].n["applied"] > 0 => pc'[j] = "listing"
  BY <1>1, <1>2, <1>3 DEF Ranks
<1>9. Counted(j)'
  <2>1. pc'[j] = IF Ranks(row[j]) THEN "listing" ELSE "acking"
    BY <1>1, <1>2, <1>3
  <2>2. QED
    BY <1>6, <2>1 DEF Counted, InLoop, InHotel, Ranks
<1>10. \A k : row[j].n["applied"] > 0 => Owes(j, k)'
  BY <1>8 DEF Owes
<1>11. \A k : Owes(j, k) => Owes(j, k)'
  <2>1. ASSUME NEW k, Owes(j, k) PROVE job[j].n["applied"] > 0
    BY <1>1, <1>3, <2>1 DEF Owes
  <2>2. QED
    BY <1>2, <1>7, <1>10, <2>1
<1> DEFINE ks == {c[2] : c \in DOMAIN tx[j].score}
<1>12. Columns(ks) /\ Touch(ks)
  <2>1. \A c \in Cells : score'[c] = IF c \in DOMAIN tx[j].score THEN tx[j].score[c] ELSE score[c]
    BY <1>2, <1>5, WritesFit DEF Stored
  <2>2. QED
    BY <1>5, <2>1 DEF Columns, Stored
<1>13. \A k \in ks : Owes(j, k)'
  <2>1. ks # {} => DOMAIN tx[j].score # {}
    OBVIOUS
  <2>2. QED
    BY <1>7, <1>10, <2>1
<1> HIDE DEF ks
<1>14. /\ \A u \in Tasks : Reading(u)'
       /\ \A k \in Keys \ ks : k \in Unfresh' => k \in Unfresh
  BY <1>1, <1>4, <1>12, TouchedReading
<1>15. \A k \in Unfresh' : k \in Keys
  BY DEF Unfresh
<1>16. \A k \in Unfresh' \ excused' :
          Owes(j, k)' \/ (k \in Unfresh \ excused /\ (Owes(j, k) => Owes(j, k)'))
  BY <1>4, <1>11, <1>13, <1>14, <1>15
<1>17. \A k \in Unfresh' \ excused' : Owed(k)'
  BY <1>1, <1>6, <1>16, OwedStep DEF Aside
<1>18. QED
  BY <1>1, <1>6, <1>9, <1>14, <1>17, AsideCounted DEF Fresher

\* A failure that is marked excuses what it leaves unranked.
LEMMA MarkFailedFresher ==
    ASSUME Fresher, Sound', NEW j \in Jobs, MarkFailed(j)
    PROVE  Fresher'
<1>1. /\ Typed /\ (\A i \in Jobs : Counted(i)) /\ (\A u \in Tasks : Reading(u)) /\ j \in Tasks
  BY DEF Fresher, Sound, Tasks
<1>2. /\ pc \in [Tasks -> Steps] /\ job \in [Jobs -> JobRow] /\ tx \in [Tasks -> Tx]
      /\ DOMAIN todo = Tasks /\ pop \in [Tasks -> Partials(Keys, Curve)]
      /\ taint \in [Tasks -> SUBSET Keys]
  BY <1>1 DEF Typed, Normalizations, Stores, Memories
<1>3. /\ job' = [job EXCEPT ![j].status = "FAILED"] /\ tx' = [tx EXCEPT ![j] = NoTx]
      /\ todo' = [todo EXCEPT ![j] = {}] /\ pop' = [pop EXCEPT ![j] = <<>>]
      /\ taint' = [taint EXCEPT ![j] = {}]
      /\ excused' = excused \cup Unfresh /\ pc' = [pc EXCEPT ![j] = "acking"]
      /\ UNCHANGED <<score, row, lineVars>>
  BY DEF MarkFailed, RolledBack
<1>4. Aside(j) /\ pc'[j] = "acking"
  BY <1>1, <1>2, <1>3 DEF Aside, SameTask, lineVars
<1>5. Counted(j)'
  BY <1>4 DEF Counted, InLoop, InHotel
<1>6. \A u \in Tasks : (pop'[u] = pop[u] /\ taint'[u] = taint[u]) \/ pop'[u] = <<>>
  BY <1>2, <1>3
<1>7. (\A u \in Tasks : Reading(u)') /\ Unfresh' = Unfresh
  BY <1>1, <1>3, <1>6, UntouchedReading
<1>8. \A k \in Unfresh' \ excused' : Owed(k)'
  BY <1>3, <1>7
<1>9. QED
  BY <1>1, <1>4, <1>5, <1>7, <1>8, AsideCounted DEF Fresher

\* A step of the normalization or of a rescoring is aside of every run.
LEMMA AsideTask ==
    ASSUME Typed, NEW t \in Tasks, UNCHANGED <<job, row, lineVars>>,
           \A u \in Tasks : u # t => /\ pc'[u] = pc[u] /\ todo'[u] = todo[u] /\ pop'[u] = pop[u]
                                     /\ tx'[u] = tx[u]
    PROVE  Aside(t)
<1>1. UNCHANGED saved
  BY DEF lineVars
<1>2. QED
  BY <1>1 DEF Aside, SameTask, Tasks

\* Taking a row changes no score and no debt.
LEMMA TakeRowFresher ==
    ASSUME Fresher, Sound', NEW t \in Tasks, TakeRow(t)
    PROVE  Fresher'
<1>1. /\ Typed /\ (\A i \in Jobs : Counted(i)) /\ (\A u \in Tasks : Reading(u)) /\ tx[t] \in Tx
      /\ (\A k \in Unfresh \ excused : Owed(k))
  BY DEF Fresher, Sound, Typed, Memories
<1>2. /\ tx'[t] = [tx[t] EXCEPT !.locks = tx'[t].locks]
      /\ \A u \in Tasks : u # t => tx'[u] = tx[u]
  BY <1>1, TakeRowStep
<1>3. UNCHANGED <<score, job, row, pc, lineVars, todo, pop, taint, excused>>
  BY DEF TakeRow, storeVars, rankVars
<1>4. Aside(t) /\ SameTask(t)
  BY <1>1, <1>2, <1>3, AsideTask DEF SameTask
<1>5. t \in Jobs => Counted(t)'
  <2>1. tx'[t].score = tx[t].score
    BY <1>1, <1>2 DEF Tx
  <2>2. saved' = saved
    BY <1>3 DEF lineVars
  <2>3. QED
    BY <1>1, <1>3, <2>1, <2>2 DEF Counted
<1>6. (\A u \in Tasks : Reading(u)') /\ Unfresh' = Unfresh
  BY <1>1, <1>3, UntouchedReading
<1>7. \A k : Owes(t, k) => Owes(t, k)'
  BY <1>4 DEF Owes, SameTask
<1>8. \A k \in Unfresh' \ excused' : Owed(k)'
  BY <1>1, <1>3, <1>4, <1>6, <1>7, OwedStep DEF Aside
<1>9. QED
  BY <1>1, <1>4, <1>5, <1>6, <1>8, AsideCounted DEF Fresher

\* A rescoring owes the normalization of everything while it recalculates.
LEMMA BeginHotelFresher ==
    ASSUME Fresher, Sound', NEW t \in Tasks, BeginHotel(t)
    PROVE  Fresher'
<1>1. /\ Typed /\ (\A i \in Jobs : Counted(i)) /\ (\A u \in Tasks : Reading(u))
      /\ pc \in [Tasks -> Steps] /\ DOMAIN todo = Tasks
  BY DEF Fresher, Sound, Typed, Normalizations
<1>2. /\ t \in Rescorings /\ t \notin Jobs /\ pc' = [pc EXCEPT ![t] = "scoring"]
      /\ UNCHANGED <<score, job, row, lineVars, tx, pop, taint, excused>>
      /\ \E left : todo' = [todo EXCEPT ![t] = left]
  BY SentimentAssumption DEF BeginHotel, storeVars
<1>3. /\ pc'[t] = "scoring"
      /\ \A u \in Tasks : u # t => pc'[u] = pc[u] /\ todo'[u] = todo[u]
  BY <1>1, <1>2
<1>4. Aside(t)
  BY <1>1, <1>2, <1>3, AsideTask
<1>5. \A u \in Tasks : Reading(u)'
  BY <1>1, <1>2, UntouchedReading
<1>6. \A k \in Unfresh' \ excused' : Owed(k)'
  BY <1>2, <1>3 DEF Owed, Owes
<1>7. QED
  BY <1>1, <1>2, <1>4, <1>5, <1>6, AsideCounted DEF Fresher

\* A rescoring that changes scores goes on to normalize.
LEMMA CommitHotelFresher ==
    ASSUME Fresher, Sound', NEW t \in Tasks, CommitHotel(t)
    PROVE  Fresher'
<1>1. /\ Typed /\ (\A i \in Jobs : Counted(i)) /\ (\A u \in Tasks : Reading(u))
  BY DEF Fresher, Sound
<1>2. /\ t \in Rescorings /\ t \notin Jobs /\ pc'[t] \in {"listing", "recalculating"}
      /\ \A c \in Cells : score'[c] = IF c \in HeldScores(t) THEN Review ELSE score[c]
      /\ Touch({c[2] : c \in HeldScores(t)})
      /\ \A u \in Tasks : u # t => tx'[u] = tx[u] /\ pc'[u] = pc[u]
  BY <1>1, CommitHotelStep
<1>3. UNCHANGED <<job, row, lineVars, todo, pop, excused>>
  BY DEF CommitHotel
<1>4. Aside(t)
  BY <1>1, <1>2, <1>3, AsideTask
<1> DEFINE ks == {c[2] : c \in HeldScores(t)}
<1>5. Columns(ks) /\ Touch(ks)
  BY <1>2 DEF Columns
<1> HIDE DEF ks
<1>6. \A u \in Tasks : Reading(u)'
  BY <1>1, <1>3, <1>5, TouchedReading
<1>7. \A k \in Unfresh' \ excused' : Owed(k)'
  BY <1>2 DEF Owed, Owes
<1>8. QED
  BY <1>1, <1>2, <1>4, <1>6, <1>7, AsideCounted DEF Fresher

\* Every attribute that is not fresh has scores, so the list has it.
LEMMA ListFresher ==
    ASSUME Fresher, Sound', NEW t \in Tasks, List(t)
    PROVE  Fresher'
<1>1. /\ Typed /\ (\A i \in Jobs : Counted(i)) /\ (\A u \in Tasks : Reading(u))
      /\ (\A k \in Unfresh \ excused : Owed(k)) /\ pc \in [Tasks -> Steps] /\ DOMAIN todo = Tasks
  BY DEF Fresher, Sound, Typed, Normalizations
<1>2. /\ pc[t] = "listing" /\ pc' = [pc EXCEPT ![t] = "ranking"]
      /\ todo' = [todo EXCEPT ![t] = {k \in Keys : DOMAIN Population(k) # {}}]
      /\ UNCHANGED <<score, job, row, lineVars, tx, pop, taint, excused>>
  BY DEF List, storeVars
<1>3. /\ pc'[t] = "ranking" /\ todo'[t] = {k \in Keys : DOMAIN Population(k) # {}}
      /\ \A u \in Tasks : u # t => pc'[u] = pc[u] /\ todo'[u] = todo[u]
  BY <1>1, <1>2
<1>4. Aside(t)
  BY <1>1, <1>2, <1>3, AsideTask
<1>5. t \in Jobs => Counted(t)'
  BY <1>1, <1>2, <1>3 DEF Counted, InLoop, InHotel
<1>6. (\A u \in Tasks : Reading(u)') /\ Unfresh' = Unfresh
  BY <1>1, <1>2, UntouchedReading
<1>7. \A k \in Unfresh : k \in todo'[t]
  BY <1>3 DEF Unfresh
<1>8. \A k \in Unfresh' \ excused' : Owed(k)'
  <2>1. \A k \in Unfresh : Owes(t, k)'
    BY <1>3, <1>7 DEF Owes
  <2>2. QED
    BY <1>6, <2>1 DEF Owed
<1>9. QED
  BY <1>1, <1>4, <1>5, <1>6, <1>8, AsideCounted DEF Fresher

\* An attribute whose population was read is still to be written.
LEMMA ReadPopulationFresher ==
    ASSUME Fresher, Sound', NEW t \in Tasks, ReadPopulation(t)
    PROVE  Fresher'
<1> DEFINE k == NextKey(t)
           new == [x \in {k} |-> Population(k)]
<1>1. /\ Typed /\ (\A i \in Jobs : Counted(i)) /\ (\A u \in Tasks : Reading(u))
      /\ (\A l \in Unfresh \ excused : Owed(l))
  BY DEF Fresher, Sound
<1>2. /\ k \in todo[t] /\ pop'[t] = Over(pop[t], new)
      /\ todo'[t] = todo[t] \ {k} /\ taint'[t] = taint[t] \ {k}
      /\ \A u \in Tasks : u # t => pop'[u] = pop[u] /\ todo'[u] = todo[u] /\ taint'[u] = taint[u]
  BY <1>1, ReadPopulationStep
<1>3. pc[t] = "ranking" /\ UNCHANGED <<score, job, pc, row, lineVars, tx, excused>>
  BY DEF ReadPopulation, storeVars
<1>4. Aside(t)
  BY <1>1, <1>2, <1>3, AsideTask
<1>5. t \in Jobs => Counted(t)'
  BY <1>1, <1>3 DEF Counted, InLoop, InHotel
<1>6. Unfresh' = Unfresh /\ \A l : Population(l)' = Population(l)
  BY <1>3 DEF Unfresh, Population
<1>7. /\ DOMAIN pop'[t] = DOMAIN pop[t] \cup {k} /\ pop'[t][k] = Population(k)
      /\ \A l \in DOMAIN pop[t] : l # k => pop'[t][l] = pop[t][l]
  <2>1. DOMAIN new = {k} /\ new[k] = Population(k)
    OBVIOUS
  <2> HIDE DEF new, k
  <2>2. QED
    BY <1>2, <2>1 DEF Over
<1> HIDE DEF k, new
<1>8. \A u \in Tasks : Reading(u)'
  <2>1. ASSUME NEW u \in Tasks, u # t PROVE Reading(u)'
    BY <1>1, <1>2, <1>6, <2>1 DEF Reading
  <2>2. Reading(t)'
    <3>1. ASSUME NEW l \in DOMAIN pop'[t], l \notin taint'[t], l # k
          PROVE  pop'[t][l] = Population(l)
      BY <1>1, <1>2, <1>7, <3>1 DEF Reading
    <3>2. QED
      BY <1>6, <1>7, <3>1 DEF Reading
  <2>3. QED
    BY <2>1, <2>2
<1>9. \A l : Owes(t, l) => Owes(t, l)'
  BY <1>2, <1>3, <1>7 DEF Owes
<1>10. \A l \in Unfresh' \ excused' : Owed(l)'
  BY <1>1, <1>3, <1>4, <1>6, <1>9, OwedStep DEF Aside
<1>11. QED
  BY <1>1, <1>4, <1>5, <1>8, <1>10, AsideCounted DEF Fresher

\* A flush is still to be committed.
LEMMA BeginFlushFresher ==
    ASSUME Fresher, Sound', NEW t \in Tasks, BeginFlush(t)
    PROVE  Fresher'
<1>1. /\ Typed /\ (\A i \in Jobs : Counted(i)) /\ (\A u \in Tasks : Reading(u))
      /\ (\A k \in Unfresh \ excused : Owed(k))
  BY DEF Fresher, Sound
<1>2. /\ pc[t] = "ranking"
      /\ UNCHANGED <<score, job, row, lineVars, tx, todo, pop, taint, excused>>
  BY DEF BeginFlush, storeVars, rankVars
<1>3. pc'[t] = "writing" /\ \A u \in Tasks : u # t => pc'[u] = pc[u]
  BY <1>1, BeginFlushStep
<1>4. Aside(t)
  BY <1>1, <1>2, <1>3, AsideTask
<1>5. t \in Jobs => Counted(t)'
  BY <1>1, <1>2, <1>3 DEF Counted, InLoop, InHotel
<1>6. (\A u \in Tasks : Reading(u)') /\ Unfresh' = Unfresh
  BY <1>1, <1>2, UntouchedReading
<1>7. \A k : Owes(t, k) => Owes(t, k)'
  BY <1>2, <1>3 DEF Owes, InLoop, InHotel
<1>8. \A k \in Unfresh' \ excused' : Owed(k)'
  BY <1>1, <1>2, <1>4, <1>6, <1>7, OwedStep DEF Aside
<1>9. QED
  BY <1>1, <1>4, <1>5, <1>6, <1>8, AsideCounted DEF Fresher

\* An untainted population that is written makes its attribute fresh; a tainted
\* one is excused until the next normalization.
LEMMA CommitRelativeFresher ==
    ASSUME Fresher, Sound', Sessions, NEW t \in Tasks, CommitRelative(t)
    PROVE  Fresher'
<1> DEFINE read == DOMAIN pop[t]
<1>1. /\ Typed /\ (\A i \in Jobs : Counted(i)) /\ (\A u \in Tasks : Reading(u))
      /\ (\A k \in Unfresh \ excused : Owed(k)) /\ pc \in [Tasks -> Steps]
      /\ pop \in [Tasks -> Partials(Keys, Curve)]
  BY DEF Fresher, Sound, Typed, Normalizations
<1>2. /\ \A c \in Cells : /\ score'[c].source = score[c].source
                          /\ score'[c].score = score[c].score
                          /\ score'[c] = score[c] \/ c[2] \in read
      /\ \A c \in Cells :
            c[2] \in read /\ c[1] \in DOMAIN pop[t][c[2]] =>
               \/ score'[c].relative = BellCurve(pop[t][c[2]])
               \/ /\ score'[c] = score[c]
                  /\ pop[t][c[2]][c[1]].relative = BellCurve(pop[t][c[2]])
      /\ excused' = (excused \ read) \cup (read \cap taint[t])
      /\ taint' = [u \in Tasks |-> IF u = t THEN {} ELSE taint[u] \cup (read \cap DOMAIN pop[u])]
      /\ \A u \in Tasks : u # t => tx'[u] = tx[u]
  <2>1. Flushes(t)
    BY DEF CommitRelative, Sessions, Flushing
  <2>2. QED
    BY <1>1, <2>1, CommitRelativeStep
<1>3. /\ pc[t] = "writing" /\ pop' = [pop EXCEPT ![t] = <<>>]
      /\ pc' = [pc EXCEPT ![t] = "acking"] /\ todo[t] = {}
      /\ UNCHANGED <<job, row, lineVars, todo>>
  BY DEF CommitRelative, Sessions, Flushing
<1>4. /\ pc'[t] = "acking" /\ DOMAIN pop'[t] = {}
      /\ \A u \in Tasks : u # t => pc'[u] = pc[u] /\ pop'[u] = pop[u]
  BY <1>1, <1>3, EmptyPartial
<1>5. Aside(t)
  BY <1>1, <1>2, <1>3, <1>4, AsideTask
<1>6. t \in Jobs => Counted(t)'
  BY <1>4 DEF Counted, InLoop, InHotel
<1>7. \A u \in Tasks : DOMAIN pop[u] \subseteq Keys
  BY <1>1, PartialValues
<1>8. \A k \in Keys \ read : Population(k)' = Population(k) /\ (k \in Unfresh' <=> k \in Unfresh)
  <2>1. ASSUME NEW k \in Keys, k \notin read
        PROVE  \A h \in Hotels : score'[<<h, k>>] = score[<<h, k>>]
    BY <1>2, <2>1 DEF Cells
  <2>2. QED
    BY <2>1, ColumnKept
<1>9. \A k \in read \ taint[t] : k \notin Unfresh'
  <2>1. ASSUME NEW k \in read, k \notin taint[t], NEW h \in DOMAIN Population(k)'
        PROVE  score'[<<h, k>>].relative = BellCurve(Population(k)')
    <3>1. k \in Keys /\ pop[t][k] = Population(k)
      BY <1>1, <1>7, <2>1 DEF Reading
    <3>2. \A g \in Hotels : <<g, k>> \in Cells
      BY <3>1 DEF Cells
    <3>3. \A g \in Hotels : /\ score'[<<g, k>>].source = score[<<g, k>>].source
                            /\ score'[<<g, k>>].score = score[<<g, k>>].score
      BY <1>2, <3>2
    <3>4. /\ DOMAIN Population(k)' = DOMAIN Population(k)
          /\ \A g \in DOMAIN Population(k) :
                /\ g \in Hotels /\ Population(k)[g] = score[<<g, k>>]
                /\ Population(k)'[g].score = Population(k)[g].score
      BY <3>3 DEF Population
    <3>5. BellCurve(Population(k)') = BellCurve(Population(k))
      BY <3>4 DEF BellCurve
    <3>6. h \in Hotels /\ h \in DOMAIN pop[t][k] /\ pop[t][k][h] = score[<<h, k>>]
      BY <2>1, <3>1, <3>4
    <3>7. \/ score'[<<h, k>>].relative = BellCurve(pop[t][k])
          \/ /\ score'[<<h, k>>] = score[<<h, k>>]
             /\ pop[t][k][h].relative = BellCurve(pop[t][k])
      BY <1>2, <2>1, <3>2, <3>6
    <3>8. QED
      BY <3>1, <3>5, <3>6, <3>7
  <2>2. QED
    BY <2>1 DEF Unfresh
<1>10. \A u \in Tasks : Reading(u)'
  <2>1. Reading(t)'
    BY <1>4 DEF Reading
  <2>2. ASSUME NEW u \in Tasks, u # t PROVE Reading(u)'
    <3>1. taint'[u] = taint[u] \cup (read \cap DOMAIN pop[u])
      BY <1>2, <2>2
    <3>2. QED
      BY <1>1, <1>4, <1>7, <1>8, <2>2, <3>1 DEF Reading
  <2>3. QED
    BY <2>1, <2>2
<1>11. \A k \in Unfresh' \ excused' : k \notin read
  BY <1>2, <1>9
<1>12. \A k \in Unfresh' \ excused' : k \in Unfresh \ excused /\ ~Owes(t, k)
  <2>1. t \in Jobs => pc[t] \notin InLoop /\ pc[t] \notin {"queued", "listing"}
    BY <1>3 DEF InLoop, InHotel
  <2>2. \A k : Owes(t, k) => k \in read
    BY <1>3, <2>1 DEF Owes
  <2>3. \A k \in Unfresh' : k \in Keys
    BY DEF Unfresh
  <2>4. QED
    BY <1>2, <1>8, <1>11, <2>2, <2>3
<1>13. \A k \in Unfresh' \ excused' : Owed(k)'
  BY <1>1, <1>5, <1>12, OwedStep DEF Aside
<1>14. QED
  BY <1>1, <1>5, <1>6, <1>10, <1>13, AsideCounted DEF Fresher

\* A task that acknowledges its message owes nothing any more.
LEMMA AcknowledgeFresher ==
    ASSUME Fresher, Sound', NEW t \in Tasks, Acknowledge(t)
    PROVE  Fresher'
<1>1. /\ Typed /\ (\A i \in Jobs : Counted(i)) /\ (\A u \in Tasks : Reading(u))
      /\ (\A k \in Unfresh \ excused : Owed(k)) /\ pc \in [Tasks -> Steps]
  BY DEF Fresher, Sound, Typed, Normalizations
<1>2. /\ pc[t] = "acking" /\ pc' = [pc EXCEPT ![t] = "done"]
      /\ UNCHANGED <<score, job, row, lineVars, tx, todo, pop, taint, excused>>
  BY DEF Acknowledge, storeVars, rankVars
<1>3. pc'[t] = "done" /\ \A u \in Tasks : u # t => pc'[u] = pc[u]
  BY <1>1, <1>2
<1>4. Aside(t)
  BY <1>1, <1>2, <1>3, AsideTask
<1>5. t \in Jobs => Counted(t)'
  BY <1>3 DEF Counted, InLoop, InHotel
<1>6. (\A u \in Tasks : Reading(u)') /\ Unfresh' = Unfresh
  BY <1>1, <1>2, UntouchedReading
<1>7. \A k : ~Owes(t, k)
  BY <1>2 DEF Owes, InLoop, InHotel
<1>8. \A k \in Unfresh' \ excused' : Owed(k)'
  BY <1>1, <1>2, <1>4, <1>6, <1>7, OwedStep DEF Aside
<1>9. QED
  BY <1>1, <1>4, <1>5, <1>6, <1>8, AsideCounted DEF Fresher

\* A rescoring that gives up excuses what it leaves unranked.
LEMMA GiveUpFresher ==
    ASSUME Fresher, Sound', NEW t \in Tasks, GiveUp(t)
    PROVE  Fresher'
<1>1. /\ Typed /\ (\A i \in Jobs : Counted(i)) /\ (\A u \in Tasks : Reading(u))
      /\ pc \in [Tasks -> Steps] /\ tx \in [Tasks -> Tx] /\ DOMAIN todo = Tasks
      /\ pop \in [Tasks -> Partials(Keys, Curve)] /\ taint \in [Tasks -> SUBSET Keys]
  BY DEF Fresher, Sound, Typed, Normalizations, Memories
<1>2. LetGo(t, "done") /\ t \notin Jobs
  BY <1>1, GiveUpStep
<1>3. UNCHANGED <<score, job, row, lineVars>> /\ excused' = excused \cup Unfresh
  BY DEF GiveUp, storeVars
<1>4. \A u \in Tasks :
         /\ u # t => pc'[u] = pc[u] /\ todo'[u] = todo[u] /\ pop'[u] = pop[u] /\ tx'[u] = tx[u]
         /\ (pop'[u] = pop[u] /\ taint'[u] = taint[u]) \/ pop'[u] = <<>>
  BY <1>1, <1>2 DEF LetGo
<1>5. Aside(t)
  BY <1>1, <1>3, <1>4, AsideTask
<1>6. (\A u \in Tasks : Reading(u)') /\ Unfresh' = Unfresh
  BY <1>1, <1>3, <1>4, UntouchedReading
<1>7. \A k \in Unfresh' \ excused' : Owed(k)'
  BY <1>3, <1>6
<1>8. QED
  BY <1>1, <1>2, <1>5, <1>6, <1>7, AsideCounted DEF Fresher

\* A job that dies owes again what it owed when its message comes back; when it does not,
\* or says COMPLETED, that is excused.
LEMMA CrashFresher ==
    ASSUME Fresher, Sound', NEW t \in Tasks, Crash(t)
    PROVE  Fresher'
<1>1. /\ Typed /\ (\A i \in Jobs : Counted(i)) /\ (\A u \in Tasks : Reading(u))
      /\ (\A k \in Unfresh \ excused : Owed(k)) /\ pc \in [Tasks -> Steps]
      /\ DOMAIN todo = Tasks /\ pop \in [Tasks -> Partials(Keys, Curve)]
      /\ taint \in [Tasks -> SUBSET Keys]
      /\ row \in [Jobs -> JobRow] /\ tx \in [Tasks -> Tx] /\ saved \in [Jobs -> Tx]
  BY DEF Fresher, Sound, Typed, Normalizations, Memories
<1>2. /\ t \in Jobs /\ pc[t] \notin {"queued", "done"}
      /\ \/ /\ pc' = [pc EXCEPT ![t] = "queued"]
            /\ excused' = IF /\ job[t].status = "COMPLETED"
                             /\ pc[t] \in {"listing", "ranking", "writing"}
                          THEN excused \cup Unfresh ELSE excused
         \/ /\ pc' = [pc EXCEPT ![t] = "done"]
            /\ excused' = IF pc[t] = "acking" THEN excused ELSE excused \cup Unfresh
      /\ todo' = [todo EXCEPT ![t] = {}] /\ pop' = [pop EXCEPT ![t] = <<>>]
      /\ taint' = [taint EXCEPT ![t] = {}] /\ UNCHANGED <<score, job>>
      /\ row' = [row EXCEPT ![t] = NewJob]
      /\ tx' = [tx EXCEPT ![t] = NoTx] /\ saved' = [saved EXCEPT ![t] = NoTx]
  BY DEF Crash, storeVars
<1>3. /\ pc'[t] \in {"queued", "done"}
      /\ \A u \in Tasks : u # t => /\ pc'[u] = pc[u] /\ todo'[u] = todo[u] /\ pop'[u] = pop[u]
                                   /\ taint'[u] = taint[u]
      /\ pop'[t] = <<>>
  BY <1>1, <1>2
<1>4. Aside(t)
  <2>1. \A i \in Jobs : i # t => row'[i] = row[i] /\ tx'[i] = tx[i] /\ saved'[i] = saved[i]
    BY <1>1, <1>2 DEF Tasks
  <2>2. QED
    BY <1>2, <1>3, <2>1 DEF Aside, SameTask
<1>5. Counted(t)'
  BY <1>3 DEF Counted, InLoop, InHotel
<1>6. (\A u \in Tasks : Reading(u)') /\ Unfresh' = Unfresh
  <2>1. \A u \in Tasks : (pop'[u] = pop[u] /\ taint'[u] = taint[u]) \/ pop'[u] = <<>>
    BY <1>3
  <2>2. QED
    BY <1>1, <1>2, <2>1, UntouchedReading
<1>7. \A k \in Unfresh' \ excused' : k \in Unfresh \ excused /\ (Owes(t, k) => Owes(t, k)')
  <2>1. CASE excused' = excused \cup Unfresh
    BY <1>6, <2>1
  <2>2. CASE excused' = excused /\ pc[t] = "acking"
    <3>1. t \notin Rescorings
      BY <1>2, SentimentAssumption
    <3>2. \A k : ~Owes(t, k)
      BY <2>2, <3>1 DEF Owes, InLoop, InHotel
    <3>3. QED
      BY <1>6, <2>2, <3>2
  <2>3. CASE /\ excused' = excused /\ pc' = [pc EXCEPT ![t] = "queued"]
             /\ ~(job[t].status = "COMPLETED" /\ pc[t] \in {"listing", "ranking", "writing"})
    <3>1. t \notin Rescorings /\ pc'[t] = "queued" /\ job' = job
      BY <1>1, <1>2, <2>3, SentimentAssumption
    <3>2. ASSUME NEW k, Owes(t, k) PROVE Owes(t, k)'
      <4>1. job[t].n["applied"] > 0 /\ job[t].status # "COMPLETED"
        BY <1>1, <1>2, <2>3, <3>1, <3>2 DEF Owes, Counted
      <4>2. QED
        BY <1>2, <3>1, <4>1 DEF Owes
    <3>3. QED
      BY <1>6, <2>3, <3>2
  <2>4. QED
    BY <1>2, <2>1, <2>2, <2>3
<1>8. \A k \in Unfresh' \ excused' : Owed(k)'
  BY <1>1, <1>4, <1>7, OwedStep DEF Aside
<1>9. QED
  BY <1>1, <1>4, <1>5, <1>6, <1>8, AsideCounted DEF Fresher

\* Steps within a hotel, and what ends it.
LEMMA ImportLineFresher ==
    ASSUME Fresher, Sound', NEW j \in Jobs, ImportLine(j)
    PROVE  Fresher'
<1>1. Typed
  BY DEF Fresher, Sound
<1>2. ASSUME FailLine(j, at[j].line, saved[j]), pc[j] \in InHotel PROVE Fresher'
  BY <1>1, <1>2, EntryTyped, FailFresher
<1>3. CASE ReadEntry(j) \/ Prefetch(j)
  <2>1. /\ HotelStep(j) /\ saved'[j] = saved[j] /\ tx'[j].score = tx[j].score
        /\ pc[j] \in InLoop
    BY <1>1, <1>3, ReadEntryStep, PrefetchStep
       DEF SameWrites, ReadEntry, Prefetch, InLoop, InHotel
  <2>2. QED
    BY <2>1, HotelStepFresher
<1>4. CASE Create(j) \/ Upsert(j)
  <2>1. pc[j] \in InHotel /\ pc[j] \in InLoop
    BY <1>4 DEF Create, Upsert, InHotel, InLoop
  <2>2. CASE FailLine(j, at[j].line, saved[j])
    BY <1>2, <2>1, <2>2
  <2>3. CASE ~FailLine(j, at[j].line, saved[j])
    <3>1. HotelStep(j) /\ saved' = saved /\ tx'[j].score = tx[j].score
      BY <1>1, <1>4, <2>3, CreateStep, UpsertStep
    <3>2. QED
      BY <2>1, <3>1, HotelStepFresher
  <2>4. QED
    BY <2>2, <2>3
<1>5. CASE NextLine(j)
  <2>1. pc[j] = "lines" /\ pc[j] \in InLoop
    BY <1>5 DEF NextLine, InLoop
  <2>2. \/ \E l \in Unread(j) : FailLine(j, l, tx[j])
        \/ HotelStep(j) /\ tx' = tx /\ saved'[j] = tx[j]
    BY <1>1, <1>5, NextLineStep
  <2>3. CASE \E l \in Unread(j) : FailLine(j, l, tx[j])
    BY <2>1, <2>3, FailFresher DEF Unread
  <2>4. CASE HotelStep(j) /\ tx' = tx /\ saved'[j] = tx[j]
    BY <2>1, <2>4, HotelStepFresher
  <2>5. QED
    BY <2>2, <2>3, <2>4
<1>6. CASE StatementFails(j)
  BY <1>1, <1>2, <1>6, StatementFailsStep DEF StatementFails, InHotel
<1>7. QED
  BY <1>3, <1>4, <1>5, <1>6, StartFresher, PropagateFresher, FinishFresher, MarkFailedFresher
     DEF ImportLine

\* Every step of a run, a rescoring or a normalization, and every death.
LEMMA FresherNext == Fresher /\ Sessions /\ [Next]_vars => Fresher'
<1>1. SUFFICES ASSUME Fresher, Sessions, [Next]_vars PROVE Fresher'
  OBVIOUS
<1>2. Sound'
  BY <1>1, SoundNext DEF Fresher
<1>3. ASSUME NEW t \in Tasks, Work(t) \/ Crash(t) PROVE Fresher'
  BY <1>1, <1>2, <1>3, ImportLineFresher, TakeRowFresher, BeginHotelFresher, CommitHotelFresher,
     ListFresher, ReadPopulationFresher, BeginFlushFresher, CommitRelativeFresher, GiveUpFresher,
     AcknowledgeFresher, CrashFresher DEF Work
<1>4. CASE UNCHANGED vars
  <2>1. UNCHANGED <<score, job, row, pc, tx, saved, todo, pop, taint, excused>>
    BY <1>4 DEF vars, storeVars, lineVars, rankVars
  <2>2. \A j \in Jobs : Counted(j)' <=> Counted(j)
    BY <2>1 DEF Counted
  <2>3. Unfresh' = Unfresh /\ \A k : Population(k)' = Population(k)
    BY <2>1 DEF Unfresh, Population
  <2>4. \A t \in Tasks : Reading(t)' <=> Reading(t)
    BY <2>1, <2>3 DEF Reading
  <2>5. \A k : Owed(k)' <=> Owed(k)
    BY <2>1 DEF Owed, Owes
  <2>6. QED
    BY <1>1, <1>2, <2>1, <2>2, <2>3, <2>4, <2>5 DEF Fresher
<1>5. QED
  BY <1>1, <1>3, <1>4 DEF Next

\* The initial state: no scores, so none that is not fresh.
LEMMA InitFresher == Init => Fresher
<1>1. SUFFICES ASSUME Init PROVE Fresher
  OBVIOUS
<1>2. Sound
  BY <1>1, InitSound
<1>3. \A j \in Jobs : Counted(j)
  <2>1. \A j \in Jobs : pc[j] = "queued"
    BY <1>1 DEF Init, Tasks
  <2>2. QED
    BY <2>1 DEF Counted, InLoop, InHotel
<1>4. \A t \in Tasks : Reading(t)
  <2>1. \A t \in Tasks : DOMAIN pop[t] = {}
    BY <1>1, EmptyPartial DEF Init
  <2>2. QED
    BY <2>1 DEF Reading
<1>5. Unfresh = {}
  <2>1. \A c \in Cells : score[c].source = "none"
    BY <1>1 DEF Init, NoScore
  <2>2. \A k \in Keys : DOMAIN Population(k) = {}
    BY <2>1 DEF Population, Cells
  <2>3. QED
    BY <2>2 DEF Unfresh
<1>6. QED
  BY <1>2, <1>3, <1>4, <1>5 DEF Fresher

\* When all tasks are done, every attribute whose scores changed was normalized after the
\* change, up to the failures and overlaps that excuse it (run, normalize): whoever changes
\* a score owes the normalization until it has run on the changed scores.
THEOREM RankingsAreFresh == Spec => []RankedOnFreshScores
<1>1. Fresher => RankedOnFreshScores
  <2>1. SUFFICES ASSUME Fresher, Quiet PROVE Unfresh \subseteq excused
    BY DEF RankedOnFreshScores
  <2>2. \A t \in Tasks : \A k : ~Owes(t, k)
    BY <2>1 DEF Quiet, Owes, InLoop, InHotel
  <2>3. QED
    BY <2>1, <2>2 DEF Fresher, Owed
<1>2. Spec => []Fresher
  BY Soundness, InitFresher, FresherNext, PTL DEF Spec
<1>3. QED
  BY <1>1, <1>2, PTL

-----------------------------------------------------------------------------
(* The books of a job                                                      *)

\* What counters n, and issues of hotels and attributes, tell of verdicts vs.
Done == {"good", "flawed"}
Tally(vs, V) == {l \in DOMAIN vs : vs[l] \in V}
Total(j, kinds, vs) == SumOver(Stated(j, kinds), Tally(vs, Done))
Telling(j, n, vs, hotel, attribute) ==
    /\ n["read"] = Cardinality(Tally(vs, Done \cup {"failed"}))
    /\ n["matched"] = Cardinality(Tally(vs, Done))
    /\ n["failed"] = Cardinality(Tally(vs, {"failed"}))
    /\ n["failed"] = hotel
    /\ n["seen"] = Total(j, {"good", "zero", "malformed"}, vs)
    /\ n["zero"] = Total(j, {"zero"}, vs)
    /\ n["seen"] + Total(j, {"category"}, vs) = n["processed"] + n["zero"] + attribute
    /\ n["processed"] = n["applied"] + n["passed"]
    /\ (n["flawed"] > 0) = (Tally(vs, {"flawed"}) # {})

\* The row m of a job, over its stores and transaction t: the lines up to the checkpoint
\* that are not blank are decided, each once, and the counters tell them.
Readable(j, l) == file[j][l].kind # "blank"
UpTo(j, vs, n) == \A l \in Lines(j) : vs[l] # "open" <=> l <= n /\ Readable(j, l)
Seen(j, t) == Over(verdict[j], t.verdict)
InBooks(j, m, t) ==
    /\ Telling(j, m.n, Seen(j, t), issues[j].hotel + t.hotel, issues[j].attribute + t.attribute)
    /\ UpTo(j, Seen(j, t), m.line) /\ (m.line # 0 => Readable(j, m.line))
    /\ job[j].line <= m.line /\ \A l \in DOMAIN t.verdict : l > job[j].line

\* A job that was completed has no line left.
Closed(j) ==
    job[j].completed => \A l \in Lines(j) : l > job[j].line => ~Readable(j, l)

\* Entries of some kinds among the first n.
Among(es, n, kinds) == Cardinality({i \in 1 .. n : es[i].kind \in kinds})

\* What the counters of a line tell of the entries that were read.
Reads(j) ==
    LET es == file[j][at[j].line].entries
        n  == at[j].entry - 1
        d  == delta[j]
    IN  /\ n <= Len(es)
        /\ d["read"] = 1 /\ d["matched"] = 1 /\ d["failed"] = 0
        /\ d["applied"] = 0 /\ d["passed"] = 0
        /\ d["processed"] = IF pc[j] = "propagating" THEN Len(values[j]) ELSE 0
        /\ d["seen"] = Among(es, n, {"good", "zero", "malformed"})
        /\ d["zero"] = Among(es, n, {"zero"})
        /\ d["seen"] + Among(es, n, {"category"}) + saved[j].attribute
              = Len(values[j]) + d["zero"] + tx[j].attribute

\* A run in a hotel is at the next line; its savepoint has what came before.
NextUnread(j, l) == l \in Unread(j) /\ \A m \in Unread(j) : l <= m
AtWork(j) ==
    /\ NextUnread(j, at[j].line) /\ Reads(j)
    /\ tx[j].verdict = saved[j].verdict /\ tx[j].hotel = saved[j].hotel
    /\ saved[j].attribute <= tx[j].attribute
    /\ pc[j] = "creating" => EntryAt(j).kind = "good"
    /\ pc[j] \in {"upserting", "propagating"} =>
          at[j].entry > Len(file[j][at[j].line].entries)

\* The inductive strengthening of CountersTellTheFile, and what the ledger needs.
Accounts(j) ==
    /\ InBooks(j, job[j], NoTx) /\ Closed(j)
    /\ pc[j] \in InLoop => row[j].completed = job[j].completed
    /\ pc[j] = "lines" => InBooks(j, row[j], tx[j])
    /\ pc[j] \in InHotel => InBooks(j, row[j], saved[j]) /\ AtWork(j)
Books == Sound /\ Sessions /\ \A j \in Jobs : Accounts(j)

\* What is over a table.
LEMMA OverValues ==
    ASSUME NEW f, NEW g
    PROVE  /\ DOMAIN Over(f, g) = DOMAIN f \cup DOMAIN g
           /\ \A x \in DOMAIN f \cup DOMAIN g :
                Over(f, g)[x] = IF x \in DOMAIN g THEN g[x] ELSE f[x]
  BY DEF Over

\* Two writes over a table, one after the other or at once.
LEMMA OverTwice ==
    ASSUME NEW f, NEW g, NEW h
    PROVE  Over(Over(f, g), h) = Over(f, Over(g, h))
<1> DEFINE fg == Over(f, g)
           gh == Over(g, h)
           left == Over(fg, h)
           right == Over(f, gh)
           D == DOMAIN f \cup DOMAIN g \cup DOMAIN h
<1>1. /\ DOMAIN fg = DOMAIN f \cup DOMAIN g
      /\ \A x \in DOMAIN f \cup DOMAIN g : fg[x] = IF x \in DOMAIN g THEN g[x] ELSE f[x]
  BY OverValues
<1>2. /\ DOMAIN gh = DOMAIN g \cup DOMAIN h
      /\ \A x \in DOMAIN g \cup DOMAIN h : gh[x] = IF x \in DOMAIN h THEN h[x] ELSE g[x]
  BY OverValues
<1> HIDE DEF fg, gh
<1>3. /\ DOMAIN left = DOMAIN fg \cup DOMAIN h
      /\ \A x \in DOMAIN fg \cup DOMAIN h : left[x] = IF x \in DOMAIN h THEN h[x] ELSE fg[x]
  BY OverValues
<1>4. /\ DOMAIN right = DOMAIN f \cup DOMAIN gh
      /\ \A x \in DOMAIN f \cup DOMAIN gh : right[x] = IF x \in DOMAIN gh THEN gh[x] ELSE f[x]
  BY OverValues
<1>5. left = [x \in DOMAIN left |-> left[x]] /\ right = [x \in DOMAIN right |-> right[x]]
  BY DEF Over
<1> HIDE DEF left, right
<1>6. DOMAIN left = D /\ DOMAIN right = D
  BY <1>1, <1>2, <1>3, <1>4
<1>7. \A x \in D : left[x] = right[x]
  BY <1>1, <1>2, <1>3, <1>4
<1> HIDE DEF D
<1>8. left = right
  BY <1>5, <1>6, <1>7
<1>9. QED
  BY <1>8 DEF left, right, fg, gh

\* The verdicts of a job are verdicts of its lines.
LEMMA VerdictsTyped ==
    ASSUME Typed, NEW j \in Jobs
    PROVE  verdict[j] \in [Lines(j) -> Verdicts]
<1>1. verdict[j] \in Partials(Nat, Verdicts) /\ DOMAIN verdict[j] = Lines(j)
  BY DEF Typed, Stores, InFile
<1>2. PICK E \in SUBSET Nat : verdict[j] \in [E -> Verdicts]
  BY <1>1 DEF Partials
<1>3. QED
  BY <1>1, <1>2

\* The verdicts a run sees.
LEMMA SeenVerdicts ==
    ASSUME Typed, NEW j \in Jobs, NEW t \in Tx, DOMAIN t.verdict \subseteq Lines(j)
    PROVE  /\ Seen(j, t) \in [Lines(j) -> Verdicts]
           /\ IsFiniteSet(Lines(j)) /\ \A l \in Lines(j) : l \in Nat /\ l > 0
           /\ \A l \in Lines(j) : Seen(j, t)[l] = IF l \in DOMAIN t.verdict THEN t.verdict[l]
                                                  ELSE verdict[j][l]
<1> DEFINE f == verdict[j]
           g == t.verdict
<1>2. f \in [Lines(j) -> Verdicts]
  BY VerdictsTyped
<1>3. Fits(g, Lines(j), Verdicts)
  BY TxTyped DEF Fits, WrittenBy
<1>4. Len(file[j]) \in Nat
  BY SentimentAssumption, LenProperties DEF Typed
<1>5. IsFiniteSet(Lines(j)) /\ \A l \in Lines(j) : l \in Nat /\ l > 0
  BY <1>4, FS_Interval DEF Lines
<1> HIDE DEF f, g
<1>6. Over(f, g) \in [Lines(j) -> Verdicts]
  BY <1>2, <1>3, OverTotal, ZenonT(60)
<1>7. \A l \in Lines(j) : Over(f, g)[l] = IF l \in DOMAIN g THEN g[l] ELSE f[l]
  BY <1>2 DEF Over
<1>8. QED
  BY <1>5, <1>6, <1>7 DEF Seen, f, g

\* A session without a transaction sees what is committed.
LEMMA SeenAtRest ==
    ASSUME Typed, NEW j \in Jobs
    PROVE  Seen(j, NoTx) = verdict[j]
<1>1. NoTx \in Tx /\ DOMAIN NoTx.verdict = {}
  BY FreshMemory
<1>3. verdict[j] \in [Lines(j) -> Verdicts]
  BY VerdictsTyped
<1>4. /\ Seen(j, NoTx) \in [Lines(j) -> Verdicts]
      /\ \A l \in Lines(j) : Seen(j, NoTx)[l] = verdict[j][l]
  BY <1>1, SeenVerdicts
<1>5. QED
  BY <1>3, <1>4

-----------------------------------------------------------------------------
(* One line more, one entry more                                           *)

\* An entry more among the first ones.
LEMMA AmongNext ==
    ASSUME NEW es, NEW n \in Nat, NEW kinds
    PROVE  /\ Among(es, 0, kinds) = 0
           /\ Among(es, n, kinds) \in Nat
           /\ es[n + 1].kind \in kinds => Among(es, n + 1, kinds) = Among(es, n, kinds) + 1
           /\ es[n + 1].kind \notin kinds => Among(es, n + 1, kinds) = Among(es, n, kinds)
<1> DEFINE S(m) == {i \in 1 .. m : es[i].kind \in kinds}
<1>1. IsFiniteSet(1 .. n)
  BY FS_Interval
<1>2. IsFiniteSet(S(n)) /\ Cardinality(S(n)) \in Nat /\ n + 1 \notin S(n)
  BY <1>1, FS_Subset, FS_CardinalityType
<1>3. S(0) = {}
  OBVIOUS
<1>4. S(n + 1) = IF es[n + 1].kind \in kinds THEN S(n) \cup {n + 1} ELSE S(n)
  <2>1. 1 .. n + 1 = (1 .. n) \cup {n + 1} /\ n + 1 \notin 1 .. n
    OBVIOUS
  <2>2. QED
    BY <2>1
<1> HIDE DEF S
<1>5. Cardinality(S(n) \cup {n + 1}) = Cardinality(S(n)) + 1
  BY <1>2, FS_AddElement
<1>6. /\ Cardinality(S(0)) = 0 /\ Cardinality(S(n)) \in Nat
      /\ es[n + 1].kind \in kinds => Cardinality(S(n + 1)) = Cardinality(S(n)) + 1
      /\ es[n + 1].kind \notin kinds => Cardinality(S(n + 1)) = Cardinality(S(n))
  BY <1>2, <1>3, <1>4, <1>5, FS_EmptySet
<1>7. QED
  BY <1>6 DEF S, Among

\* What a line states are all its entries.
LEMMA StatedTyped ==
    ASSUME Typed, NEW j \in Jobs, NEW kinds
    PROVE  /\ Stated(j, kinds) \in [Lines(j) -> Nat]
           /\ \A l \in Lines(j) : Stated(j, kinds)[l] =
                Among(file[j][l].entries, Len(file[j][l].entries), kinds)
<1>1. ASSUME NEW l \in Lines(j)
      PROVE  /\ DOMAIN file[j][l].entries = 1 .. Len(file[j][l].entries)
             /\ Len(file[j][l].entries) \in Nat
  <2>1. file[j][l] \in Line
    BY LineTyped
  <2>2. file[j][l].entries \in Seq(Entry)
    BY <2>1 DEF Line
  <2>3. QED
    BY <2>2, LenProperties
<1>2. ASSUME NEW l \in Lines(j)
      PROVE  Stated(j, kinds)[l] = Among(file[j][l].entries, Len(file[j][l].entries), kinds)
  <2> DEFINE es == file[j][l].entries
  <2>1. Stated(j, kinds)[l] = Cardinality({i \in DOMAIN es : es[i].kind \in kinds})
    BY DEF Stated
  <2>2. DOMAIN es = 1 .. Len(es)
    BY <1>1
  <2> HIDE DEF es
  <2>3. QED
    BY <2>1, <2>2 DEF Among, es
<1>3. \A l \in Lines(j) : Stated(j, kinds)[l] \in Nat
  BY <1>1, <1>2, AmongNext
<1>4. QED
  BY <1>2, <1>3 DEF Stated

\* The verdicts with that of line l.
With(vs, l, v) == [vs EXCEPT ![l] = v]

\* A line that gets its verdict joins the lines of that verdict.
LEMMA TallyGrows ==
    ASSUME NEW L, IsFiniteSet(L), NEW vs \in [L -> Verdicts], NEW l \in L, vs[l] = "open",
           NEW v \in Verdicts, v # "open", NEW V, "open" \notin V
    PROVE  /\ IsFiniteSet(Tally(vs, V)) /\ l \notin Tally(vs, V) /\ Tally(vs, V) \subseteq L
           /\ Tally(With(vs, l, v), V) = IF v \in V THEN Tally(vs, V) \cup {l} ELSE Tally(vs, V)
           /\ Cardinality(Tally(vs, V)) \in Nat
           /\ Cardinality(Tally(With(vs, l, v), V))
                 = Cardinality(Tally(vs, V)) + IF v \in V THEN 1 ELSE 0
<1> DEFINE ws == With(vs, l, v)
           old == Tally(vs, V)
<1>1. DOMAIN ws = L /\ ws[l] = v /\ \A x \in L \ {l} : ws[x] = vs[x]
  BY DEF With
<1> HIDE DEF ws
<1>2. Tally(ws, V) = {x \in L : ws[x] \in V} /\ old = {x \in L : vs[x] \in V}
  BY <1>1 DEF Tally
<1> HIDE DEF old
<1>3. old \subseteq L /\ l \notin old
  BY <1>2
<1>4. Tally(ws, V) = IF v \in V THEN old \cup {l} ELSE old
  BY <1>1, <1>2
<1>5. IsFiniteSet(old) /\ Cardinality(old) \in Nat
  BY <1>3, FS_Subset, FS_CardinalityType
<1>6. Cardinality(old \cup {l}) = Cardinality(old) + 1
  BY <1>3, <1>5, FS_AddElement
<1>7. Cardinality(Tally(ws, V)) = Cardinality(old) + IF v \in V THEN 1 ELSE 0
  BY <1>4, <1>5, <1>6
<1>8. QED
  BY <1>3, <1>4, <1>5, <1>7 DEF ws, old

\* So do its entries, unless it failed.
LEMMA TotalGrows ==
    ASSUME Typed, NEW j \in Jobs, NEW vs \in [Lines(j) -> Verdicts], NEW l \in Lines(j),
           IsFiniteSet(Lines(j)), vs[l] = "open", NEW v \in Verdicts, v # "open", NEW kinds
    PROVE  /\ Total(j, kinds, vs) \in Nat
           /\ Total(j, kinds, With(vs, l, v))
                 = Total(j, kinds, vs) + IF v \in Done THEN Stated(j, kinds)[l] ELSE 0
<1> DEFINE g == Stated(j, kinds)
           S == Tally(vs, Done)
<1>1. g \in [Lines(j) -> Nat]
  BY StatedTyped
<1>2. /\ IsFiniteSet(S) /\ l \notin S /\ S \subseteq Lines(j)
      /\ Tally(With(vs, l, v), Done) = IF v \in Done THEN S \cup {l} ELSE S
  <2>1. "open" \notin Done
    BY DEF Done
  <2>2. QED
    BY <2>1, TallyGrows
<1> HIDE DEF g, S
<1>3. (\A x \in S : g[x] \in Nat) /\ g[l] \in Nat
  BY <1>1, <1>2
<1>4. SumOver(g, S) \in Nat
  BY <1>2, <1>3, SumTyped
<1>5. SumOver(g, S \cup {l}) = g[l] + SumOver(g, S)
  <2>1. (\A x \in S : g[x] \in Int) /\ g[l] \in Int
    BY <1>3
  <2>2. QED
    BY <1>2, <2>1, SumGrows
<1>6. SumOver(g, Tally(With(vs, l, v), Done)) = SumOver(g, S) + IF v \in Done THEN g[l] ELSE 0
  BY <1>2, <1>3, <1>4, <1>5
<1>7. QED
  BY <1>4, <1>6 DEF Total, g, S

\* What the counters and issues of one line tell of it.
OneLine(j, l, d, v, hotel, attribute) ==
    LET said(kinds) == IF v \in Done THEN Stated(j, kinds)[l] ELSE 0
    IN  /\ d["read"] = 1 /\ d["matched"] = IF v \in Done THEN 1 ELSE 0
        /\ d["failed"] = IF v = "failed" THEN 1 ELSE 0
        /\ hotel = d["failed"] /\ attribute \in Nat
        /\ d["seen"] = said({"good", "zero", "malformed"}) /\ d["zero"] = said({"zero"})
        /\ d["seen"] + said({"category"}) = d["processed"] + d["zero"] + attribute
        /\ d["processed"] = d["applied"] + d["passed"]
        /\ (d["flawed"] > 0) = (v = "flawed")

\* Counters that tell a line (_apply_delta) are added to those that tell the others.
LEMMA TellingGrows ==
    ASSUME Typed, NEW j \in Jobs, NEW vs \in [Lines(j) -> Verdicts], NEW l \in Lines(j),
           IsFiniteSet(Lines(j)), vs[l] = "open", NEW v \in Verdicts, v # "open",
           NEW n \in [Counters -> Nat], NEW d \in [Counters -> Nat],
           NEW hotel \in Nat, NEW attribute \in Nat, NEW h, NEW a,
           Telling(j, n, vs, hotel, attribute), OneLine(j, l, d, v, h, a)
    PROVE  Telling(j, Plus(n, d), With(vs, l, v), hotel + h, attribute + a)
<1> DEFINE ws == With(vs, l, v)
           m == Plus(n, d)
           count(us, V) == Cardinality(Tally(us, V))
           gsm == {"good", "zero", "malformed"}
           said(kinds) == IF v \in Done THEN Stated(j, kinds)[l] ELSE 0
<1>1. \A c \in Counters : m[c] = n[c] + d[c] /\ n[c] \in Nat /\ d[c] \in Nat
  BY DEF Plus
<1>2. ASSUME NEW V, "open" \notin V
      PROVE  count(vs, V) \in Nat /\ count(ws, V) = count(vs, V) + IF v \in V THEN 1 ELSE 0
  BY <1>2, TallyGrows
<1>0. Tally(ws, {"flawed"}) = IF v \in {"flawed"} THEN Tally(vs, {"flawed"}) \cup {l}
                              ELSE Tally(vs, {"flawed"})
  <2>1. \A V : "open" \notin V =>
           Tally(ws, V) = IF v \in V THEN Tally(vs, V) \cup {l} ELSE Tally(vs, V)
    BY TallyGrows
  <2>2. "open" \notin {"flawed"}
    OBVIOUS
  <2>3. QED
    BY <2>1, <2>2
<1>3. ASSUME NEW kinds
      PROVE  /\ Total(j, kinds, vs) \in Nat
             /\ Total(j, kinds, ws) = Total(j, kinds, vs) + said(kinds)
  BY TotalGrows
<1>4. said(gsm) \in Nat /\ said({"zero"}) \in Nat /\ said({"category"}) \in Nat
  BY StatedTyped
<1> HIDE DEF ws, m, said
<1>5. /\ m["read"] = n["read"] + 1
      /\ count(ws, Done \cup {"failed"}) = count(vs, Done \cup {"failed"}) + 1
      /\ n["read"] = count(vs, Done \cup {"failed"})
  <2>1. v \in Done \cup {"failed"} /\ "open" \notin Done \cup {"failed"}
    BY DEF Done, Verdicts
  <2>2. QED
    BY <1>1, <1>2, <2>1 DEF Telling, OneLine, Counters
<1>6. m["matched"] = count(ws, Done)
  <2>1. "open" \notin Done
    BY DEF Done
  <2>2. count(vs, Done) \in Nat /\ count(ws, Done) = count(vs, Done) + IF v \in Done THEN 1 ELSE 0
    BY <1>2, <2>1
  <2>3. n["matched"] = count(vs, Done) /\ d["matched"] = IF v \in Done THEN 1 ELSE 0
    BY DEF Telling, OneLine
  <2>4. m["matched"] = n["matched"] + d["matched"]
    BY <1>1 DEF Counters
  <2>5. QED
    BY <2>2, <2>3, <2>4
<1>7. m["failed"] = count(ws, {"failed"}) /\ m["failed"] = hotel + h
  <2>1. /\ count(vs, {"failed"}) \in Nat
        /\ count(ws, {"failed"}) = count(vs, {"failed"}) + IF v \in {"failed"} THEN 1 ELSE 0
    BY <1>2
  <2>2. /\ n["failed"] = count(vs, {"failed"}) /\ d["failed"] = IF v = "failed" THEN 1 ELSE 0
        /\ n["failed"] = hotel /\ h = d["failed"]
    BY DEF Telling, OneLine
  <2>3. m["failed"] = n["failed"] + d["failed"]
    BY <1>1 DEF Counters
  <2>4. QED
    BY <2>1, <2>2, <2>3
<1>8. /\ m["seen"] = n["seen"] + said(gsm) /\ n["seen"] = Total(j, gsm, vs)
      /\ m["zero"] = n["zero"] + said({"zero"}) /\ n["zero"] = Total(j, {"zero"}, vs)
  BY <1>1 DEF Telling, OneLine, Counters, said
<1>9. m["seen"] = Total(j, gsm, ws) /\ m["zero"] = Total(j, {"zero"}, ws)
  BY <1>3, <1>8
<1>10. m["seen"] + Total(j, {"category"}, ws) = m["processed"] + m["zero"] + (attribute + a)
  <2>1. n["seen"] + Total(j, {"category"}, vs) = n["processed"] + n["zero"] + attribute
    BY DEF Telling
  <2>2. d["seen"] + said({"category"}) = d["processed"] + d["zero"] + a /\ a \in Nat
    BY DEF OneLine, said
  <2>3. Total(j, {"category"}, ws) = Total(j, {"category"}, vs) + said({"category"})
    BY <1>3
  <2>4. Total(j, {"category"}, vs) \in Nat
    BY <1>3
  <2>5. /\ m["seen"] = n["seen"] + d["seen"] /\ m["zero"] = n["zero"] + d["zero"]
        /\ m["processed"] = n["processed"] + d["processed"]
        /\ n["seen"] \in Nat /\ d["seen"] \in Nat /\ n["zero"] \in Nat /\ d["zero"] \in Nat
        /\ n["processed"] \in Nat /\ d["processed"] \in Nat
    BY <1>1 DEF Counters
  <2> DEFINE sc == said({"category"})
             tc == Total(j, {"category"}, vs)
             tw == Total(j, {"category"}, ws)
  <2>6. /\ sc \in Nat /\ tc \in Nat /\ tw = tc + sc
        /\ n["seen"] + tc = n["processed"] + n["zero"] + attribute
        /\ d["seen"] + sc = d["processed"] + d["zero"] + a
    BY <1>4, <2>1, <2>2, <2>3, <2>4
  <2> HIDE DEF sc, tc, tw
  <2>7. m["seen"] + tw = m["processed"] + m["zero"] + (attribute + a)
    BY <2>2, <2>5, <2>6
  <2>8. QED
    BY <2>7 DEF tw
<1>11. m["processed"] = m["applied"] + m["passed"]
  BY <1>1 DEF Telling, OneLine, Counters
<1>12. (m["flawed"] > 0) = (Tally(ws, {"flawed"}) # {})
  <2>1. Tally(ws, {"flawed"}) = IF v \in {"flawed"} THEN Tally(vs, {"flawed"}) \cup {l}
                                ELSE Tally(vs, {"flawed"})
    BY <1>0
  <2>2. m["flawed"] = n["flawed"] + d["flawed"] /\ n["flawed"] \in Nat /\ d["flawed"] \in Nat
    BY <1>1 DEF Counters
  <2>3. /\ (n["flawed"] > 0) = (Tally(vs, {"flawed"}) # {})
        /\ (d["flawed"] > 0) = (v = "flawed")
    BY DEF Telling, OneLine
  <2>4. QED
    BY <2>1, <2>2, <2>3
<1>13. m["read"] = count(ws, Done \cup {"failed"})
  BY <1>5
<1>14. Telling(j, m, ws, hotel + h, attribute + a)
  BY <1>6, <1>7, <1>9, <1>10, <1>11, <1>12, <1>13 DEF Telling
<1>15. QED
  BY <1>14 DEF m, ws

-----------------------------------------------------------------------------
(* A line joins the books, and a commit closes the page                    *)

\* Rows that count the same, over stores that did not change, are in the books as before.
LEMMA SameBooks ==
    ASSUME NEW j \in Jobs, file' = file, verdict'[j] = verdict[j], issues'[j] = issues[j],
           job'[j].line = job[j].line, NEW m, NEW k, k.n = m.n, k.line = m.line, NEW t,
           InBooks(j, m, t)
    PROVE  InBooks(j, k, t)'
<1>1. Seen(j, t)' = Seen(j, t)
  BY DEF Seen, Over
<1>2. \A kinds : Stated(j, kinds)' = Stated(j, kinds)
  BY DEF Stated, Lines
<1>3. \A kinds, vs : Total(j, kinds, vs)' = Total(j, kinds, vs)
  BY <1>2 DEF Total
<1>4. \A n, vs, hotel, attribute :
        Telling(j, n, vs, hotel, attribute) => Telling(j, n, vs, hotel, attribute)'
  BY <1>3 DEF Telling
<1>5. \A vs, n : UpTo(j, vs, n) => UpTo(j, vs, n)'
  BY DEF UpTo, Lines, Readable
<1>6. \A l : Readable(j, l) => Readable(j, l)'
  BY DEF Readable
<1>7. QED
  BY <1>1, <1>4, <1>5, <1>6 DEF InBooks

\* A transaction u has what b had, and the verdict, and issues, of one line more.
Adds(u, b, l, v, h, a) ==
    /\ u.verdict = Over(b.verdict, [x \in {l} |-> v])
    /\ u.hotel = b.hotel + h /\ u.attribute = b.attribute + a

\* What it sees is what b saw, with that verdict.
LEMMA SeenWith ==
    ASSUME Typed, NEW j \in Jobs, NEW b \in Tx, DOMAIN b.verdict \subseteq Lines(j), NEW u,
           NEW l \in Lines(j), NEW v \in Verdicts, NEW h, NEW a, Adds(u, b, l, v, h, a)
    PROVE  Seen(j, u) = With(Seen(j, b), l, v)
<1> DEFINE new == [x \in {l} |-> v]
           vs == Seen(j, b)
           f == verdict[j]
           g == b.verdict
<1>1. DOMAIN new = {l} /\ new[l] = v
  OBVIOUS
<1>2. u.verdict = Over(g, new)
  BY DEF Adds
<1>3. vs \in [Lines(j) -> Verdicts]
  BY SeenVerdicts
<1>4. Seen(j, u) = Over(f, Over(g, new)) /\ vs = Over(f, g)
  BY <1>2 DEF Seen
<1> HIDE DEF new, vs, f, g
<1>5. Seen(j, u) = Over(vs, new)
  BY <1>4, OverTwice
<1>6. Over(vs, new) = With(vs, l, v)
  BY <1>1, <1>3 DEF Over, With
<1>7. QED
  BY <1>5, <1>6 DEF vs

\* The next line that is not blank after line n.
Follows(j, n, l) ==
    /\ l > n /\ Readable(j, l)
    /\ \A k \in Lines(j) : n < k /\ k < l => ~Readable(j, k)

\* The row of a job with one line more.
Forward(m, l, d) == [m EXCEPT !.line = l, !.n = Plus(@, d)]

\* A line that is decided (_read_lines) joins the books of a run.
LEMMA LineBooks ==
    ASSUME Typed, NEW j \in Jobs, NEW m \in JobRow, NEW b \in Tx,
           DOMAIN b.verdict \subseteq Lines(j), InBooks(j, m, b), NEW l \in Lines(j),
           Follows(j, m.line, l), NEW v \in Verdicts, v # "open", NEW d \in [Counters -> Nat],
           NEW h, NEW a, OneLine(j, l, d, v, h, a), NEW u, Adds(u, b, l, v, h, a)
    PROVE  InBooks(j, Forward(m, l, d), u)
<1>0. /\ Seen(j, b) \in [Lines(j) -> Verdicts] /\ IsFiniteSet(Lines(j))
      /\ \A x \in Lines(j) : x \in Nat /\ x > 0
  BY SeenVerdicts
<1>00. Seen(j, u) = With(Seen(j, b), l, v)
  BY SeenWith
<1>01. DOMAIN u.verdict = DOMAIN b.verdict \cup {l}
  BY DEF Adds, Over
<1> DEFINE vs == Seen(j, b)
           k == Forward(m, l, d)
           hotel == issues[j].hotel + b.hotel
           attribute == issues[j].attribute + b.attribute
<1>1. /\ vs \in [Lines(j) -> Verdicts] /\ IsFiniteSet(Lines(j))
      /\ \A x \in Lines(j) : x \in Nat /\ x > 0
  BY <1>0
<1>2. Seen(j, u) = With(vs, l, v) /\ DOMAIN u.verdict = DOMAIN b.verdict \cup {l}
  BY <1>00, <1>01
<1>3. /\ k.line = l /\ k.n = Plus(m.n, d)
      /\ m.n \in [Counters -> Nat] /\ m.line \in Nat
  BY DEF JobRow, Forward
<1>4. /\ Telling(j, m.n, vs, hotel, attribute) /\ UpTo(j, vs, m.line)
      /\ job[j].line <= m.line /\ \A x \in DOMAIN b.verdict : x > job[j].line
  BY DEF InBooks
<1>5. h \in Nat /\ a \in Nat
  BY DEF OneLine, Counters
<1>6. /\ issues[j].hotel \in Nat /\ issues[j].attribute \in Nat
      /\ b.hotel \in Nat /\ b.attribute \in Nat /\ job[j].line \in Nat
  BY DEF Typed, Stores, Tx, JobRow
<1>7. /\ hotel \in Nat /\ attribute \in Nat
      /\ issues[j].hotel + u.hotel = hotel + h
      /\ issues[j].attribute + u.attribute = attribute + a
  BY <1>5, <1>6 DEF Adds
<1> HIDE DEF vs, k, hotel, attribute
<1>8. vs[l] = "open"
  BY <1>1, <1>3, <1>4 DEF UpTo, Follows
<1>9. Telling(j, Plus(m.n, d), With(vs, l, v), hotel + h, attribute + a)
  BY <1>1, <1>3, <1>4, <1>5, <1>7, <1>8, TellingGrows
<1>10. UpTo(j, With(vs, l, v), l)
  <2> SUFFICES ASSUME NEW x \in Lines(j)
               PROVE  With(vs, l, v)[x] # "open" <=> x <= l /\ Readable(j, x)
    BY DEF UpTo
  <2>1. CASE x = l
    BY <1>1, <2>1 DEF With, Follows
  <2>2. CASE x # l
    <3>1. With(vs, l, v)[x] = vs[x]
      BY <1>1, <2>2 DEF With
    <3>2. vs[x] # "open" <=> x <= m.line /\ Readable(j, x)
      BY <1>4 DEF UpTo
    <3>3. Readable(j, x) => (x <= m.line <=> x <= l)
      BY <1>1, <1>3, <2>2 DEF Follows
    <3>4. QED
      BY <3>1, <3>2, <3>3
  <2>3. QED
    BY <2>1, <2>2
<1>11. l > job[j].line /\ Readable(j, l)
  BY <1>1, <1>3, <1>4, <1>6 DEF Follows
<1>12. /\ Telling(j, k.n, Seen(j, u), issues[j].hotel + u.hotel, issues[j].attribute + u.attribute)
       /\ UpTo(j, Seen(j, u), k.line)
  BY <1>2, <1>3, <1>7, <1>9, <1>10
<1>13. \A x \in DOMAIN u.verdict : x > job[j].line
  BY <1>2, <1>4, <1>11
<1>14. job[j].line <= k.line
  BY <1>1, <1>3, <1>6, <1>11
<1>15. InBooks(j, k, u)
  BY <1>3, <1>11, <1>12, <1>13, <1>14 DEF InBooks
<1>16. QED
  BY <1>15 DEF k

\* What is committed of a job: verdicts, issues and its row.
Stands(j, vs, hotel, attribute, r) ==
    /\ verdict[j] = vs /\ job[j] = r
    /\ issues[j].hotel = hotel /\ issues[j].attribute = attribute

\* It is in the books when the row tells the verdicts and the issues.
LEMMA StandsInBooks ==
    ASSUME NEW j \in Jobs, file' = file, NEW vs \in [Lines(j) -> Verdicts],
           NEW hotel \in Nat, NEW attribute \in Nat, NEW r,
           Telling(j, r.n, vs, hotel, attribute), UpTo(j, vs, r.line),
           r.line # 0 => Readable(j, r.line), r.line <= r.line,
           Stands(j, vs, hotel, attribute, r)'
    PROVE  InBooks(j, job[j], NoTx)'
<1>1. NoTx.hotel = 0 /\ NoTx.attribute = 0 /\ DOMAIN NoTx.verdict = {}
  BY FreshMemory DEF NoTx
<1>2. Over(vs, NoTx.verdict) = vs
  BY <1>1 DEF Over
<1>3. /\ verdict'[j] = vs /\ job'[j] = r
      /\ issues'[j].hotel = hotel /\ issues'[j].attribute = attribute
  BY DEF Stands
<1>4. Seen(j, NoTx)' = vs
  BY <1>2, <1>3 DEF Seen
<1>5. \A kinds, us : Total(j, kinds, us)' = Total(j, kinds, us)
  <2>1. \A kinds : Stated(j, kinds)' = Stated(j, kinds)
    BY DEF Stated, Lines
  <2>2. QED
    BY <2>1 DEF Total
<1>6. Telling(j, r.n, vs, hotel, attribute)'
  BY <1>5 DEF Telling
<1>7. UpTo(j, vs, r.line)' /\ (r.line # 0 => Readable(j, r.line)')
  BY DEF UpTo, Lines, Readable
<1>8. hotel + NoTx.hotel = hotel /\ attribute + NoTx.attribute = attribute
  BY <1>1
<1>9. QED
  BY <1>1, <1>3, <1>4, <1>6, <1>7, <1>8 DEF InBooks

\* What is committed with its row is in the books, and they are all there is then.
LEMMA CommitBooks ==
    ASSUME Typed, NEW j \in Jobs, NEW t \in Tx, DOMAIN t.verdict \subseteq Lines(j),
           NEW r \in JobRow, InBooks(j, r, t), Commit(j, t, r), file' = file
    PROVE  /\ job'[j] = r /\ tx'[j] = NoTx /\ verdict'[j] = Seen(j, t)
           /\ InBooks(j, job[j], NoTx)'
           /\ \A i \in Jobs : i # j => /\ job'[i] = job[i] /\ tx'[i] = tx[i]
                                       /\ verdict'[i] = verdict[i] /\ issues'[i] = issues[i]
<1>1. Seen(j, t) \in [Lines(j) -> Verdicts]
  BY SeenVerdicts
<1>2. /\ job \in [Jobs -> JobRow] /\ issues \in [Jobs -> [hotel: Nat, attribute: Nat]]
      /\ tx \in [Tasks -> Tx] /\ verdict \in [Jobs -> Partials(Nat, Verdicts)]
  BY DEF Typed, Stores, Memories
<1>3. /\ verdict' = [verdict EXCEPT ![j] = Seen(j, t)]
      /\ issues' = [issues EXCEPT ![j].hotel = @ + t.hotel, ![j].attribute = @ + t.attribute]
      /\ job' = [job EXCEPT ![j] = r] /\ tx' = [tx EXCEPT ![j] = NoTx]
  BY DEF Commit, Seen
<1>4. /\ job'[j] = r /\ tx'[j] = NoTx /\ verdict'[j] = Seen(j, t)
      /\ \A i \in Jobs : i # j => /\ job'[i] = job[i] /\ tx'[i] = tx[i]
                                  /\ verdict'[i] = verdict[i] /\ issues'[i] = issues[i]
  BY <1>2, <1>3 DEF Tasks
<1>5. /\ issues'[j].hotel = issues[j].hotel + t.hotel
      /\ issues'[j].attribute = issues[j].attribute + t.attribute
      /\ issues[j].hotel + t.hotel \in Nat /\ issues[j].attribute + t.attribute \in Nat
  <2>1. t.hotel \in Nat /\ t.attribute \in Nat
    BY DEF Tx
  <2>2. QED
    BY <1>2, <1>3, <2>1
<1>6. \E vs \in [Lines(j) -> Verdicts] : vs = Seen(j, t)
  BY <1>1
<1>7. PICK vs \in [Lines(j) -> Verdicts] : vs = Seen(j, t)
  BY <1>6
<1>8. PICK hotel \in Nat : hotel = issues[j].hotel + t.hotel
  BY <1>5
<1>9. PICK attribute \in Nat : attribute = issues[j].attribute + t.attribute
  BY <1>5
<1>10. Stands(j, vs, hotel, attribute, r)'
  BY <1>4, <1>5, <1>7, <1>8, <1>9 DEF Stands
<1>11. /\ Telling(j, r.n, vs, hotel, attribute) /\ UpTo(j, vs, r.line)
       /\ r.line # 0 => Readable(j, r.line)
  BY <1>7, <1>8, <1>9 DEF InBooks
<1>12. r.line <= r.line
  BY DEF JobRow
<1>13. InBooks(j, job[j], NoTx)'
  BY <1>10, <1>11, <1>12, StandsInBooks
<1>14. QED
  BY <1>4, <1>13

-----------------------------------------------------------------------------
(* Runs a step does not concern, and runs it takes out of their hotel      *)

\* A run the step of another one leaves alone.
Alone(i) ==
    /\ pc'[i] = pc[i] /\ row'[i] = row[i] /\ job'[i] = job[i]
    /\ verdict'[i] = verdict[i] /\ issues'[i] = issues[i]
    /\ at'[i] = at[i] /\ values'[i] = values[i] /\ delta'[i] = delta[i]
    /\ saved'[i] = saved[i] /\ tx'[i].verdict = tx[i].verdict
    /\ tx'[i].hotel = tx[i].hotel /\ tx'[i].attribute = tx[i].attribute

\* What a transaction tells are its verdicts and issues.
LEMMA SameTold ==
    ASSUME NEW j, NEW m, NEW t, NEW u, u.verdict = t.verdict, u.hotel = t.hotel,
           u.attribute = t.attribute, InBooks(j, m, t)
    PROVE  InBooks(j, m, u)
  BY DEF InBooks, Seen

\* It keeps its accounts.
LEMMA AccountsOn ==
    ASSUME NEW i \in Jobs, Accounts(i), file' = file, Alone(i)
    PROVE  Accounts(i)'
<1>1. InBooks(i, job[i], NoTx) /\ Closed(i)
  BY DEF Accounts
<1>2. InBooks(i, job[i], NoTx)'
  BY <1>1, SameBooks DEF Alone
<1>3. Closed(i)'
  BY <1>1 DEF Alone, Closed, Lines, Readable
<1>4. (pc[i] \in InLoop => row[i].completed = job[i].completed)'
  BY DEF Accounts, Alone
<1>5. (pc[i] = "lines" => InBooks(i, row[i], tx[i]))'
  <2>1. SUFFICES ASSUME pc[i] = "lines" PROVE InBooks(i, row[i], tx[i])'
    BY DEF Alone
  <2>2. InBooks(i, row[i], tx[i])
    BY <2>1 DEF Accounts
  <2>3. InBooks(i, row[i], tx'[i])
    BY <2>2, SameTold DEF Alone
  <2>4. PICK t, r : t = tx'[i] /\ r = row[i]
    OBVIOUS
  <2>5. InBooks(i, r, t)'
    BY <2>3, <2>4, SameBooks DEF Alone
  <2>6. QED
    BY <2>4, <2>5 DEF Alone
<1>6. (pc[i] \in InHotel => InBooks(i, row[i], saved[i]) /\ AtWork(i))'
  <2>1. SUFFICES ASSUME pc[i] \in InHotel PROVE InBooks(i, row[i], saved[i])' /\ AtWork(i)'
    BY DEF Alone, InHotel
  <2>2. InBooks(i, row[i], saved[i]) /\ AtWork(i)
    BY <2>1 DEF Accounts
  <2>3. InBooks(i, row[i], saved[i])'
    BY <2>2, SameBooks DEF Alone
  <2>4. NextUnread(i, at[i].line)'
    BY <2>2 DEF Alone, AtWork, NextUnread, Unread, Lines
  <2>5. Reads(i)'
    BY <2>2 DEF Alone, AtWork, Reads
  <2>6. QED
    BY <2>2, <2>3, <2>4, <2>5 DEF Alone, AtWork, EntryAt
<1>7. QED
  BY <1>2, <1>3, <1>4, <1>5, <1>6 DEF Accounts

\* A run outside the line loop needs no more than the books that are committed.
LEMMA OutsideBooks ==
    ASSUME NEW i \in Jobs, Accounts(i), file' = file, pc'[i] \notin InLoop,
           verdict'[i] = verdict[i], issues'[i] = issues[i], job'[i].n = job[i].n,
           job'[i].line = job[i].line, job'[i].completed = job[i].completed
    PROVE  Accounts(i)'
<1>1. InBooks(i, job[i], NoTx) /\ Closed(i)
  BY DEF Accounts
<1>2. InBooks(i, job[i], NoTx)'
  BY <1>1, SameBooks
<1>3. Closed(i)'
  BY <1>1 DEF Closed, Lines, Readable
<1>4. pc'[i] # "lines" /\ pc'[i] \notin InHotel
  BY DEF InLoop
<1>5. QED
  BY <1>2, <1>3, <1>4 DEF Accounts

\* The row of a run that decides a line.
LEMMA ForwardTyped ==
    ASSUME Typed, NEW j \in Jobs, NEW l \in Lines(j), NEW d \in [Counters -> Nat]
    PROVE  LET r == Forward(row[j], l, d)
           IN  /\ r \in JobRow /\ r.line = l /\ r.completed = row[j].completed
               /\ r.n = Plus(row[j].n, d) /\ l \in Nat
<1>1. l \in Nat
  BY LineTyped
<1>2. row[j] \in JobRow
  BY DEF Typed, Memories
<1>3. Plus(row[j].n, d) \in [Counters -> Nat]
  BY <1>2, PlusCounters DEF JobRow
<1>4. QED
  BY <1>1, <1>2, <1>3 DEF JobRow, Forward

\* A transaction that has what b had and issues of its line more.
Keeps(t, b, h, a) ==
    t.verdict = b.verdict /\ t.hotel = b.hotel + h /\ t.attribute = b.attribute + a

\* A decided line (_read_lines) leaves every job with its accounts, committed or not.
LEMMA DecideLineBooks ==
    ASSUME Typed, \A i \in Jobs : Accounts(i), NEW j \in Jobs, pc[j] \in InLoop,
           NEW b \in Tx, DOMAIN b.verdict \subseteq Lines(j), InBooks(j, row[j], b),
           NEW l \in Lines(j), Follows(j, row[j].line, l),
           NEW t \in Tx, NEW v \in Verdicts, v # "open", NEW d \in [Counters -> Nat],
           NEW h, NEW a, Keeps(t, b, h, a), OneLine(j, l, d, v, h, a),
           DecideLine(j, l, t, d, v)
    PROVE  \A i \in Jobs : Accounts(i)'
<1> DEFINE u == [t EXCEPT !.verdict = Over(@, [x \in {l} |-> v])]
           r == Forward(row[j], l, d)
<1>1. /\ r \in JobRow /\ r.line = l /\ r.completed = row[j].completed
      /\ l \in Nat /\ row[j] \in JobRow
  BY ForwardTyped DEF Typed, Memories
<1>2. u \in Tx /\ DOMAIN u.verdict \subseteq Lines(j) /\ Adds(u, b, l, v, h, a)
  <2>1. /\ u \in Tx /\ DOMAIN u.verdict = DOMAIN t.verdict \cup {l}
        /\ u.verdict = Over(t.verdict, [x \in {l} |-> v])
    BY <1>1, DecidedTx, ZenonT(60)
  <2>2. u.hotel = t.hotel /\ u.attribute = t.attribute
    OBVIOUS
  <2> HIDE DEF u
  <2>3. Adds(u, b, l, v, h, a)
    BY <2>1, <2>2 DEF Adds, Keeps
  <2>4. DOMAIN u.verdict \subseteq Lines(j)
    BY <2>1 DEF Keeps
  <2>5. QED
    BY <2>1, <2>3, <2>4
<1>3. /\ row' = [row EXCEPT ![j] = r] /\ pc' = [pc EXCEPT ![j] = "lines"]
      /\ delta' = [delta EXCEPT ![j] = Zero]
      /\ at' = [at EXCEPT ![j] = [line |-> 0, entry |-> 0]]
      /\ values' = [values EXCEPT ![j] = <<>>] /\ saved' = [saved EXCEPT ![j] = NoTx]
      /\ file' = file
      /\ \/ Commit(j, u, r)
         \/ tx' = [tx EXCEPT ![j] = u] /\ UNCHANGED storeVars
  BY DEF DecideLine, Forward
<1> HIDE DEF u, r
<1>4. InBooks(j, r, u)
  <2>1. InBooks(j, Forward(row[j], l, d), u)
    BY <1>1, <1>2, LineBooks
  <2>2. QED
    BY <2>1 DEF r
<1>5. /\ row \in [Jobs -> JobRow] /\ job \in [Jobs -> JobRow] /\ tx \in [Tasks -> Tx]
      /\ pc \in [Tasks -> Steps] /\ j \in Tasks
      /\ at \in [Jobs -> [line: Nat, entry: Nat]] /\ saved \in [Jobs -> Tx]
      /\ delta \in [Jobs -> [Counters -> Nat]] /\ values \in [Jobs -> Seq(Value)]
  BY DEF Typed, Memories, Stores, Normalizations, Tasks
<1>6. row'[j] = r /\ pc'[j] = "lines" /\ pc'[j] \notin InHotel
  BY <1>3, <1>5 DEF InHotel
<1>7. /\ Closed(j) /\ row[j].completed = job[j].completed /\ InBooks(j, job[j], NoTx)
      /\ job[j].line <= r.line /\ job[j].line \in Nat
  BY <1>4, <1>5 DEF Accounts, InBooks, JobRow
<1>8. ASSUME NEW i \in Jobs, i # j, job'[i] = job[i], tx'[i] = tx[i],
             verdict'[i] = verdict[i], issues'[i] = issues[i]
      PROVE  Accounts(i)'
  <2>1. Alone(i)
    BY <1>3, <1>5, <1>8 DEF Alone, Tasks
  <2>2. QED
    BY <1>3, <2>1, AccountsOn
<1>9. CASE Commit(j, u, r)
  <2>1. /\ job'[j] = r /\ tx'[j] = NoTx /\ InBooks(j, job[j], NoTx)'
        /\ \A i \in Jobs : i # j => /\ job'[i] = job[i] /\ tx'[i] = tx[i]
                                    /\ verdict'[i] = verdict[i] /\ issues'[i] = issues[i]
    BY <1>1, <1>2, <1>3, <1>4, <1>9, CommitBooks
  <2>2. Closed(j)'
    <3>1. \A x \in Lines(j) : x \in Nat
      BY LineTyped
    <3>2. r.line \in Nat
      BY <1>1
    <3>3. QED
      BY <1>1, <1>3, <1>7, <2>1, <3>1, <3>2 DEF Closed, Lines, Readable
  <2>3. InBooks(j, row[j], tx[j])'
    BY <1>6, <2>1
  <2>4. Accounts(j)'
    BY <1>6, <2>1, <2>2, <2>3 DEF Accounts
  <2>5. QED
    BY <1>8, <2>1, <2>4
<1>10. CASE tx' = [tx EXCEPT ![j] = u] /\ UNCHANGED storeVars
  <2>1. /\ tx'[j] = u /\ \A i \in Tasks : i # j => tx'[i] = tx[i]
        /\ job' = job /\ verdict' = verdict /\ issues' = issues
    BY <1>5, <1>10 DEF storeVars
  <2>2. InBooks(j, job[j], NoTx)'
    BY <1>3, <1>7, <2>1, SameBooks
  <2>3. InBooks(j, row[j], tx[j])'
    <3>1. PICK m, w : m = r /\ w = u
      OBVIOUS
    <3>2. InBooks(j, m, w)
      BY <1>4, <3>1
    <3>3. InBooks(j, m, w)'
      BY <1>3, <2>1, <3>2, SameBooks
    <3>4. QED
      BY <1>6, <2>1, <3>1, <3>3
  <2>4. Closed(j)'
    BY <1>3, <1>7, <2>1 DEF Closed, Lines, Readable
  <2>5. Accounts(j)'
    BY <1>1, <1>6, <1>7, <2>1, <2>2, <2>3, <2>4 DEF Accounts
  <2>6. QED
    BY <1>8, <2>1, <2>5 DEF Tasks
<1>11. QED
  BY <1>3, <1>9, <1>10

-----------------------------------------------------------------------------
(* Lines that fail                                                         *)

\* The next unread line is the next one that is not blank.
LEMMA UnreadFollows ==
    ASSUME Typed, NEW j \in Jobs, NEW l, NextUnread(j, l)
    PROVE  l \in Lines(j) /\ Follows(j, row[j].line, l)
<1>1. l \in Lines(j) /\ l > row[j].line /\ Readable(j, l)
  BY DEF NextUnread, Unread, Readable
<1>2. \A k \in Lines(j) : k \in Nat
  BY LineTyped
<1>3. row[j].line \in Nat
  BY DEF Typed, Memories, JobRow
<1>4. ASSUME NEW k \in Lines(j), row[j].line < k, k < l, Readable(j, k) PROVE FALSE
  <2>1. k \in Unread(j)
    BY <1>2, <1>3, <1>4 DEF Unread, Readable
  <2>2. l <= k
    BY <2>1 DEF NextUnread
  <2>3. QED
    BY <1>1, <1>2, <1>4, <2>2
<1>5. QED
  BY <1>1, <1>4 DEF Follows

\* What the counters of a failed line tell: it was read, and failed.
LEMMA FailedLine ==
    ASSUME NEW j, NEW l
    PROVE  LET d == [Zero EXCEPT !.read = 1, !.failed = 1]
           IN  d \in [Counters -> Nat] /\ OneLine(j, l, d, "failed", 1, 0)
<1> DEFINE d == [Zero EXCEPT !.read = 1, !.failed = 1]
<1>1. d = [c \in Counters |-> IF c \in {"read", "failed"} THEN 1 ELSE 0]
  BY DEF Zero, Counters
<1> HIDE DEF d
<1>2. /\ d["read"] = 1 /\ d["failed"] = 1 /\ d["matched"] = 0 /\ d["seen"] = 0 /\ d["zero"] = 0
      /\ d["processed"] = 0 /\ d["applied"] = 0 /\ d["passed"] = 0 /\ d["flawed"] = 0
      /\ d \in [Counters -> Nat]
  BY <1>1 DEF Counters
<1>3. "failed" \notin Done /\ "failed" # "flawed"
  BY DEF Done
<1>4. QED
  BY <1>2, <1>3 DEF OneLine, d

\* A line that fails (run, begin_nested) leaves every job with its accounts.
LEMMA FailBooks ==
    ASSUME Typed, \A i \in Jobs : Accounts(i), NEW j \in Jobs, NEW l, NextUnread(j, l),
           \/ FailLine(j, l, saved[j]) /\ pc[j] \in InHotel
           \/ FailLine(j, l, tx[j]) /\ pc[j] = "lines"
    PROVE  \A i \in Jobs : Accounts(i)'
<1> DEFINE d == [Zero EXCEPT !.read = 1, !.failed = 1]
<1>1. d \in [Counters -> Nat] /\ OneLine(j, l, d, "failed", 1, 0)
  BY FailedLine
<1> HIDE DEF d
<1>2. l \in Lines(j) /\ Follows(j, row[j].line, l)
  BY UnreadFollows
<1>3. pc[j] \in InLoop /\ "failed" \in Verdicts /\ "failed" # "open"
  BY DEF InLoop, Verdicts
<1>4. PICK b \in Tx : /\ FailLine(j, l, b) /\ InBooks(j, row[j], b)
                      /\ DOMAIN b.verdict \subseteq Lines(j)
  BY DEF Accounts, Typed, Memories, InFile, Tasks
<1> DEFINE t == [b EXCEPT !.hotel = @ + 1]
<1>5. t \in Tx /\ t.verdict = b.verdict /\ t.hotel = b.hotel + 1 /\ t.attribute = b.attribute + 0
  BY DEF Tx
<1>6. DecideLine(j, l, t, d, "failed")
  BY <1>4 DEF FailLine, d
<1> HIDE DEF t
<1>7. Keeps(t, b, 1, 0)
  BY <1>5 DEF Keeps
<1>8. QED
  BY <1>1, <1>2, <1>3, <1>4, <1>5, <1>6, <1>7, DecideLineBooks

-----------------------------------------------------------------------------
(* Steps within a hotel                                                    *)

\* A run in a hotel keeps its accounts by keeping those of the line.
LEMMA HotelStepBooks ==
    ASSUME Typed, \A i \in Jobs : Accounts(i), NEW j \in Jobs, pc[j] \in InLoop, HotelStep(j),
           \A i \in Jobs : i # j => delta'[i] = delta[i],
           InBooks(j, row[j], saved'[j]), AtWork(j)'
    PROVE  \A i \in Jobs : Accounts(i)'
<1>1. /\ file' = file /\ row' = row /\ job' = job /\ verdict' = verdict /\ issues' = issues
      /\ pc'[j] \in InHotel
      /\ \A i \in Jobs : i # j => Alone(i)
  BY DEF HotelStep, storeVars, Alone, Tasks
<1>2. Closed(j)' /\ row[j].completed = job[j].completed /\ InBooks(j, job[j], NoTx)
  BY <1>1 DEF Accounts, Closed, Lines, Readable
<1>3. InBooks(j, job[j], NoTx)'
  BY <1>1, <1>2, SameBooks
<1>4. InBooks(j, row[j], saved[j])'
  BY <1>1, SameBooks
<1>5. pc'[j] # "lines"
  BY <1>1 DEF InHotel
<1>6. Accounts(j)'
  BY <1>1, <1>2, <1>3, <1>4, <1>5 DEF Accounts
<1>7. QED
  BY <1>1, <1>6, AccountsOn

\* The line a run reads next is still that when only its memory of the line changed.
LEMMA NextUnreadOn ==
    ASSUME NEW j \in Jobs, file' = file, row' = row, NEW l, NextUnread(j, l)
    PROVE  NextUnread(j, l)'
  BY DEF NextUnread, Unread, Lines

\* A run that opens a line (_read_lines, run) has told nothing of its entries.
LEMMA NextLineBooks ==
    ASSUME Sound, \A i \in Jobs : Accounts(i), NEW j \in Jobs, NextLine(j)
    PROVE  \A i \in Jobs : Accounts(i)'
<1>1. Typed /\ AtRest(j)
  BY DEF Sound
<1>2. PICK l \in Unread(j) :
        /\ pc[j] = "lines" /\ \A m \in Unread(j) : l <= m
        /\ \/ /\ pc' = [pc EXCEPT ![j] = "entries"]
              /\ at' = [at EXCEPT ![j] = [line |-> l, entry |-> 1]]
              /\ delta' = [delta EXCEPT ![j] = [Zero EXCEPT !.read = 1, !.matched = 1]]
              /\ saved' = [saved EXCEPT ![j] = tx[j]]
              /\ UNCHANGED <<file, storeVars, row, chosen, values, existing, queue, tx,
                             rankVars>>
           \/ FailLine(j, l, tx[j])
  BY DEF NextLine
<1>3. NextUnread(j, l)
  BY <1>2 DEF NextUnread
<1>4. CASE FailLine(j, l, tx[j])
  BY <1>1, <1>2, <1>3, <1>4, FailBooks
<1>5. CASE ~FailLine(j, l, tx[j])
  <2>1. /\ pc' = [pc EXCEPT ![j] = "entries"]
        /\ at' = [at EXCEPT ![j] = [line |-> l, entry |-> 1]]
        /\ delta' = [delta EXCEPT ![j] = [Zero EXCEPT !.read = 1, !.matched = 1]]
        /\ saved' = [saved EXCEPT ![j] = tx[j]]
        /\ UNCHANGED <<file, storeVars, row, chosen, values, existing, queue, tx, rankVars,
                       failures>>
    BY <1>2, <1>5 DEF NextLine
  <2>2. /\ pc \in [Tasks -> Steps] /\ j \in Tasks /\ failures \in Nat
        /\ at \in [Jobs -> [line: Nat, entry: Nat]] /\ saved \in [Jobs -> Tx]
        /\ delta \in [Jobs -> [Counters -> Nat]] /\ tx[j] \in Tx
    BY <1>1 DEF Typed, Memories, Normalizations, Tasks
  <2>3. HotelStep(j) /\ \A i \in Jobs : i # j => delta'[i] = delta[i]
    BY <2>1, <2>2 DEF HotelStep, Steps, InHotel, Tasks
  <2>4. /\ pc'[j] = "entries" /\ at'[j].line = l /\ at'[j].entry = 1
        /\ saved'[j] = tx[j] /\ tx'[j] = tx[j] /\ values'[j] = values[j]
        /\ delta'[j] = [Zero EXCEPT !.read = 1, !.matched = 1]
    BY <2>1, <2>2
  <2>5. InBooks(j, row[j], saved'[j])
    BY <1>2, <2>4 DEF Accounts
  <2>6. Len(values'[j]) = 0
    <3>1. values[j] = <<>>
      BY <1>1, <1>2 DEF AtRest, InHotel
    <3>2. QED
      BY <2>4, <3>1
  <2>7. Reads(j)'
    <3> DEFINE es == file[j][l].entries
               d == delta'[j]
    <3>1. /\ d["read"] = 1 /\ d["matched"] = 1 /\ d["failed"] = 0 /\ d["applied"] = 0
          /\ d["passed"] = 0 /\ d["processed"] = 0 /\ d["seen"] = 0 /\ d["zero"] = 0
      BY <2>4 DEF Zero, Counters
    <3>2. Len(es) \in Nat
      BY <1>1, <1>2, LineTyped DEF Unread
    <3>3. \A kinds : Among(es, 0, kinds) = 0
      BY AmongNext
    <3>4. tx[j].attribute \in Nat
      BY <2>2 DEF Tx
    <3> HIDE DEF es, d
    <3>5. /\ 0 <= Len(es) /\ d["seen"] = Among(es, 0, {"good", "zero", "malformed"})
          /\ d["zero"] = Among(es, 0, {"zero"})
          /\ d["seen"] + Among(es, 0, {"category"}) + tx[j].attribute
                = Len(values'[j]) + d["zero"] + tx[j].attribute
      BY <2>6, <3>1, <3>2, <3>3, <3>4
    <3>6. at'[j].entry - 1 = 0 /\ file'[j][at'[j].line].entries = es
      BY <2>1, <2>4 DEF es
    <3>7. QED
      BY <2>4, <3>1, <3>5, <3>6 DEF Reads, d
  <2>8. AtWork(j)'
    <3>1. NextUnread(j, at[j].line)'
      BY <1>3, <2>1, <2>4, NextUnreadOn
    <3>2. tx[j].attribute <= tx[j].attribute
      BY <2>2 DEF Tx
    <3>3. QED
      BY <2>4, <2>7, <3>1, <3>2 DEF AtWork
  <2>9. pc[j] \in InLoop
    BY <1>2 DEF InLoop
  <2>10. QED
    BY <1>1, <2>3, <2>5, <2>8, <2>9, HotelStepBooks
<1>6. QED
  BY <1>4, <1>5

\* The run is past its entry, and the counters tell an entry of this kind more.
PastEntry(j, kind) ==
    /\ file' = file /\ saved'[j] = saved[j] /\ pc'[j] = "entries"
    /\ at'[j].line = at[j].line /\ at'[j].entry = at[j].entry + 1
    /\ delta'[j]["seen"] = delta[j]["seen"] + IF kind = "category" THEN 0 ELSE 1
    /\ delta'[j]["zero"] = delta[j]["zero"] + IF kind = "zero" THEN 1 ELSE 0
    /\ \A c \in {"read", "matched", "failed", "applied", "passed", "processed"} :
          delta'[j][c] = delta[j][c]
    /\ Len(values'[j]) + tx'[j].attribute
          = Len(values[j]) + tx[j].attribute + IF kind = "zero" THEN 0 ELSE 1

\* Then they tell the entries read so far.
LEMMA PastEntryReads ==
    ASSUME Typed, Typed', NEW j \in Jobs, pc[j] \in {"entries", "creating"}, Reads(j),
           at[j].entry <= Len(file[j][at[j].line].entries), PastEntry(j, EntryAt(j).kind)
    PROVE  Reads(j)'
<1> DEFINE es == file[j][at[j].line].entries
           n == at[j].entry - 1
           kind == EntryAt(j).kind
           gsm == {"good", "zero", "malformed"}
           d == delta[j]
           e == delta'[j]
<1>1. /\ pc[j] \in InHotel /\ pc[j] # "propagating"
  BY DEF InHotel
<1>2. /\ at[j].entry \in Nat /\ at[j].entry >= 1 /\ Len(es) \in Nat
      /\ kind \in {"good", "zero", "malformed", "category"}
  <2>1. at[j].line \in Lines(j) /\ at[j].entry >= 1
    BY <1>1 DEF Typed, AtHotel
  <2>2. Len(es) \in Nat
    BY <2>1, LineTyped
  <2>3. QED
    BY <1>1, <2>1, <2>2, EntryTyped
<1>3. n \in Nat /\ n + 1 = at[j].entry /\ n + 1 <= Len(es) /\ es[n + 1].kind = kind
  <2>1. n \in Nat /\ n + 1 = at[j].entry /\ n + 1 <= Len(es)
    BY <1>2
  <2>2. es[at[j].entry].kind = kind
    BY DEF EntryAt
  <2>3. QED
    BY <2>1, <2>2
<1>4. /\ d["read"] = 1 /\ d["matched"] = 1 /\ d["failed"] = 0
      /\ d["applied"] = 0 /\ d["passed"] = 0 /\ d["processed"] = 0
      /\ d["seen"] = Among(es, n, gsm) /\ d["zero"] = Among(es, n, {"zero"})
      /\ d["seen"] + Among(es, n, {"category"}) + saved[j].attribute
            = Len(values[j]) + d["zero"] + tx[j].attribute
  BY <1>1 DEF Reads
<1>5. /\ e["read"] = 1 /\ e["matched"] = 1 /\ e["failed"] = 0
      /\ e["applied"] = 0 /\ e["passed"] = 0 /\ e["processed"] = 0
      /\ e["seen"] = d["seen"] + IF kind = "category" THEN 0 ELSE 1
      /\ e["zero"] = d["zero"] + IF kind = "zero" THEN 1 ELSE 0
      /\ Len(values'[j]) + tx'[j].attribute
            = Len(values[j]) + tx[j].attribute + IF kind = "zero" THEN 0 ELSE 1
      /\ file'[j][at'[j].line].entries = es /\ at'[j].entry - 1 = n + 1
      /\ saved'[j] = saved[j] /\ pc'[j] # "propagating"
  BY <1>2, <1>4 DEF PastEntry
<1>6. /\ Len(values[j]) \in Nat /\ Len(values'[j]) \in Nat
      /\ tx[j].attribute \in Nat /\ tx'[j].attribute \in Nat /\ saved[j].attribute \in Nat
  <2>1. values[j] \in Seq(Value) /\ tx[j] \in Tx /\ saved[j] \in Tx
    BY DEF Typed, Memories, Tasks
  <2>2. values'[j] \in Seq(Value) /\ tx'[j] \in Tx
    BY DEF Typed, Memories, Tasks
  <2>3. QED
    BY <2>1, <2>2, LenProperties DEF Tx
<1>7. \A kinds : /\ Among(es, n, kinds) \in Nat
                 /\ kind \in kinds => Among(es, n + 1, kinds) = Among(es, n, kinds) + 1
                 /\ kind \notin kinds => Among(es, n + 1, kinds) = Among(es, n, kinds)
  <2> HIDE DEF es, n, kind
  <2>1. ASSUME NEW kinds
        PROVE  /\ Among(es, n, kinds) \in Nat
               /\ kind \in kinds => Among(es, n + 1, kinds) = Among(es, n, kinds) + 1
               /\ kind \notin kinds => Among(es, n + 1, kinds) = Among(es, n, kinds)
    BY <1>3, AmongNext
  <2>2. QED
    BY <2>1
<1> HIDE DEF es, n, kind, d, e
<1>8. /\ e["seen"] = Among(es, n + 1, gsm) /\ e["zero"] = Among(es, n + 1, {"zero"})
      /\ e["seen"] \in Nat /\ e["zero"] \in Nat
  <2>1. e["seen"] = Among(es, n + 1, gsm) /\ e["seen"] \in Nat
    <3>1. Among(es, n, gsm) \in Nat /\ d["seen"] = Among(es, n, gsm)
      BY <1>4, <1>7
    <3>2. CASE kind = "category"
      BY <1>5, <1>7, <3>1, <3>2
    <3>3. CASE kind # "category"
      BY <1>2, <1>5, <1>7, <3>1, <3>3
    <3>4. QED
      BY <3>2, <3>3
  <2>2. e["zero"] = Among(es, n + 1, {"zero"}) /\ e["zero"] \in Nat
    <3>1. Among(es, n, {"zero"}) \in Nat /\ d["zero"] = Among(es, n, {"zero"})
      BY <1>4, <1>7
    <3>2. QED
      BY <1>5, <1>7, <3>1
  <2>3. QED
    BY <2>1, <2>2
<1>9. e["seen"] + Among(es, n + 1, {"category"}) + saved[j].attribute
         = Len(values'[j]) + e["zero"] + tx'[j].attribute
  <2>1. /\ Among(es, n + 1, {"category"})
              = Among(es, n, {"category"}) + (IF kind = "category" THEN 1 ELSE 0)
        /\ Among(es, n, {"category"}) \in Nat /\ d["seen"] \in Nat /\ d["zero"] \in Nat
    BY <1>4, <1>7
  <2> DEFINE c0 == Among(es, n, {"category"})
             c1 == Among(es, n + 1, {"category"})
             length == Len(values[j])
             after == Len(values'[j])
             before == saved[j].attribute
             attribute == tx[j].attribute
             attributes == tx'[j].attribute
             s0 == d["seen"]
             s1 == e["seen"]
             z0 == d["zero"]
             z1 == e["zero"]
             cat == IF kind = "category" THEN 1 ELSE 0
             zero == IF kind = "zero" THEN 1 ELSE 0
  <2>2. c1 = c0 + cat /\ c0 \in Nat /\ c1 \in Nat
    BY <2>1
  <2>3. s1 = s0 + (1 - cat) /\ z1 = z0 + zero /\ s0 \in Nat /\ z0 \in Nat
    BY <1>5, <2>1
  <2>4. after + attributes = length + attribute + (1 - zero)
    BY <1>5
  <2>5. s0 + c0 + before = length + z0 + attribute
    BY <1>4
  <2>6. /\ before \in Nat /\ attribute \in Nat /\ attributes \in Nat
        /\ length \in Nat /\ after \in Nat
    BY <1>6
  <2>7. cat \in {0, 1} /\ zero \in {0, 1}
    OBVIOUS
  <2> HIDE DEF c0, c1, length, after, before, attribute, attributes, s0, s1, z0, z1, cat, zero
  <2>8. s1 + c1 = s0 + c0 + 1
    BY <2>2, <2>3, <2>7
  <2>9. after + z1 + attributes = length + z0 + attribute + 1
    BY <2>3, <2>4, <2>6, <2>7
  <2>10. s1 \in Nat /\ z1 \in Nat /\ s0 \in Nat /\ c0 \in Nat /\ c1 \in Nat
    BY <2>2, <2>3, <2>7
  <2>11. s1 + c1 + before = s0 + c0 + before + 1
    BY <2>6, <2>8, <2>10
  <2>12. s1 + c1 + before = after + z1 + attributes
    BY <2>5, <2>9, <2>11
  <2>13. QED
    BY <2>12 DEF c1, after, before, attributes, s1, z1
<1>10. QED
  BY <1>3, <1>5, <1>8, <1>9 DEF Reads, e

\* An entry that was resolved is a good one.
LEMMA GoodEntry ==
    ASSUME Typed, NEW j \in Jobs, pc[j] \in InHotel,
           at[j].entry <= Len(file[j][at[j].line].entries)
    PROVE  /\ Fate(j) \in {"new", "direct", "alias", "duplicate", "ambiguous"}
                 => EntryAt(j).kind = "good"
           /\ Fate(j) \notin {"new", "direct", "alias", "duplicate", "ambiguous"}
                 => Fate(j) = EntryAt(j).kind /\ EntryAt(j).kind # "good"
<1>1. EntryAt(j).kind \in {"good", "zero", "malformed", "category"}
  BY EntryTyped
<1>2. CASE EntryAt(j).kind # "good"
  <2>1. Fate(j) = EntryAt(j).kind
    BY <1>2 DEF Fate
  <2>2. QED
    BY <1>1, <1>2, <2>1
<1>3. CASE EntryAt(j).kind = "good"
  <2>1. Fate(j) \in {"new", "direct", "alias", "duplicate", "ambiguous"}
    BY <1>3 DEF Fate
  <2>2. QED
    BY <1>3, <2>1
<1>4. QED
  BY <1>2, <1>3

\* What a resolved entry tells (_resolve_attribute).
LEMMA ResolveTold ==
    ASSUME Typed, NEW j \in Jobs, NEW a \in Keys, NEW created \in Nat,
           EntryAt(j).score \in Scores, Resolve(j, a, created)
    PROVE  /\ Len(values'[j]) = Len(values[j]) + 1
           /\ delta'[j]["seen"] = delta[j]["seen"] + 1
           /\ \A c \in Counters \ {"seen", "created"} : delta'[j][c] = delta[j][c]
           /\ \A i \in Jobs : i # j => delta'[i] = delta[i]
<1> DEFINE new == [attr |-> a, score |-> EntryAt(j).score]
<1>1. /\ values[j] \in Seq(Value) /\ values \in [Jobs -> Seq(Value)] /\ new \in Value
      /\ delta \in [Jobs -> [Counters -> Nat]] /\ "seen" \in Counters /\ "created" \in Counters
  BY DEF Typed, Memories, Value, Counters
<1>2. values' = [values EXCEPT ![j] = Append(@, new)]
  BY DEF Resolve
<1> HIDE DEF new
<1>3. values'[j] = Append(values[j], new)
  BY <1>1, <1>2
<1>4. Len(values'[j]) = Len(values[j]) + 1
  BY <1>1, <1>3, AppendProperties
<1> DEFINE seen == delta[j]["seen"] + 1
           more == delta[j]["created"] + created
<1>5. delta' = [delta EXCEPT ![j] = [@ EXCEPT !["seen"] = seen, !["created"] = more]]
  BY <1>1 DEF Resolve
<1> HIDE DEF more
<1>6. QED
  BY <1>1, <1>4, <1>5

\* What an entry tells that is not stored.
LEMMA SkipTold ==
    ASSUME Typed, NEW j \in Jobs, NEW fate, Skip(j, fate)
    PROVE  /\ delta'[j]["seen"] = delta[j]["seen"] + IF fate = "category" THEN 0 ELSE 1
           /\ delta'[j]["zero"] = delta[j]["zero"] + IF fate = "zero" THEN 1 ELSE 0
           /\ \A c \in Counters \ {"seen", "zero", "flawed"} : delta'[j][c] = delta[j][c]
           /\ \A i \in Jobs : i # j => delta'[i] = delta[i]
           /\ tx'[j].attribute = tx[j].attribute + IF fate = "zero" THEN 0 ELSE 1
           /\ tx'[j].hotel = tx[j].hotel /\ tx'[j].attribute \in Nat /\ tx[j].attribute \in Nat
<1>1. /\ delta \in [Jobs -> [Counters -> Nat]] /\ tx \in [Tasks -> Tx]
      /\ "seen" \in Counters /\ "zero" \in Counters /\ "flawed" \in Counters
  BY DEF Typed, Memories, Counters
<1> DEFINE seen == IF fate = "category" THEN delta[j]["seen"] ELSE delta[j]["seen"] + 1
           zero == IF fate = "zero" THEN delta[j]["zero"] + 1 ELSE delta[j]["zero"]
           flawed == IF fate \in {"category", "malformed", "ambiguous"} THEN delta[j]["flawed"] + 1
                     ELSE delta[j]["flawed"]
           n == IF fate = "zero" THEN tx[j].attribute ELSE tx[j].attribute + 1
<1>2. delta' = [delta EXCEPT ![j] = [@ EXCEPT !["seen"] = seen, !["zero"] = zero,
                                              !["flawed"] = flawed]]
  BY <1>1 DEF Skip
<1>3. tx' = [tx EXCEPT ![j] = [@ EXCEPT !.attribute = n]]
  BY <1>1 DEF Skip
<1>4. delta[j]["seen"] \in Nat /\ delta[j]["zero"] \in Nat /\ tx[j].attribute \in Nat
  BY <1>1 DEF Tx, Tasks
<1>5. /\ seen = delta[j]["seen"] + IF fate = "category" THEN 0 ELSE 1
      /\ zero = delta[j]["zero"] + IF fate = "zero" THEN 1 ELSE 0
      /\ n = tx[j].attribute + IF fate = "zero" THEN 0 ELSE 1
      /\ n \in Nat
  BY <1>4
<1> HIDE DEF seen, zero, flawed, n
<1>6. /\ delta'[j]["seen"] = seen /\ delta'[j]["zero"] = zero
      /\ \A c \in Counters \ {"seen", "zero", "flawed"} : delta'[j][c] = delta[j][c]
      /\ \A i \in Jobs : i # j => delta'[i] = delta[i]
  BY <1>1, <1>2
<1>7. tx'[j].attribute = n /\ tx'[j].hotel = tx[j].hotel
  BY <1>1, <1>3 DEF Tx, Tasks
<1>8. QED
  BY <1>4, <1>5, <1>6, <1>7

\* A run that has read an entry keeps its accounts.
LEMMA PastEntryBooks ==
    ASSUME Typed, Typed', \A i \in Jobs : Accounts(i), NEW j \in Jobs,
           pc[j] \in {"entries", "creating"}, HotelStep(j),
           at[j].entry <= Len(file[j][at[j].line].entries), PastEntry(j, EntryAt(j).kind),
           \A i \in Jobs : i # j => delta'[i] = delta[i],
           tx'[j].verdict = tx[j].verdict, tx'[j].hotel = tx[j].hotel,
           tx[j].attribute <= tx'[j].attribute
    PROVE  \A i \in Jobs : Accounts(i)'
<1>1. pc[j] \in InLoop /\ pc[j] \in InHotel
  BY DEF InLoop, InHotel
<1>2. InBooks(j, row[j], saved[j]) /\ AtWork(j)
  BY <1>1 DEF Accounts
<1>3. /\ file' = file /\ row' = row /\ saved'[j] = saved[j] /\ pc'[j] = "entries"
      /\ at'[j].line = at[j].line
  BY DEF HotelStep, PastEntry
<1>4. Reads(j)'
  BY <1>2, PastEntryReads DEF AtWork
<1>5. NextUnread(j, at[j].line)'
  BY <1>2, <1>3, NextUnreadOn DEF AtWork
<1>6. saved[j].attribute \in Nat /\ tx[j].attribute \in Nat /\ tx'[j].attribute \in Nat
  <2>1. tx[j] \in Tx /\ saved[j] \in Tx /\ tx'[j] \in Tx
    BY DEF Typed, Memories, Tasks
  <2>2. QED
    BY <2>1 DEF Tx
<1>7. AtWork(j)'
  BY <1>2, <1>3, <1>4, <1>5, <1>6 DEF AtWork
<1>8. InBooks(j, row[j], saved'[j])
  BY <1>2, <1>3
<1>9. QED
  BY <1>1, <1>7, <1>8, HotelStepBooks

\* Advancing to the next entry.
LEMMA NextEntryOn ==
    ASSUME Typed, NEW j \in Jobs, NextEntry(j)
    PROVE  at'[j].line = at[j].line /\ at'[j].entry = at[j].entry + 1
<1>1. at \in [Jobs -> [line: Nat, entry: Nat]]
  BY DEF Typed, Memories
<1>2. QED
  BY <1>1 DEF NextEntry

\* A resolved entry (_resolve_attribute) leaves every job with its accounts.
LEMMA ResolveBooks ==
    ASSUME Typed, Typed', \A i \in Jobs : Accounts(i), NEW j \in Jobs,
           pc[j] \in {"entries", "creating"}, HotelStep(j), saved' = saved, pc'[j] = "entries",
           at[j].entry <= Len(file[j][at[j].line].entries), EntryAt(j).kind = "good",
           NEW a \in Keys, NEW created \in Nat, Resolve(j, a, created), NextEntry(j),
           tx'[j].verdict = tx[j].verdict, tx'[j].hotel = tx[j].hotel,
           tx'[j].attribute = tx[j].attribute
    PROVE  \A i \in Jobs : Accounts(i)'
<1>1. EntryAt(j).score \in Scores
  BY EntryTyped DEF InHotel
<1>2. /\ Len(values'[j]) = Len(values[j]) + 1
      /\ delta'[j]["seen"] = delta[j]["seen"] + 1
      /\ \A c \in Counters \ {"seen", "created"} : delta'[j][c] = delta[j][c]
      /\ \A i \in Jobs : i # j => delta'[i] = delta[i]
  BY <1>1, ResolveTold
<1>3. /\ tx[j].attribute \in Nat /\ Len(values[j]) \in Nat /\ delta[j]["zero"] \in Nat
  <2>1. tx[j] \in Tx /\ values[j] \in Seq(Value) /\ delta[j] \in [Counters -> Nat]
    BY DEF Typed, Memories, Tasks
  <2>2. QED
    BY <2>1, LenProperties DEF Tx, Counters
<1>4. PastEntry(j, EntryAt(j).kind)
  <2>1. at'[j].line = at[j].line /\ at'[j].entry = at[j].entry + 1
    BY NextEntryOn
  <2>2. /\ delta'[j]["zero"] = delta[j]["zero"] + 0
        /\ \A c \in {"read", "matched", "failed", "applied", "passed", "processed"} :
              delta'[j][c] = delta[j][c]
    BY <1>2, <1>3 DEF Counters
  <2>3. Len(values'[j]) + tx'[j].attribute = Len(values[j]) + tx[j].attribute + 1
    BY <1>2, <1>3
  <2>4. file' = file
    BY DEF HotelStep
  <2>5. QED
    BY <1>2, <2>1, <2>2, <2>3, <2>4 DEF PastEntry
<1>5. tx[j].attribute <= tx'[j].attribute
  BY <1>3
<1>6. QED
  BY <1>2, <1>4, <1>5, PastEntryBooks

\* Reading an entry leaves every job with its accounts.
LEMMA ReadEntryBooks ==
    ASSUME Typed, \A i \in Jobs : Accounts(i), NEW j \in Jobs, ReadEntry(j)
    PROVE  \A i \in Jobs : Accounts(i)'
<1> DEFINE k == EntryAt(j).key
           hit == IF Fate(j) = "direct" THEN k ELSE CHOOSE a \in Matches(j, k) : TRUE
<1>1. /\ pc[j] = "entries" /\ at[j].entry <= Len(file[j][at[j].line].entries)
      /\ UNCHANGED saved
  BY DEF ReadEntry
<1>2. pc[j] \in InHotel /\ pc[j] \in InLoop
  BY <1>1 DEF InHotel, InLoop
<1>3. Typed' /\ HotelStep(j)
  BY ReadEntryStep
<1>4. /\ Fate(j) \in {"new", "direct", "alias", "duplicate", "ambiguous"}
            => EntryAt(j).kind = "good"
      /\ Fate(j) \notin {"new", "direct", "alias", "duplicate", "ambiguous"}
            => Fate(j) = EntryAt(j).kind /\ EntryAt(j).kind # "good"
  BY <1>1, <1>2, GoodEntry
<1>5. \/ /\ Fate(j) = "new" /\ pc' = [pc EXCEPT ![j] = "creating"]
         /\ UNCHANGED <<at, delta, values, tx>>
      \/ /\ Fate(j) \in {"direct", "alias"} /\ Resolve(j, hit, 0)
         /\ NextEntry(j) /\ UNCHANGED <<chosen, pc, tx>>
      \/ Skip(j, Fate(j)) /\ NextEntry(j) /\ UNCHANGED <<chosen, pc, values>>
  BY DEF ReadEntry
<1>6. k \in Keys
  BY <1>1, <1>2, EntryTyped
<1>7. Fate(j) \in {"direct", "alias"} => hit \in Keys
  <2>1. Fate(j) = "alias" => Cardinality(Matches(j, k)) = 1
    BY <1>4 DEF Fate
  <2>2. Fate(j) = "alias" => hit \in Matches(j, k)
    BY <1>6, <2>1, MatchTyped
  <2>3. Matches(j, k) \subseteq Keys
    BY <1>6, MatchTyped
  <2>4. QED
    BY <1>6, <2>2, <2>3
<1> HIDE DEF k, hit
<1>8. CASE /\ Fate(j) = "new" /\ pc' = [pc EXCEPT ![j] = "creating"]
           /\ UNCHANGED <<at, delta, values, tx>>
  <2>1. /\ file' = file /\ row' = row
    BY <1>3 DEF HotelStep
  <2>2. pc'[j] = "creating"
    <3>1. pc \in [Tasks -> Steps] /\ j \in Tasks
      BY DEF Typed, Normalizations, Tasks
    <3>2. QED
      BY <1>8, <3>1
  <2>3. InBooks(j, row[j], saved[j]) /\ AtWork(j)
    BY <1>2 DEF Accounts
  <2>4. NextUnread(j, at[j].line)'
    BY <1>8, <2>1, <2>3, NextUnreadOn DEF AtWork
  <2>5. Reads(j)'
    <3>1. Reads(j)
      BY <2>3 DEF AtWork
    <3>2. QED
      BY <1>1, <1>8, <2>1, <2>2, <3>1 DEF Reads
  <2>6. EntryAt(j).kind' = "good"
    BY <1>4, <1>8, <2>1 DEF EntryAt
  <2>7. AtWork(j)'
    BY <1>1, <1>8, <2>2, <2>3, <2>4, <2>5, <2>6 DEF AtWork
  <2>8. InBooks(j, row[j], saved'[j])
    BY <1>1, <2>3
  <2>9. QED
    BY <1>2, <1>3, <1>8, <2>7, <2>8, HotelStepBooks
<1>9. CASE /\ Fate(j) \in {"direct", "alias"} /\ Resolve(j, hit, 0)
           /\ NextEntry(j) /\ UNCHANGED <<chosen, pc, tx>>
  BY <1>1, <1>3, <1>4, <1>7, <1>9, ResolveBooks
<1>10. CASE Skip(j, Fate(j)) /\ NextEntry(j) /\ UNCHANGED <<chosen, pc, values>>
  <2> DEFINE kind == EntryAt(j).kind
             fate == Fate(j)
  <2>1. /\ delta'[j]["seen"] = delta[j]["seen"] + IF fate = "category" THEN 0 ELSE 1
        /\ delta'[j]["zero"] = delta[j]["zero"] + IF fate = "zero" THEN 1 ELSE 0
        /\ \A c \in Counters \ {"seen", "zero", "flawed"} : delta'[j][c] = delta[j][c]
        /\ \A i \in Jobs : i # j => delta'[i] = delta[i]
        /\ tx'[j].attribute = tx[j].attribute + IF fate = "zero" THEN 0 ELSE 1
        /\ tx'[j].hotel = tx[j].hotel /\ tx'[j].attribute \in Nat /\ tx[j].attribute \in Nat
    BY <1>10, SkipTold
  <2>2. (fate = "category" <=> kind = "category") /\ (fate = "zero" <=> kind = "zero")
    BY <1>4
  <2>3. tx'[j].verdict = tx[j].verdict
    BY <1>10, SkipTyped
  <2>4. at'[j].line = at[j].line /\ at'[j].entry = at[j].entry + 1
    BY <1>10, NextEntryOn
  <2>5. Len(values[j]) \in Nat /\ values' = values
    <3>1. values[j] \in Seq(Value)
      BY DEF Typed, Memories
    <3>2. QED
      BY <1>10, <3>1, LenProperties
  <2>6. file' = file /\ saved' = saved /\ pc' = pc
    BY <1>1, <1>3, <1>10 DEF HotelStep
  <2> HIDE DEF kind, fate
  <2>7. /\ delta'[j]["seen"] = delta[j]["seen"] + IF kind = "category" THEN 0 ELSE 1
        /\ delta'[j]["zero"] = delta[j]["zero"] + IF kind = "zero" THEN 1 ELSE 0
        /\ tx'[j].attribute = tx[j].attribute + IF kind = "zero" THEN 0 ELSE 1
    BY <2>1, <2>2
  <2>8. /\ Len(values'[j]) + tx'[j].attribute
              = Len(values[j]) + tx[j].attribute + IF kind = "zero" THEN 0 ELSE 1
        /\ tx[j].attribute <= tx'[j].attribute
    BY <2>1, <2>5, <2>7
  <2>9. \A c \in {"read", "matched", "failed", "applied", "passed", "processed"} :
           delta'[j][c] = delta[j][c]
    BY <2>1 DEF Counters
  <2>10. PastEntry(j, kind)
    BY <1>1, <2>4, <2>6, <2>7, <2>8, <2>9 DEF PastEntry
  <2>11. QED
    BY <1>1, <1>3, <2>1, <2>3, <2>8, <2>10, PastEntryBooks DEF kind
<1>11. QED
  BY <1>5, <1>8, <1>9, <1>10

\* Creating an attribute leaves every job with its accounts, whether it fails or not.
LEMMA CreateBooks ==
    ASSUME Typed, \A i \in Jobs : Accounts(i), NEW j \in Jobs, Create(j)
    PROVE  \A i \in Jobs : Accounts(i)'
<1> DEFINE k == EntryAt(j).key
           new == ~Exists(AttrsSeen(j), k)
           written == [tx[j] EXCEPT !.attrs = Over(@, Fresh(j)), !.locks = Rows(j)]
<1>1. pc[j] = "creating" /\ pc[j] \in InHotel
  BY DEF Create, InHotel
<1>2. AtWork(j) /\ AtHotel(j)
  BY <1>1 DEF Accounts, Typed
<1>3. CASE FailLine(j, at[j].line, saved[j])
  BY <1>1, <1>2, <1>3, FailBooks DEF AtWork
<1>4. CASE ~FailLine(j, at[j].line, saved[j])
  <2>1. /\ Resolve(j, k, 1) /\ NextEntry(j)
        /\ tx' = tx \/ tx' = [tx EXCEPT ![j] = written]
    BY <1>4 DEF Create, Fresh
  <2>2. Typed' /\ HotelStep(j) /\ pc'[j] = "entries" /\ k \in Keys /\ saved' = saved
    BY <1>4, CreateStep
  <2>3. /\ tx \in [Tasks -> Tx] /\ written.verdict = tx[j].verdict
        /\ written.hotel = tx[j].hotel /\ written.attribute = tx[j].attribute
    BY DEF Typed, Memories, Tx
  <2> HIDE DEF k, new, written
  <2>4. /\ tx'[j].verdict = tx[j].verdict /\ tx'[j].hotel = tx[j].hotel
        /\ tx'[j].attribute = tx[j].attribute
    BY <2>1, <2>3
  <2>5. EntryAt(j).kind = "good" /\ at[j].entry <= Len(file[j][at[j].line].entries)
    BY <1>1, <1>2 DEF AtWork, AtHotel
  <2>6. QED
    BY <1>1, <2>1, <2>2, <2>4, <2>5, ResolveBooks
<1>5. QED
  BY <1>3, <1>4

-----------------------------------------------------------------------------
(* The statements of a hotel                                               *)

\* Looking for the aggregates of the hotel leaves every job with its accounts.
LEMMA PrefetchBooks ==
    ASSUME Typed, \A i \in Jobs : Accounts(i), NEW j \in Jobs, Prefetch(j)
    PROVE  \A i \in Jobs : Accounts(i)'
<1>1. /\ pc[j] = "entries" /\ pc' = [pc EXCEPT ![j] = "upserting"]
      /\ at[j].entry > Len(file[j][at[j].line].entries)
      /\ UNCHANGED <<file, row, delta, at, values, saved, tx>>
  BY DEF Prefetch
<1>2. pc[j] \in InHotel /\ pc[j] \in InLoop /\ HotelStep(j)
  BY <1>1, PrefetchStep DEF InHotel, InLoop
<1>3. InBooks(j, row[j], saved[j]) /\ AtWork(j)
  BY <1>2 DEF Accounts
<1>4. pc'[j] = "upserting"
  BY <1>1 DEF Typed, Normalizations, Tasks
<1>5. NextUnread(j, at[j].line)'
  BY <1>1, <1>3, NextUnreadOn DEF AtWork
<1>6. Reads(j)'
  BY <1>1, <1>3, <1>4 DEF AtWork, Reads
<1>7. AtWork(j)'
  BY <1>1, <1>3, <1>4, <1>5, <1>6 DEF AtWork
<1>8. QED
  BY <1>1, <1>2, <1>3, <1>7, HotelStepBooks

\* Storing the aggregates leaves every job with its accounts, whether it fails or not.
LEMMA UpsertBooks ==
    ASSUME Typed, \A i \in Jobs : Accounts(i), NEW j \in Jobs, Upsert(j)
    PROVE  \A i \in Jobs : Accounts(i)'
<1> DEFINE stated == [c \in {HotelAt(j)} \X Resolved(j) |->
                        (CHOOSE v \in Range(values[j]) : v.attr = c[2]).score]
           written == [tx[j] EXCEPT !.agg = Over(@, stated), !.locks = Rows(j)]
           inserted == Len(values[j]) - Cardinality(existing[j])
<1>1. pc[j] = "upserting" /\ pc[j] \in InHotel /\ pc[j] \in InLoop
  BY DEF Upsert, InHotel, InLoop
<1>2. AtWork(j) /\ InBooks(j, row[j], saved[j])
  BY <1>1 DEF Accounts
<1>3. CASE FailLine(j, at[j].line, saved[j])
  BY <1>1, <1>2, <1>3, FailBooks DEF AtWork
<1>4. CASE ~FailLine(j, at[j].line, saved[j])
  <2>1. /\ tx' = [tx EXCEPT ![j] = written]
        /\ delta' = [delta EXCEPT ![j].processed = Len(values[j]), ![j].inserted = inserted]
        /\ UNCHANGED <<file, row, at, values, saved>>
    BY <1>4 DEF Upsert
  <2>2. HotelStep(j) /\ pc'[j] = "propagating"
    BY <1>4, UpsertStep
  <2>3. /\ tx \in [Tasks -> Tx] /\ written.verdict = tx[j].verdict
        /\ written.hotel = tx[j].hotel /\ written.attribute = tx[j].attribute
        /\ delta \in [Jobs -> [Counters -> Nat]] /\ "processed" \in Counters
    BY DEF Typed, Memories, Tx, Counters
  <2> HIDE DEF written, inserted, stated
  <2>4. /\ tx'[j].verdict = tx[j].verdict /\ tx'[j].hotel = tx[j].hotel
        /\ tx'[j].attribute = tx[j].attribute
    BY <2>1, <2>3
  <2>5. /\ delta'[j]["processed"] = Len(values[j])
        /\ \A c \in Counters \ {"processed", "inserted"} : delta'[j][c] = delta[j][c]
        /\ \A i \in Jobs : i # j => delta'[i] = delta[i]
    BY <2>1, <2>3
  <2>6. NextUnread(j, at[j].line)'
    BY <1>2, <2>1, NextUnreadOn DEF AtWork
  <2>7. Reads(j)'
    <3>1. Reads(j)
      BY <1>2 DEF AtWork
    <3>2. \A c \in {"read", "matched", "failed", "applied", "passed", "seen", "zero"} :
             delta'[j][c] = delta[j][c]
      BY <2>5 DEF Counters
    <3>3. QED
      BY <2>1, <2>2, <2>4, <2>5, <3>1, <3>2 DEF Reads
  <2>8. AtWork(j)'
    BY <1>1, <1>2, <2>1, <2>2, <2>4, <2>6, <2>7 DEF AtWork
  <2>9. InBooks(j, row[j], saved'[j])
    BY <1>2, <2>1
  <2>10. QED
    BY <1>1, <2>2, <2>5, <2>8, <2>9, HotelStepBooks
<1>5. QED
  BY <1>3, <1>4

\* So does a statement that fails (run, begin_nested).
LEMMA StatementFailsBooks ==
    ASSUME Typed, \A i \in Jobs : Accounts(i), NEW j \in Jobs, StatementFails(j)
    PROVE  \A i \in Jobs : Accounts(i)'
<1>1. pc[j] \in InHotel /\ FailLine(j, at[j].line, saved[j])
  BY DEF StatementFails, InHotel
<1>2. NextUnread(j, at[j].line)
  BY <1>1 DEF Accounts, AtWork
<1>3. QED
  BY <1>1, <1>2, FailBooks

\* A term of a sum moved to the other side.
LEMMA MovedOver ==
    \A a, b, c, x, y, z \in Nat : a + b + c = x + y + z => a + b = x + y + (z - c)
  OBVIOUS

\* What the counters of a hotel tell when its rows are propagated: all its entries.
LEMMA PropagateTold ==
    ASSUME Typed, NEW j \in Jobs, pc[j] = "propagating", AtWork(j),
           NEW d \in [Counters -> Nat], NEW v \in {"flawed", "good"},
           d["applied"] + d["passed"] = Len(values[j]),
           \A c \in Counters \ {"applied", "passed"} : d[c] = delta[j][c],
           v = IF d["flawed"] > 0 THEN "flawed" ELSE "good"
    PROVE  OneLine(j, at[j].line, d, v, 0, tx[j].attribute - saved[j].attribute)
<1> DEFINE l == at[j].line
           es == file[j][l].entries
           gsm == {"good", "zero", "malformed"}
           attribute == tx[j].attribute - saved[j].attribute
<1>1. pc[j] \in InHotel
  BY DEF InHotel
<1>2. l \in Lines(j) /\ at[j].entry \in Nat /\ Len(es) \in Nat
  BY <1>1, EntryTyped, LineTyped
<1>3. /\ Reads(j) /\ at[j].entry > Len(es) /\ saved[j].attribute <= tx[j].attribute
  BY DEF AtWork
<1>4. at[j].entry - 1 = Len(es)
  <2>1. at[j].entry - 1 <= Len(es)
    BY <1>3 DEF Reads
  <2> HIDE DEF es
  <2>2. QED
    BY <1>2, <1>3, <2>1
<1>5. \A kinds : Stated(j, kinds)[l] = Among(es, Len(es), kinds) /\ Stated(j, kinds)[l] \in Nat
  BY <1>2, StatedTyped
<1>6. /\ delta[j]["read"] = 1 /\ delta[j]["matched"] = 1 /\ delta[j]["failed"] = 0
      /\ delta[j]["processed"] = Len(values[j])
      /\ delta[j]["seen"] = Stated(j, gsm)[l] /\ delta[j]["zero"] = Stated(j, {"zero"})[l]
      /\ delta[j]["seen"] + Stated(j, {"category"})[l] + saved[j].attribute
            = Len(values[j]) + delta[j]["zero"] + tx[j].attribute
  BY <1>3, <1>4, <1>5 DEF Reads
<1>7. /\ d["read"] = 1 /\ d["matched"] = 1 /\ d["failed"] = 0
      /\ d["processed"] = Len(values[j]) /\ d["flawed"] = delta[j]["flawed"]
      /\ d["seen"] = delta[j]["seen"] /\ d["zero"] = delta[j]["zero"]
  BY <1>6 DEF Counters
<1>8. /\ tx[j].attribute \in Nat /\ saved[j].attribute \in Nat /\ Len(values[j]) \in Nat
      /\ d["zero"] \in Nat /\ d["seen"] \in Nat /\ d["flawed"] \in Nat
  <2>1. tx[j] \in Tx /\ saved[j] \in Tx /\ values[j] \in Seq(Value)
    BY DEF Typed, Memories, Tasks
  <2>2. QED
    BY <2>1, LenProperties DEF Tx, Counters
<1>9. attribute \in Nat
  BY <1>3, <1>8
<1>10. d["seen"] + Stated(j, {"category"})[l] = d["processed"] + d["zero"] + attribute
  <2> DEFINE c == Stated(j, {"category"})[l]
             before == saved[j].attribute
             now == tx[j].attribute
             n == Len(values[j])
             seen == d["seen"]
             zero == d["zero"]
  <2>1. seen + c + before = n + zero + now
    BY <1>6, <1>7
  <2>2. /\ c \in Nat /\ before \in Nat /\ now \in Nat /\ n \in Nat
        /\ seen \in Nat /\ zero \in Nat
    BY <1>5, <1>8
  <2> HIDE DEF c, before, now, n, seen, zero
  <2>3. seen + c = n + zero + (now - before)
    BY <2>1, <2>2, MovedOver
  <2>4. d["processed"] = n
    BY <1>7 DEF n
  <2>5. QED
    BY <2>3, <2>4 DEF c, now, before, seen, zero
<1> HIDE DEF attribute
<1>11. v \in Done /\ v # "failed" /\ ((d["flawed"] > 0) = (v = "flawed"))
  BY DEF Done
<1>12. QED
  BY <1>6, <1>7, <1>9, <1>10, <1>11 DEF OneLine, attribute

\* Propagating a hotel's rows decides its line, and leaves every job with its accounts.
LEMMA PropagateBooks ==
    ASSUME Typed, \A i \in Jobs : Accounts(i), NEW j \in Jobs, Propagate(j)
    PROVE  \A i \in Jobs : Accounts(i)'
<1> DEFINE attribute == tx[j].attribute - saved[j].attribute
           l == at[j].line
<1>1. pc[j] = "propagating" /\ pc[j] \in InHotel /\ pc[j] \in InLoop
  BY DEF Propagate, InHotel, InLoop
<1>2. AtWork(j) /\ InBooks(j, row[j], saved[j])
  BY <1>1 DEF Accounts
<1>3. PICK t \in Tx, d \in [Counters -> Nat], v \in {"flawed", "good"} :
        /\ DecideLine(j, l, t, d, v) /\ t.verdict = tx[j].verdict
        /\ t.hotel = tx[j].hotel /\ t.attribute = tx[j].attribute
        /\ d["applied"] + d["passed"] = Len(values[j])
        /\ \A c \in Counters \ {"applied", "passed"} : d[c] = delta[j][c]
        /\ v = IF d["flawed"] > 0 THEN "flawed" ELSE "good"
  BY PropagateStep
<1>4. OneLine(j, l, d, v, 0, attribute)
  BY <1>1, <1>2, <1>3, PropagateTold
<1>5. /\ saved[j] \in Tx /\ tx[j] \in Tx /\ DOMAIN saved[j].verdict \subseteq Lines(j)
  BY DEF Typed, Memories, InFile, Tasks
<1>6. Keeps(t, saved[j], 0, attribute)
  <2>1. /\ tx[j].hotel = saved[j].hotel /\ tx[j].verdict = saved[j].verdict
        /\ saved[j].hotel \in Nat /\ saved[j].attribute \in Nat /\ tx[j].attribute \in Nat
    BY <1>2, <1>5 DEF AtWork, Tx
  <2>2. QED
    BY <1>3, <2>1 DEF Keeps
<1>7. l \in Lines(j) /\ Follows(j, row[j].line, l)
  BY <1>2, UnreadFollows DEF AtWork
<1>8. v \in Verdicts /\ v # "open"
  BY DEF Verdicts
<1> HIDE DEF attribute, l
<1>9. QED
  BY <1>1, <1>2, <1>3, <1>4, <1>5, <1>6, <1>7, <1>8, DecideLineBooks

-----------------------------------------------------------------------------
(* Runs that start, end and die                                            *)

\* A run that starts again (run) starts from the books that are committed.
LEMMA StartBooks ==
    ASSUME Sound, Sessions, \A i \in Jobs : Accounts(i), NEW j \in Jobs, Start(j)
    PROVE  \A i \in Jobs : Accounts(i)'
<1> DEFINE r == [job[j] EXCEPT !.status = "RUNNING"]
<1>1. Typed /\ Accounts(j)
  BY DEF Sound
<1>2. /\ pc[j] = "queued" /\ pc[j] \notin InLoop
      /\ UNCHANGED <<file, verdict, issues, lineVars, tx>>
  BY DEF Start, InLoop, InHotel
<1>3. /\ pc \in [Tasks -> Steps] /\ j \in Tasks /\ row \in [Jobs -> JobRow]
      /\ job \in [Jobs -> JobRow] /\ \A i \in Jobs : i \in Tasks
  BY <1>1 DEF Typed, Normalizations, Memories, Stores, Tasks
<1>4. /\ r \in JobRow /\ r.line = job[j].line /\ r.n = job[j].n
      /\ r.completed = job[j].completed
  BY <1>3 DEF JobRow, Statuses
<1>5. \/ pc' = [pc EXCEPT ![j] = "acking"] /\ UNCHANGED <<job, row>>
      \/ /\ job' = [job EXCEPT ![j] = r] /\ row' = [row EXCEPT ![j] = job'[j]]
         /\ pc' = [pc EXCEPT ![j] = "acking"] \/ pc' = [pc EXCEPT ![j] = "lines"]
  BY DEF Start
<1> HIDE DEF r
<1>6. /\ \A i \in Jobs : i # j => pc'[i] = pc[i] /\ job'[i] = job[i] /\ row'[i] = row[i]
      /\ job'[j].line = job[j].line /\ job'[j].n = job[j].n
      /\ job'[j].completed = job[j].completed
      /\ pc'[j] = "acking" \/ (pc'[j] = "lines" /\ row'[j] = job'[j])
  <2>1. CASE pc' = [pc EXCEPT ![j] = "acking"] /\ UNCHANGED <<job, row>>
    BY <1>3, <2>1
  <2>2. CASE /\ job' = [job EXCEPT ![j] = r] /\ row' = [row EXCEPT ![j] = job'[j]]
             /\ pc' = [pc EXCEPT ![j] = "acking"] \/ pc' = [pc EXCEPT ![j] = "lines"]
    <3>1. job'[j] = r /\ \A i \in Jobs : i # j => job'[i] = job[i]
      BY <1>3, <2>2
    <3>2. row'[j] = job'[j] /\ \A i \in Jobs : i # j => row'[i] = row[i]
      BY <1>3, <2>2
    <3>3. /\ pc'[j] = "acking" \/ pc'[j] = "lines"
          /\ \A i \in Jobs : i # j => pc'[i] = pc[i]
      BY <1>3, <2>2
    <3>4. QED
      BY <1>4, <3>1, <3>2, <3>3
  <2>3. QED
    BY <1>5, <2>1, <2>2
<1>7. \A i \in Jobs : i # j => Accounts(i)'
  BY <1>2, <1>6, AccountsOn DEF Alone, lineVars
<1>8. CASE pc'[j] = "acking"
  <2>1. pc'[j] \notin InLoop
    BY <1>8 DEF InLoop, InHotel
  <2>2. Accounts(j)'
    BY <1>1, <1>2, <1>6, <2>1, OutsideBooks
  <2>3. QED
    BY <1>7, <2>2
<1>9. CASE pc'[j] = "lines" /\ row'[j] = job'[j]
  <2>1. InBooks(j, job[j], NoTx) /\ Closed(j)
    BY <1>1 DEF Accounts
  <2>2. InBooks(j, job[j], NoTx)'
    BY <1>2, <1>6, <2>1, SameBooks
  <2>3. tx'[j] = NoTx
    BY <1>2, <1>3 DEF Sessions, Session, Idle
  <2>4. InBooks(j, row[j], tx[j])'
    BY <1>9, <2>2, <2>3
  <2>5. Closed(j)'
    BY <1>2, <1>6, <2>1 DEF Closed, Lines, Readable
  <2>6. pc'[j] \notin InHotel
    BY <1>9 DEF InHotel
  <2>7. Accounts(j)'
    BY <1>9, <2>2, <2>4, <2>5, <2>6 DEF Accounts
  <2>8. QED
    BY <1>7, <2>7
<1>10. QED
  BY <1>6, <1>8, <1>9

\* A run that finishes (run) commits its books, and no line is left.
LEMMA FinishBooks ==
    ASSUME Typed, \A i \in Jobs : Accounts(i), NEW j \in Jobs, Finish(j)
    PROVE  /\ \A i \in Jobs : Accounts(i)'
           /\ job'[j] = Finished(j) /\ verdict'[j] = Seen(j, tx[j])
           /\ \A i \in Jobs : i # j => job'[i] = job[i] /\ verdict'[i] = verdict[i]
<1> DEFINE r == Finished(j)
<1>1. /\ pc[j] = "lines" /\ Unread(j) = {} /\ row' = [row EXCEPT ![j] = r]
      /\ UNCHANGED <<file, lineVars>>
  BY DEF Finish, Finished
<1>2. /\ r \in JobRow /\ r.line = row[j].line /\ r.n = row[j].n
      /\ Commit(j, tx[j], r)
      /\ pc' = [pc EXCEPT ![j] = IF Ranks(row[j]) THEN "listing" ELSE "acking"]
  BY FinishStep
<1> HIDE DEF r
<1>3. /\ tx[j] \in Tx /\ DOMAIN tx[j].verdict \subseteq Lines(j) /\ row \in [Jobs -> JobRow]
      /\ pc \in [Tasks -> Steps] /\ \A i \in Jobs : i \in Tasks
  BY DEF Typed, Memories, InFile, Normalizations, Tasks
<1>4. InBooks(j, r, tx[j])
  BY <1>1, <1>2 DEF Accounts, InBooks
<1>5. /\ job'[j] = r /\ tx'[j] = NoTx /\ verdict'[j] = Seen(j, tx[j])
      /\ InBooks(j, job[j], NoTx)'
      /\ \A i \in Jobs : i # j => /\ job'[i] = job[i] /\ tx'[i] = tx[i]
                                  /\ verdict'[i] = verdict[i] /\ issues'[i] = issues[i]
  BY <1>1, <1>2, <1>3, <1>4, CommitBooks
<1>6. pc'[j] \notin InLoop
  BY <1>2, <1>3 DEF InLoop, InHotel
<1>7. Closed(j)'
  <2>1. \A l \in Lines(j) : l > row[j].line => ~Readable(j, l)
    BY <1>1 DEF Unread, Readable
  <2>2. QED
    BY <1>1, <1>2, <1>5, <2>1 DEF Closed, Lines, Readable
<1>8. Accounts(j)'
  BY <1>5, <1>6, <1>7 DEF Accounts, InLoop
<1>9. ASSUME NEW i \in Jobs, i # j PROVE Accounts(i)'
  <2>1. pc'[i] = pc[i] /\ row'[i] = row[i]
    BY <1>1, <1>2, <1>3, <1>9
  <2>2. Alone(i)
    BY <1>1, <1>5, <1>9, <2>1 DEF Alone, lineVars
  <2>3. QED
    BY <1>1, <2>2, AccountsOn
<1>10. QED
  BY <1>5, <1>8, <1>9 DEF r

\* A run that fails as a whole (run, exception handler) leaves what is committed.
LEMMA MarkFailedBooks ==
    ASSUME Typed, \A i \in Jobs : Accounts(i), NEW j \in Jobs, MarkFailed(j)
    PROVE  \A i \in Jobs : Accounts(i)'
<1>1. /\ job' = [job EXCEPT ![j] = [@ EXCEPT !.status = "FAILED"]]
      /\ tx' = [tx EXCEPT ![j] = NoTx] /\ pc' = [pc EXCEPT ![j] = "acking"]
      /\ UNCHANGED <<file, verdict, issues, row, lineVars>>
  BY DEF MarkFailed, RolledBack
<1>2. /\ pc \in [Tasks -> Steps] /\ j \in Tasks /\ job \in [Jobs -> JobRow]
      /\ tx \in [Tasks -> Tx] /\ \A i \in Jobs : i \in Tasks
  BY DEF Typed, Normalizations, Memories, Stores, Tasks
<1>3. /\ job'[j].line = job[j].line /\ job'[j].n = job[j].n
      /\ job'[j].completed = job[j].completed
  BY <1>1, <1>2 DEF JobRow
<1>4. pc'[j] \notin InLoop
  BY <1>1, <1>2 DEF InLoop, InHotel
<1>5. Accounts(j)'
  BY <1>1, <1>3, <1>4, OutsideBooks
<1>6. ASSUME NEW i \in Jobs, i # j PROVE Accounts(i)'
  <2>1. Alone(i)
    BY <1>1, <1>2, <1>6 DEF Alone, lineVars
  <2>2. QED
    BY <1>1, <2>1, AccountsOn
<1>7. QED
  BY <1>5, <1>6

\* A step of a task outside the line loop leaves every job with its accounts.
LEMMA AsideBooks ==
    ASSUME Typed, \A i \in Jobs : Accounts(i), NEW t \in Tasks,
           UNCHANGED <<file, job, verdict, issues>>, t \in Jobs => pc'[t] \notin InLoop,
           \A i \in Jobs : i # t => Alone(i)
    PROVE  \A i \in Jobs : Accounts(i)'
<1>1. t \in Jobs => Accounts(t)'
  BY OutsideBooks
<1>2. \A i \in Jobs : i # t => Accounts(i)'
  BY AccountsOn
<1>3. QED
  BY <1>1, <1>2

\* A row that is taken leaves every run alone.
LEMMA TakeRowAlone ==
    ASSUME Typed, NEW t \in Tasks, TakeRow(t)
    PROVE  /\ \A i \in Jobs : Alone(i)
           /\ UNCHANGED <<file, job, verdict, issues>>
<1>1. /\ UNCHANGED <<file, job, verdict, issues, pc, row, lineVars>>
      /\ tx' = [tx EXCEPT ![t].locks = @ \cup {Head(queue[t])}]
  BY DEF TakeRow, storeVars
<1>2. tx \in [Tasks -> Tx] /\ \A i \in Jobs : i \in Tasks
  BY DEF Typed, Memories, Tasks
<1>3. \A i \in Jobs : /\ tx'[i].verdict = tx[i].verdict /\ tx'[i].hotel = tx[i].hotel
                      /\ tx'[i].attribute = tx[i].attribute
  BY <1>1, <1>2 DEF Tx
<1>4. QED
  BY <1>1, <1>3 DEF Alone, lineVars

\* Rescorings, normalizations, acknowledgements and deaths leave the other runs alone.
LEMMA OthersAlone ==
    ASSUME Typed, NEW t \in Tasks,
           \/ BeginHotel(t) \/ CommitHotel(t) \/ List(t) \/ ReadPopulation(t)
           \/ BeginFlush(t) \/ CommitRelative(t) \/ GiveUp(t) \/ Acknowledge(t) \/ Crash(t)
    PROVE  /\ \A i \in Jobs : i # t => Alone(i)
           /\ pc'[t] \notin InLoop /\ UNCHANGED <<file, job, verdict, issues>>
<1>1. /\ pc \in [Tasks -> Steps] /\ tx \in [Tasks -> Tx]
      /\ \A i \in Jobs : i \in Tasks /\ i \notin Rescorings
  BY SentimentAssumption DEF Typed, Memories, Normalizations, Tasks
<1>2. ASSUME UNCHANGED <<file, job, verdict, issues, row, lineVars>>,
             \A u \in Tasks : u # t => pc'[u] = pc[u] /\ tx'[u] = tx[u],
             pc'[t] \notin InLoop
      PROVE  /\ \A i \in Jobs : i # t => Alone(i)
             /\ pc'[t] \notin InLoop /\ UNCHANGED <<file, job, verdict, issues>>
  BY <1>1, <1>2 DEF Alone, lineVars
<1>3. \A step \in {"recalculating", "scoring", "listing", "ranking", "writing", "acking",
                   "done", "queued"} : step \notin InLoop
  BY DEF InLoop, InHotel
<1>4. CASE BeginHotel(t)
  <2>1. /\ UNCHANGED <<file, job, verdict, issues, row, lineVars, tx>>
        /\ pc' = [pc EXCEPT ![t] = "scoring"]
    BY <1>4 DEF BeginHotel, storeVars
  <2>2. QED
    BY <1>1, <1>2, <1>3, <2>1
<1>5. CASE CommitHotel(t)
  <2>1. /\ UNCHANGED <<file, job, verdict, issues, row, lineVars>>
        /\ tx' = [tx EXCEPT ![t] = NoTx]
        /\ pc' = [pc EXCEPT ![t] = IF todo[t] = {} THEN "listing" ELSE "recalculating"]
    BY <1>5 DEF CommitHotel
  <2>2. QED
    BY <1>1, <1>2, <1>3, <2>1
<1>6. CASE List(t) \/ ReadPopulation(t) \/ BeginFlush(t) \/ Acknowledge(t)
  <2>1. /\ UNCHANGED <<file, job, verdict, issues, row, lineVars, tx>>
        /\ \/ \E step \in {"ranking", "writing", "done"} : pc' = [pc EXCEPT ![t] = step]
           \/ pc' = pc /\ pc[t] = "ranking"
    <3>1. CASE List(t)
      BY <3>1 DEF List, storeVars
    <3>2. CASE ReadPopulation(t)
      BY <3>2 DEF ReadPopulation, storeVars
    <3>3. CASE BeginFlush(t)
      BY <3>3 DEF BeginFlush, storeVars
    <3>4. CASE Acknowledge(t)
      BY <3>4 DEF Acknowledge, storeVars
    <3>5. QED
      BY <1>6, <3>1, <3>2, <3>3, <3>4
  <2>2. pc'[t] \notin InLoop /\ \A u \in Tasks : u # t => pc'[u] = pc[u] /\ tx'[u] = tx[u]
    BY <1>1, <1>3, <2>1
  <2>3. QED
    BY <1>2, <2>1, <2>2
<1>7. CASE CommitRelative(t) \/ GiveUp(t)
  <2>1. /\ UNCHANGED <<file, job, verdict, issues, row, lineVars>>
        /\ tx' = [tx EXCEPT ![t] = NoTx]
        /\ \E step \in {"acking", "done"} : pc' = [pc EXCEPT ![t] = step]
    <3>1. CASE CommitRelative(t)
      BY <3>1 DEF CommitRelative
    <3>2. CASE GiveUp(t)
      BY <3>2 DEF GiveUp, RolledBack, storeVars
    <3>3. QED
      BY <1>7, <3>1, <3>2
  <2>2. QED
    BY <1>1, <1>2, <1>3, <2>1
<1>8. CASE Crash(t)
  <2>1. /\ UNCHANGED <<file, job, verdict, issues>>
        /\ \E step \in {"queued", "done"} : pc' = [pc EXCEPT ![t] = step]
        /\ row' = [row EXCEPT ![t] = NewJob] /\ delta' = [delta EXCEPT ![t] = Zero]
        /\ at' = [at EXCEPT ![t] = [line |-> 0, entry |-> 0]]
        /\ values' = [values EXCEPT ![t] = <<>>]
        /\ tx' = [tx EXCEPT ![t] = NoTx] /\ saved' = [saved EXCEPT ![t] = NoTx]
    BY <1>8 DEF Crash, storeVars
  <2>2. pc'[t] \notin InLoop /\ \A i \in Jobs : i # t => pc'[i] = pc[i]
    BY <1>1, <1>3, <2>1
  <2>3. /\ row \in [Jobs -> JobRow] /\ delta \in [Jobs -> [Counters -> Nat]]
        /\ at \in [Jobs -> [line: Nat, entry: Nat]] /\ values \in [Jobs -> Seq(Value)]
        /\ saved \in [Jobs -> Tx]
    BY DEF Typed, Memories
  <2>4. \A i \in Jobs : i # t => Alone(i)
    BY <1>1, <2>1, <2>2, <2>3 DEF Alone
  <2>5. QED
    BY <2>1, <2>2, <2>4
<1>9. QED
  BY <1>4, <1>5, <1>6, <1>7, <1>8

\* So every job keeps its accounts.
LEMMA OthersBooks ==
    ASSUME Typed, \A i \in Jobs : Accounts(i), NEW t \in Tasks,
           \/ TakeRow(t) \/ BeginHotel(t) \/ CommitHotel(t) \/ List(t) \/ ReadPopulation(t)
           \/ BeginFlush(t) \/ CommitRelative(t) \/ GiveUp(t) \/ Acknowledge(t) \/ Crash(t)
    PROVE  /\ \A i \in Jobs : Accounts(i)'
           /\ UNCHANGED <<file, job, verdict>>
<1>1. CASE TakeRow(t)
  BY <1>1, TakeRowAlone, AccountsOn
<1>2. CASE ~TakeRow(t)
  BY <1>2, OthersAlone, AsideBooks
<1>3. QED
  BY <1>1, <1>2

\* Every step of a run.
LEMMA ImportLineBooks ==
    ASSUME Sound, Sessions, \A i \in Jobs : Accounts(i), NEW j \in Jobs, ImportLine(j)
    PROVE  \A i \in Jobs : Accounts(i)'
<1>1. Typed
  BY DEF Sound
<1>2. QED
  BY <1>1, StartBooks, NextLineBooks, ReadEntryBooks, CreateBooks, PrefetchBooks, UpsertBooks,
     PropagateBooks, StatementFailsBooks, FinishBooks, MarkFailedBooks DEF ImportLine

\* Every step leaves the books in order.
LEMMA BooksNext == Books /\ [Next]_vars => Books'
<1>1. SUFFICES ASSUME Books, [Next]_vars PROVE Books'
  OBVIOUS
<1>2. /\ Sound /\ Sessions /\ Typed /\ (\A i \in Jobs : Accounts(i))
      /\ Sound' /\ Sessions'
  BY <1>1, SoundNext, SessionsNext DEF Books, Sound
<1>3. ASSUME NEW t \in Tasks, Work(t) \/ Crash(t) PROVE \A i \in Jobs : Accounts(i)'
  BY <1>2, <1>3, ImportLineBooks, OthersBooks DEF Work
<1>4. CASE UNCHANGED vars
  <2>1. file' = file /\ \A i \in Jobs : Alone(i)
    BY <1>4 DEF vars, storeVars, lineVars, Alone
  <2>2. \A i \in Jobs : Accounts(i)'
    BY <1>2, <2>1, AccountsOn
  <2>3. QED
    BY <1>2, <2>2 DEF Books
<1>5. QED
  BY <1>1, <1>2, <1>3, <1>4 DEF Next, Books

\* The initial state: nothing decided, nothing told.
LEMMA InitBooks == Init => Books
<1>1. SUFFICES ASSUME Init PROVE Books
  OBVIOUS
<1>2. Sound /\ Sessions /\ Typed
  BY <1>1, InitSound, InitSessions DEF Sound
<1>3. ASSUME NEW j \in Jobs PROVE Accounts(j)
  <2>1. /\ job[j] = NewJob /\ issues[j].hotel = 0 /\ issues[j].attribute = 0
        /\ verdict[j] = [l \in Lines(j) |-> "open"]
        /\ pc[j] \notin InLoop /\ pc[j] \notin InHotel
    BY <1>1 DEF Init, Tasks, InLoop, InHotel
  <2>2. /\ NewJob.line = 0 /\ ~NewJob.completed /\ NewJob.n = Zero
        /\ \A c \in Counters : Zero[c] = 0
        /\ NoTx.hotel = 0 /\ NoTx.attribute = 0 /\ DOMAIN NoTx.verdict = {}
    BY FreshMemory DEF NewJob, Zero, NoTx
  <2>3. Seen(j, NoTx) = verdict[j] /\ verdict[j] \in [Lines(j) -> Verdicts]
    BY <1>2, SeenAtRest, VerdictsTyped
  <2> DEFINE vs == Seen(j, NoTx)
  <2>4. \A V : "open" \notin V => Tally(vs, V) = {}
    BY <2>1, <2>3 DEF Tally
  <2>5. /\ "open" \notin Done /\ "open" \notin Done \cup {"failed"} /\ "open" \notin {"failed"}
        /\ "open" \notin {"flawed"}
    BY DEF Done
  <2>6. Cardinality({}) = 0
    BY FS_EmptySet
  <2>7. \A kinds : Total(j, kinds, vs) = 0
    BY <2>4, <2>5, SumOfNone DEF Total
  <2>8. Telling(j, Zero, vs, 0, 0)
    <3>1. /\ Tally(vs, Done) = {} /\ Tally(vs, Done \cup {"failed"}) = {}
          /\ Tally(vs, {"failed"}) = {} /\ Tally(vs, {"flawed"}) = {}
      BY <2>4, <2>5
    <3>2. /\ Zero["read"] = 0 /\ Zero["matched"] = 0 /\ Zero["failed"] = 0 /\ Zero["seen"] = 0
          /\ Zero["zero"] = 0 /\ Zero["processed"] = 0 /\ Zero["applied"] = 0
          /\ Zero["passed"] = 0 /\ Zero["flawed"] = 0
      BY <2>2 DEF Counters
    <3> HIDE DEF vs
    <3>3. (Zero["flawed"] > 0) = (Tally(vs, {"flawed"}) # {})
      BY <3>1, <3>2
    <3>4. QED
      BY <2>6, <2>7, <3>1, <3>2, <3>3 DEF Telling
  <2>9. \A l \in Lines(j) : l \in Nat /\ l > 0
    BY <1>2, <2>2, SeenVerdicts, FreshMemory
  <2>10. UpTo(j, vs, 0)
    BY <2>1, <2>3, <2>9 DEF UpTo
  <2>11. InBooks(j, job[j], NoTx)
    BY <2>1, <2>2, <2>8, <2>10 DEF InBooks
  <2>12. QED
    BY <2>1, <2>2, <2>11 DEF Accounts, Closed, InLoop
<1>4. QED
  BY <1>2, <1>3 DEF Books

\* The books of a job hold in every reachable state.
LEMMA InOrder == Spec => []Books
  BY InitBooks, BooksNext, PTL DEF Spec

\* What is in the books are the verdicts and entries of the file.
LEMMA BooksTell == Books => CountersTellTheFile
<1>1. SUFFICES ASSUME Books, NEW j \in Jobs
      PROVE  LET n == job[j].n
             IN  /\ n["read"] = Cardinality(Decided(j, {"good", "flawed", "failed"}))
                 /\ n["matched"] = Cardinality(Decided(j, {"good", "flawed"}))
                 /\ n["failed"] = Cardinality(Decided(j, {"failed"}))
                 /\ n["failed"] = issues[j].hotel
                 /\ n["seen"] = Entries(j, {"good", "zero", "malformed"})
                 /\ n["zero"] = Entries(j, {"zero"})
                 /\ n["seen"] + Entries(j, {"category"})
                       = n["processed"] + n["zero"] + issues[j].attribute
                 /\ n["processed"] = n["applied"] + n["passed"]
                 /\ (n["flawed"] > 0) = (Decided(j, {"flawed"}) # {})
  BY DEF CountersTellTheFile
<1>2. Typed /\ InBooks(j, job[j], NoTx)
  BY <1>1 DEF Books, Sound, Accounts
<1>3. Seen(j, NoTx) = verdict[j] /\ DOMAIN verdict[j] = Lines(j)
  BY <1>2, SeenAtRest, VerdictsTyped
<1>4. \A V : Tally(verdict[j], V) = Decided(j, V)
  BY <1>3 DEF Tally, Decided
<1>5. /\ Done \cup {"failed"} = {"good", "flawed", "failed"} /\ Done = {"good", "flawed"}
  BY DEF Done
<1>6. \A kinds : Total(j, kinds, verdict[j]) = Entries(j, kinds)
  <2>1. SUFFICES ASSUME NEW kinds PROVE Total(j, kinds, verdict[j]) = Entries(j, kinds)
    OBVIOUS
  <2>2. Total(j, kinds, verdict[j]) = SumOver(Stated(j, kinds), Decided(j, {"good", "flawed"}))
    BY <1>4, <1>5 DEF Total
  <2>3. QED
    BY <2>2 DEF Entries, SumOver, MapThenSumSet, MapThenFoldSet
<1>7. /\ NoTx.hotel = 0 /\ NoTx.attribute = 0 /\ issues[j].hotel \in Nat
      /\ issues[j].attribute \in Nat
  BY <1>2 DEF NoTx, Typed, Stores
<1>8. Telling(j, job[j].n, verdict[j], issues[j].hotel, issues[j].attribute)
  <2>1. issues[j].hotel + NoTx.hotel = issues[j].hotel
    BY <1>7
  <2>2. issues[j].attribute + NoTx.attribute = issues[j].attribute
    BY <1>7
  <2>3. QED
    BY <1>2, <1>3, <2>1, <2>2 DEF InBooks
<1>9. QED
  BY <1>4, <1>5, <1>6, <1>8 DEF Telling

\* The committed counters of every job are those of the lines it decided, each once (_apply_delta,
\* _read_lines): no batch, rollback, death or failed run loses a line or tells it twice.
THEOREM CountersAddUp == Spec => []CountersTellTheFile
  BY InOrder, BooksTell, PTL

-----------------------------------------------------------------------------
(* The ledger                                                              *)

\* The committed books of a job only move on.
Onward(j) ==
    /\ job[j].line <= job'[j].line /\ (job[j].completed => job'[j].completed)
    /\ \A l \in Lines(j) : verdict[j][l] # "open" => verdict'[j][l] = verdict[j][l]

\* They do when only the status changes.
LEMMA KeptOnward ==
    ASSUME Typed, NEW i \in Jobs, verdict'[i] = verdict[i], job'[i].line = job[i].line,
           job'[i].completed = job[i].completed
    PROVE  Onward(i)
<1>1. job[i].line \in Nat
  BY DEF Typed, Stores, JobRow
<1>2. QED
  BY <1>1 DEF Onward

\* What the committed books say of the lines.
Lined(j) ==
    /\ \A l \in Lines(j) : /\ l \in Nat /\ l > 0 /\ l <= Len(file[j])
                           /\ verdict[j][l] \in Verdicts
                           /\ verdict[j][l] # "open" <=> l <= job[j].line /\ Readable(j, l)
    /\ job[j].line \in 0 .. Len(file[j]) /\ Len(file[j]) \in Nat
    /\ job[j].line # 0 => Readable(j, job[j].line)
    /\ job[j].completed \in BOOLEAN

\* The committed books say it.
LEMMA CommittedLines ==
    ASSUME Typed, NEW j \in Jobs, InBooks(j, job[j], NoTx)
    PROVE  Lined(j)
<1>1. Seen(j, NoTx) = verdict[j]
  BY SeenAtRest
<1>2. UpTo(j, verdict[j], job[j].line) /\ (job[j].line # 0 => Readable(j, job[j].line))
  BY <1>1 DEF InBooks
<1>3. verdict[j] \in [Lines(j) -> Verdicts] /\ \A l \in Lines(j) : l \in Nat /\ l > 0
  <2>1. NoTx \in Tx /\ DOMAIN NoTx.verdict \subseteq Lines(j)
    BY FreshMemory
  <2>2. QED
    BY <2>1, VerdictsTyped, SeenVerdicts
<1>4. job[j].line \in Nat /\ job[j].line <= Len(file[j]) /\ job[j].completed \in BOOLEAN
  BY DEF Typed, Stores, JobRow, InFile
<1>5. Len(file[j]) \in Nat
  <2>1. file[j] \in Seq(Line)
    BY SentimentAssumption DEF Typed
  <2>2. QED
    BY <2>1, LenProperties
<1>6. QED
  BY <1>2, <1>3, <1>4, <1>5 DEF UpTo, Lined, Lines

\* They say it of the next state too.
LEMMA CommittedLinesNext ==
    ASSUME NEW j \in Jobs
    PROVE  (Typed /\ InBooks(j, job[j], NoTx))' => Lined(j)'
<1>1. Typed /\ InBooks(j, job[j], NoTx) => Lined(j)
  BY CommittedLines
<1>2. QED
  BY <1>1, PTL

\* What a transaction decides are lines after those that are committed.
LEMMA SeenOnward ==
    ASSUME Typed, NEW j \in Jobs, InBooks(j, job[j], NoTx), NEW t \in Tx,
           DOMAIN t.verdict \subseteq Lines(j), \A l \in DOMAIN t.verdict : l > job[j].line
    PROVE  \A l \in Lines(j) : verdict[j][l] # "open" => Seen(j, t)[l] = verdict[j][l]
<1>1. SUFFICES ASSUME NEW l \in Lines(j), verdict[j][l] # "open"
               PROVE  Seen(j, t)[l] = verdict[j][l]
  OBVIOUS
<1>2. l <= job[j].line /\ l \in Nat /\ job[j].line \in Nat
  BY <1>1, CommittedLines DEF Lined
<1>3. l \notin DOMAIN t.verdict
  BY <1>2
<1>4. QED
  BY <1>3, SeenVerdicts

\* A decided line moves the books on, when it commits.
LEMMA DecideLineOnward ==
    ASSUME Typed, \A i \in Jobs : Accounts(i), NEW j \in Jobs, pc[j] \in InLoop,
           NEW b, DOMAIN b.verdict \subseteq Lines(j), InBooks(j, row[j], b),
           NEW l \in Lines(j), l > row[j].line, NEW t \in Tx, t.verdict = b.verdict,
           NEW v \in Verdicts, NEW d \in [Counters -> Nat], DecideLine(j, l, t, d, v)
    PROVE  file' = file /\ \A i \in Jobs : Onward(i)
<1> DEFINE u == [t EXCEPT !.verdict = Over(@, [x \in {l} |-> v])]
           r == Forward(row[j], l, d)
<1>1. file' = file /\ (Commit(j, u, r) \/ UNCHANGED storeVars)
  BY DEF DecideLine, Forward
<1>2. u \in Tx /\ DOMAIN u.verdict = DOMAIN t.verdict \cup {l} /\ l \in Nat
  BY DecidedTx, LineTyped
<1>3. r \in JobRow /\ r.line = l /\ r.completed = row[j].completed
  BY ForwardTyped
<1>4. /\ job[j].line <= row[j].line /\ \A x \in DOMAIN t.verdict : x > job[j].line
      /\ row[j].completed = job[j].completed /\ InBooks(j, job[j], NoTx)
  BY DEF InBooks, Accounts
<1>5. /\ job[j].line \in Nat /\ row[j].line \in Nat /\ job \in [Jobs -> JobRow]
      /\ verdict \in [Jobs -> Partials(Nat, Verdicts)]
  BY DEF Typed, Stores, Memories, JobRow
<1> HIDE DEF u, r
<1>6. CASE Commit(j, u, r)
  <2>1. /\ job' = [job EXCEPT ![j] = r]
        /\ verdict' = [verdict EXCEPT ![j] = Over(@, u.verdict)]
    BY <1>6 DEF Commit
  <2>2. /\ job'[j] = r /\ verdict'[j] = Seen(j, u)
        /\ \A i \in Jobs : i # j => job'[i] = job[i] /\ verdict'[i] = verdict[i]
    BY <1>5, <2>1 DEF Seen
  <2>3. DOMAIN u.verdict \subseteq Lines(j) /\ \A x \in DOMAIN u.verdict : x > job[j].line
    BY <1>2, <1>4, <1>5
  <2>4. \A x \in Lines(j) : verdict[j][x] # "open" => Seen(j, u)[x] = verdict[j][x]
    BY <1>2, <1>4, <2>3, SeenOnward
  <2>5. Onward(j)
    BY <1>2, <1>3, <1>4, <1>5, <2>2, <2>4 DEF Onward
  <2>6. QED
    BY <1>1, <2>2, <2>5, KeptOnward
<1>7. CASE UNCHANGED storeVars
  BY <1>1, <1>7, KeptOnward DEF storeVars
<1>8. QED
  BY <1>1, <1>6, <1>7

\* A line that fails does, and so does one whose rows are propagated.
LEMMA LineOnward ==
    ASSUME Typed, \A i \in Jobs : Accounts(i), NEW j \in Jobs,
           \/ pc[j] \in InHotel /\ FailLine(j, at[j].line, saved[j])
           \/ pc[j] = "lines" /\ \E l \in Unread(j) : FailLine(j, l, tx[j])
           \/ Propagate(j)
    PROVE  file' = file /\ \A i \in Jobs : Onward(i)
<1>1. /\ tx[j] \in Tx /\ DOMAIN tx[j].verdict \subseteq Lines(j)
      /\ saved[j] \in Tx /\ DOMAIN saved[j].verdict \subseteq Lines(j)
  BY DEF Typed, Memories, InFile, Tasks
<1> DEFINE told == [Zero EXCEPT !.read = 1, !.failed = 1]
           more(b) == [b EXCEPT !.hotel = @ + 1]
<1>2. told \in [Counters -> Nat] /\ "failed" \in Verdicts
  BY FailedLine DEF Verdicts
<1>3. \A b \in Tx : more(b) \in Tx /\ more(b).verdict = b.verdict
  BY DEF Tx
<1>4. \A l, b : FailLine(j, l, b) => DecideLine(j, l, more(b), told, "failed")
  BY DEF FailLine
<1> HIDE DEF told, more
<1>5. CASE pc[j] \in InHotel /\ FailLine(j, at[j].line, saved[j])
  <2>1. InBooks(j, row[j], saved[j]) /\ at[j].line \in Unread(j) /\ pc[j] \in InLoop
    BY <1>5 DEF Accounts, AtWork, NextUnread, InLoop
  <2>2. at[j].line \in Lines(j) /\ at[j].line > row[j].line
    BY <2>1 DEF Unread
  <2>3. more(saved[j]) \in Tx /\ more(saved[j]).verdict = saved[j].verdict
    BY <1>1, <1>3
  <2>4. DecideLine(j, at[j].line, more(saved[j]), told, "failed")
    BY <1>4, <1>5
  <2>5. QED
    BY <1>1, <1>2, <2>1, <2>2, <2>3, <2>4, DecideLineOnward
<1>6. CASE pc[j] = "lines" /\ \E l \in Unread(j) : FailLine(j, l, tx[j])
  <2>1. PICK l \in Unread(j) : FailLine(j, l, tx[j])
    BY <1>6
  <2>2. InBooks(j, row[j], tx[j]) /\ l \in Lines(j) /\ l > row[j].line /\ pc[j] \in InLoop
    BY <1>6 DEF Accounts, Unread, InLoop
  <2>3. more(tx[j]) \in Tx /\ more(tx[j]).verdict = tx[j].verdict
    BY <1>1, <1>3
  <2>4. DecideLine(j, l, more(tx[j]), told, "failed")
    BY <1>4, <2>1
  <2>5. QED
    BY <1>1, <1>2, <2>2, <2>3, <2>4, DecideLineOnward
<1>7. CASE Propagate(j)
  <2>1. pc[j] \in InHotel /\ pc[j] \in InLoop
    BY <1>7 DEF Propagate, InHotel, InLoop
  <2>2. InBooks(j, row[j], saved[j]) /\ at[j].line \in Unread(j) /\ tx[j].verdict = saved[j].verdict
    BY <2>1 DEF Accounts, AtWork, NextUnread
  <2>3. PICK t \in Tx, d \in [Counters -> Nat], v \in {"flawed", "good"} :
          DecideLine(j, at[j].line, t, d, v) /\ t.verdict = tx[j].verdict
    BY <1>7, PropagateStep
  <2>4. at[j].line \in Lines(j) /\ at[j].line > row[j].line /\ v \in Verdicts
    BY <2>2 DEF Unread, Verdicts
  <2>5. QED
    BY <1>1, <2>1, <2>2, <2>3, <2>4, DecideLineOnward
<1>8. QED
  BY <1>5, <1>6, <1>7

\* So does every step, whatever task takes it.
LEMMA StepOnward == Books /\ [Next]_vars => file' = file /\ \A i \in Jobs : Onward(i)
<1>1. SUFFICES ASSUME Books, [Next]_vars PROVE file' = file /\ \A i \in Jobs : Onward(i)
  OBVIOUS
<1>2. Typed /\ \A i \in Jobs : Accounts(i)
  BY <1>1 DEF Books, Sound
<1>3. ASSUME UNCHANGED <<file, job, verdict>> PROVE file' = file /\ \A i \in Jobs : Onward(i)
  BY <1>2, <1>3, KeptOnward
<1>4. ASSUME NEW j \in Jobs, Start(j) \/ MarkFailed(j)
      PROVE  file' = file /\ \A i \in Jobs : Onward(i)
  <2>1. job \in [Jobs -> JobRow]
    BY <1>2 DEF Typed, Stores
  <2>2. /\ file' = file /\ verdict' = verdict
        /\ \/ job' = job \/ job' = [job EXCEPT ![j] = [@ EXCEPT !.status = "RUNNING"]]
           \/ job' = [job EXCEPT ![j] = [@ EXCEPT !.status = "FAILED"]]
    BY <1>4 DEF Start, MarkFailed
  <2>3. \A i \in Jobs : job'[i].line = job[i].line /\ job'[i].completed = job[i].completed
    <3>1. \A s : LET r == [job[j] EXCEPT !.status = s]
                 IN  r.line = job[j].line /\ r.completed = job[j].completed
      BY <2>1 DEF JobRow
    <3>2. \A i \in Jobs : i # j => job'[i] = job[i]
      BY <2>1, <2>2
    <3>3. job'[j] = job[j] \/ \E s : job'[j] = [job[j] EXCEPT !.status = s]
      BY <2>1, <2>2
    <3>4. QED
      BY <3>1, <3>2, <3>3
  <2>4. QED
    BY <1>2, <2>2, <2>3, KeptOnward
<1>5. ASSUME NEW j \in Jobs, Finish(j) PROVE file' = file /\ \A i \in Jobs : Onward(i)
  <2>1. /\ job'[j] = Finished(j) /\ verdict'[j] = Seen(j, tx[j])
        /\ \A i \in Jobs : i # j => job'[i] = job[i] /\ verdict'[i] = verdict[i]
    BY <1>2, <1>5, FinishBooks
  <2>2. Finished(j).line = row[j].line /\ Finished(j).completed
    BY <1>2, <1>5, FinishStep
  <2>3. /\ tx[j] \in Tx /\ DOMAIN tx[j].verdict \subseteq Lines(j)
        /\ file' = file /\ pc[j] = "lines"
    BY <1>2, <1>5 DEF Typed, Memories, InFile, Finish, Tasks
  <2>4. /\ InBooks(j, job[j], NoTx) /\ job[j].line <= row[j].line
        /\ \A l \in DOMAIN tx[j].verdict : l > job[j].line
    BY <1>2, <2>3 DEF Accounts, InBooks
  <2>5. \A l \in Lines(j) : verdict[j][l] # "open" => Seen(j, tx[j])[l] = verdict[j][l]
    BY <1>2, <2>3, <2>4, SeenOnward
  <2>6. Onward(j)
    BY <2>1, <2>2, <2>4, <2>5 DEF Onward
  <2>7. QED
    BY <1>2, <2>1, <2>3, <2>6, KeptOnward
<1>6. ASSUME NEW j \in Jobs, HotelStep(j) PROVE file' = file /\ \A i \in Jobs : Onward(i)
  BY <1>3, <1>6 DEF HotelStep, storeVars
<1>7. ASSUME NEW j \in Jobs, ImportLine(j) PROVE file' = file /\ \A i \in Jobs : Onward(i)
  <2>1. CASE ReadEntry(j) \/ Prefetch(j)
    BY <1>2, <1>6, <2>1, ReadEntryStep, PrefetchStep
  <2>2. CASE Create(j) \/ Upsert(j)
    <3>1. pc[j] \in InHotel
      BY <2>2 DEF Create, Upsert, InHotel
    <3>2. HotelStep(j) \/ FailLine(j, at[j].line, saved[j])
      BY <1>2, <2>2, CreateStep, UpsertStep
    <3>3. QED
      BY <1>2, <1>6, <3>1, <3>2, LineOnward
  <2>3. CASE NextLine(j)
    <3>1. pc[j] = "lines"
      BY <2>3 DEF NextLine
    <3>2. HotelStep(j) \/ \E l \in Unread(j) : FailLine(j, l, tx[j])
      BY <1>2, <2>3, NextLineStep
    <3>3. QED
      BY <1>2, <1>6, <3>1, <3>2, LineOnward
  <2>4. CASE StatementFails(j)
    BY <1>2, <2>4, LineOnward DEF StatementFails, InHotel
  <2>5. CASE Propagate(j)
    BY <1>2, <2>5, LineOnward
  <2>6. QED
    BY <1>4, <1>5, <1>7, <2>1, <2>2, <2>3, <2>4, <2>5 DEF ImportLine
<1>8. ASSUME NEW t \in Tasks, Work(t) \/ Crash(t)
      PROVE  file' = file /\ \A i \in Jobs : Onward(i)
  <2>1. CASE t \in Jobs /\ ImportLine(t)
    BY <1>7, <2>1
  <2>2. CASE ~(t \in Jobs /\ ImportLine(t))
    BY <1>2, <1>3, <1>8, <2>2, OthersBooks DEF Work
  <2>3. QED
    BY <2>1, <2>2
<1>9. CASE UNCHANGED vars
  BY <1>3, <1>9 DEF vars, storeVars
<1>10. QED
  BY <1>1, <1>8, <1>9 DEF Next

\* A final status is that of a completed job; a run in its loop says that it runs.
Final == {"PARTIAL", "COMPLETED"}
Honest(j) ==
    /\ job[j].status \in Final => job[j].completed
    /\ pc[j] \in InLoop => job[j].status = "RUNNING" /\ row[j].status = "RUNNING"

\* The status only becomes final with the end of a run, and then says how the lines went.
Flawed(j) == Decided(j, {"flawed", "failed"}) # {}
Restated(j) ==
    \/ job'[j].status = job[j].status
    \/ job'[j].status \notin Final
    \/ /\ job[j].status \notin Final /\ job'[j].completed
       /\ job'[j].status = IF Flawed(j)' THEN "PARTIAL" ELSE "COMPLETED"

\* A run that is left alone restates nothing.
LEMMA AloneHonest ==
    ASSUME NEW j \in Jobs, Honest(j), Alone(j)
    PROVE  Honest(j)' /\ Restated(j)
  BY DEF Honest, Alone, Restated

\* A line that ends commits the row of a run that runs, if anything.
LEMMA EndsHonest ==
    ASSUME Typed, \A i \in Jobs : Honest(i), NEW j \in Jobs, pc[j] \in InLoop,
           NEW t, NEW n, Ends(j, t, n)
    PROVE  \A i \in Jobs : Honest(i)' /\ Restated(i)
<1>1. job[j].status = "RUNNING" /\ row[j].status = "RUNNING"
  BY DEF Honest
<1>2. row'[j].status = "RUNNING" /\ job'[j].status = "RUNNING"
  BY <1>1 DEF Ends
<1>3. Honest(j)' /\ Restated(j)
  BY <1>1, <1>2 DEF Honest, Restated, Final
<1>4. ASSUME NEW i \in Jobs, i # j PROVE Honest(i)' /\ Restated(i)
  <2>1. pc \in [Tasks -> Steps] /\ i \in Tasks
    BY DEF Typed, Normalizations, Tasks
  <2>2. pc'[i] = pc[i] /\ row'[i] = row[i] /\ job'[i] = job[i]
    BY <1>4, <2>1 DEF Ends
  <2>3. QED
    BY <2>2 DEF Honest, Restated
<1>5. QED
  BY <1>3, <1>4

\* A step within a hotel states nothing.
LEMMA HotelStepHonest ==
    ASSUME \A i \in Jobs : Honest(i), NEW j \in Jobs, pc[j] \in InLoop, HotelStep(j)
    PROVE  \A i \in Jobs : Honest(i)' /\ Restated(i)
<1>1. row' = row /\ job' = job /\ \A i \in Jobs : i # j => pc'[i] = pc[i]
  BY DEF HotelStep, storeVars, Tasks
<1>2. QED
  BY <1>1 DEF Honest, Restated

\* Starting and failing are not final.
LEMMA StatusHonest ==
    ASSUME Typed, \A i \in Jobs : Honest(i), NEW j \in Jobs, Start(j) \/ MarkFailed(j)
    PROVE  \A i \in Jobs : Honest(i)' /\ Restated(i)
<1>1. /\ pc \in [Tasks -> Steps] /\ \A i \in Jobs : i \in Tasks
      /\ job \in [Jobs -> JobRow] /\ row \in [Jobs -> JobRow]
  BY DEF Typed, Normalizations, Stores, Memories, Tasks
<1>2. "acking" \notin InLoop
  BY DEF InLoop, InHotel
<1>3. /\ \A i \in Jobs : i # j => pc'[i] = pc[i] /\ job'[i] = job[i] /\ row'[i] = row[i]
      /\ \/ job'[j] = job[j] /\ pc'[j] = "acking"
         \/ job'[j].status = "RUNNING" /\ row'[j] = job'[j]
         \/ job'[j].status = "FAILED" /\ pc'[j] = "acking"
  <2>1. CASE Start(j)
    <3>1. \/ pc' = [pc EXCEPT ![j] = "acking"] /\ UNCHANGED <<job, row>>
          \/ /\ job' = [job EXCEPT ![j].status = "RUNNING"] /\ row' = [row EXCEPT ![j] = job'[j]]
             /\ pc' = [pc EXCEPT ![j] = "acking"] \/ pc' = [pc EXCEPT ![j] = "lines"]
      BY <2>1 DEF Start
    <3>2. CASE pc' = [pc EXCEPT ![j] = "acking"] /\ UNCHANGED <<job, row>>
      BY <1>1, <3>2
    <3>3. CASE /\ job' = [job EXCEPT ![j].status = "RUNNING"]
               /\ row' = [row EXCEPT ![j] = job'[j]]
               /\ pc' = [pc EXCEPT ![j] = "acking"] \/ pc' = [pc EXCEPT ![j] = "lines"]
      <4>1. \A i \in Jobs : i # j => pc'[i] = pc[i]
        BY <1>1, <3>3
      <4>2. row'[j] = job'[j] /\ \A i \in Jobs : i # j => row'[i] = row[i]
        BY <1>1, <3>3
      <4>3. job'[j].status = "RUNNING" /\ \A i \in Jobs : i # j => job'[i] = job[i]
        BY <1>1, <3>3 DEF JobRow
      <4>4. QED
        BY <4>1, <4>2, <4>3
    <3>4. QED
      BY <3>1, <3>2, <3>3
  <2>2. CASE MarkFailed(j)
    <3>1. /\ job' = [job EXCEPT ![j].status = "FAILED"] /\ row' = row
          /\ pc' = [pc EXCEPT ![j] = "acking"]
      BY <2>2 DEF MarkFailed
    <3>2. QED
      BY <1>1, <3>1 DEF JobRow
  <2>3. QED
    BY <2>1, <2>2
<1>4. Honest(j)' /\ Restated(j)
  BY <1>2, <1>3 DEF Honest, Restated, Final
<1>5. \A i \in Jobs : i # j => Honest(i)' /\ Restated(i)
  BY <1>3 DEF Honest, Restated
<1>6. QED
  BY <1>4, <1>5

\* The books tell the verdicts in the next state too.
LEMMA BooksTellNext == Books' => CountersTellTheFile'
  BY BooksTell, PTL

\* The final status a run stores agrees with the verdicts (run, _final_status).
LEMMA FinishHonest ==
    ASSUME Books, Books', \A i \in Jobs : Honest(i), NEW j \in Jobs, Finish(j)
    PROVE  \A i \in Jobs : Honest(i)' /\ Restated(i)
<1>1. /\ Typed /\ Typed' /\ (\A i \in Jobs : Accounts(i)) /\ pc \in [Tasks -> Steps]
      /\ \A i \in Jobs : i \in Tasks
  BY DEF Books, Sound, Typed, Normalizations, Tasks
<1>2. /\ job'[j] = Finished(j) /\ \A i \in Jobs : i # j => job'[i] = job[i]
  BY <1>1, FinishBooks
<1>3. /\ Finished(j).completed /\ Finished(j).n = row[j].n
      /\ Finished(j).status = IF row[j].n["failed"] > 0 \/ row[j].n["flawed"] > 0
                              THEN "PARTIAL" ELSE "COMPLETED"
      /\ pc' = [pc EXCEPT ![j] = IF Ranks(row[j]) THEN "listing" ELSE "acking"]
  BY <1>1, FinishStep
<1>4. pc[j] = "lines" /\ row' = [row EXCEPT ![j] = Finished(j)]
  BY DEF Finish, Finished
<1>5. /\ job'[j].n["failed"] = Cardinality(Decided(j, {"failed"}))'
      /\ (job'[j].n["flawed"] > 0) = (Decided(j, {"flawed"}) # {})'
  BY BooksTellNext DEF CountersTellTheFile
<1>6. Flawed(j)' = (job'[j].n["failed"] > 0 \/ job'[j].n["flawed"] > 0)
  <2> DEFINE failed == Decided(j, {"failed"})'
             flawed == Decided(j, {"flawed"})'
  <2>1. IsFiniteSet(Lines(j)')
    <3>1. Len(file'[j]) \in Nat
      BY <1>1, SentimentAssumption, LenProperties DEF Typed
    <3>2. QED
      BY <3>1, FS_Interval DEF Lines
  <2>2. failed \subseteq Lines(j)' /\ Flawed(j)' = (failed # {} \/ flawed # {})
    BY DEF Decided, Flawed
  <2> HIDE DEF failed, flawed
  <2>3. IsFiniteSet(failed) /\ Cardinality(failed) \in Nat
    BY <2>1, <2>2, FS_Subset, FS_CardinalityType
  <2>4. Cardinality(failed) > 0 <=> failed # {}
    BY <2>3, FS_EmptySet
  <2>5. job'[j].n["failed"] = Cardinality(failed) /\ (job'[j].n["flawed"] > 0) = (flawed # {})
    BY <1>5 DEF failed, flawed
  <2>6. QED
    BY <2>2, <2>4, <2>5
<1>7. job'[j].completed /\ job'[j].status = IF Flawed(j)' THEN "PARTIAL" ELSE "COMPLETED"
  BY <1>2, <1>3, <1>6
<1>8. job[j].status = "RUNNING" /\ pc'[j] \notin InLoop
  BY <1>1, <1>3, <1>4 DEF Honest, InLoop, InHotel
<1>9. Honest(j)' /\ Restated(j)
  BY <1>7, <1>8 DEF Honest, Restated, Final
<1>10. ASSUME NEW i \in Jobs, i # j PROVE Honest(i)' /\ Restated(i)
  <2>1. pc'[i] = pc[i] /\ row'[i] = row[i] /\ job'[i] = job[i]
    BY <1>1, <1>2, <1>3, <1>4, <1>10 DEF Typed, Memories
  <2>2. QED
    BY <2>1 DEF Honest, Restated
<1>11. QED
  BY <1>9, <1>10

\* The line loop of a job.
LEMMA ImportLineHonest ==
    ASSUME Books, Books', \A i \in Jobs : Honest(i), NEW j \in Jobs, ImportLine(j)
    PROVE  \A i \in Jobs : Honest(i)' /\ Restated(i)
<1>1. Typed /\ tx[j] \in Tx /\ saved[j] \in Tx
  BY DEF Books, Sound, Typed, Memories, Tasks
<1>2. \A step \in InHotel \cup {"lines"} : step \in InLoop
  BY DEF InLoop
<1>3. ASSUME FailLine(j, at[j].line, saved[j]), pc[j] \in InHotel
      PROVE  \A i \in Jobs : Honest(i)' /\ Restated(i)
  <2>1. at[j].line \in Lines(j)
    BY <1>1, <1>3, EntryTyped
  <2>2. Ends(j, saved[j], 0)
    BY <1>1, <2>1, <1>3, FailLineEnds
  <2>3. QED
    BY <1>1, <1>2, <1>3, <2>2, EndsHonest
<1>4. CASE Start(j) \/ MarkFailed(j)
  BY <1>1, <1>4, StatusHonest
<1>5. CASE Finish(j)
  BY <1>5, FinishHonest
<1>6. CASE NextLine(j)
  <2>1. pc[j] = "lines"
    BY <1>6 DEF NextLine
  <2>2. (\E l \in Unread(j) : FailLine(j, l, tx[j])) \/ HotelStep(j)
    BY <1>1, <1>6, NextLineStep
  <2>3. CASE \E l \in Unread(j) : FailLine(j, l, tx[j])
    <3>1. PICK l \in Lines(j) : FailLine(j, l, tx[j])
      BY <2>3 DEF Unread
    <3>2. Ends(j, tx[j], 0)
      BY <1>1, <3>1, FailLineEnds
    <3>3. QED
      BY <1>1, <1>2, <2>1, <3>2, EndsHonest
  <2>4. QED
    BY <1>2, <2>1, <2>2, <2>3, HotelStepHonest
<1>7. CASE ReadEntry(j) \/ Prefetch(j)
  <2>1. pc[j] \in InHotel
    BY <1>7 DEF ReadEntry, Prefetch, InHotel
  <2>2. QED
    BY <1>1, <1>2, <1>7, <2>1, ReadEntryStep, PrefetchStep, HotelStepHonest
<1>8. CASE Create(j) \/ Upsert(j)
  <2>1. pc[j] \in InHotel
    BY <1>8 DEF Create, Upsert, InHotel
  <2>2. HotelStep(j) \/ FailLine(j, at[j].line, saved[j])
    BY <1>1, <1>8, CreateStep, UpsertStep
  <2>3. QED
    BY <1>2, <1>3, <2>1, <2>2, HotelStepHonest
<1>9. CASE StatementFails(j)
  BY <1>3, <1>9 DEF StatementFails, InHotel
<1>10. CASE Propagate(j)
  <2>1. pc[j] \in InHotel
    BY <1>10 DEF Propagate, InHotel
  <2>2. PICK t \in Tx, d \in [Counters -> Nat], v \in {"flawed", "good"} :
           DecideLine(j, at[j].line, t, d, v)
    BY <1>1, <1>10, PropagateStep
  <2>3. at[j].line \in Lines(j) /\ v \in Verdicts
    BY <1>1, <2>1, EntryTyped DEF Verdicts
  <2>4. Ends(j, t, d["applied"])
    BY <1>1, <2>2, <2>3, DecideLineEnds
  <2>5. QED
    BY <1>1, <1>2, <2>1, <2>4, EndsHonest
<1>11. QED
  BY <1>4, <1>5, <1>6, <1>7, <1>8, <1>9, <1>10 DEF ImportLine

\* Every step leaves the statuses honest.
LEMMA HonestNext ==
    ASSUME Books, \A i \in Jobs : Honest(i), [Next]_vars
    PROVE  \A i \in Jobs : Honest(i)' /\ Restated(i)
<1>1. Typed /\ Books'
  BY BooksNext DEF Books, Sound
<1>2. ASSUME NEW t \in Tasks, Work(t) \/ Crash(t)
      PROVE  \A i \in Jobs : Honest(i)' /\ Restated(i)
  <2>1. CASE t \in Jobs /\ ImportLine(t)
    BY <1>1, <2>1, ImportLineHonest
  <2>2. CASE TakeRow(t)
    BY <1>1, <2>2, TakeRowAlone, AloneHonest
  <2>3. CASE /\ ~(t \in Jobs /\ ImportLine(t))
             /\ ~TakeRow(t)
    <3>1. /\ \A i \in Jobs : i # t => Alone(i)
          /\ pc'[t] \notin InLoop /\ job' = job
      BY <1>1, <1>2, <2>3, OthersAlone DEF Work
    <3>2. t \in Jobs => Honest(t)' /\ Restated(t)
      BY <3>1 DEF Honest, Restated
    <3>3. QED
      BY <3>1, <3>2, AloneHonest
  <2>4. QED
    BY <2>1, <2>2, <2>3
<1>3. CASE UNCHANGED vars
  BY <1>3 DEF vars, storeVars, Honest, Restated
<1>4. QED
  BY <1>2, <1>3 DEF Next

\* What the ledger shows of a job.
Position(j) == IF job[j].completed THEN Len(file[j]) ELSE job[j].line
Shown(j, l) ==
    IF file[j][l].kind = "blank"
    THEN IF job[j].completed \/ l <= job[j].line THEN "ok" ELSE "open"
    ELSE CASE verdict[j][l] = "good" -> "ok"
           [] verdict[j][l] = "open" -> "open"
           [] OTHER                  -> "bad"
Standing(j) ==
    CASE job[j].status = "COMPLETED" -> "complete"
      [] job[j].status = "PARTIAL"   -> "partial"
      [] OTHER                       -> "open"

\* When books that are in order move on, the lines between the positions get a verdict and the
\* others keep theirs.
LEMMA LinesOnward ==
    ASSUME Typed, Typed', NEW j \in Jobs, file' = file, Onward(j),
           InBooks(j, job[j], NoTx), InBooks(j, job[j], NoTx)', Closed(j), Closed(j)'
    PROVE  /\ Position(j)' \in Position(j) .. Len(file[j]) /\ Position(j)' \in 0 .. Len(file[j])
           /\ \A l \in Lines(j) : IF l \in Position(j) + 1 .. Position(j)'
                                  THEN Shown(j, l)' \in {"ok", "bad"}
                                  ELSE Shown(j, l)' = Shown(j, l)
<1>1. /\ \A l \in Lines(j) : /\ l \in Nat /\ l > 0 /\ l <= Len(file[j])
                             /\ verdict[j][l] \in Verdicts
                             /\ verdict[j][l] # "open" <=> l <= job[j].line /\ Readable(j, l)
      /\ job[j].line \in 0 .. Len(file[j]) /\ Len(file[j]) \in Nat
      /\ job[j].completed \in BOOLEAN
  BY CommittedLines DEF Lined
<1>2. /\ \A l \in Lines(j) : /\ verdict'[j][l] \in Verdicts
                             /\ verdict'[j][l] # "open" <=> l <= job'[j].line /\ Readable(j, l)
      /\ job'[j].line \in 0 .. Len(file[j])
      /\ job'[j].completed \in BOOLEAN
  <2>1. Lines(j)' = Lines(j) /\ \A l : Readable(j, l)' = Readable(j, l)
    BY DEF Lines, Readable
  <2>2. Lined(j)'
    BY CommittedLinesNext
  <2>3. QED
    BY <2>1, <2>2 DEF Lined, Readable
<1>3. /\ job[j].line <= job'[j].line /\ (job[j].completed => job'[j].completed)
      /\ \A l \in Lines(j) : verdict[j][l] # "open" => verdict'[j][l] = verdict[j][l]
  BY DEF Onward
<1>4. /\ job[j].completed => \A l \in Lines(j) : l > job[j].line => ~Readable(j, l)
      /\ job'[j].completed => \A l \in Lines(j) : l > job'[j].line => ~Readable(j, l)
  BY DEF Closed, Lines, Readable
<1>5. /\ Position(j) = IF job[j].completed THEN Len(file[j]) ELSE job[j].line
      /\ Position(j)' = IF job'[j].completed THEN Len(file[j]) ELSE job'[j].line
  BY DEF Position
<1>6. Position(j)' \in Position(j) .. Len(file[j]) /\ Position(j)' \in 0 .. Len(file[j])
  BY <1>1, <1>2, <1>3, <1>5
<1>7. ASSUME NEW l \in Lines(j)
      PROVE  IF l \in Position(j) + 1 .. Position(j)' THEN Shown(j, l)' \in {"ok", "bad"}
             ELSE Shown(j, l)' = Shown(j, l)
  <2>0. /\ ~Readable(j, l) =>
             /\ Shown(j, l) = IF job[j].completed \/ l <= job[j].line THEN "ok" ELSE "open"
             /\ Shown(j, l)' = IF job'[j].completed \/ l <= job'[j].line THEN "ok" ELSE "open"
        /\ Readable(j, l) =>
             /\ Shown(j, l) = CASE verdict[j][l] = "good" -> "ok"
                                [] verdict[j][l] = "open" -> "open" [] OTHER -> "bad"
             /\ Shown(j, l)' = CASE verdict'[j][l] = "good" -> "ok"
                                 [] verdict'[j][l] = "open" -> "open" [] OTHER -> "bad"
    BY DEF Readable, Shown
  <2>1. CASE l \in Position(j) + 1 .. Position(j)'
    <3>1. ~job[j].completed /\ l > job[j].line
      BY <1>1, <1>2, <1>5, <2>1
    <3>2. CASE Readable(j, l)
      <4>1. l <= job'[j].line
        BY <1>1, <1>2, <1>4, <1>5, <2>1, <3>2
      <4>2. verdict'[j][l] # "open"
        BY <1>2, <3>2, <4>1
      <4>3. QED
        BY <2>0, <2>1, <3>2, <4>2
    <3>3. CASE ~Readable(j, l)
      <4>1. job'[j].completed \/ l <= job'[j].line
        BY <1>1, <1>2, <1>5, <2>1
      <4>2. QED
        BY <2>0, <2>1, <3>3, <4>1
    <3>4. QED
      BY <3>2, <3>3
  <2>2. CASE l \notin Position(j) + 1 .. Position(j)'
    <3>1. l <= Position(j) \/ l > Position(j)'
      BY <1>1, <1>2, <1>5, <2>2
    <3>2. CASE Readable(j, l)
      <4>1. verdict'[j][l] = verdict[j][l]
        <5>1. CASE verdict[j][l] # "open"
          BY <1>3, <5>1
        <5>2. CASE verdict[j][l] = "open"
          <6>1. l > job[j].line
            BY <1>1, <3>2, <5>2
          <6>2. l > Position(j)'
            BY <1>1, <1>4, <1>5, <3>1, <3>2, <6>1
          <6>3. l > job'[j].line
            BY <1>1, <1>2, <1>5, <6>2
          <6>4. QED
            BY <1>1, <1>2, <5>2, <6>3
        <5>3. QED
          BY <5>1, <5>2
      <4>2. QED
        BY <2>0, <2>2, <3>2, <4>1
    <3>3. CASE ~Readable(j, l)
      <4>1. (job'[j].completed \/ l <= job'[j].line) = (job[j].completed \/ l <= job[j].line)
        <5>1. CASE l <= Position(j)
          <6>1. job[j].completed \/ l <= job[j].line
            BY <1>5, <5>1
          <6>2. job'[j].completed \/ l <= job'[j].line
            BY <1>1, <1>2, <1>3, <6>1
          <6>3. QED
            BY <6>1, <6>2
        <5>2. CASE l > Position(j)'
          <6>1. ~(job'[j].completed \/ l <= job'[j].line)
            BY <1>1, <1>2, <1>5, <5>2
          <6>2. ~(job[j].completed \/ l <= job[j].line)
            BY <1>1, <1>2, <1>3, <6>1
          <6>3. QED
            BY <6>1, <6>2
        <5>3. QED
          BY <3>1, <5>1, <5>2
      <4>2. QED
        BY <2>0, <2>2, <3>3, <4>1
    <3>4. QED
      BY <3>2, <3>3
  <2>3. QED
    BY <2>1, <2>2
<1>8. QED
  BY <1>6, <1>7

\* The ledger of a job in these terms.
LEMMA LedgerShows ==
    ASSUME NEW j \in Jobs, file' = file
    PROVE  /\ (/\ Position(j)' = Position(j)
               /\ \A l \in Lines(j) : Shown(j, l)' = Shown(j, l))
                 => /\ Standing(j)' = Standing(j) => UNCHANGED Ledger(j)!vars
                    /\ Standing(j) \in {"partial", "complete"} /\ Standing(j)' = "open"
                          => Ledger(j)!Reopen
           /\ \A p : /\ p \in Position(j) .. Len(file[j]) /\ Position(j)' = p
                     /\ \A l \in Lines(j) : IF l \in Position(j) + 1 .. p
                                            THEN Shown(j, l)' \in {"ok", "bad"}
                                            ELSE Shown(j, l)' = Shown(j, l)
                     => Ledger(j)!DecideUpTo(p)
<1> DEFINE shown == [l \in Lines(j) |-> Shown(j, l)]
<1>1. Lines(j)' = Lines(j) /\ Lines(j) = 1 .. Len(file[j])
  BY DEF Lines
<1>2. /\ DOMAIN shown' = DOMAIN shown /\ DOMAIN shown = Lines(j)
      /\ \A l \in Lines(j) : shown[l] = Shown(j, l) /\ shown'[l] = Shown(j, l)'
  BY <1>1
<1>3. ASSUME \A l \in Lines(j) : Shown(j, l)' = Shown(j, l) PROVE shown' = shown
  BY <1>1, <1>3
<1>4. ASSUME Position(j)' = Position(j), Standing(j)' = Standing(j), shown' = shown
      PROVE  UNCHANGED Ledger(j)!vars
  BY <1>4 DEF Ledger!vars, Position, Standing, Shown
<1>5. ASSUME Position(j)' = Position(j), shown' = shown,
             Standing(j) \in {"partial", "complete"}, Standing(j)' = "open"
      PROVE  Ledger(j)!Reopen
  BY <1>5 DEF Ledger!Reopen, Position, Standing, Shown
<1>6. ASSUME NEW p, p \in Position(j) .. Len(file[j]), Position(j)' = p,
             \A l \in Lines(j) : IF l \in Position(j) + 1 .. p
                                 THEN Shown(j, l)' \in {"ok", "bad"}
                                 ELSE Shown(j, l)' = Shown(j, l)
      PROVE  Ledger(j)!DecideUpTo(p)
  <2>1. /\ \A r \in 1 .. Len(file[j]) :
              IF r \in Position(j) + 1 .. p THEN shown'[r] \in {"ok", "bad"}
                                            ELSE shown'[r] = shown[r]
        /\ DOMAIN shown' = DOMAIN shown /\ Len(file'[j]) = Len(file[j])
    BY <1>1, <1>2, <1>6
  <2>2. QED
    BY <1>6, <2>1 DEF Ledger!DecideUpTo, Position, Shown
<1>7. QED
  BY <1>3, <1>4, <1>5, <1>6

\* A job whose books move on moves on in its ledger, or shows what it showed.
LEMMA LedgerMoves ==
    ASSUME Typed, Typed', NEW j \in Jobs, file' = file, Onward(j),
           InBooks(j, job[j], NoTx), InBooks(j, job[j], NoTx)', Closed(j), Closed(j)',
           Honest(j), Honest(j)', Restated(j)
    PROVE  [Ledger(j)!Next]_(Ledger(j)!vars)
<1>0. PICK p : p = Position(j)'
  OBVIOUS
<1>1. /\ p \in Position(j) .. Len(file[j]) /\ p \in 0 .. Len(file[j])
      /\ \A l \in Lines(j) : IF l \in Position(j) + 1 .. p THEN Shown(j, l)' \in {"ok", "bad"}
                             ELSE Shown(j, l)' = Shown(j, l)
  BY <1>0, LinesOnward
<1>2. Lined(j) /\ Lined(j)' /\ Lines(j)' = Lines(j)
  BY CommittedLines, CommittedLinesNext DEF Lines
<1>3. Ledger(j)!DecideUpTo(p)
  BY <1>0, <1>1, LedgerShows
<1>4. /\ job[j].status \in Final <=> Standing(j) \in {"partial", "complete"}
      /\ job'[j].status \in Final <=> Standing(j)' \in {"partial", "complete"}
      /\ job[j].status \notin Final <=> Standing(j) = "open"
      /\ job'[j].status \notin Final <=> Standing(j)' = "open"
      /\ job'[j].status = job[j].status => Standing(j)' = Standing(j)
      /\ job'[j].status = "PARTIAL" => Standing(j)' = "partial"
      /\ job'[j].status = "COMPLETED" => Standing(j)' = "complete"
  BY DEF Standing, Final
<1>5. CASE job[j].status \in Final
  <2>1. /\ job[j].completed /\ job'[j].completed
        /\ p = Len(file[j]) /\ Position(j) = Len(file[j])
    BY <1>0, <1>5 DEF Onward, Position, Honest
  <2>2. \A l \in Lines(j) : Shown(j, l)' = Shown(j, l)
    <3>1. Len(file[j]) \in Nat /\ Position(j) + 1 .. p = {}
      BY <1>2, <2>1 DEF Lined
    <3>2. QED
      BY <1>1, <3>1
  <2>3. \/ Standing(j)' = Standing(j)
        \/ Standing(j) \in {"partial", "complete"} /\ Standing(j)' = "open"
    BY <1>4, <1>5 DEF Restated
  <2>4. UNCHANGED Ledger(j)!vars \/ Ledger(j)!Reopen
    BY <1>0, <2>1, <2>2, <2>3, LedgerShows
  <2>5. QED
    BY <2>4 DEF Ledger!Next
<1>6. CASE job[j].status \notin Final /\ job'[j].status \notin Final
  <2>1. Standing(j) = "open" /\ Standing(j)' = "open"
    BY <1>4, <1>6
  <2>2. Ledger(j)!Advance
    BY <1>1, <1>3, <2>1 DEF Ledger!Advance, Standing
  <2>3. QED
    BY <2>2 DEF Ledger!Next
<1>7. CASE job[j].status \notin Final /\ job'[j].status \in Final
  <2>1. /\ job'[j].completed
        /\ job'[j].status = IF Flawed(j)' THEN "PARTIAL" ELSE "COMPLETED"
    BY <1>7 DEF Restated
  <2>2. p = Len(file[j])
    BY <1>0, <2>1 DEF Position
  <2>3. Flawed(j)' = \E l \in Lines(j) : Shown(j, l)' = "bad"
    <3>1. \A l \in Lines(j) : /\ verdict'[j][l] \in Verdicts
                              /\ verdict'[j][l] # "open" => file'[j][l].kind # "blank"
      BY <1>2 DEF Lined, Readable
    <3>2. \A l \in Lines(j) : verdict'[j][l] \in {"flawed", "failed"} <=> Shown(j, l)' = "bad"
      BY <3>1 DEF Shown, Verdicts
    <3>3. QED
      BY <1>2, <3>2 DEF Flawed, Decided
  <2>4. /\ Standing(j) = "open"
        /\ Standing(j)' = IF \E l \in Lines(j) : Shown(j, l)' = "bad" THEN "partial"
                          ELSE "complete"
    BY <1>4, <1>7, <2>1, <2>3
  <2> DEFINE shown == [l \in Lines(j) |-> Shown(j, l)]
  <2>5. \A l \in Lines(j) : shown'[l] = Shown(j, l)'
    BY <1>2
  <2>6. Standing(j)' = IF \E r \in 1 .. Len(file[j]) : shown'[r] = "bad" THEN "partial"
                       ELSE "complete"
    BY <2>4, <2>5 DEF Lines
  <2>7. Ledger(j)!DecideUpTo(Len(file[j]))
    BY <1>3, <2>2 DEF Ledger!DecideUpTo
  <2>8. Ledger(j)!Close
    BY <2>4, <2>6, <2>7 DEF Ledger!Close, Standing, Shown
  <2>9. QED
    BY <2>8 DEF Ledger!Next
<1>8. QED
  BY <1>5, <1>6, <1>7

\* The ledger of a job starts with nothing decided.
LEMMA InitLedger == Init => \A j \in Jobs : Ledger(j)!Init
<1>1. SUFFICES ASSUME Init, NEW j \in Jobs PROVE Ledger(j)!Init
  OBVIOUS
<1>2. /\ ~job[j].completed /\ job[j].status = "PENDING" /\ job[j].line = 0 /\ Len(file[j]) \in Nat
      /\ verdict[j] = [l \in Lines(j) |-> "open"]
  <2>1. Typed
    BY <1>1, InitTyped
  <2>2. file[j] \in Seq(Line)
    BY <2>1, SentimentAssumption DEF Typed
  <2>3. QED
    BY <1>1, <2>2, LenProperties DEF Init, NewJob
<1>3. \A l \in Lines(j) : verdict[j][l] = "open" /\ ~(l <= job[j].line)
  BY <1>2 DEF Lines
<1>4. [l \in Lines(j) |-> Shown(j, l)] = [r \in 1 .. Len(file[j]) |-> "open"]
  BY <1>2, <1>3 DEF Shown, Lines
<1>5. QED
  BY <1>2, <1>4 DEF Ledger!Init, Shown

\* Every job decides the lines of its file in order and for good, and its final status agrees
\* with the verdicts: the import implements ImportLedger, job by job, through batches,
\* rolled-back hotels, deaths, failed runs and deliveries that come back.
THEOREM EveryJobIsALedger == Spec => LedgerSpec
<1> DEFINE Told == Books /\ \A i \in Jobs : Honest(i)
<1>1. Told /\ [Next]_vars => Told' /\ \A j \in Jobs : [Ledger(j)!Next]_(Ledger(j)!vars)
  <2>1. SUFFICES ASSUME Told, [Next]_vars
                 PROVE  Told' /\ \A j \in Jobs : [Ledger(j)!Next]_(Ledger(j)!vars)
    OBVIOUS
  <2>2. Books' /\ file' = file /\ \A j \in Jobs : Onward(j)
    BY <2>1, BooksNext, StepOnward
  <2>3. \A j \in Jobs : Honest(j)' /\ Restated(j)
    BY <2>1, HonestNext
  <2>4. ASSUME NEW j \in Jobs PROVE [Ledger(j)!Next]_(Ledger(j)!vars)
    <3>1. /\ Typed /\ Typed' /\ InBooks(j, job[j], NoTx) /\ Closed(j)
          /\ InBooks(j, job[j], NoTx)' /\ Closed(j)'
      BY <2>1, <2>2 DEF Books, Sound, Accounts
    <3>2. QED
      BY <2>1, <2>2, <2>3, <3>1, LedgerMoves
  <2>5. QED
    BY <2>2, <2>3, <2>4
<1>2. Init => Told
  <2>1. Init => \A i \in Jobs : Honest(i)
    BY DEF Init, Honest, NewJob, Final, InLoop, InHotel, Tasks
  <2>2. QED
    BY <2>1, InitBooks
<1>3. QED
  BY <1>1, <1>2, InitLedger, PTL DEF Spec, LedgerSpec
-----------------------------------------------------------------------------
(* Work goes on                                                            *)

\* What a step does for a task and to the others.
StepOf(t) ==
    /\ failures' = failures => Nearer(t)
    /\ \A u \in Tasks \ {t} : Unmoved(u)

\* How many steps the places of a run are from its end.
LEMMA StepsInOrder ==
    /\ StepsLeft("queued") = 6 /\ StepsLeft("recalculating") = 5 /\ StepsLeft("scoring") = 5
    /\ StepsLeft("listing") = 4 /\ StepsLeft("ranking") = 3 /\ StepsLeft("writing") = 2
    /\ StepsLeft("acking") = 1 /\ StepsLeft("done") = 0
    /\ \A step \in InLoop : StepsLeft(step) = 5
    /\ HotelStepsLeft("lines") = 3 /\ HotelStepsLeft("entries") = 2
    /\ HotelStepsLeft("creating") = 2 /\ HotelStepsLeft("upserting") = 1
    /\ HotelStepsLeft("propagating") = 0
  BY DEF StepsLeft, HotelStepsLeft, InLoop, InHotel

\* The functions a step changes for one task.
LEMMA TaskFunctions ==
    ASSUME Typed
    PROVE  /\ pc \in [Tasks -> Steps] /\ DOMAIN todo = Tasks /\ failures \in Nat
           /\ row \in [Jobs -> JobRow] /\ at \in [Jobs -> [line: Nat, entry: Nat]]
           /\ queue \in [Tasks -> Seq(Lock)] /\ Jobs \subseteq Tasks
  BY DEF Typed, Memories, Normalizations, Tasks

\* The end of a line after the checkpoint is progress, whatever becomes of the line.
LEMMA DecideLineNearer ==
    ASSUME Typed, NEW j \in Jobs, pc[j] \in InLoop, NEW l \in Unread(j), NEW t, NEW d, NEW v,
           DecideLine(j, l, t, d, v)
    PROVE  StepOf(j)
<1> DEFINE r == [row[j] EXCEPT !.line = l, !.n = Plus(@, d)]
<1>1. /\ row' = [row EXCEPT ![j] = r] /\ pc' = [pc EXCEPT ![j] = "lines"]
      /\ at' = [at EXCEPT ![j] = [line |-> 0, entry |-> 0]] /\ UNCHANGED <<file, todo>>
      /\ queue' = [queue EXCEPT ![j] = <<>>]
  BY DEF DecideLine
<1>2. row[j] \in JobRow /\ r.line = l
  BY DEF Typed, Memories, JobRow
<1>3. l > row[j].line /\ l <= Len(file[j])
  BY DEF Unread, Lines
<1> HIDE DEF r
<1>4. row'[j].line = l /\ pc'[j] = "lines"
  BY <1>1, <1>2, TaskFunctions
<1>5. Nearer(j)
  BY <1>3, <1>4, StepsInOrder DEF Nearer, NearerInFile, InLoop
<1>6. \A u \in Tasks \ {j} : Unmoved(u)
  BY <1>1, TaskFunctions DEF Unmoved, InPlace
<1>7. QED
  BY <1>4, <1>5, <1>6 DEF StepOf

\* So it is when a hotel or a line fails.
LEMMA FailNearer ==
    ASSUME Typed, NEW j \in Jobs, pc[j] \in InLoop, NEW l \in Unread(j), NEW t, FailLine(j, l, t)
    PROVE  StepOf(j)
  BY DecideLineNearer DEF FailLine

\* A hotel a run works on is at a line after its checkpoint.
LEMMA LineUnread ==
    ASSUME Books, NEW j \in Jobs, pc[j] \in InHotel
    PROVE  /\ at[j].line \in Unread(j) /\ pc[j] \in InLoop /\ Typed
           /\ at[j].entry \in Nat /\ Len(file[j][at[j].line].entries) \in Nat
<1>1. at[j].line \in Unread(j) /\ Typed
  BY DEF Books, Accounts, AtWork, NextUnread, Sound
<1>2. at[j].line \in Lines(j)
  BY <1>1 DEF Unread
<1>3. QED
  BY <1>1, <1>2, LineTyped, EntryTyped DEF InLoop

\* The other tasks want the rows they wanted.
OthersQueues(j) == \A u \in Tasks \ {j} : queue'[u] = queue[u]

\* A step of a hotel that leaves the line undecided: fewer entries are left, or a later
\* statement is next.
HotelMove(j, step, place) ==
    /\ pc' = [pc EXCEPT ![j] = step] /\ at' = [at EXCEPT ![j] = place]
    /\ UNCHANGED <<file, row, todo>> /\ OthersQueues(j)
    /\ \/ HotelStepsLeft(step) < HotelStepsLeft(pc[j])
       \/ /\ HotelStepsLeft(step) = HotelStepsLeft(pc[j])
          /\ \/ /\ at[j].entry < place.entry
                /\ place.entry <= Len(file[j][at[j].line].entries) + 1
             \/ pc[j] = "entries" /\ step = "creating" /\ place = at[j]

\* Such a step (upsert_many, propagate) brings the run nearer its end.
LEMMA HotelNearer ==
    ASSUME Typed, NEW j \in Jobs, pc[j] \in InLoop, NEW step \in InHotel, NEW place,
           HotelMove(j, step, place)
    PROVE  StepOf(j)
<1>1. pc'[j] = step /\ at'[j] = place /\ row'[j].line = row[j].line
  BY TaskFunctions DEF HotelMove
<1>2. Nearer(j)
  BY <1>1, StepsInOrder DEF Nearer, NearerInFile, InLoop, HotelMove
<1>3. \A u \in Tasks \ {j} : Unmoved(u)
  BY TaskFunctions DEF Unmoved, InPlace, HotelMove, OthersQueues
<1>4. QED
  BY <1>1, <1>2, <1>3 DEF StepOf, InHotel

\* Reading an entry, creating its attribute, and the statements after the entries.
LEMMA StatementNearer ==
    ASSUME Books, NEW j \in Jobs,
           ReadEntry(j) \/ Create(j) \/ Prefetch(j) \/ Upsert(j) \/ Propagate(j)
    PROVE  StepOf(j)
<1>1. pc[j] \in InHotel /\ pc[j] \in InLoop
  BY DEF ReadEntry, Create, Prefetch, Upsert, Propagate, InHotel, InLoop
<1>2. /\ at[j].line \in Unread(j) /\ Typed
      /\ at[j].entry \in Nat /\ Len(file[j][at[j].line].entries) \in Nat
  BY <1>1, LineUnread
<1>3. /\ at[j] \in [line: Nat, entry: Nat]
      /\ [at[j] EXCEPT !.entry = @ + 1].entry = at[j].entry + 1
      /\ at = [at EXCEPT ![j] = at[j]] /\ pc = [pc EXCEPT ![j] = pc[j]]
      /\ (\E q : queue' = [queue EXCEPT ![j] = q]) \/ UNCHANGED queue => OthersQueues(j)
  BY <1>2, TaskFunctions DEF OthersQueues
<1>4. NextEntry(j) => at' = [at EXCEPT ![j] = [at[j] EXCEPT !.entry = @ + 1]]
  BY DEF NextEntry
<1>5. CASE ReadEntry(j)
  <2>1. /\ pc[j] = "entries" /\ at[j].entry <= Len(file[j][at[j].line].entries)
        /\ UNCHANGED <<file, row, todo>> /\ OthersQueues(j)
        /\ \/ pc' = [pc EXCEPT ![j] = "creating"] /\ UNCHANGED at
           \/ UNCHANGED pc /\ NextEntry(j)
    BY <1>3, <1>5 DEF ReadEntry, rankVars
  <2>2. "creating" \in InHotel /\ "entries" \in InHotel
    BY DEF InHotel
  <2>3. CASE pc' = [pc EXCEPT ![j] = "creating"] /\ UNCHANGED at
    <3>1. HotelMove(j, "creating", at[j])
      BY <1>3, <2>1, <2>3, StepsInOrder DEF HotelMove
    <3>2. QED
      BY <1>1, <1>2, <2>2, <3>1, HotelNearer
  <2>4. CASE UNCHANGED pc /\ NextEntry(j)
    <3>1. HotelMove(j, "entries", [at[j] EXCEPT !.entry = @ + 1])
      BY <1>2, <1>3, <1>4, <2>1, <2>4 DEF HotelMove
    <3>2. QED
      BY <1>1, <1>2, <2>2, <3>1, HotelNearer
  <2>5. QED
    BY <2>1, <2>3, <2>4
<1>6. CASE Create(j)
  <2>1. CASE FailLine(j, at[j].line, saved[j])
    BY <1>1, <1>2, <2>1, FailNearer
  <2>2. CASE ~FailLine(j, at[j].line, saved[j])
    <3>1. /\ pc[j] = "creating" /\ pc' = [pc EXCEPT ![j] = "entries"]
          /\ UNCHANGED <<file, row, todo>> /\ NextEntry(j) /\ OthersQueues(j)
      BY <1>3, <1>6, <2>2 DEF Create, rankVars
    <3>2. at[j].entry <= Len(file[j][at[j].line].entries)
      BY <1>2, <3>1 DEF Typed, AtHotel
    <3>3. "entries" \in InHotel
      BY DEF InHotel
    <3>4. HotelMove(j, "entries", [at[j] EXCEPT !.entry = @ + 1])
      <4>1. HotelStepsLeft("entries") = HotelStepsLeft(pc[j])
        BY <3>1, StepsInOrder
      <4>2. QED
        BY <1>2, <1>3, <1>4, <3>1, <3>2, <4>1 DEF HotelMove
    <3>5. QED
      BY <1>1, <1>2, <3>3, <3>4, HotelNearer
  <2>3. QED
    BY <2>1, <2>2
<1>7. CASE Prefetch(j)
  <2>1. /\ pc[j] = "entries" /\ pc' = [pc EXCEPT ![j] = "upserting"]
        /\ UNCHANGED <<file, row, todo, at>> /\ "upserting" \in InHotel
        /\ OthersQueues(j)
    BY <1>3, <1>7 DEF Prefetch, rankVars, InHotel
  <2>2. HotelMove(j, "upserting", at[j])
    BY <1>3, <2>1, StepsInOrder DEF HotelMove
  <2>3. QED
    BY <1>1, <1>2, <2>1, <2>2, HotelNearer
<1>8. CASE Upsert(j)
  <2>1. CASE FailLine(j, at[j].line, saved[j])
    BY <1>1, <1>2, <2>1, FailNearer
  <2>2. CASE ~FailLine(j, at[j].line, saved[j])
    <3>1. /\ pc[j] = "upserting" /\ pc' = [pc EXCEPT ![j] = "propagating"]
          /\ UNCHANGED <<file, row, todo, at>> /\ "propagating" \in InHotel
          /\ OthersQueues(j)
      BY <1>3, <1>8, <2>2 DEF Upsert, rankVars, InHotel
    <3>2. HotelMove(j, "propagating", at[j])
      BY <1>3, <3>1, StepsInOrder DEF HotelMove
    <3>3. QED
      BY <1>1, <1>2, <3>1, <3>2, HotelNearer
  <2>3. QED
    BY <2>1, <2>2
<1>9. CASE Propagate(j)
  <2>1. \E t, d, v : DecideLine(j, at[j].line, t, d, v)
    BY <1>9 DEF Propagate
  <2>2. QED
    BY <1>1, <1>2, <2>1, DecideLineNearer
<1>10. QED
  BY <1>5, <1>6, <1>7, <1>8, <1>9

\* A hotel begun, a statement that fails, and the steps around the line loop.
LEMMA RunNearer ==
    ASSUME Books, NEW j \in Jobs,
           Start(j) \/ NextLine(j) \/ StatementFails(j) \/ Finish(j) \/ MarkFailed(j)
    PROVE  StepOf(j)
<1>1. Typed
  BY DEF Books, Sound
<1>2. CASE Start(j)
  <2>1. /\ pc[j] = "queued"
        /\ \/ pc' = [pc EXCEPT ![j] = "acking"] \/ pc' = [pc EXCEPT ![j] = "lines"]
        /\ \E r : row' = [row EXCEPT ![j] = r]
        /\ UNCHANGED <<file, at, todo, queue>>
    <3>1. row = [row EXCEPT ![j] = row[j]]
      BY <1>1, TaskFunctions
    <3>2. QED
      BY <1>2, <3>1 DEF Start, lineVars
  <2>2. pc'[j] \in {"acking", "lines"} /\ "lines" \in InLoop
    BY <1>1, <2>1, TaskFunctions DEF InLoop
  <2>3. Nearer(j)
    BY <2>1, <2>2, StepsInOrder DEF Nearer
  <2>4. \A u \in Tasks \ {j} : Unmoved(u)
    BY <1>1, <2>1, TaskFunctions DEF Unmoved, InPlace
  <2>5. QED
    BY <2>2, <2>3, <2>4 DEF StepOf
<1>3. CASE NextLine(j)
  <2>1. pc[j] = "lines" /\ pc[j] \in InLoop
    BY <1>3 DEF NextLine, InLoop
  <2>2. PICK l \in Unread(j) :
          \/ /\ pc' = [pc EXCEPT ![j] = "entries"]
             /\ at' = [at EXCEPT ![j] = [line |-> l, entry |-> 1]]
             /\ UNCHANGED <<file, row, todo, queue>>
          \/ FailLine(j, l, tx[j])
    BY <1>3 DEF NextLine, rankVars
  <2>3. "entries" \in InHotel
    BY DEF InHotel
  <2>4. CASE FailLine(j, l, tx[j])
    BY <1>1, <2>1, <2>4, FailNearer
  <2>5. CASE ~FailLine(j, l, tx[j])
    <3>1. HotelMove(j, "entries", [line |-> l, entry |-> 1])
      BY <2>1, <2>2, <2>5, StepsInOrder DEF HotelMove, OthersQueues
    <3>2. QED
      BY <1>1, <2>1, <2>3, <3>1, HotelNearer
  <2>6. QED
    BY <2>4, <2>5
<1>4. CASE StatementFails(j)
  <2>1. FailLine(j, at[j].line, saved[j]) /\ pc[j] \in InHotel
    BY <1>4 DEF StatementFails, InHotel
  <2>2. QED
    BY <2>1, LineUnread, FailNearer
<1>5. CASE Finish(j) \/ MarkFailed(j)
  <2>1. /\ pc[j] \in {"lines", "listing", "ranking", "writing"} /\ pc'[j] \in {"listing", "acking"}
        /\ \E step : pc' = [pc EXCEPT ![j] = step]
        /\ (\E r : row' = [row EXCEPT ![j] = r]) /\ UNCHANGED at
        /\ UNCHANGED todo \/ \E m : todo' = [todo EXCEPT ![j] = m]
        /\ UNCHANGED queue \/ queue' = [queue EXCEPT ![j] = <<>>]
        /\ pc[j] = "lines" \/ pc'[j] = "acking"
    <3>1. row = [row EXCEPT ![j] = row[j]]
      BY <1>1, TaskFunctions
    <3>2. CASE Finish(j)
      BY <1>1, <3>1, <3>2, TaskFunctions DEF Finish, lineVars
    <3>3. CASE MarkFailed(j)
      BY <1>1, <3>1, <3>3, TaskFunctions DEF MarkFailed, lineVars
    <3>4. QED
      BY <1>5, <3>2, <3>3
  <2>2. failures' = failures => Nearer(j)
    BY <1>1, <2>1, StepsInOrder, TaskFunctions DEF Nearer, InLoop
  <2>3. \A u \in Tasks \ {j} : Unmoved(u)
    BY <1>1, <2>1, TaskFunctions DEF Unmoved, InPlace
  <2>4. QED
    BY <2>1, <2>2, <2>3 DEF StepOf
<1>6. QED
  BY <1>2, <1>3, <1>4, <1>5

\* A row taken, the rescoring, the normalization, the acknowledgement, and a death.
LEMMA TaskNearer ==
    ASSUME Typed, NEW t \in Tasks,
           \/ TakeRow(t) \/ BeginHotel(t) \/ CommitHotel(t) \/ List(t) \/ ReadPopulation(t)
           \/ BeginFlush(t) \/ CommitRelative(t) \/ GiveUp(t) \/ Acknowledge(t) \/ Crash(t)
    PROVE  StepOf(t)
<1>1. ASSUME NEW step, pc' = [pc EXCEPT ![t] = step],
             (\E m : todo' = [todo EXCEPT ![t] = m]) \/ UNCHANGED todo,
             (\E q : queue' = [queue EXCEPT ![t] = q]) \/ UNCHANGED queue, UNCHANGED <<row, at>>
      PROVE  pc'[t] = step /\ InPlace(t) /\ \A u \in Tasks \ {t} : Unmoved(u)
  BY <1>1, TaskFunctions DEF Unmoved, InPlace
<1>2. CASE TakeRow(t)
  <2>1. /\ queue' = [queue EXCEPT ![t] = Tail(@)] /\ Len(queue[t]) > 1
        /\ UNCHANGED <<pc, todo, row, at>>
    BY <1>2 DEF TakeRow, lineVars, rankVars
  <2>2. queue[t] \in Seq(Lock) /\ Len(queue[t]) \in Nat
    BY TaskFunctions, LenProperties
  <2>3. Len(queue'[t]) < Len(queue[t])
    <3>1. Len(queue'[t]) = Len(queue[t]) - 1
      BY <1>2, TakeRowStep, Zenon
    <3>2. QED
      BY <2>2, <3>1
  <2>4. InPlace(t) /\ \A u \in Tasks \ {t} : Unmoved(u)
    BY <2>1, TaskFunctions DEF Unmoved, InPlace
  <2>5. Nearer(t)
    BY <2>1, <2>3, <2>4 DEF Nearer
  <2>6. QED
    BY <2>4, <2>5 DEF StepOf
<1>3. CASE BeginHotel(t)
  <2>1. PICK h \in Recalculated(t) : todo' = [todo EXCEPT ![t] = Recalculated(t) \ {h}]
    BY <1>3 DEF BeginHotel
  <2>2. /\ pc[t] \in {"queued", "recalculating"} /\ UNCHANGED <<row, at>>
        /\ pc' = [pc EXCEPT ![t] = "scoring"] /\ \E q : queue' = [queue EXCEPT ![t] = q]
    BY <1>3 DEF BeginHotel, lineVars
  <2>3. /\ pc'[t] = "scoring" /\ InPlace(t) /\ \A u \in Tasks \ {t} : Unmoved(u)
    BY <1>1, <2>1, <2>2
  <2>4. Nearer(t)
    <3>1. CASE pc[t] = "queued"
      BY <2>3, <3>1, StepsInOrder DEF Nearer
    <3>2. CASE pc[t] = "recalculating"
      <4>1. Recalculated(t) = todo[t] /\ todo'[t] = Recalculated(t) \ {h}
        BY <2>1, <3>2, TaskFunctions DEF Recalculated
      <4>2. StepsLeft(pc'[t]) = StepsLeft(pc[t])
        BY <2>3, <3>2, StepsInOrder
      <4>3. QED
        BY <2>3, <4>1, <4>2 DEF Nearer
    <3>3. QED
      BY <2>2, <3>1, <3>2
  <2>5. QED
    BY <2>3, <2>4 DEF StepOf
<1>4. CASE CommitHotel(t)
  <2>1. /\ pc[t] = "scoring" /\ UNCHANGED <<todo, row, at>>
        /\ queue' = [queue EXCEPT ![t] = <<>>]
        /\ pc' = [pc EXCEPT ![t] = IF todo[t] = {} THEN "listing" ELSE "recalculating"]
    BY <1>4 DEF CommitHotel, lineVars
  <2>2. /\ pc'[t] = "listing" \/ pc'[t] = "recalculating"
        /\ \A u \in Tasks \ {t} : Unmoved(u)
    BY <1>1, <2>1
  <2>3. Nearer(t)
    BY <2>1, <2>2, StepsInOrder DEF Nearer
  <2>4. QED
    BY <2>2, <2>3 DEF StepOf
<1>5. CASE List(t)
  <2>1. pc[t] = "listing" /\ pc'[t] = "ranking" /\ \A u \in Tasks \ {t} : Unmoved(u)
    BY <1>1, <1>5 DEF List, lineVars
  <2>2. QED
    BY <2>1, StepsInOrder DEF StepOf, Nearer
<1>6. CASE ReadPopulation(t)
  <2> DEFINE k == CHOOSE k \in todo[t] : TRUE
  <2>1. /\ pc[t] = "ranking" /\ todo[t] # {} /\ todo' = [todo EXCEPT ![t] = @ \ {k}]
        /\ UNCHANGED <<pc, row, at, queue>>
    BY <1>6 DEF ReadPopulation, lineVars
  <2>2. k \in todo[t]
    BY <2>1
  <2> HIDE DEF k
  <2>3. /\ todo'[t] = todo[t] \ {k} /\ InPlace(t)
        /\ \A u \in Tasks \ {t} : Unmoved(u)
    BY <2>1, TaskFunctions DEF Unmoved, InPlace
  <2>4. Nearer(t)
    BY <2>1, <2>2, <2>3 DEF Nearer
  <2>5. QED
    BY <2>3, <2>4 DEF StepOf
<1>7. CASE BeginFlush(t) \/ CommitRelative(t)
  <2>1. /\ \/ pc[t] = "ranking" /\ pc' = [pc EXCEPT ![t] = "writing"]
           \/ pc[t] = "writing" /\ pc' = [pc EXCEPT ![t] = "acking"]
        /\ (\E q : queue' = [queue EXCEPT ![t] = q]) /\ UNCHANGED <<todo, row, at>>
    <3>1. CASE BeginFlush(t)
      <4>1. \E q : queue' = [queue EXCEPT ![t] = q]
        BY <3>1 DEF BeginFlush
      <4>2. QED
        BY <3>1, <4>1 DEF BeginFlush, lineVars, rankVars
    <3>2. CASE CommitRelative(t)
      BY <3>2 DEF CommitRelative, lineVars
    <3>3. QED
      BY <1>7, <3>1, <3>2
  <2>2. /\ \/ pc[t] = "ranking" /\ pc'[t] = "writing"
           \/ pc[t] = "writing" /\ pc'[t] = "acking"
        /\ \A u \in Tasks \ {t} : Unmoved(u)
    BY <1>1, <2>1
  <2>3. QED
    BY <2>2, StepsInOrder DEF StepOf, Nearer
<1>8. CASE GiveUp(t)
  <2>1. /\ pc[t] \in {"recalculating", "scoring", "listing", "ranking", "writing"}
        /\ pc' = [pc EXCEPT ![t] = "done"] /\ queue' = [queue EXCEPT ![t] = <<>>]
        /\ todo' = [todo EXCEPT ![t] = {}] /\ UNCHANGED <<row, at>>
    BY <1>8 DEF GiveUp, lineVars
  <2>2. pc'[t] = "done" /\ \A u \in Tasks \ {t} : Unmoved(u)
    BY <1>1, <2>1
  <2>3. QED
    BY <2>1, <2>2, StepsInOrder DEF StepOf, Nearer
<1>9. CASE Acknowledge(t)
  <2>1. pc[t] = "acking" /\ pc'[t] = "done" /\ \A u \in Tasks \ {t} : Unmoved(u)
    BY <1>1, <1>9 DEF Acknowledge, lineVars, rankVars
  <2>2. QED
    BY <2>1, StepsInOrder DEF StepOf, Nearer
<1>10. CASE Crash(t)
  <2>1. /\ \E step : pc' = [pc EXCEPT ![t] = step]
        /\ todo' = [todo EXCEPT ![t] = {}] /\ queue' = [queue EXCEPT ![t] = <<>>]
        /\ failures' = failures + 1
        /\ \E r, p : row' = [row EXCEPT ![t] = r] /\ at' = [at EXCEPT ![t] = p]
    BY <1>10 DEF Crash
  <2>2. failures' # failures
    BY <2>1, TaskFunctions
  <2>3. \A u \in Tasks \ {t} : Unmoved(u)
    BY <2>1, TaskFunctions DEF Unmoved, InPlace
  <2>4. QED
    BY <2>2, <2>3 DEF StepOf
<1>11. QED
  BY <1>2, <1>3, <1>4, <1>5, <1>6, <1>7, <1>8, <1>9, <1>10

\* Every step is of one task, which it takes nearer to its end unless it is a failure.
LEMMA NextNearer ==
    Books /\ [Next]_vars =>
        [failures' = failures =>
            \E t \in Tasks : Nearer(t) /\ \A u \in Tasks \ {t} : Unmoved(u)]_vars
<1>1. SUFFICES ASSUME Books, [Next]_vars
               PROVE  UNCHANGED vars \/ \E t \in Tasks : StepOf(t)
  BY DEF StepOf
<1>2. Typed
  BY <1>1 DEF Books, Sound
<1>3. ASSUME NEW t \in Tasks, Work(t) \/ Crash(t) PROVE StepOf(t)
  BY <1>1, <1>2, <1>3, StatementNearer, RunNearer, TaskNearer DEF Work, ImportLine
<1>4. QED
  BY <1>1, <1>3 DEF Next

\* Of the tasks that are not done one waits for no row, or is in a cycle of waits that the
\* database breaks: who is waited for holds rows, and is not done.
LEMMA OneGoesOn ==
    ASSUME Sessions, NEW t \in Tasks, pc[t] # "done"
    PROVE  \E u \in Tasks : pc[u] # "done" /\ ~Waits(u)
<1> DEFINE Going == {u \in Tasks : pc[u] # "done"}
           E == {e \in Tasks \X Tasks : WaitsFor(e[1], e[2])}
<1>1. SUFFICES ASSUME \A u \in Going : Waits(u) PROVE FALSE
  OBVIOUS
<1>2. ASSUME NEW u \in Tasks, NEW o \in Tasks, WaitsFor(u, o) PROVE o \in Going
  <2>1. tx[o].locks # {}
    BY <1>2 DEF WaitsFor
  <2>2. tx[o] # NoTx
    BY <2>1, NoTxUnwritten
  <2>3. QED
    BY <2>2 DEF Sessions, Session, Idle
<1>3. t \in Going /\ Going \subseteq Tasks /\ \A u, o \in Tasks : <<u, o>> \in E <=> WaitsFor(u, o)
  OBVIOUS
<1> HIDE DEF Going, E
<1>4. \A u \in Going : \E o \in Going : <<u, o>> \in E
  BY <1>1, <1>2, <1>3 DEF Waits, Blocked
<1>5. IsFiniteSet(Going)
  BY <1>3, SentimentAssumption, FS_Subset
<1>6. PICK S \in SUBSET Going :
         /\ S # {}
         /\ \A i \in S : (\E o \in S : <<i, o>> \in E) /\ (\E o \in S : <<o, i>> \in E)
  BY <1>3, <1>4, <1>5, Knot
<1>7. PICK u : u \in S
  BY <1>6
<1>8. \A i \in S : (\E o \in S : WaitsFor(i, o)) /\ (\E o \in S : WaitsFor(o, i))
  BY <1>3, <1>6
<1>9. S \in SUBSET Tasks
  BY <1>3
<1>10. Deadlocked(u)
  BY <1>7, <1>8, <1>9 DEF Deadlocked
<1>11. QED
  BY <1>1, <1>6, <1>7, <1>10 DEF Waits

\* Jobs, recalculations and normalizations do not come to a standstill (run, process_reviews,
\* normalize), although they take the rows they write one by one: until all are done one waits
\* for no row, or for the database to break its cycle, and each step that is not a failure
\* takes its task nearer to its end.
THEOREM WorkGoesOn == Spec => NoStandstill
<1>1. Books => (~Quiet => \E t \in Tasks : pc[t] # "done" /\ ~Waits(t))
  BY OneGoesOn DEF Books, Quiet
<1>2. Books /\ [Next]_vars =>
        [failures' = failures =>
            \E t \in Tasks : Nearer(t) /\ \A u \in Tasks \ {t} : Unmoved(u)]_vars
  BY NextNearer
<1>3. QED
  BY <1>1, <1>2, InitBooks, BooksNext, PTL DEF Spec, NoStandstill
=============================================================================
