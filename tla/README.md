# Hotel platform: a verification project

TLA+ models of the hotel recommendation server in `src/app` (FastAPI and
SQLAlchemy over PostgreSQL, Celery over Redis, an S3 object store, a language
model behind HTTP), the TLC runs that check them and the TLAPS proofs that hold
for every value of their constants. Line numbers below are those of `src/`.

Two facts about the platform shape every model:

* PostgreSQL runs READ COMMITTED, and the sessions are built with
  `expire_on_commit=False, autoflush=False` (`app/database.py:28`): an object a
  request has loaded keeps the values it had, a flush writes the columns that
  changed since, and a pending change that is read over before a flush is lost.
* Celery acknowledges late and rejects on worker loss over a Redis broker
  (`app/workers/celery_app.py:8-36`): a task whose worker dies comes back, and one whose
  broker connection dies, or which outlives the visibility timeout, is delivered
  a second time while the first goes on. A task that raises is acknowledged, and so
  is one that the hard time limit kills (`celery_app.py:24`): neither comes back.

## Inventory

| Component (source) | State it keeps | Operations | Interacts with |
|---|---|---|---|
| Import staging (`services/imports.py`, `api/v1/admin.py:47-158`) | raw object, `import_jobs` row | `create_job`, dispatch of the task | object store, broker |
| CSV import (`orchestrators/imports.py`, `workers/tasks/jobs.py:66-84`) | job checkpoint, counters, catalog rows, issues | `run`, row handlers, `_checkpoint`, FAILED handler | catalog, broker (`process_reviews`) |
| Sentiment import (`orchestrators/sentiment_imports.py`, `repositories/sentiment.py`) | job counters, attribute taxonomy, aggregate scores | `run`, `resolve`, `upsert_many`, `upsert_aggregate_hotel_scores` | scoring, normalization |
| Review extraction and scoring (`services/scoring.py`, `repositories/catalog.py:550-842`) | processing status, mentions, hotel scores | `process_reviews`, `recalculate_hotel`, `normalize` | Redis lock, broker, language model |
| Scraper (`orchestrators/scraper.py`, `services/scraper.py`) | runs, checkpoints, failures, raw pages | `run`, `_record_failure`, `mark_failed`, retries | Redis slots, object store |
| Adaptive onboarding (`services/onboarding.py`, `repositories/onboarding.py`) | sessions, questions, answers, the user's flags | `start`, `submit`, `skip`, `adaptive_complete` | language model, preferences |
| Onboarding profile (`services/adaptive_preferences.py`) | none | answers to weights | onboarding |
| LLM adapters (`integrations/llm/`) | none | next question, its validation and retries | onboarding, chat |
| Preferences and trips (`services/preferences.py`, `services/trips.py`) | preference rows by source, trip preferences | replace, upsert, delete, `resolve_for_trip` | onboarding, chat, ranking |
| Recommendations (`services/recommendations.py`, `domain/ranking.py`) | recommendation runs, cache | `generate`, `get`, `rank_hotels` | scores, preferences |
| Chat (`orchestrators/chat.py`) | conversations, messages | turn handling, intents | trips, recommendations |
| Authentication (`services/auth.py`) | refresh tokens by family | `register`, `login`, `refresh`, `logout` | |
| Rate limit, locations, data quality, administration | counters with expiry; reference data | reads, single-statement writes | |

What makes each correct, and what makes it hard:

* **CSV import.** The checkpoint, the counters and the rows they stand for move
  together through crashes, aborts and redeliveries; a final status means that
  every row was decided; the extraction of imported reviews is requested. Hard
  because the task, its worker's memory, the transaction and the message fail
  separately.
* **Sentiment import.** A hotel's line is stored as a whole or not at all,
  review-based scores win, the counters tell the file, and rankings end up
  reading relative scores of the present scores. Hard because COMPLETED is committed
  before the normalization, taxonomies are created concurrently, and rescorings
  write the same rows.
* **Scoring.** No review stays unprocessed without a task that will look at it,
  no review is tried more than five times. Hard because of the non-blocking lock and
  of messages sent while it is held.
* **Scraper.** A page is neither skipped nor counted twice, a completed run is
  whole, and a run ends. Hard because a page's object and its checkpoint are
  stored one after the other, and executions of one run may overlap.
* **Onboarding.** The question flow stays one question at a time; a profile is
  stored only for answers that pass the gate; skips and completions are final;
  a session never stays closed to answers. Hard because a request commits
  several times, holds no lock while the provider thinks and keeps seeing what it
  had loaded.
* **Preferences, recommendations, chat.** A replacement is one step, a ranking
  follows the precedence of the sources it read, and what a user is told is what is
  stored. Hard because of DELETE-and-INSERT under READ COMMITTED, of two reads for
  one snapshot, of upserts that lock in the order of their lists, and of turns that
  commit three times.

`PROJECT.json` lists the components with their status and the hazards with the
lines where they bite.

## What is modelled

### `CsvImport`, `ImportLedger`, `MCCsvImport`, `CsvImportProofs`

One job from the upload to the acknowledgement of its task.

* *Upload.* `StoreObject`, `RejectEmpty`, `CommitJob`, `CommitJobFails`,
  `Dispatch` and `ApiCrash` are the steps of `create_job` and of the route that
  queues the task. A commit that raises may have landed.
* *Delivery.* `Receive` takes the message and loads the job (`mem`, the worker's
  in-memory row), `StartRun` commits RUNNING, `Materialize` downloads the file,
  `ProcessRow(w, ok)` is one row inside its savepoint, `FinishRun` the final
  status with the tail batch, `Abort` and `MarkFailed` the exception handler,
  `SendTrigger` the request for `process_reviews`, `Ack` the acknowledgement.
  `tx[w]` is the open transaction; what a flush stores (`Flushed`) are the columns
  in which `mem` differs from `base`, what the session last read or wrote.
* *Failures.* `Crash` (worker death, whose message returns unless it was given to
  another before; or the time limit, which acknowledges it), `Redeliver` (the message
  returns while the worker runs on), `Abort`, a request that cannot be sent
  (`SendTrigger`), and the failures that leave no mark on the row: `MaterializeFails`
  (the commit of RUNNING or the download), `MarkFailedFails`, `CommitJobFails`. What an
  execution fails to do for good is in the history variable `lost`: `"delivery"`, it
  went without its message coming back; `"mark"`, it left the job without a final
  status; `"trigger"`, its request was not sent.
* *Abstraction.* A row is the provider key it carries and whether its upserts go
  through; a key's catalog row is the number of the file row that last wrote it.
  Parsing and the columns are left out; the locks of single catalog rows are
  subsumed under that of the job row, which a flush takes before them.

`ImportLedger` is what the job promises to a reader: rows decided in order and
for good, and a final state that agrees with them. Its constant `Reopened` are the
final states that may open again: PARTIAL for this job, because only COMPLETED returns
early (`orchestrators/imports.py:54`).

| Run | Question | Result |
|---|---|---|
| `csv_sequential` | Is a job with one delivery at a time the ledger, through two deaths, an aborted run and a fault? | `ExactlyOnce`, `CountersAddUp`, `InsertedCountsNewKeys`, `CatalogFollowsFile`, `DeliveredJobIsStaged` and the refinement `LedgerSpec` hold |
| `csv_redelivery` | What survives two overlapping runs of one job, and does it end? | `ProcessedMeansDecided`, `ReviewsGetExtracted`, `QueuedJobSettles` hold |

*Bounds.* Three rows with batches of two give a full batch, a tail and a row in
either; two keys give repeats in and across batches; a prior catalog gives updates
of rows the job did not create; two deaths reach a death during the recovery from
the first. Overlaps need two workers and one redelivery.

*What overlapping runs lose* (and the properties of `csv_redelivery` therefore do
not claim): each worker writes counters counted from its own copy, a late worker
applies older rows over newer ones, and one run may reopen what the other closed, and
leave it RUNNING for good if its worker then dies.
`QueuedJobSettles` and `ReviewsGetExtracted` say that the job ends up, and stays, in a
final status with its request sent, except after the losses of `lost` that concern them.
Three of these need no overlap: a kill by the time limit leaves the job RUNNING, or sends no
request; a download or a FAILED mark that fails leaves it RUNNING; a `send_task` that raises
loses the request. A PARTIAL review job whose worker dies before the acknowledgement is run
again and may end FAILED without a request; the property speaks of COMPLETED jobs for that
reason. The run has one fault, one death and one abort, so that each loss happens in it.

### `Onboarding`, `AdaptiveProvider`, `MCOnboarding`, `OnboardingProofs`, `OnboardingSafetyProofs`

The adaptive questionnaire of one user under concurrent requests. An action is
one transaction, or the part of it between two lock requests:

| Actions | Code |
|---|---|
| `Start`, `Create` | `start` 89-111, `_generate_first` 338-355 |
| `Submit`, `Route` | `_submit_adaptive` 357-429: the answer (`ValidAnswer`, 1234-1268) with its edit and the GENERATING commit; then the gate |
| `DecideComplete`, `DecideQuestion`, `ProviderFails` | 430-539: the provider's verdict, the corrective and the replacement request |
| `Persist`, `Finish`, `MarkFailed` | 541-586, 1021-1027: each re-reads the session under its lock (`_owned`) |
| `LockUser`, `Skip` | `skip` 181-211 |
| `Complete`, `BuildProfile`, `LockSession`, `StoreProfile` | `adaptive_complete` 221-336 |
| `BreakDeadlock`, `Crash` | the database's victim; a death or an exception no handler expects |

* *The provider.* `AdaptiveProvider` states what `integrations/llm/` makes of a reply:
  `Valid` is the contract (type, number and uniqueness of options, bounds, signals,
  lengths), `Normalized` what is repaired before it is validated, `Validated` the
  retries with a correction. `Decisions` is the set of what asking can come to,
  failure included; `Onboarding` chooses from it.
* *Memory.* `local[r].sheet` holds the answers the request has loaded: `Seen(r)`
  gives what it sees, the committed rows except for those it holds, and `Context(r, ..)`
  what the provider is told. `local[r].signals` are notes on its copy of the
  session; they are never flushed before the session is read again with
  `populate_existing`, so `Settle` stores the committed signals (`SavedSignals`).
* *Locks.* Only the steps that hold a lock while they wait for another are
  states: `storing` holds the session, `skipping` the user row. A new preference
  references the user and so holds its row in KEY SHARE mode (`shares`) against
  which the skip's FOR UPDATE waits. Skip locks the user and then the session,
  a completion the session and then the user.
* *Abstraction.* A prompt is a topic, its kind and its possible answers. The gate
  (`services/onboarding.py:895-995`) is reduced to the topics that must be answered or
  inferred, which the answer on the travel group decides. Its other blockers merge with
  these: a travel group of an unknown value or an answer on the couple's style that is none
  of `COUPLE_SIGNAL_VALUES` (907-909, 974, 978) blocks a completion as a missing topic does. `"matching"` stands
  for the destination matching keys and `"group_detail"` for what a family, couple or group of
  friends owes, the two kinds of topic the provider may infer instead of asking.
  The resolution of a location and the wording of questions are left out. What the
  preferences of the profile are is in `AdaptiveProfile`.

| Run | Question | Result |
|---|---|---|
| `onboarding` | Does the flow stay well formed with two concurrent requests, edits, a misbehaving provider, a death? | `ProfilesGated`, `OneOpenQuestion`, `OneGenerator`, `QuestionsDistinct`, `MarkIsOwned`, `SkipIsFinal` hold |
| `onboarding_completed` | Are completed sessions immutable? | violated: finding 1 |
| `onboarding_ready` | Can a session that is READY_TO_COMPLETE be completed? | violated: finding 2 |
| `onboarding_conversation` | Is the provider asked with the saved answers? | violated: finding 3 |

*Bounds.* Two requests are what a pairwise race needs; four prompts with
`MinQuestions = 2` and `MaxQuestions = 3` reach the gate, the limit, the clarification
exception and the replacement; one session that is adaptive, beside a legacy one,
since requests on different sessions share only the user row; one completion,
which already meets every other request; one death; one retry of the provider, which
makes every verdict and every failure reachable.

That a session outgrows `MaxQuestions` by one question at most, the second half of
`OneOpenQuestion`, follows from the one check of the limit; with as many prompts as that
TLC cannot exceed it here, and the theorem covers it for any number of prompts. The limit
of clarifications, which a replacement may exceed (`services/onboarding.py:523`), is claimed by
no property.

`OneOpenQuestion` and `OneGenerator` are stated for histories without a
completion: `adaptive_complete` does not look at GENERATING (line 234), so
finding 1 breaks them too. `SkipIsFinal` names the one step that overwrites a
skip, a completion that had passed its checks before (line 301). `MarkIsOwned` says
that a session marked GENERATING has a request that generates for it, unless a death took
it, and that not every request waits for a row another one holds (`Waits`, the negated
guards of the steps on rows); after a death, or an exception that no handler expects, a mark
stays for ever, which nothing in the code repairs and no property here denies.

### `ReviewScoring`, `MCReviewScoring`, `ReviewScoringProofs`

The task `process_reviews` in any number of workers, over the reviews that imports
bring in.

| Actions | Code |
|---|---|
| `Import`, `Trigger` | a new review (`catalog.py:532-554`); a message from an import or from `POST /scoring/process-reviews` |
| `Receive` | `jobs.py:120-131`: the lock taken, found taken (the message is done with), or Redis failing |
| `Load`, `Extract` | `scoring.py:116-165`: the first pending reviews by identifier, one commit each |
| `FinishBatch` | all failed (`scoring.py:167`), more pending (`jobs.py:114`), or on to the scores |
| `Recalculate`, `Normalize` | `scoring.py:171-227` hotel by hotel, then `31-100` |
| `SendFollowUp`, `Raise`, `Retry`, `Release` | `jobs.py:132-151`: all of them before the lock is given up; the follow-up and the retry may both fail to be sent |
| `Crash`, `Redeliver`, `Expire` | worker death with the message returned, or not (redelivered before, or the hard time limit); redelivery; the lock's timeout |

* *The lock* is free, held by a worker, or `"orphan"`: held by one that died, until
  `Expire`. It is released by token, so a run that lost it releases nothing.
* *Messages* are counted by their number of retries; delays are left out, any
  waiting message may be taken next.
* *History.* `extracted` counts committed extractions, `missed` collects what there
  was to do when a message was dropped or given up; `Load` clears it, because a run
  that gets there looks at everything again.
* *Abstraction.* Every extraction finds some mention; scores are the set of reviews
  they count (`scored`) and the hotels with a relative value (`relative`). Score rows
  and the populations of a normalization are those of `SentimentImport`. Deleted
  reviews, a change of the algorithm version and the administrator's tasks that only
  recalculate one hotel or only normalize (`jobs.py:87-111`) are left out.

| Run | Question | Result |
|---|---|---|
| `scoring` | With a death, an exception, a redelivery and a lost lock: how often is a review tried, counted, what is left when all is quiet, and does every review get there? | `AttemptsBounded`, `ExtractedOnce`, `QuietIsDone`, `ReviewsSettle` hold |

*Bounds.* Two reviews in batches of one need a follow-up, and belong to two
hotels, so that a recalculation is interleaved with the extraction of the other
review; two attempts and one retry exhaust the attempts before and after the
retries; two workers are what holding and finding the lock takes. `MaxEvents = 3`
bounds the deaths, exceptions, redeliveries and expiries of one behaviour together.

*What is missed.* `QuietIsDone` and `ReviewsSettle` except the reviews in `missed`:
the code does lose messages, in four ways. A trigger that arrives after the
holder's last look for pending reviews is dropped (`jobs.py:128-131`); so is a
follow-up that is delivered before its sender has released the lock (133); a
worker that dies holding the lock leaves it behind, so that its own redelivered
message finds it taken and is acknowledged, which defeats the late
acknowledgement; and a task whose retries are exhausted or cannot be sent, or which the hard
time limit kills, is not repeated. The two properties say that nothing else is lost, and
that any later run that gets the lock makes up for it.

### `SentimentImport`, `MCSentimentImport`, `SentimentImportProofs`

Imports of precomputed sentiment beside rescorings of reviews, down to the rows the
rankings read.

| Actions | Code |
|---|---|
| `Start`, `NextLine`, `Finish`, `MarkFailed` | `orchestrators/sentiment_imports.py:71-154`: the lines after the checkpoint, the batch commits, COMPLETED before the normalization, FAILED after an exception |
| `ReadEntry`, `Create` | `repositories/sentiment.py`: validation, duplicates, direct and alias matches, the slug of a new attribute and its insert |
| `Prefetch`, `Upsert`, `Propagate` | aggregates read and upserted, then `upsert_aggregate_hotel_scores` with its precedence |
| `StatementFails` | a unique slug, a row named twice in one upsert, a deadlock's victim: the savepoint is taken back (`saved`) |
| `BeginHotel`, `CommitHotel` | `services/scoring.py:171-227`: one upsert for each score of a hotel, one commit for the hotel |
| `List`, `ReadPopulation`, `BeginFlush`, `CommitRelative` | `services/scoring.py:31-100`: the population read attribute by attribute, then one flush of the rows that differ, by identifier, and its commit |
| `TakeRow` | any write takes the rows it has still to take one by one, and waits for each |
| `GiveUp` | `jobs.py:136-151`: a rescoring ends with an exception, a deadlock among them, or with the death of its task |
| `Crash`, `Acknowledge` | the death of an import's task, whose message comes back; or its kill by the time limit, which acknowledges it |

* *Transactions and rows.* `tx[t]` is what a task has written and the rows it has locked
  (`locks`), `queue[t]` the rows its open write has still to take: the values of a multi-row
  insert in their order, the scores of a rescored hotel in any order (a GROUP BY has none,
  `catalog.py:752-775`), those of a normalization by identifier (the order of the flush).
  `TakeRow` takes them one by one; the write has its effect with the last one.
  `WaitsFor` is a queue whose head another transaction holds, and `Deadlocked` a cycle of
  such waits, in which any of the tasks may be the victim: an import loses its hotel
  (inside the savepoint) or its status (in the normalization), a rescoring ends.
* *One run of a rescoring.* `Rescorings` are runs of `process_reviews` that reached the
  recalculation, each once. The message of one that dies finds its dead worker's lock and
  is dropped (`jobs.py:128-131`) or starts a run of its own, which is another element of
  the set; a retry is one as well. So the end of a run excuses what it leaves unranked
  (`excused`) instead of promising that it comes back.
* *Relative scores.* A relative score is represented by the population it was
  computed from (`BellCurve`): two of them are equal only if computed from equal
  scores. `Unfresh` are the attributes whose relative scores are not those of the
  present scores.
* *Ledger.* Each job implements `ImportLedger`, the abstract specification the CSV
  import implements as well. Its state is the stored status; a line is "open" until it is
  decided, and a blank one until it is passed. Both final states may open again: a PARTIAL
  job is run again, and a normalization that fails after the final status makes it FAILED
  (`orchestrators/sentiment_imports.py:88-100`), with the checkpoint at the end.

| Run | Question | Result |
|---|---|---|
| `sentiment` | Two imports that create the same attribute, collide on a slug and deadlock, with a rescoring and overlapping normalizations that take their rows one by one, and a death, a kill by the time limit or an exception: what is stored, counted and ranked? | `HotelIsWhole`, `CountersTellTheFile`, `RankedOnFreshScores`, `ReviewScoresStay`, `NoStandstill` and the refinement `LedgerSpec` hold |
| `sentiment_propagated` | Is a score propagated unchanged? | violated: finding 4 |

*Bounds.* Three pairs of files: opposite orders of two hotels (the deadlock), two
attributes of one slug created at once, and every kind of line and entry over three
batches. Batches of two give full ones and a tail; one rescoring and one failure meet
every step. `HotelIsWhole` says that each aggregate is whole, with its attribute and
score, not that a hotel has one for each entry of its line: the counters say how many it
has. `RankedOnFreshScores` excepts (`excused`) what a task left unranked that failed, died
or was killed after scores were committed, and a normalization that overlapped a change
of what it had read; both last until the next normalization that meets neither.
`NoStandstill` says that some unfinished task waits for no row or is the database's to
fail (`Waits`), and that a step which is not a failure brings its task nearer to its end
and moves no other: since a file has finitely many lines and entries, a rescoring finitely
many hotels and a write finitely many rows, tasks that go on end. The detection of deadlocks
is PostgreSQL's; what the code contributes is that each failing statement takes back all
its transaction holds (`RolledBack`), which the mutant of this property breaks.

### `Scrape`, `ScrapeProofs`, `MCScrape`

One scrape run, from the operator's request to the last of its messages.

| Actions | Code |
|---|---|
| `Start`, `RetryFailures`, `Dispatch` | `services/scraper.py:25-94`, `api/v1/admin.py:200-254`: committed first, sent after |
| `Load`, `Begin` | `workers/tasks/jobs.py:203-229`, `orchestrators/scraper.py:38-61`: the row, a slot or none, the checkpoint |
| `Fetch`, `Save`, `Record`, `Complete` | `orchestrators/scraper.py:63-109, 120-154`: a page's object, then counters, checkpoint and resolved failure in one commit; or the failure; or COMPLETED |
| `Raise`, `Retry`, `GiveUp`, `MarkFailed` | `jobs.py:230-266`: other exceptions, the retry's own message, FAILED after the last |
| `Crash`, `Redeliver`, `Acknowledge` | death, or the time limit, which acknowledges the message; visibility timeout; acknowledgement |

`mem[w]` is the row as the worker's session holds it; `Commit` writes only the columns
that differ from it, to absolute values, which is what overlapping executions
overwrite each other's counters with. Slots are shared with other runs, so finding one
is a choice.

| Run | Question | Result |
|---|---|---|
| `scrape` | Two pages, two workers, one task retry, one death or other exception, one redelivery or retry by the operator: is a completed run whole, do the counters follow the pages, does the run settle? | `CompletedIsWhole`, `CountersFollowPages`, `FailuresAreAhead`, `RunSettles` hold |

*Bounds.* Two pages are a first and a last one, with a checkpoint between; two
workers overlap after one redelivery. `CountersFollowPages` and `FailuresAreAhead` are
stated while executions do not overlap: after that an older execution takes the
checkpoint back and counts from its own copy. `CompletedIsWhole` holds all the same. `RunSettles`
excepts a run in `lost`: its request or its retry could not be sent, the mark FAILED could
not be stored, or the time limit killed its execution and acknowledged the message; the run
then says RUNNING until an operator starts another.

### `AdaptiveProfile`, `Preferences`, `MCPreferences`, `PreferencesProofs`

`AdaptiveProfile` is the pure part: the tables of points per dimension, choice and
group of `services/adaptive_preferences.py`, and `Profile(answers)`, the slugs with
their weights in the order in which they are upserted. Weights count the points they
come from; 300 points make 1.0.

`Preferences` runs three requests of one user over the rows such a profile ends in:

| Actions | Code |
|---|---|
| `Begin`, `Refuse`, `ChangeTrip` | the checks before a write: services and `TripService`; a trip deleted meanwhile is met again by `Recheck`, `LoseTrip` |
| `Find`, `Delete`, `Write`, `Commit` | `repositories/preferences.py:51-119`: DELETE finds rows, waits for each and removes them; the list is upserted or inserted item by item |
| `FailStatement`, `FailProfile`, `BreakDeadlock`, `Crash` | a key inserted twice, an attribute that does not exist, an alias' KeyError, a cycle of waits, a death |
| `ReadUserRows`, `ReadOverrides`, `Recommend`, `Cache`, `Lookup` | `resolve_for_trip` in its two reads, `domain/ranking.py`, `services/recommendations.py:44-160` |
| `Interpret`, `ReadTripRows`, `AnswerAtOnce`, `FailToInterpret`, `Reply` | `orchestrators/chat.py`: the user's message commits, the intent is executed by the same steps, the reply commits |

| Run | Question | Result |
|---|---|---|
| `preferences` | Are replacements whole, does a ranking obey the preferences it read, is what is told stored, and does every request end? | `ReplaceIsWhole`, `SnapshotIsHonest`, `RankingObeys`, `ToldIsStored`, `RequestsEnd` hold |
| `preferences_alias` | Does a profile's slug resolve through an active alias? | violated: finding 5 |

* *Candidates.* A ranking is told of the first `MaxCandidates` hotels by identifier (2000
  in the code, `repositories/recommendations.py:33, 56`) in the place of the trip that pass
  the filters: the type, and a rating that any active source gives (45-55). What a hotel is
  ranked by is the rating of its primary source, which may be another one or none.
* *Mandatory minimums* bind the preferences of positive weight only, as the code has it
  (`services/recommendations.py:72`): a preference that asks for a minimum and weighs 0 is
  dropped, against `README.md:42`. `RankingObeys` says so and claims no more.
* *Taxonomy.* A slug may match several attributes exactly, as a slug or as a normalized key,
  which is unique within a category only; any of them may come first (`Firsts`).

*Bounds.* Two attributes are what opposite orders need; seven hotels are a best, one
without a score, one below a minimum, one rated too low by its primary source and high by
another, one of another type, one beyond the cap and one elsewhere. Requests
run once, from menus in which the first two write and the third recommends, or moves or
deletes the trip: this reaches every pair of writers and every writer beside a
recommendation. The run ends when all requests have, so the deadlock check is off;
`RequestsEnd` is what takes its place.

`SnapshotIsHonest` is about runs no commit disturbed between their two reads;
otherwise the mixture of an older and a newer list is what READ COMMITTED allows.
`ReplaceIsWhole` allows, beside the replacement, exactly the rows that requests running
at the same time inserted: two concurrent replacements do leave the union. Two turns of a
chat that read, change and write the same trip preferences may lose one change
(`orchestrators/chat.py:178`); no property forbids it. `ToldIsStored` says that a reply
announces no ranking and no changed preference that its turn has not committed.

### Findings

1. `Completed onboarding sessions are immutable` (`services/onboarding.py:367`), but
   a reply that comes back after a completion takes the session to
   READY_TO_COMPLETE, gives it another question or marks it FAILED
   (`_finish_questionnaire`, `_persist_next_question` and `_mark_generation_failed` only
   refuse SKIPPED).
2. A session becomes READY_TO_COMPLETE on signals that are lost in the same
   transaction; the gate of `adaptive_complete` then refuses it, and `submit`
   refuses it because it is "ready to complete" (line 369). Only a skip is left.
3. After an edit the provider gets the replaced answer, where `README.md:50`
   promises "the complete prior conversation".
4. The batch upsert of aggregate scores sets the values of its first row on every
   conflicting row (`repositories/catalog.py:800`), where the design document says
   "propagated unchanged".
5. No slug resolves through an alias: the one match is looked up under the key 0
   of a dictionary keyed by identifiers (`repositories/catalog.py:669`), and what the
   profile had upserted before is committed with the failure.

## Fairness

* `CsvImport` (`csv_redelivery`), `ReviewScoring`: `WF_vars(Work(w))` for each worker.
  Celery workers go on with what they were given; uploads, deaths, kills, redeliveries,
  aborts, expiries and faults need not happen, and are finite by their bounds. A worker
  that waits for a row lock is not enabled meanwhile, and its holder always
  releases it.
* `Scrape`: the same, and `WF_vars(Dispatch)`: a request that committed goes on to
  send its message, or dies doing so (`lost`). `RunSettles`, like the
  liveness of `CsvImport`, is stated as eventually-always; a behaviour that never starts the run owes nothing.
* `Preferences`: `WF_vars(Step(r))` for each request that has begun; the server goes on
  with it and PostgreSQL breaks deadlocks. Nobody has to begin one.
* `Onboarding` and `SentimentImport` are checked without fairness: `MarkIsOwned`
  and `NoStandstill` say that someone waits for no row, with the guards on rows that
  others hold spelled out (`Waits`) in place of ENABLED.

All models but `Preferences` have an explicit `Quiet` step for the states in which
nothing is under way, so that TLC's deadlock check stays on and a lock cycle would
be reported.

## What is proved

For every value of the constants that meets the assumptions, hence for every file, any sets
of keys, reviews, pages, prompts, hotels, attributes, workers, jobs and requests, and any
number of failures. The assumptions are those of the modules: `CsvImportAssumption`,
`ReviewScoringAssumption`, `ScrapeAssumption`, `OnboardingAssumption`, `ProviderAssumption`,
`SentimentAssumption`, `PreferencesAssumption`, `ProfileAssumption`. They say that bounds are naturals,
batch sizes and attempts positive, files made of lines, menus of operations, that every
review has a hotel, every prompt a topic and options, that the import jobs and rescorings, the
requests of `Preferences`, and the hotels and attributes of one ranking are finitely many, that
the attributes there are at the start have different slugs, that rows of scores have
different identifiers, and that a primary source is one of a hotel's sources. TLC evaluates
each of them on the instances of the runs.

| Theorem | Statement |
|---|---|
| `CsvImportProofs!Typing` | `Spec => []TypeOK` |
| `CsvImportProofs!ProcessedJobsAreDecided` | `Spec => []ProcessedMeansDecided` |
| `CsvImportProofs!DeliveriesAreStaged` | `Spec => []DeliveredJobIsStaged` |
| `CsvImportProofs!EveryRowOnce` | `Spec => [](overlaps = 0 => ExactlyOnce)` |
| `CsvImportProofs!CountersCoverRows` | `Spec => [](overlaps = 0 => CountersAddUp)` |
| `CsvImportProofs!NewKeysAreCounted` | `Spec => [](overlaps = 0 => InsertedCountsNewKeys)` |
| `CsvImportProofs!CatalogIsInOrder` | `Spec => [](overlaps = 0 => CatalogFollowsFile)` |
| `CsvImportProofs!ImportIsALedger` | `MaxOverlaps = 0` implies `Spec => LedgerSpec` |
| `CsvImportProofs!RestingJobsAreSettled` | `Spec => []RestingJobIsSettled` |
| `CsvImportProofs!RestingReviewsAreSent` | `Spec => []RestingReviewsAreRequested` |
| `ReviewScoringProofs!Typing` | `Spec => []TypeOK` |
| `ReviewScoringProofs!Bounded` | `Spec => []AttemptsBounded` |
| `ReviewScoringProofs!ExtractionOnce` | `Spec => []ExtractedOnce` |
| `ReviewScoringProofs!NothingForgotten` | `Spec => []QuietIsDone` |
| `SentimentImportProofs!Typing` | `Spec => []TypeOK` |
| `SentimentImportProofs!HotelsAreWhole` | `Spec => []HotelIsWhole` |
| `SentimentImportProofs!ReviewsPrevail` | `Spec => ReviewScoresStay` |
| `SentimentImportProofs!RankingsAreFresh` | `Spec => []RankedOnFreshScores` |
| `SentimentImportProofs!CountersAddUp` | `Spec => []CountersTellTheFile` |
| `SentimentImportProofs!EveryJobIsALedger` | `Spec => LedgerSpec` |
| `SentimentImportProofs!WorkGoesOn` | `Spec => NoStandstill` |
| `ScrapeProofs!Typing` | `Spec => []TypeOK` |
| `ScrapeProofs!CompletedRunsAreWhole` | `Spec => []CompletedIsWhole` |
| `ScrapeProofs!OpenFailuresAreNext` | `Spec => []FailuresAreAhead` |
| `ScrapeProofs!CountersAreExact` | `Spec => []CountersFollowPages` |
| `ScrapeProofs!QuietRunsAreSettled` | `Spec => []SettledWhenQuiet` |
| `OnboardingProofs!Typing` | `Spec => []TypeOK` |
| `OnboardingSafetyProofs!StoredProfilesAreGated` | `Spec => []ProfilesGated` |
| `OnboardingSafetyProofs!NoQuestionTwice` | `Spec => []QuestionsDistinct` |
| `OnboardingSafetyProofs!GenerationIsExclusive` | `Spec => []OneGenerator` |
| `OnboardingSafetyProofs!QuestionsComeOneByOne` | `Spec => []OneOpenQuestion` |
| `OnboardingSafetyProofs!SkippedSessionsAreFinal` | `Spec => SkipIsFinal` |
| `OnboardingSafetyProofs!MarksAreOwned` | `Spec => []MarkIsOwned` |
| `PreferencesProofs!TypesAreKept` | `Spec => []TypeOK` |
| `PreferencesProofs!RankingsObey` | `Spec => []RankingObeys` |
| `PreferencesProofs!SnapshotsAreHonest` | `Spec => SnapshotIsHonest` |
| `PreferencesProofs!ReplacementsAreWhole` | `Spec => ReplaceIsWhole` |
| `PreferencesProofs!WhatIsToldIsStored` | `Spec => []ToldIsStored` |
| `PreferencesProofs!RequestsGoOn` | `Spec =>` one of the requests that run never `Waits`, and each `Step` brings its request `Nearer` to its end |

### `CsvImport`

*ProcessedMeansDecided* says nothing of memory or transactions and is not
inductive. `Sound` adds what a worker knows: every row up to its own checkpoint is
decided, in the database or in its open transaction, and a committed checkpoint
covers only decided rows. It survives overlapping deliveries because decided rows
stay decided and each worker only trusts the checkpoint it loaded or advanced.
*DeliveredJobIsStaged* follows from the order of the upload's three steps (`Staged`).

*ExactlyOnce* and *CountersAddUp* need one delivery at a time. `Once` has four
parts: there is one token (the message or one owning worker, `OneToken`), the
committed state is exact, the counters of the committed row add up (`Adds`), and
a working worker's memory is the committed row plus its open transaction
(`InStep`). The token is what makes the step of one worker leave the others'
`InStep` alone; with an overlap it fails, and so do the properties.

On `Once` rests `Faithful`: a job row tells its stores (`Tells`: the inserted counter is
the number of keys that were brought in, in the catalog or in the open transaction), the
committed row for its committed stores and the worker's copy with its transaction; and a
transaction holds the last row it applied to each key. This gives
*InsertedCountsNewKeys*, *CatalogFollowsFile* and the refinement: a commit is
`ImportLedger`'s `DecideUpTo` of the new checkpoint, a final commit its `Close` with the
status the verdicts call for, and every other step leaves the ledger as it is. The first four are stated for any
`MaxOverlaps`, as long as no overlap has happened; the refinement, which is about whole
behaviours, for `MaxOverlaps = 0`.

Two more theorems are about an import at rest (`AtRest`): its task was queued, no message
waits, no worker runs it. *RestingJobIsSettled*: it is PARTIAL, COMPLETED or FAILED.
`Pursued` shows what keeps it so: a job without a final status has a message, or a worker on
the way to one, and a started run flushes against the RUNNING it wrote, so that its last flush
does store the final status. *RestingReviewsAreRequested*: if it COMPLETED, the
extraction of its reviews was requested. `Requested` follows the message until a request is
sent or a run fails, and the COMPLETED row until the worker that returned from it sends.
Both hold through overlaps; what they except is what `lost` records, a failure outside the
try block or of the mark, a kill by the time limit or a death after the message had gone to
another worker, and for the second a request that could not be sent: states the code
reaches. A state that breaks one of them could stay for ever,
so that they are what `QueuedJobSettles` and `ReviewsGetExtracted` need besides fairness.

### `ReviewScoring`

*AttemptsBounded* and *ExtractedOnce* rest on one invariant. A worker strays when it
goes on with a run whose lock it has lost; only an expiry makes it stray, so there
are at most `expiries` of them (`StraysCounted`, an argument about cardinalities). A
review that strays still have to extract counts as tried already, and only the
holder of the lock may try it once more (`AttemptsCounted`). Without expiries nobody
strays, the lock excludes, and what a run has loaded is not completed under it
(`BatchPending`).

*QuietIsDone* follows from `Heeded`: a review that is not done has not been announced,
or a message waits, or a worker will look for pending reviews again, or a run that found
none still has its hotel to recalculate or has its score to normalize, or it is in `missed`.
Each step hands such a review from one of these to another.

### `SentimentImport`

`Typed` adds to `TypeOK` what a run in the middle of a hotel holds: a line of its file that is
a hotel's, an entry of it, a slug. `Sessions` is about rows: no two transactions hold one, a task
that writes nothing has no transaction and no row to take, and a flush has queued the rows
that it should (`Flushing`). `Sound` says that the
tables a transaction sees have, for each aggregate, an attribute and, once the scores are
propagated, a score; that a transaction holds the lock of every score it has written, whose
committed row is not a review's (*ReviewScoresStay*: a rescoring that would recalculate it
takes that row, and waits for it); and that there is no transaction outside the line loop.
With that, a commit makes aggregates whole at once.

*RankedOnFreshScores* follows from `Fresher`: a population that was read is still the present
one, or its attribute is in `taint` (`Reading`); and every attribute whose relative scores are
not those of its scores is excused, or owed by a task that has yet to list, read or rewrite it,
or by an import that will, because it has counted an applied score (`Counted`). A task that
fails, dies or is killed hands what it owes to `excused`.

*CountersTellTheFile* needs the memory of a run. `Books` says (`InBooks`) that a row and the
verdicts and issues a transaction sees decide the lines up to the checkpoint, that each
counter is a number of such lines, or of entries with a fate, and that there is one issue
for each line or entry that wants one. It holds of the committed row alone; between two
lines, of the row in memory with the open transaction; inside a hotel, of that row with the
savepoint, while the transaction and the counters of the hotel account for the entries read so
far (`AtWork`). A rolled back savepoint falls back on the second, a rolled back
transaction or a death on the first.

For the refinement, `Honest` says that a stored final status comes with `completed_at`, and that
a job is RUNNING while its lines are read; it becomes final only by the commit that states how
its lines went (`Restated`). A step leaves the committed books of a job as they were or
moves them `Onward`: its checkpoint never falls and no verdict changes. With `Books` and `Honest`
such a step is `DecideUpTo` of the new checkpoint, the final commit is `Close`, a later run or
the failure of a normalization is `Reopen`, and the steps of the other jobs stutter.

*NoStandstill*: a task that waits, waits for one that holds rows, and that one is not done
(`Sessions`). If all unfinished tasks waited, they would wait for each other, and finitely many
that do so contain a cycle (lemma `Knot`), in which `Deadlocked` lets the database fail a
statement. The progress of each step is read off its definition, with `StepsLeft` and
`HotelStepsLeft` as the order of the places in a run, the hotels or attributes left to do
and the rows left to take; that it leaves the others where they are, from the queues being
each task's own.

### `Scrape`

*CompletedIsWhole* needs to know what an execution relies on between its steps.
`Whole` says that an execution at a page has every earlier page stored, by itself or
by another; that behind a fetch the page's object is there; and that a copy of the
row that says COMPLETED was right. It survives overlaps, and a checkpoint that moves
back, because objects are never removed (`ObjectsGrow`). `TypeOK` alone is not
inductive: a page is counted only by an execution that is at one (`AtRealPage`).

*FailuresAreAhead* and *CountersFollowPages* hold while executions do not overlap. `Exact`
says that then at most one is busy, what it holds is the committed row, its page is the
checkpoint, and it has found the open failure of its page if there is one (`InHand`). That pages
are stored again only after failures is a sum over all pages; `StoredOnce` follows it step
by step with the lemmas of `SumTheorems`.

`QuietRunsAreSettled` is the safety part of `RunSettles`: a run that is neither ended nor
`lost` has a request to dispatch, a message, or an execution that will settle it or send
a message (`Pursues`), which is not any execution: one that found the run completed, or
failed when it was about to mark it, leaves it alone.

### `Onboarding`

The proofs first say what each step does to the list of sessions: it
rewrites one of them (`Rewrites`), adds one, or leaves them all (`Thinks`). `Typed`
adds to `TypeOK` that every question has its place for an answer and that a request at
work has a session. *ProfilesGated* then needs two facts that no property states
(`Gated`): the sheet a completion holds from its check to its commit has passed the
gate, and no signal the provider infers is ever saved, so that the gate it passed
counts answers only. *OneGenerator* and *OneOpenQuestion* are inductive together
(`Calm`): while a session is marked, all its questions have answers and the request
that marked it is alone; it is asked only when there is room. A skip breaks the mark
but freezes the session; a completion ends the calm, as it may overwrite the mark.
*MarkIsOwned* needs no calm: a mark is set by the request that goes on to generate, and
every end of that request takes it away (`Owned`). If a request that generates waits, what it
waits for is held by one that builds a profile or skips, and one of these goes on or is
in the deadlock that the database breaks.

### `Preferences`

The types of what a profile resolves to and of what a ranking lists are facts about
`AdaptiveProfile` and `domain/ranking.py`: points are sums over the answers' effects
(`SumTyped`), a finite set of hotels can be put in an order (`Ordered`), and dropping some of
them, or cutting the list, keeps the order (`RankingKept`). `TypesAreKept` adds to `TypeOK`
that no two open transactions hold a key. *RankingObeys* needs nothing more, for a
run is stored as it is computed; that the first `MaxCandidates` by identifier are those with
fewer hotels before them is how `FirstOf` says it.

*SnapshotIsHonest* carries over the step between the two reads: what an undisturbed request has
read is what is stored (`Snapshots`). *ToldIsStored* follows the turn (`Told`): a request at
work in a turn has said its user's message and nothing else, its reply is the last step, it
reaches the reply to a changed preference only through the commit of that preference
(`applied`), a cached run is the stored one.

*ReplaceIsWhole* speaks of the step that commits, after any number of waits. `Replacements`
says what holds before it: the items written so far are in the transaction under their keys,
the last one of each attribute (`Wrote`); whatever else it touched it deletes; and a row of
its table is covered (`Covered`): deleted, on the list to be deleted under the identity it
had, or inserted by a request that ran meanwhile. A row keeps the identity of the one it
updates (`Identities`), and a transaction waits for a row another one holds, so that what DELETE
found is still what its list names. Requests that are under way together have met (`Met`).

`RequestsGoOn` is the safety part of `RequestsEnd`. A request waits for one that has an open
transaction, which only a request at work has (`Typed`); if all that run waited, some would be in
a cycle (`Knot`), and that wait is the database's to break. A step takes its request to a
later call (`StepsLeft`), or past a row to delete or an item to write, of which a
statement never adds any, and leaves the other requests where they are. As a list is
finite and a request runs once, requests that go on end.

### Lemmas of general use

`SumTheorems` is about `MapThenSumSet` of the community modules: its value on the empty set
and after one more element, that a sum of naturals is one, that it sees only the values on its
set, what changing one of them does. The fold is a recursive function over subsets; that it
exists is shown by induction on their size, taken from the fact that no set of naturals
lacks a least element (the induction theorems of the library take an operator). Its last
lemma, `Knot`, is about waiting: where each of finitely many waits for another of them, some
of them wait and are waited for among themselves.

The tables of `AdaptiveProfile` are written with `:>` and `@@`, which the proofs do not open:
what they need of the tables (they are finite, speak of existing topics and attributes, and give
points) is `ProfileAssumption`, a fact about constants that TLC evaluates. What recurses over
data is avoided in the models: an order is any sequence that is in order, not a sorting function.

The inductive invariants of all proofs were also checked with TLC on the instances of the runs.

### Model-checked only

* Liveness under fairness: `ReviewsGetExtracted`, `QueuedJobSettles`, `ReviewsSettle`,
  `RunSettles`, `RequestsEnd`, which the installed provers do not reach. Their safety part is
  proved: what the first four say of a state in which nothing is left to run
  (`RestingReviewsAreSent`, `RestingJobsAreSettled`, `NothingForgotten`,
  `QuietRunsAreSettled`), and for the last one that somebody can always go on and nobody
  is set back (`RequestsGoOn`).
* That the guards `Waits` spells out are all that can stop a request or a task: this is
  about ENABLED. The runs of `Onboarding` and `SentimentImport` keep TLC's deadlock check on,
  and `RequestsEnd` would fail of it.

## What is left

Every invariant, action property and refinement of the runs is proved; liveness under
fairness is left to TLC.

Compositions the modules are ready for: `ReviewScoring` over the score rows of
`SentimentImport`, and `Onboarding` with the upserts of `Preferences` in place of
`BuildProfile`. Either multiplies two state spaces of some hundred thousand states.

## What is not modelled

* Authentication, the rate limit, locations, users, catalog reads and administration:
  single transactions that no other step relies on (see the notes in `PROJECT.json`).
* Arithmetic on real numbers: means, deviations, z-scores and their distribution in
  `domain/scoring.py`. A relative score is the population it was computed from.
* Texts: explanations, summaries, prompts, error messages, logs.
* Data transfer objects, table declarations, migrations and HTTP plumbing, which have
  no control, and the language model itself, which is a choice among the replies.

Two divergences seen on the way are outside the properties: `README.md:55` says that
the final profile is stored as `ONBOARDING_AI`, while `adaptive_complete` stores
`ONBOARDING_DETERMINISTIC`; and `README.md:42` enforces mandatory minimums, while
`services/recommendations.py:72` drops a mandatory preference of weight 0 before
the ranking (no run claims what the document says of that case).
