# DOT Tutors: the formal models

TLA+ models of the DOT Tutors backend (FastAPI, async SQLAlchemy, SQLite by
default and PostgreSQL in production), the TLC configurations that check them on
small instances, and proofs, checked by TLAPS, that the main results hold for
every instance. Paths are relative to the repository.

1. [The system](#1-the-system): inventory, what is hard, what correct means
2. [The modules](#2-the-modules) and how they correspond to the code
3. [What the runs check](#3-what-the-runs-check), with which bounds and which fairness
4. [What is proved](#4-what-is-proved), from what and how
5. [Where the code and its documentation part](#5-where-the-code-and-its-documentation-part)
6. [What is not modelled](#6-what-is-not-modelled)
7. [Plan](#7-plan)

`PROJECT.json` lists the same things for tools: components, runs, the line of
code behind every definition, a mutation of the code that breaks each property,
hazards, findings and theorems.

## 1. The system

A tutor is a chat bot with instructions and a list of knowledge sources (inline
text or URLs). Administrators manage tutors and hand out embed keys; a page that
carries a key opens a chat session and talks to the tutor. An answer is one run
of an agent (Pydantic AI or LangGraph) whose tools read the sources, downloaded
and cached in the database.

| Component | State it keeps | Operations | Interacts with |
|---|---|---|---|
| Chat runtime: `app/api/v1/embed.py`, `app/services/chat_service.py`, `app/repositories/chat.py`, `app/db/models/chat.py` | tables `chat_sessions`, `chat_messages`; one database transaction per request | open a session, read the history, answer a message (streamed or JSON), expire, retention | reads embed keys and tutors, runs the agent inside its transaction, takes rate-limit tokens |
| Embed keys: `app/services/embed_service.py`, `app/api/v1/embed_keys.py`, `app/utils/origins.py` | table `embed_keys` | create, list, revoke, snippet, authorize | authorizes sessions, goes with its tutor |
| Tutor administration: `app/services/tutor_service.py`, `app/services/slug.py`, `app/api/v1/tutors.py` | tables `tutors`, `tutor_sources` | create, update, activate, deactivate, delete, add and remove a source | cascades to keys, sessions, messages, cached documents |
| Source cache: `app/services/source_service.py`, `app/db/models/source_cache.py` | table `source_documents`; chunks of its documents, per request | load one or many, refresh, search, read | downloads through the fetcher, writes in the caller's transaction |
| Fetcher: `app/utils/http_fetch.py` | the connections of one HTTP client | guarded GET with redirects, size and address limits | called by the source cache, several at a time |
| Text: `app/utils/text.py` | none | normalise, outline, chunks, search | called by the source cache |
| Agent: `app/agent/pydantic_ai_runner.py`, `langgraph_runner.py`, `contracts.py`, `retry.py` | the events of one run | stream a run, retry, time out | yields to the chat runtime, calls the tools |
| Knowledge tools, prompts: `app/agent/tools.py`, `prompts.py` | records and citations of one run | list, outline, search, read | called by the model, side by side; read through the source cache |
| Rate limiter: `app/core/rate_limit.py`, `app/api/deps.py`, the pruner in `app/main.py` | buckets in memory, per process | check, prune | asked by login, session opening and chat |
| Authentication: `app/services/auth_service.py`, `app/core/security.py`, `app/api/v1/auth.py` | table `admin_users` | log in, verify a token | guards the administration |
| Database sessions: `app/db/session.py`, `app/api/deps.py` | one transaction per request, a pool of connections | borrow, commit, rollback, close | everything above |
| HTTP edge: `app/api/middleware.py`, `cors.py`, `client_ip.py`, `security_headers.py`, `error_handlers.py`, `app/api/v1/health.py` | none | decorate requests and responses | wraps every route |
| Scripts: `scripts/cleanup.py`, `seed.py`, `entrypoint.sh` | the database | retention, demo data, start-up | run beside the server over the same database |

**What is hard here.** The server runs many requests on one event loop and, in
production, in several processes; each has a database session of its own whose
writes wait for the commit. So the hard behaviours are

* two requests of one conversation, where nothing but the row lock that an
  UPDATE of `last_seen_at` happens to take keeps their messages apart;
* a transaction that lasts as long as an agent run, during which the key is
  revoked, the tutor deleted, the session cleaned up, the client gone, the
  process killed;
* reads used after the row they came from has changed: the document an object of
  the identity map remembers, the source count, the free slug, the active key;
* UPDATEs that name only the columns the ORM believes to have changed;
* a generator that is retried, cancelled, suspended in a `yield`, and timed by a
  scope that contains its own yields;
* what SQLite (one write lock) and PostgreSQL (row locks, deadlock detection)
  make of the same code;
* downloads that wait for an HTTP connection while their request keeps one of the
  database, and leave by redirects, errors, timeouts and cancellations, each of
  which has to give the connection back;
* the tool calls of one model turn, which run side by side over one database
  session and one list of records;
* windows, capacities and roundings of the limiter over long sequences of calls;
  the boundaries of chunks, pages and the byte ceiling.

**What makes each component correct.**

| Component | Properties |
|---|---|
| Chat runtime | a transcript holds whole exchanges, adjacent, appended only; the agent is given exactly the latest past; a revoked key answers nothing that arrives later; nothing outlives its session; every request ends |
| Tutor administration, embed keys | nothing outlives its tutor; slugs are distinct; the source limit is overrun by less than the requests in flight; an edit changes only what it sent; a revoked key stays revoked |
| Source cache | a text is stored under its own validator; a failure does not propagate; no deadlock at the catalogue; no newer document is replaced by an older one; locks are let go |
| Agent | the stored answer is what the client heard and what the model said; an answer takes no more rounds of calls than the limit (that it takes no more calls holds for Pydantic AI alone); a run always ends; a timeout is reported |
| Knowledge tools | every call is reported and every source cited, once; reading on covers a text; searches go through the text at hand; a source is called unavailable only if there is no copy of it |
| Text | each line in one chunk, under its heading; chunks of their size; every word finds its lines |
| Fetcher, pools | only validated addresses are asked; connections come back; the ceiling cuts where it should; everybody is answered or refused |
| Rate limiter | no window gives more than capacity plus refill; who waits as Retry-After says is served, and waits at most a second too long; forgetting a bucket cannot be noticed |

## 2. The modules

| Module | Models | Source |
|---|---|---|
| `ChatTurns` | the embed runtime: sessions, turns, revocation, deletion, retention, crash | `embed.py`, `chat_service.py`, `embed_service.py`, repositories, `cleanup.py` |
| `Conversation` | what a conversation promises, with no request or lock in sight | abstract |
| `ChatTurnsRefinement` | the mapping from `ChatTurns` to `Conversation` | |
| `RateLimits` | the buckets of all three limiters and the pruner | `rate_limit.py`, `deps.py`, `main.py` |
| `IdealLimiter` | a limiter that never forgets a key | abstract |
| `AgentRun` | one run of either runner | `pydantic_ai_runner.py`, `langgraph_runner.py`, `retry.py` |
| `SourceText` | what becomes of a document: headings, chunks, search | `text.py` |
| `AgentTools` | `AgentRun` composed with its tool calls, over one database session and `SourceText` | `tools.py`, `source_service.py`, the runners |
| `ReplyStream` | what `AgentRunner.stream` promises its consumer | abstract |
| `SourceCache` | load, load_many and refresh in the requests that call them | `source_service.py`, `http_fetch.py`, `source_cache.py` |
| `Fetch` | downloads through one HTTP client | `http_fetch.py` |
| `LoadingRequests` | `Fetch` composed with the requests that gather downloads and their pool of database connections | `source_service.py`, `session.py` |
| `TutorAdmin` | the writes of administrators and of session opening to tutors, sources and keys | `tutor_service.py`, `embed_service.py`, ORM models |
| `MC...` | instances for TLC | |
| `...Proofs` | theorems, in a module of their own | |

Operators named in a comment as a *mutant* belong to no specification. Each is a
plausible slip in the code (a dropped guard, a missing reset) and stands before
the definition it would replace; `PROJECT.json` pairs it with the property that
then fails.

### ChatTurns

One turn is one `POST /embed/chat`. Its `phase` is where its handler stands:

| Phase or action | Code |
|---|---|
| `Send` | the request arrives, with the token it was given when its session was opened |
| `Admit`, `Refuse`, `Throttle` | `resolve_session`: session there and not expired, key and tutor active, `last_seen_at` set in the ORM session (`dirty`); then the two limiters |
| `StoreQuestion`, `StoreFails` | the first flush of `answer`: the UPDATE of `last_seen_at` takes the row lock (`locked`), the INSERT adds the user's message to `pending`; StaleDataError or a busy SQLite |
| `LoadHistory` | `recent_messages` and `_to_history(drop_last=True)`, blank messages left out |
| `Answer`, `RunFails`, `Raise` | the run ends in DONE (`_persist_answer`), in ERROR, or raises |
| `SendDone`, `Commit`, `CommitFails`, `Rollback` | the transport: DONE goes out before the commit, ERROR before the rollback |
| `Disconnect`, `Crash` | the stream's task is cancelled; the process dies. The transaction is rolled back by its end |
| `Authorize`, `Open`, `OpenFails` | `POST /embed/session` |
| `RevokeKey`, `SetStatus`, `DeleteTutor`, `Expire`, `Cleanup` | administration, clock, retention script |

A message is `[turn, role, blank, at]`: what it says is reduced to whether it is
empty, `created_at` to a stamp. `WholeDatabase` chooses the locks: one for all
writers (SQLite) or one per `chat_sessions` row (PostgreSQL, where deleting a
session has to wait for the turn that holds it).

Assumed: `created_at` is strictly increasing within a session, taken after the
lock. This is so in one process; clocks of several that disagree by more than
the time between two turns can break it (hazard at `repositories/chat.py:61`).

### RateLimits

A bucket is a (limiter, key) pair. A token is `Per` credits and a bucket earns
`Capacity` credits a tick, so that the code's floating-point fractions are whole
numbers; rounding errors of floats are not modelled. `check` has no `await` in
it, hence each request's checks are one step: `Gate` for login and session
opening, `Chat` for the two of a chat request, the first of which stays charged
when the second refuses. `Prune` is the background task, `Tick` the clock.
`RetryAfter` is `int(q) + 1` seconds: where the missing credits take a whole number of
seconds to earn, the caller waits one second longer than it would have to, which
`RetryAfterHonest` states as the only case of that.
`start`, `taken`, `waiting` and `due` are history variables that only the
properties read. Assumed: capacities are at least 1 and
`older_than_seconds >= per_seconds`, as in every place the code builds or prunes
a limiter; with a limit of 0 the code divides by zero (a listed hazard).

### AgentRun

The generator stands `at` "running", "yielding" (suspended in a `yield`, its
consumer at work), "sleeping" (backoff), "leaving" or "failing" (outside the
deadline, about to send the last event), or has ended. The framework with its
model is external, and is anything that can happen: turns of slices, streamed or
not, tool calls, errors, silence. A slice `<<attempt, n>>` names what was said,
so a repetition or a loss is visible. `LangGraph = FALSE` is Pydantic AI, whose
turns are always streamed and whose limit counts calls; LangGraph's counts its
steps (`RecursionLimit`): a model turn is one, and so is a round of calls, however
many there are in it. `RoundsWithinLimit` is what that bounds; the documented ceiling on
calls, `CallsWithinLimit`, it does not keep (`agent_limit`).

### SourceText and AgentTools

`SourceText` is pure. A line is a record (blank, heading, hashes alone, body; its
size; its words); the text of a chunk is a sequence of line numbers, 0 for the
blank line that joining puts in. `Headings` follows the regular expression, whose
white space runs over line ends, so that hashes alone take the next line for their
title. Each loop of the code is a `Fold`, which is a recursive function of the
number of items taken and hence open to proof; `Chunks` is `Merge` of `Cuts` (the
`Pieces`, each `Under` its heading) of `Blocks`. Scores are floating point:
`Results` is any choice of the best candidates.

`AgentTools` extends `AgentRun`. A call goes through `stage`:

| Stage | Code |
|---|---|
| `planning` | `_plan`: inline, cached and fresh (`PlanAtHand`), or `PlanDownload`; an unknown id (`NotFound`) |
| `fetching`, `storing` | `Download` ends with an answer for each source; `Keep` falls back on the copy in hand |
| `flushing` | `_store` has assigned the text (`view` changes for all) and awaits its flush; then it forgets the chunks (`FlushEnds`) |
| `clashed`, `broken` | the session refuses a flush beside another or a second document of a source (`Clash`), and may refuse a SELECT (`Refuse`) or a flush beside a statement of another call (`Occupied`); a download or a flush fails |
| `done`, `returned` | `_outcome` has recorded the call, in the same step in which it got its text; the framework reports it (`Return`) |

`view[s]` is the one document object of source `s` that the session holds and all
calls see. `memo[s]` is the text `_chunk_cache` was made from. `Instruct` is a
model turn with the catalogue in its instructions, loaded as the framework asks
for it. `Fail` is `Raise` with what it does to `invocations` and `citations`.
`Call` gives ids of the catalogue and one that is not there, offsets before the
text, behind it, and where an earlier page said to read on.

Assumed of a text: it is not the one line without a character. The code takes
the empty string for no text at all (`bool(self.text)`, `document and document.text`),
and that has no lines here.

A search in a source that has no text answers "nothing found" and not
"unavailable", as the code does; hence `UnavailableOnlyWithoutText` bounds when a
source may be called unavailable and does not say that it must be.

### SourceCache

Three kinds of request (`Turns`, `Statuses`, `Refreshes`) load sources of one
tutor in the three phases of `load_many`: `Plan` (one after the other, SELECT),
`Fetch` or `FetchBreaks` (all at once), `Store` or `StoreRaises` (one after the
other, flush). `row` is committed, `draft` is what a flushed and uncommitted
write leaves. `object` is what the identity map of a request remembers since its
tutor was loaded, and `Planned` the resulting stale read. `Written` is the
UPDATE of the columns that differ from the loaded ones. `Rerun` is the runner's
retry after a network error, in the same transaction.

Simplified: an origin shows the texts of `Published` one after the other, each
under its own ETag; a 304 to a request without a document, origins that send no
validators and inline sources are left out; freshness is nondeterministic, since
the TTL is a setting and any time can pass between two steps. Inline sources, the
chunks, and several loads in one session are in `AgentTools`.

### Fetch and LoadingRequests

| Position or action | Code |
|---|---|
| `resolving`: `Resolve`, `Blocked` | `assert_public_url` in a thread: every address of the name must be public |
| `sending`: `Send`, `SendFails` | `_pin` and `client.send`: the wait for a connection, then a connection to an address of the lookup |
| `waiting`: `Redirected`, `Answered`, `Settled` | the headers: a redirect, a body, or a status that ends it |
| `redirected`: `Follow`, `FollowRefused` | the next hop is looked up and only then this response is closed; refused, or sent to a Location that cannot be parsed, it stays open |
| `reading`: `Read`, `Finish`, `Break` | `_read_limited` in a `try` whose `finally` closes |
| `Cancel` | the tasks are cancelled, each where it stands |
| `Rebind` | a name gets other addresses, at any time |

`peer` is the open response, hence `Busy` the connections lent. Bytes are counted.
`LoadingRequests` adds the requests: `Borrow` and `Refuse` (the pool's timeout),
`Launch` (gather), `Serve`, `Raise` (one download raised, the others are left
running) and `Abandon` (the request is cancelled and gather with it).

### TutorAdmin

A request decides by what it reads (`Create` ... `UseKey`), is "ready", flushes
when nobody it clashes with has flushed before it, and commits. `Clash` is what
PostgreSQL makes wait: the same row, the foreign-key lock on a parent that is
being deleted, the same value of a UNIQUE column. `Accepted` is what the
statement meets when its turn comes. `Changed` and `AllColumns` are the UPDATE
of changed columns, `Goes` the ON DELETE CASCADE.

Simplified: all locks of a delete are taken at once (the deadlock between the
deletion of a tutor and a turn is a listed hazard that spans `ChatTurns` and
`SourceCache`; its outcome, one of the two rolled back, is an action of
`ChatTurns` and of this module); identifiers no row or request knows may be used
again, which only makes more things possible than with fresh UUIDs; labels, texts
and origins are the one column `title`; every use of a key writes `used`, whose time
(`last_used_at`) is not kept, and `updated_at` is left out.

### How they fit together

Two modules are compositions: `AgentTools` extends `AgentRun` and `SourceText` and
conjoins the steps of a run with those of its calls; `LoadingRequests` extends
`Fetch`. Both are proved to implement what they extend, so its theorems are
theirs. The others share no variables: each meets the rest at a narrow place that
both sides state. A turn's `Answer`, `RunFails` and `Raise` are the ends of an
`AgentRun` ("answered", "failed", and an exception or a cancellation for
"aborted"), and `ReplyStream` is what `ChatTurns` relies on. `Throttle` is a
denial of `RateLimits`. A turn of `SourceCache` is one of `ChatTurns` between
its first flush and its commit; on SQLite it therefore holds the write lock all
the time it loads. `SourceCache` has many sessions with locks and one loader in
each, `AgentTools` one session with many loaders: `Flush` of the one is `Store` of
the other, `Clash` and `Break` are among what ends in its `Rollback`. Their
`Fetch` and `Download` are the ends of a download of `Fetch`: "fetched",
"unchanged", "failed", and "broken" for `FetchBreaks` and `Break`. The
deletions of `TutorAdmin` are `DeleteTutor` of `ChatTurns` and `Remove` of
`SourceCache`.

## 3. What the runs check

Deadlock is checked where the system never stops (`admin_races`). Elsewhere the
clock or the requests of a run are finite, and it stops when all are done.

| Run | Instance | Shows |
|---|---|---|
| `chat_postgres` | 3 turns (2 streamed, 1 JSON) of one session, history of 4, row locks | exchanges whole and adjacent, transcripts append-only, history the latest past, a request that comes after the revocation of its key never runs, nothing outlives its session, refinement of `Conversation`, every request ends |
| `limiter` | a conversation of capacity 2, its caller of 1, a login bucket of 2, refilled in 3 ticks, clock to 8, windows from 0 and 2 | window bound, Retry-After enough and at most a second too long, refinement of `IdealLimiter` |
| `agent_runs` | LangGraph, 2 attempts, 3 turns of 2 slices, 2 tool calls; one source that changes once, one inline; all documents of up to 5 lines of 6 kinds | the answer is what the model said, refinement of `ReplyStream`, limits, records, citations, pages, chunks and search; every run ends |
| `cache_postgres` | a turn of 2 batches and a status page over 2 sources; the two and a refresh over one that changes once and may be removed, with bodies that break off | coherence of text and validator, no circular wait at the first catalogue, every request ends |
| `cache_sqlite` | 2 turns of 2 batches over 2 sources that change, one lock | load never raises, no row goes back |
| `fetches` | a request with 2 downloads and one that only wants the database; one connection of each kind; 2 names of 1 or 2 addresses, one of them not public; 1 redirect, 2 bytes | validated addresses, lost connections, ceiling, no download without its request, everybody is answered |
| `admin_races` | 2 requests without end, 2 tutors, 3 sources, 1 key, limit of 1 source, 2 slugs | no orphans, distinct slugs, bounded overrun, edits keep to what was sent |
| `chat_interrupted`, `agent_timeout`, `agent_limit`, `cache_race`, `cache_takenback` | as small as possible | a documented promise the code does not keep (section 5) |

On SQLite (`WholeDatabase = TRUE`), and for sessions of several keys side by side,
the safety properties of `ChatTurns` rest on the theorems of section 4, which cover both
kinds of lock; its liveness is checked on PostgreSQL alone.

Type invariants of `ChatTurns`, `RateLimits`, `SourceCache` and `TutorAdmin` are
proved (section 4) and not run again.

**Two cases in one instance.** `cache_postgres` and `agent_runs` have an
ACTION_CONSTRAINT `TwoCases`, which leaves out combinations that would multiply
the states and relate nothing. In `cache_postgres` either two sources stay as they
are and are downloaded whole, or one is edited and removed by all kinds of
requests. In `agent_runs` either the calls are all of `list_sources`, and
attempts are repeated, what is said is followed, the deadline and the client
strike; or the calls are of any tool, in the first attempt of a model that says
nothing, in a run that only its tools break down. A fair request of
`cache_postgres` always has a step the constraint allows. In the second case of
`agent_runs` the deadline does not strike, so that `EveryRunEnds` is about the first
case, where it does; all other properties of the run are safety, and about both.
The theorems have no such constraint.

**Why the bounds are enough.** Interference in `ChatTurns` is pairwise (one lock
holder, one that waits), and a third turn is there to see the messages of the
other two; a history of 4 with up to 6 rows makes the limit cut between and
within exchanges. Two attempts suffice for a retry, two slices a turn and two
turns tell a repeated turn from a repeated slice, and with one round allowed the
third turn is one step too many. Two calls are side by side, or the second reads
on, searches anew or cites again; a text of more than one page and more than one chunk, with hashes
alone and a paragraph too long for a chunk, is replaced by or replaces a shorter
one. Five lines are enough for two headings with a text each, or for the three
paragraphs it takes to see that a length is started anew. In the cache two
writers and one version change are what it takes to mix two
documents, and two sources to wait in a circle. One connection of each kind is a
pool at its limit, one redirect and two bytes a ceiling that chunks of one or two
bytes reach or pass. In the administration any two
requests can clash, and a limit of 1 with two requests shows the overrun;
`Titles` has one member because tutors' columns are written concurrently as
status and title together, and where different columns are written by different
requests at once is the key (revoked while it is used), which has both. The
theorems of section 4 remove these bounds for the properties they cover.

**Bounds that are not in the code**: `Horizon` (the clock of `RateLimits`),
`MaxTurns`, `MaxSlices` and `MaxCalls` (`AgentRun`), `MaxLines` (`SourceText`: the
documents looked at), `MaxBatches` (`SourceCache`), `MaxChunk` of `Fetch` (what a
server sends at once), `MaxSlug` (`TutorAdmin`: where the search for a suffix
gives up) and the lengths of `Published` and of a source's `Texts`.

**Fairness.**

* `ChatTurns`: `WF(Progress(t))` for each turn. A run is bounded by
  `agent_timeout_seconds`; a lock wait ends when its holder's transaction ends,
  or by SQLite's busy timeout; a stream's reader is assumed to read or go away.
  A reader that does neither, once DONE is out, has no timer over it: a listed
  hazard, not a property. Nothing is assumed of requests yet to come,
  administrators, clock, crashes or retention.
* `AgentRun`: only the event loop is fair: its timer fires (`Deadline`) and a
  generator outside the deadline goes on (`Close`). The model may hang and the
  reader may stall.
* `AgentTools`: the same. No call has to come back and no download to end: the
  deadline ends the run under them all.
* `SourceCache`: `WF(Rollback(r) \/ Progress(r))`. Downloads and the
  driver's waits have timeouts, PostgreSQL resolves deadlocks, and an exception
  reaches the end of its request.
* `LoadingRequests`: `WF(Progress(r))` and `WF(Download(f))`. A lookup ends, and every
  wait (for the database, for an HTTP connection, for headers, for each piece of a
  body) has a timeout, which is one of the outcomes; that a server answers, that a
  connection becomes free, or that a lost one comes back is not assumed.
* `RateLimits` and `TutorAdmin` state no liveness.

Liveness is only model-checked; the rest of what the passing runs check is proved as
well (section 4).

## 4. What is proved

Every theorem holds for all values of the constants that satisfy the
assumptions named in its module. Each rests on an inductive invariant, whose
parts TLC checked before they were proved.

**`ChatTurnsProofs`** (any number of tutors, keys, sessions and turns, both kinds
of lock).

| Theorem | Property |
|---|---|
| `TypeCorrect` | `TypeOK` |
| `SessionsCoverTheirRows` | `GoneSessionHoldsNothing` |
| `ExchangesNeverInterleave` | `ExchangesAdjacent` |
| `ExchangesAreWhole` | `OnlyWholeExchanges` |
| `TranscriptsAppend` | `TranscriptAppendOnly` |
| `HistoryCorrect` | `HistoryIsLatestPast` |
| `RevocationHolds` | `LateRequestNeverRuns` |
| `ChatIsConversation` | `ImplementsConversation` (refinement of `Conversation`) |

`LockInv` comes first: an admitted turn has touched `last_seen_at`, so that from
its first flush to its end it holds its session's row, nobody else does, and the
session is there. On this rests `RowsInv`: pending rows are later than every
stored one of their session, so an exchange lands behind all others. `HistInv`
then says that what was read stays the latest past, since nothing can be stored
in the session meanwhile. `LateInv` is separate: a key does not become active
again, so a request that found it inactive can only be refused or dropped.

For the refinement a set of rows becomes a sequence. `RankInv` says that the rows of
a session have ranks: every number below their count is the number of rows before
exactly one of them. Then the n-th row exists and is known by its rank (`NthRow`,
`RowNth`), a row later than all others has the last rank and changes none of the
others' (`NewRow`), and so a commit puts question and answer at the end of the
dialogue (`CommitGrowsDialogue`); they are rows of a turn none of whose rows is
stored (`CommitIsFresh`). A deletion forgets, every other step leaves the dialogues
alone (`StepsConverse`).

**`RateLimitsProofs`**: `TypeCorrect`, `WindowsAreBounded`, `RetryAfterCorrect`,
`PruningIsInvisible` (refinement of `IdealLimiter`). `WindowInv` adds what a
bucket gave to what it still holds: the sum never exceeds its capacity and the
refill of the window. `RetryInv` keeps what a refused bucket was refused with; that a
wait is a whole second too long only where a token is complete at that very second is
what remains of "as short as possible" after rounding up by `int(q) + 1`.
That pruning goes unnoticed needs `IdleFor >= Per`: a bucket idle that long is
full.

**`AgentRunProofs`**: `TypeCorrect`, `AnswerIsWhatWasHeard` (refinement of
`ReplyStream`), `NothingLostOrRepeated` (`AnswerIsWhatModelSaid`),
`AnswersStayWithinLimit` (`RoundsWithinLimit`). `RetryInv` (only a run that emitted
nothing sleeps), `HeardInv` (answer and heard text are the same, empty if
nothing was emitted) and `SaidInv` (they lack what was said only as long as the
current turn is not streamed and not over; the flag tells which). `CountInv`: the
steps taken never exceed the recursion limit, and as an answer takes a last model
turn, its rounds are at most half of what is left.

**`AgentToolsProofs`** (any sources and texts of any length, any number of calls and
rounds, any choice among the results of a search).

| Theorem | Property |
|---|---|
| `ToolsRunIsARun` | `ToolsSpec` implements `AgentRun`'s `Spec` |
| `ToolTypesCorrect` | `ToolsTypeOK` |
| `ChunksStayOfText` | `ChunksAreOfText` |
| `CallsAloneDoNotClash` | `OnlyCompanyClashes` |
| `ReportsAreComplete` | `EveryCallReported` |
| `CitationsCorrect` | `CitationsAreFirstQuotes` |
| `ReadingCovers` | `ReadingOnCoversText` |
| `UnavailableIsWithoutText` | `UnavailableOnlyWithoutText` |
| `LinesStayInChunks` | `EveryLineInItsChunk` |
| `ChunksKeepTheirSize` | `ChunksHaveTheirSize` |
| `SearchFinds` | `SearchFindsEveryWord` |

`CallInv` comes first. `CallsInv`: as many calls are at work as the run has tools
open (a cardinality), all of the present round, so that a model turn begins only
when no call is at work. `SourceInv`: a call that is not of the catalogue handles
its one source, and asks for none twice. `FlushInv`: one flush at a time. On these
rest `ChunkInv` (chunks can be of another text only while that is being flushed, and
the flush that ends forgets them), `CompanyInv` (a call that holds there is no
document of a source which has one has had a neighbour in its round, for the round
began with both alike), `ReportInv` (a call is reported when and only when it is
over) and `CitationInv` (the quotation cited is that of the first report with one).
The lemmas on `Loaded` handle the four tools at once.

`AnswerInv` is about what a call that is over has told (`Tells`): it answers from a
version its source has shown, or has had no copy in hand, and an answer of
`fetch_source` is `Reading` of the text at that version. That a page lies in the text
and leads on is then arithmetic (`ReadingIsPage`), given that the length of a text is
a natural number and 0 for no text only. The last three theorems apply those of
`SourceTextProofs` to every document of the instance and to every text searched.

**`SourceTextProofs`** (documents of any number of lines, headings and paragraphs).

| Theorem | What it says of every document |
|---|---|
| `TidyKeepsLines` | normalising changes nothing but blank lines |
| `ChunksKeepLines` | `LinesAreKept`: the chunks in their order hold each line of body once, in order |
| `ChunksKeepHeadings` | `LinesKeepTheirHeading`: each under the last heading above it |
| `ChunksStayShort`, `ChunksStayLong` | `ChunksAreShort`, `ChunksAreLong`: the bounds of a chunk |
| `WordsFind` | `WordsFindTheirLines`: every word of a line of body finds the line |

The induction is done by hand, since a theorem about any predicate has an operator
for a parameter: a set that has 0 and the successor of each of its numbers has all
of them (`Induct`, from the least number that is missing), and likewise the sequences
(`Grow`, by their last item). `Recursion` shows that the function a `Fold` chooses
exists, and `FoldSteps` that a fold of one item more is one step more; each fold of
the model gets its equations from it (`SelectSteps`, `GroupedSteps`, `MergeSteps` ...).
The argument then follows the code. The matches of the heading expression are
`Ordered` and do not overlap, so the stretches between them (`Begin` to `End`) are
exactly the lines outside headings (`GapIs`, `GapBody`). What they keep, put together,
is the body (`StripsAre`), so it is what the blocks keep, each of which is `Headed`: its
lines stand under its heading (`BlocksAre`). Cutting a block at its paragraphs keeps its
lines, and what it gives `Fits`: it is within the maximum or has a `Long` paragraph
(`GroupsFit` is the invariant of the loop, `PiecesAre` its result). Merging keeps the
lines too, makes nothing longer than a full chunk and a short one together
(`JoinedIs`), and leaves no short chunk before one of its heading (`Apart`).

**`LoadingRequestsProofs`** (any number of requests, downloads, names and addresses).

| Theorem | Property |
|---|---|
| `LoadingDownloads` | `LoadingSpec` implements `Fetch`'s `Spec` |
| `TypeCorrect`, `LoadingTypeCorrect` | `TypeOK`, `LoadingTypeOK` |
| `PeersAreValidated` | `PeerWasValidated` |
| `ConnectionsComeBack` | `LostOnlyInRedirect` |
| `CutAtCeiling` | `CutOnlyAtCeiling` |
| `DownloadsStayWithRequests` | `RequestsKeepTheirDownloads` |

What a download is about to connect to is what its last lookup validated, for the
host it is at; a download that stands at "new" or "resolving" has no
connection; what is kept of a body is its length or the ceiling.

**`SourceCacheProofs`**.

| Theorem | Property | Under |
|---|---|---|
| `TypeCorrect` | `TypeOK` | |
| `RowsAreCoherent` | `Coherent` | `NeverTakenBack`: an origin never shows an earlier text again |
| `FirstCataloguesNeverDeadlock` | `CatalogueNeverDeadlocks` | |
| `TurnsNeverRaiseOnSqlite` | `LoadNeverRaises` | `OnlyTurnsOnSqlite`: SQLite, only turns, no source removed, bodies whole |
| `TurnsNeverGoBackOnSqlite` | `NeverGoesBack` | the same |

The provisos are needed: `cache_takenback` and `cache_race` show what happens
without them. `RightInv` says that every document anywhere (row, draft, object,
plan, reply) has its own validator, and with distinct texts a mixture of two
columns cannot arise. `UpwardInv`: a request at its first batch has written only
sources that precede all it has yet to store. `AloneInv`, `PlanInv` and
`NewerInv`: on SQLite the turn that loads is alone in the database, so what it
planned with, though remembered from before it had the lock, still agrees with
the table on which rows exist, and what it downloads is not older than they are.

**`TutorAdminProofs`** (any number of requests, tutors, sources and keys).

| Theorem | Property |
|---|---|
| `TypeCorrect` | `TypeOK` |
| `EditsKeepToTheirColumns` | `OnlySentColumnsChange` |
| `NothingOutlivesItsTutor` | `NoOrphans` |
| `SlugsStayDistinct` | `SlugsDistinct` |
| `OverrunIsBounded` | `LimitOverrun` |

`WriteInv` is what holds of a write from the moment it is decided: an INSERT is
of new whole rows known to nobody else, an UPDATE names columns that were sent.
`FlushInv` is what holds from the flush to the commit: the slug is free, the
parents and the rows to update are there, because whoever could change that
clashes and waits. Commits then preserve `NoOrphans` and `SlugsDistinct`.
`CountInv` bounds the sources of a tutor together with the requests that are
adding to it: a new adder has seen room, and a commit turns an adder into a
source. All steps but flush and commit are handled once, by the lemmas that show
they are `Settled`.

**Only model-checked.** Liveness (`EveryRequestEnds`, `EveryRunEnds`,
`EveryCallerIsAnswered`), which the provers do not reach. All the other properties of the
passing runs are theorems. Of `SourceText` the outline (`Outline`) and the choice of
the best results (`Results`) are in no theorem of their own: the tools' properties
hold whatever they return. The runs that expect a violation show what is false, and
the provisos in the tables of this section are those of what is true instead.

## 5. Where the code and its documentation part

| Run | Kind | What |
|---|---|---|
| `chat_interrupted` | documentation | `ChatService.answer` says that an interrupted answer leaves its question in the transcript; the transport rolls the question back with the rest |
| `agent_timeout` | documentation | `contracts.py` says a timeout is emitted as an ERROR event; a deadline that expires while the generator is suspended in a `yield` cancels the consumer, and the stream ends without one |
| `agent_limit` | documentation | the README calls `AGENT_MAX_TOOL_CALLS` a ceiling on tools per answer, and the LangGraph runner says it runs under the limits of the other; its recursion limit counts rounds, and a round may have any number of calls |
| `cache_race` | code | two first loads of one source both INSERT it; the second raises out of `load`, which promises that no failure does |
| `cache_takenback` | code | an origin that goes back to an earlier text between two overlapping updates leaves a row with one version's text and another's ETag, and the 304s that follow keep it so |

## 6. What is not modelled

* **Conversion to text** (charset, HTML, JSON): a conversion of data no property is
  about; only its failing is an outcome of `Fetch`.
* **BM25 scores** are floating point: `SourceText` lets any order of the candidates
  happen. That a snippet is cut to size is left out.
* **Wording** of prompts, answers and errors, and the choice of a model and its
  settings, which are constants of a run. How long a backoff lasts: a run sleeps for
  any time.
* **A reader that never reads**: the embed transport has no timer over a stalled reader
  once DONE is out, and `EveryRequestEnds` of `ChatTurns` assumes that it reads or goes.
* **Clocks that differ**: messages are stamped by one clock.
* **Deadlock between the deletion of a tutor and a turn**: `ChatTurns` and `TutorAdmin` have its outcome,
  none the circle itself.
* **Authentication**: password hashing and signatures are external; logging in
  keeps no state but `last_login_at`.
* **Origin allowlist, public keys, snippets**: comparisons of strings, a random
  value and HTML; a session is authorised or it is not.
* **HTTP edge, schemas, configuration, logging, migrations, seed and start-up**:
  stateless, declarative, or run once and alone. Limits are constants here.
* **Hazards no property covers** carry a note in `PROJECT.json` that says why.

## 7. Plan

The order followed the weight of the behaviour: first the conversation, where
nearly all concurrency meets, then the limiter before it, the run inside it, the
cache under it, the administration beside it; then what a run and the cache are
made of.

| | Module | State |
|---|---|---|
| 1 | `ChatTurns`, `Conversation` | modelled, checked, proved but for liveness |
| 2 | `RateLimits`, `IdealLimiter` | modelled, checked, proved |
| 3 | `AgentRun`, `ReplyStream` | modelled, checked, proved but for liveness |
| 4 | `SourceCache` | modelled, checked, proved but for liveness |
| 5 | `TutorAdmin` | modelled, checked, proved |
| 6 | `Fetch`, `LoadingRequests` | modelled, checked, proved but for liveness |
| 7 | `SourceText` | modelled, checked up to a length, proved for every length |
| 8 | `AgentTools` | modelled, checked, proved but for liveness |

What could come next: slug normalisation, the origin allowlist and the client
address behind trusted proxies as operators; a module that composes `TutorAdmin`'s
deletion with a turn and its cache writes, lock by lock, and says which pairs of
requests can wait for each other.
