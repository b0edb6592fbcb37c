# Formal model of nf-query

TLA+ modules, TLC configurations and TLAPS proofs for nf-query: a public web
service that shows the mails of a bound temporary mailbox, and an admin service
that manages the bindings. Both are Node.js processes (`src/src/`) over SQLite
files, with shell scripts for backup and release (`src/scripts/`). The source of
truth for every definition is the code; `PROJECT.json` names the lines.

Sections: [inventory](#inventory), [modules](#modules-and-their-correspondence-to-the-code),
[runs](#what-the-runs-show), [proofs](#what-is-proved),
[findings](#findings), [limits](#what-is-not-covered), [plan](#plan).

## Inventory

| Component | State | Operations | Interacts with |
|---|---|---|---|
| Work queue (`shared/queue.js`, `WorkQueue`) | `#active`, `#waiting`, per call: entry, controller, timers | `run`, `#acquire`, `#release`, wait timer, total timer, abort listeners | called by the query service (4 slots, 64 waiters) and the session manager (1 slot, 32 waiters) |
| MIME worker pool (`shared/mail.js`, `mail-worker.js`) | `#slots`, `#queue`, jobs, the threads themselves | `submit`, `#dispatch`, `#message`, `#abort`, `#workerFailed`, exit events | one pool per process size; jobs come from the queries in the work queue |
| Admin bindings (`admin/bindings-service.js`, `BindingsRepository`) | table `bindings`, requests that await the upstream | create, update, delete, replaceCredential, testCredential | upstream client; read by the query service in another process |
| Login and sessions (`admin/session.js`, `AdminStateRepository`, `admin/app.js`) | tables `login_failures`, `admin_sessions`, the login queue | login, authenticate, rotateCsrf, logout, prune, cleanup | work queue; the admin page's tabs |
| Upstream client (`shared/upstream.js`) | a request's deadline and joined signal | `getMails`, `getSettings` | bindings, query service |
| Query service (`public/query-service.js`, `public-app.js`) | none of its own | `query` | bindings table, queue, upstream, pool |
| Public page (`public/app.js`) | the active controller, field, buttons, mails on screen | `runQuery`, submit, refresh, its timer | query API, email history |
| Browser email history (`public/email-history.js`, `public/app.js`) | the list of the page, one key of local storage | load, remember, remove, clear | public page; other tabs write the same key |
| Admin page (`admin-ui/app.js`) | the view; the list with search, offset, total and the loading flag; the edit dialog | bootstrap, login, logout, create, list and paging, edit, save, test, replace, delete | admin API; other tabs and other administrators |
| Database openers, migrations (`shared/database.js`) | `schema_migrations` | `migrate` | both processes at start |
| Backup, restore drill (`scripts/`) | snapshot and checksum files | `backup-bindings.sh`, `restore-drill.sh` | readers of the backup directory |
| Release (`scripts/release.sh`) | `current` link, services | activate, check, roll back | systemd |
| HTML sanitizer, normalization, matching, crypto, HTTP, config, metrics, logging | none | pure conversions and I/O | everybody |

What is hard here:

- *Queue*: a slot is handed from the call that ends to the head of the line in
  the same turn of the event loop, while that entry's wait timer and its abort
  listener may be due. Two timers, one listener and the work's own end compete
  for one answer. `run()` releases the slot in two separate places.
- *Pool*: the main thread's books and the threads disagree while a message or an
  event is on its way; an abort frees the slot before its thread has stopped.
- *Bindings*: a request reads a row, awaits the upstream for seconds, and writes
  it; any number of other requests run meanwhile. A version column guards the
  write.
- *Login*: the failure limit is checked before, and the failure is recorded
  after, a password hash that is awaited; a queue with one slot serializes them.
  Sessions are read before a body is awaited and used after it.
- *Upstream*: the caller's abort, the timer, a deadline, an oversized body and a
  broken connection meet in one `catch`; `fetch` may resolve although it was
  aborted, and parsing may pass the deadline when the timer is gone already.
- *Query*: the first mail that fails answers the query while its other jobs stay
  in the pool and its slot goes to the next query.
- *Public page*: the controller, the buttons and the list outlive the `await`s of
  `runQuery`; the timer may fire while the body is read.
- *Backup*: two files become visible, and are removed, one after the other, across
  file systems, by runs that may be killed, beside readers that take no lock.
- *Admin page*: an edit is typed over a list that may be reloaded before it is
  saved; the body of a save is the difference to the row listed *now*, guarded by
  the version of the row the dialog was opened for. A reload of the list is dropped
  while another one is in flight, a change of the language draws the old list and its
  paging buttons meanwhile, and answers come after a logout.
- *Email history*: two spellings of one mailbox, a storage that refuses, other tabs.

What makes them correct is stated as the properties below; `PROJECT.json` lists
every hazard with its line and the properties that would catch it.

## Modules and their correspondence to the code

JavaScript runs a handler to completion, so an action of every module is
everything between two awaits, or one callback, including what it calls
(`#dispatch`, `#release`, the SQLite statements, which are synchronous).

Definitions marked *Mutant* are plausible bugs. No specification uses them; each
is what some mapped definition is replaced with to see that a property fails.

### AdmissionControl

What callers may rely on, in three variables: at most `Capacity`
requests inside, a line of at most `LineBound`, first come first served, a place
is handed over in the step that frees it, one answer each. It has no timers, no
promises and no listeners. `WorkQueue` is shown to implement it and `AdminLogin`
is built on it, so the login model rests on what the queue was shown to do.

### WorkQueue, WorkQueueProofs, SeqLemmas

`active` and `waiting` are `#active` and `#waiting`. `phase` tells where a call
of `run()` stands: `new`; `waiting` (an entry in line); `granted` (the promise
of `#acquire` is resolved, its continuation has not run); `running`; `settled`.
`age` is the time since `startedAt`, `cancelled` the callers' `AbortSignal`s,
`reason` the state of the call's own `AbortController`, `outcome` its answer.

| Code | Actions |
|---|---|
| `#acquire`, 55-87 | `AcquireCancelled`, `AcquireSlot`, `AcquireFull`, `AcquireWait` |
| timer of an entry, 70-75 | `WaitTimeout` |
| abort listeners, 30-32, 76-82 | `AbortUnheard`, `AbortWaiting`, `AbortRunning` |
| continuation, 26-45 | `BeginLate`, `BeginCancelled`, `BeginWork` |
| total timer, 39-41 | `TotalTimer` |
| end of the work, 45-53 | `WorkReturns`, `WorkThrows` |
| `#release`, 89-99 | `Release`, part of every action that ends a call with a slot |

A timer fires at its deadline or later. `totalTimeoutMs` may be shorter or longer
than `maxWaitMs` (config.js bounds them separately). Both users of the class give
a total time; the branch without one is left out. Left out too: `Semaphore`,
which nothing imports, and `onWait`, which feeds a metric.

### MailPool, MailPoolProofs

`queue`, `slots`, `dead` and `job` are the pool's books; `thread`, `inbox` and
`reply` are the threads and what is on its way to and from them. `Dispatch` is a
relation used at the end of every handler that calls `#dispatch`; which idle slot
is taken first is left open. Actions: `SubmitAborted`, `SubmitFull`, `Submit`,
`AbortQueued`, `AbortActive`, `StoppedExit` (the `finally` of `terminate()`),
`Parse` (the thread), `MessageDropped`, `MessageAccepted`, `ErrorEvent`,
`CrashedExit`, `SilentExit` (exit without error, code 0 or not). Mail contents
are not modelled. The Node.js contract used: a posted message is delivered before
the thread's exit event, and `error` comes before `exit`.

### Bindings, BindingsProofs

`rows` is the table; a row is its external id, address, the address its envelope
was sealed for (`seal`), the JWT inside, the status and the version. `call` holds
what a request remembers across its await. Each operation has a `Start...` action
(validation, `requireById`, version check) and one for each answer of the
upstream; `UpdateFields` and `Delete` have no await. `IsNextId` follows SQLite's
rule for `INTEGER PRIMARY KEY` without `AUTOINCREMENT`. `Restart` drops what
awaits. `life`, `crossed`, `accepted` and `refused` are history for the properties
and guard nothing. The SQLite statements of one request's continuation are one
action because they run without an await; other processes only read.

### AdminLogin, AdminLoginProofs

Composes the abstract queue (`Queue == INSTANCE AdmissionControl`) with the tables.
`hashing[a]` is the `now` of `#loginSerialized` while the hash is awaited; it dates
the failure and the session. `CheckLocked`/`CheckOpen` are the part before the
await, `PasswordWrong`/`PasswordRight` the part after. A login whose time runs out
is told `late` or `overtime`, and its work still ends. `Authenticate` is the
middleware, `RotateCsrf` and `Logout` the handlers after their body. `Restart`
keeps the tables only. IP hashes are the IPs, tokens are named by the attempt
that drew them (32 random bytes do not collide).

### ParsingService

What a query may rely on in the pool: room for `MaxQueue` unanswered jobs, one
answer each, a refusal only for want of room, a cancellation that takes effect at
once. No threads. `MailPool` is shown to implement it and `PublicQuery` uses it.

### UpstreamRequest

One call of `#get`. `due`, `armed` and `timedOut` are the timer of `joinedSignal`,
`external` the caller's signal, `aborted` the joined one; `stage` is the await the
request is in. `SeesAbort` is `fetch` rejecting because of the abort; that an
answer may come first is left open. `Fail` is the `catch` with its three ranks,
`Succeed` the part after it, where `JSON.parse` takes time. Headers, URLs and the
classification of upstream codes are left out. Its formulas are `RequestInit`,
`RequestNext`, `RequestSpec`, as those of `PublicQuery` are `QueryInit` and so on: one
module, `PublicProofs`, proves about both and about `PublicPage`.

### PublicQuery

Composes `AdmissionControl` and `ParsingService`: `NoBinding`/`Arrive` are
`query()` up to `queue.run`, `FetchFails`/`FetchAnswers` the end of `getMails`,
`JobEnds` an answer of the pool, `Cut` the caller's abort or the total timer.
`AwaitAll` is `Promise.all`, judged on the jobs as the step leaves them. A fetch is
one action at its end because `UpstreamRequest` shows that it ends and what with.

### EmailHistory

`sanitizeHistory`, `rememberSuccessfulEmail` and the rest as functions of a list:
`Sanitized`, `Without`, `Remembered`. The loop and the filter are functions of the
number of turns (`Collected` with its turn `Taken`, `Spared`), which is what the proofs
go along. What `sanitizeEmail` turns down is the set
`Refused`, `emailKey` the function `KeyOf`. `WellFormed` is what every list is that
these functions return.

### PublicPage

Extends `EmailHistory`. `query[k]` is the k-th call of `runQuery`, `active` the call
whose controller is `activeController`. `Start` is the call up to `fetch`,
`HeadArrives` the head of the answer, `BodyArrives`, `BodyBreaks` and
`ErrorBodyEnds` what `readResponse` comes to, each with its `catch` and `finally`
(and, after a success, `Remember`). A call is `answered` when its body arrived
whole, `over` when it ended otherwise. `history` is the page's list, `stored` the key
in local storage: `RemoveEntry` and `Clear` are the buttons of the history,
`OtherTab` a write by another tab, `PersistHistory` may be refused, and `Reload`
starts over from what is stored, if it can be read. `synced` is a history variable:
this page was the last to use the storage, and it went well. Mails are `none` or
`newest`, which is all that `newestMailOnly` keeps.

### AdminPage, AdminPageProofs

A call of `api()` occupies a slot of `calls` and goes through the stages `sent`,
`answered`, and `reloading` for a caller that awaits `loadBindings` with its button
disabled.

| Code | Actions |
|---|---|
| handlers up to their await | `Login`, `Logout`, `CreateBinding`, `SetLanguage`, `Search`, `PreviousPage`, `NextPage`, `ReloadList`, `OpenEditDialog`, `CloseEditDialog`, `SaveBinding`, `RowAction` (test, replace, delete) |
| `loadBindings`, 608-622 | `LoadBindings`, part of every action that calls it |
| the service | `Serve*`, `Unauthenticated` (401), `Fails` (refused for another reason, or the connection broke before or after the service did its part) |
| continuations | `SignedIn`, `SignedOut`, `Created`, `Saved`, `RowActionDone`, `Loaded`, `LoggedOut`, `ErrorShown` |
| a reload of the page | `Reload` |
| other tabs and administrators | `WrittenElsewhere` |

The service does its part in one step; what happens inside it is the subject of
`Bindings`, and sessions are `AdminLogin`'s, so a 401 may come at any time. A row's
content is its external id and its note. `born` is a history field that tells a row
from a later one with the same id. The rows of one list are those of one answer.
`Room` bounds the calls under way and keeps one slot for the load of the list.
`prevOn` and `nextOn` are the paging buttons as they are enabled. No handler looks at
`state.loading` before it moves the offset; the buttons are off during a load until
`SetLanguage` (376-383) draws the list again, by the offset and the total of the moment.
Each further press of next then adds a page while `loadBindings` returns at once, so the
offset may run past the list; `MaxOffset` bounds how far the model follows it.

### PublicProofs

The proofs about the four public modules, in this order: `UpstreamRequest`,
`PublicQuery`, `EmailHistory`, `PublicPage`.

### Backup, BackupProofs

`snapshot` and `checksum` are the files of `weekly/` by run, `temporary` the
checksum's temporary file; each action is one command of `backup-bindings.sh`, and
`Fail` (`set -e` and the trap) or `Kill` may come at any of them. `Move` makes the
target of `mv` visible and `Moved` completes it. `Drill...` are the steps of
`restore-drill.sh`, which runs beside the backups without their lock.

## What the runs show

| Run | Bounds | Shows |
|---|---|---|
| `queue` | 4 calls, 1 slot, line of 2, wait 1, total 1 | `SlotsConserved`, `LineMatchesWaiters`, `NoAnswerAfterAbort`, `NoOvertaking`, `ImplementsAdmission`; `LineMoves`, `EveryCallAnswered` |
| `pool` | 4 jobs, 2 slots, limit 3, 3 threads | `JobInOnePlace`, `NoStrandedJob`, `ThreadWorksOnSlotsJob`, `ImplementsParsing`; `EveryJobAnswered` |
| `bindings` | 4 requests, 2 external ids, 2 mailboxes, 3 JWTs | `BindingsUnique`, `SealedForItsAddress`, `VerdictFitsStoredJwt`, `NoLostUpdate` |
| `bindings_reuse` | the same | finding 1 |
| `login` | 4 logins from 2 addresses, 2 requests, limit 2, window 1, clock to 2 | `FailuresBounded`, `SessionsOfAnsweredLogins`, `EndedSessionsStayEnded` |
| `upstream` | timeout 2, deadlines 0, 1, 2, 4 or none, body limit 2 chunks, clock to 5 | `TimeDecides`, `GivingUpIsNoUpstreamError`; `RequestEnds` |
| `query` | 3 queries of 2 mails, 2 slots, line of 1, pool of 4 | `UpstreamLanes`, `AnswersAccountForJobs`, `RefusedOnlyBehindOrphans`; `EveryQueryAnswered` |
| `page` | 4 addresses (two spellings of a mailbox, another one, one that is refused), history of 2, 2 queries between reloads | types (with `WellFormed`), `ButtonsFollowTheQuery`, `ShownBelongsToTheQuery`, `ReloadKeepsHistory`; `ButtonsComeBack` |
| `page_cut_off` | 1 address, 1 query | finding 2 |
| `admin` | 2 rows on pages of 1, a call beside the load, 2 writes, 2 texts, offset to 2 | types, `DialogNeverAhead`, `BusyOnlyWhileLoading`, `ActsOnWhatWasShown`, `ListNeverGoesBack` |
| `backup` | 4 runs, 2 kept | `NeverWithoutChecksum`, `DrillPassesOnlyWhole`, `NewestSurvives` |
| `backup_copy` | 1 run | finding 3 |

Types are checked by the runs `upstream` (`RequestTypeOK`, which also bounds what is
buffered), `page` and `admin` (`TypeOK`). Of the queue, the pool, the bindings, the login and the backup
it is proved instead (the theorems `TypeCorrect`). `PublicQuery` has no formula of its
own for them; they are part of its inductive invariant (`QueryInv`).

Why these bounds are enough to be interesting. `queue`: four calls fill one slot and
two places in line and have one refused; two in line can be served in the wrong
order, and a total time that ends in line lets `BeginLate` follow a hand-over. More
slots are covered by the proofs. `pool`: four jobs against a limit of three reach the refusal; three thread
identities allow two live threads beside one that is ending, and a step that would
start a fourth waits for that end (`MCWorkers`, the one place where a bound holds
the code back). `bindings`: four requests allow two that await while a third
deletes or edits and a fourth creates. `login`: three attempts from one address
meet a limit of two, the clock passes the whole window, and the fourth attempt is
from elsewhere. `upstream`: deadlines before, at and after the timer, and a clock
that passes them all. `query`: the pool just holds the mails of two queries, as 64
places hold four queries of ten; the third arrives when the first has failed and
left a job behind. `page`: a query while the mails of another address are on
screen; a reload gives two queries more; a mailbox that comes back in its other
spelling, and a history that is full with one entry more to remember. `admin`: pages
of one make every insert and delete move rows between pages; one write by others and
one by this page meet under a dialog, or a delete empties a page; an answer to a load
comes after a logout or after the offset went back; the offset runs a whole page past the
list. The clearing of the search is in the run, a search for a text is not (`Sought` is
empty): it leaves rows out of an answer as a deletion does, and multiplies the states
beyond the time there is; the proofs hold for any `Sought`. With two slots a save, a test and
a delete do not overlap each other; that they may is covered by the proofs. `backup`: with two kept, one run may fail
or be killed after each that succeeds, and pruning has something to prune.

`MaxTime` (login, upstream) bounds the clock, `Horizon` (queue) the ages,
`MaxQueries` and `MaxRuns` the calls and runs, `MaxStored` the list found in the
storage, `MaxRows`, `MaxOffset`, `MaxWrites` and `Room` (admin) the ids, the offset, the
writes and the calls under way; past `Horizon` no comparison of the
code changes. Every other variable is bounded by the finite sets of one-shot calls.
Runs set `CHECK_DEADLOCK FALSE` because calls, jobs, requests and runs are used
once: a behaviour ends when all of them have been answered; `page` and `admin` never
end and are checked for deadlock. Symmetry is used in `bindings`, `login` and
`admin`, for requests, logins and slots that are interchangeable, and in no
run that checks liveness.

Fairness. `FairSpec` of the queue: time passes, due timers fire and continuations
run, which is the event loop's job; nothing is assumed of the work or of clients,
and `LineMoves` holds under this alone. `EveryCallAnswered` is an implication: if
(`Cooperative`) work ends once its signal is aborted, every call is answered. The
upstream request joins the signal (`upstream.js` 4-22) and the pool takes the job
back (`mail.js` 110-124); the password hash ends by itself. Pool: a thread answers
the job it was given (`mail-worker.js` has no path without a reply), messages
arrive, a terminated or crashed thread exits. Upstream: time passes, the due timer
fires, `fetch` obeys an abort and a cancelled stream is done with; the service need
not answer. Query: the queue runs what it admits, fetches end (`RequestEnds`) and
the pool answers (`EveryJobAnswered`). Page: the 30 s timer fires and the browser
rejects what is aborted. No fairness is assumed of callers, aborts, crashes, the
mail service, visitors or administrators.

## What is proved

Every theorem below holds for every value of the constants that the named
assumption of the module allows; TLC evaluates the assumption for each instance.

| Module | Assumption | Theorems, besides type correctness | State a property of the run |
|---|---|---|---|
| `WorkQueueProofs` | `QueueAssumption` | `SlotsAreConserved`, `LineIsExact`, `NoSlotIdlesWhileACallWaits`, `AnswersAreFinal`, `LineIsFair`, `QueueImplementsAdmission` | `queue` |
| `MailPoolProofs` | `PoolAssumption` | `JobsHaveOnePlace`, `ThreadsWorkOnTheirJobs`, `NoJobIsStranded`, `PoolImplementsParsing` | `pool` |
| `BindingsProofs` | `BindingsAssumption` | `AlwaysUnique`, `AlwaysSealedForItsAddress`, `VerdictsFit`, `UpdatesAreNotLost` | `bindings` |
| `BindingsProofs` | `BindingsAssumption` | `OnlyReusedIdsCross`, `RowsOfNewIdsAreSound` | checked by no run |
| `AdminLoginProofs` | `LoginAssumption` | `FailuresAreBounded`, `SessionsAreAnswered`, `EndedSessionsAreOver` | `login` |
| `PublicProofs` | `RequestAssumption` | `TimeAlwaysDecides`, `GivingUpIsAlwaysCancelled` | `upstream` |
| `PublicProofs` | `QueryAssumption` | `FetchesInLanes`, `AnswersAlwaysAccountForJobs`, `AlwaysRefusedBehindOrphans` | `query` |
| `PublicProofs` | `QueryAssumption` | `QueriesAreAnsweredForGood` | checked by no run |
| `PublicProofs` | `QueryAssumption` | `PoolUsedAsPromised` | of `PublicQuery` and `ParsingService` |
| `PublicProofs` | `HistoryAssumption` | `SanitizedWellFormed`, `SanitizedAgain`, `WithoutWellFormed`, `RememberedWellFormed` | of operators |
| `PublicProofs` | `PageAssumption`, `HistoryAssumption` | `ButtonsAlwaysFollow`, `ShownAlwaysBelongs`, `ReloadAlwaysKeeps` | `page` |
| `BackupProofs` | `BackupAssumption` | `AlwaysWithChecksum`, `DrillsAreSound`, `NewestAlwaysSurvives` | `backup` |
| `AdminPageProofs` | `AdminPageAssumption` | `AlwaysActsOnWhatWasShown`, `DialogIsNeverAhead`, `ListNeverTurnsBack`, `AlwaysBusyOnlyWhileLoading` | `admin` |

Every invariant and every action property of the passing runs is stated by one of these
theorems; TLC and the proofs use the same formulas.

`SeqLemmas` holds lemmas on sequences: `splice(indexOf(entry), 1)` on a line without
duplicates (`RemoveFirstSplices`).

The arguments. None of the properties is inductive as it stands; each module joins
it with what the code relies on.

*Work queue.* Whether `#release` decrements or hands over depends on the line, and a
hand-over to an entry that has been rejected would leak the slot. `IInv` therefore
joins `SlotsConserved` with `LineMatchesWaiters` (no rejected entry is in line, so
the skip of expired entries in `#release` never happens) and `WorkConserving` (a line
implies full slots, so a newcomer cannot slip in). `AnsweredWhenSettled` and
`AbortHeard` are added for the action properties: an abort that came while nobody
listened is looked for in line 32. `ReleaseHandsOver` describes `#release` under this
invariant in two cases, `LeavingKeepsCounts` the removal of an entry from the middle
of the line. The refinement maps the holders of slots to `inside`, `#waiting` to the
line and settled promises to answers. `WorkConserving` and `AnsweredOnce` are proved
and checked by no run of their own.

*Pool.* `IInv` is `Places` (a job's place), `Runs` (what slots, threads and messages
know of each other, threads on their way out included) and `NoStrandedJob`, with the
number of pending jobs bounded by `MaxQueue`. `Dispatch` is a relation over the whole
books, so `DispatchDoes` says once what it does and `DispatchKeeps` what it keeps,
and every handler is then a few changes followed by it. `Runs` is stronger than
`ThreadWorksOnSlotsJob`: without it a late answer of a stopping thread could meet a
job. For the refinement `PendingAreCounted` shows that the limit the code checks
(queue plus busy slots) is the limit on pending jobs of `ParsingService`.

*Bindings.* `CallsFit`: what a request remembers across its await is true of the row
as long as the row has the version that was read and was not deleted. With it, a
write that hits the version keeps `RowsGood`: envelope, JWT and verdict of a row
belong together. All of this leaves out the rows in `crossed`, which took a write that
was meant for an earlier row with their id (finding 1); so do
`AlwaysSealedForItsAddress` and `VerdictsFit`. How far that exception reaches is proved
too: `ReuseInv` (every row in the table, or remembered by a request, was inserted, and
crossed rows are not the first under their ids) gives `OnlyReusedIdsCross`, and with it
`RowsOfNewIdsAreSound` needs no exception: a row whose id is given out for the first
time is sound, whatever requests awaited.

*Login.* `FailuresBounded` follows from the one slot of the queue: `QueueInv` (at
most one attempt is inside), and `HashingInv` (while an attempt's hash is computed,
its address has fewer failures than the limit in the window that began when it was
checked; nobody else can add one). `LoginAssumption` names the one slot, which
`session.js` passes to the queue.

*Upstream.* `AbortIsHeard`: while a request is under way, whoever gave up has aborted
the joined controller, and the timer did not fire before it was due.

*Public query.* `QueryInv` joins what the two parts promise (`SlotsInv`: who is inside
and who is in line; `PoolInv`: the unanswered jobs fit the room) with what a query's own
stage says of them (`WorkOf`, `JobsOf`: while it has not parsed, its mails are new; when
it was cut, none of its jobs is in the pool). For `RefusedOnlyBehindOrphans` the mails
must be counted: each query inside has `MaxMails` of them, the one that submits has not
submitted all, so without orphans fewer than `Slots * MaxMails` are in the pool
(`RoomForOwnMails`), and `QueryAssumption` says that this many fit, as `config.js` does
with 4 lanes of 10 mails and 64 places.

`QueriesAreAnsweredForGood` rests on the same invariant: the queue answers whom it has
in a slot or in line, or a newcomer, and `SlotsInv` says that none of them was answered;
a query that fetches or waits for jobs is in its slot (`WorkOf`), so it is not answered
yet; and only a query that has its mails hands jobs to the pool (`NewJobsAreOfFetches`).
Work may go on behind an answer in one case, and the theorem says which: jobs that are
in the pool already when another job of their query fails (`Promise.all`) are parsed
behind its answer `error`, and by `JobsOf` behind no other answer.

*Queries on the pool.* `PublicQuery` submits or gives up all jobs of a query in one
step, as `parseMany` and the abort listeners do in one turn of the event loop, while
`ParsingService`, which `MailPool` implements, moves one job at a time.
`PoolUsedAsPromised` closes that gap: whatever a query does to the pool is a finite run
of steps of the abstract pool (`PoolStepIsNext`: a step of such a run is its `Next`).
The runs are given by what is `Midway` when the first k jobs of a list have moved; for a
submission the jobs that find room come first, because a job is refused only when the
room is used up (`RefusedWhenFull`).

*Email history.* Induction over the turns of the loop. The induction theorems of the
library take an operator as a parameter, which the installed provers cannot instantiate;
`TurnByTurn` states it for a set of turns instead, and rests on the least element of a
set of naturals (`LeastNatural`, from the well-foundedness of `<`). `SanitizedAgain` is
what makes `ReloadKeepsHistory` true: what the page has stored is what it will load.

*Public page.* `PageInv` is `HistoryInv` and `ScreenInv`. `HistoryInv` says nothing of
the storage but that it holds some list, since anybody may write it. `ScreenInv` adds to
the two properties that the query which holds the controller is under way, that every
query asks for an address, and that what is shown is of the query that last succeeded.

*Backup.* `RunsInTurn` is the lock, `FilesFollowTheRun` how far the files of a run
are, `DrillKnows` that what a drill has learnt of its file stays true while runs go
on. `NewestIsKept` shows that pruning by count never takes the file of the run that
prunes.

*Admin page.* Three invariants: `CallsInv` (one load at a time, busy exactly while there
is one), `KnowledgeInv`: whatever row the page holds, in the list, in the dialog, in a
call or in an answer on its way, was in the table once, and what is to be listed is never
behind what is shown; and `PagingInv` for the types of the offset and the total, since
the offset may go back for two reasons at any time. From `KnowledgeInv`, a save whose
version matches was typed over the row as it is, and its difference to the listed row
names every field that the form changed; and the list is never replaced by an older one,
because the load was sent when that list was on screen, or later (`ListStep`).
`ActsOnWhatWasShown` speaks of calls whose row is still the one that was shown (`born`):
a row that was deleted and had its id given to another one may well be hit by a call
that was meant for it, which is finding 1 seen from the page.

Model-checked only: liveness (`EveryCallAnswered`, `LineMoves`, `EveryJobAnswered`,
`RequestEnds`, `EveryQueryAnswered`, `ButtonsComeBack`). It needs ENABLED and reasoning
about fairness, which are out of the prover's reach. The three properties that the code
does not have (findings) are refuted by TLC.

## Findings

1. `bindings_reuse` (`StoredJwtIsForItsAddress`): a row's id and version do not
   identify it over time. `replaceCredential` reads row 1 (version 1), checks the
   new JWT against the row's mailbox after the await, and writes `WHERE id = 1 AND
   version = 1`. If the row was deleted meanwhile and another mailbox bound, SQLite
   gives the new row id 1 again and the insert gives it version 1, so the write
   goes through: the JWT of the old mailbox is stored in the new row, sealed for
   the old address, with status `valid`. Public queries for the new row then fail
   to decrypt it. `testCredential` can write its verdict to the wrong row in the
   same way. The run `bindings` shows that the versions are sound as long as the
   row itself lives (`crossed` marks the rows this happened to).
2. `page_cut_off` (`HistoryHoldsAnsweredOnly`): `readResponse` (`public/app.js` 863)
   makes `null` of a body that breaks off or is cut by the page's own timer. With
   status 200 that counts as an answer without mails: an empty inbox is shown, no
   error, and the address is remembered as successfully queried.
3. `backup_copy` (`PlacedAtomically`): `docs/operations.md` says the snapshot is
   placed atomically; the service's work directory is in `/run`, so the `mv` in line
   79 is a copy under the final name. The checksum, in place before, keeps the drill
   from passing on the partial file (`DrillPassesOnlyWhole`).

## What is not covered

- Which thread identity a pool would use beyond the third (`MCWorkers`), see the bounds.
- The wall clock going back (`queueMs`, `queue.js` 26): model time only grows.
- More threads than `size` for a moment after an abort: the code does not bound
  the dying ones, so no property speaks of them.
- The comparison of CSRF tokens, cookies, origins and proxy secrets. On the admin
  page a call that is refused for one of them is an error like others.
- The list on screen may be the answer to an earlier search or offset: a reload that
  is wanted while one is in flight is dropped, which is how `loadBindings` is written.
  And the next button may lead past the list: a change of the language during a load
  enables the paging buttons by the old total, and each press adds a page although
  nothing is loaded. `Search`, `NextPage` and `SetLanguage` do all of this; no property
  speaks against it. `ListNeverGoesBack` says what still holds of the list.
- On the admin page the answer to a save closes whichever dialog is open by then, and
  a late 401 closes a view that was signed in again meanwhile. The actions `Saved` and
  `LoggedOut` do both; no property speaks against them.
- Two tabs write one history, each from its own copy: an entry of the other tab is
  lost. That is what the code does; `ReloadKeepsHistory` holds until another tab writes.
- Lost power during a backup: the script leaves to the file system what is written;
  and leftovers of killed runs that no reader lists.
- The edit of a binding while a query waits: the other process shares nothing with
  the query but the row, and the mails shown are still those of the mailbox that was
  bound when the query was made.
- Contents: mail parsing, matching, normalization, cryptography, formatting, logs,
  metrics, styling; configuration of nginx and systemd.

Not modelled, and why:

- *Migrations and database openers*: `migrate()` runs each file in a transaction that
  also records it. Its two hazards are decided by SQLite: a second start waits for the
  write lock, then fails on the recorded version (a primary key) or on a table that
  exists, and its transaction rolls back. A model would restate SQLite's locking.
- *Release and installation*: linear lists of host commands (`systemctl`, `ln`,
  `curl`) whose effects are the host's; the one branch is the rollback.
- *HTML sanitizer*: a sequential pass over the events of a parser. Whether its output
  is sound depends on those events and on the spelling of tags and attributes, which a
  model would abstract away; the unit tests use concrete documents.

## Plan

Done, the parts whose failure would matter most first: `AdmissionControl` and
`WorkQueue`; `ParsingService` and `MailPool`; `Bindings`; `AdminLogin`;
`UpstreamRequest`; `PublicQuery`; `PublicPage` and `EmailHistory`; `Backup`;
`AdminPage`; and the proofs of their safety properties.

What is left, in this order: the abstract modules' own promises as theorems
(`AdmissionControl`: capacity and line; `ParsingService`: room), now parts of the proofs
of those who use them; the same step from the queries to `WorkQueue` as
`PoolUsedAsPromised` is to `MailPool`; a larger `admin` instance with three slots. The components listed above as not modelled are not planned.
