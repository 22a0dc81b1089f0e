# Gauntletarr: verification project

Gauntletarr finds, for the films and series of a library, torrents that have
the same content and can be seeded again, and the torrents whose files are
still on disk but that no client seeds any more. It hardlinks, adds torrents to
a client and forces rechecks, always after a human decision unless the user has
turned the automatic execution on. It is one Python process (FastAPI, a
scheduler, background threads) over SQLite, the disks and qBittorrent.

These modules model the parts of it where the order of things matters. They are
checked with TLC on small instances, and their safety is proved with TLAPS for
every instance.

## 1. The system

| Part | State it keeps | Operations | Talks to |
|---|---|---|---|
| `executor.py` | `seed_job`, hardlinks on the disk | execute (four variants), reconcile, retry | the client, the disk, called by the review queue |
| `adapters/torrent_client` | none (the client's torrents) | add, wait for the hash, recheck, status | qBittorrent over HTTP |
| `review.py` | `match_review` | create, supersede, approve, verify, reject, close, automatic execution, retry, reconcile | matching, executor, full check, pipeline, API |
| `full_check.py` | checks in memory, one worker thread | start, run, cancel; verification of all pieces | the disk; calls the review queue back |
| `pipeline.py`, `run_progress.py`, `scheduler.py`, `api/runs.py` | `run_log` | start a run, its phases, stop it, close interrupted runs, reconcile between runs | everything |
| `matching.py`, `torrent_layout.py`, `torrent_pieces.py` | `candidate`, `candidate_file`, `match_attempt` | search, lay out, verify a sample, score | trackers, review queue |
| `scanner.py`, `torrent_indexer.py`, `seed_refresh.py`, `scan_state.py`, `hardlinks.py`, `library.py`, `file_changes.py` | `media_file`, `seed_file`, `client_torrent(_file)`, snapshots | scan, index, prune, refresh, compare | disks, client |
| `upload.py` | `upload_job` | draft, prepare, confirm and submit | tracker, image hosts, client |
| `adapters/tracker` | rate limiter window, search cache | search, download, upload, retry after 429 | tracker over HTTP |
| `main.py` | none | start-up repairs | database |
| `auth.py`, `api/auth.py` | the account, signed tokens | setup, login, password, gate | the browser |
| settings, health, caches, migrations | single rows, files | read and write | database |
| web interface (`src/frontend`) | one tab's query cache, forms, notifications, token; a copy of the library in IndexedDB | poll, invalidate, mutate, follow checks and runs, sign in and out | the API, by polling only |

What is hard about it:

- *Interleaving.* Request threads, the check worker, a run and the scheduler
  work on the same rows, each with its own database session; there are no
  locks and no version columns, and most decisions are read, wait, write.
- *Failure.* An execution touches the database, the disk and the client, one
  after the other; any of them may fail, the commits of the error handlers too,
  and the process may be killed between any two.
- *Ordering.* The client works asynchronously: a torrent is accepted before it
  is listed, and its state before the forced recheck says nothing.
- *Waiting.* One worker makes all checks; a job in progress settles only if
  somebody keeps asking.
- *Stale copies.* The web interface knows the server by polling. Each page has
  its own copies, refreshed one query at a time, while requests are in flight,
  dialogs hold older values, and the server may restart or forget a check.
- *Numbers.* Pieces across file borders, sliding windows, scan ids.

What makes each part correct: an execution leaves no half-made torrent and
never touches another's links; a job is `seeding` only on the client's word
after its own recheck; the queue holds one evaluation per file and one file per
torrent; nothing is executed that the user did not ask for, or that did not pass
its check when checks are on; a rejection is not undone by work that was under way;
jobs and runs come to an end; what a restart interrupts is repaired. For the interface: what the user started is
followed to its end and told with its own outcome; a write of the tab is shown by
the tab once it is read again, and none is lost to another click; nothing of one
execution, session or secret shows up in another; the views that count the same
files agree. Where the code keeps such a promise only under a condition, the
condition is part of the property and is listed in section 3.

## 2. The modules

    JobLedger              contract: the life of a seed_job row
      ^ implemented by       ^ extended by
    Executor               ReviewQueue            Runs
      ^ proofs               ^ proofs               ^ proofs
    ExecutorProofs         ReviewQueueProofs      RunsProofs
    (safety, refinement      (types, verification)
     of JobLedger)           ^
                           ReviewDecisionProofs   (one evaluation, finality,
                                                   nothing unasked)

MCExecutor, MCReviewQueue and MCRuns are the small instances of the three.

    Web  = the parts of the interface side by side
      Session  CheckDialog  RunView            proofs: TabProofs
      ConfigForms  SettingFields  Uploads      proofs: ConfigProofs
      RunSteps  ScanChanges  LibraryView       proofs: ViewProofs
      QueryCache  ReviewPage                   proofs: WebProofs
                                               (extends ConfigProofs, ViewProofs,
                                                and these TabProofs)

Eleven modules model the web interface, each with as much of the server as it
talks to. Web puts them side by side and states what is proved of them; MCWeb is
its small instance and adds fairness, MCReviewPage is that of one violated run.

**JobLedger** is the abstract specification. A row is `none`, `running`,
`added`, `seeding`, `failed` or `broken`: the pairs of `final_status` and
`info_hash` the code tells apart. The executor implements it; the review queue
uses its actions and knows nothing else of an execution. This is how the two big
modules compose without multiplying their states.

**Executor** models `executor.py` and the adapter. `jobs` is the `seed_job` table;
`owner` says who made the file at each destination path; `client` and
`accepted` are qBittorrent; `thread` holds the local variables of each thread
inside `execute_*` or `reconcile_seed_job`. The four `execute_*` functions are
one set of actions: a candidate is described by its torrent (`Hash`), whether
the hash is known beforehand (`Known`), its destinations (`Targets`, empty for
torrent_to_client), whether it has `candidate_file` rows (`Layout`, which
decides on the rollback), a download link (`Linkless`), extras (`Extras`).
`stuck`, `rechecked` and `dropped` are history variables: links the disk refused
to remove, jobs whose torrent was checked after they got it, jobs that were hit
by a restart or a failed commit while they were worked on.

| Action | Code |
|---|---|
| `Begin` | the checks, then the commit of the row (`_create_hardlink_then_seed` without a link gets as far as the row, and refuses after it) |
| `Link` | one `os.link`; after the last, the commit of `hardlink_created_at` |
| `Add` | `add_torrent` up to `torrents_add`: the torrents listed before, the duplicate test |
| `Found`, `Record` | `_wait_for_new_hash` returns and the recheck is forced; the hash is committed |
| `Abort` | any exception on the way: the handler removes the links (layout only) and commits the row as `failed` |
| `Lose` | a commit fails, in the `try` or in the handler, which does not roll the session back: the error escapes, the row stays in progress |
| `Poll`, `Report`, `LoseAnswer` | `reconcile_seed_job`: the question, the commit of the answer, or its failure |
| `Retry` | `retry_seed_job` with a hash (without one it is `Begin` again) |
| `Crash` | a restart: threads are gone, everything stored stays |
| `Appear`, `RecheckEnds`, `Download`, `UserRemoves`, `UserPutsFile` | the client and the user |

**ReviewQueue** models `review.py` and the worker of `full_check.py`. `rv` is
`match_review`; `actor` holds what each thread that executes reviews is doing
(request threads, the worker, the run); `queue` is the pool's queue; `picked`
is what each matcher (a run, a "Search now" request) has read and not committed
yet; `todo` is the list a run has read. What a thread reads and what it commits
later are different actions: SQLite begins a transaction with the first write, so
others may decide in between. Reads that follow each other are one action.
Requests come from any page, however old: the API asks only that the review exists.

What the code leaves open is recorded in history variables, so that the properties
can name it instead of assuming it away: `crossed` (inserted while another search
had already read the queue), `revived` (approved after it had left the queue),
`overtaken` (rejected when a thread was about to approve it), `refused` (rejected
by the user when no search was at work on it) and `consent`.

| Action | Code |
|---|---|
| `Filter`, `Look`, `Supersede`, `NoMatch`, `Insert` | `_create_review`: the filters on the candidates, the read of the file's active reviews, the commit that rejects them, and the end without a review or with the insert |
| `LookResolved`, `CloseResolved` | `close_resolved_reviews`: its read, and its commit |
| `ApproveNow`, `StartCheck`, `Mark` | `request_approval`: without verification, with it up to `start_check`, and the commit of `verifying` |
| `Reject` | `reject` |
| `Take`, `CheckEnds`, `CheckPasses`, `ApproveChecked` | the worker: `_run`; `_after_verification` with its read of the status, and the commit of the approval |
| `StartAuto`, `AutoNext`, `AutoPasses`, `AutoFails`, `ApproveChecked`, `EndAuto` | `execute_auto_approved` in a run |
| `Execute`, `Executed`, `NotExecuted` | `_try_execute`, with the steps of the row from JobLedger |
| `RetryFresh`, `Reconcile` | `retry_failed`, `reconcile_pending_seed_jobs` |
| `LeaveClient`, `Restart` | the user, and a restart with `reset_interrupted_verifications` |

**Runs** models the life of a run. `log` is `run_log`; `thread` is where the
thread of each run is and how its work has ended (`last_error`); `asking` are the
requests of `cancel_run` between their read and their write; `unasked` are the
jobs in progress nobody has asked the client about since they were made. What a
phase does is reduced to its effect on those jobs: any may be left by
executions, and the last phase asks about any of them, since it may fail half
way. `lost` and `undone` are history variables: runs whose thread died of an error
outside the `try` of `run_bulk_import`, and runs whose end was rolled back.

| Action | Code |
|---|---|
| `Start` | `start_run`, from the interface or the schedule |
| `Advance` | the work of a phase, then `start_phase` of the next: commit, then the stop request is read |
| `Break` | `RunCancelled` from `_flush` within a phase, or an exception no phase catches |
| `Finish`, `Close` | `RunProgress.finish`, and the last commit with `finished_at` |
| `Undo` | the figures of the library raise: `_record_failure` rolls the session back, and `finished_at` with it |
| `Die` | reading the row, or one of these two commits, fails |
| `AskStop`, `WriteStop` | the two halves of `cancel_run` |
| `AskBetweenRuns` | `_reconcile_between_runs`, `reconcile_now` |
| `Approve` | an execution asked for in the interface |
| `Restart` | a restart, with `close_interrupted_runs` |

### The web interface

The parts of the interface share nothing but the server: React components keep
their own state, and the query cache is the only thing between them. So each
part is a module, and the server's side of it is as small as the part can
observe (a check is active or has an outcome; a setting is a value). Every write is
several steps: it is sent, carried out or not, and its answer arrives or is lost. A
read is sent, answered and delivered in the parts whose properties depend on what
was written in between (SettingFields, QueryCache, Session, RunView), and may fail in
the first three. In the others
(the polls of ReviewPage and CheckDialog, the lists of ConfigForms and LibraryView,
the steps of RunSteps, the card of ScanChanges) a read is one step. These read again on
an interval or after an invalidation, one fetch at a time, so that a late answer is
that of an earlier read and a failed one that of a read not made; what is lost is a
write between the answer and its delivery, which the next read repairs.

| Module | Code | State and actions |
|---|---|---|
| ReviewPage | `ReseedingPage.tsx`, `ActivityStack.tsx`, `lib/activity.ts`, `lib/verification.ts`, `hooks/reviews.ts` | the server's reviews, checks and executions; the list, the two polled copies, the notifications (`acts`), who follows which check (`tracked`), requests in flight. `ClickApprove`/`ApproveInSheet`, `ServeApprove`, `Reply` are one approval; `PollChecks` and `PollJobs` are the two watchers; their loops over the answer are `WatchedInTurn` (newest check first, as `list_checks` answers) and `AnnouncedInTurn` |
| CheckDialog | `FullCheckButton.tsx`, `hooks/fullChecks.ts`, the queue of `full_check.py` | `lastCheck`, the state of the component, the cached answers; start, poll, cancel, leave and come back, reload, eviction |
| ConfigForms | the sections of the configuration page | what each dialog starts from, sends and empties is a record per form (`AddDiskDialog`, `EditTrackerDialog`, ...); a behaviour follows one field of one form, with the inline control that writes the same row |
| SettingFields | `SettingField.tsx`, presets, patterns, selects, image hosts | one control: draft, writes in flight, reads they cause. A write stays pending until its invalidation has been read again, or that read has failed or is paused; only the latest write's callbacks run. `blind` and `missed` are histories of what was written without having read, and of a write that was stored and not read since |
| Session | `AuthGate.tsx`, `hooks/auth.ts`, `client.ts`, `queryPersistence.ts`, `auth.py` | token, answers to status and me, the cached and the stored library; a request carries the token it was sent with |
| RunView | `RunStatusIndicator.tsx`, `RunNowButton.tsx`, `hooks/runs.ts` | the polled list, start, stop, the effect that sums up a run when it ends |
| RunSteps | `RunProgress` with the commits of its session, `lib/run-progress.ts` | memory, uncommitted row, row, the row as read |
| QueryCache | the hooks and the pages that mount them | tables of queries (key, tables read) and mutations (tables written, keys invalidated in the hook, and `local` those that a component invalidates in a callback of `mutate`); one query and one mutation per behaviour, with TanStack Query's rules. `missed`: a read failed, the answer of the write was lost, or the page that was to invalidate was left |
| Uploads | `NewUploadPage.tsx`, `UploadQueuePage.tsx`, `upload.py`, `api/uploads.py` | one job, its requests on server threads (each from its read of the row to its commit), those of another tab, the tracker and the client |
| LibraryView | `library-filters.ts`, `FileTree.tsx`, `PosterView.tsx`, `ItemDetailSheet.tsx`, `library.py`, `library_detail.py` | the files and what each view derives from them; filters, tree, wall and its observer. The sheet has a state of its own (`SheetStateOf`): it asks whether the torrent file is still on the disk, the wall and the trees do not (`gone`) |
| ScanChanges | `file_changes.py`, `api/dashboard.py`, `ChangesCard.tsx` | index, picture, kept changes, what the card shows; two runs may do it at once. Of the kinds, `state_changed` is left out: the conditions before it cover every pair of states |

TanStack Query is external and modelled from its use: one fetch of a query at a
time; an invalidation drops the answer in flight and asks again, except for the
very first read; an answer equal to the last does not run effects again;
callbacks given to `mutate` do not run in a component that is gone.

## 3. Runs

| Run | What it asks | Bounds, and why they are enough | Result |
|---|---|---|---|
| `exec` | safety of the executor, refinement of JobLedger | 2 threads, 2 jobs, 3 candidates (a two-link film, a one-link candidate without a known hash that wants the same destination, a torrent_to_client candidate of the film's torrent), 2 faults (restarts or failed commits): every pair of candidates competes for a path or a torrent, and each of two jobs may be hit | holds, @exec@ |
| `exec_live` | every job settles | 2 threads, 2 candidates, 2 jobs, one without a download link, 1 fault | holds, @exec_live@ |
| `exec_lost` | no job is lost | 1 candidate, 1 job, 1 fault | violated: begin, and a restart or a failed commit |
| `review` | the rules of the queue, under all four settings | 2 reviews, 2 files that compete for 1 torrent, 2 matchers, 2 request threads, the worker, a run, 1 job, 2 checks waiting, 1 restart; see below | holds, @review@ |
| `verifying` | a review being verified has a live check | 1 review | violated: the worker ends before `verifying` is written |
| `override` | a run does not approve what the user has rejected | 1 review, automatic and verified | violated: reject during the run's check |
| `removed` | a removed torrent is free for other files | 2 files, 1 torrent | violated: the approved review still blocks it |
| `runs` | runs end, stay ended, obey a stop, and no job is forgotten | 2 runs at a time, 1 job, 1 restart: the second run is what keeps the scheduler from asking while the first is stopped or interrupted | holds, @runs@ |
| `left_open` | an error that is caught does not leave a run open | 1 run | violated: the figures fail after the work is done |
| `cancelled` | a run shown as cancelled was stopped by the user | 1 run | violated: the stop is written after the last phase has begun its end |
| `web` | the eleven parts of the interface | see below | holds, @web@ |
| `stuck` | a notification in progress ends | 1 review, 1 check, no restart | violated: the watcher reads the end before the answer to the approval hands it the check |

`review` is bounded once more by the constraint `Small`, because everybody may do
everything to every review at any time. Without verification two reviews
exist and at most two threads are at work at once: two searches that cross, a search
and a decision, a run and a request. With verification one review exists and
three threads may be at work: a request and the worker, or the run, while a search
closes the review or the user rejects it. The rules that
relate two reviews (`OneActivePerFile`, `TorrentQueuedOnce`, `RefusedStaysOut`) do not
look at checks, those about checks (`VerifiedBeforeExecuted`, `ApprovedOnce`) are about
one review; that no pair hides an exception is what the proofs add.

`web` is one run because the parts share no state: a behaviour of Web is one of
one part (`part` says which), so nothing is lost, and its fairness conditions
each name an action of several parts. Bounds, by part:

- *reviews*: 1 review, 1 check, no finished check kept, 2 notifications shown, 1
  click, 1 restart or reload. One check and two notifications are enough for the
  reply and the watcher to follow it both; more notifications push one out.
- *checks*: 2 executions of one candidate, 1 check, 1 restart or reload.
- *forms*: every form and field of the page, 3 values (blank and two).
- *settings*: every kind of control, values are sets of two keys, 2 writes or visits.
- *session*: 2 tokens, 2 requests at a time, 1 reload, expiry or lost answer.
- *run*: 2 runs, 1 read for another reason than the interval.
- *cache*: every pair of a query and a mutation, 2 writes, 1 change of page.
- *uploads*: 2 disks, 2 requests at once, 2 preparations that make the job ready, 1
  visit or restart: an upload that was published is prepared once more.
- *library*: a film twice under one path on two disks, a film, an episode, a
  torrent file without hardlink, 1 poster at a time, 3 actions.
- *steps*: 2 elements, 1 rollback, error or restart; all six phases.
- *changes*: 1 file, 3 runs, 1 kept, 2 changes of the index or of the user.

| Property | Says |
|---|---|
| `EndIsTold` | a check that a notification or a dialog follows, and a run seen in progress, is told how it ended |
| `SettledIsTold`, `ListFollows` | a recheck seen going on is announced; a row listed as being verified does not stay so |
| `ShownIsMine` | a dialog shows a check of its own execution |
| `SecretSentOnce`, `OwnWriteShown` | a secret is not sent again once its dialog has heard that it was saved; after a write the page comes to show what the server has |
| `TogglesKept`, `NoFlicker` | quick clicks all count, and a saved draft gives way to the saved value, as long as the list is read again after each write |
| `LibraryForgotten` | nothing brings the library back after a logout |
| `OwnWritesShown` | each query shows the tab's own writes, but for the pairs `Forgotten` lists and what was `missed` |
| `PublishedOnce` | each time the tracker takes an upload, a preparation of its own has made it ready, unless two confirmations overlap (`raced`) |
| `ViewsAgree`, `ScrollShowsAll` | the views count the same files, but that a file whose torrent file is `gone` is orphaned to the sheet alone; scrolling reaches every title |
| `StepsTold`, `ChangesTell` | the steps and the changes shown are those of the worker and of the runs named |

Where the code does not keep a promise, and no document claims that it does, the
exception is written into the property, as narrow as it was found:

- `crossed`, `revived` (ReviewQueue): two searches at once, or an approval of a
  rejected review from an old page, give a torrent to two files, or (two searches)
  two reviews to one file. `overtaken`: a rejection that comes when a thread has read the
  status and is about to approve. `refused`: a rejection while a search is at
  work on the review may be overwritten as the system's.
- `lost`, `undone` (Runs): errors before the first phase, or in the last steps of a run.
- `blind`, `missed` (SettingFields): a switch used before the list was read, after
  another tab has written, or after a read that a write waited for did not come: the
  next choice is computed from the old list and undoes the one before.
- `missed` (QueryCache): until the next read, when one failed, when the answer of a
  write was lost, or when the page of the exclusions was left before the answer: the
  library is then not invalidated (ExclusionsSection.tsx:50-56, 107-112).
- `Forgotten` (QueryCache), the missing invalidations: deleting a disk and the torrent
  clients; a retry and the library; preparing or correcting an upload and the queue.
- `heard` (ConfigForms): the dialog of a Radarr or Sonarr instance shares its mutation
  with the switch of its row (IntegrationsSection.tsx:502). A switch used during
  the save drops the callback that empties the fields, and the secret is sent
  again with the next save.
- `raced` (Uploads): two confirmations that both read `ready` before either writes.
  That an upload already published is prepared and published once more, from a tab
  left open, is no exception: the code accepts it, and the property counts it.
- `gone` (LibraryView): the sheet and the wall disagree on such a file, in the code
  and in the model.

Every property of a passing run has a mutant: an operator beside the one it
replaces (comment "Mutant:"), as a plausible bug would have it, with which TLC
finds the property violated.

Symmetry: threads are interchangeable in `exec`; reviews, files, matchers and
request threads in `review`. The runs with temporal properties under fairness use
none. Deadlock is not checked: the system may rest, and the bounds on jobs and
restarts end every behaviour that would only make more of them.

`MaxJobs`, `MaxRuns`, `MaxFaults`, `MaxCrashes`, `MaxQueue` are the bounds of counters
the code does not bound.

## 4. What the violated runs show

- **exec_lost**: a restart between the commit of the row (executor.py:165) and
  the commit of the hash (executor.py:185), or a commit that fails in between,
  leaves a row in progress that nothing ever looks at again: the handlers
  (executor.py:187-199, 258-262, 356-360, 405-409) commit without a rollback and
  raise again. `OnlyFaultsLoseJobs` shows that nothing but these two does.
- **verifying**: `request_approval` starts the check and then writes `verifying`
  (review.py:274-279). A check that ends first is overwritten; the review stays
  `verifying`, approving it again answers 409, until a restart.
- **override**: `execute_auto_approved` does not read a review's status again
  after its check (review.py:439-443), as `_after_verification` does (review.py:305).
- **removed**: the comment at review.py:137 and the test that goes with it hold
  for the seed_job, but the review itself is still approved and is counted before.
- **left_open**: an error in the figures of the library is caught, and
  `_record_failure` rolls the session back (pipeline.py:110), which discards the
  `finished_at` of pipeline.py:427. The last commit leaves the run in progress without
  a thread, and with it the scheduler's reconciliation and "Search now" blocked, until a
  restart. `OnlyLastStepsHang` shows where else a run can be left open: an error when its
  row is read at the beginning, or in one of its two last commits.
- **cancelled**: a run is shown as cancelled when it was asked to stop and has
  ended (api/runs.py:80). The request is not read any more after the last
  progress commit, nor when the run breaks or is closed by a restart: such a run
  was not ended by the user, as the comment on the field says.
- **stuck**: `useApproveReview` hands the check to its notification when the
  answer arrives (hooks/reviews.ts:30-31). If the watcher has read by then that
  the check ended, its effect does not run again, since the list of checks stays
  equal: the notification stays in progress. `EndIsTold` shows that it is told
  whenever the watcher follows the check before it reads the end.

## 5. Fairness and environment

- A thread inside an execution goes on (`WF`): every wait of the code has a
  timeout, 30 s for the hash. The scheduler asks about each pending job every two
  minutes, and gives up on an absent torrent only until the next time: `SF` on
  `Poll`, which other jobs may disable by keeping the threads busy.
- The client ends its checks (`WF` on `RecheckEnds`).
- The thread of a run goes on (`WF` on its `Step`): every request a phase makes
  has a timeout. The scheduler's job runs every two minutes (`WF` on
  `AskBetweenRuns`); it need not find a gap between runs infinitely often, since
  the bound on runs ends them. A library whose runs followed each other without a
  gap, each of them stopped before its last phase, would not be covered.
- In the interface: an open tab polls and its requests are answered (`WF` on the
  polls, the answers and the effects that run on them), the worker ends its checks
  and a run ends. The observer of the wall fires for an element in view that it has
  been attached to (`ShowMore`): `ScrollShowsAll` is about a user who scrolls on.
- Nothing is assumed of the user, of restarts, of commits that fail, of reads that fail
  in SettingFields and QueryCache, of downloads, or of new runs. ReviewQueue states
  safety only, and has no fairness.

Assumed of the environment: nobody else removes or replaces the program's
hardlinks; the client is in a checking state from the moment a recheck is
forced; the settings of the review queue do not change within a behaviour (each value
is explored); checks asked for by hand only delay the worker. Commits fail in
Executor, in an execution seen from ReviewQueue, and at the beginning and the end of a
run; those of a decision in `review.py` are taken to succeed (a request whose commit
fails decides nothing).

## 6. Proofs

`ExecutorProofs` proves for any number of threads, reviews, paths, torrents, jobs
and faults, from `ExecutorAssumption` alone (the constants have their types):

- `Typed`: `Spec => []TypeOK`. `TypeOK` is not inductive by itself, since a
  thread's `job`, `review` and `found` may be "none": `Assigned` says they are not
  while they are used.
- `Invariance`: `Spec => []IInv`, the strengthening the rest follows from. A
  working thread's row is in progress without a hash, no two threads work on
  one row, and the links of a row are exactly those its thread has made
  (`WorkConsistent`); a row with a hash has all of its links, an unused row has
  none, a failed layout row only stuck ones (`RowConsistent`); a thread reports on
  rows with a hash only (`ThreadsConsistent`). `owner` being a function, two
  rows with all of their links cannot share a destination: that is `Disjoint`,
  and it needs the exact account of links, because `Abort` frees what its thread
  has made and nothing else would say that these are not another row's.
- `Disjoint`, `OwnHash`, `Rollback` follow from `IInv`.
- `Rechecked` adds `Answered`: a torrent with an answer has been rechecked for
  every job that holds it or is about to record it, and an answer on its way is no
  older than its job.
- `NoneLost` is `OnlyFaultsLoseJobs`, an invariant relative to `IInv`: whatever fails on
  the disk or in the client, only a restart or a failed commit leaves a job in progress
  with nobody at work on it and no hash.

- `Refinement` is `Spec => ImplementsLedger`: each step of the executor is a step
  of the ledger or leaves it alone.

Frame lemmas (`WorkKept`, `RowKept`, `AllKept`, `OthersKept`, `StatusChange`) say
what a step does not touch; each action has one lemma on top of them.

The review queue is proved for any number of reviews, files, torrents, matchers, request
threads, jobs, queued checks and restarts, for requests from any page and for all four
settings. Nothing is assumed of the environment: what the code does not prevent is in
the statement, by the history variables of the module.

| Theorem | Property | The invariant |
|---|---|---|
| `Typed` | `TypeOK` | `ActorType` and `RowType` add that a busy thread and an existing row have a review, and a matcher at work its file and torrent |
| `AlwaysVerified` | `VerifiedBeforeExecuted` | `Verified`: with verification on, whoever executes, and every row, has a review that passed; a retry inherits it from its row |
| `NoSecondApproval` | `ApprovedOnce` | what the worker is about to approve it has just read as undecided, and nobody else approves with verification on and the automatic execution off (`RunIdle`) |
| `OneEvaluation` | `OneActivePerFile` | `OneQueued`: once a matcher has read the file's reviews, each that is still queued is one it will close or has `crossed` it |
| `TorrentForOneFile` | `TorrentQueuedOnce` | `OneTorrent`, over all active reviews: what a matcher read of its torrent stays true until it inserts, but for reviews that `crossed` it or were `revived` |
| `RejectedStaysOut` | `RefusedStaysOut` | `RefusedHold`: a refused review stays the user's rejection, and no search is at work on it |
| `Finality` | `RejectionIsFinal` | `Overtakes`: a thread that is about to approve has read the status before the rejection |
| `NothingUnasked` | `OnlyWithConsent` | `Consenting`: consent is followed from the request through the queue and the check to the execution, and only a rejection in time takes it back |

Four lemmas on the steps carry them. `Kinds`: a step is one of a search, an insertion, a
rejection by the user, or `Quiet`, in which each review stays or is approved by whoever
may (`ApprovedBy`). `SearchChanges` and `SearchGoes`: a search closes what it has read and
nothing else, and goes on with what it has chosen. `Hands`: what the worker or the run
takes in hand it has just read as undecided.

`RunsProofs` proves, for any number of runs, jobs and restarts, that rows and
threads are well formed (`RunsTyped`), that no run is left open but by an error before
its first phase or in its last steps (`NoneHangs`), that a closed run stays so
(`NoneReopens`) and that a stop is heeded (`StopIsHeeded`). The inductive invariant `Inv` adds to the
types that only open runs have a thread, that the phase is removed before a run
is closed, and that a stop request is for a row that exists: without the first a
thread could advance a closed run, and without the last a new run could start
with a stop from before. `OneRun` is its frame lemma: what a step of one run must
show of its new row and place for the invariant to hold everywhere.

The interface is proved about through Web, whose behaviours are those of any one
part: a theorem `Spec => [](part = "forms" => FormInv)` needs only that a step of
another part leaves `part` alone (`OnePartBegins`, `OnePartSteps`, the two lemmas that
reduce each theorem to the part's own `Init` and `Next`). The parts are instances, so the
proofs name the variables of a part after its module. Assumed of the constants:

- `BoundsAssumption`: the bounds are numbers; there is at least one token and one
  value, and the changes of some run are kept.
- `TargetsAssumption`: an execution is a record of a candidate and a job.
- `KeysAssumption`: the markers of an unread value and of an untouched draft are no keys.
- `FilesAssumption`, `LibraryAssumption`: there are finitely many files, each with a disk
  and a path of its own and a size in Nat; copies are some of them.
- `ReviewsAssumption`: there are finitely many reviews; a check ends in an outcome that
  the notifications can tell (the cases of `finalPatch`).

| Theorems | Property | The inductive invariant, and why the property needs it |
|---|---|---|
| `SessionInvariance`, `SessionTyped`, `Forgets` | `LibraryForgotten` | `NothingLeft`: since the logout the tab has no token, so that the server refuses every request for the library, none sent before is awaited, and neither cache nor disk has a copy. The refusal needs an account to exist: `AccountExists` follows it from the server's answer through the gate to the logout button |
| `DialogInvariance`, `DialogTyped`, `DialogShowsItsOwn` | `ShownIsMine` | `Own`: what is remembered under a key, shown by a button or on its way for an execution is a check started for it. Two executions have two keys (`KeysDiffer`), so an answer's write leaves the others alone |
| `IndicatorTyped` | (types) | the types of `RunView` are inductive as they stand |
| `FormInvariance`, `SecretsSentOnce` | `SecretSentOnce` | `TypedSince`: a secret held by the dialog or sent was typed since the dialog last heard that its value was saved, because hearing it empties the field. It is proved for every form; the one that may not hear of a save (`heard`) keeps its secret as typed. `RowThere` says that an open dialog is one of a listed row: without it a deleted row would give an untyped value to a dialog |
| `SettingInvariance`, `TogglesTakeEffect`, `DraftsGiveWay` | `TogglesKept`, `NoFlicker` | `OneSave`: a control that is off while its write is pending has one write at a time, and once the read it causes is over, unless that read was `missed`, the cache has what was sent. `ListFollowed`: the list sent is the one wanted, since it was computed from a cache equal to the server's |
| `UploadInvariance`, `UploadedOnce` | `PublishedOnce` | `EachPrepared`: what was taken, what is at the tracker and what may go there next are together no more than the preparations that made the job ready; only two confirmations that read the same `ready` break the count |
| `StepsInvariance`, `StepsAreTold` | `StepsTold` | `InOrder`, `RowFollows`, `LineFollows`: the phases are closed in order, and every beginning and end of a phase reaches the row, so that a rollback takes away only a count of the phase that runs. `Follows`: a later row of a run has the steps of an earlier one or later ones, which is why the copy of the interface never goes back |
| `ChangesInvariance`, `ChangesAreTold` | `ChangesTell` | `PicturesFollow`: unless two runs compared at once, the picture is that of the latest run, which compared it with the one before, and all it recorded is kept. `AnswerTells` keeps an older answer true while new runs replace the picture and old changes are dropped |
| `LibraryIsTyped`, `ViewsShowOneLibrary` | `ViewsAgree` | no invariant of states: lemmas on the operators. The cards, the tree and the tabs count the same files, and the sheet's counts differ from the tree's by the seeding files that are `gone` and by no other, for any library and any state of it |
| `CacheInvariance`, `WritesAreShown` | `OwnWritesShown` | `BeforeIsReadAgain`: when a write is over, whatever the cache has from before it is being read again, and nothing from before is on its way, unless something was `missed` since the last read began. It rests on two facts about the tables, proved hook by hook: `Placed` (under which key the queries are that read each kind of data) and `ReadAgain` (each mutation invalidates each query it changes, but for the pairs of `Forgotten`) |
| `ReviewInvariance`, `TypesKept` | `TypeOK` | `StackOK`, `CallsOK`: notifications are numbered in order, no more are shown than fit, and a request belongs to one that was made. The watchers' loops are recursive functions: `Repeated` says that such a function exists, `StepByStep` that it keeps what each turn keeps; both come from the least counterexample (`Smallest`), since the library's induction theorems cannot be used. `TypesKept` then collects the types of all eleven parts |

Three things are written as they are so that they can be reasoned about: the loops of the
two watchers are recursive functions over the checks and the executions (`WatchedInTurn`,
`AnnouncedInTurn`) and not folds, `Kind` in ScanChanges is a conditional, and the counts
in the types of RunSteps are natural numbers.

Each theorem about a part states the property that `web` checks under that name, with
the parameters free: any reviews, outcomes, executions, keys, files and bounds.

Only model-checked:

- liveness (`JobsSettle`, `RunsEnd`, `JobsAsked`, `EndIsTold`,
  `SettledIsTold`, `ListFollows`, `OwnWriteShown`, `ScrollShowsAll`), which needs
  fairness and ENABLED, beyond the prover;
- the properties of the violated runs, which are shown by a counterexample.

Every other property of a passing run, an invariant or an action property, and the
refinement of JobLedger, is a theorem.

## 7. Not modelled

Health checks, the response and poster caches, migrations, image hosts and
identification: single-row reads and writes, or pure I/O. `approve_all` and
`retry_all_failed` have no caller. The choice of the client and the translation
of paths do not touch what the properties tell apart. The schedule's expression,
and the figures and messages of a run, are left out of Runs; its check that no
run is open is one step with what follows. Matching, the scan and the pruning of
the library index, the rate limiter and the verification of pieces are planned.

Of the web interface: what it draws (dashboard figures, charts, layout, the
component kit copied into the tree, texts and formats), the generated types of
the API, the test buttons of the configuration, sorting, and matching by hand. A
second tab appears only as another writer (`Elsewhere...`), not with a token and a
copy of the library of its own: another tab still logged in would write its copy
of the library again. The server's side of a part is what that part can observe;
the parts are not composed with ReviewQueue and Runs, whose properties do not
depend on who asks.

## 8. Plan

Done: `JobLedger`, `Executor`, `ReviewQueue`, `Runs` with their proofs; the web
interface; proofs of every invariant and action property the runs check. Next:

1. `ReviewQueue` with several runs that execute the same list: which of the proved
   rules survive, and what executes twice.
2. `FullCheck` and `TorrentLayout`: pieces over files as operators, against a
   reference definition over bounded torrents; lemmas on offsets.
3. `Matching`: freshness, rate limits, packs evaluated once, candidates before
   reviews, composed with ReviewQueue's `Filter`.
4. `LibraryIndex`: scan ids, pruning, the targeted refresh during a run.
5. `RateLimiter`.
6. Two tabs in `Session`; a review page that refines what ReviewQueue promises of
   a check, so that the two compose.
