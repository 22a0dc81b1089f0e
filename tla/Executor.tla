------------------------------- MODULE Executor -------------------------------
(***************************************************************************)
(* app/executor.py: carrying out a review.  A thread of the program (a     *)
(* request handler, the verification worker, the run, the scheduler)       *)
(* creates the seed_job row, hardlinks the candidate's files one by one    *)
(* under the name the tracker expects, adds the torrent to the client,     *)
(* waits for the client to show it, forces a recheck and records the hash. *)
(* Another thread later asks the client how the recheck ended.  Anything   *)
(* may fail in between, the commits too (SQLite is locked, the disk is     *)
(* full), and the process may be killed at any point: the database, the    *)
(* disk and the client then keep what they hold.                           *)
(*                                                                         *)
(* The four execute_* functions differ in three facts about the candidate: *)
(* whether it has candidate_file rows (Layout), whether it makes hardlinks *)
(* (Targets) and whether its info hash is known (Known).                   *)
(***************************************************************************)
EXTENDS Naturals, FiniteSets

CONSTANTS
    Reviews, NoReview, \* reviews that get executed, each with its candidate
    Hashes, NoHash,    \* torrents, named by their info hash
    Paths,             \* destination paths under the disk's torrents folder
    Threads,           \* threads of the program that execute or reconcile
    MaxJobs,           \* bound: seed_job rows
    MaxFaults,         \* bound: commits that fail, and process restarts
    Hash,              \* [Reviews -> Hashes], the candidate's torrent
    Targets,           \* [Reviews -> SUBSET Paths], {} when torrent_to_client
    Layout,            \* reviews whose candidate has candidate_file rows
    Known,             \* reviews whose candidate.info_hash is known
    Linkless,          \* reviews whose candidate has no download_link
    Extras             \* reviews with expected_missing_bytes > 0

ASSUME ExecutorAssumption ==
    /\ MaxJobs \in Nat /\ MaxFaults \in Nat
    /\ NoReview \notin Reviews /\ NoHash \notin Hashes
    /\ Hash \in [Reviews -> Hashes]
    /\ Targets \in [Reviews -> SUBSET Paths]
    /\ Layout \subseteq Reviews /\ Known \subseteq Reviews
    /\ Linkless \subseteq Reviews /\ Extras \subseteq Reviews

VARIABLES
    jobs,      \* the seed_job table
    owner,     \* what is at each destination path
    client,    \* the torrents in the client and how they stand
    accepted,  \* torrents the client has taken but does not list yet
    thread,    \* what each thread is doing
    faults,    \* how many commits have failed, and how often the process died
    stuck,     \* history: links whose removal failed (logged, line 195)
    rechecked, \* history: jobs whose torrent was rechecked after they got it
    dropped    \* history: jobs that a fault hit while they were worked on

vars == <<jobs, owner, client, accepted, thread, faults, stuck, rechecked, dropped>>

-----------------------------------------------------------------------------
Jobs == 1 .. MaxJobs
NoJob == 0
Free == 0                 \* nothing at the path
Foreign == MaxJobs + 1    \* a file the program did not make

JobStatus == {"none", "in_progress", "seeding", "failed"}
ClientStatus == {"absent", "checking", "complete", "extras", "incomplete", "error"}
Working == {"refused", "linking", "adding", "waiting", "recording"} \* inside execute_*

\* recheck_status is left out: it repeats status for the interface, and no
\* code decides anything on it.
JobRecord == [review: Reviews \union {NoReview}, status: JobStatus,
              hash: Hashes \union {NoHash}]

ThreadRecord == [pc: {"idle", "reporting"} \union Working,
                 review: Reviews \union {NoReview}, job: Jobs \union {NoJob},
                 made: SUBSET Paths, before: SUBSET Hashes,
                 found: Hashes \union {NoHash}, seen: ClientStatus]

TypeOK ==
    /\ jobs \in [Jobs -> JobRecord]
    /\ owner \in [Paths -> Jobs \union {Free, Foreign}]
    /\ client \in [Hashes -> ClientStatus]
    /\ accepted \subseteq Hashes
    /\ thread \in [Threads -> ThreadRecord]
    /\ faults \in 0 .. MaxFaults
    /\ stuck \subseteq Paths
    /\ rechecked \subseteq Jobs
    /\ dropped \subseteq Jobs

NoRow == [review |-> NoReview, status |-> "none", hash |-> NoHash]

Idle == [pc |-> "idle", review |-> NoReview, job |-> NoJob,
         made |-> {}, before |-> {}, found |-> NoHash, seen |-> "absent"]

Init ==
    /\ jobs = [j \in Jobs |-> NoRow]
    /\ owner \in [Paths -> {Free, Foreign}]
    /\ client \in [Hashes -> {"absent", "complete"}]
    /\ accepted = {}
    /\ thread = [t \in Threads |-> Idle]
    /\ faults = 0
    /\ stuck = {}
    /\ rechecked = {}
    /\ dropped = {}

InClient == {h \in Hashes : client[h] # "absent"}
NextRow(j) == \A k \in Jobs : (jobs[k].status = "none") <=> (k >= j)
IsIdle(t) == thread[t].pc = "idle"
IsWorking(t) == thread[t].pc \in Working
Holds(t, j, h) == thread[t].pc = "recording" /\ thread[t].job = j /\ thread[t].found = h
Lost(j) == /\ jobs[j].status = "in_progress" /\ jobs[j].hash = NoHash
           /\ \A t \in Threads : ~(IsWorking(t) /\ thread[t].job = j)
-----------------------------------------------------------------------------
(* Environment: the user's own files, the client, and the process itself.  *)

\* A file the program did not make appears at a free destination.
UserPutsFile(p) ==
    /\ owner[p] = Free
    /\ owner' = [owner EXCEPT ![p] = Foreign]
    /\ UNCHANGED <<jobs, client, accepted, thread, faults, stuck, rechecked, dropped>>

\* The client lists a torrent it had accepted, and begins to check its data
\* (it is never added with skip_checking).
Appear(h) ==
    /\ h \in accepted
    /\ accepted' = accepted \ {h}
    /\ client' = [client EXCEPT ![h] = "checking"]
    /\ UNCHANGED <<jobs, owner, thread, faults, stuck, rechecked, dropped>>

\* A check of the data ends.  "extras" is a check that misses only files the
\* candidate was known to lack.
RecheckEnds(h) ==
    /\ client[h] = "checking"
    /\ \E s \in {"complete", "incomplete", "error"}
               \union {x \in {"extras"} : \E r \in Extras : Hash[r] = h} :
          client' = [client EXCEPT ![h] = s]
    /\ rechecked' = rechecked \union
          {j \in Jobs : jobs[j].hash = h \/ \E t \in Threads : Holds(t, j, h)}
    /\ UNCHANGED <<jobs, owner, accepted, thread, faults, stuck, dropped>>

\* The client downloads what the check missed.
Download(h) ==
    /\ client[h] \in {"extras", "incomplete"}
    /\ client' = [client EXCEPT ![h] = "complete"]
    /\ UNCHANGED <<jobs, owner, accepted, thread, faults, stuck, rechecked, dropped>>

\* The user takes a torrent out of the client.
UserRemoves(h) ==
    /\ client[h] # "absent"
    /\ client' = [client EXCEPT ![h] = "absent"]
    /\ UNCHANGED <<jobs, owner, accepted, thread, faults, stuck, rechecked, dropped>>

\* The process is killed and starts again: what its threads were doing is
\* forgotten.  Start-up (main.py) repairs runs and verifications, and leaves
\* the seed_job table as it is.
Crash ==
    /\ faults < MaxFaults
    /\ faults' = faults + 1
    /\ dropped' = dropped \union {j \in Jobs : \E t \in Threads : IsWorking(t) /\ thread[t].job = j}
    /\ thread' = [t \in Threads |-> Idle]
    /\ UNCHANGED <<jobs, owner, client, accepted, stuck, rechecked>>

-----------------------------------------------------------------------------
(* execute_review                                                          *)

\* The checks made before the row is created that depend on this state: the
\* destinations are free.  The others (scope, disk, sources, folder) refuse
\* the execution and change nothing.
DestinationsFree(r) == \A p \in Targets[r] : owner[p] = Free

\* What comes after the row.  Of a candidate without a download link only
\* _create_hardlink_then_seed gets that far, and refuses it there.
FirstStep(r) ==
    CASE r \in Linkless     -> "refused"
      [] Targets[r] = {}    -> "adding"
      [] OTHER              -> "linking"

\* The row is committed; the hardlinks, if any, come next.
Begin(t, r) ==
    /\ IsIdle(t)
    /\ r \in Linkless => r \notin Layout /\ Targets[r] # {}
    /\ DestinationsFree(r)
    /\ \E j \in Jobs :
          /\ NextRow(j)
          /\ jobs' = [jobs EXCEPT ![j] = [review |-> r, status |-> "in_progress", hash |-> NoHash]]
          /\ thread' = [thread EXCEPT ![t] =
                [Idle EXCEPT !.pc = FirstStep(r), !.review = r, !.job = j]]
    /\ UNCHANGED <<owner, client, accepted, faults, stuck, rechecked, dropped>>

\* The thread has made the link p; after the last one hardlink_created_at is
\* committed and the client is next.
Linked(t, p) ==
    LET made == thread[t].made \union {p} IN
    thread' = [thread EXCEPT ![t] = [@ EXCEPT
        !.made = made,
        !.pc = IF made = Targets[thread[t].review] THEN "adding" ELSE "linking"]]

\* Mutant: the link replaces whatever is at the destination.
LinkOverwriting(t, p) ==
    /\ owner' = [owner EXCEPT ![p] = thread[t].job]
    /\ Linked(t, p)

\* os.link fails on a destination that exists.
LinkTo(t, p) ==
    /\ owner[p] = Free
    /\ owner' = [owner EXCEPT ![p] = thread[t].job]
    /\ Linked(t, p)

\* One of the hardlinks still to make.
Link(t) ==
    /\ thread[t].pc = "linking"
    /\ \E p \in Targets[thread[t].review] \ thread[t].made : LinkTo(t, p)
    /\ UNCHANGED <<jobs, client, accepted, faults, stuck, rechecked, dropped>>

\* add_torrent up to torrents_add: a torrent with the expected hash must not
\* be in the client.  A duplicate is ignored by the client.
Add(t) ==
    LET r == thread[t].review IN
    /\ thread[t].pc = "adding"
    /\ r \in Known => Hash[r] \notin InClient
    /\ accepted' = accepted \union ({Hash[r]} \ InClient)
    /\ thread' = [thread EXCEPT ![t] = [@ EXCEPT !.pc = "waiting", !.before = InClient]]
    /\ UNCHANGED <<jobs, owner, client, faults, stuck, rechecked, dropped>>

\* Mutant: waits for any new torrent, whatever the expected hash.
AnyNewHash(t) == InClient \ thread[t].before

\* The hash _wait_for_new_hash settles on: the expected one, or without one
\* any torrent that was not there before.
NewHash(t) ==
    LET r == thread[t].review IN
    IF r \in Known THEN InClient \intersect {Hash[r]} ELSE InClient \ thread[t].before

\* Mutant: the recheck is not forced.
FoundWithoutRecheck(t) ==
    /\ thread[t].pc = "waiting"
    /\ \E h \in NewHash(t) :
          thread' = [thread EXCEPT ![t] = [@ EXCEPT !.pc = "recording", !.found = h]]
    /\ UNCHANGED <<jobs, owner, client, accepted, faults, stuck, rechecked, dropped>>

\* The torrent shows up, and the recheck is forced.
Found(t) ==
    /\ thread[t].pc = "waiting"
    /\ \E h \in NewHash(t) :
          /\ client' = [client EXCEPT ![h] = "checking"]
          /\ thread' = [thread EXCEPT ![t] = [@ EXCEPT !.pc = "recording", !.found = h]]
    /\ UNCHANGED <<jobs, owner, accepted, faults, stuck, rechecked, dropped>>

\* The hash is committed, whatever has become of the torrent by then.
Record(t) ==
    /\ thread[t].pc = "recording"
    /\ jobs' = [jobs EXCEPT ![thread[t].job].hash = thread[t].found]
    /\ thread' = [thread EXCEPT ![t] = Idle]
    /\ UNCHANGED <<owner, client, accepted, faults, stuck, rechecked, dropped>>

\* What can be raised inside the try, before its last commit.
Failing(t) == IsWorking(t) /\ thread[t].pc # "recording"

\* Mutant: the rollback covers os.link and not the call to the client.
AbortOnlyLinking(t) ==
    LET gone == IF thread[t].pc = "linking" /\ thread[t].review \in Layout
                THEN thread[t].made ELSE {} IN
    /\ Failing(t)
    /\ owner' = [p \in Paths |-> IF p \in gone THEN Free ELSE owner[p]]
    /\ jobs' = [jobs EXCEPT ![thread[t].job].status = "failed"]
    /\ thread' = [thread EXCEPT ![t] = Idle]
    /\ UNCHANGED <<client, accepted, faults, stuck, rechecked, dropped>>

\* Mutant: the error escapes before the row is marked failed.
AbortSilently(t) ==
    /\ Failing(t)
    /\ thread' = [thread EXCEPT ![t] = Idle]
    /\ UNCHANGED <<jobs, owner, client, accepted, faults, stuck, rechecked, dropped>>

\* The links the handler of a layout execution removes: those it made, but
\* for the ones the disk refuses to.  The single-file one leaves its link.
Unlinked(t, left) ==
    /\ thread[t].review \notin Layout => left = thread[t].made
    /\ owner' = [p \in Paths |-> IF p \in thread[t].made \ left THEN Free ELSE owner[p]]

\* Anything raised on the way (no download link, a destination taken
\* meanwhile, an I/O error, a duplicate, a client that does not answer, the
\* 30 s timeout): the links are removed, and the row is failed.
Abort(t) ==
    /\ Failing(t)
    /\ \E left \in SUBSET thread[t].made :
          /\ Unlinked(t, left)
          /\ stuck' = IF thread[t].review \in Layout THEN stuck \union left ELSE stuck
    /\ jobs' = [jobs EXCEPT ![thread[t].job].status = "failed"]
    /\ thread' = [thread EXCEPT ![t] = Idle]
    /\ UNCHANGED <<client, accepted, faults, rechecked, dropped>>

\* A commit of the execution fails.  The handlers commit without a rollback:
\* after a failed commit in the try their first use of the row raises again,
\* before any link is removed; after another error it is their own commit
\* that fails.  Either way the error escapes and the row stays as it is.
Lose(t) ==
    /\ IsWorking(t)
    /\ faults < MaxFaults
    /\ faults' = faults + 1
    /\ dropped' = dropped \union {thread[t].job}
    /\ \/ UNCHANGED owner
       \/ Failing(t) /\ \E left \in SUBSET thread[t].made : Unlinked(t, left)
    /\ thread' = [thread EXCEPT ![t] = Idle]
    /\ UNCHANGED <<jobs, client, accepted, stuck, rechecked>>

-----------------------------------------------------------------------------
(* reconcile_seed_job and retry_seed_job                                   *)

\* The client is asked about a pending job.  A torrent it does not have makes
\* the call raise, and nothing changes.
Poll(t, j) ==
    /\ IsIdle(t)
    /\ jobs[j].status = "in_progress" /\ jobs[j].hash # NoHash
    /\ client[jobs[j].hash] # "absent"
    /\ thread' = [thread EXCEPT ![t] =
          [Idle EXCEPT !.pc = "reporting", !.job = j, !.seen = client[jobs[j].hash]]]
    /\ UNCHANGED <<jobs, owner, client, accepted, faults, stuck, rechecked, dropped>>

\* Mutant: a client error counts as an answer still to come.
OutcomePatient(j, seen) ==
    CASE seen \in {"checking", "error"} -> "pending"
      [] seen = "complete" \/ (seen = "extras" /\ jobs[j].review \in Extras) -> "ok"
      [] OTHER -> "failed"

\* What the client's answer means for the job: missing only the extras it
\* was known to lack counts as ok.
Outcome(j, seen) ==
    CASE seen = "checking" -> "pending"
      [] seen = "complete" \/ (seen = "extras" /\ jobs[j].review \in Extras) -> "ok"
      [] OTHER -> "failed"

\* Mutant: the recheck's outcome is stored as the job's status.
ReportRaw(t) ==
    /\ thread[t].pc = "reporting"
    /\ jobs' = [jobs EXCEPT ![thread[t].job].status = Outcome(thread[t].job, thread[t].seen)]
    /\ thread' = [thread EXCEPT ![t] = Idle]
    /\ UNCHANGED <<owner, client, accepted, faults, stuck, rechecked, dropped>>

\* The answer is committed, whatever happened to the job since it was asked.
Report(t) ==
    LET j       == thread[t].job
        recheck == Outcome(j, thread[t].seen) IN
    /\ thread[t].pc = "reporting"
    /\ jobs' = [jobs EXCEPT ![j].status = CASE recheck = "ok"     -> "seeding"
                                            [] recheck = "failed" -> "failed"
                                            [] OTHER              -> @]
    /\ thread' = [thread EXCEPT ![t] = Idle]
    /\ UNCHANGED <<owner, client, accepted, faults, stuck, rechecked, dropped>>

\* The commit of the answer fails: the job is asked about again later.
LoseAnswer(t) ==
    /\ thread[t].pc = "reporting"
    /\ faults < MaxFaults
    /\ faults' = faults + 1
    /\ thread' = [thread EXCEPT ![t] = Idle]
    /\ UNCHANGED <<jobs, owner, client, accepted, stuck, rechecked, dropped>>

\* Mutant: a job that never reached the client is retried in place.
RetryAnything(j) ==
    /\ jobs[j].status = "failed"
    /\ jobs' = [jobs EXCEPT ![j].status = "in_progress"]
    /\ UNCHANGED <<owner, client, accepted, thread, faults, stuck, rechecked, dropped>>

\* retry_seed_job of a job the client knows: pending again, then Poll.  A job
\* without a hash is retried by executing its review again (Begin).
Retry(j) ==
    /\ jobs[j].status = "failed" /\ jobs[j].hash # NoHash
    /\ jobs' = [jobs EXCEPT ![j].status = "in_progress"]
    /\ UNCHANGED <<owner, client, accepted, thread, faults, stuck, rechecked, dropped>>

-----------------------------------------------------------------------------
Environment ==
    \/ \E p \in Paths : UserPutsFile(p)
    \/ \E h \in Hashes : Appear(h) \/ RecheckEnds(h) \/ Download(h) \/ UserRemoves(h)
    \/ Crash

Execution(t) == Link(t) \/ Add(t) \/ Found(t) \/ Record(t) \/ Abort(t)

Next ==
    \/ Environment
    \/ \E t \in Threads :
          \/ \E r \in Reviews : Begin(t, r)
          \/ Execution(t) \/ Lose(t)
          \/ \E j \in Jobs : Poll(t, j)
          \/ Report(t) \/ LoseAnswer(t)
    \/ \E j \in Jobs : Retry(j)

Spec == Init /\ [][Next]_vars

\* A thread inside an execution goes on (every wait has a timeout); the
\* scheduler asks about every pending job again and again; the client ends
\* its checks.  Nothing obliges the user, a commit to fail, or the process to be
\* killed.
Fairness ==
    /\ \A t \in Threads : WF_vars(Execution(t)) /\ WF_vars(Report(t))
    /\ \A j \in Jobs : SF_vars(\E t \in Threads : Poll(t, j))
    /\ \A h \in Hashes : WF_vars(RecheckEnds(h))

FairSpec == Spec /\ Fairness

-----------------------------------------------------------------------------
(* Properties                                                              *)

\* With a known info hash, the hash recorded for a job is its own torrent's,
\* however many executions add torrents to the client at the same time
\* (_wait_for_new_hash waits for the expected one, not for any new one).
HashIsOwn ==
    \A j \in Jobs :
        jobs[j].hash # NoHash /\ jobs[j].review \in Known => jobs[j].hash = Hash[jobs[j].review]

\* A layout execution that failed before the client had the torrent leaves
\* none of its hardlinks behind, except those the disk refused to remove.
RollbackComplete ==
    \A j \in Jobs :
        jobs[j].status = "failed" /\ jobs[j].hash = NoHash /\ jobs[j].review \in Layout
            => {p \in Paths : owner[p] = j} \subseteq stuck

\* Two jobs whose torrents were handed to the client never share a hardlink:
\* the destination paths act as a lock between executions, and a rollback
\* never takes away the link of a job that has succeeded.
HandedJobsDisjoint ==
    \A j, k \in Jobs :
        j # k /\ jobs[j].hash # NoHash /\ jobs[k].hash # NoHash
            => Targets[jobs[j].review] \intersect Targets[jobs[k].review] = {}

\* A job is marked seeding only when the client finished a check of its data
\* that ended after the job had got the torrent: never on the state the
\* torrent had before the forced recheck, nor on an older answer.
SeedingWasRechecked ==
    \A j \in Jobs : jobs[j].status = "seeding" => j \in rechecked

\* A job in progress is being worked on or has a hash by which the
\* reconciliation finds it, through all failures of the disk and the client:
\* only the death of the process or a failed commit, while the job is worked
\* on, leaves it without both.
OnlyFaultsLoseJobs == \A j \in Jobs : Lost(j) => j \in dropped

\* executor.py:35, an explicit error, never a silent failure: no job is left
\* in progress with nobody working on it and no hash to look for.
NoJobIsLost == \A j \in Jobs : ~Lost(j)

\* A job in progress settles, unless its torrent is taken out of the client
\* or its execution was lost: executions end and rechecks get an answer.
JobsSettle ==
    \A j \in Jobs :
        jobs[j].status = "in_progress" ~>
            \/ jobs[j].status \in {"seeding", "failed"}
            \/ jobs[j].hash # NoHash /\ client[jobs[j].hash] = "absent"
            \/ Lost(j)

\* The abstract state of a row.
StateOf(job) ==
    CASE job.status = "none"        -> "none"
      [] job.status = "in_progress" -> IF job.hash = NoHash THEN "running" ELSE "added"
      [] job.status = "seeding"     -> "seeding"
      [] job.status = "failed"      -> IF job.hash = NoHash THEN "failed" ELSE "broken"

LedgerOf == [j \in Jobs |-> [review |-> jobs[j].review, state |-> StateOf(jobs[j])]]

Ledger == INSTANCE JobLedger WITH ledger <- LedgerOf

\* The executor keeps the promise of module JobLedger: rows only move as it
\* says, so a job that never reached the client is never revived, and one
\* that did never loses its torrent.
ImplementsLedger == Ledger!LedgerSpec
=============================================================================
