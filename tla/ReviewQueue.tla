----------------------------- MODULE ReviewQueue -----------------------------
(***************************************************************************)
(* app/review.py and the worker of app/full_check.py: the review queue.    *)
(* A run (or "Search now") matches a file to a torrent and puts a review   *)
(* in the queue; the user approves or rejects it from the interface; an    *)
(* approval is carried out at once, or after a full check of the pieces    *)
(* that one worker thread makes; with the automatic execution on, a run    *)
(* carries out the recommended reviews itself.  What an execution does to  *)
(* the seed_job table is the contract of module JobLedger.                 *)
(*                                                                         *)
(* Requests come from any page, however old: the API asks for no more than *)
(* that the review exists.                                                 *)
(*                                                                         *)
(* Grain: what a thread reads and what it commits later are different      *)
(* steps, with the decisions of others in between, because a read opens no *)
(* transaction (SQLite begins one with the first write).  Reads that       *)
(* follow each other are one step.                                         *)
(***************************************************************************)
EXTENDS JobLedger, FiniteSets, Sequences

CONSTANTS
    Files,        \* orphan files: media_file and seed_file rows
    Torrents,     \* (tracker_id, torrent_id_remote)
    None,         \* no file, no torrent
    Matchers,     \* threads that match: a run's, "Search now" requests
    Clicks,       \* request threads: an approval or a retry from the interface
    Worker, Run,  \* the full-check worker; a run's execution phase
    Settings,     \* values of verify_before_execute and auto_execute
    MaxQueue,     \* bound: checks waiting for the worker
    MaxCrashes    \* bound: process restarts

Actors == Clicks \union {Worker, Run}

ASSUME ReviewQueueAssumption ==
    /\ Settings \subseteq [verify: BOOLEAN, auto: BOOLEAN]
    /\ MaxQueue \in Nat /\ MaxCrashes \in Nat
    /\ None \notin Files \union Torrents
    /\ Worker \notin Clicks /\ Run \notin Clicks \union {Worker}

VARIABLES
    rv,         \* the match_review table
    settings,   \* the two settings, as the user left them
    actor,      \* what each thread that executes reviews is doing
    picked,     \* what each matcher is about to insert
    todo,       \* the reviews the run still has to execute
    queue,      \* the checks waiting for the worker, by their review
    removed,    \* seeding jobs whose torrent has left the client
    crashes,    \* how often the process has restarted
    consent,    \* history: reviews the user asked to execute, not rejected in time
    verifiedOk, \* history: reviews whose full check has passed
    crossed,    \* history: reviews inserted while another search had looked already
    revived,    \* history: approved reviews that had left the queue: rejected ones
    overtaken,  \* history: reviews rejected when a thread was about to approve them
    refused     \* history: reviews the user rejected when no search was at work on them

rows == <<rv, ledger>>
asked == <<consent, verifiedOk>>
history == <<crossed, revived, overtaken, refused>>
vars == <<rv, ledger, settings, actor, picked, todo, queue, removed, crashes, asked, history>>

-----------------------------------------------------------------------------
Ready == {"pending", "auto_approved"} \* READY_FOR_DECISION_STATUSES

Status == {"none", "approved", "rejected"} \union Ready
Decider == {"nobody", "system", "user"}
Verify == {"none", "verifying", "passed", "failed"}

NoReviewRow == [file |-> None, torrent |-> None, status |-> "none",
                by |-> "nobody", verify |-> "none"]

\* What a matcher is doing: with the torrent it has chosen for a file, and with
\* the reviews it has read and is about to close.
Stage == {"idle", "filtered", "looked", "superseded", "closing"}

Nothing == [at |-> "idle", file |-> None, torrent |-> None, stale |-> {}]

Idle == [pc |-> "idle", review |-> NoReview, job |-> 0]

TypeOK ==
    /\ LedgerType
    /\ rv \in [Reviews -> [file: Files \union {None}, torrent: Torrents \union {None},
                           status: Status, by: Decider, verify: Verify]]
    /\ settings \in Settings
    /\ actor \in [Actors -> [pc: {"idle", "mark", "auto", "checking", "approve", "execute", "running"},
                             review: Reviews \union {NoReview}, job: Jobs \union {0}]]
    /\ picked \in [Matchers -> [at: Stage, file: Files \union {None},
                               torrent: Torrents \union {None}, stale: SUBSET Reviews]]
    /\ todo \subseteq Reviews
    /\ queue \in Seq(Reviews) /\ Len(queue) <= MaxQueue
    /\ removed \subseteq Jobs
    /\ crashes \in 0 .. MaxCrashes
    /\ consent \subseteq Reviews /\ verifiedOk \subseteq Reviews
    /\ crossed \subseteq Reviews /\ revived \subseteq Reviews
    /\ overtaken \subseteq Reviews /\ refused \subseteq Reviews

Init ==
    /\ LedgerInit
    /\ rv = [r \in Reviews |-> NoReviewRow]
    /\ settings \in Settings
    /\ actor = [a \in Actors |-> Idle]
    /\ picked = [m \in Matchers |-> Nothing]
    /\ todo = {} /\ queue = <<>> /\ removed = {} /\ crashes = 0
    /\ consent = {} /\ verifiedOk = {}
    /\ crossed = {} /\ revived = {} /\ overtaken = {} /\ refused = {}

-----------------------------------------------------------------------------
IsReady(r) == rv[r].status \in Ready
Listed(r) == IsReady(r) /\ JobsOf(r) = {} \* list_ready_for_review
Known(r) == rv[r].status # "none"
IsIdle(a) == actor[a].pc = "idle"
MoveTo(a, pc, r) == actor' = [actor EXCEPT ![a] = [Idle EXCEPT !.pc = pc, !.review = r]]

\* After a review, the run goes on with the next one; other threads are done.
Done(a) == MoveTo(a, IF a = Run THEN "auto" ELSE "idle", NoReview)

SystemRejects(stale) ==
    rv' = [r \in Reviews |->
        IF r \in stale THEN [rv[r] EXCEPT !.status = "rejected", !.by = "system"] ELSE rv[r]]

-----------------------------------------------------------------------------
(* Matching: _create_review                                                *)

\* Mutant: remembers the system's rejections instead of the user's.
SystemRejected(f) ==
    {rv[r].torrent : r \in {q \in Reviews : /\ rv[q].status = "rejected" /\ rv[q].by = "system"
                                            /\ rv[q].file = f}}

\* _user_rejected_torrents
UserRejected(f) ==
    {rv[r].torrent : r \in {q \in Reviews : /\ rv[q].status = "rejected" /\ rv[q].by = "user"
                                            /\ rv[q].file = f}}

\* Mutant: approved reviews are forgotten as soon as they leave the queue.
BusyQueued(f) == {rv[r].torrent : r \in {q \in Reviews : rv[q].file # f /\ rv[q].status \in Ready}}

\* _torrents_already_in_progress: queued, approved or running for another file.
Busy(f) ==
    {rv[r].torrent : r \in {q \in Reviews :
        /\ rv[q].file # f
        /\ \/ rv[q].status \in Ready \union {"approved"}
           \/ \E j \in JobsOf(q) : \/ ledger[j].state \in {"running", "added"}
                                   \/ ledger[j].state = "seeding" /\ j \notin removed}}

\* Mutant: a recommended review is not superseded.
SupersededPending(f) == {r \in Reviews : rv[r].status = "pending" /\ rv[r].file = f}

\* _supersede_active_reviews: the file's reviews that the new one replaces.
Superseded(f) == {r \in Reviews : IsReady(r) /\ rv[r].file = f}

\* A matcher moves on with its file, or is done.
Goes(m, stage, stale) == picked' = [picked EXCEPT ![m].at = stage, ![m].stale = stale]
Ends(m) == picked' = [picked EXCEPT ![m] = Nothing]

\* The candidates found for a file are filtered; the best one of the rest is x.
Filter(m, f, x) ==
    /\ picked[m] = Nothing
    /\ x \notin UserRejected(f) \union Busy(f)
    /\ picked' = [picked EXCEPT ![m] =
                     [at |-> "filtered", file |-> f, torrent |-> x, stale |-> {}]]
    /\ UNCHANGED <<rows, settings, actor, todo, queue, removed, crashes, asked>>

\* The file's active reviews are read...
Look(m) ==
    LET stale == Superseded(picked[m].file) IN
    /\ picked[m].at = "filtered"
    /\ Goes(m, IF stale = {} THEN "superseded" ELSE "looked", stale)
    /\ UNCHANGED <<rows, settings, actor, todo, queue, removed, crashes, asked>>

\* ... and rejected, whatever has been decided about them in between.
Supersede(m) ==
    /\ picked[m].at = "looked"
    /\ SystemRejects(picked[m].stale)
    /\ Goes(m, "superseded", {})
    /\ UNCHANGED <<ledger, settings, actor, todo, queue, removed, crashes, asked>>

\* The best candidate has no confidence at all: the file is left without a review.
NoMatch(m) ==
    /\ picked[m].at = "superseded"
    /\ Ends(m)
    /\ UNCHANGED <<rows, settings, actor, todo, queue, removed, crashes, asked>>

\* The new review is committed, recommended if its confidence is above the
\* threshold, otherwise left to the user.
Insert(m, r, s) ==
    /\ picked[m].at = "superseded"
    /\ rv[r].status = "none"
    /\ rv' = [rv EXCEPT ![r] =
          [file |-> picked[m].file, torrent |-> picked[m].torrent, status |-> s,
           by |-> IF s = "auto_approved" THEN "system" ELSE "nobody", verify |-> "none"]]
    /\ Ends(m)
    /\ UNCHANGED <<ledger, settings, actor, todo, queue, removed, crashes, asked>>

\* close_resolved_reviews reads the queued reviews of files that need nothing
\* any more (resolved: whatever the scan and the index have found out)...
LookResolved(m, resolved) ==
    LET stale == {r \in Reviews : Listed(r) /\ rv[r].file \in resolved} IN
    /\ picked[m] = Nothing
    /\ stale # {}
    /\ picked' = [picked EXCEPT ![m] = [Nothing EXCEPT !.at = "closing", !.stale = stale]]
    /\ UNCHANGED <<rows, settings, actor, todo, queue, removed, crashes, asked>>

\* ... and rejects them.
CloseResolved(m) ==
    /\ picked[m].at = "closing"
    /\ SystemRejects(picked[m].stale)
    /\ Ends(m)
    /\ UNCHANGED <<ledger, settings, actor, todo, queue, removed, crashes, asked>>

-----------------------------------------------------------------------------
(* Decisions                                                               *)

\* approve() up to the execution: whatever the status, the review is approved.
Approve(a, r, who) ==
    /\ rv' = [rv EXCEPT ![r].status = "approved", ![r].by = who]
    /\ MoveTo(a, "execute", r)

\* request_approval without verification: approve and execute at once.
ApproveNow(a, r) ==
    /\ IsIdle(a) /\ Known(r) /\ ~settings.verify
    /\ Approve(a, r, "user")
    /\ consent' = consent \union {r}
    /\ UNCHANGED <<ledger, settings, picked, todo, queue, removed, crashes, verifiedOk>>

\* Mutant: a review whose check failed is executed when it is approved again.
StartCheckOnce(a, r) ==
    /\ IsIdle(a) /\ Known(r) /\ settings.verify
    /\ rv[r].verify # "verifying"
    /\ Len(queue) < MaxQueue
    /\ consent' = consent \union {r}
    /\ IF rv[r].verify = "failed"
       THEN Approve(a, r, "user") /\ UNCHANGED queue
       ELSE /\ queue' = Append(queue, r)
            /\ MoveTo(a, "mark", r)
            /\ UNCHANGED rv
    /\ UNCHANGED <<ledger, settings, picked, todo, removed, crashes, verifiedOk>>

\* request_approval with verification: a check is handed to the worker...
StartCheck(a, r) ==
    /\ IsIdle(a) /\ Known(r) /\ settings.verify
    /\ rv[r].verify # "verifying"
    /\ Len(queue) < MaxQueue
    /\ queue' = Append(queue, r)
    /\ MoveTo(a, "mark", r)
    /\ consent' = consent \union {r}
    /\ UNCHANGED <<rows, settings, picked, todo, removed, crashes, verifiedOk>>

\* ... and only then is the review marked as being verified.
Mark(a) ==
    /\ actor[a].pc = "mark"
    /\ rv' = [rv EXCEPT ![actor[a].review].verify = "verifying"]
    /\ MoveTo(a, "idle", NoReview)
    /\ UNCHANGED <<ledger, settings, picked, todo, queue, removed, crashes, asked>>

\* A thread has read that the review is in the queue and will approve it.
InHand(r) ==
    \/ actor[Worker].pc = "approve" /\ actor[Worker].review = r
    \/ r \in todo
    \/ actor[Run].pc \in {"checking", "approve"} /\ actor[Run].review = r

\* A rejection takes the consent away unless it comes after the decision, or
\* while a thread is about to write it.
Reject(r) ==
    /\ Known(r)
    /\ rv' = [rv EXCEPT ![r].status = "rejected", ![r].by = "user"]
    /\ consent' = IF IsReady(r) /\ ~InHand(r) THEN consent \ {r} ELSE consent
    /\ UNCHANGED <<ledger, settings, actor, picked, todo, queue, removed, crashes, verifiedOk>>

-----------------------------------------------------------------------------
(* The worker: full_check._run and _after_verification                     *)

Take ==
    /\ IsIdle(Worker) /\ queue # <<>>
    /\ queue' = Tail(queue)
    /\ MoveTo(Worker, "checking", Head(queue))
    /\ UNCHANGED <<rows, settings, picked, todo, removed, crashes, asked>>

\* A check passed: the result is committed.
Passed(a) ==
    /\ actor[a].pc = "checking"
    /\ rv' = [rv EXCEPT ![actor[a].review].verify = "passed"]
    /\ verifiedOk' = verifiedOk \union {actor[a].review}
    /\ UNCHANGED <<ledger, settings, picked, todo, queue, removed, crashes, consent>>

\* Mutant: the review's status is not read again after the check.
CheckPassesUnread == Passed(Worker) /\ MoveTo(Worker, "approve", actor[Worker].review)

\* The worker reads the review again: one that has left the queue is not executed.
CheckPasses ==
    LET r == actor[Worker].review IN
    /\ Passed(Worker)
    /\ IF IsReady(r) THEN MoveTo(Worker, "approve", r) ELSE Done(Worker)

\* What was checked is approved: by the worker for the user, or by the run.
ApproveChecked(a) ==
    /\ actor[a].pc = "approve"
    /\ Approve(a, actor[a].review, IF a = Run THEN "system" ELSE "user")
    /\ UNCHANGED <<ledger, settings, picked, todo, queue, removed, crashes, asked>>

\* Mutant: the check's own status is stored in the review.
CheckEndsRaw ==
    /\ actor[Worker].pc = "checking"
    /\ \E v \in {"failed", "cancelled"} : rv' = [rv EXCEPT ![actor[Worker].review].verify = v]
    /\ Done(Worker)
    /\ UNCHANGED <<ledger, settings, picked, todo, queue, removed, crashes, asked>>

\* A check that did not pass or could not run ("failed"), or that the user
\* cancelled, while it was queued or running ("none").
CheckEnds ==
    /\ actor[Worker].pc = "checking"
    /\ \E v \in {"failed", "none"} : rv' = [rv EXCEPT ![actor[Worker].review].verify = v]
    /\ Done(Worker)
    /\ UNCHANGED <<ledger, settings, picked, todo, queue, removed, crashes, asked>>

-----------------------------------------------------------------------------
(* execute_auto_approved, the execution phase of a run                     *)

\* Mutant: the setting is not asked.
StartAutoAlways ==
    /\ IsIdle(Run)
    /\ todo' = {r \in Reviews : rv[r].status = "auto_approved" /\ JobsOf(r) = {}}
    /\ MoveTo(Run, "auto", NoReview)
    /\ UNCHANGED <<rows, settings, picked, queue, removed, crashes, asked>>

\* The recommended reviews without a job, as they are now.
StartAuto ==
    /\ IsIdle(Run) /\ settings.auto
    /\ todo' = {r \in Reviews : rv[r].status = "auto_approved" /\ JobsOf(r) = {}}
    /\ MoveTo(Run, "auto", NoReview)
    /\ UNCHANGED <<rows, settings, picked, queue, removed, crashes, asked>>

\* The next review: checked first (_verify_now), or approved straight away.
AutoNext(r) ==
    /\ actor[Run].pc = "auto" /\ r \in todo
    /\ todo' = todo \ {r}
    /\ MoveTo(Run, IF settings.verify THEN "checking" ELSE "approve", r)
    /\ UNCHANGED <<rows, settings, picked, queue, removed, crashes, asked>>

\* The run does not read the review again: it goes on to approve it.
AutoPasses == Passed(Run) /\ MoveTo(Run, "approve", actor[Run].review)

AutoFails ==
    /\ actor[Run].pc = "checking"
    /\ rv' = [rv EXCEPT ![actor[Run].review].verify = "failed"]
    /\ Done(Run)
    /\ UNCHANGED <<ledger, settings, picked, todo, queue, removed, crashes, asked>>

\* The run goes on to its next phase: after its last review, or early, when the
\* user stops it or its session is lost in a failed commit.
EndAuto ==
    /\ actor[Run].pc = "auto"
    /\ todo' = {}
    /\ MoveTo(Run, "idle", NoReview)
    /\ UNCHANGED <<rows, settings, picked, queue, removed, crashes, asked>>

-----------------------------------------------------------------------------
(* _try_execute, retries and reconciliation                                *)

\* No client is enabled, or execute_review refuses before it creates the row.
NotExecuted(a) ==
    /\ actor[a].pc = "execute"
    /\ Done(a)
    /\ UNCHANGED <<rows, settings, picked, todo, queue, removed, crashes, asked>>

Execute(a, j) ==
    /\ actor[a].pc = "execute"
    /\ Open(j, actor[a].review)
    /\ actor' = [actor EXCEPT ![a].pc = "running", ![a].job = j]
    /\ UNCHANGED <<rv, settings, picked, todo, queue, removed, crashes, asked>>

\* The row is handed to the client or failed, or left as it is when the commit fails.
Executed(a) ==
    /\ actor[a].pc = "running"
    /\ Hand(actor[a].job) \/ Close(actor[a].job) \/ UNCHANGED ledger
    /\ Done(a)
    /\ UNCHANGED <<rv, settings, picked, todo, queue, removed, crashes, asked>>

\* retry_failed of a job that never reached the client: its review again.
RetryFresh(a, j) ==
    /\ IsIdle(a) /\ ledger[j].state = "failed"
    /\ MoveTo(a, "execute", ledger[j].review)
    /\ consent' = consent \union {ledger[j].review}
    /\ UNCHANGED <<rows, settings, picked, todo, queue, removed, crashes, verifiedOk>>

\* Retry and reconciliation of a job that did (reconcile_seed_job).
Reconcile(j) ==
    /\ \/ Resume(j)
       \/ ledger[j].state = "added" /\ \E s \in {"seeding", "broken"} : Settle(j, s)
    /\ UNCHANGED <<rv, settings, actor, picked, todo, queue, removed, crashes, asked>>

\* The user takes a seeding torrent out of the client, and the index sees it.
LeaveClient(j) ==
    /\ ledger[j].state = "seeding"
    /\ removed' = removed \union {j}
    /\ UNCHANGED <<rows, settings, actor, picked, todo, queue, crashes, asked>>

\* The process restarts: reset_interrupted_verifications.
Restart ==
    /\ crashes < MaxCrashes
    /\ crashes' = crashes + 1
    /\ rv' = [r \in Reviews |->
          IF rv[r].verify = "verifying" THEN [rv[r] EXCEPT !.verify = "none"] ELSE rv[r]]
    /\ actor' = [a \in Actors |-> Idle]
    /\ picked' = [m \in Matchers |-> Nothing]
    /\ todo' = {} /\ queue' = <<>>
    /\ UNCHANGED <<ledger, settings, removed, asked>>

-----------------------------------------------------------------------------
Execution(a) == NotExecuted(a) \/ (\E j \in Jobs : Execute(a, j)) \/ Executed(a)
Check == Take \/ CheckPasses \/ CheckEnds \/ ApproveChecked(Worker)
AutoPhase ==
    \/ StartAuto \/ EndAuto \/ (\E r \in Reviews : AutoNext(r))
    \/ AutoPasses \/ AutoFails \/ ApproveChecked(Run)

Matching(m) ==
    \/ \E f \in Files, x \in Torrents : Filter(m, f, x)
    \/ Look(m) \/ Supersede(m) \/ NoMatch(m)
    \/ \E r \in Reviews, s \in Ready : Insert(m, r, s)
    \/ \E resolved \in SUBSET Files : LookResolved(m, resolved)
    \/ CloseResolved(m)

Step ==
    \/ \E m \in Matchers : Matching(m)
    \/ \E r \in Reviews : Reject(r)
    \/ \E a \in Clicks :
          \/ \E r \in Reviews : ApproveNow(a, r) \/ StartCheck(a, r)
          \/ Mark(a)
          \/ \E j \in Jobs : RetryFresh(a, j)
    \/ Check
    \/ AutoPhase
    \/ \E a \in Actors : Execution(a)
    \/ \E j \in Jobs : Reconcile(j) \/ LeaveClient(j)
    \/ Restart

-----------------------------------------------------------------------------
(* What the properties remember of the steps                               *)

Active(r) == rv[r].status \in Ready \union {"approved"}
Rejected(r) == rv[r].status = "rejected"
UserSaidNo(r) == Rejected(r) /\ rv[r].by = "user"

\* A search has chosen its torrent; it has also read the file's reviews.
Chosen(m) == picked[m].at \in {"filtered", "looked", "superseded"}
HasLooked(m) == picked[m].at \in {"looked", "superseded"}

\* A search has read the queue without this review and will insert another one
\* for the same file, or of the same torrent.
Crossing(r) ==
    \E m \in Matchers :
        \/ HasLooked(m) /\ picked[m].file = rv[r].file
        \/ Chosen(m) /\ picked[m].torrent = rv[r].torrent /\ picked[m].file # rv[r].file

\* A search will insert the same torrent for the same file, or close the review
\* as the system, without having seen what the user decides now.
Contested(r) ==
    \E m \in Matchers :
        \/ r \in picked[m].stale
        \/ Chosen(m) /\ picked[m].file = rv[r].file /\ picked[m].torrent = rv[r].torrent

Records ==
    /\ crossed' = {r \in Reviews :
          Active(r)' /\ (r \in crossed \/ (~Known(r) /\ Crossing(r)'))}
    /\ revived' = {r \in Reviews :
          rv'[r].status = "approved" /\ (r \in revived \/ ~Active(r))}
    /\ overtaken' = {r \in Reviews :
          InHand(r)' /\ (r \in overtaken \/ (InHand(r) /\ ~Rejected(r) /\ Rejected(r)'))}
    /\ refused' = {r \in Reviews :
          Rejected(r)' /\ (r \in refused \/ (~UserSaidNo(r) /\ UserSaidNo(r)' /\ ~Contested(r)))}

Next == Step /\ Records

Spec == Init /\ [][Next]_vars

-----------------------------------------------------------------------------
(* Properties                                                              *)

\* Never more than one active evaluation of a file: a new review takes the
\* place of the queued one (_supersede_active_reviews), whatever the user, the
\* worker and the run are doing with it.  Of two, one was inserted while another
\* search was between reading the file's reviews and inserting its own.
OneActivePerFile ==
    \A r, q \in Reviews :
        IsReady(r) /\ IsReady(q) /\ rv[r].file = rv[q].file => r = q \/ r \in crossed \/ q \in crossed

HasLeft(r) == JobsOf(r) # {} /\ JobsOf(r) \subseteq removed

\* The review holds its torrent: queued, or approved and not gone from the client.
Holds(r) == IsReady(r) \/ (rv[r].status = "approved" /\ ~HasLeft(r))

\* A torrent is queued or approved for one file only: a season pack found from
\* one episode does not come back from another (_torrents_already_in_progress),
\* but through two searches at once or the approval of a rejected review.
TorrentQueuedOnce ==
    \A r, q \in Reviews :
        Holds(r) /\ Holds(q) /\ rv[r].torrent = rv[q].torrent
            => rv[r].file = rv[q].file \/ {r, q} \cap (crossed \union revived) # {}

\* A torrent the user has rejected for a file does not come back to the queue
\* of that file, through any number of later searches and restarts
\* (_user_rejected_torrents), unless a search was at work on it meanwhile.
RefusedStaysOut ==
    [][\A r \in refused : \A q \in Reviews :
           ~Known(q) /\ IsReady(q)'
               => <<rv'[q].file, rv'[q].torrent>> # <<rv[r].file, rv[r].torrent>>]_vars

\* A request of the user approves the review in this step.
ClickApproves(r) == \E a \in Clicks : actor[a].pc = "idle" /\ actor'[a].pc = "execute" /\ actor'[a].review = r

\* A review that the user rejected, that a search superseded or that was closed
\* is approved afterwards only by a new request for it: not by a check that was
\* under way, unless the thread had already decided to approve it.
RejectionIsFinal ==
    [][\A r \in Reviews : rv[r].status = "rejected" /\ rv'[r].status # "rejected"
           => ClickApproves(r) \/ r \in overtaken]_vars

\* review.py, execute_auto_approved executes the auto_approved reviews: a run
\* does not approve one that the user has rejected.
RunKeepsToRejections ==
    [][\A r \in Reviews : rv[r].status = "rejected" /\ rv[r].by = "user"
           => rv'[r].status = "rejected" \/ rv'[r].by = "user"]_vars

\* An execution starts only for a review the user asked for and did not
\* reject in time, unless the automatic execution is on (docs/SPEC.md).
OnlyWithConsent ==
    [][\A j \in Jobs : ledger[j].state = "none" /\ ledger'[j].state # "none"
           => ledger'[j].review \in consent \/ settings.auto]_vars

\* With verify_before_execute on, nothing is executed whose full check has not
\* passed, from the interface, from a run, or by retrying.
VerifiedBeforeExecuted ==
    settings.verify => \A j \in Jobs : Exists(j) => ledger[j].review \in verifiedOk

\* With verification on, the worker approves a review once, however often the
\* user clicks and however many checks of it were queued: what it is about to
\* approve has not been approved and executed already.
ApprovedOnce ==
    settings.verify /\ ~settings.auto /\ actor[Worker].pc = "approve"
        => rv[actor[Worker].review].status # "approved"

Waiting(r) == \E i \in 1 .. Len(queue) : queue[i] = r
BeingChecked(r) == actor[Worker].pc = "checking" /\ actor[Worker].review = r

\* docs/SPEC.md, "If the check fails ... the review stays in the queue with the
\* reason": a review listed as being verified has a check that will answer.
VerifyingIsAlive ==
    \A r \in Reviews :
        Listed(r) /\ rv[r].verify = "verifying"
            => Waiting(r) \/ BeingChecked(r) \/ \E a \in Clicks : actor[a].pc = "mark" /\ actor[a].review = r

\* review.py, _torrents_already_in_progress: an execution whose torrent has
\* left the client does not occupy that torrent any more, so another file
\* (the one the torrent left behind) can have it.
RemovedTorrentIsFree ==
    \A f \in Files : \A x \in Busy(f) :
        \E q \in Reviews :
            /\ rv[q].torrent = x /\ rv[q].file # f
            /\ Holds(q) \/ \E j \in JobsOf(q) : ledger[j].state \in {"running", "added", "seeding"} /\ j \notin removed
=============================================================================
