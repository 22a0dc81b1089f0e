----------------------------- MODULE ReviewPage -----------------------------
(***************************************************************************)
(* The reseeding page of one browser tab and the stack of notifications:   *)
(* a review is approved, the server checks its torrent in the background,  *)
(* executes it, and the tab follows all of it by polling.                  *)
(*                                                                         *)
(* The server is the first group of variables, as the tab can observe it.  *)
(* The tab keeps copies that are refreshed one query at a time (list,      *)
(* polled, seen), the notifications, which of them follows which check,    *)
(* and its requests in flight.  Nothing orders the polls, the answers and  *)
(* the server's own steps.                                                 *)
(***************************************************************************)
EXTENDS Naturals, SequencesExt

CONSTANTS
    Reviews,    \* match_review rows
    MaxChecks,  \* bound: full checks ever started
    MaxKept,    \* checks the server keeps before it drops finished ones
    MaxVisible, \* notifications shown at most
    MaxActs,    \* bound: user actions that make a notification, per load of the tab
    MaxBreaks,  \* bound: restarts of the server and reloads of the tab
    Outcomes    \* the ways a check may end that are explored

VARIABLES
    rows,    \* server: [Reviews -> status, verify, check] of match_review
    checks,  \* server: [Checks -> review, state, listed] of full_check._checks
    jobs,    \* server: [Reviews -> final_status of the seed_job]
    list,    \* tab: cached GET /api/reviews
    polled,  \* tab: cached GET /api/full-checks
    seen,    \* tab: cached GET /api/reviews/seed-jobs/recent, and the watcher's copy
    acts,    \* tab: notifications, newest first
    pushed,  \* tab: how many notifications were made; the last one's id
    tracked, \* tab: [Checks -> notification that follows it, 0 for none]
    calls,   \* tab: [Reviews -> the approval in flight]
    due,     \* tab: the list of reviews was invalidated and not fetched yet
    breaks   \* restarts and reloads so far

server == <<rows, checks, jobs>>
stack == <<acts, pushed, tracked>>
vars == <<rows, checks, jobs, list, polled, seen, acts, pushed, tracked, calls, due, breaks>>

Checks == 1 .. MaxChecks
Unloaded == [r \in Reviews |-> "unloaded"]

\* How a finished check is told.
FinalStatus ==
    [cancelled |-> "info", failed |-> "error", refuted |-> "error", added |-> "success",
     no_client |-> "info", exec_failed |-> "error", skipped |-> "info"]

CheckStates == {"unused", "active"} \union DOMAIN FinalStatus

isActive(state) == state = "active"

NoCall == [act |-> 0, reply |-> "none", check |-> 0]

TypeOK ==
    /\ rows \in [Reviews -> [status : {"pending", "approved", "rejected"},
                             verify : {"none", "verifying", "failed", "passed"},
                             check : Checks \union {0}]]
    /\ checks \in [Checks -> [review : Reviews \union {0}, state : CheckStates \union {"lost"},
                              listed : BOOLEAN]]
    /\ jobs \in [Reviews -> {"none", "in_progress", "seeding", "failed"}]
    /\ list \in [Reviews -> {"absent", "none", "verifying", "failed", "passed"}]
    /\ polled \in [Checks -> CheckStates]
    /\ seen \in [Reviews -> {"unloaded", "none", "in_progress", "seeding", "failed"}]
    /\ Len(acts) <= MaxVisible
    /\ tracked \in [Checks -> 0 .. pushed]
    /\ \A i \in DOMAIN acts : acts[i].id <= pushed /\ (i > 1 => acts[i].id < acts[i - 1].id)
    /\ DOMAIN calls = Reviews /\ due \in BOOLEAN /\ breaks \in 0 .. MaxBreaks

Init ==
    /\ rows = [r \in Reviews |-> [status |-> "pending", verify |-> "none", check |-> 0]]
    /\ checks = [c \in Checks |-> [review |-> 0, state |-> "unused", listed |-> FALSE]]
    /\ jobs = [r \in Reviews |-> "none"]
    /\ list = [r \in Reviews |-> "none"]
    /\ polled = [c \in Checks |-> "unused"]
    /\ seen = [r \in Reviews |-> "none"]
    /\ acts = <<>> /\ pushed = 0
    /\ tracked = [c \in Checks |-> 0]
    /\ calls = [r \in Reviews |-> NoCall]
    /\ due = FALSE /\ breaks = 0

-----------------------------------------------------------------------------
(* The stack of notifications (lib/activity.ts).  tab is a record of acts,  *)
(* pushed and tracked: several notifications may change in one step.        *)

Tab == [acts |-> acts, pushed |-> pushed, tracked |-> tracked]

\* Mutant: the stack is not cut.
PushAll(tab, status, text, about) ==
    LET new == [id |-> tab.pushed + 1, status |-> status, text |-> text, about |-> about]
    IN  [tab EXCEPT !.pushed = @ + 1, !.acts = <<new>> \o @]

Push(tab, status, text, about) ==
    LET new == [id |-> tab.pushed + 1, status |-> status, text |-> text, about |-> about]
        all == <<new>> \o tab.acts
    IN  [tab EXCEPT !.pushed = @ + 1,
                    !.acts = SubSeq(all, 1, IF Len(all) < MaxVisible THEN Len(all) ELSE MaxVisible)]

\* An update of a notification that is no longer there changes nothing.
Update(tab, id, status, text, about) ==
    [tab EXCEPT !.acts = [i \in DOMAIN @ |->
        IF @[i].id = id THEN [id |-> id, status |-> status, text |-> text, about |-> about] ELSE @[i]]]

Show(tab) == acts' = tab.acts /\ pushed' = tab.pushed /\ tracked' = tab.tracked

Track(tab, c, id) == [tab EXCEPT !.tracked[c] = id]

MayAct == pushed < MaxActs

\* The timer or the X: never for a running notification.
Dismiss ==
    /\ \E i \in DOMAIN acts : acts[i].status # "running" /\ acts' = RemoveAt(acts, i)
    /\ UNCHANGED <<server, list, polled, seen, pushed, tracked, calls, due, breaks>>

-----------------------------------------------------------------------------
(* Approving and rejecting (ReseedingPage.tsx, hooks/reviews.ts).           *)

\* useApproveReview.mutate: the notification comes first.
Approve(r) ==
    /\ calls[r] = NoCall /\ MayAct
    /\ Show(Push(Tab, "running", "approving", r))
    /\ calls' = [calls EXCEPT ![r] = [act |-> pushed + 1, reply |-> "sent", check |-> 0]]
    /\ UNCHANGED <<server, list, polled, seen, due, breaks>>

\* ReviewRow: the button is off while the row is verifying or a request is pending.
ClickApprove(r) == list[r] \notin {"absent", "verifying"} /\ Approve(r)

\* The sheet of a title lists its reviews from a query of its own, which may lag behind
\* (bound: one request in flight for a review).
ApproveInSheet(r) == Approve(r)

\* The next check is started for r and the row is marked.
StartCheck(r, c) ==
    /\ rows[r].verify # "verifying"
    /\ checks[c].state = "unused" /\ \A b \in Checks : b < c => checks[b].state # "unused"
    /\ checks' = [checks EXCEPT ![c] = [review |-> r, state |-> "active", listed |-> TRUE]]
    /\ rows' = [rows EXCEPT ![r].verify = "verifying", ![r].check = c]

Answer(r, reply, c) == calls' = [calls EXCEPT ![r].reply = reply, ![r].check = c]

\* What one more execution may leave as the job of r; data already handed to
\* the client are not handed again.
Executions(r) == IF jobs[r] \in {"none", "failed"} THEN {"in_progress", "failed"} ELSE {}

\* request_approval: a check, or 409, or (verification off) approval at once.
ServeApprove(r) ==
    /\ calls[r].reply = "sent"
    /\ \/ \E c \in Checks : StartCheck(r, c) /\ Answer(r, "verifying", c) /\ UNCHANGED jobs
       \/ rows[r].verify = "verifying" /\ Answer(r, "error", 0) /\ UNCHANGED server
       \/ /\ rows' = [rows EXCEPT ![r].status = "approved"]
          /\ \E j \in {jobs[r]} \union Executions(r) :
                jobs' = [jobs EXCEPT ![r] = j] /\ Answer(r, j, 0)
          /\ UNCHANGED checks
    /\ UNCHANGED <<list, polled, seen, stack, due, breaks>>

\* useApproveReview: what the answer makes of the notification pushed at the click.
Settled(r, call) ==
    CASE call.reply = "verifying" ->
            Track(Update(Tab, call.act, "running", "verifying", r), call.check, call.act)
      [] call.reply = "error"       -> Update(Tab, call.act, "error", "not approved", r)
      [] call.reply = "failed"      -> Update(Tab, call.act, "error", "exec_failed", r)
      [] call.reply \in {"in_progress", "seeding"} -> Update(Tab, call.act, "success", "added", r)
      [] call.reply = "none"        -> Update(Tab, call.act, "info", "no_client", r)

Answered(r) == calls[r] # NoCall /\ calls[r].reply # "sent"

Reply(r) ==
    /\ Answered(r)
    /\ Show(Settled(r, calls[r]))
    /\ due' = (due \/ calls[r].reply # "error")
    /\ calls' = [calls EXCEPT ![r] = NoCall]
    /\ UNCHANGED <<server, list, polled, seen, breaks>>

\* The same request from another tab.
ElsewhereApprove(r) ==
    /\ \E c \in Checks : StartCheck(r, c)
    /\ UNCHANGED <<jobs, list, polled, seen, stack, calls, due, breaks>>

\* The reject button is always on, also while the row is verifying.
ClickReject(r) ==
    /\ list[r] # "absent" /\ MayAct
    /\ rows' = [rows EXCEPT ![r].status = "rejected"]
    /\ Show(Push(Tab, "info", "rejected", r))
    /\ due' = TRUE
    /\ UNCHANGED <<checks, jobs, list, polled, seen, calls, breaks>>

-----------------------------------------------------------------------------
(* The server's own steps.                                                  *)

\* A check ends with outcome o; _after_verification decides about the row.
WorkerEnds(c, o) ==
    LET r == checks[c].review
        passed == o \notin {"cancelled", "failed", "refuted"}
        ready == rows[r].status = "pending"
    IN  /\ checks[c].state = "active"
        /\ passed => ((o = "skipped") <=> ~ready)
        /\ checks' = [checks EXCEPT ![c].state = o]
        /\ rows' = [rows EXCEPT
              ![r].verify = IF passed THEN "passed" ELSE IF o = "cancelled" THEN "none" ELSE "failed",
              ![r].status = IF passed /\ ready THEN "approved" ELSE @]
        /\ jobs' = [jobs EXCEPT ![r] = IF o = "added" THEN "in_progress"
                                       ELSE IF o = "exec_failed" THEN "failed" ELSE @]
        /\ UNCHANGED <<list, polled, seen, stack, calls, due, breaks>>

\* A recheck ends; some reconciliation records it.
RecheckEnds(r) ==
    /\ jobs[r] = "in_progress"
    /\ \E s \in {"seeding", "failed"} : jobs' = [jobs EXCEPT ![r] = s]
    /\ UNCHANGED <<rows, checks, list, polled, seen, stack, calls, due, breaks>>

\* Beyond MaxKept checks the finished ones go.
Evict(c) ==
    /\ Cardinality({b \in Checks : checks[b].listed}) > MaxKept
    /\ checks[c].state \in Outcomes /\ checks[c].listed
    /\ checks' = [checks EXCEPT ![c].listed = FALSE]
    /\ UNCHANGED <<rows, jobs, list, polled, seen, stack, calls, due, breaks>>

\* Checks live in memory; start-up puts the reviews they were for back as they were.
Restart ==
    /\ breaks < MaxBreaks /\ breaks' = breaks + 1
    /\ checks' = [c \in Checks |-> [checks[c] EXCEPT
            !.listed = FALSE, !.state = IF @ = "active" THEN "lost" ELSE @]]
    /\ rows' = [r \in Reviews |-> IF rows[r].verify = "verifying"
                                  THEN [rows[r] EXCEPT !.verify = "none", !.check = 0] ELSE rows[r]]
    /\ UNCHANGED <<jobs, list, polled, seen, stack, calls, due>>

-----------------------------------------------------------------------------
(* What the tab asks for again and again.                                   *)

ListedReviews ==
    [r \in Reviews |-> IF rows[r].status = "pending" THEN rows[r].verify ELSE "absent"]

\* GET /api/reviews: after an invalidation, or when the window gets the focus.
RefetchList == list' = ListedReviews /\ due' = FALSE
               /\ UNCHANGED <<server, polled, seen, stack, calls, breaks>>

ListedChecks == [c \in Checks |-> IF checks[c].listed THEN checks[c].state ELSE "unused"]

\* Mutant: the check is untracked before its notification is looked up.
WatchedLate(tab, c, state) ==
    LET id == tab.tracked[c]
        about == checks[c].review
    IN  IF isActive(state)
        THEN IF id = 0 THEN Track(Push(tab, "running", "verifying", about), c, tab.pushed + 1)
             ELSE Update(tab, id, "running", "verifying", about)
        ELSE Update(Track(tab, c, 0), 0, FinalStatus[state], state, about)

\* The watcher's turn for one check of the answer.
Watched(tab, c, state) ==
    LET about == checks[c].review
        adopted == IF tab.tracked[c] = 0 /\ isActive(state)
                   THEN Track(Push(tab, "running", "verifying", about), c, tab.pushed + 1) ELSE tab
        id == adopted.tracked[c]
    IN  IF id = 0 THEN tab
        ELSE IF isActive(state) THEN Update(adopted, id, "running", "verifying", about)
        ELSE Track(Update(adopted, id, FinalStatus[state], state, about), c, 0)

\* The watcher over the answer of the server, which has the newest check first.
WatchedInTurn(now) ==
    LET after[n \in 0 .. MaxChecks] ==
            IF n = 0 THEN Tab
            ELSE LET c == MaxChecks + 1 - n
                 IN  IF now[c] = "unused" THEN after[n - 1] ELSE Watched(after[n - 1], c, now[c])
    IN  after[MaxChecks]

\* Mutant: nothing is invalidated when a check has ended.
PollChecksQuiet ==
    LET now == ListedChecks
    IN  /\ now # polled
        /\ polled' = now
        /\ Show(WatchedInTurn(now))
        /\ UNCHANGED <<server, list, seen, calls, due, breaks>>

\* useVerificationWatcher: runs over the answer when it differs.
PollChecks ==
    LET now == ListedChecks
        tab == WatchedInTurn(now)
    IN  /\ now # polled
        /\ polled' = now
        /\ Show(tab)
        /\ due' = (due \/ \E c \in Checks : tracked[c] # 0 /\ tab.tracked[c] = 0)
        /\ UNCHANGED <<server, list, seen, calls, breaks>>

\* Mutant: only good news.
AnnouncedSeeding(r) == seen[r] = "in_progress" /\ jobs[r] = "seeding"

Announced(r) == seen[r] = "in_progress" /\ jobs[r] \in {"seeding", "failed"}

\* The watcher over the latest executions, in some order.
AnnouncedInTurn ==
    LET latest == SetToSeq(Reviews)
        after[n \in 0 .. Cardinality(Reviews)] ==
            IF n = 0 THEN Tab
            ELSE LET r == latest[n]
                 IN  IF ~Announced(r) THEN after[n - 1]
                     ELSE IF jobs[r] = "seeding"
                     THEN Push(after[n - 1], "success", "seeding", r)
                     ELSE Push(after[n - 1], "error", "recheck failed", r)
    IN  after[Cardinality(Reviews)]

\* useSeedJobWatcher: nothing is said of what the first answer holds.
PollJobs ==
    /\ seen # jobs
    /\ seen' = jobs
    /\ Show(AnnouncedInTurn)
    /\ UNCHANGED <<server, list, polled, calls, due, breaks>>

\* ExecutionRow: the retry of an execution shown as failed asks the client to check
\* again; the answer invalidates the lists.  What it says is a toast, not one of acts
\* (bound: MayAct, as the recheck will be announced by one of them).
ClickRetry(r) ==
    /\ MayAct /\ seen[r] = "failed" /\ jobs[r] = "failed"
    /\ jobs' = [jobs EXCEPT ![r] = "in_progress"]
    /\ due' = TRUE
    /\ UNCHANGED <<rows, checks, list, polled, seen, stack, calls, breaks>>

\* The page is loaded again: all of the tab's memory is new.
Reload ==
    /\ breaks < MaxBreaks /\ breaks' = breaks + 1
    /\ list' = ListedReviews /\ due' = FALSE
    /\ polled' = [c \in Checks |-> "unused"] /\ seen' = Unloaded
    /\ acts' = <<>> /\ pushed' = 0 /\ tracked' = [c \in Checks |-> 0]
    /\ calls' = [r \in Reviews |-> NoCall]
    /\ UNCHANGED server

Next ==
    \/ \E r \in Reviews : ClickApprove(r) \/ ApproveInSheet(r) \/ ServeApprove(r) \/ Reply(r) \/ ElsewhereApprove(r)
                          \/ ClickReject(r) \/ RecheckEnds(r) \/ ClickRetry(r)
    \/ \E c \in Checks : Evict(c) \/ \E o \in Outcomes : WorkerEnds(c, o)
    \/ Dismiss \/ Restart \/ Reload
    \/ RefetchList \/ PollChecks \/ PollJobs

\* The worker ends its checks, the network answers, the open tab polls and
\* fetches what was invalidated.  Users, rechecks and evictions promise nothing.
Fairness ==
    /\ \A c \in Checks : WF_vars(\E o \in Outcomes : WorkerEnds(c, o))
    /\ \A r \in Reviews : WF_vars(ServeApprove(r)) /\ WF_vars(Reply(r))
    /\ WF_vars(PollChecks) /\ WF_vars(PollJobs) /\ WF_vars(due /\ RefetchList)

Spec == Init /\ [][Next]_vars /\ Fairness

-----------------------------------------------------------------------------
Told(text, r) == \E i \in DOMAIN acts : acts[i].text = text /\ acts[i].about = r

\* A check the tab follows is told with its own outcome, unless the notification
\* was pushed out by newer ones (or the page loaded again), another one follows
\* the check now, or the server no longer has it (ActivityStack.tsx: "avanzamento nella notifica, poi
\* l'esito").
Numbers == 1 .. MaxActs + MaxChecks
Followed(c, n) == tracked[c] = n /\ polled[c] \notin Outcomes
FollowedEnds(c, n) ==
    \/ Told(checks[c].state, checks[c].review)
    \/ pushed \notin n .. n + MaxVisible - 1
    \/ tracked[c] \notin {0, n}
    \/ ~checks[c].listed
FollowedIsTold == \A c \in Checks : \A n \in Numbers : Followed(c, n) ~> FollowedEnds(c, n)

\* A recheck the tab saw going on and that has ended is announced by its watcher
\* (or was started again meanwhile, or the page was loaded again).
SettledUnseen(r) == seen[r] = "in_progress" /\ jobs[r] # "in_progress"
SettledEnds(r) ==
    \/ Told("seeding", r) \/ Told("recheck failed", r)
    \/ jobs[r] = "in_progress" \/ seen = Unloaded
SettledIsTold == \A r \in Reviews : SettledUnseen(r) ~> SettledEnds(r)

\* A row shown as being verified, whose check the tab follows, does not stay so
\* when the check has ended: its Approve button would stay off.
EndUnseen(c, r) ==
    /\ tracked[c] # 0 /\ isActive(polled[c])
    /\ checks[c].state \in Outcomes /\ checks[c].review = r
RowEnds(c, r) ==
    \/ list[r] # "verifying"
    \/ rows[r].verify = "verifying"
    \/ ~checks[c].listed
ListFollows == \A c \in Checks : \A r \in Reviews : EndUnseen(c, r) ~> RowEnds(c, r)

\* A running notification ends: the reply of an approval and the watcher's poll
\* may both adopt one check, and the one that loses is updated by nobody.
RunningEnds ==
    \A n \in Numbers :
        (\E i \in DOMAIN acts : acts[i].id = n /\ acts[i].status = "running") ~>
            ~(\E i \in DOMAIN acts : acts[i].id = n /\ acts[i].status = "running")
=============================================================================
