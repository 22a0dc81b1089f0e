--------------------------------- MODULE Runs ---------------------------------
(***************************************************************************)
(* app/pipeline.py, run_progress.py, scheduler.py and api/runs.py: the     *)
(* runs.  A run is a row of run_log and a thread that goes through the     *)
(* phases; it is started from the interface or by the schedule, any number *)
(* at a time.  The user may ask for a stop, which the thread sees when it  *)
(* next commits its progress.  The process may be restarted.  Between runs *)
(* the scheduler asks the client about the jobs in progress, which a run   *)
(* does itself in its last phase.                                          *)
(***************************************************************************)
EXTENDS Naturals

CONSTANTS
    Jobs,         \* seed_job rows an execution may leave in progress
    MaxRuns,      \* bound: rows of run_log
    MaxCrashes    \* bound: process restarts

ASSUME RunsAssumption == MaxRuns \in Nat /\ MaxCrashes \in Nat

VARIABLES
    log,     \* the run_log table
    thread,  \* where the thread of each run is, and how its work has ended
    asking,  \* the stop requests that have found their run open
    unasked, \* jobs in progress the client has not been asked about yet
    lost,    \* history: runs whose thread died of an error that nothing catches
    undone,  \* history: runs whose end was rolled back with their figures
    crashes  \* how often the process has restarted

vars == <<log, thread, asking, unasked, lost, undone, crashes>>

-----------------------------------------------------------------------------
RunIds == 1 .. MaxRuns

Phases == {"scanning", "resolving", "indexing", "matching", "executing", "reconciling"}

\* What a thread does next: run_bulk_import's phases, in its order.
After == [waiting |-> "scanning", scanning |-> "resolving", resolving |-> "indexing",
          indexing |-> "matching", matching |-> "executing", executing |-> "reconciling",
          reconciling |-> "finish"]

\* How a run ended, as last_error says.
Ends == {"whole", "stopped", "broken", "interrupted"}

TypeOK ==
    /\ log \in [RunIds -> [state: {"none", "open", "closed"}, type: {"bulk_import", "scheduled"},
                           phase: Phases \union {"none"}, stop: BOOLEAN, ended: Ends]]
    /\ thread \in [RunIds -> [pc: DOMAIN After \union {"none", "finish", "close"}, how: Ends]]
    /\ asking \subseteq RunIds /\ unasked \subseteq Jobs
    /\ lost \subseteq RunIds /\ undone \subseteq RunIds
    /\ crashes \in 0 .. MaxCrashes

NoRun == [state |-> "none", type |-> "bulk_import", phase |-> "none", stop |-> FALSE,
          ended |-> "whole"]

NoThread == [pc |-> "none", how |-> "whole"]

Init ==
    /\ log = [r \in RunIds |-> NoRun]
    /\ thread = [r \in RunIds |-> NoThread]
    /\ asking = {} /\ unasked = {} /\ lost = {} /\ undone = {}
    /\ crashes = 0

IsOpen(r) == log[r].state = "open" \* finished_at is null
Alive(r) == thread[r].pc # "none"
Goes(r, pc, how) == thread' = [thread EXCEPT ![r] = [pc |-> pc, how |-> how]]

-----------------------------------------------------------------------------
(* The thread of a run                                                     *)

\* start_run: rows are numbered in order.  APScheduler does not start the
\* scheduled run while the last one is under way (external: max_instances);
\* nothing limits the runs started by hand.
Start(r, type) ==
    /\ \A q \in RunIds : (log[q].state = "none") <=> (q >= r)
    /\ type = "scheduled" => \A q \in RunIds : Alive(q) => log[q].type # "scheduled"
    /\ log' = [log EXCEPT ![r] = [NoRun EXCEPT !.state = "open", !.type = type,
                                               !.phase = "scanning"]]
    /\ Goes(r, "waiting", "whole")
    /\ UNCHANGED <<asking, unasked, lost, undone, crashes>>

\* What a phase does to the jobs, be it to its end or not: executions leave jobs
\* in progress, the last phase asks about those it finds.
Work(pc) ==
    \/ pc = "executing" /\ \E new \in SUBSET Jobs : unasked' = unasked \union new
    \/ pc = "reconciling" /\ unasked' \in SUBSET unasked
    \/ pc \notin {"executing", "reconciling"} /\ UNCHANGED unasked

\* Mutant: start_phase does not look at the stop request.
AdvanceBlindly(r) ==
    /\ thread[r].pc \in DOMAIN After
    /\ Work(thread[r].pc)
    /\ IF After[thread[r].pc] = "finish"
       THEN UNCHANGED log
       ELSE log' = [log EXCEPT ![r].phase = After[thread[r].pc]]
    /\ Goes(r, After[thread[r].pc], "whole")
    /\ UNCHANGED <<asking, lost, undone, crashes>>

\* The work of a phase, its errors caught and recorded, then start_phase of
\* the next one: its name is committed, and then the stop request is read.
Advance(r) ==
    /\ thread[r].pc \in DOMAIN After
    /\ Work(thread[r].pc)
    /\ LET next == After[thread[r].pc] IN
       IF next = "finish"
       THEN UNCHANGED log /\ Goes(r, "finish", "whole")
       ELSE /\ log' = [log EXCEPT ![r].phase = next]
            /\ IF log[r].stop THEN Goes(r, "finish", "stopped") ELSE Goes(r, next, "whole")
    /\ UNCHANGED <<asking, lost, undone, crashes>>

\* The stop request is seen in the middle of a phase (_flush), or something
\* that no phase catches goes wrong.
Break(r) ==
    /\ thread[r].pc \in DOMAIN After
    /\ Work(thread[r].pc)
    /\ \/ thread[r].pc # "waiting" /\ log[r].stop /\ Goes(r, "finish", "stopped")
       \/ Goes(r, "finish", "broken")
    /\ UNCHANGED <<log, asking, lost, undone, crashes>>

\* Mutant: finish() looks at the stop request too, and the run is left there.
FinishChecked(r) ==
    /\ thread[r].pc = "finish"
    /\ log' = [log EXCEPT ![r].phase = "none", ![r].ended = thread[r].how]
    /\ IF log[r].stop THEN Goes(r, "none", "whole") ELSE Goes(r, "close", thread[r].how)
    /\ UNCHANGED <<asking, unasked, lost, undone, crashes>>

\* RunProgress.finish, which does not look at the stop request any more.
Finish(r) ==
    /\ thread[r].pc = "finish"
    /\ log' = [log EXCEPT ![r].phase = "none", ![r].ended = thread[r].how]
    /\ Goes(r, "close", thread[r].how)
    /\ UNCHANGED <<asking, unasked, lost, undone, crashes>>

\* The figures of the library are computed, and finished_at is committed.
Close(r) ==
    /\ thread[r].pc = "close"
    /\ log' = [log EXCEPT ![r].state = "closed"]
    /\ Goes(r, "none", "whole")
    /\ UNCHANGED <<asking, unasked, lost, undone, crashes>>

\* Computing the figures fails.  The error is caught and recorded, and before
\* that the session is rolled back, which takes finished_at back with what
\* else was not committed: the thread ends, and the row stays open.
Undo(r) ==
    /\ thread[r].pc = "close"
    /\ log' = [log EXCEPT ![r].ended = "broken"]
    /\ undone' = undone \union {r}
    /\ Goes(r, "none", "whole")
    /\ UNCHANGED <<asking, unasked, lost, crashes>>

\* Reading the run's row, or one of its two last commits, fails: run_bulk_import
\* catches what its phases throw, but not what comes before and after them.
Die(r) ==
    /\ thread[r].pc \in {"waiting", "finish", "close"}
    /\ lost' = lost \union {r}
    /\ Goes(r, "none", "whole")
    /\ UNCHANGED <<log, asking, unasked, undone, crashes>>

-----------------------------------------------------------------------------
(* Requests, the scheduler, restarts                                       *)

\* cancel_run finds the run open...
AskStop(r) ==
    /\ IsOpen(r) /\ ~log[r].stop
    /\ asking' = asking \union {r}
    /\ UNCHANGED <<log, thread, unasked, lost, undone, crashes>>

\* Mutant: cancel_run closes the run itself.
WriteStopAndClose(r) ==
    /\ r \in asking
    /\ log' = [log EXCEPT ![r].stop = TRUE, ![r].state = "closed", ![r].phase = "none"]
    /\ asking' = asking \ {r}
    /\ UNCHANGED <<thread, unasked, lost, undone, crashes>>

\* ... and writes its request.
WriteStop(r) ==
    /\ r \in asking
    /\ log' = [log EXCEPT ![r].stop = TRUE]
    /\ asking' = asking \ {r}
    /\ UNCHANGED <<thread, unasked, lost, undone, crashes>>

\* An approval from the interface leaves a job in progress.
Approve(j) ==
    /\ unasked' = unasked \union {j}
    /\ UNCHANGED <<log, thread, asking, lost, undone, crashes>>

\* Mutant: a run must have been completed first.
AskBetweenFinished ==
    /\ \A r \in RunIds : ~IsOpen(r)
    /\ \E r \in RunIds : log[r].state = "closed"
    /\ unasked # {}
    /\ unasked' = {}
    /\ UNCHANGED <<log, thread, asking, lost, undone, crashes>>

\* _reconcile_between_runs, and the same asked for from the interface.
AskBetweenRuns ==
    /\ \A r \in RunIds : ~IsOpen(r)
    /\ unasked # {}
    /\ unasked' = {}
    /\ UNCHANGED <<log, thread, asking, lost, undone, crashes>>

\* Mutant: only runs that were in a phase are found interrupted.
ClosedInPhase(r) ==
    IF IsOpen(r) /\ log[r].phase # "none"
    THEN [log[r] EXCEPT !.state = "closed", !.phase = "none", !.ended = "interrupted"]
    ELSE log[r]

\* Mutant: the phase is replaced by its default in the message.
ClosedAtStart(r) ==
    IF IsOpen(r)
    THEN [log[r] EXCEPT !.state = "closed", !.phase = IF @ = "none" THEN "start" ELSE "none",
                        !.ended = "interrupted"]
    ELSE log[r]

\* close_interrupted_runs: a row as it is after the start of the process.
Closed(r) ==
    IF IsOpen(r)
    THEN [log[r] EXCEPT !.state = "closed", !.phase = "none", !.ended = "interrupted"]
    ELSE log[r]

Restart ==
    /\ crashes < MaxCrashes
    /\ crashes' = crashes + 1
    /\ log' = [r \in RunIds |-> Closed(r)]
    /\ thread' = [r \in RunIds |-> NoThread]
    /\ asking' = {}
    /\ UNCHANGED <<unasked, lost, undone>>

-----------------------------------------------------------------------------
Step(r) == Advance(r) \/ Finish(r) \/ Close(r) \/ Undo(r)

Next ==
    \/ \E r \in RunIds :
          \/ \E type \in {"bulk_import", "scheduled"} : Start(r, type)
          \/ Step(r) \/ Break(r) \/ Die(r)
          \/ AskStop(r) \/ WriteStop(r)
    \/ \E j \in Jobs : Approve(j)
    \/ AskBetweenRuns
    \/ Restart

Spec == Init /\ [][Next]_vars

\* A phase ends (its requests have timeouts), and the scheduler keeps asking.
Fairness == (\A r \in RunIds : WF_vars(Step(r))) /\ WF_vars(AskBetweenRuns)

FairSpec == Spec /\ Fairness

-----------------------------------------------------------------------------
(* Properties                                                              *)

\* A run that is shown in progress has a thread: errors of the phases, stop
\* requests and restarts, in any order, leave none open for ever.  What does is
\* an error before the first phase or after the last that nothing catches, and
\* one in the figures at the end, which is caught.  (An open run also keeps
\* the scheduler from asking the client, and "Search now" from searching.)
OnlyLastStepsHang == \A r \in RunIds : IsOpen(r) => Alive(r) \/ r \in lost \union undone

\* pipeline.py:417, an error that a phase lets through "non deve comunque
\* lasciare la run agganciata per sempre": an error that is caught does not
\* leave the run open without a thread.
CaughtErrorsEndRuns == \A r \in RunIds : IsOpen(r) => Alive(r) \/ r \in lost

\* What is shown as finished is finished: nothing is written any more about
\* its phase, and it does not open again.
ClosedIsFinal ==
    [][\A r \in RunIds : log[r].state = "closed"
           => log'[r].state = "closed" /\ log'[r].phase = "none" /\ ~Alive(r)']_vars

\* A run that is asked to stop does not start the work of another phase, be
\* it asked while its thread has not even begun.
NothingAfterStop ==
    [][\A r \in RunIds : log[r].stop /\ thread'[r] # thread[r]
           => thread'[r].pc \notin DOMAIN After]_vars

\* Every run ends, with or without a stop request, unless such an error hits
\* it, and then the next restart ends it.
RunsEnd == \A r \in RunIds : IsOpen(r) ~> ~IsOpen(r) \/ r \in lost \union undone

\* The client is asked about every job in progress, however runs come and go,
\* fail, are stopped and are interrupted, unless such an error has left a run
\* open, which then keeps the scheduler from asking.
JobsAsked ==
    \A j \in Jobs : j \in unasked ~>
        j \notin unasked \/ \E r \in lost \union undone : IsOpen(r)

\* api/runs.py, "cancelled: ... finita perche' fermata dall'utente": what is
\* shown as cancelled was stopped by the user's request.
CancelledWasStopped ==
    \A r \in RunIds : log[r].state = "closed" /\ log[r].stop => log[r].ended = "stopped"
=============================================================================
