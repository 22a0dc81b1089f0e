------------------------------- MODULE RunSteps -------------------------------
(***************************************************************************)
(* The steps of a run as the indicator shows them.  The worker keeps its   *)
(* progress in memory (RunProgress) and writes it to the row of the run    *)
(* with what else its session commits: some counts reach the row before    *)
(* the steps they belong to, or are undone by a rollback and written       *)
(* later.  The tab reads the row now and then (lib/run-progress.ts).       *)
(***************************************************************************)
EXTENDS Naturals, Sequences, Folds, Functions

CONSTANTS
    MaxItems, \* bound: elements of a run
    MaxBreaks \* bound: rollbacks and restarts

VARIABLES
    memory,  \* worker: RunProgress._phases
    at,      \* worker: the phase it is in, 0 before the first; Over, then Dead
    stopped, \* worker: a flush has seen the request to stop (RunCancelled)
    wrote,   \* worker: the row as its session has it, not committed yet
    row,     \* server: run_log
    asked,   \* server: cancel_requested_at is set
    run,     \* tab: the run as last read
    breaks

vars == <<memory, at, stopped, wrote, row, asked, run, breaks>>

PHASES == <<"scanning", "resolving", "indexing", "matching", "executing", "reconciling">>
Phases == DOMAIN PHASES
Over == Len(PHASES) + 1 \* finish() was called
Dead == Over + 1        \* the run is over, or its process died

Progress == [status : {"absent", "running", "done"}, done : Nat]
Row == [phases : [Phases -> Progress], current_phase : 0 .. Len(PHASES),
        phase_done : Nat, finished_at : BOOLEAN]

TypeOK ==
    /\ memory \in [Phases -> Progress] /\ at \in 0 .. Dead
    /\ {wrote, row, run} \subseteq Row
    /\ {asked, stopped} \subseteq BOOLEAN /\ breaks \in 0 .. MaxBreaks

\* start_run: the row names the first phase, which has not begun.
Init ==
    /\ memory = [i \in Phases |-> [status |-> "absent", done |-> 0]]
    /\ at = 0 /\ asked = FALSE /\ stopped = FALSE /\ breaks = 0
    /\ row = [phases |-> memory, current_phase |-> 1, phase_done |-> 0, finished_at |-> FALSE]
    /\ wrote = row /\ run = row

-----------------------------------------------------------------------------
(* The worker.                                                              *)

Counted == FoldFunction(LAMBDA p, n : p.done + n, 0, memory)

Break == breaks < MaxBreaks /\ breaks' = breaks + 1

close_current == IF at \in Phases THEN [memory EXCEPT ![at].status = "done"] ELSE memory

Working == at < Over /\ ~stopped

\* _flush: the steps go to the row with all else that was written, and the run stops
\* there when it is asked to.
Flush(m, w, goes) ==
    /\ memory' = m /\ wrote' = [w EXCEPT !.phases = m] /\ row' = wrote' /\ at' = goes
    /\ stopped' = asked
    /\ UNCHANGED <<asked, run, breaks>>

\* The phases begin in this order, also one with nothing to do.
start_phase ==
    /\ Working /\ at < Len(PHASES)
    /\ Flush([close_current EXCEPT ![at + 1].status = "running"],
             [wrote EXCEPT !.current_phase = at + 1, !.phase_done = 0], at + 1)

\* An element is done; only some of the time the count is flushed.
advance(flush) ==
    /\ Working /\ at \in Phases /\ Counted < MaxItems
    /\ LET m == [memory EXCEPT ![at].done = @ + 1]
           w == [wrote EXCEPT !.phase_done = m[at].done]
       IN  IF flush THEN Flush(m, w, at)
           ELSE /\ memory' = m /\ wrote' = w /\ UNCHANGED <<at, stopped, row, asked, run, breaks>>

\* The work of the phases commits its session too ...
Commit ==
    /\ Working /\ wrote # row /\ row' = wrote
    /\ UNCHANGED <<memory, at, stopped, wrote, asked, run, breaks>>

\* ... and an element that fails rolls it back (_record_failure).
Rollback ==
    /\ Working /\ wrote # row /\ Break /\ wrote' = row
    /\ UNCHANGED <<memory, at, stopped, row, asked, run>>

\* finish: after the last phase, a stop, or an error outside the elements.
finish ==
    /\ at < Over
    /\ \/ (stopped \/ at = Len(PHASES)) /\ UNCHANGED breaks
       \/ ~stopped /\ at < Len(PHASES) /\ Break
    /\ memory' = close_current /\ at' = Over
    /\ wrote' = [row EXCEPT !.phases = memory', !.current_phase = 0, !.phase_done = 0]
    /\ row' = wrote' /\ UNCHANGED <<stopped, asked, run>>

\* finished_at is written later, with the figures of the library.
Finished ==
    /\ at = Over /\ at' = Dead
    /\ row' = [row EXCEPT !.finished_at = TRUE] /\ wrote' = row'
    /\ UNCHANGED <<memory, stopped, asked, run, breaks>>

\* A restart, and close_interrupted_runs: the steps stay as the row had them.
Restart ==
    /\ at < Dead /\ Break /\ at' = Dead
    /\ row' = [row EXCEPT !.finished_at = TRUE, !.current_phase = 0, !.phase_done = 0]
    /\ wrote' = row' /\ UNCHANGED <<memory, stopped, asked, run>>

\* POST /api/runs/{id}/cancel
cancel_run ==
    /\ ~row.finished_at /\ ~asked /\ asked' = TRUE
    /\ UNCHANGED <<memory, at, stopped, wrote, row, run, breaks>>

-----------------------------------------------------------------------------
(* The tab.                                                                 *)

useRuns ==
    /\ run # row /\ run' = row
    /\ UNCHANGED <<memory, at, stopped, wrote, row, asked, breaks>>

Next ==
    \/ start_phase \/ \E flush \in BOOLEAN : advance(flush)
    \/ Commit \/ Rollback \/ finish \/ Finished \/ Restart \/ cancel_run \/ useRuns

Spec == Init /\ [][Next]_vars

\* Mutant: a step is what its status says.
StepsByStatus(r) ==
    [i \in Phases |-> IF r.phases[i].status # "absent" THEN r.phases[i].status
                      ELSE IF r.finished_at THEN "skipped" ELSE "pending"]

\* A phase the row does not have is to come, or was skipped when the run is over; one
\* left running by a restart is done.
runSteps(r) ==
    [i \in Phases |-> IF r.phases[i].status = "absent"
                      THEN IF r.finished_at THEN "skipped" ELSE "pending"
                      ELSE IF r.finished_at THEN "done" ELSE r.phases[i].status]

\* The line of the closed indicator names a phase, or says that the run starts (0);
\* the Status of the history goes by it too.
compactLine(r) == r.current_phase

Rank(state) == CASE state \in {"pending", "skipped"} -> 0 [] state = "running" -> 1 [] OTHER -> 2

\* The steps tell what the worker does: done up to one that runs, which the line names
\* from the first phase to finish(), then to come; over, none runs or is to come; the
\* line counts no element that was not done, and a step counts all of its own once it is
\* closed, whatever commit or rollback came between its counts.
Told(r) ==
    LET s == runSteps(r)
        running == {i \in Phases : s[i] = "running"}
        begun == \E i \in Phases : r.phases[i].status # "absent"
    IN  /\ \A i, j \in Phases : i < j => Rank(s[i]) >= Rank(s[j])
        /\ r.finished_at => \A i \in Phases : s[i] \in {"done", "skipped"}
        /\ begun => running = {r.current_phase} \ {0}
        /\ r.current_phase # 0 => r.phase_done <= memory[r.current_phase].done
        /\ \A i \in Phases : r.phases[i].status = "done" => r.phases[i].done = memory[i].done

\* No step goes back, or counts less than it did, from one read to the next.
NeverBack ==
    \A i \in Phases : /\ Rank(runSteps(run)[i]) <= Rank(runSteps(run')[i])
                      /\ run.phases[i].done <= run'.phases[i].done

\* What the indicator of a run in progress, and its summary, say of the steps is true of
\* the worker, through stops, errors, rollbacks and restarts.
StepsTold == []Told(run) /\ [][NeverBack]_vars
=============================================================================
