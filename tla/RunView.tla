------------------------------- MODULE RunView -------------------------------
(***************************************************************************)
(* The runs as one browser tab shows them: the list it polls only while    *)
(* one of them is in progress, the indicator that follows the latest run   *)
(* and sums it up when it ends, the button that starts or stops one.       *)
(***************************************************************************)
EXTENDS Naturals, FiniteSets

CONSTANTS
    MaxRuns,   \* bound: rows of run_log
    MaxFocus   \* bound: reads of the list for another reason than the interval

VARIABLES
    runs,     \* server: [1 .. MaxRuns -> state of the run], "none" for the rows to come
    polled,   \* tab: the cached list
    read,     \* tab: the read in flight: a list, or Idle or Asked
    trigger,  \* tab: "Run now": idle, sent or answered
    stop,     \* tab: the run whose cancellation is in flight, 0 for none
    was,      \* tab: wasActiveRef
    ran,      \* tab: what the indicator's effect last ran with
    flash,    \* tab: completedFlash, 0 for none
    timer,    \* tab: the timer that removes it is set
    breaks

vars == <<runs, polled, read, trigger, stop, was, ran, flash, timer, breaks>>

Rows == 1 .. MaxRuns
InProgress == {"active", "stopping"}
Finished == {"done", "cancelled"}
Lists == [Rows -> {"none"} \union InProgress \union Finished]
NoRuns == [i \in Rows |-> "none"]
Idle == [i \in Rows |-> "idle"]
Asked == [i \in Rows |-> "asked"]
Unread == [i \in Rows |-> "unread"]

\* The latest run of a list: the list comes newest first.
latestRun(list) ==
    CHOOSE i \in 0 .. MaxRuns :
        /\ i # 0 => list[i] \in InProgress \union Finished
        /\ \A j \in Rows : list[j] \in InProgress \union Finished => j <= i

StateOfLatest(list) == IF latestRun(list) = 0 THEN "none" ELSE list[latestRun(list)]
isActive(list) == StateOfLatest(list) \in InProgress

\* What the effect depends on.
Deps(list) == <<latestRun(list), StateOfLatest(list)>>

TypeOK ==
    /\ runs \in Lists /\ polled \in Lists \union {Unread} /\ read \in Lists \union {Idle, Asked}
    /\ trigger \in {"idle", "sent", "answered"} /\ stop \in 0 .. MaxRuns
    /\ was \in BOOLEAN /\ timer \in BOOLEAN
    /\ ran \in (0 .. MaxRuns) \X ({"none"} \union InProgress \union Finished)
    /\ flash \in 0 .. MaxRuns /\ breaks \in 0 .. MaxFocus

\* A tab that is opened: nothing read, whatever the server is doing.
Init ==
    /\ runs \in {NoRuns} \union {[NoRuns EXCEPT ![1] = s] : s \in {"active", "done"}}
    /\ polled = Unread /\ read = Asked
    /\ trigger = "idle" /\ stop = 0
    /\ was = FALSE /\ ran = Deps(NoRuns) /\ flash = 0 /\ timer = FALSE /\ breaks = 0

-----------------------------------------------------------------------------
(* The server.                                                              *)

Begin(list) == [list EXCEPT ![latestRun(list) + 1] = "active"]

\* _run_scheduled, which looks at no other run either.
Scheduled ==
    /\ latestRun(runs) < MaxRuns
    /\ runs' = Begin(runs)
    /\ UNCHANGED <<polled, read, trigger, stop, was, ran, flash, timer, breaks>>

\* POST /api/runs, which starts one beside those in progress.
ServeTrigger ==
    /\ trigger = "sent" /\ latestRun(runs) < MaxRuns
    /\ runs' = Begin(runs) /\ trigger' = "answered"
    /\ UNCHANGED <<polled, read, stop, was, ran, flash, timer, breaks>>

RunEnds(i) ==
    /\ runs[i] \in InProgress
    /\ runs' = [runs EXCEPT ![i] = IF runs[i] = "active" THEN "done" ELSE "cancelled"]
    /\ UNCHANGED <<polled, read, trigger, stop, was, ran, flash, timer, breaks>>

\* invalidateQueries: a read in flight is dropped for another, except the very first.
Again == IF polled = Unread /\ read # Idle THEN read ELSE Asked

\* POST /api/runs/{id}/cancel, a 409 for a run that has finished; the hook then reads
\* the list again, except after an error.
ServeStop ==
    /\ stop # 0 /\ stop' = 0
    /\ runs' = IF runs[stop] \in InProgress THEN [runs EXCEPT ![stop] = "stopping"] ELSE runs
    /\ read' = IF runs[stop] \in InProgress THEN Again ELSE read
    /\ UNCHANGED <<polled, trigger, was, ran, flash, timer, breaks>>

-----------------------------------------------------------------------------
(* The list.                                                                *)

\* Polled every three seconds while a run of the cached list is in progress.
nextRunsRefetchInterval(list) == \E i \in Rows : list[i] \in InProgress

Poll ==
    /\ read = Idle /\ nextRunsRefetchInterval(polled) /\ read' = Asked
    /\ UNCHANGED <<runs, polled, trigger, stop, was, ran, flash, timer, breaks>>

\* The window gets the focus, or a page that uses the list is opened.
Focus ==
    /\ read = Idle /\ breaks < MaxFocus /\ breaks' = breaks + 1 /\ read' = Asked
    /\ UNCHANGED <<runs, polled, trigger, stop, was, ran, flash, timer>>

AnswerRead ==
    /\ read = Asked /\ read' = runs
    /\ UNCHANGED <<runs, polled, trigger, stop, was, ran, flash, timer, breaks>>

DeliverRead ==
    /\ read \in Lists /\ polled' = read /\ read' = Idle
    /\ UNCHANGED <<runs, trigger, stop, was, ran, flash, timer, breaks>>

-----------------------------------------------------------------------------
(* The button and the indicator.                                            *)

\* The button stops the first run in progress of the cached list, if there is one.
activeRun ==
    IF \E i \in Rows : polled[i] \in InProgress
    THEN CHOOSE i \in Rows : polled[i] \in InProgress /\ \A j \in Rows : j > i => polled[j] \notin InProgress
    ELSE 0

ClickRun ==
    /\ activeRun = 0 /\ trigger = "idle" /\ trigger' = "sent"
    /\ UNCHANGED <<runs, polled, read, stop, was, ran, flash, timer, breaks>>

\* useTriggerRun.onSuccess.
TriggerDone ==
    /\ trigger = "answered" /\ trigger' = "idle" /\ read' = Again
    /\ UNCHANGED <<runs, polled, stop, was, ran, flash, timer, breaks>>

ClickStop ==
    /\ activeRun # 0 /\ polled[activeRun] # "stopping" /\ stop = 0
    /\ stop' = activeRun
    /\ UNCHANGED <<runs, polled, read, trigger, was, ran, flash, timer, breaks>>

\* The indicator's effect, whenever the latest run has changed: the timer set before
\* is cleared, and another set only at the end of a run seen in progress.
Effect ==
    /\ ran # Deps(polled) /\ ran' = Deps(polled)
    /\ LET ended == ~isActive(polled) /\ was
       IN /\ was' = isActive(polled)
          /\ flash' = IF ended THEN latestRun(polled) ELSE flash
          /\ timer' = ended
    /\ UNCHANGED <<runs, polled, read, trigger, stop, breaks>>

\* The summary goes: its time is over, or it is closed.
FlashOver ==
    /\ timer /\ timer' = FALSE /\ flash' = 0
    /\ UNCHANGED <<runs, polled, read, trigger, stop, was, ran, breaks>>

Dismiss ==
    /\ flash # 0 /\ ~isActive(polled) /\ flash' = 0
    /\ UNCHANGED <<runs, polled, read, trigger, stop, was, ran, timer, breaks>>

Next ==
    \/ Scheduled \/ ServeTrigger \/ ServeStop \/ \E i \in Rows : RunEnds(i)
    \/ Poll \/ Focus \/ AnswerRead \/ DeliverRead
    \/ ClickRun \/ TriggerDone \/ ClickStop \/ Effect \/ FlashOver \/ Dismiss

\* The run ends, the interval fires, requests are answered, effects run; nobody has to
\* click or to look.
Fairness ==
    /\ WF_vars(\E i \in Rows : RunEnds(i)) /\ WF_vars(ServeStop) /\ WF_vars(ServeTrigger)
    /\ WF_vars(Poll) /\ WF_vars(AnswerRead) /\ WF_vars(DeliverRead)
    /\ WF_vars(TriggerDone) /\ WF_vars(Effect) /\ WF_vars(FlashOver)

Spec == Init /\ [][Next]_vars /\ Fairness

-----------------------------------------------------------------------------
\* A run that the indicator has shown in progress is summed up when it ends, unless a
\* newer run has taken its place: the list is polled for as long as it takes, whatever
\* the clicks on "Stop run" and the reads they cause.
ShownInProgress(i) == was /\ latestRun(polled) = i
SummedUp(i) == flash = i \/ latestRun(polled) > i
EndIsTold == \A i \in Rows : ShownInProgress(i) ~> SummedUp(i)
=============================================================================
