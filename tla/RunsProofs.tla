------------------------------ MODULE RunsProofs ------------------------------
(***************************************************************************)
(* Proofs about Runs, for any number of runs, jobs and restarts: no run is *)
(* left open by anything but an error in its first or last steps, what is  *)
(* closed stays as it is, and a run asked to stop starts no other phase.   *)
(***************************************************************************)
EXTENDS Runs, TLAPS

Rows == [state: {"none", "open", "closed"}, type: {"bulk_import", "scheduled"},
         phase: Phases \union {"none"}, stop: BOOLEAN, ended: Ends]

Places == [pc: DOMAIN After \union {"none", "finish", "close"}, how: Ends]

Typed ==
    /\ log \in [RunIds -> Rows]
    /\ thread \in [RunIds -> Places]
    /\ asking \subseteq RunIds /\ unasked \subseteq Jobs
    /\ lost \subseteq RunIds /\ undone \subseteq RunIds
    /\ crashes \in 0 .. MaxCrashes

LEMMA TypedIsTypeOK == Typed <=> TypeOK
  BY DEF Typed, TypeOK, Rows, Places

\* Only an open run has a thread, and it has one unless that was lost.
ThreadsOfOpenRuns ==
    /\ \A r \in RunIds : Alive(r) => IsOpen(r)
    /\ OnlyLastStepsHang

\* The name of the phase is removed before the run is closed.
PhaseGone ==
    \A r \in RunIds : log[r].state = "closed" \/ thread[r].pc = "close" => log[r].phase = "none"

\* A stop request is for a run that exists.
StopsOfRuns ==
    \A r \in RunIds : r \in asking \/ log[r].stop => log[r].state # "none"

Inv == Typed /\ ThreadsOfOpenRuns /\ PhaseGone /\ StopsOfRuns

USE DEF RunIds

LEMMA AfterDomain ==
    /\ DOMAIN After = Phases \union {"waiting"}
    /\ \A pc \in DOMAIN After : After[pc] \in Phases \union {"finish"}
  BY DEF After, Phases

LEMMA InitInv == Init => Inv
  BY RunsAssumption DEF Init, Inv, Typed, ThreadsOfOpenRuns, OnlyLastStepsHang, PhaseGone,
     StopsOfRuns, NoRun, NoThread, Rows, Places, Ends, IsOpen, Alive

LEMMA WorkTyped == ASSUME NEW pc, Typed, Work(pc) PROVE unasked' \subseteq Jobs
  BY DEF Work, Typed

\* What a step of one run must show of its row and its thread.
LEMMA OneRun ==
  ASSUME Inv, NEW r \in RunIds, NEW row \in Rows, NEW place \in Places,
         log' = [log EXCEPT ![r] = row], thread' = [thread EXCEPT ![r] = place],
         UNCHANGED <<lost, undone, crashes>>, asking' \subseteq asking, unasked' \subseteq Jobs,
         row.state # "none", row.state = "open" <=> place.pc # "none",
         row.state = "closed" \/ place.pc = "close" => row.phase = "none"
  PROVE  Inv'
<1>1. log' \in [RunIds -> Rows] /\ thread' \in [RunIds -> Places]
  BY DEF Inv, Typed
<1>2. /\ log'[r] = row /\ thread'[r] = place
      /\ \A q \in RunIds : q # r => log'[q] = log[q] /\ thread'[q] = thread[q]
  BY DEF Inv, Typed
<1>3. Typed'
  BY <1>1 DEF Inv, Typed
<1>4. ThreadsOfOpenRuns'
  BY <1>2 DEF Inv, ThreadsOfOpenRuns, OnlyLastStepsHang, IsOpen, Alive
<1>5. PhaseGone'
  BY <1>2 DEF Inv, PhaseGone
<1>6. StopsOfRuns'
  BY <1>2 DEF Inv, StopsOfRuns
<1> QED
  BY <1>3, <1>4, <1>5, <1>6 DEF Inv

\* A thread's next place, as a step of its run writes it.
LEMMA Place ==
  ASSUME NEW pc \in DOMAIN After \union {"none", "finish", "close"}, NEW how \in Ends
  PROVE  [pc |-> pc, how |-> how] \in Places
  BY DEF Places

LEMMA WorkingRun ==
  ASSUME Inv, NEW r \in RunIds, thread[r].pc # "none"
  PROVE  log[r] \in Rows /\ log[r].state = "open" /\ thread[r].how \in Ends
  BY DEF Inv, Typed, ThreadsOfOpenRuns, Alive, IsOpen, Places

LEMMA StartKeeps ==
  ASSUME Inv, NEW r \in RunIds, NEW type \in {"bulk_import", "scheduled"}, Start(r, type)
  PROVE  Inv'
<1> DEFINE row == [NoRun EXCEPT !.state = "open", !.type = type, !.phase = "scanning"]
           place == [pc |-> "waiting", how |-> "whole"]
<1>1. row \in Rows /\ row.state = "open"
  BY DEF NoRun, Rows, Phases, Ends
<1>2. place \in Places /\ place.pc = "waiting"
  BY AfterDomain, Place DEF Ends
<1>3. /\ log' = [log EXCEPT ![r] = row] /\ thread' = [thread EXCEPT ![r] = place]
      /\ UNCHANGED <<asking, unasked, lost, undone, crashes>>
  BY DEF Start, Goes
<1>4. unasked' \subseteq Jobs
  BY <1>3 DEF Inv, Typed
<1> HIDE DEF row, place
<1> QED
  BY <1>1, <1>2, <1>3, <1>4, OneRun

LEMMA AdvanceKeeps ==
  ASSUME Inv, NEW r \in RunIds, Advance(r)
  PROVE  Inv'
<1>1. PICK next : next = After[thread[r].pc]
  OBVIOUS
<1>2. thread[r].pc \in DOMAIN After /\ next \in Phases \union {"finish"}
  BY <1>1, AfterDomain DEF Advance
<1>3. unasked' \subseteq Jobs
  BY WorkTyped DEF Inv, Advance
<1>4. log[r] \in Rows /\ log[r].state = "open" /\ log \in [RunIds -> Rows]
  BY <1>2, AfterDomain, WorkingRun DEF Phases, Inv, Typed
<1>5. \E row \in Rows : log' = [log EXCEPT ![r] = row] /\ row.state = "open"
  <2>1. CASE next = "finish"
    BY <1>1, <1>4, <2>1 DEF Advance
  <2>2. CASE next # "finish"
    <3>1. log' = [log EXCEPT ![r] = [log[r] EXCEPT !.phase = next]]
      BY <1>1, <2>2 DEF Advance
    <3>2. [log[r] EXCEPT !.phase = next] \in Rows
      BY <1>2, <1>4, <2>2 DEF Rows
    <3>3. [log[r] EXCEPT !.phase = next].state = "open"
      BY <1>4 DEF Rows
    <3> QED
      BY <3>1, <3>2, <3>3
  <2> QED
    BY <2>1, <2>2
<1>6. \E place \in Places : /\ thread' = [thread EXCEPT ![r] = place]
                            /\ place.pc \notin {"none", "close"}
  <2>1. \E pc \in {"finish", next}, how \in Ends : Goes(r, pc, how)
    BY <1>1 DEF Advance, Ends
  <2>2. PICK pc \in {"finish", next}, how \in Ends : Goes(r, pc, how)
    BY <2>1
  <2>3. [pc |-> pc, how |-> how] \in Places /\ pc \notin {"none", "close"}
    BY <1>2, AfterDomain, Place DEF Phases
  <2> QED
    BY <2>2, <2>3 DEF Goes
<1>7. UNCHANGED <<asking, lost, undone, crashes>>
  BY DEF Advance
<1>8. PICK row \in Rows : log' = [log EXCEPT ![r] = row] /\ row.state = "open"
  BY <1>5
<1>9. PICK place \in Places : /\ thread' = [thread EXCEPT ![r] = place]
                             /\ place.pc \notin {"none", "close"}
  BY <1>6
<1> QED
  BY <1>3, <1>7, <1>8, <1>9, OneRun

LEMMA BreakKeeps ==
  ASSUME Inv, NEW r \in RunIds, Break(r)
  PROVE  Inv'
<1>1. unasked' \subseteq Jobs
  BY WorkTyped DEF Inv, Break
<1>2. log[r] \in Rows /\ log[r].state = "open"
  BY AfterDomain, WorkingRun DEF Break, Phases
<1>3. PICK how \in Ends : Goes(r, "finish", how)
  BY DEF Break, Ends
<1>4. [pc |-> "finish", how |-> how] \in Places
  BY Place
<1>5. PICK place \in Places : thread' = [thread EXCEPT ![r] = place] /\ place.pc = "finish"
  BY <1>3, <1>4 DEF Goes
<1>6. log' = [log EXCEPT ![r] = log[r]] /\ UNCHANGED <<asking, lost, undone, crashes>>
  BY DEF Break, Inv, Typed
<1> QED
  BY <1>1, <1>2, <1>5, <1>6, OneRun

LEMMA FinishKeeps ==
  ASSUME Inv, NEW r \in RunIds, Finish(r)
  PROVE  Inv'
<1> DEFINE row == [log[r] EXCEPT !.phase = "none", !.ended = thread[r].how]
           place == [pc |-> "close", how |-> thread[r].how]
<1>1. log[r] \in Rows /\ log[r].state = "open" /\ thread[r].how \in Ends
  BY WorkingRun DEF Finish
<1>2. row \in Rows /\ row.state = "open" /\ row.phase = "none"
  BY <1>1 DEF Rows
<1>3. place \in Places /\ place.pc = "close"
  BY <1>1, Place
<1>4. log \in [RunIds -> Rows] /\ unasked \subseteq Jobs
  BY DEF Inv, Typed
<1>5. /\ log' = [log EXCEPT ![r] = row] /\ thread' = [thread EXCEPT ![r] = place]
      /\ UNCHANGED <<asking, unasked, lost, undone, crashes>>
  BY <1>4 DEF Finish, Goes
<1> HIDE DEF row, place
<1> QED
  BY <1>2, <1>3, <1>4, <1>5, OneRun

LEMMA CloseKeeps ==
  ASSUME Inv, NEW r \in RunIds, Close(r)
  PROVE  Inv'
  BY DEF Inv, Typed, ThreadsOfOpenRuns, OnlyLastStepsHang, PhaseGone, StopsOfRuns, Close,
     Goes, Rows, Places, Ends, IsOpen, Alive, Phases

LEMMA UndoKeeps ==
  ASSUME Inv, NEW r \in RunIds, Undo(r)
  PROVE  Inv'
  BY DEF Inv, Typed, ThreadsOfOpenRuns, OnlyLastStepsHang, PhaseGone, StopsOfRuns, Undo,
     Goes, Rows, Places, Ends, IsOpen, Alive, Phases

LEMMA DieKeeps ==
  ASSUME Inv, NEW r \in RunIds, Die(r)
  PROVE  Inv'
  BY DEF Inv, Typed, ThreadsOfOpenRuns, OnlyLastStepsHang, PhaseGone, StopsOfRuns, Die,
     Goes, Rows, Places, Ends, IsOpen, Alive, Phases

LEMMA StopKeeps ==
  ASSUME Inv, NEW r \in RunIds, AskStop(r) \/ WriteStop(r)
  PROVE  Inv'
<1>1. CASE AskStop(r)
  BY <1>1 DEF Inv, Typed, ThreadsOfOpenRuns, OnlyLastStepsHang, PhaseGone, StopsOfRuns,
     AskStop, Rows, Places, IsOpen, Alive
<1>2. CASE WriteStop(r)
  <2>1. log[r] \in Rows /\ log[r].state # "none"
    BY <1>2 DEF WriteStop, Inv, Typed, StopsOfRuns
  <2>2. [log[r] EXCEPT !.stop = TRUE] \in Rows
    BY <2>1 DEF Rows
  <2>3. PICK row \in Rows : /\ log' = [log EXCEPT ![r] = row] /\ row.state = log[r].state
                           /\ row.phase = log[r].phase
    BY <1>2, <2>1, <2>2 DEF WriteStop, Rows
  <2>4. /\ log' \in [RunIds -> Rows] /\ log'[r] = row
        /\ \A q \in RunIds : q # r => log'[q] = log[q]
    BY <2>3 DEF Inv, Typed
  <2>5. UNCHANGED <<thread, unasked, lost, undone, crashes>> /\ asking' \subseteq asking
    BY <1>2 DEF WriteStop
  <2>6. Typed'
    BY <2>4, <2>5 DEF Inv, Typed
  <2>7. ThreadsOfOpenRuns'
    BY <2>3, <2>4, <2>5 DEF Inv, ThreadsOfOpenRuns, OnlyLastStepsHang, IsOpen, Alive
  <2>8. PhaseGone' /\ StopsOfRuns'
    BY <2>1, <2>3, <2>4, <2>5 DEF Inv, PhaseGone, StopsOfRuns
  <2> QED
    BY <2>6, <2>7, <2>8 DEF Inv
<1> QED
  BY <1>1, <1>2

LEMMA AskKeeps ==
  ASSUME Inv, AskBetweenRuns \/ \E j \in Jobs : Approve(j)
  PROVE  Inv'
  BY DEF Inv, Typed, ThreadsOfOpenRuns, OnlyLastStepsHang, PhaseGone, StopsOfRuns,
     AskBetweenRuns, Approve, IsOpen, Alive

LEMMA RestartKeeps ==
  ASSUME Inv, Restart
  PROVE  Inv'
<1>1. \A r \in RunIds : Closed(r) \in Rows /\ NoThread \in Places
  BY DEF Inv, Typed, Closed, IsOpen, Rows, Places, NoThread, Ends
<1>2. \A r \in RunIds :
        /\ Closed(r).state # "open" /\ (Closed(r).state = "none" <=> log[r].state = "none")
        /\ Closed(r).stop = log[r].stop
        /\ Closed(r).state = "closed" => Closed(r).phase = "none"
  BY DEF Inv, Typed, PhaseGone, Closed, IsOpen, Rows
<1>3. /\ \A r \in RunIds : log'[r] = Closed(r) /\ thread'[r].pc = "none"
      /\ log' \in [RunIds -> Rows] /\ thread' \in [RunIds -> Places]
  BY <1>1 DEF Restart, NoThread
<1>4. crashes' \in 0 .. MaxCrashes
  BY RunsAssumption DEF Restart, Inv, Typed
<1> QED
  BY <1>2, <1>3, <1>4 DEF Inv, Typed, ThreadsOfOpenRuns, OnlyLastStepsHang, PhaseGone,
     StopsOfRuns, Restart, IsOpen, Alive

LEMMA NextKeeps == Inv /\ [Next]_vars => Inv'
<1> SUFFICES ASSUME Inv, [Next]_vars PROVE Inv'
  OBVIOUS
<1>1. CASE UNCHANGED vars
  BY <1>1 DEF vars, Inv, Typed, ThreadsOfOpenRuns, OnlyLastStepsHang, PhaseGone, StopsOfRuns,
     IsOpen, Alive
<1>2. CASE Next
  BY <1>2, StartKeeps, AdvanceKeeps, BreakKeeps, FinishKeeps, CloseKeeps, UndoKeeps, DieKeeps, StopKeeps,
     AskKeeps, RestartKeeps DEF Next, Step
<1> QED
  BY <1>1, <1>2

\* The inductive invariant holds in every reachable state.
THEOREM Invariant == Spec => []Inv
  BY InitInv, NextKeeps, PTL DEF Spec

\* The rows and the threads of the runs are well formed.
THEOREM RunsTyped == Spec => []TypeOK
<1>1. Inv => TypeOK
  BY TypedIsTypeOK DEF Inv
<1> QED
  BY <1>1, Invariant, PTL

\* Whatever the phases, stop requests and restarts do, a run shown in progress
\* has a thread, unless an error outside run_bulk_import's try block killed it,
\* or the failure of its figures took its finished_at back.
THEOREM NoneHangs == Spec => []OnlyLastStepsHang
<1>1. Inv => OnlyLastStepsHang
  BY DEF Inv, ThreadsOfOpenRuns
<1> QED
  BY <1>1, Invariant, PTL

LEMMA ClosedStep ==
  ASSUME Inv, Inv', [Next]_vars, NEW r \in RunIds, log[r].state = "closed"
  PROVE  log'[r].state = "closed" /\ log'[r].phase = "none" /\ ~Alive(r)'
<1>1. thread[r].pc = "none" /\ ~IsOpen(r)
  BY DEF Inv, ThreadsOfOpenRuns, Alive, IsOpen
<1>2. log'[r].state = "closed"
  <2>1. CASE UNCHANGED log
    BY <2>1
  <2>2. CASE Restart
    BY <1>1, <2>2 DEF Restart, Closed
  <2>3. ASSUME NEW q \in RunIds, NEW type \in {"bulk_import", "scheduled"}, Start(q, type)
        PROVE  log'[r].state = "closed"
    BY <2>3 DEF Start, Inv, Typed
  <2>4. ASSUME NEW q \in RunIds, Step(q) \/ Break(q) \/ Die(q) \/ AskStop(q) \/ WriteStop(q)
        PROVE  log'[r].state = "closed"
    <3>1. CASE Step(q) \/ Break(q) \/ Die(q)
      <4>1. thread[q].pc # "none"
        BY <3>1, AfterDomain DEF Step, Advance, Finish, Close, Undo, Break, Die, Phases
      <4>2. q # r
        BY <4>1, <1>1
      <4> QED
        BY <3>1, <4>2 DEF Step, Advance, Finish, Close, Undo, Break, Die, Inv, Typed, Rows
    <3>2. CASE AskStop(q) \/ WriteStop(q)
      BY <3>2 DEF AskStop, WriteStop, Inv, Typed, Rows
    <3> QED
      BY <2>4, <3>1, <3>2
  <2> QED
    BY <2>1, <2>2, <2>3, <2>4 DEF Next, vars, Approve, AskBetweenRuns
<1>3. log'[r].phase = "none" /\ ~Alive(r)'
  BY <1>2 DEF Inv, PhaseGone, ThreadsOfOpenRuns, IsOpen
<1> QED
  BY <1>2, <1>3

\* What is shown as finished is finished: no later step, of a thread, a request
\* or a restart, opens it again or writes about its phase.
THEOREM NoneReopens == Spec => ClosedIsFinal
<1>1. Inv /\ Inv' /\ [Next]_vars =>
        [\A r \in RunIds : log[r].state = "closed"
            => log'[r].state = "closed" /\ log'[r].phase = "none" /\ ~Alive(r)']_vars
  BY ClosedStep
<1> QED
  BY <1>1, Invariant, PTL DEF Spec, ClosedIsFinal

LEMMA StoppedStep ==
  ASSUME Inv, [Next]_vars, NEW r \in RunIds, log[r].stop, thread'[r] # thread[r]
  PROVE  thread'[r].pc \notin DOMAIN After
<1>1. log[r].state # "none"
  BY DEF Inv, StopsOfRuns
<1>2. thread \in [RunIds -> Places]
  BY DEF Inv, Typed
<1>3. ASSUME NEW q \in RunIds, NEW type \in {"bulk_import", "scheduled"}, Start(q, type)
      PROVE  FALSE
  <2>1. q # r
    BY <1>1, <1>3 DEF Start
  <2> QED
    BY <1>2, <1>3, <2>1 DEF Start, Goes
<1>4. ASSUME NEW q \in RunIds, Step(q) \/ Break(q) \/ Die(q)
      PROVE  thread'[r].pc \in {"finish", "close", "none"}
  <2>1. q = r
    BY <1>2, <1>4 DEF Step, Advance, Finish, Close, Undo, Break, Die, Goes
  <2>2. \E pc \in {"finish", "close", "none"}, how \in Ends : Goes(r, pc, how)
    BY <1>2, <1>4, <2>1 DEF Step, Advance, Finish, Close, Undo, Break, Die, Ends, Places
  <2> QED
    BY <1>2, <2>2 DEF Goes
<1>5. CASE Restart
  BY <1>5, AfterDomain DEF Restart, NoThread, Phases
<1> QED
  BY <1>3, <1>4, <1>5, AfterDomain
  DEF Next, vars, AskStop, WriteStop, Approve, AskBetweenRuns, Phases

\* A run asked to stop begins the work of no other phase, wherever its thread
\* was when the request was written.
THEOREM StopIsHeeded == Spec => NothingAfterStop
<1>1. Inv /\ [Next]_vars =>
        [\A r \in RunIds : log[r].stop /\ thread'[r] # thread[r]
            => thread'[r].pc \notin DOMAIN After]_vars
  BY StoppedStep
<1> QED
  BY <1>1, Invariant, PTL DEF Spec, NothingAfterStop
=============================================================================
