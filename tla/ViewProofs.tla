------------------------------- MODULE ViewProofs -------------------------------
(***************************************************************************)
(* What the tab tells of a run and of the library, for any number of files,*)
(* elements, runs, flushes, rollbacks and restarts: the steps of a run are *)
(* true of its worker, the card of changes of what happened between two    *)
(* scans, and the views of the library count and list the same files.      *)
(***************************************************************************)
EXTENDS TabProofs, SequenceTheorems, FiniteSetTheorems

-----------------------------------------------------------------------------
(* The steps of a run                                                       *)

LOCAL memory == v1
LOCAL at == v2
LOCAL stopped == v3
LOCAL wrote == v4
LOCAL row == v5
LOCAL asked == v6
LOCAL run == v7
LOCAL breaksOfRun == v8
USE DEF memory, at, stopped, wrote, row, asked, run, breaksOfRun

\* The phases are closed in order.
InOrder ==
    /\ \A i, j \in P!Phases : i < j /\ memory[j].status # "absent" => memory[i].status = "done"
    /\ at <= Len(P!PHASES) => \A i \in P!Phases :
          memory[i].status = IF i < at THEN "done" ELSE IF i = at THEN "running" ELSE "absent"
    /\ at = P!Over => \A i \in P!Phases : memory[i].status # "running"

\* Every step reaches the row when it begins and when it is closed; what a session keeps
\* from the row, and a rollback takes from it, are counts of the phase that runs.
RowFollows ==
    /\ wrote.phases = row.phases /\ wrote.current_phase = row.current_phase
    /\ wrote.finished_at = row.finished_at
    /\ \A i \in P!Phases : /\ row.phases[i].status = memory[i].status
                           /\ row.phases[i].done <= memory[i].done
                           /\ row.phases[i].status # "running" => row.phases[i] = memory[i]
    /\ row.current_phase # 0 => /\ row.phase_done <= memory[row.current_phase].done
                                /\ wrote.phase_done <= memory[row.current_phase].done

\* The line names the phase that runs, the first one until it has begun, and none in the end.
LineFollows ==
    /\ row.current_phase = IF at = 0 THEN 1 ELSE IF at \in P!Phases THEN at ELSE 0
    /\ row.finished_at = (at = P!Dead)

\* A later row of the same run.
Follows(r, s) ==
    /\ \A i \in P!Phases : /\ r.phases[i].status # "absent" => s.phases[i].status # "absent"
                           /\ r.phases[i].status = "done" => s.phases[i] = r.phases[i]
                           /\ r.phases[i].done <= s.phases[i].done
    /\ r.finished_at => s.finished_at

StepsInv ==
    P!TypeOK /\ InOrder /\ RowFollows /\ LineFollows /\ Follows(run, row) /\ P!Told(run)

-----------------------------------------------------------------------------
\* There are six phases.
LEMMA SixPhases ==
  P!Phases = 1 .. 6 /\ Len(P!PHASES) = 6 /\ P!Over = 7 /\ P!Dead = 8
<1>1. Len(P!PHASES) = 6
  BY DEF P!PHASES
<1>2. DOMAIN P!PHASES = 1 .. 6
  BY DEF P!PHASES
<1> QED BY <1>1, <1>2 DEF P!Phases, P!Over, P!Dead

\* The ranks of the states of a step, and how they come from the row.
LEMMA RankOfStep ==
  ASSUME NEW r \in P!Row, NEW i \in P!Phases
  PROVE  /\ P!Rank(P!runSteps(r)[i]) =
              IF r.phases[i].status = "absent" THEN 0
              ELSE IF r.finished_at \/ r.phases[i].status = "done" THEN 2 ELSE 1
         /\ (P!runSteps(r)[i] = "running") = (r.phases[i].status = "running" /\ ~r.finished_at)
         /\ r.finished_at => P!runSteps(r)[i] \in {"done", "skipped"}
<1>1. r.phases[i].status \in {"absent", "running", "done"} /\ r.finished_at \in BOOLEAN
  BY DEF P!Row, P!Progress
<1>2. P!runSteps(r)[i] = IF r.phases[i].status = "absent"
                         THEN IF r.finished_at THEN "skipped" ELSE "pending"
                         ELSE IF r.finished_at THEN "done" ELSE r.phases[i].status
  BY DEF P!runSteps
<1>3. P!Rank("pending") = 0 /\ P!Rank("skipped") = 0 /\ P!Rank("running") = 1 /\ P!Rank("done") = 2
  BY DEF P!Rank
<1> QED BY <1>1, <1>2, <1>3

\* What a row tells is true when it is the latest one.
LEMMA LatestRowTells ==
  ASSUME P!TypeOK, InOrder, RowFollows, LineFollows
  PROVE  P!Told(row)
<1>1. row \in P!Row /\ P!Phases = 1 .. 6
      /\ \A i \in P!Phases : row.phases[i].status \in {"absent", "running", "done"}
  BY SixPhases DEF P!TypeOK, P!Row, P!Progress
<1>2. ASSUME NEW i \in P!Phases, NEW j \in P!Phases, i < j
      PROVE  P!Rank(P!runSteps(row)[i]) >= P!Rank(P!runSteps(row)[j])
  <2>1. row.phases[j].status # "absent" => row.phases[i].status = "done"
    BY <1>2 DEF InOrder, RowFollows
  <2> QED BY <1>1, <2>1, RankOfStep
<1>3. row.finished_at => \A i \in P!Phases : P!runSteps(row)[i] \in {"done", "skipped"}
  BY <1>1, RankOfStep
<1>4. ASSUME \E i \in P!Phases : row.phases[i].status # "absent"
      PROVE  {i \in P!Phases : P!runSteps(row)[i] = "running"} = {row.current_phase} \ {0}
  <2>1. \A i \in P!Phases : P!runSteps(row)[i] = "running"
                              <=> row.phases[i].status = "running" /\ at # P!Dead
    BY <1>1, RankOfStep DEF LineFollows
  <2>2. at \in 0 .. 8 /\ P!Over = 7 /\ P!Dead = 8 /\ Len(P!PHASES) = 6
    BY SixPhases DEF P!TypeOK
  <2>3. at # 0
    BY <1>1, <1>4, <2>2 DEF InOrder, RowFollows
  <2>4. \A i \in P!Phases : P!runSteps(row)[i] = "running" <=> i = at
    BY <1>1, <2>1, <2>2, <2>3 DEF InOrder, RowFollows
  <2>5. row.current_phase = IF at \in 1 .. 6 THEN at ELSE 0
    BY <1>1, <2>3 DEF LineFollows
  <2> QED BY <1>1, <2>2, <2>3, <2>4, <2>5
<1>5. row.current_phase # 0 => row.phase_done <= memory[row.current_phase].done
  BY DEF RowFollows
<1>6. \A i \in P!Phases : row.phases[i].status = "done" => row.phases[i].done = memory[i].done
  BY DEF RowFollows
<1> QED BY <1>2, <1>3, <1>4, <1>5, <1>6 DEF P!Told

\* What a row told stays true while the counts of open phases grow.
LEMMA ToldStays ==
  ASSUME NEW r \in P!Row, NEW m \in [P!Phases -> P!Progress], P!Told(r), run' = r,
         memory \in [P!Phases -> P!Progress], memory' = m, 
         \A i \in P!Phases : memory[i].done <= m[i].done
                             /\ (r.phases[i].status = "done" => m[i].done = memory[i].done)
  PROVE  P!Told(run)'
<1>1. r.current_phase \in 0 .. 6 /\ r.phase_done \in Nat /\ P!Phases = 1 .. 6
      /\ \A i \in P!Phases : m[i].done \in Nat /\ memory[i].done \in Nat
  BY SixPhases DEF P!Row, P!Progress
<1>2. ASSUME r.current_phase # 0 PROVE r.phase_done <= memory'[r.current_phase].done
  <2>1. r.current_phase \in P!Phases /\ r.phase_done <= memory[r.current_phase].done
    BY <1>1, <1>2 DEF P!Told
  <2> QED BY <1>1, <2>1
<1>3. \A i \in P!Phases : r.phases[i].status = "done" => r.phases[i].done = memory'[i].done
  BY DEF P!Told
<1> QED BY <1>2, <1>3 DEF P!Told

\* What the worker does to its phases: one that is closed stays as it is.
Grows(m, n) ==
    \A i \in P!Phases : /\ m[i].status # "absent" => n[i].status # "absent"
                        /\ m[i].status = "done" => n[i] = m[i]
                        /\ m[i].done <= n[i].done

\* A step of the worker, as far as the tab is concerned.
LEMMA WorkerSteps ==
  ASSUME StepsInv, P!TypeOK', InOrder', RowFollows', LineFollows',
         Grows(memory, memory'), Follows(row, row'), run' = run
  PROVE  StepsInv'
<1>1. /\ memory \in [P!Phases -> P!Progress] /\ memory' \in [P!Phases -> P!Progress]
      /\ run \in P!Row /\ row \in P!Row /\ row' \in P!Row
  BY DEF StepsInv, P!TypeOK
<1>2. Follows(run, row')
  <2>1. \A i \in P!Phases : /\ run.phases[i].done \in Nat /\ row.phases[i].done \in Nat
                            /\ row'.phases[i].done \in Nat
    BY <1>1 DEF P!Row, P!Progress
  <2> QED BY <2>1 DEF StepsInv, Follows
<1>3. \A i \in P!Phases : memory[i].done <= memory'[i].done
  BY DEF Grows
<1>4. ASSUME NEW i \in P!Phases, run.phases[i].status = "done"
      PROVE  memory'[i].done = memory[i].done
  <2>1. row.phases[i].status = "done"
    BY <1>4 DEF StepsInv, Follows
  <2>2. memory[i].status = "done"
    BY <2>1 DEF StepsInv, RowFollows
  <2> QED BY <2>2 DEF Grows
<1>5. P!Told(run)'
  BY <1>1, <1>3, <1>4, ToldStays DEF StepsInv
<1> QED BY <1>2, <1>5 DEF StepsInv

\* What the types say of the phases.
LEMMA PhaseTypes ==
  ASSUME P!TypeOK
  PROVE  /\ P!Phases = 1 .. 6 /\ Len(P!PHASES) = 6 /\ P!Over = 7 /\ P!Dead = 8 /\ at \in 0 .. 8
         /\ memory \in [P!Phases -> P!Progress]
         /\ \A i \in P!Phases : /\ memory[i] \in P!Progress /\ memory[i].done \in Nat
                                /\ memory[i].status \in {"absent", "running", "done"}
         /\ {row, wrote, run} \subseteq P!Row
         /\ {row.phase_done, wrote.phase_done} \subseteq Nat
         /\ {row.current_phase, wrote.current_phase} \subseteq 0 .. 6
<1>1. \A i \in P!Phases : memory[i] \in P!Progress
  BY DEF P!TypeOK
<1>2. \A i \in P!Phases : memory[i].done \in Nat
                          /\ memory[i].status \in {"absent", "running", "done"}
  BY <1>1 DEF P!Progress
<1>3. row \in P!Row /\ wrote \in P!Row /\ run \in P!Row
  BY DEF P!TypeOK
<1>4. {row.phase_done, wrote.phase_done} \subseteq Nat
      /\ {row.current_phase, wrote.current_phase} \subseteq 0 .. 6
  BY <1>3, SixPhases DEF P!Row
<1> QED BY <1>1, <1>2, <1>3, <1>4, SixPhases DEF P!TypeOK

\* A phase is closed: the one the worker is in.
LEMMA Closing ==
  ASSUME StepsInv, at < P!Over
  PROVE  /\ P!close_current \in [P!Phases -> P!Progress]
         /\ Grows(memory, P!close_current)
         /\ \A i \in P!Phases : P!close_current[i].status = IF i <= at THEN "done" ELSE "absent"
         /\ \A i \in P!Phases : P!close_current[i].done = memory[i].done
<1>1. /\ P!Phases = 1 .. 6 /\ Len(P!PHASES) = 6 /\ P!Over = 7 /\ at \in 0 .. 8
      /\ memory \in [P!Phases -> P!Progress]
      /\ \A i \in P!Phases : /\ memory[i] \in P!Progress /\ memory[i].done \in Nat
                             /\ memory[i].status \in {"absent", "running", "done"}
  BY PhaseTypes DEF StepsInv
<1>2. at <= 6
  BY <1>1
<1>3. \A i \in P!Phases :
          memory[i].status = IF i < at THEN "done" ELSE IF i = at THEN "running" ELSE "absent"
  BY <1>1, <1>2 DEF StepsInv, InOrder
<1>4. CASE at = 0
  <2>1. P!close_current = memory
    BY <1>1, <1>4 DEF P!close_current
  <2> QED BY <1>1, <1>3, <1>4, <2>1 DEF Grows
<1>5. CASE at \in P!Phases
  <2> DEFINE p == [memory[at] EXCEPT !.status = "done"]
  <2>1. p \in P!Progress /\ p.status = "done" /\ p.done = memory[at].done
    BY <1>1, <1>5 DEF P!Progress
  <2>2. P!close_current = [memory EXCEPT ![at] = p]
    BY <1>5 DEF P!close_current
  <2> HIDE DEF p
  <2>3. P!close_current \in [P!Phases -> P!Progress]
    BY <1>1, <2>1, <2>2
  <2>4. \A i \in P!Phases : P!close_current[i] = IF i = at THEN p ELSE memory[i]
    BY <1>1, <2>2
  <2>5. Grows(memory, P!close_current)
    BY <1>1, <1>3, <1>5, <2>1, <2>4 DEF Grows
  <2> QED BY <1>1, <1>3, <1>5, <2>1, <2>3, <2>4, <2>5
<1> QED BY <1>1, <1>2, <1>4, <1>5

\* The next phase begins.
LEMMA PhaseStarted ==
  ASSUME StepsInv, P!start_phase
  PROVE  StepsInv'
<1> DEFINE b == [P!close_current[at + 1] EXCEPT !.status = "running"]
           m == [P!close_current EXCEPT ![at + 1].status = "running"]
           w == [wrote EXCEPT !.current_phase = at + 1, !.phase_done = 0, !.phases = m]
<1>1. /\ P!Phases = 1 .. 6 /\ Len(P!PHASES) = 6 /\ P!Over = 7 /\ P!Dead = 8 /\ at \in 0 .. 8
      /\ memory \in [P!Phases -> P!Progress] /\ wrote \in P!Row /\ row \in P!Row
      /\ \A i \in P!Phases : /\ memory[i] \in P!Progress /\ memory[i].done \in Nat
                             /\ memory[i].status \in {"absent", "running", "done"}
  BY PhaseTypes DEF StepsInv
<1>2. /\ at < 6 /\ at + 1 \in P!Phases /\ at < P!Over
      /\ memory' = m /\ wrote' = w /\ row' = w /\ at' = at + 1
      /\ stopped' = asked /\ asked' = asked /\ run' = run /\ breaksOfRun' = breaksOfRun
  BY <1>1 DEF P!start_phase, P!Flush, P!Working
<1>3. /\ P!close_current \in [P!Phases -> P!Progress] /\ Grows(memory, P!close_current)
      /\ \A i \in P!Phases : P!close_current[i].status = IF i <= at THEN "done" ELSE "absent"
      /\ \A i \in P!Phases : P!close_current[i].done = memory[i].done
  BY <1>2, Closing
<1>4. b \in P!Progress /\ b.status = "running" /\ b.done = memory[at + 1].done
  BY <1>2, <1>3 DEF P!Progress
<1>5. /\ m \in [P!Phases -> P!Progress]
      /\ \A i \in P!Phases : m[i] = IF i = at + 1 THEN b ELSE P!close_current[i]
  <2>1. m = [P!close_current EXCEPT ![at + 1] = b]
    OBVIOUS
  <2> QED BY <1>2, <1>3, <1>4, <2>1
<1> HIDE DEF b, m
<1>6. /\ w \in P!Row /\ w.phases = m /\ w.current_phase = at + 1 /\ w.phase_done = 0
      /\ w.finished_at = wrote.finished_at
  <2>1. at + 1 \in 0 .. Len(P!PHASES) /\ 0 \in Nat
    BY <1>1, <1>2
  <2> QED BY <1>1, <1>5, <2>1 DEF P!Row
<1> HIDE DEF w
<1>7. P!TypeOK'
  <2>1. at' \in 0 .. P!Dead
    BY <1>1, <1>2
  <2>2. {wrote', row', run'} \subseteq P!Row
    BY <1>2, <1>6 DEF StepsInv, P!TypeOK
  <2> QED BY <1>2, <1>5, <2>1, <2>2 DEF StepsInv, P!TypeOK
<1>8. InOrder'
  <2>1. \A i \in P!Phases : m[i].status = IF i < at + 1 THEN "done"
                                          ELSE IF i = at + 1 THEN "running" ELSE "absent"
    BY <1>1, <1>2, <1>3, <1>4, <1>5
  <2>2. at' <= 6 /\ at' # P!Over
    BY <1>1, <1>2
  <2>3. \A i, j \in P!Phases : i < j /\ m[j].status # "absent" => m[i].status = "done"
    BY <1>1, <1>2, <2>1
  <2> QED BY <1>1, <1>2, <2>1, <2>2, <2>3 DEF InOrder
<1>9. RowFollows'
  <2>1. \A i \in P!Phases : m[i].done \in Nat
    BY <1>5 DEF P!Progress
  <2> QED BY <1>1, <1>2, <1>6, <2>1 DEF RowFollows
<1>10. LineFollows'
  <2>1. at \in 0 .. 5 /\ at + 1 # 0 /\ at + 1 # 8 /\ at # 8
    BY <1>1, <1>2
  <2>2. ~wrote.finished_at
    BY <1>1, <2>1 DEF StepsInv, RowFollows, LineFollows
  <2>3. wrote.finished_at \in BOOLEAN
    BY <1>1 DEF P!Row
  <2> QED BY <1>1, <1>2, <1>6, <2>1, <2>2, <2>3 DEF LineFollows
<1>11. Grows(memory, m)
  BY <1>1, <1>2, <1>3, <1>4, <1>5 DEF Grows
<1>12. Follows(row, w)
  <2>1. \A i \in P!Phases : /\ row.phases[i].status = memory[i].status
                            /\ row.phases[i].done <= memory[i].done
                            /\ row.phases[i].status # "running" => row.phases[i] = memory[i]
                            /\ row.phases[i].done \in Nat /\ m[i].done \in Nat
    BY <1>1, <1>5 DEF StepsInv, RowFollows, P!Row, P!Progress
  <2> QED BY <1>1, <1>6, <1>11, <2>1 DEF Follows, Grows, StepsInv, RowFollows
<1> QED BY <1>2, <1>7, <1>8, <1>9, <1>10, <1>11, <1>12, WorkerSteps

\* An element is done: the phase that runs counts one more.
LEMMA ElementDone ==
  ASSUME StepsInv, NEW flush \in BOOLEAN, P!advance(flush)
  PROVE  StepsInv'
<1> DEFINE c == [memory[at] EXCEPT !.done = @ + 1]
           m == [memory EXCEPT ![at].done = @ + 1]
           w == [wrote EXCEPT !.phase_done = m[at].done]
           f == [w EXCEPT !.phases = m]
<1>1. /\ P!Phases = 1 .. 6 /\ Len(P!PHASES) = 6 /\ P!Over = 7 /\ P!Dead = 8 /\ at \in 0 .. 8
      /\ memory \in [P!Phases -> P!Progress] /\ wrote \in P!Row /\ row \in P!Row
      /\ row.current_phase \in 0 .. 6 /\ row.phase_done \in Nat
      /\ \A i \in P!Phases : /\ memory[i] \in P!Progress /\ memory[i].done \in Nat
                             /\ memory[i].status \in {"absent", "running", "done"}
  BY PhaseTypes DEF StepsInv
<1>2. at \in P!Phases /\ at <= 6 /\ at # 0
  BY <1>1 DEF P!advance
<1>3. c \in P!Progress /\ c.status = memory[at].status /\ c.done = memory[at].done + 1
  BY <1>1, <1>2 DEF P!Progress
<1>4. /\ m \in [P!Phases -> P!Progress]
      /\ \A i \in P!Phases : m[i] = IF i = at THEN c ELSE memory[i]
  <2>1. m = [memory EXCEPT ![at] = c]
    OBVIOUS
  <2> QED BY <1>1, <1>2, <1>3, <2>1
<1>5. memory' = m
      /\ \/ wrote' = f /\ row' = f /\ stopped' = asked
         \/ wrote' = w /\ UNCHANGED <<row, stopped>>
  BY DEF P!advance, P!Flush
<1>u. at' = at /\ asked' = asked /\ run' = run /\ breaksOfRun' = breaksOfRun
  BY DEF P!advance, P!Flush
<1> HIDE DEF c, m
<1>6. m[at].done \in Nat /\ m[at].done = c.done
  BY <1>1, <1>2, <1>3, <1>4
<1>7. /\ w \in P!Row /\ w.phases = wrote.phases /\ w.current_phase = wrote.current_phase
      /\ w.phase_done = c.done /\ w.finished_at = wrote.finished_at
  BY <1>1, <1>6 DEF P!Row
<1>8. /\ f \in P!Row /\ f.phases = m /\ f.current_phase = wrote.current_phase
      /\ f.phase_done = c.done /\ f.finished_at = wrote.finished_at
  BY <1>1, <1>4, <1>6 DEF P!Row
<1> HIDE DEF w, f
<1>9. \A i \in P!Phases : memory[i].status = IF i < at THEN "done"
                                             ELSE IF i = at THEN "running" ELSE "absent"
  BY <1>1, <1>2 DEF StepsInv, InOrder
<1>10. \A i \in P!Phases : m[i].status = memory[i].status
  BY <1>3, <1>4
<1>11. P!TypeOK'
  <2>1. stopped' \in BOOLEAN
    BY <1>5 DEF StepsInv, P!TypeOK
  <2>2. wrote' \in P!Row /\ row' \in P!Row /\ run' \in P!Row
    BY <1>5, <1>u, <1>7, <1>8 DEF StepsInv, P!TypeOK
  <2> QED BY <1>4, <1>5, <1>u, <2>1, <2>2 DEF StepsInv, P!TypeOK
<1>12. InOrder'
  BY <1>5, <1>u, <1>10 DEF StepsInv, InOrder
<1>g. Grows(memory, m)
  <2>1. \A i \in P!Phases : memory[i].done <= m[i].done
    BY <1>1, <1>3, <1>4
  <2>2. \A i \in P!Phases : memory[i].status = "done" => m[i] = memory[i]
    BY <1>1, <1>2, <1>4, <1>9
  <2> QED BY <1>10, <2>1, <2>2 DEF Grows
<1>r. \A i \in P!Phases : /\ row.phases[i].status = m[i].status
                          /\ row.phases[i].done <= m[i].done
                          /\ row.phases[i].status # "running" => row.phases[i] = m[i]
  <2> TAKE i \in P!Phases
  <2>1. /\ row.phases[i].status = memory[i].status
        /\ row.phases[i].done <= memory[i].done
        /\ row.phases[i].status # "running" => row.phases[i] = memory[i]
    BY DEF StepsInv, RowFollows
  <2>2. row.phases[i].done \in Nat
    BY <1>1 DEF P!Row, P!Progress
  <2>3. row.phases[i].done <= m[i].done
    BY <1>1, <1>3, <1>4, <2>1, <2>2
  <2>4. memory[at].status = "running"
    BY <1>1, <1>2, <1>9
  <2> QED BY <1>2, <1>4, <1>10, <2>1, <2>3, <2>4
<1>l. row.current_phase = at /\ wrote.current_phase = at /\ wrote.finished_at = row.finished_at
      /\ row.phase_done <= memory[at].done
  BY <1>1, <1>2 DEF StepsInv, LineFollows, RowFollows
<1>d. row.phase_done <= m[at].done /\ c.done <= m[at].done
  BY <1>1, <1>2, <1>3, <1>6, <1>l
<1>13. RowFollows'
  <2>1. CASE wrote' = f /\ row' = f
    <3>1. \A i \in P!Phases : m[i].done \in Nat
      BY <1>4 DEF P!Progress
    <3> QED BY <1>5, <1>8, <1>d, <1>l, <2>1, <3>1 DEF RowFollows
  <2>2. CASE wrote' = w /\ row' = row
    BY <1>5, <1>7, <1>d, <1>l, <1>r, <2>2 DEF StepsInv, RowFollows
  <2> QED BY <1>5, <2>1, <2>2
<1>14. LineFollows'
  BY <1>5, <1>u, <1>8, <1>l DEF StepsInv, LineFollows
<1>15. Follows(row, row')
  <2>0. \A i \in P!Phases : row.phases[i].done \in Nat
    BY <1>1 DEF P!Row, P!Progress
  <2>1. CASE row' = f
    BY <1>8, <1>l, <1>r, <2>1, <2>0 DEF Follows
  <2>2. CASE row' = row
    BY <2>0, <2>2 DEF Follows
  <2> QED BY <1>5, <2>1, <2>2
<1> QED BY <1>5, <1>u, <1>11, <1>12, <1>13, <1>14, <1>15, <1>g, WorkerSteps

\* The row is committed, or its uncommitted counts are lost.
LEMMA RowCommitted ==
  ASSUME MaxBreaks \in Nat, StepsInv, P!Commit \/ P!Rollback
  PROVE  StepsInv'
<1>1. /\ UNCHANGED <<memory, at, stopped, asked, run>>
      /\ row' \in {row, wrote} /\ wrote' \in {row, wrote}
  BY DEF P!Commit, P!Rollback
<1>2. breaksOfRun' \in 0 .. MaxBreaks
  <2>1. CASE P!Rollback
    BY <2>1 DEF P!Rollback, P!Break, StepsInv, P!TypeOK
  <2>2. CASE P!Commit
    BY <2>2 DEF P!Commit, StepsInv, P!TypeOK
  <2> QED BY <2>1, <2>2
<1>3. /\ memory \in [P!Phases -> P!Progress] /\ row \in P!Row
      /\ \A i \in P!Phases : memory[i].done \in Nat /\ row.phases[i].done \in Nat
  BY PhaseTypes DEF StepsInv, P!Row, P!Progress
<1>4. P!TypeOK' /\ InOrder'
  BY <1>1, <1>2 DEF StepsInv, P!TypeOK, InOrder
<1>5. RowFollows' /\ LineFollows'
  BY <1>1 DEF StepsInv, RowFollows, LineFollows
<1>6. Grows(memory, memory')
  BY <1>1, <1>3 DEF Grows
<1>7. Follows(row, row')
  BY <1>1, <1>3 DEF Follows, StepsInv, RowFollows
<1> QED BY <1>1, <1>4, <1>5, <1>6, <1>7, WorkerSteps

\* finish() closes the phase that runs and empties the line.
LEMMA RunFinishes ==
  ASSUME MaxBreaks \in Nat, StepsInv, P!finish
  PROVE  StepsInv'
<1> DEFINE m == P!close_current
           w == [row EXCEPT !.phases = m, !.current_phase = 0, !.phase_done = 0]
<1>1. /\ P!Phases = 1 .. 6 /\ Len(P!PHASES) = 6 /\ P!Over = 7 /\ P!Dead = 8 /\ at \in 0 .. 8
      /\ memory \in [P!Phases -> P!Progress] /\ wrote \in P!Row /\ row \in P!Row
  BY PhaseTypes DEF StepsInv
<1>2. /\ at < P!Over /\ at' = P!Over /\ memory' = m /\ wrote' = w /\ row' = w
      /\ UNCHANGED <<stopped, asked, run>>
  BY DEF P!finish
<1>3. breaksOfRun' \in 0 .. MaxBreaks
  BY DEF P!finish, P!Break, StepsInv, P!TypeOK
<1>4. /\ m \in [P!Phases -> P!Progress] /\ Grows(memory, m)
      /\ \A i \in P!Phases : m[i].status = IF i <= at THEN "done" ELSE "absent"
      /\ \A i \in P!Phases : m[i].done = memory[i].done
  BY <1>2, Closing
<1> HIDE DEF m
<1>5. /\ w \in P!Row /\ w.phases = m /\ w.current_phase = 0 /\ w.phase_done = 0
      /\ w.finished_at = row.finished_at
  <2>1. 0 \in 0 .. Len(P!PHASES) /\ 0 \in Nat
    BY <1>1
  <2> QED BY <1>1, <1>4, <2>1 DEF P!Row
<1> HIDE DEF w
<1>6. P!TypeOK'
  <2>1. at' \in 0 .. P!Dead
    BY <1>1, <1>2
  <2>2. {wrote', row', run'} \subseteq P!Row
    BY <1>2, <1>5 DEF StepsInv, P!TypeOK
  <2> QED BY <1>2, <1>3, <1>4, <2>1, <2>2 DEF StepsInv, P!TypeOK
<1>7. InOrder'
  <2>1. \A i, j \in P!Phases : i < j /\ m[j].status # "absent" => m[i].status = "done"
    BY <1>1, <1>4
  <2>2. ~(at' <= Len(P!PHASES))
    BY <1>1, <1>2
  <2> QED BY <1>2, <1>4, <2>1, <2>2 DEF InOrder
<1>8. RowFollows'
  <2>1. \A i \in P!Phases : m[i].done \in Nat
    BY <1>4 DEF P!Progress
  <2> QED BY <1>2, <1>5, <2>1 DEF RowFollows
<1>9. LineFollows'
  <2>1. at # P!Dead /\ at' # P!Dead /\ at' # 0 /\ at' \notin P!Phases
    BY <1>1, <1>2
  <2>2. row.finished_at = FALSE
    BY <2>1 DEF StepsInv, LineFollows
  <2> QED BY <1>2, <1>5, <2>1, <2>2 DEF LineFollows
<1>10. Follows(row, w)
  <2>1. \A i \in P!Phases : /\ row.phases[i].status = memory[i].status
                            /\ row.phases[i].done <= memory[i].done
                            /\ row.phases[i].status # "running" => row.phases[i] = memory[i]
    BY DEF StepsInv, RowFollows
  <2> QED BY <1>4, <1>5, <2>1 DEF Follows, Grows
<1> QED BY <1>2, <1>4, <1>6, <1>7, <1>8, <1>9, <1>10, WorkerSteps

\* The run is over, or its process is gone: the steps stay as they are.
LEMMA RunOver ==
  ASSUME MaxBreaks \in Nat, StepsInv, P!Finished \/ P!Restart
  PROVE  StepsInv'
<1>1. /\ P!Phases = 1 .. 6 /\ Len(P!PHASES) = 6 /\ P!Over = 7 /\ P!Dead = 8 /\ at \in 0 .. 8
      /\ memory \in [P!Phases -> P!Progress] /\ row \in P!Row
      /\ \A i \in P!Phases : memory[i].done \in Nat /\ row.phases[i].done \in Nat
  BY PhaseTypes DEF StepsInv, P!Row, P!Progress
<1>2. at < P!Dead /\ at' = P!Dead /\ UNCHANGED <<memory, stopped, asked, run>>
  BY <1>1 DEF P!Finished, P!Restart
<1>3. breaksOfRun' \in 0 .. MaxBreaks
  <2>1. CASE P!Restart
    BY <2>1 DEF P!Restart, P!Break, StepsInv, P!TypeOK
  <2>2. CASE P!Finished
    BY <2>2 DEF P!Finished, StepsInv, P!TypeOK
  <2> QED BY <2>1, <2>2
<1>4. /\ row' \in P!Row /\ wrote' = row' /\ row'.phases = row.phases
      /\ row'.current_phase = 0 /\ row'.finished_at = TRUE
  <2>1. CASE P!Restart
    <3>1. 0 \in 0 .. Len(P!PHASES) /\ 0 \in Nat
      BY <1>1
    <3> QED BY <1>1, <2>1, <3>1 DEF P!Restart, P!Row
  <2>2. CASE P!Finished
    <3>1. row' = [row EXCEPT !.finished_at = TRUE] /\ wrote' = row' /\ at = 7
      BY <1>1, <2>2 DEF P!Finished
    <3>2. row.current_phase = 0
      BY <1>1, <3>1 DEF StepsInv, LineFollows
    <3> QED BY <1>1, <3>1, <3>2 DEF P!Row
  <2> QED BY <2>1, <2>2
<1>5. P!TypeOK'
  <2>1. at' \in 0 .. P!Dead
    BY <1>1, <1>2
  <2> QED BY <1>2, <1>3, <1>4, <2>1 DEF StepsInv, P!TypeOK
<1>6. InOrder'
  <2>1. ~(at' <= Len(P!PHASES)) /\ at' # P!Over
    BY <1>1, <1>2
  <2> QED BY <1>2, <2>1 DEF StepsInv, InOrder
<1>7. RowFollows'
  BY <1>2, <1>4 DEF StepsInv, RowFollows
<1>8. LineFollows'
  <2>1. at' # 0 /\ at' \notin P!Phases
    BY <1>1, <1>2
  <2> QED BY <1>2, <1>4, <2>1 DEF LineFollows
<1>9. Grows(memory, memory')
  BY <1>1, <1>2 DEF Grows
<1>10. Follows(row, row')
  BY <1>1, <1>4 DEF Follows
<1> QED BY <1>2, <1>5, <1>6, <1>7, <1>8, <1>9, <1>10, WorkerSteps

\* The run is asked to stop, or the tab reads its row.
LEMMA RunWatched ==
  ASSUME StepsInv, P!cancel_run \/ P!useRuns
  PROVE  StepsInv'
<1>1. UNCHANGED <<memory, at, stopped, wrote, row, breaksOfRun>>
  BY DEF P!cancel_run, P!useRuns
<1>2. asked' \in BOOLEAN /\ run' \in {run, row}
  BY DEF P!cancel_run, P!useRuns, StepsInv, P!TypeOK
<1>3. P!TypeOK' /\ InOrder' /\ RowFollows' /\ LineFollows'
  BY <1>1, <1>2 DEF StepsInv, P!TypeOK, InOrder, RowFollows, LineFollows
<1>4. Follows(row, row)
  <2>1. \A i \in P!Phases : row.phases[i].done \in Nat
    BY DEF StepsInv, P!TypeOK, P!Row, P!Progress
  <2> QED BY <2>1 DEF Follows
<1>5. Follows(run', row)
  BY <1>2, <1>4 DEF StepsInv
<1>6. P!Told(row)
  BY LatestRowTells DEF StepsInv
<1>7. P!Told(run)'
  BY <1>1, <1>2, <1>6 DEF StepsInv, P!Told
<1> QED BY <1>1, <1>3, <1>5, <1>7 DEF StepsInv

\* A step of the part keeps what it needs.
LEMMA StepsSteps ==
  ASSUME MaxBreaks \in Nat, StepsInv, [P!Next]_(P!vars)
  PROVE  StepsInv'
<1>1. CASE UNCHANGED P!vars
  BY <1>1 DEF P!vars, StepsInv, P!TypeOK, InOrder, RowFollows, LineFollows, Follows, P!Told
<1>2. CASE P!Next
  BY <1>2, PhaseStarted, ElementDone, RowCommitted, RunFinishes, RunOver, RunWatched DEF P!Next
<1> QED BY <1>1, <1>2

\* A run that has just been made.
LEMMA StepsBegin ==
  ASSUME MaxBreaks \in Nat, P!Init
  PROVE  StepsInv
<1> DEFINE none == [status |-> "absent", done |-> 0]
<1>1. P!Phases = 1 .. 6 /\ Len(P!PHASES) = 6 /\ P!Over = 7 /\ P!Dead = 8
  BY SixPhases
<1>2. none \in P!Progress /\ none.status = "absent" /\ none.done = 0
  BY DEF P!Progress
<1>3. /\ memory = [i \in P!Phases |-> none] /\ at = 0
      /\ row = [phases |-> memory, current_phase |-> 1, phase_done |-> 0, finished_at |-> FALSE]
      /\ wrote = row /\ run = row
  BY DEF P!Init
<1> HIDE DEF none
<1>4. memory \in [P!Phases -> P!Progress] /\ \A i \in P!Phases : memory[i] = none
  BY <1>2, <1>3
<1>5. row \in P!Row
  <2>1. 1 \in 0 .. Len(P!PHASES) /\ 0 \in Nat
    BY <1>1
  <2> QED BY <1>3, <1>4, <2>1 DEF P!Row
<1>6. P!TypeOK
  <2>1. at \in 0 .. P!Dead /\ breaksOfRun \in 0 .. MaxBreaks
    BY <1>1 DEF P!Init
  <2>2. asked \in BOOLEAN /\ stopped \in BOOLEAN
    BY DEF P!Init
  <2> QED BY <1>3, <1>4, <1>5, <2>1, <2>2 DEF P!TypeOK
<1>7. InOrder
  <2>1. at # P!Over /\ \A i \in P!Phases : ~(i < at) /\ i # at
    BY <1>1, <1>3
  <2> QED BY <1>2, <1>4, <2>1 DEF InOrder
<1>8. RowFollows
  <2>1. 1 \in P!Phases /\ 0 <= none.done /\ none.done <= none.done
    BY <1>1, <1>2
  <2> QED BY <1>2, <1>3, <1>4, <2>1 DEF RowFollows
<1>9. LineFollows
  <2>1. at # P!Dead
    BY <1>1, <1>3
  <2> QED BY <1>3, <2>1 DEF LineFollows
<1>10. Follows(run, row)
  <2>1. \A i \in P!Phases : row.phases[i] = none /\ none.done <= none.done
    BY <1>2, <1>3, <1>4
  <2> QED BY <1>2, <1>3, <2>1 DEF Follows
<1>11. P!Told(run)
  BY <1>3, <1>6, <1>7, <1>8, <1>9, LatestRowTells
<1> QED BY <1>6, <1>7, <1>8, <1>9, <1>10, <1>11 DEF StepsInv

\* The invariant of the steps: every step is in the row from its first moment to its last,
\* only counts are behind, and the tab has some earlier row.
THEOREM StepsInvariance == Spec => [](part = "steps" => StepsInv)
<1>1. Init => (part = "steps" => StepsInv)
  BY OnePartBegins, StepsBegin, BoundsAssumption
<1>2. (part = "steps" => StepsInv) /\ [Next]_vars => (part = "steps" => StepsInv)'
  BY OnePartSteps, StepsSteps, BoundsAssumption
<1> QED BY <1>1, <1>2, PTL DEF Spec

\* What the indicator and the summary of a run say of its steps is true of the worker, and
\* no step goes back, for any number of elements, flushes, rollbacks, stops and restarts
\* (runSteps, RunProgress).
THEOREM StepsAreTold == Spec => StepsTold
<1> DEFINE Inv == part = "steps" => StepsInv
           Forward == part = "steps" => P!NeverBack
<1>1. Inv => (part = "steps" => P!Told(v7))
  BY DEF StepsInv
<1>2. Inv /\ [Next]_vars => [Forward]_vars
  <2> SUFFICES ASSUME part = "steps", StepsInv, [Next]_vars PROVE P!NeverBack
    OBVIOUS
  <2>1. [P!Next]_(P!vars) /\ StepsInv'
    BY OnePartSteps, StepsSteps, BoundsAssumption
  <2>2. run' = run \/ run' = row
    BY <2>1 DEF P!vars, P!Next, P!start_phase, P!advance, P!Flush, P!Commit, P!Rollback,
       P!finish, P!Finished, P!Restart, P!cancel_run, P!useRuns
  <2>3. run \in P!Row /\ row \in P!Row /\ run' \in P!Row
        /\ \A i \in P!Phases : /\ run.phases[i].done \in Nat
                               /\ run.phases[i].status \in {"absent", "running", "done"}
    BY <2>2 DEF StepsInv, P!TypeOK, P!Row, P!Progress
  <2>4. Follows(run, run')
    BY <2>2, <2>3 DEF StepsInv, Follows
  <2>5. ASSUME NEW i \in P!Phases
        PROVE  P!Rank(P!runSteps(run)[i]) <= P!Rank(P!runSteps(run')[i])
    <3>1. /\ run.phases[i].status # "absent" => run'.phases[i].status # "absent"
          /\ run.phases[i].status = "done" => run'.phases[i] = run.phases[i]
          /\ run.finished_at => run'.finished_at
      BY <2>4 DEF Follows
    <3>2. P!Rank(P!runSteps(run)[i]) =
              IF run.phases[i].status = "absent" THEN 0
              ELSE IF run.finished_at \/ run.phases[i].status = "done" THEN 2 ELSE 1
      BY <2>3, RankOfStep
    <3>3. P!Rank(P!runSteps(run')[i]) =
              IF run'.phases[i].status = "absent" THEN 0
              ELSE IF run'.finished_at \/ run'.phases[i].status = "done" THEN 2 ELSE 1
      BY <2>3, RankOfStep
    <3> QED BY <3>1, <3>2, <3>3
  <2>6. \A i \in P!Phases : run.phases[i].done <= run'.phases[i].done
    BY <2>4 DEF Follows
  <2> QED BY <2>5, <2>6 DEF P!NeverBack
<1>3. Spec => []Inv
  BY StepsInvariance
<1> QED BY <1>1, <1>2, <1>3, PTL DEF Spec, StepsTold

-----------------------------------------------------------------------------
(* The changes since the last scan                                          *)

LOCAL index == v1
LOCAL excluded == v2
LOCAL runLog == v3
LOCAL picture == v4
LOCAL changes == v5
LOCAL readBy == v6
LOCAL taken == v7
LOCAL mixed == v8
LOCAL answer == v9
LOCAL chip == v10
LOCAL acts == v11
USE DEF index, excluded, runLog, picture, changes, readBy, taken, mixed, answer, chip, acts

RunRow == [at : {"working", "comparing", "over"}, saved : BOOLEAN]
Change == [run : 1 .. MaxScans, file : Files, kind : G!Kinds]

\* The runs that left a picture, the latest of them, and the one before a given one.
Pictured == {i \in DOMAIN runLog : runLog[i].saved}
Latest(i) == i \in Pictured /\ \A j \in Pictured : j <= i
Before(p, i) == p \in Pictured /\ p < i /\ \A j \in Pictured : j < i => j <= p

\* What a run that read `pic` records, and what happened between two pictures.
RowsOf(i, pic) ==
    {[run |-> i, file |-> f, kind |-> G!Kind(pic.before[f], pic.now[f])] :
        f \in {g \in Files \ pic.hidden : pic.before[g] # pic.now[g]}}
Real(b, a) == {f \in Files \ a.hidden : G!Kind(b.now[f], a.now[f]) # "none"}

\* Only a run that is over has left a picture, and only those that have recorded changes.
PicturesAreDone ==
    /\ IsFiniteSet(changes)
    /\ \A i \in Pictured : runLog[i].at = "over"
    /\ \A c \in changes : c.run \in Pictured

\* Unless runs overlapped: the picture is the latest run's, which compared it with the one
\* before, and all it recorded is kept.
PicturesFollow ==
    ~mixed => \A i \in Pictured : Latest(i) =>
        /\ picture = taken[i].now
        /\ \A p \in Pictured : Before(p, i) => taken[i].before = taken[p].now
        /\ taken[i].before # G!Gone => {c \in changes : c.run = i} = RowsOf(i, taken[i])

\* An answer tells what happened between two pictures.
Tells(ans, b, a) ==
    /\ \A c \in ans.rows : /\ c.run = ans.run /\ c.file \in Real(b, a)
                           /\ c.kind = G!Kind(b.now[c.file], a.now[c.file])
    /\ ans.total = Cardinality(Real(b, a))
    /\ \A k \in G!Kinds : ans.counts[k] =
          Cardinality({f \in Real(b, a) : G!Kind(b.now[f], a.now[f]) = k})

\* So does the answer the tab has, the latest one or an older one.
AnswerTells ==
    answer.run # 0 =>
        /\ {answer.run, answer.since} \subseteq Pictured
        /\ ~mixed /\ taken[answer.since].now # G!Gone =>
              Tells(answer, taken[answer.since], taken[answer.run])

ChangesInv == G!TypeOK /\ PicturesAreDone /\ PicturesFollow /\ AnswerTells

-----------------------------------------------------------------------------
\* The parts' cardinality is the one of the theorems.
LEMMA SameCardinality == \A set : G!Cardinality(set) = Cardinality(set)
  BY DEF G!Cardinality, Cardinality

\* Sets whose elements are each of one file count as many as the files.
LEMMA CountedByFile ==
  ASSUME NEW rows, NEW files, IsFiniteSet(files),
         \A c \in rows : c.file \in files,
         \A f \in files : \E c \in rows : c.file = f,
         \A c, d \in rows : c.file = d.file => c = d
  PROVE  IsFiniteSet(rows) /\ Cardinality(rows) = Cardinality(files)
<1> DEFINE g == [c \in rows |-> c.file]
<1>1. g \in [rows -> files] /\ \A c \in rows : g[c] = c.file
  OBVIOUS
<1> HIDE DEF g
<1>2. g \in Injection(rows, files)
  BY <1>1 DEF Injection, IsInjective
<1>3. g \in Surjection(rows, files)
  BY <1>1 DEF Surjection
<1> QED BY <1>2, <1>3, FS_Injection

\* A finite set has a part of every smaller size.
LEMMA PartOfSize ==
  ASSUME NEW set, IsFiniteSet(set), NEW n \in Nat, n <= Cardinality(set)
  PROVE  \E some \in SUBSET set : Cardinality(some) = n
<1> DEFINE size == Cardinality(set)
<1>1. size \in Nat /\ ExistsBijection(1 .. size, set)
  BY FS_CardinalityType
<1>2. PICK f : f \in Bijection(1 .. size, set)
  BY <1>1 DEF ExistsBijection
<1> HIDE DEF size
<1>3. f \in [1 .. size -> set] /\ \A i, j \in 1 .. size : f[i] = f[j] => i = j
  BY <1>2 DEF Bijection, Injection, IsInjective
<1>4. \A i \in 1 .. n : i \in 1 .. size
  BY <1>1 DEF size
<1> DEFINE some == {f[i] : i \in 1 .. n}
           g == [i \in 1 .. n |-> f[i]]
<1>5. some \in SUBSET set
  BY <1>3, <1>4
<1>6. g \in [1 .. n -> some] /\ \A i \in 1 .. n : g[i] = f[i]
  OBVIOUS
<1>7. \A x \in some : \E i \in 1 .. n : g[i] = x
  BY <1>6
<1> HIDE DEF some, g
<1>8. g \in Bijection(1 .. n, some)
  BY <1>3, <1>4, <1>6, <1>7 DEF Bijection, Injection, Surjection, IsInjective
<1>9. IsFiniteSet(1 .. n) /\ Cardinality(1 .. n) = n
  BY FS_Interval
<1>10. Cardinality(some) = n
  BY <1>8, <1>9, FS_Bijection DEF ExistsBijection
<1> QED BY <1>5, <1>10

\* A change of kind none is none.
LEMMA KindOfChange ==
  ASSUME NEW s \in G!States, NEW t \in G!States
  PROVE  G!Kind(s, t) \in G!Kinds \union {"none"} /\ (G!Kind(s, t) = "none" <=> s = t)
  BY DEF G!Kind, G!Kinds, G!States, G!Seeding

\* What a run records is what happened between the pictures, a row for a file.
LEMMA RowsAreReal ==
  ASSUME IsFiniteSet(Files), NEW i \in 1 .. MaxScans, NEW a \in G!Reading, NEW b \in G!Reading,
         a.before = b.now
  PROVE  /\ \A c \in RowsOf(i, a) : /\ c.run = i /\ c.file \in Real(b, a)
                                    /\ c.kind = G!Kind(b.now[c.file], a.now[c.file])
                                    /\ c \in Change
         /\ IsFiniteSet(RowsOf(i, a)) /\ Cardinality(RowsOf(i, a)) = Cardinality(Real(b, a))
         /\ \A k \in G!Kinds : Cardinality({c \in RowsOf(i, a) : c.kind = k})
                                 = Cardinality({f \in Real(b, a) : G!Kind(b.now[f], a.now[f]) = k})
<1> DEFINE told(f) == G!Kind(b.now[f], a.now[f])
           entry(f) == [run |-> i, file |-> f, kind |-> told(f)]
<1>1. \A f \in Files : /\ b.now[f] \in G!States /\ a.now[f] \in G!States
                       /\ told(f) \in G!Kinds \union {"none"}
                       /\ told(f) # "none" <=> b.now[f] # a.now[f]
  BY KindOfChange DEF G!Reading
<1>2. Real(b, a) = {f \in Files \ a.hidden : b.now[f] # a.now[f]}
  BY <1>1 DEF Real
<1>3. RowsOf(i, a) = {entry(f) : f \in Real(b, a)}
  BY <1>2 DEF RowsOf
<1>4. \A f \in Real(b, a) : f \in Files /\ told(f) \in G!Kinds
  BY <1>1, <1>2
<1>5. \A f : entry(f).run = i /\ entry(f).file = f /\ entry(f).kind = told(f)
  OBVIOUS
<1>6. \A f \in Real(b, a) : entry(f) \in Change
  BY <1>4 DEF Change
<1>7. IsFiniteSet(Real(b, a))
  <2>1. Real(b, a) \in SUBSET Files
    BY DEF Real
  <2> QED BY <2>1, FS_Subset
<1> HIDE DEF told, row
<1>8. IsFiniteSet(RowsOf(i, a)) /\ Cardinality(RowsOf(i, a)) = Cardinality(Real(b, a))
  <2>1. \A c \in RowsOf(i, a) : c.file \in Real(b, a) /\ c = entry(c.file)
    BY <1>3, <1>5
  <2>2. \A f \in Real(b, a) : \E c \in RowsOf(i, a) : c.file = f
    BY <1>3, <1>5
  <2> QED BY <1>7, <2>1, <2>2, CountedByFile
<1>9. ASSUME NEW k \in G!Kinds
      PROVE  Cardinality({c \in RowsOf(i, a) : c.kind = k})
               = Cardinality({f \in Real(b, a) : told(f) = k})
  <2> DEFINE some == {c \in RowsOf(i, a) : c.kind = k}
             files == {f \in Real(b, a) : told(f) = k}
  <2>1. \A c \in some : c.file \in files /\ c = entry(c.file)
    BY <1>3, <1>5
  <2>2. \A f \in files : \E c \in some : c.file = f
    BY <1>3, <1>5
  <2>3. IsFiniteSet(files)
    <3>1. files \in SUBSET Real(b, a)
      OBVIOUS
    <3> QED BY <1>7, <3>1, FS_Subset
  <2> HIDE DEF some, files
  <2>4. Cardinality(some) = Cardinality(files)
    BY <2>1, <2>2, <2>3, CountedByFile
  <2> QED BY <2>4 DEF some, files
<1>10. \A c \in RowsOf(i, a) : /\ c.run = i /\ c.file \in Real(b, a)
                               /\ c.kind = G!Kind(b.now[c.file], a.now[c.file]) /\ c \in Change
  BY <1>3, <1>5, <1>6 DEF told
<1> QED BY <1>8, <1>9, <1>10 DEF told

\* What the types say of the runs.
LEMMA RunTypes ==
  ASSUME MaxScans \in Nat, G!TypeOK
  PROVE  /\ runLog \in Seq(RunRow) /\ Len(runLog) \in Nat /\ DOMAIN runLog = 1 .. Len(runLog)
         /\ Len(runLog) <= MaxScans /\ DOMAIN runLog \subseteq 1 .. MaxScans
         /\ Pictured \in SUBSET (0 .. MaxScans) /\ IsFiniteSet(Pictured)
         /\ \A i \in DOMAIN runLog : runLog[i] \in RunRow
         /\ \A i \in DOMAIN runLog : taken[i] \in G!Reading /\ readBy[i] \in G!Reading
<1>1. runLog \in Seq(RunRow) /\ Len(runLog) <= MaxScans
      /\ taken \in [1 .. MaxScans -> G!Reading] /\ readBy \in [1 .. MaxScans -> G!Reading]
  BY DEF G!TypeOK, RunRow
<1>2. Len(runLog) \in Nat /\ DOMAIN runLog = 1 .. Len(runLog)
  BY <1>1, LenProperties
<1>3. DOMAIN runLog \subseteq 1 .. MaxScans
  BY <1>1, <1>2
<1>4. Pictured \in SUBSET (0 .. MaxScans)
  BY <1>3 DEF Pictured
<1>5. IsFiniteSet(Pictured)
  <2>1. IsFiniteSet(0 .. MaxScans)
    BY FS_Interval
  <2> QED BY <1>4, <2>1, FS_Subset
<1>6. \A i \in DOMAIN runLog : runLog[i] \in RunRow
  BY <1>1, ElementOfSeq
<1> QED BY <1>1, <1>2, <1>3, <1>4, <1>5, <1>6

\* What is answered names the latest picture and the one before, and lists some of the
\* changes of the latest.
LEMMA WhatIsAnswered ==
  ASSUME MaxScans \in Nat, Limit \in Nat, G!TypeOK, IsFiniteSet(changes)
  PROVE  \/ G!get_changes = G!NoAnswer
         \/ \E i, p \in Pictured :
              LET rows == {c \in changes : c.run = i}
              IN  /\ Latest(i) /\ Before(p, i)
                  /\ G!get_changes.run = i /\ G!get_changes.since = p
                  /\ G!get_changes.total = Cardinality(rows)
                  /\ G!get_changes.rows \in SUBSET rows
                  /\ \A k \in G!Kinds : G!get_changes.counts[k] = Cardinality({c \in rows : c.kind = k})
<1> DEFINE current == G!Max(Pictured)
           previous == G!Max(Pictured \ {current})
           rows == {c \in changes : c.run = current}
           some == CHOOSE listed \in SUBSET rows :
                      G!Cardinality(listed) = G!Min({Limit, G!Cardinality(rows)})
           full == [run |-> current, since |-> previous, total |-> G!Cardinality(rows),
                    counts |-> [k \in G!Kinds |-> G!Cardinality({c \in rows : c.kind = k})],
                    rows |-> some]
<1>1. G!get_changes = IF G!Cardinality(Pictured) < 2 THEN G!NoAnswer ELSE full
  BY DEF G!get_changes, Pictured
<1> SUFFICES ASSUME ~ (G!Cardinality(Pictured) < 2)
             PROVE  \E i, p \in Pictured :
                      LET mine == {c \in changes : c.run = i}
                      IN  /\ Latest(i) /\ Before(p, i)
                          /\ full.run = i /\ full.since = p
                          /\ full.total = Cardinality(mine)
                          /\ full.rows \in SUBSET mine
                          /\ \A k \in G!Kinds : full.counts[k] = Cardinality({c \in mine : c.kind = k})
  BY <1>1
<1>2. Pictured \in SUBSET (0 .. MaxScans) /\ IsFiniteSet(Pictured)
  BY RunTypes
<1>3. Pictured # {} /\ \A i \in Pictured : Pictured \ {i} # {}
  <2>1. Cardinality(Pictured) \in Nat /\ ~ (Cardinality(Pictured) < 2)
    BY <1>2, SameCardinality, FS_CardinalityType
  <2>2. Cardinality({}) = 0 /\ \A i : Cardinality({i}) = 1
    BY FS_EmptySet, FS_Singleton
  <2>3. Cardinality(Pictured) # 0 /\ Cardinality(Pictured) # 1
    BY <2>1
  <2>4. Pictured # {} /\ \A i : Pictured # {i}
    BY <2>2, <2>3, Zenon
  <2> QED BY <2>4
<1>4. current \in Pictured /\ Latest(current)
  <2>1. \E i \in Pictured : \A j \in Pictured : j <= i
    BY <1>2, <1>3, Largest
  <2>2. \A i, j \in Pictured : i >= j <=> j <= i
    BY <1>2
  <2>3. \E i \in Pictured : \A j \in Pictured : i >= j
    BY <2>1, <2>2
  <2>4. current \in Pictured /\ \A j \in Pictured : current >= j
    BY <2>3 DEF G!Max
  <2> QED BY <2>2, <2>4 DEF Latest
<1> HIDE DEF current
<1>5. previous \in Pictured /\ Before(previous, current)
  <2>0. Pictured \ {current} \in SUBSET (0 .. MaxScans) /\ Pictured \ {current} # {}
    BY <1>2, <1>3, <1>4
  <2>1. \E i \in Pictured \ {current} : \A j \in Pictured \ {current} : j <= i
    BY <2>0, Largest
  <2>2. \A i, j \in Pictured : i >= j <=> j <= i
    BY <1>2
  <2>3. \E i \in Pictured \ {current} : \A j \in Pictured \ {current} : i >= j
    BY <2>1, <2>2
  <2>4. previous \in Pictured \ {current} /\ \A j \in Pictured \ {current} : previous >= j
    BY <2>3 DEF G!Max
  <2> HIDE DEF previous
  <2>5. previous < current
    BY <1>2, <1>4, <2>4 DEF Latest
  <2>6. \A j \in Pictured : j < current => j <= previous
    BY <1>2, <1>4, <2>2, <2>4
  <2> QED BY <2>4, <2>5, <2>6 DEF Before
<1> HIDE DEF previous
<1>6. some \in SUBSET rows
  <2>1. IsFiniteSet(rows)
    BY FS_Subset
  <2>2. Cardinality(rows) \in Nat
    BY <2>1, FS_CardinalityType
  <2> HIDE DEF rows
  <2> DEFINE least == G!Min({Limit, Cardinality(rows)})
  <2>3. least \in {Limit, Cardinality(rows)} /\ \A n \in {Limit, Cardinality(rows)} : least =< n
    <3>1. \E m \in {Limit, Cardinality(rows)} : \A n \in {Limit, Cardinality(rows)} : m =< n
      BY <2>2
    <3> QED BY <3>1 DEF G!Min
  <2> HIDE DEF least
  <2>4. \E listed \in SUBSET rows : Cardinality(listed) = least
    BY <2>1, <2>2, <2>3, PartOfSize
  <2>5. \E listed \in SUBSET rows : G!Cardinality(listed) = G!Min({Limit, G!Cardinality(rows)})
    BY <2>4, SameCardinality DEF least
  <2> QED BY <2>5
<1> HIDE DEF some
<1>7. /\ full.run = current /\ full.since = previous /\ full.rows = some
      /\ full.total = G!Cardinality(rows)
      /\ \A k \in G!Kinds : full.counts[k] = G!Cardinality({c \in rows : c.kind = k})
  OBVIOUS
<1>8. /\ full.total = Cardinality(rows)
      /\ \A k \in G!Kinds : full.counts[k] = Cardinality({c \in rows : c.kind = k})
  BY <1>7, SameCardinality
<1> HIDE DEF full
<1> QED BY <1>4, <1>5, <1>6, <1>7, <1>8

\* A row of the log is written.
LEMMA RunRowWritten ==
  ASSUME MaxScans \in Nat, G!TypeOK, NEW i \in DOMAIN runLog, NEW c \in RunRow,
         runLog' = [runLog EXCEPT ![i] = c]
  PROVE  /\ runLog' \in Seq(RunRow) /\ Len(runLog') = Len(runLog) /\ DOMAIN runLog' = DOMAIN runLog
         /\ \A j \in DOMAIN runLog : runLog'[j] = IF j = i THEN c ELSE runLog[j]
<1>1. runLog \in Seq(RunRow) /\ Len(runLog) \in Nat /\ DOMAIN runLog = 1 .. Len(runLog)
  BY RunTypes
<1>2. runLog' \in Seq(RunRow) /\ Len(runLog') = Len(runLog)
  BY <1>1, ExceptSeq
<1> QED BY <1>1, <1>2

\* A step that leaves the pictures and the tab's answer alone.
LEMMA PicturesStay ==
  ASSUME ChangesInv, G!TypeOK', Pictured' = Pictured, \A i \in Pictured : runLog'[i] = runLog[i],
         UNCHANGED <<picture, changes, taken, mixed, answer>>
  PROVE  ChangesInv'
<1>1. PicturesAreDone'
  BY DEF ChangesInv, PicturesAreDone
<1>2. PicturesFollow'
  BY DEF ChangesInv, PicturesFollow, Latest, Before
<1>3. AnswerTells'
  BY DEF ChangesInv, AnswerTells
<1> QED BY <1>1, <1>2, <1>3 DEF ChangesInv

\* A run begins.
LEMMA ScanStarted ==
  ASSUME MaxScans \in Nat, ChangesInv, G!start_run
  PROVE  ChangesInv'
<1> DEFINE c == [at |-> "working", saved |-> FALSE]
<1>1. /\ runLog \in Seq(RunRow) /\ Len(runLog) \in Nat /\ DOMAIN runLog = 1 .. Len(runLog)
      /\ Len(runLog) < MaxScans /\ runLog' = Append(runLog, c) /\ c \in RunRow /\ c.saved = FALSE
      /\ UNCHANGED <<index, excluded, picture, changes, readBy, taken, mixed, answer, chip, acts>>
  BY RunTypes DEF ChangesInv, G!start_run, RunRow
<1> HIDE DEF c
<1>2. /\ runLog' \in Seq(RunRow) /\ Len(runLog') = Len(runLog) + 1
      /\ DOMAIN runLog' = 1 .. Len(runLog) + 1
      /\ \A i \in 1 .. Len(runLog) : runLog'[i] = runLog[i]
      /\ runLog'[Len(runLog) + 1] = c
  BY <1>1, AppendProperties
<1>3. G!TypeOK'
  <2>1. Len(runLog') <= MaxScans
    BY <1>1, <1>2
  <2>2. answer'.run \in 0 .. Len(runLog')
    BY <1>1, <1>2 DEF ChangesInv, G!TypeOK
  <2> QED BY <1>1, <1>2, <2>1, <2>2 DEF ChangesInv, G!TypeOK, RunRow
<1>4. Pictured' = Pictured
  <2>1. \A i \in DOMAIN runLog' : i \in DOMAIN runLog \/ i = Len(runLog) + 1
    BY <1>1, <1>2
  <2>2. DOMAIN runLog \subseteq DOMAIN runLog'
    BY <1>1, <1>2
  <2> QED BY <1>1, <1>2, <2>1, <2>2 DEF Pictured
<1> QED BY <1>1, <1>2, <1>3, <1>4, PicturesStay DEF Pictured

\* A run reads both sides, or ends without a picture.
LEMMA ScanCompared ==
  ASSUME MaxScans \in Nat, MaxChanges \in Nat, ChangesInv, NEW i \in DOMAIN runLog,
         G!Compare(i) \/ G!EndsWithout(i)
  PROVE  ChangesInv'
<1>1. /\ runLog[i] \in RunRow /\ DOMAIN runLog \subseteq 1 .. MaxScans /\ Len(runLog) <= MaxScans
      /\ readBy \in [1 .. MaxScans -> G!Reading]
  BY RunTypes DEF ChangesInv, G!TypeOK
<1>2. ~runLog[i].saved
  BY DEF ChangesInv, PicturesAreDone, Pictured, G!Compare, G!EndsWithout
<1>3. /\ UNCHANGED <<index, excluded, picture, changes, taken, mixed, answer, chip>>
      /\ acts' \in 0 .. MaxChanges
  <2>1. CASE G!Compare(i)
    BY <2>1 DEF G!Compare, ChangesInv, G!TypeOK
  <2>2. CASE G!EndsWithout(i)
    BY <2>2 DEF G!EndsWithout, G!Act, ChangesInv, G!TypeOK
  <2> QED BY <2>1, <2>2
<1>4. \E s \in {"comparing", "over"} : runLog' = [runLog EXCEPT ![i].at = s]
  BY DEF G!Compare, G!EndsWithout
<1>5. PICK s \in {"comparing", "over"} : runLog' = [runLog EXCEPT ![i].at = s]
  BY <1>4
<1> DEFINE c == [runLog[i] EXCEPT !.at = s]
<1>6. c \in RunRow /\ c.saved = FALSE
  BY <1>1, <1>2 DEF RunRow
<1>7. runLog' = [runLog EXCEPT ![i] = c]
  BY <1>5
<1> HIDE DEF c
<1>8. /\ runLog' \in Seq(RunRow) /\ Len(runLog') = Len(runLog) /\ DOMAIN runLog' = DOMAIN runLog
      /\ \A j \in DOMAIN runLog : runLog'[j] = IF j = i THEN c ELSE runLog[j]
  BY <1>6, <1>7, RunRowWritten DEF ChangesInv
<1>9. readBy' \in [1 .. MaxScans -> G!Reading]
  <2>1. [now |-> index, before |-> picture, hidden |-> excluded] \in G!Reading
    BY DEF G!Reading, ChangesInv, G!TypeOK
  <2>2. G!Unread \in G!Reading
    BY DEF G!Unread, G!Reading, G!Gone, G!States
  <2> QED BY <1>1, <2>1, <2>2 DEF G!Compare, G!EndsWithout
<1>10. G!TypeOK'
  <2>1. Len(runLog') <= MaxScans /\ answer'.run \in 0 .. Len(runLog')
    BY <1>1, <1>3, <1>8 DEF ChangesInv, G!TypeOK
  <2> QED BY <1>3, <1>8, <1>9, <2>1 DEF ChangesInv, G!TypeOK, RunRow
<1>11. Pictured' = Pictured
  BY <1>2, <1>6, <1>8 DEF Pictured
<1>12. \A j \in Pictured : runLog'[j] = runLog[j]
  BY <1>2, <1>8 DEF Pictured
<1> QED BY <1>3, <1>10, <1>11, <1>12, PicturesStay

\* A file is found in another state, or excluded, or another chip is chosen.
LEMMA FilesChange ==
  ASSUME MaxScans \in Nat, MaxChanges \in Nat, ChangesInv,
         \/ \E f \in Files : G!Exclude(f) \/ \E s \in G!States : G!Found(f, s)
         \/ G!ChangesCard
  PROVE  ChangesInv'
<1>1. UNCHANGED <<runLog, picture, changes, readBy, taken, mixed, answer>>
  BY DEF G!Exclude, G!Found, G!ChangesCard, G!server
<1>2. acts' \in 0 .. MaxChanges
  <2>1. CASE G!ChangesCard
    BY <2>1 DEF G!ChangesCard, ChangesInv, G!TypeOK
  <2>2. CASE \E f \in Files : G!Exclude(f) \/ \E s \in G!States : G!Found(f, s)
    BY <2>2 DEF G!Exclude, G!Found, G!Act, ChangesInv, G!TypeOK
  <2> QED BY <2>1, <2>2
<1>3. index' \in [Files -> G!States] /\ excluded' \subseteq Files
  BY DEF G!Exclude, G!Found, G!ChangesCard, G!server, ChangesInv, G!TypeOK
<1>4. chip' \in G!Kinds \union {"all"}
  BY DEF G!Exclude, G!Found, G!ChangesCard, G!chips, ChangesInv, G!TypeOK
<1>5. G!TypeOK'
  BY <1>1, <1>2, <1>3, <1>4 DEF ChangesInv, G!TypeOK
<1> QED BY <1>1, <1>5, PicturesStay DEF Pictured

\* Only changes that were recorded are kept, and all those of the last run that has some.
LEMMA KeptChanges ==
  ASSUME Kept \in Nat \ {0}, NEW all
  PROVE  /\ G!KeptOf(all) \subseteq all
         /\ \A c \in all : (\A d \in all : ~ (d.run > c.run)) => c \in G!KeptOf(all)
<1> DEFINE with == {c.run : c \in all}
           later(c) == {r \in with : r > c.run}
<1>1. G!KeptOf(all) = {c \in all : G!Cardinality(later(c)) < Kept}
  BY DEF G!KeptOf
<1>2. ASSUME NEW c \in all, \A d \in all : ~ (d.run > c.run)
      PROVE  G!Cardinality(later(c)) < Kept
  <2>1. later(c) = {}
    BY <1>2
  <2>2. G!Cardinality(later(c)) = 0
    BY <2>1, SameCardinality, FS_EmptySet
  <2> QED BY <2>2
<1> HIDE DEF later
<1> QED BY <1>1, <1>2

\* A run records what it found.
LEMMA ScanRecorded ==
  ASSUME MaxScans \in Nat, Kept \in Nat \ {0}, IsFiniteSet(Files), ChangesInv,
         NEW i \in DOMAIN runLog, G!Record(i)
  PROVE  ChangesInv'
<1> DEFINE a == readBy[i]
           c == [at |-> "over", saved |-> TRUE]
           none == [now |-> a.before, before |-> a.before, hidden |-> {}]
<1>1. /\ DOMAIN runLog \subseteq 1 .. MaxScans /\ Len(runLog) <= MaxScans
      /\ readBy \in [1 .. MaxScans -> G!Reading] /\ taken \in [1 .. MaxScans -> G!Reading]
      /\ a \in G!Reading /\ i \in 1 .. MaxScans /\ changes \subseteq Change
      /\ Pictured \in SUBSET (0 .. MaxScans)
  BY RunTypes DEF ChangesInv, G!TypeOK, Change
<1>2. /\ runLog[i].at = "comparing"
      /\ changes' = IF a.before = G!Gone THEN changes ELSE G!KeptOf(changes \union G!Differences(i))
      /\ picture' = a.now /\ runLog' = [runLog EXCEPT ![i] = c]
      /\ taken' = [taken EXCEPT ![i] = a] /\ readBy' = [readBy EXCEPT ![i] = G!Unread]
      /\ mixed' = (mixed \/ picture # a.before \/ \E j \in DOMAIN runLog : j > i /\ runLog[j].saved)
      /\ UNCHANGED <<index, excluded, answer, chip, acts>>
  BY DEF G!Record
<1>3. G!Differences(i) = RowsOf(i, a)
  BY DEF G!Differences, RowsOf
<1>4. IsFiniteSet(RowsOf(i, a)) /\ \A d \in RowsOf(i, a) : d.run = i /\ d \in Change
  <2>1. none \in G!Reading /\ none.now = a.before
    BY <1>1 DEF G!Reading
  <2> QED BY <1>1, <2>1, RowsAreReal
<1> HIDE DEF none, a
<1>5. i \notin Pictured
  BY <1>2 DEF ChangesInv, PicturesAreDone
<1>6. c \in RunRow /\ c.saved = TRUE /\ c.at = "over"
  BY DEF RunRow
<1> HIDE DEF c
<1>7. /\ runLog' \in Seq(RunRow) /\ Len(runLog') = Len(runLog) /\ DOMAIN runLog' = DOMAIN runLog
      /\ \A j \in DOMAIN runLog : runLog'[j] = IF j = i THEN c ELSE runLog[j]
  BY <1>2, <1>6, RunRowWritten DEF ChangesInv
<1>8. Pictured' = Pictured \union {i}
  BY <1>6, <1>7 DEF Pictured
<1>9. /\ IsFiniteSet(changes') /\ changes' \subseteq changes \union RowsOf(i, a)
  <2>1. changes' \subseteq changes \union RowsOf(i, a)
    BY <1>2, <1>3, KeptChanges
  <2>2. IsFiniteSet(changes \union RowsOf(i, a))
    BY <1>4, FS_Union DEF ChangesInv, PicturesAreDone
  <2> QED BY <2>1, <2>2, FS_Subset
<1>10. \A j \in 1 .. MaxScans : taken'[j] = IF j = i THEN a ELSE taken[j]
  BY <1>1, <1>2
<1>11. G!TypeOK'
  <2>1. Len(runLog') <= MaxScans /\ answer'.run \in 0 .. Len(runLog')
    BY <1>1, <1>2, <1>7 DEF ChangesInv, G!TypeOK
  <2>2. changes' \subseteq Change
    BY <1>1, <1>4, <1>9
  <2>3. G!Unread \in G!Reading
    BY DEF G!Unread, G!Reading, G!Gone, G!States
  <2>4. readBy' \in [1 .. MaxScans -> G!Reading] /\ taken' \in [1 .. MaxScans -> G!Reading]
    BY <1>1, <1>2, <2>3
  <2>5. picture' \in [Files -> G!States]
    BY <1>1, <1>2 DEF G!Reading
  <2>6. mixed' \in BOOLEAN
    BY <1>2
  <2> QED BY <1>2, <1>7, <2>1, <2>2, <2>4, <2>5, <2>6 DEF ChangesInv, G!TypeOK, RunRow, Change
<1>12. PicturesAreDone'
  BY <1>4, <1>5, <1>6, <1>7, <1>8, <1>9 DEF ChangesInv, PicturesAreDone, Pictured
<1>13. PicturesFollow'
  <2> SUFFICES ASSUME ~mixed', NEW k \in Pictured', Latest(k)'
               PROVE  /\ picture' = taken'[k].now
                      /\ \A p \in Pictured' : Before(p, k)' => taken'[k].before = taken'[p].now
                      /\ taken'[k].before # G!Gone =>
                            {d \in changes' : d.run = k} = RowsOf(k, taken'[k])
    BY DEF PicturesFollow, RowsOf
  <2>1. ~mixed /\ picture = a.before /\ \A j \in Pictured : ~ (j > i)
    BY <1>2 DEF Pictured
  <2>2. \A j \in Pictured : j < i
    BY <1>1, <1>5, <2>1
  <2>3. k = i
    <3>1. i <= k
      BY <1>8 DEF Latest
    <3> QED BY <1>1, <1>8, <2>2, <3>1
  <2>4. taken'[k] = a
    BY <1>1, <1>10, <2>3
  <2>5. ASSUME NEW p \in Pictured', Before(p, k)' PROVE taken'[k].before = taken'[p].now
    <3>1. p \in Pictured /\ p # i /\ \A j \in Pictured : j <= p
      BY <1>1, <1>8, <2>2, <2>3, <2>5 DEF Before
    <3>2. picture = taken[p].now
      BY <2>1, <3>1 DEF ChangesInv, PicturesFollow, Latest
    <3>3. taken'[p] = taken[p]
      BY <1>1, <1>10, <3>1 DEF Pictured
    <3> QED BY <2>1, <2>4, <3>2, <3>3
  <2>6. ASSUME a.before # G!Gone PROVE {d \in changes' : d.run = i} = RowsOf(i, a)
    <3>1. changes' = G!KeptOf(changes \union RowsOf(i, a))
      BY <1>2, <1>3, <2>6
    <3>2. \A d \in changes : d.run \in Pictured /\ d.run # i
      BY <1>5 DEF ChangesInv, PicturesAreDone
    <3>3. \A d \in changes \union RowsOf(i, a) : ~ (d.run > i)
      <4>1. \A d \in changes : ~ (d.run > i)
        <5> TAKE d \in changes
        <5>1. d.run \in Pictured
          BY <3>2
        <5>2. d.run < i
          BY <2>2, <5>1
        <5>3. \A j \in Pictured : j < i => ~ (j > i)
          BY <1>1
        <5> QED BY <5>1, <5>2, <5>3
      <4>2. \A d \in RowsOf(i, a) : ~ (d.run > i)
        <5>1. ~ (i > i)
          BY <1>1
        <5> QED BY <1>4, <5>1
      <4> QED BY <4>1, <4>2
    <3>4. \A d \in RowsOf(i, a) : d \in changes'
      BY <1>4, <3>1, <3>3, KeptChanges
    <3> QED BY <1>4, <1>9, <3>2, <3>4
  <2> QED BY <1>2, <2>3, <2>4, <2>5, <2>6
<1>14. AnswerTells'
  <2> SUFFICES ASSUME answer.run # 0 PROVE AnswerTells'
    BY <1>2 DEF AnswerTells
  <2>1. {answer.run, answer.since} \subseteq Pictured
    BY DEF ChangesInv, AnswerTells
  <2>2. taken'[answer.run] = taken[answer.run] /\ taken'[answer.since] = taken[answer.since]
    BY <1>1, <1>5, <1>10, <2>1 DEF Pictured
  <2>3. ~mixed' => ~mixed
    BY <1>2
  <2>4. {answer.run, answer.since} \subseteq Pictured'
    BY <1>8, <2>1
  <2> QED BY <1>2, <2>2, <2>3, <2>4 DEF ChangesInv, AnswerTells
<1> QED BY <1>11, <1>12, <1>13, <1>14 DEF ChangesInv

\* The tab is answered.
LEMMA ChangesAnswered ==
  ASSUME MaxScans \in Nat, Limit \in Nat, IsFiniteSet(Files), ChangesInv, G!useDashboardChanges
  PROVE  ChangesInv'
<1>1. answer' = G!get_changes
      /\ UNCHANGED <<index, excluded, runLog, picture, changes, readBy, taken, mixed, chip, acts>>
  BY DEF G!useDashboardChanges, G!server
<1>2. PicturesAreDone' /\ PicturesFollow'
  BY <1>1 DEF ChangesInv, PicturesAreDone, PicturesFollow, Pictured, Latest, Before
<1>3. CASE answer' = G!NoAnswer
  <2>1. answer'.run = 0 /\ answer'.rows = {}
    BY <1>3 DEF G!NoAnswer
  <2>2. answer'.run \in 0 .. Len(runLog)
    BY <2>1, RunTypes DEF ChangesInv
  <2>3. G!TypeOK'
    BY <1>1, <2>1, <2>2 DEF ChangesInv, G!TypeOK
  <2>4. AnswerTells'
    BY <2>1 DEF AnswerTells
  <2> QED BY <1>2, <2>3, <2>4 DEF ChangesInv
<1>4. ASSUME NEW i \in Pictured, NEW p \in Pictured, Latest(i), Before(p, i),
             answer'.run = i, answer'.since = p,
             answer'.total = Cardinality({c \in changes : c.run = i}),
             answer'.rows \in SUBSET {c \in changes : c.run = i},
             \A k \in G!Kinds : answer'.counts[k]
                = Cardinality({c \in {d \in changes : d.run = i} : c.kind = k})
      PROVE  ChangesInv'
  <2>1. /\ i \in 1 .. MaxScans /\ i \in 0 .. Len(runLog)
        /\ taken[i] \in G!Reading /\ taken[p] \in G!Reading
    BY RunTypes DEF ChangesInv, Pictured
  <2>2. G!TypeOK'
    <3>1. answer'.rows \subseteq [run : 1 .. MaxScans, file : Files, kind : G!Kinds]
      BY <1>4 DEF ChangesInv, G!TypeOK
    <3> QED BY <1>1, <1>4, <2>1, <3>1 DEF ChangesInv, G!TypeOK
  <2>3. {answer'.run, answer'.since} \subseteq Pictured'
    BY <1>1, <1>4 DEF Pictured
  <2>4. ASSUME ~mixed, taken[p].now # G!Gone
        PROVE  /\ {c \in changes : c.run = i} = RowsOf(i, taken[i])
               /\ taken[i].before = taken[p].now
    BY <1>4, <2>4 DEF ChangesInv, PicturesFollow
  <2>5. ASSUME ~mixed, taken[p].now # G!Gone PROVE Tells(answer', taken[p], taken[i])
    <3> DEFINE a == taken[i]
               b == taken[p]
    <3>1. a \in G!Reading /\ b \in G!Reading /\ a.before = b.now
          /\ {c \in changes : c.run = i} = RowsOf(i, a)
      BY <2>1, <2>4, <2>5
    <3> HIDE DEF a, b
    <3>2. /\ \A c \in RowsOf(i, a) : /\ c.run = i /\ c.file \in Real(b, a)
                                     /\ c.kind = G!Kind(b.now[c.file], a.now[c.file])
          /\ Cardinality(RowsOf(i, a)) = Cardinality(Real(b, a))
          /\ \A k \in G!Kinds : Cardinality({c \in RowsOf(i, a) : c.kind = k})
                                  = Cardinality({f \in Real(b, a) : G!Kind(b.now[f], a.now[f]) = k})
      BY <2>1, <3>1, RowsAreReal
    <3>3. answer'.rows \in SUBSET RowsOf(i, a) /\ answer'.total = Cardinality(RowsOf(i, a))
          /\ \A k \in G!Kinds : answer'.counts[k] = Cardinality({c \in RowsOf(i, a) : c.kind = k})
      BY <1>4, <3>1
    <3>4. Tells(answer', b, a)
      BY <1>4, <3>2, <3>3 DEF Tells
    <3> QED BY <3>4 DEF a, b
  <2>6. AnswerTells'
    BY <1>1, <1>4, <2>3, <2>5 DEF AnswerTells
  <2> QED BY <1>2, <2>2, <2>6 DEF ChangesInv
<1> QED BY <1>1, <1>3, <1>4, WhatIsAnswered DEF ChangesInv, PicturesAreDone

\* A step of the part keeps what it needs.
LEMMA ChangesSteps ==
  ASSUME MaxScans \in Nat, MaxChanges \in Nat, Limit \in Nat, Kept \in Nat \ {0},
         IsFiniteSet(Files), ChangesInv, [G!Next]_(G!vars)
  PROVE  ChangesInv'
<1>1. CASE UNCHANGED G!vars
  <2>1. UNCHANGED <<index, excluded, runLog, picture, changes, readBy, taken, mixed, answer, chip, acts>>
    BY <1>1 DEF G!vars
  <2>2. G!TypeOK'
    BY <2>1 DEF ChangesInv, G!TypeOK
  <2> QED BY <2>1, <2>2, PicturesStay DEF Pictured
<1>2. CASE G!Next
  BY <1>2, ScanStarted, ScanCompared, ScanRecorded, FilesChange, ChangesAnswered DEF G!Next
<1> QED BY <1>1, <1>2

\* Before the first run there is no picture.
LEMMA ChangesBegin ==
  ASSUME MaxScans \in Nat, MaxChanges \in Nat, G!Init
  PROVE  ChangesInv
<1>1. /\ runLog = <<>> /\ runLog \in Seq(RunRow) /\ Len(runLog) = 0 /\ DOMAIN runLog = {}
      /\ changes = {} /\ mixed = FALSE /\ answer = G!NoAnswer /\ chip = "all" /\ acts = 0
      /\ excluded = {} /\ picture = G!Gone /\ index \in [Files -> {"absent", "seeding"}]
      /\ readBy = [i \in 1 .. MaxScans |-> G!Unread] /\ taken = readBy
  BY EmptySeq DEF G!Init
<1>2. answer.run = 0 /\ answer.rows = {}
  BY <1>1 DEF G!NoAnswer
<1>3. G!Unread \in G!Reading /\ G!Gone \in [Files -> G!States]
  BY DEF G!Unread, G!Reading, G!Gone, G!States
<1>4. G!TypeOK
  <2>1. index \in [Files -> G!States]
    BY <1>1 DEF G!States
  <2>2. Len(runLog) <= MaxScans /\ answer.run \in 0 .. Len(runLog) /\ acts \in 0 .. MaxChanges
    BY <1>1, <1>2
  <2>3. readBy \in [1 .. MaxScans -> G!Reading] /\ mixed \in BOOLEAN
    BY <1>1, <1>3
  <2> QED BY <1>1, <1>2, <1>3, <2>1, <2>2, <2>3 DEF G!TypeOK, RunRow
<1>5. PicturesAreDone
  BY <1>1, FS_EmptySet DEF PicturesAreDone, Pictured
<1>6. PicturesFollow
  BY <1>1 DEF PicturesFollow, Pictured
<1>7. AnswerTells
  BY <1>2 DEF AnswerTells
<1> QED BY <1>4, <1>5, <1>6, <1>7 DEF ChangesInv

\* The invariant of the changes: unless runs overlapped, the latest picture was compared
\* with the one before it, and all that was recorded is kept.
THEOREM ChangesInvariance == Spec => [](part = "changes" => ChangesInv)
<1>1. Init => (part = "changes" => ChangesInv)
  BY OnePartBegins, ChangesBegin, BoundsAssumption
<1>2. (part = "changes" => ChangesInv) /\ [Next]_vars => (part = "changes" => ChangesInv)'
  BY OnePartSteps, ChangesSteps, BoundsAssumption, FilesAssumption
<1> QED BY <1>1, <1>2, PTL DEF Spec

\* The card of changes tells what happened between the two runs it names, for any number
\* of files, runs, changes kept and listed, whatever incomplete scans, failures and
\* restarts come between, unless runs overlap (record_changes, get_changes).
THEOREM ChangesAreTold == Spec => []ChangesTell
<1>1. (part = "changes" => ChangesInv) => ChangesTell
  <2> SUFFICES ASSUME ChangesInv PROVE G!ChangesTell
    BY DEF ChangesTell
  <2> DEFINE b == taken[answer.since]
             a == taken[answer.run]
             real == {f \in Files \ a.hidden : G!Kind(b.now[f], a.now[f]) # "none"}
  <2>1. ASSUME answer.run # 0, ~mixed, b.now # G!Gone
        PROVE  /\ \A c \in G!shown : /\ c.run = answer.run /\ c.file \in real
                                     /\ c.kind = G!Kind(b.now[c.file], a.now[c.file])
               /\ answer.total = Cardinality(real)
               /\ \A k \in G!Kinds : answer.counts[k]
                     = Cardinality({f \in real : G!Kind(b.now[f], a.now[f]) = k})
    <3>1. Tells(answer, b, a) /\ real = Real(b, a)
      BY <2>1 DEF ChangesInv, AnswerTells, Real
    <3>2. G!shown \subseteq answer.rows
      BY DEF G!shown
    <3> HIDE DEF a, b, real
    <3> QED BY <3>1, <3>2 DEF Tells
  <2>2. G!ChangesTell = (answer.run # 0 /\ ~mixed /\ b.now # G!Gone =>
           /\ \A c \in G!shown : /\ c.run = answer.run /\ c.file \in real
                                 /\ c.kind = G!Kind(b.now[c.file], a.now[c.file])
           /\ answer.total = G!Cardinality(real)
           /\ \A k \in G!Kinds : answer.counts[k]
                 = G!Cardinality({f \in real : G!Kind(b.now[f], a.now[f]) = k}))
    BY DEF G!ChangesTell
  <2> HIDE DEF a, b, real
  <2> QED BY <2>1, <2>2, SameCardinality
<1> QED BY <1>1, ChangesInvariance, PTL

-----------------------------------------------------------------------------
(* The library views                                                        *)

LOCAL tracked == v1
LOCAL reviewed == v3
LOCAL page == v4
LOCAL filters == v5
LOCAL toggled == v6
LOCAL shelf == v7
LOCAL visible == v8
LOCAL observed == v9
LOCAL open == v10
LOCAL gone == v12
USE DEF tracked, reviewed, page, filters, toggled, shelf, visible, observed, open, gone

LEMMA CountsOfViews == \A set : L!Cardinality(set) = Cardinality(set)
  BY DEF L!Cardinality, Cardinality

\* A part of the library counts something when it is not empty.
LEMMA CountsSome ==
  ASSUME IsFiniteSet(MediaFiles), NEW set \in SUBSET MediaFiles
  PROVE  /\ IsFiniteSet(set) /\ L!Cardinality(set) \in Nat
         /\ L!Cardinality(set) > 0 <=> set # {}
<1>1. IsFiniteSet(set)
  BY FS_Subset
<1>2. Cardinality(set) \in Nat
  BY <1>1, FS_CardinalityType
<1>3. Cardinality(set) = 0 <=> set = {}
  BY <1>1, FS_EmptySet
<1>4. L!Cardinality(set) = Cardinality(set)
  BY CountsOfViews
<1>5. Cardinality(set) > 0 <=> Cardinality(set) # 0
  BY <1>2
<1> QED BY <1>1, <1>2, <1>3, <1>4, <1>5

\* The state of a media file.
LEMMA StateOfMedia ==
  ASSUME NEW f \in MediaFiles
  PROVE  /\ L!StateOf(f) \in {"seeding", "orphan_media"}
         /\ L!StateOf(f) # "seeding" <=> L!StateOf(f) = "orphan_media"
  BY DEF L!StateOf

\* The sheet says orphaned of one that the tree says is seeding when its torrent file is gone.
LEMMA WhatTheSheetSays ==
  ASSUME NEW kept, kept \subseteq MediaFiles
  PROVE  LET seeding == {f \in kept : L!StateOf(f) = "seeding"}
             orphan == {f \in kept : L!StateOf(f) # "seeding"}
         IN  /\ {f \in kept : L!SheetStateOf(f) = "seeding"} = seeding \ gone
             /\ {f \in kept : L!SheetStateOf(f) # "seeding"} = orphan \union (seeding \intersect gone)
<1>1. \A f \in kept : L!StateOf(f) = "seeding" <=> f \in tracked
  BY DEF L!StateOf
<1>2. \A f \in kept : L!SheetStateOf(f) = "seeding" <=> f \in tracked /\ f \notin gone
  BY DEF L!SheetStateOf
<1> QED BY <1>1, <1>2, Zenon

\* What a tab of the tree of media files lists.
LOCAL ShownFiles(s) == L!filterFiles(MediaFiles, [L!DefaultFilters EXCEPT !.status = s])

\* A media file has a duplicate's key iff it is one.
LEMMA KeysOfCopies ==
  \A f \in MediaFiles : L!fileKey(f) \in L!duplicateKeys <=> f \in L!Duplicates
<1>1. L!Duplicates \subseteq MediaFiles
  BY LibraryAssumption DEF L!Duplicates
<1>2. \A f, g \in MediaFiles : L!fileKey(f) = L!fileKey(g) => f = g
  BY LibraryAssumption DEF L!fileKey
<1> QED BY <1>1, <1>2 DEF L!duplicateKeys

LEMMA WhatATabLists ==
  /\ ShownFiles("all") = MediaFiles \ excluded
  /\ ShownFiles("seeding") = {f \in MediaFiles \ excluded : L!StateOf(f) = "seeding"}
  /\ ShownFiles("orphan_media") = {f \in MediaFiles \ excluded : L!StateOf(f) # "seeding"}
  /\ ShownFiles("duplicates") = (MediaFiles \ excluded) \intersect L!Duplicates
<1>1. L!parseGb("") = {}
  BY DEF L!parseGb
<1>2. ASSUME NEW s
      PROVE  LET fs == [L!DefaultFilters EXCEPT !.status = s]
             IN  /\ fs.status = s /\ fs.showExcluded = FALSE /\ fs.search = ""
                 /\ fs.minGb = "" /\ fs.maxGb = ""
  BY DEF L!DefaultFilters
<1>3. ASSUME NEW s
      PROVE  ShownFiles(s) =
               {f \in MediaFiles \ excluded :
                  /\ s = "duplicates" => L!fileKey(f) \in L!duplicateKeys
                  /\ s \notin {"all", "duplicates"} => L!StateOf(f) = s}
  BY <1>1, <1>2 DEF ShownFiles, L!filterFiles
<1>4. \A f \in MediaFiles : L!fileKey(f) \in L!duplicateKeys <=> f \in L!Duplicates
  BY KeysOfCopies
<1>5. \A f \in MediaFiles : L!StateOf(f) # "seeding" <=> L!StateOf(f) = "orphan_media"
  BY StateOfMedia
<1>6. ShownFiles("all") = MediaFiles \ excluded
  BY <1>3
<1>7. ShownFiles("seeding") = {f \in MediaFiles \ excluded : L!StateOf(f) = "seeding"}
  BY <1>3
<1>8. ShownFiles("orphan_media") = {f \in MediaFiles \ excluded : L!StateOf(f) # "seeding"}
  BY <1>3, <1>5
<1>9. ShownFiles("duplicates") = (MediaFiles \ excluded) \intersect L!Duplicates
  BY <1>3, <1>4
<1> QED BY <1>6, <1>7, <1>8, <1>9

\* What a title counts on the wall of posters.
LEMMA WhatATitleCounts ==
  ASSUME NEW t
  PROVE  LET kept == L!Mine(t) \ excluded
             seeding == {f \in kept : L!StateOf(f) = "seeding"}
             orphan == {f \in kept : L!StateOf(f) # "seeding"}
         IN  /\ {L!counts(t).seeding, L!counts(t).orphan, L!counts(t).duplicate} \subseteq Nat
             /\ L!counts(t).seeding > 0 <=> seeding # {}
             /\ L!counts(t).orphan > 0 <=> orphan # {}
             /\ L!counts(t).duplicate > 0 <=> kept \intersect L!Duplicates # {}
<1> DEFINE kept == L!Mine(t) \ excluded
           seeding == {f \in kept : L!StateOf(f) = "seeding"}
           orphan == {f \in kept : L!StateOf(f) # "seeding"}
           twice == kept \intersect L!Duplicates
<1>1. /\ seeding \in SUBSET MediaFiles /\ orphan \in SUBSET MediaFiles
      /\ twice \in SUBSET MediaFiles
  BY DEF L!Mine
<1>2. /\ L!counts(t).seeding = L!Cardinality(seeding)
      /\ L!counts(t).orphan = L!Cardinality(orphan)
      /\ L!counts(t).duplicate = L!Cardinality(twice)
  BY DEF L!counts
<1> HIDE DEF seeding, orphan, twice
<1>3. /\ L!Cardinality(seeding) \in Nat /\ (L!Cardinality(seeding) > 0 <=> seeding # {})
      /\ L!Cardinality(orphan) \in Nat /\ (L!Cardinality(orphan) > 0 <=> orphan # {})
      /\ L!Cardinality(twice) \in Nat /\ (L!Cardinality(twice) > 0 <=> twice # {})
  BY <1>1, CountsSome, LibraryAssumption
<1> QED BY <1>2, <1>3 DEF seeding, orphan, twice

\* A title is on the wall iff some file of it is not excluded, under Orphaned iff one of
\* those is not seeding, and under Seeding iff all of them are.
LEMMA WhatTheWallShows ==
  ASSUME NEW k, NEW t \in L!OfKind(k)
  PROVE  LET kept == L!Mine(t) \ excluded
             wall(s) == t \in L!toCards(k) /\ L!matchesStatus(t, s)
         IN  /\ wall("all") <=> kept # {}
             /\ wall("orphan_media") <=> \E f \in kept : L!StateOf(f) # "seeding"
             /\ wall("duplicates") <=> kept \intersect L!Duplicates # {}
             /\ wall("seeding") <=> kept # {} /\ \A f \in kept : L!StateOf(f) = "seeding"
<1> DEFINE kept == L!Mine(t) \ excluded
           seeding == {f \in kept : L!StateOf(f) = "seeding"}
           orphan == {f \in kept : L!StateOf(f) # "seeding"}
<1>1. /\ L!counts(t).seeding \in Nat /\ L!counts(t).orphan \in Nat
      /\ L!counts(t).seeding > 0 <=> seeding # {}
      /\ L!counts(t).orphan > 0 <=> orphan # {}
      /\ L!counts(t).duplicate > 0 <=> kept \intersect L!Duplicates # {}
  BY WhatATitleCounts
<1>2. t \in L!toCards(k) <=> kept # {}
  <2>1. t \in L!toCards(k) <=> L!counts(t).seeding + L!counts(t).orphan > 0
    BY DEF L!toCards
  <2>2. L!counts(t).seeding + L!counts(t).orphan > 0
          <=> L!counts(t).seeding > 0 \/ L!counts(t).orphan > 0
    BY <1>1
  <2>3. seeding # {} \/ orphan # {} <=> kept # {}
    OBVIOUS
  <2> QED BY <1>1, <2>1, <2>2, <2>3
<1>3. L!counts(t).orphan = 0 <=> orphan = {}
  BY <1>1
<1>4. /\ L!matchesStatus(t, "all")
      /\ L!matchesStatus(t, "orphan_media") <=> L!counts(t).orphan > 0
      /\ L!matchesStatus(t, "duplicates") <=> L!counts(t).duplicate > 0
      /\ L!matchesStatus(t, "seeding") <=> L!counts(t).seeding > 0 /\ L!counts(t).orphan = 0
  BY DEF L!matchesStatus
<1> HIDE DEF kept
<1>5. /\ seeding # {} <=> \E f \in kept : L!StateOf(f) = "seeding"
      /\ orphan # {} <=> \E f \in kept : L!StateOf(f) # "seeding"
  OBVIOUS
<1>6. /\ t \in L!toCards(k) /\ L!matchesStatus(t, "seeding")
           <=> kept # {} /\ \A f \in kept : L!StateOf(f) = "seeding"
  BY <1>1, <1>2, <1>3, <1>4, <1>5
<1>7. t \in L!toCards(k) /\ L!matchesStatus(t, "orphan_media") <=> \E f \in kept : L!StateOf(f) # "seeding"
  BY <1>1, <1>2, <1>4, <1>5
<1>8. t \in L!toCards(k) /\ L!matchesStatus(t, "duplicates") <=> kept \intersect L!Duplicates # {}
  BY <1>1, <1>2, <1>4
<1> QED BY <1>2, <1>4, <1>6, <1>7, <1>8 DEF kept

\* The number on a tab of the tree is that of the files it lists.
LEMMA TabsCount ==
  ASSUME NEW s \in L!FolderTabs
  PROVE  L!summarizeByState(MediaFiles)[s] = L!Cardinality(ShownFiles(s))
<1> DEFINE counted == MediaFiles \ excluded
           these == {f \in counted : \/ s = "all"
                                     \/ s = L!StateOf(f)
                                     \/ s = "duplicates" /\ L!fileKey(f) \in L!duplicateKeys}
<1>1. s \in L!Tab /\ s \in {"all", "seeding", "orphan_media", "duplicates"}
  BY DEF L!FolderTabs, L!Tab
<1>2. L!summarizeByState(MediaFiles)[s] = L!Cardinality(these)
  BY <1>1 DEF L!summarizeByState
<1>3. \A f \in MediaFiles : L!fileKey(f) \in L!duplicateKeys <=> f \in L!Duplicates
  BY KeysOfCopies
<1>4. \A f \in MediaFiles : L!StateOf(f) \in {"seeding", "orphan_media"}
  BY StateOfMedia
<1>5. these = ShownFiles(s)
  <2>1. CASE s = "all"
    BY <2>1, WhatATabLists
  <2>2. CASE s = "seeding"
    BY <1>4, <2>2, WhatATabLists
  <2>3. CASE s = "orphan_media"
    BY <1>4, <2>3, WhatATabLists
  <2>4. CASE s = "duplicates"
    BY <1>3, <1>4, <2>4, WhatATabLists
  <2> QED BY <1>1, <2>1, <2>2, <2>3, <2>4
<1> QED BY <1>2, <1>5

\* The posters of a kind are those that are seeding and those that are orphaned.
LEMMA PostersCount ==
  L!summarize(shelf)["all"] = L!summarize(shelf)["seeding"] + L!summarize(shelf)["orphan_media"]
<1> DEFINE shown(s) == {t \in L!toCards(shelf) : L!matchesStatus(t, s)}
<1>1. \A s \in {"all", "seeding", "orphan_media"} :
         L!summarize(shelf)[s] = Cardinality(shown(s))
  <2>1. \A s \in L!Tab : L!summarize(shelf)[s] = L!Cardinality(shown(s))
    BY DEF L!summarize
  <2>2. {"all", "seeding", "orphan_media"} \subseteq L!Tab
    BY DEF L!Tab
  <2> QED BY <2>1, <2>2, CountsOfViews
<1>2. L!toCards(shelf) \subseteq L!OfKind(shelf)
  BY DEF L!toCards
<1>3. IsFiniteSet(shown("all")) /\ IsFiniteSet(shown("seeding")) /\ IsFiniteSet(shown("orphan_media"))
  <2>1. IsFiniteSet({f.title : f \in MediaFiles})
    <3> DEFINE g == [f \in MediaFiles |-> f.title]
               titles == {f.title : f \in MediaFiles}
    <3>1. g \in Surjection(MediaFiles, titles)
      BY DEF Surjection
    <3> QED BY <3>1, FS_Surjection, LibraryAssumption
  <2>2. \A s : shown(s) \subseteq {f.title : f \in MediaFiles}
    BY <1>2 DEF L!OfKind, L!Titles
  <2> QED BY <2>1, <2>2, FS_Subset
<1>4. \A t \in L!toCards(shelf) :
         /\ L!matchesStatus(t, "all")
         /\ L!matchesStatus(t, "seeding") <=> ~ L!matchesStatus(t, "orphan_media")
  <2> TAKE t \in L!toCards(shelf)
  <2>1. LET kept == L!Mine(t) \ excluded
            wall(s) == t \in L!toCards(shelf) /\ L!matchesStatus(t, s)
        IN  /\ wall("all") <=> kept # {}
            /\ wall("orphan_media") <=> \E f \in kept : L!StateOf(f) # "seeding"
            /\ wall("seeding") <=> kept # {} /\ \A f \in kept : L!StateOf(f) = "seeding"
    BY <1>2, WhatTheWallShows
  <2>2. L!matchesStatus(t, "all")
    BY DEF L!matchesStatus
  <2> QED BY <2>1, <2>2
<1>5. /\ shown("all") = shown("seeding") \union shown("orphan_media")
      /\ shown("seeding") \intersect shown("orphan_media") = {}
  BY <1>4
<1> HIDE DEF shown
<1>6. Cardinality(shown("all")) = Cardinality(shown("seeding")) + Cardinality(shown("orphan_media")) - 0
  BY <1>3, <1>5, FS_Union, FS_EmptySet
<1>7. Cardinality(shown("seeding")) \in Nat /\ Cardinality(shown("orphan_media")) \in Nat
  BY <1>3, FS_CardinalityType
<1> QED BY <1>1, <1>6, <1>7

\* The views agree in every state: they count and list the same files.
LEMMA ViewsOfOneLibrary == L!ViewsAgree
<1>1. ASSUME NEW k \in {"movie", "tv"}, NEW t \in L!OfKind(k)
      PROVE  LET listed(s) == L!Mine(t) \intersect ShownFiles(s)
                 wall(s) == t \in L!toCards(k) /\ L!matchesStatus(t, s)
             IN  /\ wall("all") = (listed("all") # {})
                 /\ wall("orphan_media") = (listed("orphan_media") # {})
                 /\ wall("duplicates") = (listed("duplicates") # {})
                 /\ wall("seeding") = (listed("all") # {} /\ listed("seeding") = listed("all"))
                 /\ L!detailCounts(t).seeding = L!Cardinality(listed("seeding") \ gone)
                 /\ L!detailCounts(t).orphan =
                       L!Cardinality(listed("orphan_media") \union (listed("seeding") \intersect gone))
  <2> DEFINE kept == L!Mine(t) \ excluded
             listed(s) == L!Mine(t) \intersect ShownFiles(s)
             wall(s) == t \in L!toCards(k) /\ L!matchesStatus(t, s)
  <2>1. /\ wall("all") <=> kept # {}
        /\ wall("orphan_media") <=> \E f \in kept : L!StateOf(f) # "seeding"
        /\ wall("duplicates") <=> kept \intersect L!Duplicates # {}
        /\ wall("seeding") <=> kept # {} /\ \A f \in kept : L!StateOf(f) = "seeding"
    BY <1>1, WhatTheWallShows
  <2>2. L!Mine(t) \subseteq MediaFiles
    BY DEF L!Mine
  <2>3. /\ listed("all") = kept
        /\ listed("seeding") = {f \in kept : L!StateOf(f) = "seeding"}
        /\ listed("orphan_media") = {f \in kept : L!StateOf(f) # "seeding"}
        /\ listed("duplicates") = kept \intersect L!Duplicates
    BY <2>2, WhatATabLists
  <2>4. /\ L!detailCounts(t).seeding = L!Cardinality(listed("seeding") \ gone)
        /\ L!detailCounts(t).orphan =
              L!Cardinality(listed("orphan_media") \union (listed("seeding") \intersect gone))
    <3>1. /\ L!detailCounts(t).seeding = L!Cardinality({f \in kept : L!SheetStateOf(f) = "seeding"})
          /\ L!detailCounts(t).orphan = L!Cardinality({f \in kept : L!SheetStateOf(f) # "seeding"})
      BY DEF L!detailCounts
    <3>2. kept \subseteq MediaFiles
      BY <2>2
    <3>3. /\ {f \in kept : L!SheetStateOf(f) = "seeding"} = {f \in kept : L!StateOf(f) = "seeding"} \ gone
          /\ {f \in kept : L!SheetStateOf(f) # "seeding"}
               = {f \in kept : L!StateOf(f) # "seeding"}
                   \union ({f \in kept : L!StateOf(f) = "seeding"} \intersect gone)
      BY <3>2, WhatTheSheetSays
    <3> HIDE DEF listed, kept
    <3> QED BY <2>3, <3>1, <3>3
  <2>5. /\ wall("all") \in BOOLEAN /\ wall("orphan_media") \in BOOLEAN
        /\ wall("duplicates") \in BOOLEAN /\ wall("seeding") \in BOOLEAN
    OBVIOUS
  <2> HIDE DEF listed, wall, kept
  <2>6. wall("seeding") = (listed("all") # {} /\ listed("seeding") = listed("all"))
    BY <2>1, <2>3, <2>5
  <2>7. wall("orphan_media") = (listed("orphan_media") # {})
    BY <2>1, <2>3, <2>5
  <2>8. wall("all") = (listed("all") # {}) /\ wall("duplicates") = (listed("duplicates") # {})
    BY <2>1, <2>3, <2>5
  <2> QED BY <2>4, <2>6, <2>7, <2>8 DEF listed, wall
<1>2. \A s \in L!FolderTabs : L!summarizeByState(MediaFiles)[s] = L!Cardinality(ShownFiles(s))
  BY TabsCount
<1> QED BY <1>1, <1>2, PostersCount DEF L!ViewsAgree, ShownFiles

\* What the types say, a variable at a time.
LEMMA LibraryTyped ==
  ASSUME L!TypeOK, UNCHANGED <<tracked, gone, excluded, reviewed>>,
         page' \in {"poster", "folder", "torrent"},
         filters' \in L!Filters,
         toggled' \subseteq L!buildTree(L!LibraryFiles), shelf' \in {"movie", "tv"}, visible' \in Nat,
         observed' \in BOOLEAN, open' \in L!Titles \union {"none"}, acts' \in 0 .. MaxViews
  PROVE  L!TypeOK'
  BY DEF L!TypeOK

\* The observer is there or it is not.
LEMMA ObserverTyped ==
  ASSUME L!Observe
  PROVE  observed' \in BOOLEAN
  BY DEF L!Observe

LEMMA ActTyped ==
  ASSUME MaxViews \in Nat, acts \in 0 .. MaxViews, L!Act
  PROVE  acts' \in 0 .. MaxViews
  BY DEF L!Act

\* The filters as the user sets them.
LEMMA FiltersTyped ==
  ASSUME NEW f \in L!Filters
  PROVE  LET all == L!Filters
         IN  /\ L!DefaultFilters \in all
             /\ \A s \in L!FolderTabs \union L!TorrentTabs \union L!PosterTabs :
                   [f EXCEPT !.status = s] \in all
             /\ [f EXCEPT !.showExcluded = ~@] \in all
             /\ \A text \in {"", "x"} \union L!Titles : [f EXCEPT !.search = text] \in all
             /\ \A text \in L!Sizes : [f EXCEPT !.minGb = text] \in all
             /\ \A text \in L!Sizes : [f EXCEPT !.maxGb = text] \in all
<1>1. L!FolderTabs \union L!TorrentTabs \union L!PosterTabs \subseteq L!Tab
  BY DEF L!FolderTabs, L!TorrentTabs, L!PosterTabs, L!Tab
<1>2. "all" \in L!Tab
  BY DEF L!Tab
<1> QED BY <1>1, <1>2 DEF L!DefaultFilters, L!Filters, L!Sizes

LEMMA FiltersSet ==
  ASSUME filters \in L!Filters,
         \/ filters' = filters
         \/ \E s \in L!FolderTabs \union L!TorrentTabs \union L!PosterTabs :
               filters' = [filters EXCEPT !.status = s]
         \/ filters' = [filters EXCEPT !.showExcluded = ~@]
         \/ \E text \in {"", "x"} \union L!Titles : filters' = [filters EXCEPT !.search = text]
         \/ \E text \in L!Sizes : filters' = [filters EXCEPT !.minGb = text]
         \/ \E text \in L!Sizes : filters' = [filters EXCEPT !.maxGb = text]
  PROVE  filters' \in L!Filters
<1> DEFINE all == L!Filters
<1>1. /\ \A s \in L!FolderTabs \union L!TorrentTabs \union L!PosterTabs :
             [filters EXCEPT !.status = s] \in all
      /\ [filters EXCEPT !.showExcluded = ~@] \in all
      /\ \A text \in {"", "x"} \union L!Titles : [filters EXCEPT !.search = text] \in all
      /\ \A text \in L!Sizes : [filters EXCEPT !.minGb = text] \in all
      /\ \A text \in L!Sizes : [filters EXCEPT !.maxGb = text] \in all
  BY FiltersTyped
<1>2. filters \in all
  OBVIOUS
<1> HIDE DEF all
<1>3. filters' \in all
  BY <1>1, <1>2
<1> QED BY <1>3 DEF all

\* A step of the part keeps the types.
LEMMA LibrarySteps ==
  ASSUME MaxViews \in Nat, PageSize \in Nat, L!TypeOK, [L!Next]_(L!vars)
  PROVE  L!TypeOK'
<1> DEFINE AllFilters == L!Filters
<1>0. /\ page \in {"poster", "folder", "torrent"} /\ filters \in AllFilters
      /\ toggled \subseteq L!buildTree(L!LibraryFiles) /\ shelf \in {"movie", "tv"} /\ visible \in Nat
      /\ observed \in BOOLEAN /\ open \in L!Titles \union {"none"} /\ acts \in 0 .. MaxViews
  BY DEF L!TypeOK
<1>f. filters \in AllFilters
  BY <1>0
<1>1. CASE UNCHANGED L!vars
  BY <1>1 DEF L!vars, L!TypeOK
<1>2. ASSUME NEW p \in {"poster", "folder", "torrent"}, L!Go(p) PROVE L!TypeOK'
  <2>1. /\ L!Act /\ page' = p /\ filters' = L!DefaultFilters /\ toggled' = {} /\ shelf' = "movie"
        /\ visible' = PageSize /\ L!Observe /\ UNCHANGED <<tracked, gone, excluded, reviewed, open>>
    BY <1>2 DEF L!Go
  <2>2. observed' \in BOOLEAN /\ acts' \in 0 .. MaxViews
    BY <1>0, <2>1, ObserverTyped, ActTyped
  <2>3. filters' \in AllFilters
    BY <1>0, <2>1, FiltersTyped
  <2> QED BY <1>0, <2>1, <2>2, <2>3, LibraryTyped
<1>3. CASE L!SetFilters
  <2>1. L!Act /\ UNCHANGED <<tracked, gone, excluded, reviewed, page, toggled, shelf, visible, observed, open>>
    BY <1>3 DEF L!SetFilters
  <2>2. filters' \in AllFilters
    <3>1. \/ \E s \in L!FolderTabs \union L!TorrentTabs \union L!PosterTabs :
                filters' = [filters EXCEPT !.status = s]
          \/ filters' = [filters EXCEPT !.showExcluded = ~@]
          \/ \E text \in {"", "x"} \union L!Titles : filters' = [filters EXCEPT !.search = text]
          \/ \E text \in L!Sizes : filters' = [filters EXCEPT !.minGb = text]
          \/ \E text \in L!Sizes : filters' = [filters EXCEPT !.maxGb = text]
      BY <1>3, Zenon DEF L!SetFilters
    <3> QED BY <1>f, <3>1, FiltersSet
  <2>3. acts' \in 0 .. MaxViews
    BY <1>0, <2>1, ActTyped
  <2> QED BY <1>0, <2>1, <2>2, <2>3, LibraryTyped
<1>4. ASSUME NEW n \in L!buildTree(L!LibraryFiles), L!Toggle(n) PROVE L!TypeOK'
  <2>1. /\ L!Act /\ toggled' \in {toggled \ {n}, toggled \union {n}}
        /\ UNCHANGED <<tracked, gone, excluded, reviewed, page, filters, shelf, visible, observed, open>>
    BY <1>4 DEF L!Toggle
  <2>2. toggled' \subseteq L!buildTree(L!LibraryFiles)
    BY <1>0, <1>4, <2>1
  <2>3. acts' \in 0 .. MaxViews
    BY <1>0, <2>1, ActTyped
  <2> QED BY <1>0, <2>1, <2>2, <2>3, LibraryTyped
<1>5. ASSUME NEW t \in L!Titles, L!OpenItem(t) PROVE L!TypeOK'
  <2>1. /\ L!Act /\ open' = t
        /\ UNCHANGED <<tracked, gone, excluded, reviewed, page, filters, toggled, shelf, visible, observed>>
    BY <1>5 DEF L!OpenItem
  <2>2. acts' \in 0 .. MaxViews
    BY <1>0, <2>1, ActTyped
  <2> QED BY <1>0, <1>5, <2>1, <2>2, LibraryTyped
<1>6. CASE L!CloseItem
  BY <1>0, <1>6, LibraryTyped DEF L!CloseItem
<1>7. CASE L!SetPosters
  <2>1. /\ L!Act /\ visible' = PageSize /\ L!Observe
        /\ UNCHANGED <<tracked, gone, excluded, reviewed, page, toggled, open>>
    BY <1>7 DEF L!SetPosters
  <2>2. filters' \in AllFilters
    <3>1. \/ filters' = filters
          \/ \E s \in L!FolderTabs \union L!TorrentTabs \union L!PosterTabs :
                filters' = [filters EXCEPT !.status = s]
          \/ \E text \in {"", "x"} \union L!Titles : filters' = [filters EXCEPT !.search = text]
      BY <1>7 DEF L!SetPosters
    <3> QED BY <1>f, <3>1, FiltersSet
  <2>3. shelf' \in {"movie", "tv"}
    BY <1>0, <1>7 DEF L!SetPosters
  <2>4. observed' \in BOOLEAN /\ acts' \in 0 .. MaxViews
    BY <1>0, <2>1, ObserverTyped, ActTyped
  <2> QED BY <1>0, <2>1, <2>2, <2>3, <2>4, LibraryTyped
<1>8. CASE L!ShowMore
  <2>1. /\ visible' = visible + PageSize /\ L!Observe
        /\ UNCHANGED <<tracked, gone, excluded, reviewed, page, filters, toggled, shelf, open, acts>>
    BY <1>8 DEF L!ShowMore
  <2>2. visible' \in Nat
    <3>1. visible \in Nat
      BY <1>0
    <3> QED BY <2>1, <3>1
  <2>3. observed' \in BOOLEAN
    BY <2>1, ObserverTyped
  <2> QED BY <1>0, <2>1, <2>2, <2>3, LibraryTyped
<1>9. CASE L!Refetch \/ \E f \in MediaFiles : L!Exclude(f)
  <2>1. L!Act /\ L!Observe /\ UNCHANGED <<page, filters, toggled, shelf, visible, open>>
    BY <1>9 DEF L!Refetch, L!Exclude
  <2>2. observed' \in BOOLEAN /\ acts' \in 0 .. MaxViews
    BY <1>0, <2>1, ObserverTyped, ActTyped
  <2>3. /\ tracked' \subseteq L!LibraryFiles /\ excluded' \subseteq L!LibraryFiles /\ reviewed' \subseteq MediaFiles /\ gone' \subseteq MediaFiles
    <3>1. CASE L!Refetch
      BY <3>1 DEF L!Refetch, L!TypeOK
    <3>2. CASE \E f \in MediaFiles : L!Exclude(f)
      BY <3>2 DEF L!Exclude, L!TypeOK, L!LibraryFiles
    <3> QED BY <1>9, <3>1, <3>2
  <2> QED BY <1>0, <2>1, <2>2, <2>3 DEF L!TypeOK
<1> QED BY <1>1, <1>2, <1>3, <1>4, <1>5, <1>6, <1>7, <1>8, <1>9 DEF L!Next

\* The library as it is opened.
LEMMA LibraryBegins ==
  ASSUME MaxViews \in Nat, PageSize \in Nat, L!Init
  PROVE  L!TypeOK
<1>1. L!DefaultFilters \in L!Filters
  BY DEF L!DefaultFilters, L!Filters, L!Sizes, L!Tab
<1>2. acts \in 0 .. MaxViews /\ visible \in Nat
  BY DEF L!Init
<1>3. observed \in BOOLEAN
  BY DEF L!Init, L!More
<1>4. tracked \subseteq L!LibraryFiles /\ excluded = {} /\ reviewed = {} /\ toggled = {} /\ gone = {}
      /\ page = "poster" /\ filters = L!DefaultFilters /\ shelf = "movie" /\ open = "none"
  BY DEF L!Init
<1> QED BY <1>1, <1>2, <1>3, <1>4 DEF L!TypeOK

\* The types of the library views.
THEOREM LibraryIsTyped == Spec => [](part = "library" => L!TypeOK)
<1>1. Init => (part = "library" => L!TypeOK)
  BY OnePartBegins, LibraryBegins, BoundsAssumption, LibraryAssumption
<1>2. (part = "library" => L!TypeOK) /\ [Next]_vars => (part = "library" => L!TypeOK)'
  BY OnePartSteps, LibrarySteps, BoundsAssumption, LibraryAssumption
<1> QED BY <1>1, <1>2, PTL DEF Spec

\* The posters, the tree and the sheets count and list the same files, for any library, any
\* exclusions and any torrent files that are gone, which only the sheets ask about
\* (PosterView, FileTree, ItemDetailSheet, lib/library-filters.ts, library_detail.py).
THEOREM ViewsShowOneLibrary == Spec => []ViewsAgree
<1>1. ViewsAgree
  BY ViewsOfOneLibrary DEF ViewsAgree
<1> QED BY <1>1, PTL
=================================================================================
