---------------------------- MODULE ExecutorProofs ----------------------------
(***************************************************************************)
(* The safety invariants of Executor, for any number of reviews, threads,  *)
(* paths, jobs and faults, and the refinement of JobLedger.                *)
(***************************************************************************)
EXTENDS Executor, TLAPS

-----------------------------------------------------------------------------
(* Type correctness                                                        *)

\* A row that exists keeps its fields in their types when one is replaced.
LEMMA JobsTyped ==
    ASSUME TypeOK, NEW j \in Jobs
    PROVE  /\ \A s \in JobStatus : [jobs EXCEPT ![j].status = s] \in [Jobs -> JobRecord]
           /\ \A h \in Hashes : [jobs EXCEPT ![j].hash = h] \in [Jobs -> JobRecord]
           /\ \A r \in Reviews, s \in JobStatus :
                 [jobs EXCEPT ![j] = [review |-> r, status |-> s, hash |-> NoHash]]
                     \in [Jobs -> JobRecord]
  BY DEF TypeOK, JobRecord

LEMMA IdleTyped == Idle \in ThreadRecord
  BY DEF Idle, ThreadRecord, ClientStatus

LEMMA ThreadTyped ==
    ASSUME TypeOK, NEW t \in Threads, NEW x \in ThreadRecord
    PROVE  [thread EXCEPT ![t] = x] \in [Threads -> ThreadRecord]
  BY DEF TypeOK

LEMMA Positive == ASSUME NEW j \in Jobs PROVE j # Free /\ j # Foreign /\ j # NoJob
  BY ExecutorAssumption DEF Jobs, Free, Foreign, NoJob

\* A thread that executes or reports has a review and a job to do it for.
Assigned ==
    \A t \in Threads :
        /\ IsWorking(t) => thread[t].review \in Reviews /\ thread[t].job \in Jobs
        /\ thread[t].pc = "reporting" => thread[t].job \in Jobs
        /\ thread[t].pc = "recording" => thread[t].found \in Hashes

TypeInv == TypeOK /\ Assigned

LEMMA FirstStepTyped ==
    ASSUME NEW r
    PROVE  /\ FirstStep(r) \in {"refused", "linking", "adding"}
           /\ FirstStep(r) = "adding" => Targets[r] = {}
  BY DEF FirstStep

LEMMA InitTyped == Init => TypeInv
  BY ExecutorAssumption, IdleTyped
  DEF Init, TypeInv, TypeOK, Assigned, NoRow, JobRecord, JobStatus, ClientStatus, Idle,
      IsWorking, Working

LEMMA NextTyped == TypeInv /\ [Next]_vars => TypeInv'
  <1> SUFFICES ASSUME TypeInv, [Next]_vars PROVE TypeInv'
    OBVIOUS
  <1> USE DEF TypeInv
  <1>1. ASSUME NEW p \in Paths, UserPutsFile(p) PROVE TypeInv'
    BY <1>1 DEF TypeOK, Assigned, IsWorking, UserPutsFile
  <1>2. ASSUME NEW h \in Hashes, Appear(h) PROVE TypeInv'
    BY <1>2 DEF TypeOK, Assigned, IsWorking, Appear, ClientStatus
  <1>3. ASSUME NEW h \in Hashes, RecheckEnds(h) PROVE TypeInv'
    BY <1>3 DEF TypeOK, Assigned, IsWorking, RecheckEnds, ClientStatus
  <1>4. ASSUME NEW h \in Hashes, Download(h) PROVE TypeInv'
    BY <1>4 DEF TypeOK, Assigned, IsWorking, Download, ClientStatus
  <1>5. ASSUME NEW h \in Hashes, UserRemoves(h) PROVE TypeInv'
    BY <1>5 DEF TypeOK, Assigned, IsWorking, UserRemoves, ClientStatus
  <1>6. CASE Crash
    BY <1>6, IdleTyped, ExecutorAssumption DEF TypeOK, Assigned, IsWorking, Working, Crash, Idle
  <1>7. ASSUME NEW t \in Threads, NEW r \in Reviews, Begin(t, r) PROVE TypeInv'
    <2>1. PICK j \in Jobs :
            /\ jobs' = [jobs EXCEPT ![j] = [review |-> r, status |-> "in_progress", hash |-> NoHash]]
            /\ thread' = [thread EXCEPT ![t] =
                  [Idle EXCEPT !.pc = FirstStep(r), !.review = r, !.job = j]]
      BY <1>7 DEF Begin
    <2>2. jobs' \in [Jobs -> JobRecord]
      BY <2>1, JobsTyped DEF JobStatus
    <2>3. thread' \in [Threads -> ThreadRecord]
      BY <2>1, FirstStepTyped DEF TypeOK, Idle, ThreadRecord, Working, ClientStatus
    <2>4. Assigned'
      BY <2>1, FirstStepTyped DEF TypeOK, Assigned, IsWorking, Idle
    <2>5. QED
      BY <1>7, <2>2, <2>3, <2>4 DEF TypeOK, Begin
  <1>8. ASSUME NEW t \in Threads, Record(t) PROVE TypeInv'
    <2>1. thread[t].job \in Jobs /\ thread[t].found \in Hashes
      BY <1>8 DEF Record, Assigned, IsWorking, Working
    <2>2. jobs' \in [Jobs -> JobRecord]
      BY <1>8, <2>1, JobsTyped DEF Record
    <2>3. thread' \in [Threads -> ThreadRecord] /\ Assigned'
      BY <1>8, IdleTyped DEF Record, TypeOK, Assigned, IsWorking, Working, Idle
    <2>4. QED
      BY <1>8, <2>2, <2>3 DEF TypeOK, Record
  <1>9. ASSUME NEW t \in Threads, Link(t) PROVE TypeInv'
    <2>1. PICK p \in Targets[thread[t].review] : LinkTo(t, p)
      BY <1>9 DEF Link
    <2>2. p \in Paths /\ thread[t].job \in Jobs
      BY <1>9, ExecutorAssumption DEF Link, Assigned, IsWorking, Working
    <2>3. thread' \in [Threads -> ThreadRecord]
      <3>1. [thread[t] EXCEPT !.made = thread[t].made \union {p},
                              !.pc = IF thread[t].made \union {p} = Targets[thread[t].review]
                                     THEN "adding" ELSE "linking"] \in ThreadRecord
        BY <2>2 DEF TypeOK, ThreadRecord, Working
      <3>2. QED
        BY <2>1, <3>1, ThreadTyped DEF LinkTo, Linked
    <2>4. owner' \in [Paths -> Jobs \union {Free, Foreign}]
      BY <2>1, <2>2 DEF TypeOK, LinkTo
    <2>5. Assigned'
      BY <1>9, <2>1 DEF TypeOK, LinkTo, Linked, Link, Assigned, IsWorking, Working
    <2>6. QED
      BY <1>9, <2>3, <2>4, <2>5 DEF TypeOK, Link
  <1>10. ASSUME NEW t \in Threads, Add(t) PROVE TypeInv'
    <2>1. thread' \in [Threads -> ThreadRecord]
      BY <1>10 DEF TypeOK, Add, ThreadRecord, Working, InClient
    <2>2. Assigned'
      BY <1>10 DEF TypeOK, Add, Assigned, IsWorking, Working
    <2>3. accepted' \subseteq Hashes
      BY <1>10, ExecutorAssumption DEF TypeOK, Add, Assigned, IsWorking, Working
    <2>4. QED
      BY <1>10, <2>1, <2>2, <2>3 DEF TypeOK, Add
  <1>11. ASSUME NEW t \in Threads, Found(t) PROVE TypeInv'
    <2>1. PICK h \in NewHash(t) :
            /\ client' = [client EXCEPT ![h] = "checking"]
            /\ thread' = [thread EXCEPT ![t] =
                  [thread[t] EXCEPT !.pc = "recording", !.found = h]]
      BY <1>11 DEF Found
    <2>2. h \in Hashes
      BY <2>1 DEF NewHash, InClient
    <2>3. thread' \in [Threads -> ThreadRecord]
      BY <2>1, <2>2 DEF TypeOK, ThreadRecord, Working
    <2>4. /\ \A u \in Threads \ {t} : thread'[u] = thread[u]
          /\ thread'[t].pc = "recording" /\ thread'[t].found = h
          /\ thread'[t].review = thread[t].review /\ thread'[t].job = thread[t].job
      <3>1. thread[t] \in ThreadRecord
        BY DEF TypeOK
      <3>2. QED
        BY <2>1, <3>1 DEF TypeOK, ThreadRecord
    <2>5. IsWorking(t)
      BY <1>11 DEF Found, IsWorking, Working
    <2>6. Assigned'
      BY <2>2, <2>4, <2>5 DEF Assigned, IsWorking
    <2>7. QED
      BY <1>11, <2>1, <2>2, <2>3, <2>6 DEF TypeOK, Found, ClientStatus
  <1>12. ASSUME NEW t \in Threads, Abort(t) PROVE TypeInv'
    <2>1. jobs' \in [Jobs -> JobRecord]
      BY <1>12, JobsTyped DEF Abort, Failing, Assigned, JobStatus
    <2>2. thread' \in [Threads -> ThreadRecord] /\ Assigned'
      BY <1>12, IdleTyped DEF Abort, Failing, TypeOK, Assigned, IsWorking, Working, Idle
    <2>3. PICK left \in SUBSET thread[t].made :
            /\ owner' = [p \in Paths |-> IF p \in thread[t].made \ left THEN Free ELSE owner[p]]
            /\ stuck' = IF thread[t].review \in Layout THEN stuck \union left ELSE stuck
      BY <1>12 DEF Abort, Unlinked
    <2>4. owner' \in [Paths -> Jobs \union {Free, Foreign}] /\ stuck' \subseteq Paths
      BY <2>3 DEF TypeOK, ThreadRecord
    <2>5. QED
      BY <1>12, <2>1, <2>2, <2>4 DEF TypeOK, Abort
  <1>13. ASSUME NEW t \in Threads, NEW j \in Jobs, Poll(t, j) PROVE TypeInv'
    <2>1. client[jobs[j].hash] \in ClientStatus
      BY <1>13 DEF Poll, TypeOK, JobRecord
    <2>2. thread' \in [Threads -> ThreadRecord]
      BY <1>13, <2>1 DEF Poll, TypeOK, Idle, ThreadRecord
    <2>3. Assigned'
      BY <1>13 DEF Poll, TypeOK, Idle, Assigned, IsWorking, Working
    <2>4. QED
      BY <1>13, <2>2, <2>3 DEF Poll, TypeOK
  <1>14. ASSUME NEW t \in Threads, Report(t) PROVE TypeInv'
    <2>1. PICK s : s = Outcome(thread[t].job, thread[t].seen)
      OBVIOUS
    <2>2. jobs' \in [Jobs -> JobRecord]
      BY <1>14 DEF Report, TypeOK, JobRecord, JobStatus, Assigned
    <2>3. thread' \in [Threads -> ThreadRecord] /\ Assigned'
      BY <1>14, IdleTyped DEF Report, TypeOK, Assigned, IsWorking, Working, Idle
    <2>4. QED
      BY <1>14, <2>2, <2>3 DEF Report, TypeOK
  <1>15. ASSUME NEW j \in Jobs, Retry(j) PROVE TypeInv'
    BY <1>15, JobsTyped DEF TypeOK, Assigned, IsWorking, Retry, JobStatus
  <1>18. ASSUME NEW t \in Threads, Lose(t) PROVE TypeInv'
    <2>1. thread' \in [Threads -> ThreadRecord] /\ Assigned'
      BY <1>18, IdleTyped DEF Lose, TypeOK, Assigned, IsWorking, Working, Idle
    <2>2. owner' \in [Paths -> Jobs \union {Free, Foreign}]
      BY <1>18 DEF Lose, Unlinked, TypeOK
    <2>3. faults' \in 0 .. MaxFaults /\ dropped' \subseteq Jobs
      BY <1>18, ExecutorAssumption DEF Lose, TypeOK, Assigned
    <2>4. QED
      BY <1>18, <2>1, <2>2, <2>3 DEF Lose, TypeOK
  <1>19. ASSUME NEW t \in Threads, LoseAnswer(t) PROVE TypeInv'
    <2>1. thread' \in [Threads -> ThreadRecord] /\ Assigned'
      BY <1>19, IdleTyped DEF LoseAnswer, TypeOK, Assigned, IsWorking, Working, Idle
    <2>2. QED
      BY <1>19, <2>1, ExecutorAssumption DEF LoseAnswer, TypeOK
  <1>16. CASE UNCHANGED vars
    BY <1>16 DEF TypeOK, Assigned, IsWorking, vars
  <1>17. QED
    BY <1>1, <1>2, <1>3, <1>4, <1>5, <1>6, <1>7, <1>8, <1>9, <1>10, <1>11, <1>12, <1>13,
       <1>14, <1>15, <1>16, <1>18, <1>19 DEF Next, Environment, Execution

\* Every reachable state has the declared types.
THEOREM Typed == Spec => []TypeOK
  <1>1. TypeInv => TypeOK
    BY DEF TypeInv
  <1>2. QED
    BY <1>1, InitTyped, NextTyped, PTL DEF Spec
-----------------------------------------------------------------------------
(* The inductive invariant                                                 *)

\* The destinations that hold a link of a row.
LinksOf(j) == {p \in Paths : owner[p] = j}

\* What a thread inside an execution has done so far: its row is open, and
\* the row's links are those the thread has made, all of them once it turns to
\* the client.
WorkConsistent(t) ==
    /\ jobs[thread[t].job].status = "in_progress" /\ jobs[thread[t].job].hash = NoHash
    /\ jobs[thread[t].job].review = thread[t].review
    /\ LinksOf(thread[t].job) = thread[t].made
    /\ thread[t].made \subseteq Targets[thread[t].review]
    /\ thread[t].pc \notin {"refused", "linking"} => thread[t].made = Targets[thread[t].review]
    /\ thread[t].pc = "recording" /\ thread[t].review \in Known
           => thread[t].found = Hash[thread[t].review]

\* What a row says about its review, its torrent and its links.
RowConsistent(j) ==
    /\ jobs[j].status = "none" => jobs[j].hash = NoHash /\ LinksOf(j) = {}
    /\ jobs[j].status # "none" => jobs[j].review \in Reviews
    /\ jobs[j].hash # NoHash => LinksOf(j) = Targets[jobs[j].review]
    /\ jobs[j].hash # NoHash /\ jobs[j].review \in Known => jobs[j].hash = Hash[jobs[j].review]
    /\ jobs[j].status = "failed" /\ jobs[j].hash = NoHash /\ jobs[j].review \in Layout
           => LinksOf(j) \subseteq stuck

\* No two threads execute for the same row, and one that reports does so for
\* a row that has a hash.
ThreadsConsistent ==
    /\ \A t, u \in Threads :
          IsWorking(t) /\ IsWorking(u) /\ thread[t].job = thread[u].job => t = u
    /\ \A t \in Threads :
          thread[t].pc = "reporting" => jobs[thread[t].job].hash # NoHash

Core == /\ \A t \in Threads : IsWorking(t) => WorkConsistent(t)
        /\ \A j \in Jobs : RowConsistent(j)
        /\ ThreadsConsistent

IInv == TypeInv /\ Core

-----------------------------------------------------------------------------
(* Frame lemmas: what a step does not touch stays consistent.              *)

KeepsLinks(j) == \A p \in Paths : owner'[p] = j <=> owner[p] = j

LEMMA WorkKept ==
    ASSUME Core, NEW t \in Threads, IsWorking(t), thread'[t] = thread[t],
           jobs'[thread[t].job] = jobs[thread[t].job], KeepsLinks(thread[t].job)
    PROVE  IsWorking(t)' /\ WorkConsistent(t)'
  <1>1. WorkConsistent(t)
    BY DEF Core
  <1>2. LinksOf(thread[t].job)' = LinksOf(thread[t].job)
    BY DEF LinksOf, KeepsLinks
  <1>3. IsWorking(t)'
    BY DEF IsWorking
  <1>4. QED
    BY <1>1, <1>2, <1>3 DEF WorkConsistent

LEMMA RowKept ==
    ASSUME Core, NEW j \in Jobs, jobs'[j] = jobs[j], KeepsLinks(j), stuck \subseteq stuck'
    PROVE  RowConsistent(j)'
  <1>1. RowConsistent(j)
    BY DEF Core
  <1>2. LinksOf(j)' = LinksOf(j)
    BY DEF LinksOf, KeepsLinks
  <1>3. QED
    BY <1>1, <1>2 DEF RowConsistent

\* Steps of the environment, and an action that only touches the client.
LEMMA AllKept ==
    ASSUME Core, Assigned, UNCHANGED <<jobs, thread>>, stuck \subseteq stuck',
           \A j \in Jobs : KeepsLinks(j)
    PROVE  Core'
  <1>1. \A j \in Jobs : RowConsistent(j)'
    BY RowKept
  <1>2. \A t \in Threads : IsWorking(t)' => WorkConsistent(t)'
    BY WorkKept DEF IsWorking, Assigned
  <1>3. ThreadsConsistent'
    BY DEF Core, ThreadsConsistent, IsWorking
  <1>4. QED
    BY <1>1, <1>2, <1>3 DEF Core

\* A new row is nobody's yet, and nothing is linked for it.
LEMMA NewRow ==
    ASSUME IInv, NEW j \in Jobs, NextRow(j)
    PROVE  /\ jobs[j].status = "none" /\ jobs[j].hash = NoHash /\ LinksOf(j) = {}
           /\ \A t \in Threads : IsWorking(t) => thread[t].job # j
           /\ \A t \in Threads : thread[t].pc = "reporting" => thread[t].job # j
  <1>1. jobs[j].status = "none" /\ jobs[j].hash = NoHash /\ LinksOf(j) = {}
    BY DEF IInv, Core, NextRow, RowConsistent, Jobs
  <1>2. QED
    BY <1>1 DEF IInv, Core, WorkConsistent, ThreadsConsistent

\* A thread at work has a row of its own; the links it has made are its row's.
LEMMA AtWork ==
    ASSUME IInv, NEW t \in Threads, IsWorking(t)
    PROVE  /\ thread[t].job \in Jobs /\ thread[t].review \in Reviews
           /\ WorkConsistent(t)
           /\ \A u \in Threads \ {t} : IsWorking(u) => thread[u].job # thread[t].job
           /\ \A u \in Threads : thread[u].pc = "reporting" => thread[u].job # thread[t].job
  <1>1. thread[t].job \in Jobs /\ thread[t].review \in Reviews /\ WorkConsistent(t)
    BY DEF IInv, Core, TypeInv, Assigned
  <1>2. QED
    BY <1>1 DEF IInv, Core, ThreadsConsistent, WorkConsistent

\* When a thread stops working (it aborts, or the torrent was found), the other
\* threads and rows keep what they have, provided their links are kept.
LEMMA OthersKept ==
    ASSUME IInv, NEW t \in Threads, IsWorking(t), thread' = [thread EXCEPT ![t] = Idle],
           NEW j \in Jobs, j = thread[t].job,
           \A k \in Jobs \ {j} : jobs'[k] = jobs[k] /\ KeepsLinks(k),
           stuck \subseteq stuck', RowConsistent(j)'
    PROVE  Core'
  <1>1. /\ thread[t].job \in Jobs
        /\ \A u \in Threads \ {t} : IsWorking(u) => thread[u].job # thread[t].job
        /\ \A u \in Threads : thread[u].pc = "reporting" => thread[u].job # thread[t].job
    BY AtWork
  <1>2. /\ \A u \in Threads \ {t} : thread'[u] = thread[u]
        /\ thread'[t].pc = "idle"
    BY DEF IInv, TypeInv, TypeOK, Idle
  <1>3. \A u \in Threads : IsWorking(u)' => WorkConsistent(u)'
    <2> SUFFICES ASSUME NEW u \in Threads, IsWorking(u)' PROVE WorkConsistent(u)'
      OBVIOUS
    <2>1. u # t /\ IsWorking(u)
      BY <1>2 DEF IsWorking, Working
    <2>2. thread[u].job \in Jobs \ {thread[t].job}
      BY <1>1, <2>1 DEF IInv, TypeInv, Assigned
    <2>3. QED
      BY <1>2, <2>1, <2>2, WorkKept DEF IInv
  <1>4. \A k \in Jobs : RowConsistent(k)'
    <2>1. ASSUME NEW k \in Jobs, k # j PROVE RowConsistent(k)'
      BY <2>1, RowKept DEF IInv
    <2>2. QED
      BY <2>1
  <1>5. ThreadsConsistent'
    BY <1>1, <1>2 DEF IInv, TypeInv, Assigned, Core, ThreadsConsistent, IsWorking, Working
  <1>6. QED
    BY <1>3, <1>4, <1>5 DEF Core
-----------------------------------------------------------------------------
(* Every action preserves the invariant.                                   *)

LEMMA InitInv == Init => IInv
  <1> SUFFICES ASSUME Init PROVE IInv
    OBVIOUS
  <1>1. TypeInv
    BY InitTyped
  <1>2. \A j \in Jobs : LinksOf(j) = {}
    BY Positive DEF Init, LinksOf
  <1>3. \A j \in Jobs : RowConsistent(j)
    BY <1>2 DEF Init, RowConsistent, NoRow
  <1>4. ThreadsConsistent /\ \A t \in Threads : ~IsWorking(t)
    BY DEF Init, ThreadsConsistent, Idle, IsWorking, Working
  <1>5. QED
    BY <1>1, <1>3, <1>4 DEF IInv, Core

LEMMA EnvironmentInv ==
    ASSUME IInv, Environment
    PROVE  Core'
  <1> USE DEF IInv, TypeInv
  <1>1. ASSUME NEW p \in Paths, UserPutsFile(p) PROVE Core'
    <2>1. \A j \in Jobs : KeepsLinks(j)
      BY <1>1, Positive DEF UserPutsFile, KeepsLinks, TypeOK
    <2>2. QED
      BY <1>1, <2>1, AllKept DEF UserPutsFile
  <1>2. ASSUME NEW h \in Hashes, Appear(h) \/ RecheckEnds(h) \/ Download(h) \/ UserRemoves(h)
        PROVE  Core'
    BY <1>2, AllKept DEF Appear, RecheckEnds, Download, UserRemoves, KeepsLinks
  <1>3. CASE Crash
    <2>1. \A j \in Jobs : RowConsistent(j)'
      BY <1>3, RowKept DEF Crash, KeepsLinks
    <2>2. ThreadsConsistent' /\ \A t \in Threads : ~IsWorking(t)'
      BY <1>3 DEF Crash, ThreadsConsistent, Idle, IsWorking, Working
    <2>3. QED
      BY <2>1, <2>2 DEF Core
  <1>4. QED
    BY <1>1, <1>2, <1>3 DEF Environment

LEMMA BeginInv ==
    ASSUME IInv, NEW t \in Threads, NEW r \in Reviews, Begin(t, r)
    PROVE  Core'
  <1> USE DEF IInv, TypeInv
  <1>1. PICK j \in Jobs :
          /\ NextRow(j)
          /\ jobs' = [jobs EXCEPT ![j] = [review |-> r, status |-> "in_progress", hash |-> NoHash]]
          /\ thread' = [thread EXCEPT ![t] =
                [Idle EXCEPT !.pc = FirstStep(r), !.review = r, !.job = j]]
    BY DEF Begin
  <1>2. /\ LinksOf(j) = {}
        /\ \A u \in Threads : IsWorking(u) => thread[u].job # j
        /\ \A u \in Threads : thread[u].pc = "reporting" => thread[u].job # j
    BY <1>1, NewRow
  <1>3. /\ \A k \in Jobs \ {j} : jobs'[k] = jobs[k]
        /\ jobs'[j] = [review |-> r, status |-> "in_progress", hash |-> NoHash]
        /\ \A u \in Threads \ {t} : thread'[u] = thread[u]
        /\ thread'[t].job = j /\ thread'[t].review = r /\ thread'[t].made = {}
        /\ thread'[t].pc \in {"refused", "linking", "adding"}
        /\ thread'[t].pc = "adding" => Targets[r] = {}
    BY <1>1, FirstStepTyped DEF TypeOK, Idle
  <1>4. (\A k \in Jobs : KeepsLinks(k)) /\ stuck' = stuck
    BY DEF Begin, KeepsLinks
  <1>5. LinksOf(j)' = {}
    BY <1>2 DEF Begin, LinksOf
  <1>6. RowConsistent(j)'
    BY <1>3, <1>5 DEF RowConsistent
  <1>7. \A k \in Jobs : RowConsistent(k)'
    <2> SUFFICES ASSUME NEW k \in Jobs, k # j PROVE RowConsistent(k)'
      BY <1>6
    <2>1. QED
      BY <1>3, <1>4, RowKept
  <1>8. WorkConsistent(t)'
    <2>1. LinksOf(thread[t].job)' = {}
      BY <1>3, <1>5
    <2>2. (jobs[thread[t].job].status = "in_progress" /\ jobs[thread[t].job].hash = NoHash)'
      BY <1>3
    <2>3. (jobs[thread[t].job].review = thread[t].review)'
      BY <1>3
    <2>4. (thread[t].pc \notin {"refused", "linking"} => thread[t].made = Targets[thread[t].review])'
      BY <1>3
    <2>5. (thread[t].made \subseteq Targets[thread[t].review])'
      BY <1>3
    <2>6. (LinksOf(thread[t].job) = thread[t].made)'
      BY <1>3, <2>1
    <2>7. (thread[t].pc # "recording")'
      BY <1>3
    <2>8. QED
      BY <2>2, <2>3, <2>4, <2>5, <2>6, <2>7 DEF WorkConsistent
  <1>9. ASSUME NEW u \in Threads, u # t, IsWorking(u)' PROVE WorkConsistent(u)'
    <2>1. IsWorking(u) /\ thread'[u] = thread[u]
      BY <1>3, <1>9 DEF IsWorking
    <2>2. thread[u].job \in Jobs \ {j}
      BY <1>2, <2>1 DEF Assigned
    <2>3. QED
      BY <1>3, <1>4, <2>1, <2>2, WorkKept
  <1>10. ThreadsConsistent'
    <2>1. \A u, v \in Threads :
             IsWorking(u)' /\ IsWorking(v)' /\ thread'[u].job = thread'[v].job => u = v
      BY <1>2, <1>3 DEF Core, ThreadsConsistent, IsWorking
    <2>2. \A u \in Threads : thread'[u].pc = "reporting" => jobs'[thread'[u].job].hash # NoHash
      BY <1>2, <1>3 DEF Core, ThreadsConsistent, Assigned
    <2>3. QED
      BY <2>1, <2>2 DEF ThreadsConsistent
  <1>11. QED
    BY <1>7, <1>8, <1>9, <1>10 DEF Core

\* A link goes to a free destination, so it takes no other row's.
LEMMA LinkInv ==
    ASSUME IInv, NEW t \in Threads, Link(t)
    PROVE  Core'
  <1> USE DEF IInv, TypeInv
  <1>1. PICK p \in Targets[thread[t].review] : LinkTo(t, p)
    BY DEF Link
  <1>2. IsWorking(t)
    BY DEF Link, IsWorking, Working
  <1>3. /\ thread[t].job \in Jobs /\ thread[t].review \in Reviews
        /\ WorkConsistent(t)
        /\ \A u \in Threads \ {t} : IsWorking(u) => thread[u].job # thread[t].job
    BY <1>2, AtWork
  <1>4. PICK j \in Jobs : j = thread[t].job
    BY <1>3
  <1>5. p \in Paths
    BY <1>1, <1>3, ExecutorAssumption
  <1>6. /\ thread'[t].job = j /\ thread'[t].review = thread[t].review
        /\ thread'[t].made = thread[t].made \union {p}
        /\ thread'[t].pc = IF thread[t].made \union {p} = Targets[thread[t].review]
                           THEN "adding" ELSE "linking"
        /\ \A u \in Threads \ {t} : thread'[u] = thread[u]
    BY <1>1, <1>4 DEF TypeOK, LinkTo, Linked, ThreadRecord
  <1>7. owner[p] = Free /\ owner'[p] = j /\ \A q \in Paths \ {p} : owner'[q] = owner[q]
    BY <1>1, <1>4, <1>5 DEF TypeOK, LinkTo
  <1>8. \A k \in Jobs \ {j} : KeepsLinks(k)
    BY <1>7, Positive DEF KeepsLinks
  <1>9. LinksOf(j)' = LinksOf(j) \union {p}
    BY <1>5, <1>7 DEF LinksOf
  <1>10. jobs' = jobs /\ stuck' = stuck
    BY DEF Link
  <1>11. \A k \in Jobs : RowConsistent(k)'
    <2>1. RowConsistent(j)'
      BY <1>3, <1>4, <1>10 DEF RowConsistent, WorkConsistent
    <2>2. ASSUME NEW k \in Jobs, k # j PROVE RowConsistent(k)'
      BY <1>8, <1>10, <2>2, RowKept
    <2>3. QED
      BY <2>1, <2>2
  <1>12. WorkConsistent(t)'
    <2>1. LinksOf(j) = thread[t].made /\ thread[t].made \subseteq Targets[thread[t].review]
      BY <1>3, <1>4 DEF WorkConsistent
    <2>2. (jobs[thread[t].job].status = "in_progress" /\ jobs[thread[t].job].hash = NoHash)'
      BY <1>3, <1>4, <1>6, <1>10 DEF WorkConsistent
    <2>3. (jobs[thread[t].job].review = thread[t].review)'
      BY <1>3, <1>4, <1>6, <1>10 DEF WorkConsistent
    <2>4. (thread[t].pc \notin {"refused", "linking"} => thread[t].made = Targets[thread[t].review])'
      BY <1>6
    <2>5. (thread[t].made \subseteq Targets[thread[t].review])'
      BY <1>1, <1>6, <2>1
    <2>6. (LinksOf(thread[t].job) = thread[t].made)'
      BY <1>6, <1>9, <2>1 DEF LinksOf
    <2>7. (thread[t].pc # "recording")'
      BY <1>6
    <2>8. QED
      BY <2>2, <2>3, <2>4, <2>5, <2>6, <2>7 DEF WorkConsistent
  <1>13. ASSUME NEW u \in Threads, u # t, IsWorking(u)' PROVE WorkConsistent(u)'
    <2>1. IsWorking(u) /\ thread'[u] = thread[u]
      BY <1>6, <1>13 DEF IsWorking
    <2>2. thread[u].job \in Jobs \ {j}
      BY <1>3, <1>4, <1>13, <2>1 DEF Assigned
    <2>3. QED
      BY <1>8, <1>10, <2>1, <2>2, WorkKept
  <1>14. ThreadsConsistent'
    <2>1. \A u, v \in Threads :
             IsWorking(u)' /\ IsWorking(v)' /\ thread'[u].job = thread'[v].job => u = v
      BY <1>3, <1>4, <1>6 DEF IsWorking, Core, ThreadsConsistent
    <2>2. \A u \in Threads : thread'[u].pc = "reporting" => jobs'[thread'[u].job].hash # NoHash
      BY <1>6, <1>10 DEF Core, ThreadsConsistent
    <2>3. QED
      BY <2>1, <2>2 DEF ThreadsConsistent
  <1>15. QED
    BY <1>11, <1>12, <1>13, <1>14 DEF Core

\* What a thread does with the client moves it on, and changes no row and no
\* link; the torrent it finds is its own when that one is known.
LEMMA OnwardInv ==
    ASSUME IInv, NEW t \in Threads, thread[t].pc \in {"adding", "waiting"},
           thread'[t].job = thread[t].job, thread'[t].review = thread[t].review,
           thread'[t].made = thread[t].made, thread'[t].pc \in {"waiting", "recording"},
           thread'[t].pc = "recording" /\ thread[t].review \in Known
               => thread'[t].found = Hash[thread[t].review],
           \A u \in Threads \ {t} : thread'[u] = thread[u],
           UNCHANGED <<jobs, owner, stuck>>
    PROVE  Core'
  <1> USE DEF IInv, TypeInv
  <1>1. IsWorking(t)
    BY DEF IsWorking, Working
  <1>2. \A k \in Jobs : KeepsLinks(k) /\ RowConsistent(k)'
    BY RowKept DEF KeepsLinks
  <1>3. \A u \in Threads : IsWorking(u)' => IsWorking(u)
    BY <1>1 DEF IsWorking
  <1>4. WorkConsistent(t)'
    <2>1. WorkConsistent(t)
      BY <1>1 DEF Core
    <2>2. (LinksOf(thread[t].job) = thread[t].made)'
      BY <2>1 DEF LinksOf, WorkConsistent
    <2>3. QED
      BY <2>1, <2>2 DEF WorkConsistent
  <1>5. ASSUME NEW u \in Threads, u # t, IsWorking(u)' PROVE WorkConsistent(u)'
    <2>1. IsWorking(u) /\ thread'[u] = thread[u]
      BY <1>3, <1>5
    <2>2. thread[u].job \in Jobs
      BY <2>1 DEF Assigned
    <2>3. QED
      BY <1>2, <2>1, <2>2, WorkKept
  <1>6. ThreadsConsistent'
    BY <1>1, <1>3 DEF Core, ThreadsConsistent, IsWorking, Working
  <1>7. QED
    BY <1>2, <1>4, <1>5, <1>6 DEF Core

LEMMA ClientInv ==
    ASSUME IInv, NEW t \in Threads, Add(t) \/ Found(t)
    PROVE  Core'
  <1>1. CASE Add(t)
    <2>1. /\ thread[t].pc = "adding" /\ thread'[t].pc = "waiting"
          /\ thread'[t].job = thread[t].job /\ thread'[t].review = thread[t].review
          /\ thread'[t].made = thread[t].made
          /\ \A u \in Threads \ {t} : thread'[u] = thread[u]
      BY <1>1 DEF IInv, TypeInv, TypeOK, Add, ThreadRecord
    <2>2. UNCHANGED <<jobs, owner, stuck>>
      BY <1>1 DEF Add
    <2>3. QED
      BY <2>1, <2>2, OnwardInv
  <1>2. CASE Found(t)
    <2>1. PICK h \in NewHash(t) :
            thread' = [thread EXCEPT ![t] = [thread[t] EXCEPT !.pc = "recording", !.found = h]]
      BY <1>2 DEF Found
    <2>2. thread[t].review \in Known => h = Hash[thread[t].review]
      BY <2>1 DEF NewHash
    <2>3. /\ thread[t].pc = "waiting" /\ thread'[t].pc = "recording" /\ thread'[t].found = h
          /\ thread'[t].job = thread[t].job /\ thread'[t].review = thread[t].review
          /\ thread'[t].made = thread[t].made
          /\ \A u \in Threads \ {t} : thread'[u] = thread[u]
      <3>1. thread[t] \in ThreadRecord /\ thread \in [Threads -> ThreadRecord]
        BY DEF IInv, TypeInv, TypeOK
      <3>2. thread[t].pc = "waiting"
        BY <1>2 DEF Found
      <3>3. QED
        BY <2>1, <3>1, <3>2 DEF ThreadRecord
    <2>4. UNCHANGED <<jobs, owner, stuck>>
      BY <1>2 DEF Found
    <2>5. QED
      BY <2>2, <2>3, <2>4, OnwardInv
  <1> QED
    BY <1>1, <1>2

\* The hash a job gets is its own torrent's when that one is known, and by
\* then all of its links are in place.
LEMMA RecordInv ==
    ASSUME IInv, NEW t \in Threads, Record(t)
    PROVE  Core'
  <1> USE DEF IInv, TypeInv
  <1>1. IsWorking(t) /\ thread[t].pc = "recording"
    BY DEF Record, IsWorking, Working
  <1>2. PICK j \in Jobs : j = thread[t].job
    BY <1>1, AtWork
  <1>3. WorkConsistent(t) /\ thread[t].review \in Reviews
    BY <1>1, AtWork
  <1>4. PICK h : h = thread[t].found
    OBVIOUS
  <1>5. h \in Hashes /\ (thread[t].review \in Known => h = Hash[thread[t].review])
    BY <1>1, <1>3, <1>4 DEF Assigned, WorkConsistent
  <1>6. /\ \A k \in Jobs \ {j} : jobs'[k] = jobs[k]
        /\ jobs'[j].hash = h /\ jobs'[j].status = "in_progress"
        /\ jobs'[j].review = thread[t].review
    BY <1>2, <1>3, <1>4 DEF Record, TypeOK, JobRecord, WorkConsistent
  <1>7. (\A k \in Jobs : KeepsLinks(k)) /\ owner' = owner /\ stuck' = stuck
    BY DEF Record, KeepsLinks
  <1>8. LinksOf(j)' = Targets[thread[t].review]
    BY <1>1, <1>2, <1>3, <1>7 DEF LinksOf, WorkConsistent
  <1>9. RowConsistent(j)'
    BY <1>3, <1>5, <1>6, <1>8, ExecutorAssumption DEF RowConsistent
  <1>10. thread' = [thread EXCEPT ![t] = Idle]
    BY DEF Record
  <1>11. QED
    BY <1>1, <1>2, <1>6, <1>7, <1>9, <1>10, OthersKept

\* A commit that fails leaves the row as it is, with some of its own links.
LEMMA LoseInv ==
    ASSUME IInv, NEW t \in Threads, Lose(t)
    PROVE  Core'
  <1> USE DEF IInv, TypeInv
  <1>1. IsWorking(t)
    BY DEF Lose
  <1>2. PICK j \in Jobs : j = thread[t].job
    BY <1>1, AtWork
  <1>3. WorkConsistent(t) /\ thread[t].review \in Reviews
    BY <1>1, AtWork
  <1>4. \E gone \in SUBSET thread[t].made :
          owner' = [p \in Paths |-> IF p \in gone THEN Free ELSE owner[p]]
    <2>1. CASE UNCHANGED owner
      <3>1. owner' = [p \in Paths |-> IF p \in {} THEN Free ELSE owner[p]]
        BY <2>1 DEF TypeOK
      <3>2. {} \in SUBSET thread[t].made
        OBVIOUS
      <3>3. QED
        BY <3>1, <3>2
    <2>2. CASE \E left \in SUBSET thread[t].made : Unlinked(t, left)
      BY <2>2 DEF Unlinked
    <2>3. QED
      BY <2>1, <2>2 DEF Lose
  <1>5. LinksOf(j) = thread[t].made
    BY <1>2, <1>3 DEF WorkConsistent
  <1>6. \A k \in Jobs \ {j} : KeepsLinks(k)
    <2>1. PICK gone \in SUBSET thread[t].made :
            owner' = [p \in Paths |-> IF p \in gone THEN Free ELSE owner[p]]
      BY <1>4
    <2>2. QED
      BY <1>5, <2>1, Positive DEF KeepsLinks, LinksOf
  <1>7. jobs' = jobs /\ stuck \subseteq stuck' /\ thread' = [thread EXCEPT ![t] = Idle]
    BY DEF Lose
  <1>8. RowConsistent(j)'
    BY <1>2, <1>3, <1>7 DEF RowConsistent, WorkConsistent
  <1>9. QED
    BY <1>1, <1>2, <1>6, <1>7, <1>8, OthersKept

\* A rollback takes away links of its own row only.
LEMMA AbortInv ==
    ASSUME IInv, NEW t \in Threads, Abort(t)
    PROVE  Core'
  <1> USE DEF IInv, TypeInv
  <1>1. IsWorking(t)
    BY DEF Abort, Failing
  <1>2. PICK j \in Jobs : j = thread[t].job
    BY <1>1, AtWork
  <1>3. WorkConsistent(t) /\ thread[t].review \in Reviews
    BY <1>1, AtWork
  <1>4. PICK left \in SUBSET thread[t].made :
          /\ owner' = [p \in Paths |-> IF p \in thread[t].made \ left THEN Free ELSE owner[p]]
          /\ stuck' = IF thread[t].review \in Layout THEN stuck \union left ELSE stuck
    BY DEF Abort, Unlinked
  <1>5. LinksOf(j) = thread[t].made
    BY <1>2, <1>3 DEF WorkConsistent
  <1>6. \A k \in Jobs \ {j} : KeepsLinks(k)
    BY <1>4, <1>5, Positive DEF KeepsLinks, LinksOf
  <1>7. LinksOf(j)' \subseteq left
    BY <1>4, <1>5, Positive DEF LinksOf
  <1>8. /\ \A k \in Jobs \ {j} : jobs'[k] = jobs[k]
        /\ jobs'[j].hash = NoHash /\ jobs'[j].status = "failed"
        /\ jobs'[j].review = thread[t].review
    BY <1>2, <1>3 DEF Abort, TypeOK, JobRecord, WorkConsistent
  <1>9. stuck \subseteq stuck' /\ thread' = [thread EXCEPT ![t] = Idle]
    BY <1>4 DEF Abort
  <1>10. RowConsistent(j)'
    BY <1>3, <1>4, <1>7, <1>8 DEF RowConsistent
  <1>11. QED
    BY <1>1, <1>2, <1>6, <1>8, <1>9, <1>10, OthersKept

\* Asking the client about a job sets a thread to report on a job with a hash.
LEMMA PollInv ==
    ASSUME IInv, NEW t \in Threads, NEW j \in Jobs, Poll(t, j)
    PROVE  Core'
  <1> USE DEF IInv, TypeInv
  <1>1. /\ thread'[t].pc = "reporting" /\ thread'[t].job = j
        /\ \A u \in Threads \ {t} : thread'[u] = thread[u]
    BY DEF Poll, TypeOK, Idle
  <1>2. jobs' = jobs /\ stuck' = stuck /\ (\A k \in Jobs : KeepsLinks(k)) /\ jobs[j].hash # NoHash
    BY DEF Poll, KeepsLinks
  <1>3. \A k \in Jobs : RowConsistent(k)'
    BY <1>2, RowKept
  <1>4. \A u \in Threads : IsWorking(u)' => u # t /\ IsWorking(u)
    BY <1>1 DEF IsWorking, Working
  <1>5. ASSUME NEW u \in Threads, IsWorking(u)' PROVE WorkConsistent(u)'
    <2>1. IsWorking(u) /\ thread'[u] = thread[u]
      BY <1>1, <1>4, <1>5
    <2>2. thread[u].job \in Jobs
      BY <2>1 DEF Assigned
    <2>3. QED
      BY <1>2, <2>1, <2>2, WorkKept
  <1>6. ThreadsConsistent'
    BY <1>1, <1>2, <1>4 DEF Core, ThreadsConsistent, IsWorking
  <1>7. QED
    BY <1>3, <1>5, <1>6 DEF Core

\* Changing the status of a job that has a hash, when no thread works on it.
LEMMA StatusChange ==
    ASSUME IInv, NEW j \in Jobs, jobs[j].hash # NoHash,
           NEW s \in JobStatus \ {"none"}, jobs' = [jobs EXCEPT ![j].status = s],
           owner' = owner, stuck' = stuck,
           \A u \in Threads : thread'[u] = thread[u] \/ thread'[u] = Idle
    PROVE  Core'
  <1> USE DEF IInv, TypeInv
  <1>1. /\ \A k \in Jobs \ {j} : jobs'[k] = jobs[k]
        /\ jobs'[j].hash = jobs[j].hash /\ jobs'[j].review = jobs[j].review
        /\ jobs'[j].status = s
    BY DEF TypeOK, JobRecord
  <1>2. (\A k \in Jobs : KeepsLinks(k)) /\ LinksOf(j)' = LinksOf(j)
    BY DEF KeepsLinks, LinksOf
  <1>3. \A k \in Jobs : RowConsistent(k)'
    <2>1. RowConsistent(j)'
      BY <1>1, <1>2 DEF Core, RowConsistent
    <2>2. ASSUME NEW k \in Jobs, k # j PROVE RowConsistent(k)'
      BY <1>1, <1>2, <2>2, RowKept
    <2>3. QED
      BY <2>1, <2>2
  <1>4. \A u \in Threads :
           thread'[u].pc # "idle" => thread'[u] = thread[u]
    BY DEF Idle
  <1>5. ASSUME NEW u \in Threads, IsWorking(u)' PROVE WorkConsistent(u)'
    <2>1. IsWorking(u) /\ thread'[u] = thread[u]
      BY <1>4, <1>5 DEF IsWorking, Working
    <2>2. thread[u].job \in Jobs \ {j}
      BY <2>1 DEF Assigned, Core, WorkConsistent
    <2>3. QED
      BY <1>1, <1>2, <2>1, <2>2, WorkKept
  <1>6. ThreadsConsistent'
    <2>1. \A u, v \in Threads :
             IsWorking(u)' /\ IsWorking(v)' /\ thread'[u].job = thread'[v].job => u = v
      BY <1>4 DEF IsWorking, Working, Core, ThreadsConsistent
    <2>2. \A u \in Threads : thread'[u].pc = "reporting" => jobs'[thread'[u].job].hash # NoHash
      BY <1>1, <1>4 DEF Core, ThreadsConsistent, Assigned
    <2>3. QED
      BY <2>1, <2>2 DEF ThreadsConsistent
  <1>7. QED
    BY <1>3, <1>5, <1>6 DEF Core

LEMMA ReportInv ==
    ASSUME IInv, NEW t \in Threads, Report(t)
    PROVE  Core'
  <1> USE DEF IInv, TypeInv
  <1>1. thread[t].pc = "reporting"
    BY DEF Report
  <1>2. PICK j \in Jobs : j = thread[t].job
    BY <1>1 DEF Assigned
  <1>3. jobs[j].hash # NoHash /\ jobs[j].status # "none" /\ jobs[j].status \in JobStatus
    BY <1>1, <1>2 DEF Core, ThreadsConsistent, RowConsistent, TypeOK, JobRecord
  <1>4. PICK s \in JobStatus \ {"none"} : jobs' = [jobs EXCEPT ![j].status = s]
    <2>1. PICK o : o = Outcome(thread[t].job, thread[t].seen)
      OBVIOUS
    <2>2. PICK s : s = CASE o = "ok" -> "seeding" [] o = "failed" -> "failed"
                         [] OTHER -> jobs[j].status
      OBVIOUS
    <2>3. s \in JobStatus \ {"none"}
      BY <1>3, <2>2 DEF JobStatus
    <2>4. jobs' = [jobs EXCEPT ![j].status = s]
      BY <1>2, <2>1, <2>2 DEF Report, TypeOK
    <2>5. QED
      BY <2>3, <2>4
  <1>5. \A u \in Threads : thread'[u] = thread[u] \/ thread'[u] = Idle
    BY DEF Report, TypeOK
  <1>6. owner' = owner /\ stuck' = stuck
    BY DEF Report
  <1>7. QED
    BY <1>3, <1>4, <1>5, <1>6, StatusChange

LEMMA RetryInv ==
    ASSUME IInv, NEW j \in Jobs, Retry(j)
    PROVE  Core'
  <1>1. "in_progress" \in JobStatus \ {"none"}
    BY DEF JobStatus
  <1>2. /\ jobs' = [jobs EXCEPT ![j].status = "in_progress"] /\ jobs[j].hash # NoHash
        /\ owner' = owner /\ stuck' = stuck
        /\ \A u \in Threads : thread'[u] = thread[u]
    BY DEF Retry
  <1>3. QED
    BY <1>1, <1>2, StatusChange

LEMMA LoseAnswerInv ==
    ASSUME IInv, NEW t \in Threads, LoseAnswer(t)
    PROVE  Core'
  <1> USE DEF IInv, TypeInv
  <1>1. /\ \A u \in Threads : thread'[u] = thread[u] \/ thread'[u] = Idle
        /\ UNCHANGED <<jobs, owner, stuck>>
    BY DEF LoseAnswer, TypeOK
  <1>2. \A k \in Jobs : KeepsLinks(k) /\ RowConsistent(k)'
    BY <1>1, RowKept DEF KeepsLinks
  <1>3. \A u \in Threads : thread'[u].pc # "idle" => thread'[u] = thread[u]
    BY <1>1 DEF Idle
  <1>4. ASSUME NEW u \in Threads, IsWorking(u)' PROVE WorkConsistent(u)'
    <2>1. IsWorking(u) /\ thread'[u] = thread[u]
      BY <1>3, <1>4 DEF IsWorking, Working
    <2>2. thread[u].job \in Jobs
      BY <2>1 DEF Assigned
    <2>3. QED
      BY <1>1, <1>2, <2>1, <2>2, WorkKept
  <1>5. ThreadsConsistent'
    BY <1>1, <1>3 DEF Core, ThreadsConsistent, IsWorking, Working
  <1>6. QED
    BY <1>2, <1>4, <1>5 DEF Core

LEMMA NextInv == IInv /\ [Next]_vars => IInv'
  <1> SUFFICES ASSUME IInv, [Next]_vars PROVE IInv'
    OBVIOUS
  <1>1. TypeInv'
    BY NextTyped DEF IInv
  <1>2. Core'
    <2>1. CASE UNCHANGED vars
      BY <2>1, AllKept DEF vars, KeepsLinks, IInv, TypeInv
    <2>2. CASE Next
      BY <2>2, EnvironmentInv, BeginInv, LinkInv, ClientInv, RecordInv, AbortInv,
         LoseInv, PollInv, ReportInv, LoseAnswerInv, RetryInv
      DEF Next, Execution
    <2>3. QED
      BY <2>1, <2>2
  <1>3. QED
    BY <1>1, <1>2 DEF IInv

\* The inductive invariant: what the rows, the links and the client of an execution have in
\* common at every step of it, for any number of jobs, threads and faults.
THEOREM Invariance == Spec => []IInv
  BY InitInv, NextInv, PTL DEF Spec
-----------------------------------------------------------------------------
(* What follows from it                                                    *)

\* Two jobs whose torrents were handed to the client never share a hardlink,
\* whatever executions, rollbacks, retries and restarts were interleaved: the
\* destination paths act as a lock between executions.
THEOREM Disjoint == Spec => []HandedJobsDisjoint
  <1>1. IInv => HandedJobsDisjoint
    <2> SUFFICES ASSUME IInv, NEW j \in Jobs, NEW k \in Jobs, j # k,
                        jobs[j].hash # NoHash, jobs[k].hash # NoHash,
                        NEW p \in Targets[jobs[j].review] \intersect Targets[jobs[k].review]
                 PROVE  FALSE
      BY DEF HandedJobsDisjoint
    <2>1. p \in LinksOf(j) /\ p \in LinksOf(k)
      BY DEF IInv, Core, RowConsistent
    <2>2. QED
      BY <2>1 DEF LinksOf
  <1>2. QED
    BY <1>1, Invariance, PTL

\* With a known info hash, the hash recorded for a job is its own torrent's.
THEOREM OwnHash == Spec => []HashIsOwn
  <1>1. IInv => HashIsOwn
    BY DEF IInv, Core, RowConsistent, HashIsOwn
  <1>2. QED
    BY <1>1, Invariance, PTL

\* A failed layout execution leaves no hardlink behind, save those the disk
\* refused to remove.
THEOREM Rollback == Spec => []RollbackComplete
  <1>1. IInv => RollbackComplete
    BY DEF IInv, Core, RowConsistent, RollbackComplete, LinksOf
  <1>2. QED
    BY <1>1, Invariance, PTL

-----------------------------------------------------------------------------
(* Answers of the client                                                   *)

\* A torrent that has an answer has been rechecked for every job that holds
\* it, or is about to: the recheck is forced before the job gets it, and the end
\* of the recheck is the only way out.  The answer a thread carries is no older
\* than its job.
Answered ==
    /\ \A j \in Jobs :
          jobs[j].hash # NoHash /\ client[jobs[j].hash] \notin {"absent", "checking"}
              => j \in rechecked
    /\ \A t \in Threads :
          thread[t].pc = "recording" /\ client[thread[t].found] \notin {"absent", "checking"}
              => thread[t].job \in rechecked
    /\ \A t \in Threads :
          thread[t].pc = "reporting" /\ thread[t].seen \in {"complete", "extras"}
              => thread[t].job \in rechecked
    /\ SeedingWasRechecked

LEMMA InitAnswered == Init => Answered
  BY DEF Init, Answered, SeedingWasRechecked, NoRow, Idle

LEMMA NextAnswered == IInv /\ Answered /\ [Next]_vars => Answered'
  <1> SUFFICES ASSUME IInv, Answered, [Next]_vars PROVE Answered'
    OBVIOUS
  <1> USE DEF IInv, TypeInv
  <1>1. CASE UNCHANGED <<jobs, client, rechecked>> /\ UNCHANGED thread
    BY <1>1 DEF Answered, SeedingWasRechecked
  <1>2. ASSUME NEW h \in Hashes, Appear(h) \/ UserRemoves(h) PROVE Answered'
    BY <1>2 DEF TypeOK, Assigned, JobRecord, Appear, UserRemoves, Answered, SeedingWasRechecked
  <1>3. ASSUME NEW h \in Hashes, RecheckEnds(h) PROVE Answered'
    <2>1. /\ \A g \in Hashes \ {h} : client'[g] = client[g]
          /\ rechecked' = rechecked \union
                {j \in Jobs : jobs[j].hash = h \/ \E t \in Threads : Holds(t, j, h)}
          /\ jobs' = jobs /\ thread' = thread
      BY <1>3 DEF TypeOK, RecheckEnds
    <2>2. \A j \in Jobs :
             jobs[j].hash # NoHash /\ client'[jobs[j].hash] \notin {"absent", "checking"}
                 => j \in rechecked'
      BY <2>1 DEF TypeOK, JobRecord, Answered
    <2>3. \A t \in Threads :
             thread[t].pc = "recording" /\ client'[thread[t].found] \notin {"absent", "checking"}
                 => thread[t].job \in rechecked'
      BY <2>1 DEF Assigned, IsWorking, Working, Holds, Answered
    <2>4. QED
      BY <2>1, <2>2, <2>3 DEF Answered, SeedingWasRechecked
  <1>4. ASSUME NEW h \in Hashes, Download(h) PROVE Answered'
    <2>1. /\ \A g \in Hashes \ {h} : client'[g] = client[g]
          /\ client[h] \notin {"absent", "checking"}
          /\ jobs' = jobs /\ thread' = thread /\ rechecked' = rechecked
      BY <1>4 DEF TypeOK, Download
    <2>2. QED
      BY <2>1 DEF TypeOK, Assigned, JobRecord, Answered, SeedingWasRechecked
  <1>5. CASE Crash
    BY <1>5 DEF Crash, Answered, SeedingWasRechecked, Idle
  <1>6. ASSUME NEW t \in Threads, NEW r \in Reviews, Begin(t, r) PROVE Answered'
    <2>1. PICK j \in Jobs :
            /\ jobs' = [jobs EXCEPT ![j] = [review |-> r, status |-> "in_progress", hash |-> NoHash]]
            /\ thread' = [thread EXCEPT ![t] =
                  [Idle EXCEPT !.pc = FirstStep(r), !.review = r, !.job = j]]
      BY <1>6 DEF Begin
    <2>2. /\ \A k \in Jobs \ {j} : jobs'[k] = jobs[k]
          /\ jobs'[j].status = "in_progress" /\ jobs'[j].hash = NoHash
          /\ \A u \in Threads \ {t} : thread'[u] = thread[u]
          /\ thread'[t].pc \notin {"reporting", "recording"}
      BY <2>1, FirstStepTyped DEF TypeOK, Idle
    <2>3. client' = client /\ rechecked' = rechecked
      BY <1>6 DEF Begin
    <2>4. QED
      BY <2>2, <2>3 DEF Answered, SeedingWasRechecked
  <1>7. ASSUME NEW t \in Threads, Found(t) PROVE Answered'
    <2>1. PICK h \in NewHash(t) :
            /\ client' = [client EXCEPT ![h] = "checking"]
            /\ thread' = [thread EXCEPT ![t] =
                  [thread[t] EXCEPT !.pc = "recording", !.found = h]]
      BY <1>7 DEF Found
    <2>2. h \in Hashes
      BY <2>1 DEF NewHash, InClient
    <2>3. /\ \A g \in Hashes \ {h} : client'[g] = client[g]
          /\ client'[h] = "checking" /\ jobs' = jobs /\ rechecked' = rechecked
      BY <1>7, <2>1, <2>2 DEF Found, TypeOK
    <2>4. /\ \A u \in Threads \ {t} : thread'[u] = thread[u]
          /\ thread'[t].pc = "recording" /\ thread'[t].found = h
      BY <2>1 DEF TypeOK, ThreadRecord
    <2>5. QED
      BY <2>2, <2>3, <2>4 DEF TypeOK, Assigned, JobRecord, Answered, SeedingWasRechecked
  <1>8. ASSUME NEW t \in Threads, Link(t) \/ Add(t) PROVE Answered'
    <2>1. /\ \A u \in Threads \ {t} : thread'[u] = thread[u]
          /\ thread'[t].pc \notin {"reporting", "recording"}
      BY <1>8 DEF Link, LinkTo, Linked, Add, TypeOK, ThreadRecord
    <2>2. jobs' = jobs /\ client' = client /\ rechecked' = rechecked
      BY <1>8 DEF Link, Add
    <2>3. QED
      BY <2>1, <2>2 DEF Answered, SeedingWasRechecked
  <1>9. ASSUME NEW t \in Threads, Record(t) PROVE Answered'
    <2>1. PICK j \in Jobs : j = thread[t].job /\ jobs[j].status = "in_progress"
      BY <1>9, AtWork DEF Record, IsWorking, Working, WorkConsistent
    <2>2. thread[t].pc = "recording" /\ client' = client /\ rechecked' = rechecked
      BY <1>9 DEF Record
    <2>3. /\ \A k \in Jobs \ {j} : jobs'[k] = jobs[k]
          /\ jobs'[j].hash = thread[t].found /\ jobs'[j].status = "in_progress"
      BY <1>9, <2>1 DEF Record, TypeOK, JobRecord
    <2>4. /\ \A u \in Threads \ {t} : thread'[u] = thread[u]
          /\ thread'[t].pc = "idle"
      BY <1>9 DEF Record, TypeOK, Idle
    <2>5. QED
      BY <2>1, <2>2, <2>3, <2>4 DEF Answered, SeedingWasRechecked
  <1>10. ASSUME NEW t \in Threads, Abort(t) PROVE Answered'
    <2>1. PICK j \in Jobs : j = thread[t].job
      BY <1>10 DEF Abort, Failing, Assigned
    <2>2. /\ \A k \in Jobs \ {j} : jobs'[k] = jobs[k]
          /\ jobs'[j].hash = jobs[j].hash /\ jobs'[j].status = "failed"
      BY <1>10, <2>1 DEF Abort, TypeOK, JobRecord
    <2>3. /\ \A u \in Threads \ {t} : thread'[u] = thread[u]
          /\ thread'[t].pc = "idle" /\ rechecked' = rechecked /\ client' = client
      BY <1>10 DEF Abort, TypeOK, Idle
    <2>4. QED
      BY <2>2, <2>3 DEF Answered, SeedingWasRechecked
  <1>11. ASSUME NEW t \in Threads, NEW j \in Jobs, Poll(t, j) PROVE Answered'
    <2>1. /\ \A u \in Threads \ {t} : thread'[u] = thread[u]
          /\ thread'[t].job = j /\ thread'[t].seen = client[jobs[j].hash]
          /\ thread'[t].pc = "reporting" /\ jobs[j].hash # NoHash
      BY <1>11 DEF Poll, TypeOK, Idle
    <2>2. jobs' = jobs /\ client' = client /\ rechecked' = rechecked
      BY <1>11 DEF Poll
    <2>3. QED
      BY <2>1, <2>2 DEF Answered, SeedingWasRechecked
  <1>12. ASSUME NEW t \in Threads, Report(t) PROVE Answered'
    <2>1. PICK j \in Jobs : j = thread[t].job /\ thread[t].pc = "reporting"
      BY <1>12 DEF Report, Assigned
    <2>2. PICK o : o = Outcome(j, thread[t].seen)
      OBVIOUS
    <2>3. o = "ok" => j \in rechecked
      BY <2>1, <2>2 DEF Outcome, Answered
    <2>4. /\ \A k \in Jobs \ {j} : jobs'[k] = jobs[k]
          /\ jobs'[j].hash = jobs[j].hash
          /\ jobs'[j].status = "seeding" => o = "ok" \/ jobs[j].status = "seeding"
      BY <1>12, <2>1, <2>2 DEF Report, TypeOK, JobRecord
    <2>5. /\ \A u \in Threads \ {t} : thread'[u] = thread[u]
          /\ thread'[t].pc = "idle" /\ rechecked' = rechecked /\ client' = client
      BY <1>12 DEF Report, TypeOK, Idle
    <2>6. QED
      BY <2>3, <2>4, <2>5 DEF Answered, SeedingWasRechecked
  <1>13. ASSUME NEW j \in Jobs, Retry(j) PROVE Answered'
    <2>1. /\ \A k \in Jobs \ {j} : jobs'[k] = jobs[k]
          /\ jobs'[j].hash = jobs[j].hash /\ jobs'[j].status = "in_progress"
          /\ client' = client /\ rechecked' = rechecked /\ thread' = thread
      BY <1>13 DEF Retry, TypeOK, JobRecord
    <2>2. QED
      BY <2>1 DEF Answered, SeedingWasRechecked
  <1>14. ASSUME NEW t \in Threads, Lose(t) \/ LoseAnswer(t) PROVE Answered'
    <2>1. \A u \in Threads :
             thread'[u].pc \in {"recording", "reporting"} => thread'[u] = thread[u]
      BY <1>14 DEF Lose, LoseAnswer, TypeOK, Idle
    <2>2. jobs' = jobs /\ client' = client /\ rechecked' = rechecked
      BY <1>14 DEF Lose, LoseAnswer
    <2>3. ASSUME NEW u \in Threads, thread'[u].pc = "recording",
                 client'[thread'[u].found] \notin {"absent", "checking"}
          PROVE  thread'[u].job \in rechecked'
      BY <2>1, <2>2, <2>3 DEF Answered
    <2>4. ASSUME NEW u \in Threads, thread'[u].pc = "reporting",
                 thread'[u].seen \in {"complete", "extras"}
          PROVE  thread'[u].job \in rechecked'
      BY <2>1, <2>2, <2>4 DEF Answered
    <2>5. QED
      BY <2>2, <2>3, <2>4 DEF Answered, SeedingWasRechecked
  <1>15. QED
    BY <1>1, <1>2, <1>3, <1>4, <1>5, <1>6, <1>7, <1>8, <1>9, <1>10, <1>11, <1>12, <1>13, <1>14
    DEF Next, Environment, Execution, UserPutsFile, vars

\* A job is marked seeding only on a check of the data that ended after the
\* job had its torrent, however late the answer is reported and whatever
\* retries, removals and restarts came in between.
THEOREM Rechecked == Spec => []SeedingWasRechecked
  <1>1. Answered => SeedingWasRechecked
    BY DEF Answered
  <1>2. QED
    BY <1>1, InitAnswered, NextAnswered, Invariance, PTL DEF Spec

-----------------------------------------------------------------------------
(* Lost jobs                                                               *)

LEMMA InitHeld == Init => OnlyFaultsLoseJobs
  BY DEF Init, OnlyFaultsLoseJobs, Lost, NoRow

LEMMA NextHeld == IInv /\ OnlyFaultsLoseJobs /\ [Next]_vars => OnlyFaultsLoseJobs'
  <1> DEFINE Open(j) == jobs[j].status = "in_progress" /\ jobs[j].hash = NoHash
             Held(j) == \E t \in Threads : IsWorking(t) /\ thread[t].job = j
             Kept(j) == Held(j) \/ j \in dropped
  <1> SUFFICES ASSUME IInv, OnlyFaultsLoseJobs, [Next]_vars, NEW j \in Jobs, Open(j)'
               PROVE  Kept(j)'
    BY DEF OnlyFaultsLoseJobs, Lost
  <1> USE DEF IInv, TypeInv
  <1>1. Open(j) => Kept(j)
    BY DEF OnlyFaultsLoseJobs, Lost
  <1>2. CASE UNCHANGED <<jobs, thread, dropped>>
    BY <1>1, <1>2 DEF IsWorking
  <1>3. CASE Crash
    BY <1>1, <1>3 DEF Crash
  <1>4. ASSUME NEW t \in Threads, NEW r \in Reviews, Begin(t, r) PROVE Kept(j)'
    <2>1. PICK k \in Jobs :
            /\ jobs' = [jobs EXCEPT ![k] = [review |-> r, status |-> "in_progress", hash |-> NoHash]]
            /\ thread' = [thread EXCEPT ![t] =
                  [Idle EXCEPT !.pc = FirstStep(r), !.review = r, !.job = k]]
      BY <1>4 DEF Begin
    <2>2. /\ j # k => jobs'[j] = jobs[j]
          /\ \A u \in Threads \ {t} : thread'[u] = thread[u]
          /\ thread'[t].pc \in Working /\ thread'[t].job = k /\ ~IsWorking(t)
          /\ dropped' = dropped
      BY <1>4, <2>1, FirstStepTyped DEF Begin, TypeOK, Idle, Working, IsIdle, IsWorking
    <2>3. QED
      BY <1>1, <2>2 DEF IsWorking
  <1>5. ASSUME NEW t \in Threads, Link(t) \/ Add(t) \/ Found(t) PROVE Kept(j)'
    <2>1. /\ \A u \in Threads \ {t} : thread'[u] = thread[u]
          /\ thread'[t].pc \in Working /\ thread'[t].job = thread[t].job
      <3>1. CASE Link(t)
        BY <3>1 DEF Link, LinkTo, Linked, TypeOK, ThreadRecord, Working
      <3>2. CASE Add(t)
        BY <3>2 DEF Add, TypeOK, ThreadRecord, Working
      <3>3. CASE Found(t)
        BY <3>3 DEF Found, TypeOK, ThreadRecord, Working
      <3>4. QED
        BY <1>5, <3>1, <3>2, <3>3
    <2>2. jobs' = jobs /\ dropped' = dropped
      BY <1>5 DEF Link, Add, Found
    <2>3. QED
      BY <1>1, <2>1, <2>2 DEF IsWorking
  <1>6. ASSUME NEW t \in Threads, Record(t) PROVE Kept(j)'
    <2>1. PICK k \in Jobs : k = thread[t].job
      BY <1>6 DEF Record, Assigned, IsWorking, Working
    <2>2. thread[t].found \in Hashes
      BY <1>6 DEF Record, Assigned
    <2>3. j # k /\ jobs'[j] = jobs[j]
      BY <1>6, <2>1, <2>2, ExecutorAssumption DEF Record, TypeOK, JobRecord
    <2>4. (\A u \in Threads \ {t} : thread'[u] = thread[u]) /\ dropped' = dropped
      BY <1>6 DEF Record, TypeOK
    <2>5. QED
      BY <1>1, <2>1, <2>3, <2>4 DEF IsWorking
  <1>7. ASSUME NEW t \in Threads, Abort(t) PROVE Kept(j)'
    <2>1. PICK k \in Jobs : k = thread[t].job
      BY <1>7 DEF Abort, Failing, Assigned
    <2>2. j # k /\ jobs'[j] = jobs[j]
      BY <1>7, <2>1 DEF Abort, TypeOK, JobRecord
    <2>3. (\A u \in Threads \ {t} : thread'[u] = thread[u]) /\ dropped' = dropped
      BY <1>7 DEF Abort, TypeOK
    <2>4. QED
      BY <1>1, <2>1, <2>2, <2>3 DEF IsWorking
  <1>8. ASSUME NEW t \in Threads, Lose(t) PROVE Kept(j)'
    <2>1. /\ \A u \in Threads \ {t} : thread'[u] = thread[u]
          /\ jobs' = jobs /\ dropped' = dropped \union {thread[t].job}
      BY <1>8 DEF Lose, TypeOK
    <2>2. QED
      BY <1>1, <2>1 DEF IsWorking
  <1>9. ASSUME NEW t \in Threads, (\E k \in Jobs : Poll(t, k)) \/ LoseAnswer(t) PROVE Kept(j)'
    <2>1. /\ \A u \in Threads \ {t} : thread'[u] = thread[u]
          /\ ~IsWorking(t) /\ jobs' = jobs /\ dropped' = dropped
      BY <1>9 DEF Poll, LoseAnswer, TypeOK, IsIdle, IsWorking, Working
    <2>2. QED
      BY <1>1, <2>1 DEF IsWorking
  <1>10. ASSUME NEW t \in Threads, Report(t) PROVE Kept(j)'
    <2>1. PICK k \in Jobs : k = thread[t].job /\ jobs[k].hash # NoHash
      BY <1>10 DEF Report, Assigned, Core, ThreadsConsistent
    <2>2. /\ jobs'[k].hash = jobs[k].hash
          /\ j # k => jobs'[j] = jobs[j]
      BY <1>10, <2>1 DEF Report, TypeOK, JobRecord
    <2>3. /\ \A u \in Threads \ {t} : thread'[u] = thread[u]
          /\ ~IsWorking(t) /\ dropped' = dropped
      BY <1>10 DEF Report, TypeOK, IsWorking, Working
    <2>4. QED
      BY <1>1, <2>1, <2>2, <2>3 DEF IsWorking
  <1>11. ASSUME NEW k \in Jobs, Retry(k) PROVE Kept(j)'
    <2>1. /\ jobs[k].hash # NoHash /\ jobs'[k].hash = jobs[k].hash
          /\ j # k => jobs'[j] = jobs[j]
          /\ thread' = thread /\ dropped' = dropped
      BY <1>11 DEF Retry, TypeOK, JobRecord
    <2>2. QED
      BY <1>1, <2>1 DEF IsWorking
  <1>12. QED
    BY <1>2, <1>3, <1>4, <1>5, <1>6, <1>7, <1>8, <1>9, <1>10, <1>11
    DEF Next, Environment, Execution, UserPutsFile, Appear, RecheckEnds, Download,
        UserRemoves, vars

\* A job in progress has a thread that works on it or a hash by which the
\* reconciliation finds it, unless the process was killed, or a commit failed,
\* while it was worked on: no other failure of an execution loses a job.
THEOREM NoneLost == Spec => []OnlyFaultsLoseJobs
  BY InitHeld, NextHeld, Invariance, PTL DEF Spec

-----------------------------------------------------------------------------
(* The executor implements JobLedger: the rest of the program may reason    *)
(* about a seed_job row by the abstract states alone.                       *)

\* What a step of the executor does to the abstract row j.
Moves(j, row) == LedgerOf' = [LedgerOf EXCEPT ![j] = row]

\* The abstract table changes where, and only where, the table does.
LEMMA OneMoves ==
    ASSUME NEW j \in Jobs, \A k \in Jobs \ {j} : jobs'[k] = jobs[k]
    PROVE  Moves(j, [review |-> jobs'[j].review, state |-> StateOf(jobs'[j])])
  <1> DEFINE row == [review |-> jobs'[j].review, state |-> StateOf(jobs'[j])]
  <1>1. LedgerOf' = [k \in Jobs |-> [review |-> jobs'[k].review, state |-> StateOf(jobs'[k])]]
    BY DEF LedgerOf, StateOf
  <1>2. [LedgerOf EXCEPT ![j] = row]
            = [k \in Jobs |-> IF k = j THEN row
                              ELSE [review |-> jobs[k].review, state |-> StateOf(jobs[k])]]
    BY DEF LedgerOf
  <1>3. \A k \in Jobs :
           [review |-> jobs'[k].review, state |-> StateOf(jobs'[k])]
             = IF k = j THEN row ELSE [review |-> jobs[k].review, state |-> StateOf(jobs[k])]
    OBVIOUS
  <1> HIDE DEF row
  <1>4. LedgerOf' = [LedgerOf EXCEPT ![j] = row]
    BY <1>1, <1>2, <1>3
  <1>5. QED
    BY <1>4 DEF Moves, row

LEMMA NoneMoves == ASSUME jobs' = jobs PROVE LedgerOf' = LedgerOf
  BY DEF LedgerOf, StateOf

\* A state other than "none" is a row that exists, and the next free row is the
\* same in both tables.
LEMMA NextRowMaps ==
    ASSUME TypeOK, NEW j \in Jobs, NextRow(j)
    PROVE  Ledger!NextRow(j)
  <1>1. \A k \in Jobs : (LedgerOf[k].state = "none") <=> (jobs[k].status = "none")
    BY DEF LedgerOf, StateOf, TypeOK, JobRecord, JobStatus
  <1>2. QED
    BY <1>1 DEF NextRow, Ledger!NextRow, Ledger!Jobs, Jobs

LEMMA InitMaps == Init => Ledger!LedgerInit
  BY DEF Init, Ledger!LedgerInit, LedgerOf, StateOf, NoRow, Ledger!NoRow, Ledger!Jobs, Jobs

\* A step that changes the status or the hash of a row moves its state only.
LEMMA StateMoves ==
    ASSUME TypeOK, NEW j \in Jobs, \A k \in Jobs \ {j} : jobs'[k] = jobs[k],
           jobs'[j].review = jobs[j].review, NEW s, StateOf(jobs'[j]) = s
    PROVE  Ledger!SetState(j, s)
  <1>1. Moves(j, [review |-> jobs[j].review, state |-> s])
    BY OneMoves
  <1>2. LedgerOf[j] = [review |-> jobs[j].review, state |-> StateOf(jobs[j])]
    BY DEF LedgerOf
  <1>3. [LedgerOf[j] EXCEPT !.state = s] = [review |-> jobs[j].review, state |-> s]
    BY <1>2
  <1>4. [LedgerOf EXCEPT ![j].state = s] = [LedgerOf EXCEPT ![j] = [review |-> jobs[j].review, state |-> s]]
    BY <1>3
  <1>5. QED
    BY <1>1, <1>4 DEF Moves, Ledger!SetState

LEMMA StateOfRow ==
    ASSUME NEW j \in Jobs
    PROVE  LedgerOf[j].state = StateOf(jobs[j])
  BY DEF LedgerOf

\* A row with a hash is one that exists: its state is past the handing over.
LEMMA RowOfHash ==
    ASSUME IInv, NEW j \in Jobs, jobs[j].hash # NoHash
    PROVE  jobs[j].status \in {"in_progress", "seeding", "failed"}
  BY DEF IInv, TypeInv, TypeOK, JobRecord, JobStatus, Core, RowConsistent

LEMMA StepMaps ==
    ASSUME IInv, [Next]_vars
    PROVE  [Ledger!LedgerNext]_LedgerOf
  <1> USE DEF IInv, TypeInv
  <1>1. CASE jobs' = jobs
    BY <1>1, NoneMoves
  <1>2. ASSUME NEW t \in Threads, NEW r \in Reviews, Begin(t, r) PROVE Ledger!LedgerNext
    <2>1. PICK j \in Jobs :
            /\ NextRow(j)
            /\ jobs' = [jobs EXCEPT ![j] = [review |-> r, status |-> "in_progress", hash |-> NoHash]]
      BY <1>2 DEF Begin
    <2>2. /\ \A k \in Jobs \ {j} : jobs'[k] = jobs[k]
          /\ jobs'[j].review = r /\ jobs'[j].status = "in_progress" /\ jobs'[j].hash = NoHash
      BY <2>1 DEF TypeOK
    <2>3. StateOf(jobs'[j]) = "running"
      BY <2>2 DEF StateOf
    <2>4. Ledger!Open(j, r)
      BY <2>1, <2>2, <2>3, OneMoves, NextRowMaps DEF Ledger!Open, Moves
    <2>5. QED
      BY <2>4 DEF Ledger!LedgerNext, Ledger!Jobs, Jobs
  <1>4. ASSUME NEW t \in Threads, Record(t) PROVE Ledger!LedgerNext
    <2>1. PICK j \in Jobs : j = thread[t].job /\ jobs[j].status = "in_progress" /\ jobs[j].hash = NoHash
      BY <1>4, AtWork DEF Record, IsWorking, Working, WorkConsistent
    <2>2. PICK h \in Hashes : jobs' = [jobs EXCEPT ![j].hash = h]
      BY <1>4, <2>1 DEF Record, Assigned
    <2>3. /\ \A k \in Jobs \ {j} : jobs'[k] = jobs[k]
          /\ jobs'[j].review = jobs[j].review /\ jobs'[j].status = "in_progress"
          /\ jobs'[j].hash # NoHash
      BY <2>1, <2>2, ExecutorAssumption DEF TypeOK, JobRecord
    <2>4. StateOf(jobs[j]) = "running" /\ StateOf(jobs'[j]) = "added"
      BY <2>1, <2>3 DEF StateOf
    <2>5. Ledger!Hand(j)
      BY <2>3, <2>4, StateMoves, StateOfRow DEF Ledger!Hand
    <2>6. QED
      BY <2>5 DEF Ledger!LedgerNext, Ledger!Jobs, Jobs
  <1>5. ASSUME NEW t \in Threads, Abort(t) PROVE Ledger!LedgerNext
    <2>1. PICK j \in Jobs : j = thread[t].job /\ jobs[j].status = "in_progress" /\ jobs[j].hash = NoHash
      BY <1>5, AtWork DEF Abort, Failing, WorkConsistent
    <2>2. /\ \A k \in Jobs \ {j} : jobs'[k] = jobs[k]
          /\ jobs'[j].review = jobs[j].review /\ jobs'[j].status = "failed"
          /\ jobs'[j].hash = NoHash
      BY <1>5, <2>1 DEF Abort, TypeOK, JobRecord
    <2>3. StateOf(jobs[j]) = "running" /\ StateOf(jobs'[j]) = "failed"
      BY <2>1, <2>2 DEF StateOf
    <2>4. Ledger!Close(j)
      BY <2>2, <2>3, StateMoves, StateOfRow DEF Ledger!Close
    <2>5. QED
      BY <2>4 DEF Ledger!LedgerNext, Ledger!Jobs, Jobs
  <1>6. ASSUME NEW t \in Threads, Report(t), jobs' # jobs PROVE Ledger!LedgerNext
    <2>1. PICK j \in Jobs : j = thread[t].job /\ jobs[j].hash # NoHash
      BY <1>6 DEF Report, Assigned, Core, ThreadsConsistent
    <2>2. PICK o : o = Outcome(j, thread[t].seen)
      OBVIOUS
    <2>3. jobs' = [jobs EXCEPT ![j].status = CASE o = "ok" -> "seeding" [] o = "failed" -> "failed"
                                               [] OTHER -> jobs[j].status]
      BY <1>6, <2>1, <2>2 DEF Report, TypeOK
    <2>4. o \in {"ok", "failed"}
      <3>1. SUFFICES ASSUME o \notin {"ok", "failed"} PROVE FALSE
        OBVIOUS
      <3>2. jobs' = [jobs EXCEPT ![j].status = jobs[j].status]
        BY <2>3, <3>1
      <3>3. jobs' = jobs
        BY <3>2 DEF TypeOK, JobRecord
      <3>4. QED
        BY <1>6, <3>3
    <2>5. /\ \A k \in Jobs \ {j} : jobs'[k] = jobs[k]
          /\ jobs'[j].review = jobs[j].review /\ jobs'[j].hash = jobs[j].hash
          /\ jobs'[j].status = IF o = "ok" THEN "seeding" ELSE "failed"
      BY <2>3, <2>4 DEF TypeOK, JobRecord
    <2>6. PICK s \in {"seeding", "broken"} : s = StateOf(jobs'[j])
      BY <2>1, <2>5 DEF StateOf
    <2>7. StateOf(jobs[j]) \in Ledger!Handed
      BY <2>1, RowOfHash DEF StateOf, Ledger!Handed
    <2>8. Ledger!Settle(j, s)
      BY <2>5, <2>6, <2>7, StateMoves, StateOfRow DEF Ledger!Settle
    <2>9. QED
      BY <2>8 DEF Ledger!LedgerNext, Ledger!Jobs, Jobs
  <1>7. ASSUME NEW j \in Jobs, Retry(j) PROVE Ledger!LedgerNext
    <2>1. /\ \A k \in Jobs \ {j} : jobs'[k] = jobs[k]
          /\ jobs'[j].review = jobs[j].review /\ jobs'[j].status = "in_progress"
          /\ jobs'[j].hash = jobs[j].hash
          /\ jobs[j].status = "failed" /\ jobs[j].hash # NoHash
      BY <1>7 DEF Retry, TypeOK, JobRecord
    <2>2. StateOf(jobs[j]) = "broken" /\ StateOf(jobs'[j]) = "added"
      BY <2>1 DEF StateOf
    <2>3. Ledger!Resume(j)
      BY <2>1, <2>2, StateMoves, StateOfRow DEF Ledger!Resume
    <2>4. QED
      BY <2>3 DEF Ledger!LedgerNext, Ledger!Jobs, Jobs
  <1>8. QED
    BY <1>1, <1>2, <1>4, <1>5, <1>6, <1>7
    DEF Next, Environment, Execution, UserPutsFile, Appear, RecheckEnds, Download,
        UserRemoves, Crash, Link, Add, Found, Lose, Poll, LoseAnswer, vars

\* The seed_job table, seen through status and info_hash, only moves as the
\* ledger says: a job that never reached the client is never revived, and one
\* that did never loses its torrent.
THEOREM Refinement == Spec => ImplementsLedger
  <1>1. [Next]_vars /\ IInv => [Ledger!LedgerNext]_LedgerOf
    BY StepMaps
  <1>2. QED
    BY <1>1, InitMaps, Invariance, PTL DEF Spec, ImplementsLedger, Ledger!LedgerSpec
=============================================================================
