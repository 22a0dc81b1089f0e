--------------------------- MODULE ReviewQueueProofs ---------------------------
(***************************************************************************)
(* The safety properties of ReviewQueue, for any number of reviews, files, *)
(* torrents, request threads, jobs, queued checks and restarts.            *)
(***************************************************************************)
EXTENDS ReviewQueue, TLAPS

-----------------------------------------------------------------------------
(* Type correctness                                                        *)

ReviewRecord == [file: Files \union {None}, torrent: Torrents \union {None},
                 status: Status, by: Decider, verify: Verify]

ActorRecord == [pc: {"idle", "mark", "auto", "checking", "approve", "execute", "running"},
                review: Reviews \union {NoReview}, job: Jobs \union {0}]

Busied == {"mark", "checking", "approve", "execute", "running"} \* a thread has a review

RvType == rv \in [Reviews -> ReviewRecord]

\* A busy thread has a review, and one that executes has a row.
ActorType ==
    /\ actor \in [Actors -> ActorRecord]
    /\ \A a \in Actors : /\ actor[a].pc \in Busied => actor[a].review \in Reviews
                         /\ actor[a].pc = "running" => actor[a].job \in Jobs

\* A row that exists has a review.
RowType == LedgerType /\ \A j \in Jobs : Exists(j) => ledger[j].review \in Reviews

PickRecord == [at: Stage, file: Files \union {None}, torrent: Torrents \union {None},
               stale: SUBSET Reviews]

\* A matcher that has chosen a torrent has a file.
PickedType ==
    /\ picked \in [Matchers -> PickRecord]
    /\ \A m \in Matchers : Chosen(m) => picked[m].file \in Files /\ picked[m].torrent \in Torrents

QueueType == queue \in Seq(Reviews) /\ Len(queue) <= MaxQueue

TodoType == todo \subseteq Reviews

RestType == settings \in Settings /\ removed \subseteq Jobs /\ crashes \in 0 .. MaxCrashes

AskedType == consent \subseteq Reviews /\ verifiedOk \subseteq Reviews

HistoryType ==
    /\ crossed \subseteq Reviews /\ revived \subseteq Reviews
    /\ overtaken \subseteq Reviews /\ refused \subseteq Reviews

TypeInv ==
    /\ RvType /\ ActorType /\ RowType /\ PickedType
    /\ QueueType /\ TodoType /\ RestType /\ AskedType /\ HistoryType

LEMMA TypeInvTypes == TypeInv => TypeOK
  BY DEF TypeInv, TypeOK, RvType, ActorType, RowType, PickedType, QueueType, TodoType, RestType,
         AskedType, HistoryType, ReviewRecord, ActorRecord, PickRecord

\* What a step leaves alone keeps its type.
LEMMA Kept ==
    ASSUME TypeInv
    PROVE  /\ UNCHANGED rv => RvType'
           /\ UNCHANGED actor => ActorType'
           /\ UNCHANGED ledger => RowType'
           /\ UNCHANGED picked => PickedType'
           /\ UNCHANGED queue => QueueType'
           /\ UNCHANGED todo => TodoType'
           /\ UNCHANGED settings /\ UNCHANGED removed /\ UNCHANGED crashes => RestType'
           /\ UNCHANGED consent /\ UNCHANGED verifiedOk => AskedType'
  <1>1. UNCHANGED rv => RvType'
    BY DEF TypeInv, RvType
  <1>2. UNCHANGED actor => ActorType'
    BY DEF TypeInv, ActorType
  <1>3. UNCHANGED ledger => RowType'
    BY DEF TypeInv, RowType, LedgerType, Exists
  <1>4. UNCHANGED picked => PickedType'
    BY DEF TypeInv, PickedType, Chosen
  <1>5. UNCHANGED queue => QueueType'
    BY DEF TypeInv, QueueType
  <1>6. UNCHANGED todo => TodoType'
    BY DEF TypeInv, TodoType
  <1>7. UNCHANGED settings /\ UNCHANGED removed /\ UNCHANGED crashes => RestType'
    BY DEF TypeInv, RestType
  <1>8. UNCHANGED consent /\ UNCHANGED verifiedOk => AskedType'
    BY DEF TypeInv, AskedType
  <1>9. QED
    BY <1>1, <1>2, <1>3, <1>4, <1>5, <1>6, <1>7, <1>8

LEMMA ActorsKnown == Worker \in Actors /\ Run \in Actors /\ Clicks \subseteq Actors
  BY DEF Actors

\* A thread moves on to a review, or to none.
LEMMA Moved ==
    ASSUME TypeInv, NEW a \in Actors, NEW r \in Reviews \union {NoReview},
           NEW pc \in {"idle", "mark", "auto", "checking", "approve", "execute"},
           pc \in Busied => r \in Reviews, MoveTo(a, pc, r)
    PROVE  /\ ActorType'
           /\ actor'[a].pc = pc /\ actor'[a].review = r
           /\ \A b \in Actors \ {a} : actor'[b] = actor[b]
  <1>1. actor \in [Actors -> ActorRecord]
    BY DEF TypeInv, ActorType
  <1>2. /\ actor'[a].pc = pc /\ actor'[a].review = r
        /\ \A b \in Actors \ {a} : actor'[b] = actor[b]
    BY <1>1 DEF MoveTo, Idle
  <1>3. actor' \in [Actors -> ActorRecord]
    BY <1>1 DEF MoveTo, Idle, ActorRecord
  <1>4. \A b \in Actors : /\ actor'[b].pc \in Busied => actor'[b].review \in Reviews
                          /\ actor'[b].pc = "running" => actor'[b].job \in Jobs
    BY <1>2 DEF TypeInv, ActorType
  <1>5. QED
    BY <1>2, <1>3, <1>4 DEF ActorType

\* A review is done with.
LEMMA DoneTyped ==
    ASSUME TypeInv, NEW a \in Actors, Done(a)
    PROVE  /\ ActorType'
           /\ actor'[a].pc \in {"idle", "auto"}
           /\ a # Run => actor'[a].pc = "idle"
           /\ \A b \in Actors \ {a} : actor'[b] = actor[b]
  <1>1. PICK pc \in {"idle", "auto"} : MoveTo(a, pc, NoReview) /\ (a # Run => pc = "idle")
    BY DEF Done
  <1>2. pc \notin Busied
    BY DEF Busied
  <1>3. QED
    BY <1>1, <1>2, Moved

\* One review changes in its status and its decider, or in its verification.
LEMMA RvTyped ==
    ASSUME TypeInv, NEW r \in Reviews, NEW s \in Status, NEW w \in Decider, NEW v \in Verify
    PROVE  /\ [rv EXCEPT ![r].status = s, ![r].by = w] \in [Reviews -> ReviewRecord]
           /\ [rv EXCEPT ![r].verify = v] \in [Reviews -> ReviewRecord]
  BY DEF TypeInv, RvType, ReviewRecord

LEMMA SystemRejectsTyped ==
    ASSUME TypeInv, NEW stale, SystemRejects(stale)
    PROVE  RvType'
  <1>1. "rejected" \in Status /\ "system" \in Decider
    BY DEF Status, Decider
  <1>2. QED
    BY <1>1 DEF TypeInv, RvType, SystemRejects, ReviewRecord

\* The verification of one review changes.
LEMMA VerifyTyped ==
    ASSUME TypeInv, NEW r \in Reviews, NEW v \in Verify, rv' = [rv EXCEPT ![r].verify = v]
    PROVE  RvType'
  BY DEF TypeInv, RvType, ReviewRecord

LEMMA ApproveTyped ==
    ASSUME TypeInv, NEW a \in Actors, NEW r \in Reviews, NEW w \in Decider, Approve(a, r, w)
    PROVE  /\ RvType' /\ ActorType'
           /\ actor'[a].pc = "execute" /\ actor'[a].review = r
           /\ \A b \in Actors \ {a} : actor'[b] = actor[b]
  <1>1. RvType'
    BY RvTyped DEF Approve, Status, Verify, RvType
  <1>2. MoveTo(a, "execute", r)
    BY DEF Approve
  <1>3. QED
    BY <1>1, <1>2, Moved

\* A matcher moves on with its file, or is done.
LEMMA GoesTyped ==
    ASSUME TypeInv, NEW m \in Matchers, Chosen(m),
           NEW stage \in Stage, NEW stale \in SUBSET Reviews, Goes(m, stage, stale)
    PROVE  PickedType'
  BY DEF TypeInv, PickedType, PickRecord, Chosen, Goes

LEMMA EndsTyped ==
    ASSUME TypeInv, NEW m \in Matchers, Ends(m)
    PROVE  PickedType' /\ picked'[m] = Nothing /\ \A n \in Matchers \ {m} : picked'[n] = picked[n]
  BY DEF TypeInv, PickedType, PickRecord, Chosen, Ends, Nothing, Stage

\* Steps of a row of the ledger that exists.
LEMMA StateTyped ==
    ASSUME LedgerType, NEW j \in Jobs, NEW s \in JobStates, SetState(j, s)
    PROVE  /\ LedgerType'
           /\ \A k \in Jobs : ledger'[k].review = ledger[k].review
           /\ \A k \in Jobs \ {j} : ledger'[k] = ledger[k]
           /\ ledger'[j].state = s
  BY DEF LedgerType, SetState

LEMMA RowsMove ==
    ASSUME LedgerType, NEW j \in Jobs,
           Hand(j) \/ Close(j) \/ Resume(j) \/ \E s \in {"seeding", "broken"} : Settle(j, s)
    PROVE  /\ LedgerType'
           /\ \A k \in Jobs : /\ ledger'[k].review = ledger[k].review
                              /\ ledger'[k].state # "none" <=> ledger[k].state # "none"
  <1>1. PICK s \in JobStates \ {"none"} : SetState(j, s) /\ ledger[j].state # "none"
    BY DEF Hand, Close, Resume, Settle, Handed, JobStates
  <1>2. QED
    BY <1>1, StateTyped

\* A new row.
LEMMA RowOpens ==
    ASSUME LedgerType, NEW j \in Jobs, NEW r \in Reviews, Open(j, r)
    PROVE  /\ LedgerType'
           /\ ledger'[j].review = r /\ ledger'[j].state # "none" /\ ledger[j].state = "none"
           /\ \A k \in Jobs \ {j} : ledger'[k] = ledger[k]
  <1>1. ledger[j].state = "none"
    BY DEF Open, NextRow, Jobs
  <1>2. ledger' = [ledger EXCEPT ![j] = [review |-> r, state |-> "running"]]
    BY DEF Open
  <1>3. QED
    BY <1>1, <1>2 DEF LedgerType, JobStates

\* The rows keep their types when one is created or moves on.
LEMMA RowsTyped ==
    ASSUME TypeInv, NEW j \in Jobs,
           \/ \E r \in Reviews : Open(j, r)
           \/ Hand(j) \/ Close(j) \/ Resume(j) \/ \E s \in {"seeding", "broken"} : Settle(j, s)
    PROVE  RowType'
  <1> USE DEF TypeInv, RowType, Exists
  <1>1. ASSUME NEW r \in Reviews, Open(j, r) PROVE RowType'
    BY <1>1, RowOpens
  <1>2. CASE Hand(j) \/ Close(j) \/ Resume(j) \/ \E s \in {"seeding", "broken"} : Settle(j, s)
    BY <1>2, RowsMove
  <1>3. QED
    BY <1>1, <1>2

LEMMA InitTyped == Init => TypeInv
  <1> SUFFICES ASSUME Init PROVE TypeInv
    OBVIOUS
  <1>1. RowType
    BY DEF Init, LedgerInit, NoRow, LedgerType, JobStates, Exists, RowType
  <1>2. RvType
    BY DEF Init, NoReviewRow, ReviewRecord, Status, Decider, Verify, RvType
  <1>3. ActorType
    BY DEF Init, Idle, ActorRecord, ActorType, Busied
  <1>4. PickedType
    BY DEF Init, PickedType, PickRecord, Nothing, Stage, Chosen
  <1>5. QueueType
    BY ReviewQueueAssumption DEF Init, QueueType
  <1>6. TodoType /\ RestType /\ AskedType /\ HistoryType
    BY ReviewQueueAssumption DEF Init, TodoType, RestType, AskedType, HistoryType
  <1>7. QED
    BY <1>1, <1>2, <1>3, <1>4, <1>5, <1>6 DEF TypeInv

\* The types, the history of the steps apart.
ModelType ==
    /\ RvType /\ ActorType /\ RowType /\ PickedType
    /\ QueueType /\ TodoType /\ RestType /\ AskedType

LEMMA StepTyped == TypeInv /\ Step => ModelType'
  <1> SUFFICES ASSUME TypeInv, Step PROVE ModelType'
    OBVIOUS
  <1> USE Kept DEF rows, asked, ModelType
  <1>0. "rejected" \in Status /\ {"user", "system", "nobody"} \subseteq Decider
        /\ {"none", "verifying", "passed", "failed"} = Verify
    BY DEF Status, Decider, Verify
  <1>1. ASSUME NEW m \in Matchers, NEW f \in Files, NEW x \in Torrents, Filter(m, f, x)
        PROVE  ModelType'
    <2>1. PickedType'
      BY <1>1 DEF Filter, PickedType, PickRecord, Stage, Chosen, TypeInv
    <2>2. QED
      BY <1>1, <2>1 DEF Filter, TypeInv
  <1>2. ASSUME NEW m \in Matchers, Look(m) PROVE ModelType'
    <2>1. Chosen(m) /\ Superseded(picked[m].file) \in SUBSET Reviews
      BY <1>2 DEF Look, Chosen, Superseded
    <2>2. PICK stage \in Stage : Goes(m, stage, Superseded(picked[m].file))
      BY <1>2 DEF Look, Stage
    <2>3. PickedType'
      BY <2>1, <2>2, GoesTyped
    <2>4. QED
      BY <1>2, <2>3 DEF Look, TypeInv
  <1>3. ASSUME NEW m \in Matchers, Supersede(m) PROVE ModelType'
    <2>1. RvType'
      BY <1>3, SystemRejectsTyped DEF Supersede
    <2>2. Chosen(m) /\ "superseded" \in Stage /\ {} \in SUBSET Reviews
      BY <1>3 DEF Supersede, Chosen, Stage
    <2>3. PickedType'
      BY <1>3, <2>2, GoesTyped DEF Supersede
    <2>4. QED
      BY <1>3, <2>1, <2>3 DEF Supersede, TypeInv
  <1>4. ASSUME NEW m \in Matchers, NoMatch(m) PROVE ModelType'
    BY <1>4, EndsTyped DEF NoMatch, TypeInv
  <1>5. ASSUME NEW m \in Matchers, NEW r \in Reviews, NEW s \in Ready, Insert(m, r, s)
        PROVE  ModelType'
    <2>1. Chosen(m) /\ picked[m].file \in Files /\ picked[m].torrent \in Torrents
      BY <1>5 DEF Insert, Chosen, PickedType, TypeInv
    <2>2. RvType'
      BY <1>0, <1>5, <2>1 DEF Insert, ReviewRecord, Status, RvType, TypeInv
    <2>3. PickedType'
      BY <1>5, EndsTyped DEF Insert
    <2>4. QED
      BY <1>5, <2>2, <2>3 DEF Insert, TypeInv
  <1>6. ASSUME NEW m \in Matchers, NEW resolved \in SUBSET Files, LookResolved(m, resolved)
        PROVE  ModelType'
    <2>1. PickedType'
      BY <1>6 DEF LookResolved, PickedType, PickRecord, Nothing, Stage, Chosen, TypeInv
    <2>2. QED
      BY <1>6, <2>1 DEF LookResolved, TypeInv
  <1>7. ASSUME NEW m \in Matchers, CloseResolved(m) PROVE ModelType'
    <2>1. RvType' /\ PickedType'
      BY <1>7, SystemRejectsTyped, EndsTyped DEF CloseResolved
    <2>2. QED
      BY <1>7, <2>1 DEF CloseResolved, TypeInv
  <1>8. ASSUME NEW r \in Reviews, Reject(r) PROVE ModelType'
    <2>1. RvType'
      BY <1>0, <1>8 DEF Reject, RvType, ReviewRecord, TypeInv
    <2>2. AskedType'
      BY <1>8 DEF Reject, AskedType, TypeInv
    <2>3. QED
      BY <1>8, <2>1, <2>2 DEF Reject, TypeInv
  <1>9. ASSUME NEW a \in Clicks, NEW r \in Reviews, ApproveNow(a, r) PROVE ModelType'
    <2>1. RvType' /\ ActorType'
      BY <1>0, <1>9, ActorsKnown, ApproveTyped DEF ApproveNow
    <2>2. AskedType'
      BY <1>9 DEF ApproveNow, AskedType, TypeInv
    <2>3. QED
      BY <1>9, <2>1, <2>2 DEF ApproveNow, TypeInv
  <1>10. ASSUME NEW a \in Clicks, NEW r \in Reviews, StartCheck(a, r) PROVE ModelType'
    <2>1. ActorType'
      BY <1>10, ActorsKnown, Moved DEF StartCheck
    <2>2. QueueType'
      BY <1>10, ReviewQueueAssumption DEF StartCheck, QueueType, TypeInv
    <2>3. AskedType'
      BY <1>10 DEF StartCheck, AskedType, TypeInv
    <2>4. QED
      BY <1>10, <2>1, <2>2, <2>3 DEF StartCheck, TypeInv
  <1>11. ASSUME NEW a \in Clicks, Mark(a) PROVE ModelType'
    <2>1. a \in Actors /\ actor[a].review \in Reviews /\ "idle" \notin Busied
      BY <1>11, ActorsKnown DEF Mark, Busied, ActorType, TypeInv
    <2>2. ActorType'
      BY <1>11, <2>1, Moved DEF Mark
    <2>3. RvType'
      BY <1>0, <1>11, <2>1, VerifyTyped DEF Mark
    <2>4. QED
      BY <1>11, <2>2, <2>3 DEF Mark, TypeInv
  <1>12. ASSUME NEW a \in Clicks, NEW j \in Jobs, RetryFresh(a, j) PROVE ModelType'
    <2>1. ledger[j].review \in Reviews
      BY <1>12 DEF RetryFresh, Exists, RowType, TypeInv
    <2>2. ActorType'
      BY <1>12, <2>1, ActorsKnown, Moved DEF RetryFresh
    <2>3. AskedType'
      BY <1>12, <2>1 DEF RetryFresh, AskedType, TypeInv
    <2>4. QED
      BY <1>12, <2>2, <2>3 DEF RetryFresh, TypeInv
  <1>13. CASE Take
    <2>1. queue \in Seq(Reviews) /\ queue # <<>> /\ Len(queue) <= MaxQueue
      BY <1>13 DEF Take, QueueType, TypeInv
    <2>2. Head(queue) \in Reviews /\ Tail(queue) \in Seq(Reviews) /\ Len(Tail(queue)) <= MaxQueue
      BY <2>1, ReviewQueueAssumption
    <2>3. ActorType'
      BY <1>13, <2>2, ActorsKnown, Moved DEF Take
    <2>4. QueueType'
      BY <1>13, <2>2 DEF Take, QueueType
    <2>5. QED
      BY <1>13, <2>3, <2>4 DEF Take, TypeInv
  <1>14. ASSUME NEW a \in Actors, Passed(a), ActorType' PROVE ModelType'
    <2>1. actor[a].review \in Reviews
      BY <1>14 DEF Passed, Busied, ActorType, TypeInv
    <2>2. RvType'
      BY <1>0, <1>14, <2>1, VerifyTyped DEF Passed
    <2>3. AskedType'
      BY <1>14, <2>1 DEF Passed, AskedType, TypeInv
    <2>4. QED
      BY <1>14, <2>2, <2>3 DEF Passed, TypeInv
  <1>15. CASE CheckPasses \/ AutoPasses
    <2>1. PICK a \in {Worker, Run} :
              Passed(a) /\ (MoveTo(a, "approve", actor[a].review) \/ Done(a))
      BY <1>15 DEF CheckPasses, AutoPasses
    <2>2. a \in Actors /\ actor[a].review \in Reviews
      BY <2>1, ActorsKnown DEF Passed, Busied, ActorType, TypeInv
    <2>3. ActorType'
      BY <2>1, <2>2, Moved, DoneTyped
    <2>4. QED
      BY <1>14, <2>1, <2>2, <2>3
  <1>16. ASSUME NEW a \in Actors, ApproveChecked(a) PROVE ModelType'
    <2>1. actor[a].review \in Reviews
      BY <1>16 DEF ApproveChecked, Busied, ActorType, TypeInv
    <2>2. PICK w \in Decider : Approve(a, actor[a].review, w)
      BY <1>0, <1>16 DEF ApproveChecked
    <2>3. RvType' /\ ActorType'
      BY <2>1, <2>2, ApproveTyped
    <2>4. QED
      BY <1>16, <2>3 DEF ApproveChecked, TypeInv
  <1>17. CASE CheckEnds \/ AutoFails
    <2>1. PICK a \in {Worker, Run}, v \in {"failed", "none"} :
              /\ actor[a].pc = "checking" /\ Done(a)
              /\ rv' = [rv EXCEPT ![actor[a].review].verify = v]
      BY <1>17 DEF CheckEnds, AutoFails
    <2>2. a \in Actors /\ actor[a].review \in Reviews
      BY <2>1, ActorsKnown DEF Busied, ActorType, TypeInv
    <2>3. RvType' /\ ActorType'
      BY <1>0, <2>1, <2>2, VerifyTyped, DoneTyped
    <2>4. QED
      BY <1>17, <2>3 DEF CheckEnds, AutoFails, TypeInv
  <1>18. CASE StartAuto \/ EndAuto
    <2>1. PICK pc \in {"idle", "auto"} : MoveTo(Run, pc, NoReview)
      BY <1>18 DEF StartAuto, EndAuto
    <2>2. pc \notin Busied
      BY DEF Busied
    <2>3. ActorType'
      BY <2>1, <2>2, Moved, ActorsKnown
    <2>4. TodoType'
      BY <1>18 DEF StartAuto, EndAuto, TodoType
    <2>5. QED
      BY <1>18, <2>3, <2>4 DEF StartAuto, EndAuto, TypeInv
  <1>19. ASSUME NEW r \in Reviews, AutoNext(r) PROVE ModelType'
    <2>1. PICK pc \in {"checking", "approve"} : MoveTo(Run, pc, r)
      BY <1>19 DEF AutoNext
    <2>2. ActorType'
      BY <2>1, Moved, ActorsKnown
    <2>3. TodoType'
      BY <1>19 DEF AutoNext, TodoType, TypeInv
    <2>4. QED
      BY <1>19, <2>2, <2>3 DEF AutoNext, TypeInv
  <1>20. ASSUME NEW a \in Actors, NotExecuted(a) PROVE ModelType'
    BY <1>20, DoneTyped DEF NotExecuted, TypeInv
  <1>21. ASSUME NEW a \in Actors, NEW j \in Jobs, Execute(a, j) PROVE ModelType'
    <2>1. actor[a].review \in Reviews /\ actor \in [Actors -> ActorRecord]
      BY <1>21 DEF Execute, Busied, ActorType, TypeInv
    <2>2. RowType'
      BY <1>21, <2>1, RowsTyped DEF Execute
    <2>3. actor' \in [Actors -> ActorRecord]
      BY <1>21, <2>1 DEF Execute, ActorRecord
    <2>4. /\ actor'[a].review = actor[a].review /\ actor'[a].job = j
          /\ \A b \in Actors \ {a} : actor'[b] = actor[b]
      BY <1>21, <2>1 DEF Execute, ActorRecord
    <2>5. ActorType'
      BY <2>1, <2>3, <2>4 DEF ActorType, TypeInv
    <2>6. QED
      BY <1>21, <2>2, <2>5 DEF Execute, TypeInv
  <1>22. ASSUME NEW a \in Actors, Executed(a) PROVE ModelType'
    <2>1. actor[a].job \in Jobs
      BY <1>22 DEF Executed, ActorType, TypeInv
    <2>2. RowType'
      BY <1>22, <2>1, RowsTyped DEF Executed
    <2>3. QED
      BY <1>22, <2>2, DoneTyped DEF Executed, TypeInv
  <1>23. ASSUME NEW j \in Jobs, Reconcile(j) PROVE ModelType'
    BY <1>23, RowsTyped DEF Reconcile, TypeInv
  <1>24. ASSUME NEW j \in Jobs, LeaveClient(j) PROVE ModelType'
    BY <1>24 DEF LeaveClient, TypeInv, RestType
  <1>25. CASE Restart
    <2>1. RvType'
      BY <1>0, <1>25 DEF Restart, ReviewRecord, RvType, TypeInv
    <2>2. ActorType'
      BY <1>25 DEF Restart, Idle, ActorRecord, ActorType, Busied
    <2>3. PickedType'
      BY <1>25 DEF Restart, PickedType, PickRecord, Nothing, Stage, Chosen
    <2>4. QueueType' /\ TodoType' /\ RestType'
      BY <1>25, ReviewQueueAssumption DEF Restart, QueueType, TodoType, RestType, TypeInv
    <2>5. QED
      BY <1>25, <2>1, <2>2, <2>3, <2>4 DEF Restart, TypeInv
  <1>26. ASSUME NEW m \in Matchers, Matching(m) PROVE ModelType'
    BY <1>1, <1>2, <1>3, <1>4, <1>5, <1>6, <1>7, <1>26 DEF Matching
  <1>27. CASE Check \/ AutoPhase
    BY <1>13, <1>15, <1>16, <1>17, <1>18, <1>19, <1>27, ActorsKnown DEF Check, AutoPhase
  <1>28. ASSUME NEW a \in Actors, Execution(a) PROVE ModelType'
    BY <1>20, <1>21, <1>22, <1>28 DEF Execution
  <1>29. QED
    BY <1>8, <1>9, <1>10, <1>11, <1>12, <1>23, <1>24, <1>25, <1>26, <1>27, <1>28 DEF Step

LEMMA NextTyped == TypeInv /\ [Next]_vars => TypeInv'
  <1> SUFFICES ASSUME TypeInv, [Next]_vars PROVE TypeInv'
    OBVIOUS
  <1>1. CASE Next
    <2>1. HistoryType'
      BY <1>1 DEF Next, Records, HistoryType
    <2>2. QED
      BY <1>1, <2>1, StepTyped DEF Next, ModelType, TypeInv
  <1>2. CASE UNCHANGED vars
    BY <1>2, Kept DEF vars, asked, history, TypeInv, HistoryType
  <1>3. QED
    BY <1>1, <1>2

\* Every reachable state of the queue has the declared types.
THEOREM Typed == Spec => []TypeOK
  BY TypeInvTypes, InitTyped, NextTyped, PTL DEF Spec
-----------------------------------------------------------------------------
(* The full check before the execution                                     *)

Executing(a) == actor[a].pc \in {"approve", "execute", "running"}

\* With verification on, whoever approves or executes a review, and whatever was
\* executed, has passed its check.
Verified ==
    settings.verify =>
        /\ \A a \in Actors : Executing(a) => actor[a].review \in verifiedOk
        /\ \A j \in Jobs : Exists(j) => ledger[j].review \in verifiedOk

\* A step in which at most one thread begins to approve or execute, a review
\* that has passed its check if checks are asked for.
LEMMA OneStarts ==
    ASSUME Verified, UNCHANGED settings, verifiedOk \subseteq verifiedOk',
           \A a \in Actors : \/ actor'[a] = actor[a]
                           \/ ~Executing(a)'
                           \/ ~settings.verify
                           \/ actor'[a].review \in verifiedOk',
           \A j \in Jobs : Exists(j)' => Exists(j) /\ ledger'[j].review = ledger[j].review
    PROVE  Verified'
  <1> SUFFICES ASSUME settings'.verify
        PROVE  /\ \A a \in Actors : Executing(a)' => actor'[a].review \in verifiedOk'
               /\ \A j \in Jobs : Exists(j)' => ledger'[j].review \in verifiedOk'
    BY DEF Verified
  <1>1. settings.verify
    OBVIOUS
  <1>2. \A a \in Actors : Executing(a)' => actor'[a].review \in verifiedOk'
    BY <1>1 DEF Verified, Executing
  <1>3. \A j \in Jobs : Exists(j)' => ledger'[j].review \in verifiedOk'
    BY <1>1 DEF Verified
  <1>4. QED
    BY <1>2, <1>3

LEMMA InitVerified == Init => Verified
  BY DEF Init, LedgerInit, NoRow, Idle, Verified, Executing, Exists

LEMMA StepVerified == TypeInv /\ Verified /\ Step => Verified'
  <1> SUFFICES ASSUME TypeInv, Verified, Step PROVE Verified'
    OBVIOUS
  <1> USE DEF rows, asked
  <1>1. ASSUME UNCHANGED <<ledger, settings, actor>>, verifiedOk \subseteq verifiedOk' PROVE Verified'
    BY <1>1, OneStarts DEF Exists
  <1>2. ASSUME NEW m \in Matchers, Matching(m) PROVE Verified'
    BY <1>1, <1>2 DEF Matching, Filter, Look, Supersede, NoMatch, Insert, LookResolved, CloseResolved
  <1>3. ASSUME NEW r \in Reviews, Reject(r) PROVE Verified'
    BY <1>1, <1>3 DEF Reject
  <1>4. ASSUME NEW a \in Clicks, NEW r \in Reviews, ApproveNow(a, r) PROVE Verified'
    BY <1>4 DEF ApproveNow, Verified
  <1>5. ASSUME NEW a \in Actors,
               actor'[a].pc \in {"idle", "mark", "auto", "checking"}
                  \/ (settings.verify => actor'[a].review \in verifiedOk'),
               \A b \in Actors \ {a} : actor'[b] = actor[b],
               UNCHANGED <<ledger, settings>>, verifiedOk \subseteq verifiedOk'
        PROVE  Verified'
    BY <1>5, OneStarts DEF Executing, Exists
  <1>6. ASSUME NEW a \in Actors, NEW pc \in {"idle", "mark", "auto", "checking"},
               NEW r \in Reviews \union {NoReview}, pc \in Busied => r \in Reviews,
               MoveTo(a, pc, r), UNCHANGED <<ledger, settings>>, verifiedOk \subseteq verifiedOk'
        PROVE  Verified'
    BY <1>5, <1>6, Moved
  <1>7. ASSUME NEW a \in Actors, Done(a), UNCHANGED <<ledger, settings>>,
               verifiedOk \subseteq verifiedOk'
        PROVE  Verified'
    BY <1>5, <1>7, DoneTyped
  <1>8. ASSUME NEW a \in Clicks, NEW r \in Reviews, StartCheck(a, r) PROVE Verified'
    BY <1>6, <1>8, ActorsKnown DEF StartCheck
  <1>9. ASSUME NEW a \in Clicks, Mark(a) PROVE Verified'
    BY <1>6, <1>9, ActorsKnown DEF Mark, Busied
  <1>10. ASSUME NEW a \in Clicks, NEW j \in Jobs, RetryFresh(a, j) PROVE Verified'
    <2>1. ledger[j].review \in Reviews /\ Exists(j)
      BY <1>10 DEF RetryFresh, Exists, RowType, TypeInv
    <2>2. /\ actor'[a].review = ledger[j].review
          /\ \A b \in Actors \ {a} : actor'[b] = actor[b]
      BY <1>10, <2>1, ActorsKnown, Moved DEF RetryFresh
    <2>3. settings.verify => ledger[j].review \in verifiedOk
      BY <2>1 DEF Verified
    <2>4. QED
      BY <1>5, <1>10, <2>2, <2>3, ActorsKnown DEF RetryFresh
  <1>11. CASE Take
    <2>1. Head(queue) \in Reviews
      BY <1>11 DEF Take, QueueType, TypeInv
    <2>2. QED
      BY <1>6, <1>11, <2>1, ActorsKnown DEF Take
  <1>12. CASE CheckPasses \/ AutoPasses
    <2>1. PICK a \in {Worker, Run} :
              Passed(a) /\ (MoveTo(a, "approve", actor[a].review) \/ Done(a))
      BY <1>12 DEF CheckPasses, AutoPasses
    <2>2. a \in Actors /\ actor[a].review \in Reviews
      BY <2>1, ActorsKnown DEF Passed, Busied, ActorType, TypeInv
    <2>3. /\ UNCHANGED <<ledger, settings>> /\ verifiedOk \subseteq verifiedOk'
          /\ actor[a].review \in verifiedOk'
      BY <2>1 DEF Passed
    <2>4. CASE Done(a)
      BY <1>7, <2>2, <2>3, <2>4
    <2>5. CASE MoveTo(a, "approve", actor[a].review)
      <3>1. actor'[a].review = actor[a].review /\ \A b \in Actors \ {a} : actor'[b] = actor[b]
        BY <2>2, <2>5, Moved
      <3>2. QED
        BY <1>5, <2>2, <2>3, <3>1
    <2>6. QED
      BY <2>1, <2>4, <2>5
  <1>13. ASSUME NEW a \in Actors, ApproveChecked(a) PROVE Verified'
    <2>1. actor[a].review \in Reviews /\ (settings.verify => actor[a].review \in verifiedOk)
      BY <1>13 DEF ApproveChecked, Busied, ActorType, TypeInv, Verified, Executing
    <2>2. actor'[a].review = actor[a].review /\ \A b \in Actors \ {a} : actor'[b] = actor[b]
      BY <1>13, <2>1, Moved DEF ApproveChecked, Approve
    <2>3. QED
      BY <1>5, <1>13, <2>1, <2>2 DEF ApproveChecked
  <1>14. CASE CheckEnds \/ AutoFails
    BY <1>7, <1>14, ActorsKnown DEF CheckEnds, AutoFails
  <1>15. CASE StartAuto \/ EndAuto
    BY <1>6, <1>15, ActorsKnown DEF StartAuto, EndAuto, Busied
  <1>16. ASSUME NEW r \in Reviews, AutoNext(r) PROVE Verified'
    <2>1. CASE settings.verify
      BY <1>6, <1>16, <2>1, ActorsKnown DEF AutoNext
    <2>2. CASE ~settings.verify
      BY <1>16, <2>2 DEF AutoNext, Verified
    <2>3. QED
      BY <2>1, <2>2
  <1>17. ASSUME NEW a \in Actors, NotExecuted(a) PROVE Verified'
    BY <1>7, <1>17 DEF NotExecuted
  <1>18. ASSUME NEW a \in Actors, NEW j \in Jobs, Execute(a, j) PROVE Verified'
    <2>1. /\ actor[a].review \in Reviews /\ (settings.verify => actor[a].review \in verifiedOk)
          /\ actor \in [Actors -> ActorRecord]
      BY <1>18 DEF Execute, Busied, ActorType, TypeInv, Verified, Executing
    <2>2. ledger'[j].review = actor[a].review /\ \A k \in Jobs \ {j} : ledger'[k] = ledger[k]
      BY <1>18, <2>1, RowOpens DEF Execute, RowType, TypeInv
    <2>3. /\ actor'[a].review = actor[a].review
          /\ \A b \in Actors \ {a} : actor'[b] = actor[b]
      BY <1>18, <2>1 DEF Execute, ActorRecord
    <2>4. UNCHANGED settings /\ UNCHANGED verifiedOk
      BY <1>18 DEF Execute
    <2>5. settings.verify => \A k \in Jobs : Exists(k)' => ledger'[k].review \in verifiedOk
      BY <2>1, <2>2 DEF Verified, Exists
    <2>6. settings.verify => \A b \in Actors : Executing(b)' => actor'[b].review \in verifiedOk
      BY <2>1, <2>3 DEF Verified, Executing
    <2>7. QED
      BY <2>4, <2>5, <2>6 DEF Verified
  <1>19. ASSUME NEW a \in Actors, Executed(a) PROVE Verified'
    <2>1. actor[a].job \in Jobs
      BY <1>19 DEF Executed, ActorType, TypeInv
    <2>2. \A k \in Jobs : Exists(k)' => Exists(k) /\ ledger'[k].review = ledger[k].review
      BY <1>19, <2>1, RowsMove DEF Executed, Exists, RowType, TypeInv
    <2>3. \A b \in Actors : actor'[b] = actor[b] \/ ~Executing(b)'
      BY <1>19, DoneTyped DEF Executed, Executing
    <2>4. QED
      BY <1>19, <2>2, <2>3, OneStarts DEF Executed
  <1>20. ASSUME NEW j \in Jobs, Reconcile(j) PROVE Verified'
    <2>1. \A k \in Jobs : Exists(k)' => Exists(k) /\ ledger'[k].review = ledger[k].review
      BY <1>20, RowsMove DEF Reconcile, Exists, RowType, TypeInv
    <2>2. QED
      BY <1>20, <2>1, OneStarts DEF Reconcile
  <1>21. ASSUME NEW j \in Jobs, LeaveClient(j) PROVE Verified'
    BY <1>1, <1>21 DEF LeaveClient
  <1>22. CASE Restart
    <2>1. \A a \in Actors : ~Executing(a)'
      BY <1>22 DEF Restart, Idle, Executing
    <2>2. QED
      BY <1>22, <2>1, OneStarts DEF Restart, Exists
  <1>23. CASE Check \/ AutoPhase
    BY <1>11, <1>12, <1>13, <1>14, <1>15, <1>16, <1>23, ActorsKnown DEF Check, AutoPhase
  <1>24. ASSUME NEW a \in Actors, Execution(a) PROVE Verified'
    BY <1>17, <1>18, <1>19, <1>24 DEF Execution
  <1>25. QED
    BY <1>2, <1>3, <1>4, <1>8, <1>9, <1>10, <1>20, <1>21, <1>22, <1>23, <1>24 DEF Step

LEMMA NextVerified == TypeInv /\ Verified /\ [Next]_vars => Verified'
  <1>1. Verified /\ UNCHANGED vars => Verified'
    BY DEF vars, asked, Verified, Executing, Exists
  <1>2. QED
    BY <1>1, StepVerified DEF Next

\* With verification on, a review is executed only after its full check has
\* passed: from the interface, from a run and by retrying, for any settings,
\* old pages included.
THEOREM AlwaysVerified == Spec => []VerifiedBeforeExecuted
  <1>1. Verified => VerifiedBeforeExecuted
    BY DEF Verified, VerifiedBeforeExecuted
  <1>2. QED
    BY <1>1, InitTyped, NextTyped, InitVerified, NextVerified, PTL DEF Spec
=============================================================================
