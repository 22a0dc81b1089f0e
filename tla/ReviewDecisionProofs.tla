------------------------- MODULE ReviewDecisionProofs -------------------------
(***************************************************************************)
(* What the queue promises about decisions, for any number of reviews,     *)
(* files, torrents, searches, request threads, jobs, queued checks and     *)
(* restarts, whatever page a request comes from and whatever the settings  *)
(* are.  Every promise rests on how one step can change the status of a    *)
(* review (lemma Kinds) and on what the history variables record of it.    *)
(***************************************************************************)
EXTENDS ReviewQueueProofs

-----------------------------------------------------------------------------
(* How a step changes a review                                             *)

Same(r) == rv'[r].file = rv[r].file /\ rv'[r].torrent = rv[r].torrent

Stays(r) == Same(r) /\ rv'[r].status = rv[r].status /\ rv'[r].by = rv[r].by

Closed(r) == Same(r) /\ rv'[r].status = "rejected" /\ rv'[r].by = "system"

\* A click, the worker or the run approves the review.
ApprovedBy(r) ==
    \/ ~settings.verify /\ Known(r) /\ ClickApproves(r)
    \/ /\ actor[Worker].pc = "approve" /\ actor[Worker].review = r
       /\ actor'[Worker].pc = "execute"
    \/ actor[Run].pc = "approve" /\ actor[Run].review = r

Approved(r) == Same(r) /\ rv'[r].status = "approved" /\ ApprovedBy(r)

\* A step that neither searches nor rejects.
Quiet ==
    /\ \A r \in Reviews : Stays(r) \/ Approved(r)
    /\ \A m \in Matchers : picked'[m] = picked[m] \/ picked'[m] = Nothing

\* A step of a search up to the insertion.
Searches(m) ==
    \/ \E f \in Files, x \in Torrents : Filter(m, f, x)
    \/ Look(m) \/ Supersede(m)
    \/ \E resolved \in SUBSET Files : LookResolved(m, resolved)
    \/ CloseResolved(m)

LEMMA VerifyStays ==
    ASSUME TypeInv, NEW r \in Reviews, NEW v, rv' = [rv EXCEPT ![r].verify = v]
    PROVE  \A q \in Reviews : Stays(q)
  BY DEF Stays, Same, TypeInv, RvType, ReviewRecord

LEMMA ApproveOne ==
    ASSUME TypeInv, NEW a \in Actors, NEW r \in Reviews, NEW w, Approve(a, r, w),
           ApprovedBy(r), UNCHANGED picked
    PROVE  Quiet
  BY DEF Approve, Approved, Stays, Same, TypeInv, RvType, ReviewRecord, Quiet

LEMMA QuietSame == ASSUME UNCHANGED <<rv, picked>> PROVE Quiet
  BY DEF Quiet, Stays, Same

LEMMA Kinds ==
    ASSUME TypeInv, Step
    PROVE  \/ \E m \in Matchers : Searches(m)
           \/ \E m \in Matchers, r \in Reviews, s \in Ready : Insert(m, r, s)
           \/ \E r \in Reviews : Reject(r)
           \/ Quiet
  <1> USE DEF rows, asked
  <1>1. ASSUME NEW m \in Matchers, NoMatch(m) PROVE Quiet
    <2>1. \A n \in Matchers : picked'[n] = picked[n] \/ picked'[n] = Nothing
      BY <1>1, EndsTyped DEF NoMatch
    <2>2. QED
      BY <1>1, <2>1 DEF NoMatch, Quiet, Stays, Same
  <1>2. ASSUME NEW a \in Clicks, NEW r \in Reviews, ApproveNow(a, r) PROVE Quiet
    <2>1. /\ a \in Actors /\ Approve(a, r, "user") /\ UNCHANGED picked
          /\ actor[a].pc = "idle" /\ ~settings.verify /\ Known(r)
      BY <1>2, ActorsKnown DEF ApproveNow, IsIdle
    <2>2. actor'[a].pc = "execute" /\ actor'[a].review = r
      BY <2>1, Moved DEF Approve
    <2>3. ApprovedBy(r)
      BY <2>1, <2>2 DEF ApprovedBy, ClickApproves
    <2>4. QED
      BY <2>1, <2>3, ApproveOne
  <1>3. ASSUME NEW a \in {Worker, Run}, ApproveChecked(a) PROVE Quiet
    <2>1. a \in Actors /\ actor[a].review \in Reviews /\ actor[a].pc = "approve" /\ UNCHANGED picked
      BY <1>3, ActorsKnown DEF ApproveChecked, Busied, ActorType, TypeInv
    <2>2. PICK w : Approve(a, actor[a].review, w)
      BY <1>3 DEF ApproveChecked
    <2>3. actor'[a].pc = "execute"
      BY <2>1, <2>2, Moved DEF Approve
    <2>4. ApprovedBy(actor[a].review)
      BY <2>1, <2>3 DEF ApprovedBy
    <2>5. QED
      BY <2>1, <2>2, <2>4, ApproveOne
  <1>4. ASSUME NEW a \in Actors, actor[a].pc \in Busied, NEW v,
               rv' = [rv EXCEPT ![actor[a].review].verify = v], UNCHANGED picked
        PROVE  Quiet
    <2>1. actor[a].review \in Reviews
      BY <1>4 DEF ActorType, TypeInv
    <2>2. QED
      BY <1>4, <2>1, VerifyStays DEF Quiet
  <1>5. ASSUME NEW a \in Clicks,
               \/ \E r \in Reviews : StartCheck(a, r)
               \/ \E j \in Jobs : RetryFresh(a, j)
        PROVE  Quiet
    BY <1>5, QuietSame DEF StartCheck, RetryFresh
  <1>6. ASSUME NEW a \in Clicks, Mark(a) PROVE Quiet
    BY <1>4, <1>6, ActorsKnown DEF Mark, Busied
  <1>7. CASE Check
    BY <1>3, <1>4, <1>7, ActorsKnown, QuietSame
    DEF Check, Take, CheckPasses, CheckEnds, Passed, Busied
  <1>8. CASE AutoPhase
    BY <1>3, <1>4, <1>8, ActorsKnown, QuietSame
    DEF AutoPhase, StartAuto, EndAuto, AutoNext, AutoPasses, AutoFails, Passed, Busied
  <1>9. ASSUME NEW a \in Actors, Execution(a) PROVE Quiet
    BY <1>9, QuietSame DEF Execution, NotExecuted, Execute, Executed
  <1>10. ASSUME NEW j \in Jobs, Reconcile(j) \/ LeaveClient(j) PROVE Quiet
    BY <1>10, QuietSame DEF Reconcile, LeaveClient
  <1>11. CASE Restart
    <2>1. \A r \in Reviews : Stays(r)
      BY <1>11 DEF Restart, Stays, Same, TypeInv, RvType, ReviewRecord
    <2>2. QED
      BY <1>11, <2>1 DEF Restart, Quiet
  <1>12. QED
    BY <1>1, <1>2, <1>5, <1>6, <1>7, <1>8, <1>9, <1>10, <1>11 DEF Step, Matching, Searches

\* A search closes the reviews it has read, and nothing else, in its two commits.
LEMMA SearchChanges ==
    ASSUME TypeInv, NEW m \in Matchers, Searches(m)
    PROVE  /\ \A r \in Reviews :
                 \/ Stays(r) /\ (picked[m].at \in {"looked", "closing"} => r \notin picked[m].stale)
                 \/ Closed(r) /\ r \in picked[m].stale
           /\ \A n \in Matchers \ {m} : picked'[n] = picked[n]
  <1> USE DEF rows, asked
  <1>1. picked \in [Matchers -> PickRecord] /\ rv \in [Reviews -> ReviewRecord]
    BY DEF TypeInv, PickedType, RvType
  <1>2. \A n \in Matchers \ {m} : picked'[n] = picked[n]
    BY <1>1 DEF Searches, Filter, Look, Supersede, LookResolved, CloseResolved, Goes, Ends
  <1>3. CASE SystemRejects(picked[m].stale)
    BY <1>1, <1>2, <1>3 DEF SystemRejects, Stays, Closed, Same, ReviewRecord
  <1>4. ASSUME UNCHANGED rv, picked[m].at \notin {"looked", "closing"}
        PROVE  \A r \in Reviews : Stays(r) /\ (picked[m].at \in {"looked", "closing"} => r \notin picked[m].stale)
    BY <1>4 DEF Stays, Same
  <1>5. CASE Supersede(m) \/ CloseResolved(m)
    BY <1>2, <1>3, <1>5 DEF Supersede, CloseResolved
  <1>6. CASE Look(m)
    BY <1>2, <1>4, <1>6 DEF Look
  <1>7. CASE \/ \E f \in Files, x \in Torrents : Filter(m, f, x)
             \/ \E resolved \in SUBSET Files : LookResolved(m, resolved)
    <2>1. UNCHANGED rv /\ picked[m] = Nothing
      BY <1>7 DEF Filter, LookResolved
    <2>2. picked[m].at = "idle"
      BY <2>1 DEF Nothing
    <2>3. QED
      BY <1>2, <1>4, <2>1, <2>2
  <1>8. QED
    BY <1>5, <1>6, <1>7 DEF Searches

\* A search has chosen a torrent that is neither rejected nor busy...
Chooses(m) ==
    /\ picked'[m].at = "filtered" /\ picked'[m].stale = {}
    /\ picked'[m].torrent \notin UserRejected(picked'[m].file) \union Busy(picked'[m].file)
    /\ UNCHANGED rv

\* ... has read the file's reviews, or closed what it had read...
LooksOn(m) ==
    /\ Chosen(m) /\ picked'[m].file = picked[m].file /\ picked'[m].torrent = picked[m].torrent
    /\ \/ /\ picked'[m].stale = Superseded(picked[m].file) /\ UNCHANGED rv
          /\ picked'[m].at # "superseded" \/ picked'[m].stale = {}
       \/ picked[m].at = "looked" /\ picked'[m].stale = {}

\* ... or closes the reviews of files that need nothing.
ClosesOthers(m) ==
    /\ picked'[m].at \in {"closing", "idle"}
    /\ picked'[m].stale = {} \/ (UNCHANGED rv /\ \A r \in picked'[m].stale : IsReady(r))

LEMMA SearchGoes ==
    ASSUME TypeInv, NEW m \in Matchers, Searches(m)
    PROVE  Chooses(m) \/ LooksOn(m) \/ ClosesOthers(m)
  <1> USE DEF rows, asked
  <1>1. picked \in [Matchers -> PickRecord]
    BY DEF TypeInv, PickedType
  <1>2. ASSUME NEW f \in Files, NEW x \in Torrents, Filter(m, f, x) PROVE Chooses(m)
    BY <1>1, <1>2 DEF Filter, Chooses
  <1>3. CASE Look(m)
    BY <1>1, <1>3 DEF Look, Goes, LooksOn, Chosen, PickRecord
  <1>4. CASE Supersede(m)
    BY <1>1, <1>4 DEF Supersede, Goes, LooksOn, Chosen, PickRecord
  <1>5. ASSUME NEW resolved \in SUBSET Files, LookResolved(m, resolved) PROVE ClosesOthers(m)
    BY <1>1, <1>5 DEF LookResolved, Nothing, ClosesOthers, Listed
  <1>6. CASE CloseResolved(m)
    BY <1>1, <1>6 DEF CloseResolved, Ends, Nothing, ClosesOthers
  <1>7. QED
    BY <1>2, <1>3, <1>4, <1>5, <1>6 DEF Searches

LEMMA InsertChanges ==
    ASSUME TypeInv, NEW m \in Matchers, NEW r \in Reviews, NEW s \in Ready, Insert(m, r, s)
    PROVE  /\ picked[m].at = "superseded" /\ ~Known(r) /\ rv'[r].status = s /\ rv'[r].by # "user"
           /\ rv'[r].file = picked[m].file /\ rv'[r].torrent = picked[m].torrent
           /\ \A q \in Reviews \ {r} : Stays(q)
           /\ picked'[m] = Nothing /\ \A n \in Matchers \ {m} : picked'[n] = picked[n]
  <1>1. picked'[m] = Nothing /\ \A n \in Matchers \ {m} : picked'[n] = picked[n]
    BY EndsTyped DEF Insert
  <1>2. /\ rv'[r].status = s /\ rv'[r].by \in {"system", "nobody"}
        /\ rv'[r].file = picked[m].file /\ rv'[r].torrent = picked[m].torrent
        /\ \A q \in Reviews \ {r} : rv'[q] = rv[q]
    BY DEF Insert, TypeInv, RvType
  <1>3. QED
    BY <1>1, <1>2 DEF Insert, Known, Stays, Same

LEMMA RejectChanges ==
    ASSUME TypeInv, NEW r \in Reviews, Reject(r)
    PROVE  /\ Same(r) /\ Known(r) /\ rv'[r].status = "rejected" /\ rv'[r].by = "user"
           /\ \A q \in Reviews \ {r} : Stays(q)
           /\ UNCHANGED picked
           /\ consent' = IF IsReady(r) /\ ~InHand(r) THEN consent \ {r} ELSE consent
  BY DEF Reject, Same, Stays, TypeInv, RvType, ReviewRecord

\* What the worker and the run have in hand before a step and after it.
LEMMA Hands ==
    ASSUME TypeInv, Step
    PROVE  /\ \/ actor'[Worker] = actor[Worker]
              \/ actor'[Worker].pc # "approve"
              \/ \E r \in Reviews : /\ actor'[Worker].review = r
                                   /\ IsReady(r) /\ rv'[r].status = rv[r].status
           /\ \/ actor'[Run] = actor[Run]
              \/ actor'[Run].pc \notin {"checking", "approve"}
              \/ InHand(actor'[Run].review)
           /\ \/ todo' \subseteq todo
              \/ UNCHANGED rv /\ \A r \in todo' : IsReady(r)
           /\ settings' = settings
           /\ ~settings.auto /\ IsIdle(Run) => actor'[Run].pc = "idle"
  <1> DEFINE Goal ==
        /\ \/ actor'[Worker] = actor[Worker]
           \/ actor'[Worker].pc # "approve"
           \/ \E r \in Reviews : /\ actor'[Worker].review = r
                                /\ IsReady(r) /\ rv'[r].status = rv[r].status
        /\ \/ actor'[Run] = actor[Run]
           \/ actor'[Run].pc \notin {"checking", "approve"}
           \/ InHand(actor'[Run].review)
        /\ \/ todo' \subseteq todo
           \/ UNCHANGED rv /\ \A r \in todo' : IsReady(r)
        /\ settings' = settings
        /\ ~settings.auto /\ IsIdle(Run) => actor'[Run].pc = "idle"
  <1>0. /\ Worker \in Actors /\ Run \in Actors /\ Worker # Run
        /\ \A a \in Clicks : a \in Actors /\ a # Worker /\ a # Run
    BY ReviewQueueAssumption, ActorsKnown
  <1> USE DEF rows, asked
  <1>1. ASSUME UNCHANGED <<actor, todo, settings>> PROVE Goal
    BY <1>1 DEF IsIdle
  <1>2. ASSUME NEW a \in Actors, a # Worker, a # Run, UNCHANGED <<todo, settings>>,
               \A b \in Actors \ {a} : actor'[b] = actor[b]
        PROVE  Goal
    BY <1>0, <1>2 DEF IsIdle
  <1>3. ASSUME NEW a \in {Worker, Run}, UNCHANGED <<todo, settings>>, actor[a].pc # "idle",
               actor'[a].pc \notin {"checking", "approve"}, \A b \in Actors \ {a} : actor'[b] = actor[b]
        PROVE  Goal
    BY <1>0, <1>3 DEF IsIdle
  <1>4. ASSUME NEW m \in Matchers, Matching(m) PROVE Goal
    BY <1>1, <1>4
    DEF Matching, Filter, Look, Supersede, NoMatch, Insert, LookResolved, CloseResolved
  <1>5. ASSUME NEW r \in Reviews, Reject(r) PROVE Goal
    BY <1>1, <1>5 DEF Reject
  <1>6. ASSUME NEW a \in Clicks, NEW r \in Reviews, ApproveNow(a, r) PROVE Goal
    BY <1>0, <1>2, <1>6, Moved DEF ApproveNow, Approve
  <1>7. ASSUME NEW a \in Clicks, NEW r \in Reviews, StartCheck(a, r) PROVE Goal
    BY <1>0, <1>2, <1>7, Moved DEF StartCheck
  <1>8. ASSUME NEW a \in Clicks, Mark(a) PROVE Goal
    <2>1. "idle" \notin Busied
      BY DEF Busied
    <2>2. QED
      BY <1>0, <1>2, <1>8, <2>1, Moved DEF Mark
  <1>9. ASSUME NEW a \in Clicks, NEW j \in Jobs, RetryFresh(a, j) PROVE Goal
    <2>1. ledger[j].review \in Reviews
      BY <1>9 DEF RetryFresh, Exists, RowType, TypeInv
    <2>2. QED
      BY <1>0, <1>2, <1>9, <2>1, Moved DEF RetryFresh
  <1>10. CASE Take
    <2>1. Head(queue) \in Reviews
      BY <1>10 DEF Take, QueueType, TypeInv
    <2>2. actor'[Worker].pc = "checking" /\ \A b \in Actors \ {Worker} : actor'[b] = actor[b]
      BY <1>0, <1>10, <2>1, Moved DEF Take
    <2>3. QED
      BY <1>0, <1>10, <2>2 DEF Take, IsIdle
  <1>11. CASE CheckPasses
    <2>1. actor[Worker].review \in Reviews
      BY <1>0, <1>11 DEF CheckPasses, Passed, Busied, ActorType, TypeInv
    <2>2. rv'[actor[Worker].review].status = rv[actor[Worker].review].status
      BY <1>11, <2>1 DEF CheckPasses, Passed, TypeInv, RvType, ReviewRecord
    <2>3. CASE IsReady(actor[Worker].review)
      <3>1. /\ actor'[Worker].pc = "approve" /\ actor'[Worker].review = actor[Worker].review
            /\ \A b \in Actors \ {Worker} : actor'[b] = actor[b]
        BY <1>0, <1>11, <2>1, <2>3, Moved DEF CheckPasses
      <3>2. QED
        BY <1>0, <1>11, <2>1, <2>2, <2>3, <3>1 DEF CheckPasses, Passed, IsIdle
    <2>4. CASE ~IsReady(actor[Worker].review)
      <3>1. /\ actor'[Worker].pc = "idle" /\ actor[Worker].pc = "checking"
            /\ UNCHANGED <<todo, settings>> /\ \A b \in Actors \ {Worker} : actor'[b] = actor[b]
        BY <1>0, <1>11, <2>4, DoneTyped DEF CheckPasses, Passed
      <3>2. QED
        BY <1>3, <3>1
    <2>5. QED
      BY <2>3, <2>4
  <1>12. ASSUME NEW a \in {Worker, Run}, ApproveChecked(a) PROVE Goal
    <2>1. a \in Actors /\ actor[a].review \in Reviews /\ actor[a].pc = "approve"
      BY <1>0, <1>12 DEF ApproveChecked, Busied, ActorType, TypeInv
    <2>2. actor'[a].pc = "execute" /\ \A b \in Actors \ {a} : actor'[b] = actor[b]
      BY <1>12, <2>1, Moved DEF ApproveChecked, Approve
    <2>3. QED
      BY <1>3, <1>12, <2>1, <2>2 DEF ApproveChecked
  <1>13. CASE CheckEnds \/ AutoFails
    <2>1. PICK a \in {Worker, Run} :
              actor[a].pc = "checking" /\ Done(a) /\ UNCHANGED <<todo, settings>>
      BY <1>13 DEF CheckEnds, AutoFails
    <2>2. actor'[a].pc \in {"idle", "auto"} /\ \A b \in Actors \ {a} : actor'[b] = actor[b]
      BY <1>0, <2>1, DoneTyped
    <2>3. QED
      BY <1>3, <2>1, <2>2
  <1>14. CASE StartAuto
    <2>1. actor'[Run].pc = "auto" /\ \A b \in Actors \ {Run} : actor'[b] = actor[b]
      BY <1>0, <1>14, Moved DEF StartAuto, Busied
    <2>2. UNCHANGED rv /\ (\A r \in todo' : IsReady(r)) /\ settings' = settings /\ settings.auto
      BY <1>14 DEF StartAuto, IsReady, Ready
    <2>3. QED
      BY <1>0, <2>1, <2>2
  <1>15. CASE EndAuto
    <2>1. actor'[Run].pc = "idle" /\ \A b \in Actors \ {Run} : actor'[b] = actor[b]
      BY <1>0, <1>15, Moved DEF EndAuto, Busied
    <2>2. QED
      BY <1>0, <1>15, <2>1 DEF EndAuto
  <1>16. ASSUME NEW r \in Reviews, AutoNext(r) PROVE Goal
    <2>1. actor'[Run].review = r /\ \A b \in Actors \ {Run} : actor'[b] = actor[b]
      BY <1>0, <1>16, Moved DEF AutoNext
    <2>2. InHand(r) /\ todo' \subseteq todo /\ settings' = settings /\ ~IsIdle(Run)
      BY <1>16 DEF AutoNext, InHand, IsIdle
    <2>3. QED
      BY <1>0, <2>1, <2>2
  <1>17. CASE AutoPasses
    <2>1. actor[Run].review \in Reviews /\ actor[Run].pc = "checking"
      BY <1>0, <1>17 DEF AutoPasses, Passed, Busied, ActorType, TypeInv
    <2>2. actor'[Run].review = actor[Run].review /\ \A b \in Actors \ {Run} : actor'[b] = actor[b]
      BY <1>0, <1>17, <2>1, Moved DEF AutoPasses
    <2>3. InHand(actor[Run].review)
      BY <2>1 DEF InHand
    <2>4. QED
      BY <1>0, <1>17, <2>1, <2>2, <2>3 DEF AutoPasses, Passed, IsIdle
  <1>18. ASSUME NEW a \in Actors, Execution(a) PROVE Goal
    <2>1. UNCHANGED <<todo, settings>> /\ actor[a].pc \in {"execute", "running"}
      BY <1>18 DEF Execution, NotExecuted, Execute, Executed
    <2>2. /\ actor'[a].pc \in {"idle", "auto", "running"}
          /\ \A b \in Actors \ {a} : actor'[b] = actor[b]
      <3>1. CASE Done(a)
        BY <3>1, DoneTyped
      <3>2. CASE \E j \in Jobs : actor' = [actor EXCEPT ![a].pc = "running", ![a].job = j]
        BY <3>2 DEF ActorType, ActorRecord, TypeInv
      <3>3. QED
        BY <1>18, <3>1, <3>2 DEF Execution, NotExecuted, Execute, Executed
    <2>3. QED
      BY <1>0, <1>2, <1>3, <2>1, <2>2
  <1>19. ASSUME NEW j \in Jobs, Reconcile(j) \/ LeaveClient(j) PROVE Goal
    BY <1>1, <1>19 DEF Reconcile, LeaveClient
  <1>20. CASE Restart
    BY <1>0, <1>20 DEF Restart, Idle
  <1>21. Goal
    BY <1>4, <1>5, <1>6, <1>7, <1>8, <1>9, <1>10, <1>11, <1>12, <1>13, <1>14, <1>15, <1>16, <1>17,
       <1>18, <1>19, <1>20 DEF Step, Check, AutoPhase
  <1>22. QED
    BY <1>21

\* A review comes into a thread's hands out of the queue.
LEMMA TakenInHand ==
    ASSUME TypeInv, Step, NEW r \in Reviews, ~InHand(r), InHand(r)'
    PROVE  IsReady(r) /\ rv'[r].status = rv[r].status
  BY Hands DEF InHand

-----------------------------------------------------------------------------
(* One evaluation of a file                                                *)

\* A review is in the queue after a step if it was there before, unless it was
\* inserted; an active one may also have come back.
LEMMA Remained ==
    ASSUME TypeInv, Step, NEW r \in Reviews,
           \A m \in Matchers : \A s \in Ready : ~Insert(m, r, s)
    PROVE  /\ IsReady(r)' => IsReady(r) /\ Same(r)
           /\ Active(r)' => Same(r) /\ (Active(r) \/ rv'[r].status = "approved")
           /\ rv'[r].status = "approved" => Same(r) /\ (Stays(r) \/ Approved(r))
           /\ UserSaidNo(r)' => Same(r) /\ (UserSaidNo(r) \/ Reject(r))
           /\ Known(r) => Known(r)' /\ Same(r)
  <1> USE DEF IsReady, Ready, Active, UserSaidNo, Rejected, Known
  <1>1. CASE Stays(r)
    BY <1>1 DEF Stays
  <1>2. CASE Approved(r)
    BY <1>2 DEF Approved
  <1>3. CASE Closed(r)
    BY <1>3 DEF Closed
  <1>4. CASE Reject(r)
    BY <1>4, RejectChanges
  <1>5. QED
    BY <1>1, <1>2, <1>3, <1>4, Kinds, SearchChanges, InsertChanges, RejectChanges DEF Quiet

\* What a search has chosen and read after a step, if it was not the one that moved.
LEMMA SearchesApart ==
    ASSUME TypeInv, Step, NEW m \in Matchers, ~Searches(m)
    PROVE  picked'[m] = picked[m] \/ picked'[m] = Nothing
  BY Kinds, SearchChanges, InsertChanges, RejectChanges DEF Quiet

\* Two queued reviews of one file are crossed, and so is a queued review that a
\* search about to insert another one has not read.
OneQueued ==
    /\ OneActivePerFile
    /\ \A m \in Matchers, r \in Reviews :
          HasLooked(m) /\ IsReady(r) /\ rv[r].file = picked[m].file
              => r \in picked[m].stale \/ r \in crossed
    /\ \A m \in Matchers : picked[m].at = "superseded" => picked[m].stale = {}

LEMMA StillCrossed ==
    ASSUME Records, NEW r \in Reviews, r \in crossed, IsReady(r)'
    PROVE  r \in crossed'
  BY DEF Records, Active, IsReady

LEMMA NewlyCrossed ==
    ASSUME Records, NEW r \in Reviews, ~Known(r), IsReady(r)', Crossing(r)'
    PROVE  r \in crossed'
  BY DEF Records, Active, IsReady

LEMMA OneQueuedStep ==
    ASSUME TypeInv, OneQueued, Step, Records
    PROVE  OneQueued'
  <1>1. ASSUME NEW r \in Reviews, NEW q \in Reviews, r # q, IsReady(r)', IsReady(q)',
               rv'[r].file = rv'[q].file, NEW m \in Matchers, NEW s \in Ready, Insert(m, r, s)
        PROVE  q \in crossed'
    <2>1. picked[m].at = "superseded" /\ rv'[r].file = picked[m].file /\ Stays(q)
      BY <1>1, InsertChanges
    <2>2. HasLooked(m) /\ IsReady(q) /\ rv[q].file = picked[m].file
      BY <1>1, <2>1 DEF Stays, Same, IsReady, HasLooked
    <2>3. q \in crossed
      BY <2>1, <2>2 DEF OneQueued
    <2>4. QED
      BY <1>1, <2>3, StillCrossed
  <1>2. OneActivePerFile'
    <2> SUFFICES ASSUME NEW r \in Reviews, NEW q \in Reviews, r # q, IsReady(r)', IsReady(q)',
                        rv'[r].file = rv'[q].file
                 PROVE  r \in crossed' \/ q \in crossed'
      BY DEF OneActivePerFile
    <2>1. CASE \E m \in Matchers, s \in Ready : Insert(m, r, s) \/ Insert(m, q, s)
      BY <1>1, <2>1
    <2>2. CASE ~\E m \in Matchers, s \in Ready : Insert(m, r, s) \/ Insert(m, q, s)
      <3>1. IsReady(r) /\ Same(r) /\ IsReady(q) /\ Same(q)
        BY <2>2, Remained
      <3>2. r \in crossed \/ q \in crossed
        BY <3>1 DEF OneQueued, OneActivePerFile, Same
      <3>3. QED
        BY <3>2, StillCrossed
    <2>3. QED
      BY <2>1, <2>2
  <1>3. ASSUME NEW m \in Matchers, NEW r \in Reviews, HasLooked(m)', IsReady(r)',
               rv'[r].file = picked'[m].file
        PROVE  r \in picked'[m].stale \/ r \in crossed'
    <2>1. CASE \E n \in Matchers, s \in Ready : Insert(n, r, s)
      <3>1. ~Known(r)
        BY <2>1, InsertChanges
      <3>2. Crossing(r)'
        BY <1>3 DEF Crossing
      <3>3. QED
        BY <1>3, <3>1, <3>2, NewlyCrossed
    <2>2. CASE ~(\E n \in Matchers, s \in Ready : Insert(n, r, s)) /\ Searches(m)
      <3>1. IsReady(r) /\ Same(r)
        BY <1>3, <2>2, Remained
      <3>2. CASE UNCHANGED rv /\ picked'[m].stale = Superseded(picked[m].file)
                 /\ picked'[m].file = picked[m].file
        BY <1>3, <3>1, <3>2 DEF Superseded, Same
      <3>3. CASE /\ picked[m].at = "looked" /\ picked'[m].stale = {}
                 /\ picked'[m].file = picked[m].file
        <4>1. Stays(r) \/ Closed(r)
          BY <2>2, SearchChanges
        <4>2. ~Closed(r)
          BY <1>3 DEF Closed, IsReady, Ready
        <4>3. r \notin picked[m].stale
          BY <2>2, <3>3, <4>1, <4>2, SearchChanges
        <4>4. r \in crossed
          BY <1>3, <3>1, <3>3, <4>3 DEF OneQueued, HasLooked, Same
        <4>5. QED
          BY <1>3, <4>4, StillCrossed
      <3>4. LooksOn(m)
        BY <1>3, <2>2, SearchGoes DEF HasLooked, Chooses, ClosesOthers
      <3>5. QED
        BY <3>2, <3>3, <3>4 DEF LooksOn
    <2>3. CASE ~(\E n \in Matchers, s \in Ready : Insert(n, r, s)) /\ ~Searches(m)
      <3>1. IsReady(r) /\ Same(r) /\ picked'[m] = picked[m]
        BY <1>3, <2>3, Remained, SearchesApart DEF HasLooked, Nothing
      <3>2. r \in picked[m].stale \/ r \in crossed
        BY <1>3, <3>1 DEF OneQueued, HasLooked, Same
      <3>3. QED
        BY <1>3, <3>1, <3>2, StillCrossed
    <2>4. QED
      BY <2>1, <2>2, <2>3
  <1>4. ASSUME NEW m \in Matchers, picked'[m].at = "superseded" PROVE picked'[m].stale = {}
    <2>1. CASE Searches(m)
      BY <1>4, <2>1, SearchGoes DEF Chooses, LooksOn, ClosesOthers
    <2>2. CASE ~Searches(m)
      BY <1>4, <2>2, SearchesApart DEF OneQueued, Nothing
    <2>3. QED
      BY <2>1, <2>2
  <1>5. QED
    BY <1>2, <1>3, <1>4 DEF OneQueued

\* A file has one active evaluation, whatever is matched, decided, checked and
\* executed at the same time; a second one comes only from a search that had
\* read the file's reviews before another search inserted its own.
THEOREM OneEvaluation == Spec => []OneActivePerFile
  <1>1. Init => OneQueued
    BY DEF Init, OneQueued, OneActivePerFile, NoReviewRow, IsReady, Ready, Nothing, HasLooked
  <1>2. TypeInv /\ OneQueued /\ [Next]_vars => OneQueued'
    <2>1. TypeInv /\ OneQueued /\ Next => OneQueued'
      BY OneQueuedStep DEF Next
    <2>2. OneQueued /\ UNCHANGED vars => OneQueued'
      BY DEF vars, rows, history, OneQueued, OneActivePerFile, IsReady, HasLooked
    <2>3. QED
      BY <2>1, <2>2
  <1>3. OneQueued => OneActivePerFile
    BY DEF OneQueued
  <1>4. QED
    BY <1>1, <1>2, <1>3, InitTyped, NextTyped, PTL DEF Spec

-----------------------------------------------------------------------------
(* A torrent for one file                                                  *)

Excused(r) == r \in crossed \/ r \in revived

OneTorrent ==
    /\ \A r, q \in Reviews :
          Active(r) /\ Active(q) /\ rv[r].torrent = rv[q].torrent
              => rv[r].file = rv[q].file \/ Excused(r) \/ Excused(q)
    /\ \A m \in Matchers, r \in Reviews :
          Chosen(m) /\ Active(r) /\ rv[r].torrent = picked[m].torrent
              => rv[r].file = picked[m].file \/ Excused(r)
    /\ \A r \in revived : rv[r].status = "approved"

\* A review that is active after a step was before, and what excused it still
\* does; or it has just been revived.
LEMMA StillActive ==
    ASSUME TypeInv, OneTorrent, Step, Records, NEW r \in Reviews, Active(r)',
           \A m \in Matchers : \A s \in Ready : ~Insert(m, r, s)
    PROVE  /\ Same(r)
           /\ Excused(r)' \/ (Active(r) /\ ~Excused(r))
  <1>1. Same(r) /\ (Active(r) \/ rv'[r].status = "approved")
    BY Remained
  <1>2. CASE ~Active(r)
    BY <1>1, <1>2 DEF Records, Excused
  <1>3. CASE r \in crossed
    BY <1>1, <1>3 DEF Records, Excused, Active
  <1>4. CASE r \in revived
    <2>1. rv[r].status = "approved"
      BY <1>4 DEF OneTorrent
    <2>2. rv'[r].status = "approved"
      BY <2>1, Remained DEF Active, IsReady, Ready
    <2>3. QED
      BY <1>1, <1>4, <2>2 DEF Records, Excused, Active
  <1>5. QED
    BY <1>1, <1>2, <1>3, <1>4 DEF Excused

LEMMA OneTorrentStep ==
    ASSUME TypeInv, OneTorrent, Step, Records
    PROVE  OneTorrent'
  <1>1. ASSUME NEW r \in Reviews, NEW q \in Reviews, Active(r)', Active(q)',
               rv'[r].torrent = rv'[q].torrent, r # q,
               NEW m \in Matchers, NEW s \in Ready, Insert(m, r, s)
        PROVE  rv'[r].file = rv'[q].file \/ Excused(q)'
    <2>1. /\ picked[m].at = "superseded" /\ Stays(q)
          /\ rv'[r].file = picked[m].file /\ rv'[r].torrent = picked[m].torrent
      BY <1>1, InsertChanges
    <2>2. \A n \in Matchers : \A t \in Ready : ~Insert(n, q, t)
      <3>1. Known(q)
        BY <1>1, <2>1 DEF Active, Known, Stays, Ready
      <3>2. QED
        BY <3>1, InsertChanges
    <2>3. Chosen(m) /\ Same(q)
      BY <2>1 DEF Chosen, Stays
    <2>4. CASE Active(q) /\ ~Excused(q)
      BY <1>1, <2>1, <2>3, <2>4 DEF OneTorrent, Same
    <2>5. QED
      BY <1>1, <2>2, <2>4, StillActive
  <1>2. ASSUME NEW r \in Reviews, NEW q \in Reviews, Active(r)', Active(q)',
               rv'[r].torrent = rv'[q].torrent
        PROVE  rv'[r].file = rv'[q].file \/ Excused(r)' \/ Excused(q)'
    <2>1. CASE r = q
      BY <2>1
    <2>2. CASE r # q /\ \E m \in Matchers, s \in Ready : Insert(m, r, s) \/ Insert(m, q, s)
      BY <1>1, <1>2, <2>2
    <2>3. CASE ~\E m \in Matchers, s \in Ready : Insert(m, r, s) \/ Insert(m, q, s)
      <3>1. Same(r) /\ Same(q)
        BY <1>2, <2>3, StillActive
      <3>2. CASE Active(r) /\ ~Excused(r) /\ Active(q) /\ ~Excused(q)
        BY <1>2, <3>1, <3>2 DEF OneTorrent, Same
      <3>3. QED
        BY <1>2, <2>3, <3>2, StillActive
    <2>4. QED
      BY <2>1, <2>2, <2>3
  <1>3. ASSUME NEW m \in Matchers, NEW r \in Reviews, Chosen(m)', Active(r)',
               rv'[r].torrent = picked'[m].torrent
        PROVE  rv'[r].file = picked'[m].file \/ Excused(r)'
    <2>1. CASE \E n \in Matchers, s \in Ready : Insert(n, r, s)
      <3>1. ~Known(r)
        BY <2>1, InsertChanges
      <3>2. CASE rv'[r].file # picked'[m].file
        <4>1. Crossing(r)'
          BY <1>3, <3>2 DEF Crossing
        <4>2. QED
          BY <1>3, <3>1, <4>1 DEF Records, Excused
      <3>3. QED
        BY <3>2
    <2>2. CASE ~\E n \in Matchers, s \in Ready : Insert(n, r, s)
      <3>1. Same(r) /\ (Excused(r)' \/ (Active(r) /\ ~Excused(r)))
        BY <1>3, <2>2, StillActive
      <3>2. CASE Chosen(m) /\ picked'[m].file = picked[m].file /\ picked'[m].torrent = picked[m].torrent
        BY <1>3, <3>1, <3>2 DEF OneTorrent, Same
      <3>3. CASE Chooses(m)
        <4>1. ~Excused(r)' => Active(r) /\ UNCHANGED rv
          BY <3>1, <3>3 DEF Chooses
        <4>2. Active(r) /\ UNCHANGED rv /\ rv[r].file # picked'[m].file
                  => rv[r].torrent \in Busy(picked'[m].file)
          BY DEF Busy, Active
        <4>3. QED
          BY <1>3, <3>3, <4>1, <4>2 DEF Chooses
      <3>4. ~ClosesOthers(m)
        BY <1>3 DEF Chosen, ClosesOthers
      <3>5. CASE Searches(m)
        BY <3>2, <3>3, <3>4, <3>5, SearchGoes DEF LooksOn
      <3>6. CASE ~Searches(m)
        <4>1. picked'[m] = picked[m]
          BY <1>3, <3>6, SearchesApart DEF Chosen, Nothing
        <4>2. QED
          BY <1>3, <3>2, <4>1 DEF Chosen
      <3>7. QED
        BY <3>5, <3>6
    <2>3. QED
      BY <2>1, <2>2
  <1>4. \A r \in revived' : rv'[r].status = "approved"
    BY DEF Records
  <1>5. QED
    BY <1>2, <1>3, <1>4 DEF OneTorrent

\* A torrent is queued or approved for one file only, unless two searches cross
\* or the user brings back a rejected review.
THEOREM TorrentForOneFile == Spec => []TorrentQueuedOnce
  <1>1. Init => OneTorrent
    BY DEF Init, OneTorrent, NoReviewRow, Active, Ready, Nothing, Chosen
  <1>2. TypeInv /\ OneTorrent /\ [Next]_vars => OneTorrent'
    <2>1. TypeInv /\ OneTorrent /\ Next => OneTorrent'
      BY OneTorrentStep DEF Next
    <2>2. OneTorrent /\ UNCHANGED vars => OneTorrent'
      BY DEF vars, rows, history, OneTorrent, Active, Excused, Chosen
    <2>3. QED
      BY <2>1, <2>2
  <1>3. TypeInv /\ OneTorrent => TorrentQueuedOnce
    <2>1. \A r \in Reviews : Holds(r) => Active(r)
      BY DEF Holds, Active, IsReady
    <2>2. QED
      BY <2>1 DEF OneTorrent, TorrentQueuedOnce, Excused
  <1>4. QED
    BY <1>1, <1>2, <1>3, InitTyped, NextTyped, PTL DEF Spec

-----------------------------------------------------------------------------
(* Rejections                                                              *)

RefusedHold == \A r \in refused : UserSaidNo(r) /\ ~Contested(r)

LEMMA RefusedHoldStep ==
    ASSUME TypeInv, RefusedHold, Step, Records
    PROVE  RefusedHold'
  <1> SUFFICES ASSUME NEW r \in Reviews, r \in refused' PROVE UserSaidNo(r)' /\ ~Contested(r)'
    BY DEF RefusedHold, Records
  <1>1. Rejected(r)' /\ (r \in refused \/ (~UserSaidNo(r) /\ UserSaidNo(r)' /\ ~Contested(r)))
    BY DEF Records
  <1>2. \A m \in Matchers : \A s \in Ready : ~Insert(m, r, s)
    BY <1>1, InsertChanges DEF Rejected, Ready
  <1>3. CASE r \in refused
    <2>1. UserSaidNo(r) /\ ~Contested(r)
      BY <1>3 DEF RefusedHold
    <2>2. Stays(r) \/ Reject(r)
      <3>1. ~Closed(r) \/ \A m \in Matchers : ~Searches(m)
        BY <2>1, SearchChanges DEF Contested, Closed, Stays, UserSaidNo
      <3>2. ~Approved(r)
        BY <1>1 DEF Approved, Rejected
      <3>3. QED
        BY <1>2, <3>1, <3>2, Kinds, SearchChanges, InsertChanges, RejectChanges DEF Quiet
    <2>3. UserSaidNo(r)' /\ Same(r)
      BY <2>1, <2>2, RejectChanges DEF Stays, UserSaidNo, Rejected
    <2>4. ASSUME NEW m \in Matchers
          PROVE  /\ r \notin picked'[m].stale
                 /\ ~(/\ Chosen(m)' /\ picked'[m].file = rv'[r].file
                      /\ picked'[m].torrent = rv'[r].torrent)
      <3>1. /\ r \notin picked[m].stale
            /\ ~(Chosen(m) /\ picked[m].file = rv[r].file /\ picked[m].torrent = rv[r].torrent)
        BY <2>1 DEF Contested
      <3>2. ~IsReady(r)
        BY <2>1 DEF UserSaidNo, Rejected, IsReady, Ready
      <3>3. CASE Chooses(m)
        BY <2>1, <2>3, <3>3 DEF Chooses, UserRejected, UserSaidNo, Rejected, Same
      <3>4. CASE LooksOn(m)
        BY <2>3, <3>1, <3>2, <3>4 DEF LooksOn, Superseded, Same
      <3>5. CASE ClosesOthers(m)
        BY <3>2, <3>5 DEF ClosesOthers, Chosen
      <3>6. CASE Searches(m)
        BY <3>3, <3>4, <3>5, <3>6, SearchGoes
      <3>7. CASE picked'[m] = picked[m]
        BY <2>3, <3>1, <3>7 DEF Chosen, Same
      <3>8. CASE picked'[m] = Nothing
        BY <3>8 DEF Nothing, Chosen
      <3>9. QED
        BY <3>6, <3>7, <3>8, SearchesApart
    <2>5. QED
      BY <2>3, <2>4 DEF Contested
  <1>4. CASE r \notin refused
    <2>1. Same(r) /\ Reject(r) /\ UNCHANGED picked
      BY <1>1, <1>2, <1>4, Remained, RejectChanges
    <2>2. QED
      BY <1>1, <1>4, <2>1 DEF Contested, Chosen, Same
  <1>5. QED
    BY <1>3, <1>4

\* A torrent that the user has rejected for a file stays out of its queue,
\* through later searches, approvals of other reviews, checks and restarts.
THEOREM RejectedStaysOut == Spec => RefusedStaysOut
  <1>1. Init => RefusedHold
    BY DEF Init, RefusedHold
  <1>2. TypeInv /\ RefusedHold /\ [Next]_vars => RefusedHold'
    <2>1. TypeInv /\ RefusedHold /\ Next => RefusedHold'
      BY RefusedHoldStep DEF Next
    <2>2. RefusedHold /\ UNCHANGED vars => RefusedHold'
      BY DEF vars, rows, history, RefusedHold, UserSaidNo, Rejected, Contested, Chosen
    <2>3. QED
      BY <2>1, <2>2
  <1>3. ASSUME TypeInv, RefusedHold, Next, NEW r \in refused, NEW q \in Reviews,
               ~Known(q), IsReady(q)'
        PROVE  <<rv'[q].file, rv'[q].torrent>> # <<rv[r].file, rv[r].torrent>>
    <2>1. ~Contested(r) /\ Step
      BY <1>3 DEF RefusedHold, Next
    <2>2. PICK m \in Matchers, s \in Ready : Insert(m, q, s)
      BY <1>3, <2>1, Remained DEF IsReady, Ready, Known
    <2>3. Chosen(m) /\ rv'[q].file = picked[m].file /\ rv'[q].torrent = picked[m].torrent
      BY <1>3, <2>2, InsertChanges DEF Chosen
    <2>4. QED
      BY <2>1, <2>3 DEF Contested
  <1>4. TypeInv /\ RefusedHold /\ [Next]_vars =>
            [\A r \in refused : \A q \in Reviews :
                 ~Known(q) /\ IsReady(q)'
                     => <<rv'[q].file, rv'[q].torrent>> # <<rv[r].file, rv[r].torrent>>]_vars
    BY <1>3
  <1>5. QED
    BY <1>1, <1>2, <1>4, InitTyped, NextTyped, PTL DEF Spec, RefusedStaysOut

\* A rejected review in a thread's hands was rejected there.
Overtakes == \A r \in Reviews : InHand(r) /\ Rejected(r) => r \in overtaken

\* A rejected review, whoever rejected it, is approved again only by a request
\* for it, or by a thread that had already decided to approve it.
THEOREM Finality == Spec => RejectionIsFinal
  <1>1. Init => Overtakes
    BY DEF Init, Overtakes, NoReviewRow, Rejected
  <1>2. ASSUME TypeInv, Overtakes, Next PROVE Overtakes'
    <2> SUFFICES ASSUME NEW r \in Reviews, InHand(r)', Rejected(r)' PROVE r \in overtaken'
      BY DEF Overtakes
    <2>1. CASE ~InHand(r)
      BY <1>2, <2>1, TakenInHand DEF Next, Rejected, IsReady, Ready
    <2>2. CASE InHand(r)
      BY <1>2, <2>2 DEF Next, Records, Overtakes
    <2>3. QED
      BY <2>1, <2>2
  <1>3. TypeInv /\ Overtakes /\ [Next]_vars => Overtakes'
    BY <1>2 DEF vars, rows, history, Overtakes, InHand, Rejected
  <1>4. ASSUME TypeInv, Overtakes, Next, NEW r \in Reviews,
               rv[r].status = "rejected", rv'[r].status # "rejected"
        PROVE  ClickApproves(r) \/ r \in overtaken
    <2>1. Step
      BY <1>4 DEF Next
    <2>2. \A m \in Matchers : \A s \in Ready : ~Insert(m, r, s)
      BY <1>4, InsertChanges DEF Known
    <2>3. Approved(r)
      BY <1>4, <2>1, <2>2, Kinds, SearchChanges, InsertChanges, RejectChanges
      DEF Quiet, Stays, Closed
    <2>4. QED
      BY <1>4, <2>3 DEF Approved, ApprovedBy, InHand, Overtakes, Rejected
  <1>5. TypeInv /\ Overtakes /\ [Next]_vars =>
            [\A r \in Reviews : rv[r].status = "rejected" /\ rv'[r].status # "rejected"
                 => ClickApproves(r) \/ r \in overtaken]_vars
    BY <1>4
  <1>6. QED
    BY <1>1, <1>3, <1>5, InitTyped, NextTyped, PTL DEF Spec, RejectionIsFinal

-----------------------------------------------------------------------------
(* Approvals                                                               *)

\* Without the automatic execution a run executes nothing.
RunIdle == ~settings.auto => IsIdle(Run)

LEMMA RunIdleHolds == Spec => []RunIdle
  <1>1. Init => RunIdle
    BY ActorsKnown DEF Init, RunIdle, IsIdle, Idle
  <1>2. TypeInv /\ RunIdle /\ [Next]_vars => RunIdle'
    <2>1. TypeInv /\ RunIdle /\ Next => RunIdle'
      BY Hands DEF Next, RunIdle, IsIdle
    <2>2. RunIdle /\ UNCHANGED vars => RunIdle'
      BY DEF vars, RunIdle, IsIdle
    <2>3. QED
      BY <2>1, <2>2
  <1>3. QED
    BY <1>1, <1>2, InitTyped, NextTyped, PTL DEF Spec

\* A review that the worker is about to approve was in the queue when its check
\* passed, and nobody else can have approved it since: clicks start a check,
\* and no run executes.
THEOREM NoSecondApproval == Spec => []ApprovedOnce
  <1>1. Init => ApprovedOnce
    BY ActorsKnown DEF Init, ApprovedOnce, Idle
  <1>2. ASSUME TypeInv, RunIdle, ApprovedOnce, Next PROVE ApprovedOnce'
    <2> SUFFICES ASSUME settings'.verify, ~settings'.auto, actor'[Worker].pc = "approve"
                 PROVE  rv'[actor'[Worker].review].status # "approved"
      BY DEF ApprovedOnce
    <2>1. Step /\ settings' = settings /\ actor[Run].pc = "idle"
      BY <1>2, Hands DEF Next, RunIdle, IsIdle
    <2>2. CASE \E r \in Reviews : /\ actor'[Worker].review = r
                                 /\ IsReady(r) /\ rv'[r].status = rv[r].status
      BY <2>2 DEF IsReady, Ready
    <2>3. CASE actor'[Worker] = actor[Worker]
      <3>1. PICK r \in Reviews : r = actor[Worker].review /\ rv[r].status # "approved"
        BY <1>2, <2>1, <2>3, ActorsKnown DEF ApprovedOnce, TypeInv, ActorType, Busied
      <3>2. CASE \E m \in Matchers, s \in Ready : Insert(m, r, s)
        BY <1>2, <2>3, <3>1, <3>2, InsertChanges DEF Ready
      <3>3. CASE ~\E m \in Matchers, s \in Ready : Insert(m, r, s)
        <4>1. ~ApprovedBy(r)
          BY <2>1, <2>3 DEF ApprovedBy
        <4>2. rv'[r].status # "approved"
          BY <1>2, <2>1, <3>1, <3>3, <4>1, Remained DEF Approved, Stays
        <4>3. QED
          BY <2>3, <3>1, <4>2
      <3>4. QED
        BY <3>2, <3>3
    <2>4. QED
      BY <1>2, <2>1, <2>2, <2>3, Hands
  <1>3. TypeInv /\ RunIdle /\ ApprovedOnce /\ [Next]_vars => ApprovedOnce'
    BY <1>2 DEF vars, rows, ApprovedOnce
  <1>4. QED
    BY <1>1, <1>3, RunIdleHolds, InitTyped, NextTyped, PTL DEF Spec

-----------------------------------------------------------------------------
(* The user's consent                                                      *)

\* The user has asked for the review, unless it has left the queue.
Asked(r) == Known(r) /\ (IsReady(r) => r \in consent)

\* The user has asked for the review, and it was decided.
Decided(r) == r \in consent /\ rv[r].status \in {"approved", "rejected"}

Entitled(a) ==
    /\ actor[a].pc = "checking" => Asked(actor[a].review)
    /\ actor[a].pc = "approve" => a = Worker /\ actor[a].review \in consent
    /\ actor[a].pc = "execute" => Decided(actor[a].review)

Consenting ==
    ~settings.auto =>
        /\ \A a \in Actors : Entitled(a)
        /\ \A i \in 1 .. Len(queue) : Asked(queue[i])
        /\ \A j \in Jobs : Exists(j) => Decided(ledger[j].review)

\* The consent goes with a rejection in time, and only then.
LEMMA ConsentKept ==
    ASSUME Step, NEW r \in consent
    PROVE  r \in consent' \/ (Reject(r) /\ IsReady(r) /\ ~InHand(r))
  <1> USE DEF rows, asked
  <1>1. ASSUME NEW m \in Matchers, Matching(m) PROVE UNCHANGED consent
    BY <1>1 DEF Matching, Filter, Look, Supersede, NoMatch, Insert, LookResolved, CloseResolved
  <1>2. ASSUME NEW q \in Reviews, Reject(q) PROVE r \in consent' \/ (Reject(r) /\ IsReady(r) /\ ~InHand(r))
    BY <1>2 DEF Reject
  <1>3. CASE Check \/ AutoPhase
    BY <1>3 DEF Check, Take, CheckPasses, CheckEnds, ApproveChecked, AutoPhase, StartAuto, EndAuto,
       AutoNext, AutoPasses, AutoFails, Passed
  <1>4. ASSUME NEW a \in Actors, Execution(a) PROVE UNCHANGED consent
    BY <1>4 DEF Execution, NotExecuted, Execute, Executed
  <1>5. ASSUME NEW j \in Jobs, Reconcile(j) \/ LeaveClient(j) PROVE UNCHANGED consent
    BY <1>5 DEF Reconcile, LeaveClient
  <1>6. CASE Restart
    BY <1>6 DEF Restart
  <1>7. ASSUME NEW a \in Clicks,
               \/ \E q \in Reviews : ApproveNow(a, q) \/ StartCheck(a, q)
               \/ Mark(a)
               \/ \E j \in Jobs : RetryFresh(a, j)
        PROVE  r \in consent'
    BY <1>7 DEF ApproveNow, StartCheck, Mark, RetryFresh
  <1>8. QED
    BY <1>1, <1>2, <1>3, <1>4, <1>5, <1>6, <1>7 DEF Step

\* What is asked for and what is decided stays so.
LEMMA Settled ==
    ASSUME TypeInv, Step, NEW r \in Reviews
    PROVE  (Asked(r) => Asked(r)') /\ (Decided(r) => Decided(r)')
  <1>1. ASSUME Known(r)
        PROVE  /\ Known(r)' /\ (IsReady(r)' => IsReady(r))
               /\ rv[r].status \in {"approved", "rejected"} => rv'[r].status \in {"approved", "rejected"}
    <2>1. \A m \in Matchers : \A s \in Ready : ~Insert(m, r, s)
      BY <1>1, InsertChanges
    <2>2. Stays(r) \/ Closed(r) \/ Approved(r) \/ Reject(r)
      BY <2>1, Kinds, SearchChanges, InsertChanges, RejectChanges DEF Quiet
    <2>3. QED
      BY <1>1, <2>1, <2>2, Remained, RejectChanges DEF Stays, Closed, Approved
  <1>2. Reject(r) => ~IsReady(r)'
    BY RejectChanges DEF IsReady, Ready
  <1>3. Asked(r) => Asked(r)'
    BY <1>1, <1>2, ConsentKept DEF Asked
  <1>4. Decided(r) => Decided(r)'
    BY <1>1, ConsentKept DEF Decided, Known, IsReady, Ready
  <1>5. QED
    BY <1>3, <1>4

\* A thread that a step leaves alone keeps what it may do.
LEMMA EntitledStays ==
    ASSUME TypeInv, Step, NEW a \in Actors, actor'[a] = actor[a], Entitled(a)
    PROVE  Entitled(a)'
  <1>1. actor[a].pc \in Busied => actor[a].review \in Reviews
    BY DEF TypeInv, ActorType
  <1>2. CASE actor[a].pc \in {"checking", "execute"}
    <2>1. PICK r \in Reviews : r = actor[a].review
      BY <1>1, <1>2 DEF Busied
    <2>2. (Asked(r) => Asked(r)') /\ (Decided(r) => Decided(r)')
      BY Settled
    <2>3. QED
      BY <1>2, <2>1, <2>2 DEF Entitled, Asked, Decided, Known, IsReady
  <1>3. CASE actor[a].pc = "approve"
    <2>1. a = Worker /\ actor[a].review \in consent /\ InHand(actor[a].review)
      BY <1>3 DEF Entitled, InHand
    <2>2. actor[a].review \in consent'
      BY <2>1, ConsentKept
    <2>3. QED
      BY <1>3, <2>1, <2>2 DEF Entitled
  <1>4. QED
    BY <1>2, <1>3 DEF Entitled

LEMMA QueueAsked ==
    ASSUME TypeInv, Step, UNCHANGED queue, \A i \in 1 .. Len(queue) : Asked(queue[i])
    PROVE  (\A i \in 1 .. Len(queue) : Asked(queue[i]))'
  <1>1. \A i \in 1 .. Len(queue) : queue[i] \in Reviews
    BY DEF TypeInv, QueueType
  <1>2. \A r \in Reviews : Asked(r) => Asked(r)'
    BY Settled
  <1>3. QED
    BY <1>1, <1>2 DEF Asked, Known, IsReady

LEMMA RowsDecided ==
    ASSUME TypeInv, Step, \A j \in Jobs : Exists(j) => Decided(ledger[j].review),
           \A j \in Jobs : Exists(j)' => Exists(j) /\ ledger'[j].review = ledger[j].review
    PROVE  (\A j \in Jobs : Exists(j) => Decided(ledger[j].review))'
  <1>1. \A r \in Reviews : Decided(r) => Decided(r)'
    BY Settled
  <1>2. \A j \in Jobs : Exists(j) => ledger[j].review \in Reviews
    BY DEF TypeInv, RowType
  <1>3. QED
    BY <1>1, <1>2 DEF Decided

\* A step in which one thread moves on, and neither the queue nor the rows
\* change otherwise than by carrying on.
LEMMA OneMoves ==
    ASSUME TypeInv, Step, ~settings.auto, Consenting, UNCHANGED queue,
           \A j \in Jobs : Exists(j)' => Exists(j) /\ ledger'[j].review = ledger[j].review,
           \A a \in Actors : actor'[a] = actor[a] \/ Entitled(a)'
    PROVE  Consenting'
  <1>1. \A a \in Actors : Entitled(a)'
    BY EntitledStays DEF Consenting
  <1>2. (\A i \in 1 .. Len(queue) : Asked(queue[i]))'
    BY QueueAsked DEF Consenting
  <1>3. (\A j \in Jobs : Exists(j) => Decided(ledger[j].review))'
    BY RowsDecided DEF Consenting
  <1>4. QED
    BY <1>1, <1>2, <1>3 DEF Consenting

LEMMA Harmless ==
    ASSUME NEW a \in Actors, actor'[a].pc \in {"idle", "mark", "auto", "running"}
    PROVE  Entitled(a)'
  BY DEF Entitled

LEMMA StepConsenting == TypeInv /\ RunIdle /\ Consenting /\ Step => Consenting'
  <1> SUFFICES ASSUME TypeInv, RunIdle, Consenting, Step, ~settings'.auto
        PROVE  Consenting'
    BY DEF Consenting
  <1>a. UNCHANGED settings /\ ~settings.auto /\ actor[Run].pc = "idle"
    BY Hands DEF RunIdle, IsIdle
  <1>b. /\ Worker \in Actors /\ Run \in Actors /\ Worker # Run
        /\ \A a \in Clicks : a \in Actors /\ a # Worker /\ a # Run
    BY ReviewQueueAssumption, ActorsKnown
  <1> USE DEF rows, asked
  <1>1. ASSUME UNCHANGED <<queue, ledger, actor>> PROVE Consenting'
    BY <1>a, <1>1, OneMoves DEF Exists
  <1>2. ASSUME NEW m \in Matchers, Matching(m) PROVE Consenting'
    BY <1>1, <1>2
    DEF Matching, Filter, Look, Supersede, NoMatch, Insert, LookResolved, CloseResolved
  <1>3. ASSUME NEW a \in Actors, actor'[a].pc \in {"idle", "mark", "auto", "running"},
               \A b \in Actors \ {a} : actor'[b] = actor[b], UNCHANGED <<queue, ledger>>
        PROVE  Consenting'
    BY <1>a, <1>3, OneMoves, Harmless DEF Exists
  <1>4. ASSUME NEW a \in Actors, NEW r \in Reviews, NEW w, Approve(a, r, w), r \in consent',
               UNCHANGED <<queue, ledger>>
        PROVE  Consenting'
    <2>1. /\ actor'[a].pc = "execute" /\ actor'[a].review = r
          /\ \A b \in Actors \ {a} : actor'[b] = actor[b]
      BY <1>4, Moved DEF Approve
    <2>2. rv'[r].status = "approved"
      BY <1>4 DEF Approve, RvType, TypeInv, ReviewRecord
    <2>3. Entitled(a)'
      BY <1>4, <2>1, <2>2 DEF Entitled, Decided
    <2>4. QED
      BY <1>a, <1>4, <2>1, <2>3, OneMoves DEF Exists
  <1>5. ASSUME NEW a \in Clicks, NEW r \in Reviews, ApproveNow(a, r) PROVE Consenting'
    BY <1>b, <1>4, <1>5 DEF ApproveNow
  <1>6. ASSUME NEW a \in Clicks, NEW r \in Reviews, StartCheck(a, r) PROVE Consenting'
    <2>1. actor'[a].pc = "mark" /\ \A b \in Actors \ {a} : actor'[b] = actor[b]
      BY <1>6, Moved, <1>b DEF StartCheck
    <2>2. Known(r) /\ rv'[r] = rv[r] /\ r \in consent'
      BY <1>6 DEF StartCheck
    <2>3. queue' = Append(queue, r) /\ queue \in Seq(Reviews)
      BY <1>6 DEF StartCheck, TypeInv, QueueType
    <2>4. \A b \in Actors : Entitled(b)'
      BY <1>a, <1>b, <2>1, Harmless, EntitledStays DEF Consenting
    <2>5. (\A i \in 1 .. Len(queue) : Asked(queue[i]))'
      <3>1. \A q \in Reviews : Asked(q) => Asked(q)'
        BY Settled
      <3>2. \A i \in 1 .. Len(queue) : queue[i] \in Reviews /\ Asked(queue[i])
        BY <1>a, <2>3 DEF Consenting
      <3>3. Asked(r)'
        BY <2>2 DEF Asked, Known, IsReady
      <3>4. \A i \in 1 .. Len(queue') : queue'[i] = r \/ (i \in 1 .. Len(queue) /\ queue'[i] = queue[i])
        BY <2>3
      <3>5. QED
        BY <3>1, <3>2, <3>3, <3>4 DEF Asked, Known, IsReady
    <2>6. (\A j \in Jobs : Exists(j) => Decided(ledger[j].review))'
      BY <1>a, <1>6, RowsDecided DEF StartCheck, Consenting, Exists
    <2>7. QED
      BY <2>4, <2>5, <2>6 DEF Consenting
  <1>7. ASSUME NEW a \in Clicks, Mark(a) PROVE Consenting'
    <2>1. actor'[a].pc = "idle" /\ \A b \in Actors \ {a} : actor'[b] = actor[b]
      BY <1>7, <1>b, Moved DEF Mark, Busied
    <2>2. QED
      BY <1>3, <1>7, <2>1, <1>b DEF Mark
  <1>8. ASSUME NEW a \in Clicks, NEW j \in Jobs, RetryFresh(a, j) PROVE Consenting'
    <2>1. Exists(j) /\ ledger[j].review \in Reviews /\ Decided(ledger[j].review)
      BY <1>a, <1>8 DEF RetryFresh, Exists, RowType, TypeInv, Consenting
    <2>2. /\ actor'[a].pc = "execute" /\ actor'[a].review = ledger[j].review
          /\ \A b \in Actors \ {a} : actor'[b] = actor[b]
      BY <1>8, <1>b, <2>1, Moved DEF RetryFresh
    <2>3. UNCHANGED <<rv, queue, ledger>> /\ ledger[j].review \in consent'
      BY <1>8 DEF RetryFresh
    <2>4. Entitled(a)'
      BY <2>1, <2>2, <2>3 DEF Entitled, Decided
    <2>5. QED
      BY <1>a, <1>b, <2>2, <2>3, <2>4, OneMoves DEF Exists
  <1>9. CASE Take
    <2>1. queue \in Seq(Reviews) /\ queue # <<>> /\ queue' = Tail(queue)
      BY <1>9 DEF Take, TypeInv, QueueType
    <2>2. Head(queue) \in Reviews /\ Head(queue) = queue[1] /\ 1 \in 1 .. Len(queue)
      BY <2>1
    <2>3. /\ actor'[Worker].pc = "checking" /\ actor'[Worker].review = Head(queue)
          /\ \A b \in Actors \ {Worker} : actor'[b] = actor[b]
      BY <1>9, <1>b, <2>2, Moved DEF Take
    <2>4. \A r \in Reviews : Asked(r) => Asked(r)'
      BY Settled
    <2>5. Entitled(Worker)'
      <3>1. PICK r \in Reviews : r = Head(queue)
        BY <2>2
      <3>2. Asked(r)'
        BY <1>a, <2>2, <2>4, <3>1 DEF Consenting
      <3>3. QED
        BY <2>3, <3>1, <3>2 DEF Entitled, Asked, Known, IsReady
    <2>6. \A b \in Actors : Entitled(b)'
      BY <1>a, <2>3, <2>5, EntitledStays DEF Consenting
    <2>7. (\A i \in 1 .. Len(queue) : Asked(queue[i]))'
      <3>1. \A i \in 1 .. Len(queue) : queue[i] \in Reviews /\ Asked(queue[i])
        BY <1>a, <2>1 DEF Consenting
      <3>2. \A i \in 1 .. Len(queue') : i + 1 \in 1 .. Len(queue) /\ queue'[i] = queue[i + 1]
        BY <2>1
      <3>3. QED
        BY <2>4, <3>1, <3>2 DEF Asked, Known, IsReady
    <2>8. (\A j \in Jobs : Exists(j) => Decided(ledger[j].review))'
      BY <1>a, <1>9, RowsDecided DEF Take, Consenting, Exists
    <2>9. QED
      BY <2>6, <2>7, <2>8 DEF Consenting
  <1>10. ASSUME NEW a \in Actors, Done(a), UNCHANGED <<queue, ledger>> PROVE Consenting'
    BY <1>3, <1>10, DoneTyped
  <1>11. CASE CheckPasses
    <2>1. /\ actor[Worker].review \in Reviews /\ Asked(actor[Worker].review)
          /\ UNCHANGED <<queue, ledger, consent>>
      BY <1>a, <1>b, <1>11
      DEF CheckPasses, Passed, Busied, ActorType, TypeInv, Consenting, Entitled
    <2>2. CASE IsReady(actor[Worker].review)
      <3>1. /\ actor'[Worker].pc = "approve" /\ actor'[Worker].review = actor[Worker].review
            /\ \A b \in Actors \ {Worker} : actor'[b] = actor[b]
        BY <1>b, <1>11, <2>1, <2>2, Moved DEF CheckPasses
      <3>2. Entitled(Worker)'
        BY <2>1, <2>2, <3>1 DEF Entitled, Asked
      <3>3. QED
        BY <1>a, <2>1, <3>1, <3>2, OneMoves DEF Exists
    <2>3. CASE ~IsReady(actor[Worker].review)
      BY <1>10, <1>11, <2>1, <2>3, <1>b DEF CheckPasses
    <2>4. QED
      BY <2>2, <2>3
  <1>12. CASE ApproveChecked(Worker)
    <2>1. actor[Worker].review \in Reviews /\ actor[Worker].review \in consent
      BY <1>a, <1>b, <1>12 DEF ApproveChecked, Busied, ActorType, TypeInv, Consenting, Entitled
    <2>2. PICK w : Approve(Worker, actor[Worker].review, w)
      BY <1>12 DEF ApproveChecked
    <2>3. UNCHANGED <<queue, ledger, consent>>
      BY <1>12 DEF ApproveChecked
    <2>4. QED
      BY <1>4, <1>b, <2>1, <2>2, <2>3
  <1>13. CASE CheckEnds
    BY <1>10, <1>13, <1>b DEF CheckEnds
  <1>14. ~AutoPhase
    <2>1. ~StartAuto
      BY <1>a DEF StartAuto
    <2>2. QED
      BY <1>a, <2>1 DEF AutoPhase, AutoNext, AutoPasses, AutoFails, EndAuto, ApproveChecked, Passed
  <1>15. ASSUME NEW a \in Actors, NotExecuted(a) PROVE Consenting'
    BY <1>10, <1>15 DEF NotExecuted
  <1>16. ASSUME NEW a \in Actors, NEW j \in Jobs, Execute(a, j) PROVE Consenting'
    <2>1. actor[a].review \in Reviews /\ Decided(actor[a].review) /\ UNCHANGED <<rv, queue, consent>>
      BY <1>a, <1>16 DEF Execute, Busied, ActorType, TypeInv, Consenting, Entitled
    <2>2. ledger'[j].review = actor[a].review /\ \A k \in Jobs \ {j} : ledger'[k] = ledger[k]
      BY <1>16, <2>1, RowOpens DEF Execute, RowType, TypeInv
    <2>3. (\A k \in Jobs : Exists(k) => Decided(ledger[k].review))'
      <3>1. \A k \in Jobs \ {j} : Exists(k) => Decided(ledger[k].review)
        BY <1>a DEF Consenting
      <3>2. QED
        BY <2>1, <2>2, <3>1 DEF Decided, Exists
    <2>4. actor'[a].pc = "running" /\ \A b \in Actors \ {a} : actor'[b] = actor[b]
      BY <1>16 DEF Execute, ActorType, ActorRecord, TypeInv
    <2>5. \A b \in Actors : Entitled(b)'
      BY <1>a, <2>4, Harmless, EntitledStays DEF Consenting
    <2>6. (\A i \in 1 .. Len(queue) : Asked(queue[i]))'
      BY <1>a, <2>1, QueueAsked DEF Consenting
    <2>7. QED
      BY <2>3, <2>5, <2>6 DEF Consenting
  <1>17. ASSUME NEW a \in Actors, Executed(a) PROVE Consenting'
    <2>1. actor[a].job \in Jobs /\ UNCHANGED queue
      BY <1>17 DEF Executed, ActorType, TypeInv
    <2>2. \A k \in Jobs : Exists(k)' => Exists(k) /\ ledger'[k].review = ledger[k].review
      BY <1>17, <2>1, RowsMove DEF Executed, Exists, RowType, TypeInv
    <2>3. \A b \in Actors : actor'[b] = actor[b] \/ Entitled(b)'
      BY <1>17, DoneTyped, Harmless DEF Executed
    <2>4. QED
      BY <1>a, <2>1, <2>2, <2>3, OneMoves
  <1>18. ASSUME NEW j \in Jobs, Reconcile(j) PROVE Consenting'
    <2>1. \A k \in Jobs : Exists(k)' => Exists(k) /\ ledger'[k].review = ledger[k].review
      BY <1>18, RowsMove DEF Reconcile, Exists, RowType, TypeInv
    <2>2. QED
      BY <1>a, <1>18, <2>1, OneMoves DEF Reconcile
  <1>19. CASE Restart
    <2>1. \A a \in Actors : Entitled(a)'
      BY <1>19, Harmless DEF Restart, Idle
    <2>2. (\A i \in 1 .. Len(queue) : Asked(queue[i]))'
      BY <1>19 DEF Restart
    <2>3. (\A j \in Jobs : Exists(j) => Decided(ledger[j].review))'
      BY <1>a, <1>19, RowsDecided DEF Restart, Consenting, Exists
    <2>4. QED
      BY <2>1, <2>2, <2>3 DEF Consenting
  <1>20. ASSUME NEW r \in Reviews, Reject(r) PROVE Consenting'
    BY <1>1, <1>20 DEF Reject
  <1>21. ASSUME NEW j \in Jobs, LeaveClient(j) PROVE Consenting'
    BY <1>1, <1>21 DEF LeaveClient
  <1>22. ASSUME NEW a \in Actors, Execution(a) PROVE Consenting'
    BY <1>15, <1>16, <1>17, <1>22 DEF Execution
  <1>23. CASE Check
    BY <1>9, <1>11, <1>12, <1>13, <1>23 DEF Check
  <1>24. QED
    BY <1>2, <1>5, <1>6, <1>7, <1>8, <1>14, <1>18, <1>19, <1>20, <1>21, <1>22, <1>23 DEF Step

\* A row is only created by a thread that executes its review.
LEMMA RowsOpened ==
    ASSUME TypeInv, Step, NEW j \in Jobs, ledger[j].state = "none", ledger'[j].state # "none"
    PROVE  \E a \in Actors : actor[a].pc = "execute" /\ ledger'[j].review = actor[a].review
  <1> USE DEF rows, asked
  <1>1. ~UNCHANGED ledger /\ LedgerType
    BY DEF TypeInv, RowType
  <1>2. ASSUME NEW k \in Jobs,
               Hand(k) \/ Close(k) \/ Resume(k) \/ \E s \in {"seeding", "broken"} : Settle(k, s)
        PROVE  FALSE
    BY <1>1, <1>2, RowsMove
  <1>3. \/ \E a \in Actors : Executed(a) \/ \E k \in Jobs : Execute(a, k)
        \/ \E k \in Jobs : Reconcile(k)
    BY <1>1 DEF Step, Matching, Filter, Look, Supersede, NoMatch, Insert, LookResolved, CloseResolved,
         Reject, ApproveNow, StartCheck, Mark, RetryFresh, Check, Take, CheckPasses, CheckEnds,
         ApproveChecked, AutoPhase, StartAuto, AutoNext, AutoPasses, AutoFails, EndAuto, Passed,
         Execution, NotExecuted, LeaveClient, Restart
  <1>4. \A a \in Actors : ~Executed(a)
    BY <1>1, <1>2 DEF Executed, TypeInv, ActorType
  <1>5. \A k \in Jobs : ~Reconcile(k)
    BY <1>2 DEF Reconcile
  <1>6. PICK a \in Actors, k \in Jobs : Execute(a, k)
    BY <1>3, <1>4, <1>5
  <1>7. actor[a].pc = "execute" /\ actor[a].review \in Reviews
    BY <1>6 DEF Execute, Busied, TypeInv, ActorType
  <1>8. ledger'[k].review = actor[a].review /\ \A i \in Jobs \ {k} : ledger'[i] = ledger[i]
    BY <1>1, <1>6, <1>7, RowOpens DEF Execute
  <1>9. QED
    BY <1>7, <1>8

\* Nothing is executed that the user did not ask for, through checks in the
\* background, retries, requests from any page and restarts, if the automatic
\* execution is off.
THEOREM NothingUnasked == Spec => OnlyWithConsent
  <1>1. Init => Consenting
    <2> SUFFICES ASSUME Init PROVE Consenting
      OBVIOUS
    <2>1. \A a \in Actors : actor[a].pc = "idle"
      BY DEF Init, Idle
    <2>2. queue = <<>> /\ \A j \in Jobs : ~Exists(j)
      BY DEF Init, LedgerInit, NoRow, Exists
    <2>3. QED
      BY <2>1, <2>2 DEF Consenting, Entitled
  <1>2. TypeInv /\ RunIdle /\ Consenting /\ [Next]_vars => Consenting'
    BY StepConsenting DEF Next, vars, rows, asked, Consenting, Entitled, Asked, Decided, Known, IsReady, Exists
  <1>3. ASSUME TypeInv, Consenting, Next, NEW j \in Jobs,
               ledger[j].state = "none", ledger'[j].state # "none"
        PROVE  ledger'[j].review \in consent \/ settings.auto
    BY <1>3, RowsOpened DEF Next, Consenting, Entitled, Decided
  <1>4. TypeInv /\ Consenting /\ [Next]_vars =>
            [\A j \in Jobs : ledger[j].state = "none" /\ ledger'[j].state # "none"
                 => ledger'[j].review \in consent \/ settings.auto]_vars
    BY <1>3
  <1>5. QED
    BY <1>1, <1>2, <1>4, RunIdleHolds, InitTyped, NextTyped, PTL DEF Spec, OnlyWithConsent
=============================================================================
