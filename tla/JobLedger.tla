------------------------------ MODULE JobLedger ------------------------------
(***************************************************************************)
(* What executing a review promises to the rest of the program: the life   *)
(* of one row of the seed_job table, with everything that touches the disk *)
(* or the torrent client left out.  app/executor.py keeps this promise     *)
(* (module Executor, property ImplementsLedger); app/review.py relies on   *)
(* it (module ReviewQueue).                                                *)
(*                                                                         *)
(* A row is in one of these states; the columns that tell them apart are   *)
(* final_status and info_hash:                                             *)
(*   "none"     no such row yet                                            *)
(*   "running"  in_progress, no info_hash: an execution is under way, or   *)
(*              was cut short and nothing says so                          *)
(*   "added"    in_progress, info_hash set: the client has the torrent     *)
(*   "seeding"  seeding: the client's recheck found the data               *)
(*   "failed"   failed, no info_hash: nothing reached the client           *)
(*   "broken"   failed, info_hash set: the recheck did not find the data   *)
(***************************************************************************)
EXTENDS Naturals

CONSTANTS
    Reviews,    \* the match_review rows an execution may be asked for
    NoReview,   \* the review of a row that does not exist
    MaxJobs     \* bound: how many seed_job rows are ever created

ASSUME LedgerAssumption ==
    /\ MaxJobs \in Nat
    /\ NoReview \notin Reviews

VARIABLE ledger \* [Jobs -> review and state of the row]

Jobs == 1 .. MaxJobs

JobStates == {"none", "running", "added", "seeding", "failed", "broken"}

Handed == {"added", "seeding", "broken"} \* states with an info_hash

LedgerType ==
    ledger \in [Jobs -> [review: Reviews \union {NoReview}, state: JobStates]]

NoRow == [review |-> NoReview, state |-> "none"]

LedgerInit == ledger = [j \in Jobs |-> NoRow]

\* Row ids are handed out in order: j is the next one.
NextRow(j) == \A k \in Jobs : (ledger[k].state = "none") <=> (k >= j)

Exists(j) == ledger[j].state # "none"

JobsOf(r) == {j \in Jobs : Exists(j) /\ ledger[j].review = r}

SetState(j, s) == ledger' = [ledger EXCEPT ![j].state = s]

-----------------------------------------------------------------------------
\* An execution starts: the row is committed before anything is touched.
Open(j, r) ==
    /\ NextRow(j)
    /\ ledger' = [ledger EXCEPT ![j] = [review |-> r, state |-> "running"]]

\* The execution fails before the client has given the torrent's hash.
Close(j) == ledger[j].state = "running" /\ SetState(j, "failed")

\* The client has the torrent and its hash is recorded.
Hand(j) == ledger[j].state = "running" /\ SetState(j, "added")

\* An answer about the recheck is recorded.  The answer may be late: two
\* threads may have asked, and the row may already be settled.
Settle(j, s) ==
    /\ ledger[j].state \in Handed
    /\ s \in {"seeding", "broken"}
    /\ SetState(j, s)

\* A failed recheck is asked about again.
Resume(j) == ledger[j].state = "broken" /\ SetState(j, "added")

LedgerNext ==
    \E j \in Jobs :
        \/ \E r \in Reviews : Open(j, r)
        \/ Close(j) \/ Hand(j) \/ Resume(j)
        \/ \E s \in {"seeding", "broken"} : Settle(j, s)

LedgerSpec == LedgerInit /\ [][LedgerNext]_ledger
=============================================================================
