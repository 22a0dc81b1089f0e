---- MODULE MCWeb ----
(***************************************************************************)
(* Small instances of the parts of the web interface, and what each comes  *)
(* to do when its server, its worker and its page go on.                   *)
(***************************************************************************)
EXTENDS Web

CONSTANTS r1, \* a review
          f1  \* a file

\* the ways a check ends: a bad one and a good one
Ends == {"refuted", "added"}

\* two executions of one candidate
T1 == [candidate |-> 1, job |-> 1]
T2 == [candidate |-> 1, job |-> 2]
Executions == {T1, T2}

\* one film on two disks under the same path, another film, an episode
File(disk, path, title, tv, size) ==
    [disk |-> disk, path |-> path, title |-> title, tv |-> tv, size |-> size]
Twins == {File(d, <<"m", "x", "a">>, "A", FALSE, 1) : d \in 1..2}
Media == Twins \union {File(1, <<"m", "b">>, "B", FALSE, 3),
                       File(1, <<"t", "s", "e">>, "S", TRUE, 1)}
Seeds == {File(1, <<"d", "x">>, "none", FALSE, 1)}

\* The fairness that the properties below need of that of the parts.  A behaviour is
\* one of one part, so that one condition is on an action of each.
Fairness ==
    /\ WF_vars(\/ InReviews /\ \E o \in {"refuted", "added"} : R!WorkerEnds(1, o)
               \/ InChecks /\ D!Take(1)
               \/ InRun /\ \E i \in I!Rows : I!RunEnds(i)
               \/ InForms /\ C!NotFound
               \/ InLibrary /\ L!ShowMore)
    /\ WF_vars(\/ InReviews /\ R!PollChecks
               \/ InChecks /\ D!WorkEnds(1)
               \/ InRun /\ I!Poll
               \/ InForms /\ C!SaveAnswered)
    /\ WF_vars(\/ InReviews /\ R!PollJobs
               \/ InChecks /\ D!Poll(T1)
               \/ InRun /\ I!AnswerRead
               \/ InForms /\ C!SetAnswered)
    /\ WF_vars(\/ InReviews /\ v11 /\ R!RefetchList
               \/ InChecks /\ D!Poll(T2)
               \/ InRun /\ I!DeliverRead
               \/ InForms /\ v9 /\ C!Refetch)
    /\ WF_vars(InRun /\ I!Effect)

FairSpec == Spec /\ Fairness

-----------------------------------------------------------------------------
\* What a tab follows is told how it ended: a check by the notification that follows it,
\* or by the dialog that started it or adopted it, and a run by the indicator that shows
\* it in progress; whatever restarts, evictions, reloads and clicks come between, but for
\* the ways out that their modules list (ReviewPage, CheckDialog, RunView).
EndIsTold ==
    \A k \in 1 .. 2 :
        (\/ Reviewing /\ R!Followed(1, k)
         \/ Checking /\ D!isActive(D!Shown(<<T1, T2>>[k]))
         \/ Following /\ I!ShownInProgress(k))
        ~> (/\ Reviewing => R!FollowedEnds(1, k)
            /\ Checking => D!ShowsEnd(<<T1, T2>>[k])
            /\ Following => I!SummedUp(k))

\* A recheck seen going on that has ended is announced (useSeedJobWatcher).
SettledIsTold == (Reviewing /\ R!SettledUnseen(r1)) ~> (Reviewing => R!SettledEnds(r1))

\* A row shown as being verified does not stay so after its check, which would keep its
\* button off (useVerificationWatcher).
ListFollows == (Reviewing /\ R!EndUnseen(1, r1)) ~> (Reviewing => R!RowEnds(1, r1))

\* When its own writes are over, the configuration page comes to show what the server
\* has, although forms and inline fields write one row (RelPathCell, EditDiskDialog).
OwnWriteShown == (Editing /\ C!OwnWriteDone) ~> (Editing => v3 = v2)

\* A user who keeps scrolling sees every title (PosterView's observer).
ScrollShowsAll == (Browsing /\ L!OnWall) ~> (Browsing => L!AllShown)
====
