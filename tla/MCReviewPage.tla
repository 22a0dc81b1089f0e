---- MODULE MCReviewPage ----
(***************************************************************************)
(* One review and its check, with the tab's notifications.  That a running *)
(* notification ends fails: the watcher may have seen the check end before *)
(* the answer to the approval hands the check to the notification.         *)
(***************************************************************************)
EXTENDS ReviewPage

\* an outcome of each kind: a bad one and a good one
EndedOrAdded == {"refuted", "added"}
====
