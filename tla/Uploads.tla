------------------------------- MODULE Uploads -------------------------------
(***************************************************************************)
(* One upload, from the form of the page to its publication on a tracker:  *)
(* the draft, its preparation, the fields the user corrects, the human     *)
(* confirmation, the request to the tracker and the torrent added to the   *)
(* client.  Server threads serve the page's requests, one each; the page   *)
(* may be left and opened again while they do, or be open in another tab.   *)
(* The pages are written but not among the routes of this version; the API *)
(* serves them.                                                            *)
(***************************************************************************)
EXTENDS Naturals

CONSTANTS
    Disks,     \* disks a file can be chosen from
    MaxActs,   \* bound: requests at once
    MaxReady,  \* bound: preparations that make the job ready
    MaxVisits  \* bound: times the page is opened again

VARIABLES
    status,   \* server: upload_job.status, "none" before the row exists
    fields,   \* server: tmdb_id, category_id, type_id and resolution_id are all set
    accepted, \* tracker: how many times it took the torrent
    form,     \* page: the disk chosen, and the disk its file was chosen on
    seen,     \* page: the job's status as last read
    calls,    \* [1 .. MaxActs -> request: what it does, how far it is, who waits for it]
    visits,
    readied,  \* history: how many times a preparation made the job ready
    raced     \* history: a confirmation was let through while another one had read the
              \* same status and not yet written its own

vars == <<status, fields, accepted, form, seen, calls, visits, readied, raced>>

Acts == 1 .. MaxActs
Unused == [does |-> "nothing", at |-> "unsent", told |-> FALSE]
NoDisk == "no disk"

TypeOK ==
    /\ status \in {"none", "draft", "ready", "uploading", "uploaded", "failed"}
    /\ fields \in BOOLEAN /\ raced \in BOOLEAN
    /\ accepted \in Nat /\ readied \in Nat /\ visits \in 0 .. MaxVisits
    /\ form \in [disk : Disks \union {NoDisk}, file : Disks \union {NoDisk}]
    /\ seen \in {"none", "draft", "ready", "uploading", "uploaded", "failed"}
    /\ calls \in [Acts -> [does : {"nothing", "create", "prepare", "patch", "confirm"},
                           at : {"unsent", "sent", "preparing", "preparing again", "checked", "sending",
                                 "taken", "added", "ok", "error"},
                           told : BOOLEAN]]

Empty == [disk |-> NoDisk, file |-> NoDisk]

Init ==
    /\ status = "none" /\ fields = FALSE /\ accepted = 0 /\ form = Empty
    /\ seen = "none" /\ calls = [a \in Acts |-> Unused] /\ visits = 0 /\ readied = 0 /\ raced = FALSE

-----------------------------------------------------------------------------
(* The page.                                                                *)

Pending(does) == \E a \in Acts : calls[a].does = does /\ calls[a].told

RequestOf(does, here) ==
    \E a \in Acts :
        /\ calls[a] = Unused /\ \A b \in Acts : b < a => calls[b] # Unused
        /\ calls' = [calls EXCEPT ![a] = [does |-> does, at |-> "sent", told |-> here]]
        /\ UNCHANGED <<status, fields, accepted, form, seen, visits, readied, raced>>

Request(does) == RequestOf(does, TRUE)

\* NewUploadPage: the step follows the status as last read.
Step ==
    CASE seen = "none" -> "CreateUploadForm"
      [] seen = "draft" -> "DraftStep"
      [] seen = "ready" -> "ReadyStep"
      [] OTHER -> "ResultStep"

\* A file that was chosen stays chosen, as a path, when another disk is.
CreateUploadForm ==
    /\ Step = "CreateUploadForm"
    /\ \/ /\ \/ \E d \in Disks \ {form.disk} : form' = [form EXCEPT !.disk = d]
             \/ form.disk # NoDisk /\ form.disk # form.file /\ form' = [form EXCEPT !.file = form.disk]
          /\ UNCHANGED <<status, fields, accepted, seen, calls, visits, readied, raced>>
       \/ form.file # NoDisk /\ ~Pending("create") /\ Request("create")

DraftStep ==
    /\ Step = "DraftStep"
    /\ \/ Request("patch")
       \/ ~Pending("prepare") /\ Request("prepare")

ReadyStep == Step = "ReadyStep" /\ Request("patch")

\* Publishing takes a client, a dialog and its button, off while a confirmation of this
\* visit is pending; whether all the fields are set is the server's business.
ConfirmAndPublish == Step = "ReadyStep" /\ ~Pending("confirm") /\ Request("confirm")

\* The same upload in another tab, which shows the step of any status that it had, and
\* waits for its answers (its corrections are those of this page).
OtherTab ==
    /\ status # "none" /\ \A a \in Acts : calls[a] # Unused => calls[a].told
    /\ \/ RequestOf("prepare", FALSE)
       \/ readied > 0 /\ RequestOf("confirm", FALSE)

\* An answer: the hooks read the job again after a success only; the read may fail.
Answered(a) ==
    /\ calls[a].at \in {"ok", "error"} /\ calls' = [calls EXCEPT ![a] = Unused]
    /\ \/ UNCHANGED <<seen, form>>
       \/ calls[a].at = "ok" /\ seen' = status /\ form' = Empty
    /\ UNCHANGED <<status, fields, accepted, visits, readied, raced>>

\* The page is left and opened again, from the queue of uploads.
UploadQueuePage ==
    /\ status # "none" /\ visits < MaxVisits /\ visits' = visits + 1
    /\ seen' = status /\ form' = Empty
    /\ calls' = [a \in Acts |-> [calls[a] EXCEPT !.told = FALSE]]
    /\ UNCHANGED <<status, fields, accepted, readied, raced>>

-----------------------------------------------------------------------------
(* The server.                                                              *)

Sent(a, does) == calls[a].does = does /\ calls[a].at = "sent"
Answer(a, with) == calls' = [calls EXCEPT ![a].at = with]

\* A path that is no file of the disk is refused.
create_upload(a) ==
    /\ Sent(a, "create")
    /\ \/ status = "none" /\ status' = "draft" /\ Answer(a, "ok")
       \/ form.disk # form.file /\ Answer(a, "error") /\ UNCHANGED status
    /\ UNCHANGED <<fields, accepted, form, seen, visits, readied, raced>>

\* prepare_upload loads the job, in any status ...
prepare_upload(a) ==
    /\ Sent(a, "prepare")
    /\ \/ Answer(a, IF status = "ready" THEN "preparing again" ELSE "preparing")
       \/ Answer(a, "error")
    /\ UNCHANGED <<status, fields, accepted, form, seen, visits, readied, raced>>

\* ... the torrent, the screenshots, the description and the guesses take a while, and
\* the commit writes "ready" whatever the status has become, unless that is the status
\* it loaded: the session writes what was changed only.
prepare(a) ==
    /\ calls[a].at \in {"preparing", "preparing again"}
    /\ \/ /\ fields' \in BOOLEAN /\ Answer(a, "ok")
          /\ IF calls[a].at = "preparing"
             THEN readied < MaxReady /\ readied' = readied + 1 /\ status' = "ready"
             ELSE UNCHANGED <<status, readied>>
       \/ Answer(a, "error") /\ UNCHANGED <<status, fields, readied>>
    /\ UNCHANGED <<accepted, form, seen, visits, raced>>

patch_upload(a) ==
    /\ Sent(a, "patch") /\ fields' \in {fields, TRUE} /\ Answer(a, "ok")
    /\ UNCHANGED <<status, accepted, form, seen, visits, readied, raced>>

\* confirm_upload reads the row, status and fields (and refuses without a profile) ...
confirm_upload(a) ==
    /\ Sent(a, "confirm")
    /\ (status = "ready" /\ fields /\ Answer(a, "checked")) \/ Answer(a, "error")
    /\ UNCHANGED <<status, fields, accepted, form, seen, visits, readied, raced>>

\* ... and submit commits another status before the request to the tracker.
submit(a) ==
    /\ calls[a].at = "checked" /\ Answer(a, "sending") /\ status' = "uploading"
    /\ raced' = (raced \/ \E b \in Acts \ {a} : calls[b].at = "checked")
    /\ UNCHANGED <<fields, accepted, form, seen, visits, readied>>

\* Mutant: an upload that failed may be confirmed again.
AfterFailureReady == "ready"

\* An error of the tracker ends the upload: the tracker may have taken the torrent
\* before the answer was lost.
AfterFailure == "failed"

\* The tracker takes the torrent ...
Take(a) ==
    /\ calls[a].at = "sending" /\ Answer(a, "taken") /\ accepted' = accepted + 1
    /\ UNCHANGED <<status, fields, form, seen, visits, readied, raced>>

\* ... or not, and its answer comes back or not; an exception that is no error of the
\* tracker's escapes, and the row stays as it is.
upload_torrent(a) ==
    /\ \/ calls[a].at = "taken" /\ status' = "uploaded" /\ Answer(a, "added")
       \/ /\ calls[a].at \in {"sending", "taken"}
          /\ status' \in {AfterFailure, status} /\ Answer(a, "error")
    /\ UNCHANGED <<fields, accepted, form, seen, visits, readied, raced>>

\* The client is given the torrent; its error is only logged.  A client that is gone
\* by now is a 404 after the publication.
add_torrent(a) ==
    /\ calls[a].at = "added"
    /\ Answer(a, "ok") \/ Answer(a, "error")
    /\ UNCHANGED <<status, fields, accepted, form, seen, visits, readied, raced>>

\* The process ends with its threads: nothing looks for uploads left half-way.
Restart ==
    /\ visits < MaxVisits /\ visits' = visits + 1
    /\ calls' = [a \in Acts |-> IF calls[a].at \in {"unsent", "ok", "error"} THEN calls[a]
                                ELSE [calls[a] EXCEPT !.at = "error"]]
    /\ UNCHANGED <<status, fields, accepted, form, seen, readied, raced>>

Next ==
    \/ CreateUploadForm \/ DraftStep \/ ReadyStep \/ ConfirmAndPublish
    \/ OtherTab \/ UploadQueuePage \/ Restart
    \/ \E a \in Acts :
          \/ Answered(a) \/ create_upload(a) \/ prepare_upload(a) \/ prepare(a) \/ patch_upload(a)
          \/ confirm_upload(a) \/ submit(a) \/ Take(a) \/ upload_torrent(a) \/ add_torrent(a)

Spec == Init /\ [][Next]_vars

-----------------------------------------------------------------------------
\* What a preparation made ready is published at most once, whatever answers are lost,
\* whatever fails half-way, wherever the server stops and whichever tab asks: each time
\* the tracker takes the torrent, a preparation of its own has made the job ready
\* (prepare, submit).  The code refuses no preparation, that of an upload already taken
\* neither, and after it another confirmation publishes once more.  Except when two
\* confirmations read "ready" before either of them wrote (raced), which nothing in the
\* code prevents.
PublishedOnce == ~raced => accepted <= readied
=============================================================================
