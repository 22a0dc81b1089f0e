----------------------------- MODULE ConfigForms -----------------------------
(***************************************************************************)
(* The rows of the configuration page (disks, trackers, upload profiles,   *)
(* torrent clients, Radarr and Sonarr instances): dialogs that add a row or *)
(* edit one, and controls in the row that write one field at once.         *)
(*                                                                         *)
(* A save sends all the fields of its dialog together and the fields do    *)
(* not depend on each other, so a behaviour watches one field of one form; *)
(* the others are edited and saved with it.  What the sections differ in   *)
(* is how each field is filled and sent: the records below.                *)
(*   needed, always  starts as the row was when it was mounted; sent       *)
(*   filled          the same, but a blank is not sent                     *)
(*   secret          starts blank, not sent blank, blank again when saved  *)
(*   draft           what is cached, until it is touched or saved; sent    *)
(*   row             starts as the row is when the dialog opens; sent      *)
(*   new, optional   of a dialog that adds a row: blank again when saved   *)
(*   none            not in the dialog                                     *)
(* Values are numbers: each one typed anywhere is a fresh one, 0 is blank. *)
(***************************************************************************)
EXTENDS Integers, FiniteSets, TLC

CONSTANT MaxValue \* bound: values typed or chosen in this tab or another

VARIABLES
    field,   \* the field watched: kind, inline (a control writes it), shared, needed
    server,  \* its value in the database, Gone once the row is deleted
    cached,  \* its value in the list the page has
    value,   \* its value in the dialog's state
    open,    \* the dialog is open
    typed,   \* values typed in the dialog, until it hears that they were saved
    saving,  \* the save in flight: what it sends, and how it was answered
    setting, \* the write of the inline control in flight
    due,     \* the list was invalidated and not fetched yet
    last     \* the last fresh value

vars == <<field, server, cached, value, open, typed, saving, setting, due, last>>

Blank == 0
Gone == -1
NotSent == -2
Untouched == -3 \* a draft that is null

New == {"new", "optional"}

-----------------------------------------------------------------------------
(* The dialogs, as the fields they send and how.                            *)

AddDiskDialog == [label |-> "new", root_path |-> "new"]
EditDiskDialog == [label |-> "needed", new_torrent_rel_path |-> "filled"]
RelPathCell == {"media_rel_path", "torrents_rel_path", "new_torrent_rel_path"}

RssKeyField(kind) == [rss_key |-> kind]
TrackerClientSelect == {"torrent_client_id"}

AddTrackerDialog ==
    [label |-> "new", base_url |-> "new", api_token |-> "new", announce_url |-> "optional"]
    @@ RssKeyField("optional")
EditTrackerDialog ==
    [label |-> "needed", base_url |-> "needed", api_token |-> "secret", announce_url |-> "secret",
     rate_limit_per_min |-> "filled"] @@ RssKeyField("secret")

UploadProfileDialog ==
    [category_id_map |-> "draft", type_id_map |-> "draft", resolution_id_map |-> "draft",
     description_template |-> "draft"]

AddTorrentClientDialog ==
    [label |-> "new", base_url |-> "new", username |-> "optional", password |-> "optional",
     api_token |-> "optional", qui_instance_id |-> "optional"]
EditTorrentClientDialog ==
    [label |-> "needed", base_url |-> "needed", username |-> "filled", password |-> "secret",
     api_token |-> "secret", qui_instance_id |-> "filled"]
DiskAssociationRow == [torrent_client_root_path |-> "row"]

BasicAuthFields(username, password) ==
    [basic_auth_username |-> username, basic_auth_password |-> password]

AddArrInstanceDialog ==
    [label |-> "new", base_url |-> "new", api_key |-> "new", priority |-> "optional",
     timeout_seconds |-> "optional"] @@ BasicAuthFields("optional", "optional")
EditArrInstanceDialog ==
    [label |-> "needed", base_url |-> "needed", api_key |-> "secret", priority |-> "always",
     timeout_seconds |-> "always"] @@ BasicAuthFields("always", "secret")

\* The fields of a section's dialog and of the controls in its rows.  shared: they
\* write through one mutation, whose latest call alone has its callbacks run.
Section(form, controls, shared) ==
    {[kind |-> form[f], inline |-> f \in controls, shared |-> shared] : f \in DOMAIN form}
    \union {[kind |-> "none", inline |-> TRUE, shared |-> shared] : f \in controls \ DOMAIN form}

DisksSection == Section(EditDiskDialog, RelPathCell, FALSE) \union Section(AddDiskDialog, {}, FALSE)

TrackersSection ==
    Section(EditTrackerDialog, TrackerClientSelect \union {"enabled"}, FALSE)
    \union Section(AddTrackerDialog, {}, FALSE)
    \union Section(UploadProfileDialog, {"default_anonymous", "default_personal_release"}, TRUE)

DisksDialog == Section(DiskAssociationRow, {"associated"}, TRUE)

TorrentClientsSection ==
    Section(EditTorrentClientDialog, {"enabled"}, FALSE)
    \union Section(AddTorrentClientDialog, {}, FALSE)
    \union DisksDialog

ArrInstancesCard ==
    Section(EditArrInstanceDialog, {"enabled"}, TRUE) \union Section(AddArrInstanceDialog, {}, FALSE)

IntegrationsSection == ArrInstancesCard

Fields == DisksSection \union TrackersSection \union TorrentClientsSection \union IntegrationsSection

-----------------------------------------------------------------------------
NoCall == [sends |-> NotSent, state |-> "none", heard |-> TRUE]

TypeOK ==
    /\ field \in Fields
    /\ server \in {Gone} \union 0 .. MaxValue
    /\ cached \in 0 .. MaxValue \union {Gone} /\ value \in {Untouched} \union 0 .. MaxValue
    /\ typed \subseteq 1 .. MaxValue /\ last \in 1 .. MaxValue
    /\ \A call \in {saving, setting} :
         call \in [sends : {NotSent} \union 0 .. MaxValue,
                   state : {"none", "sent", "ok", "error"}, heard : BOOLEAN]
    /\ open \in BOOLEAN /\ due \in BOOLEAN

\* What the dialog's state starts from, when its row is mounted.
Start(kind, row) ==
    CASE kind \in New \union {"secret", "none"} -> Blank
      [] kind = "draft" -> Untouched
      [] OTHER -> row

Init ==
    /\ field \in Fields
    /\ server = 1 /\ cached = 1 /\ last = 1
    /\ value = Start(field.kind, 1)
    /\ open = FALSE /\ typed = {} /\ due = FALSE
    /\ saving = NoCall /\ setting = NoCall

\* Closing a dialog keeps its state: what was typed is there when it opens again.  Not
\* so those that exist only while they are open: they start anew, and hear nothing of
\* a save they had in flight (bound: no other write until it is answered).
OpenOrClose ==
    /\ cached # Gone /\ open' = ~open
    /\ IF field.kind \in {"draft", "row"}
       THEN value' = Start(field.kind, cached) /\ saving' = [saving EXCEPT !.heard = saving.state = "none"]
       ELSE UNCHANGED <<value, saving>>
    /\ UNCHANGED <<field, server, cached, typed, setting, due, last>>

Fresh == last < MaxValue /\ last' = last + 1

Type ==
    /\ open /\ field.kind # "none"
    /\ \/ Fresh /\ value' = last' /\ typed' = typed \union {last'}
       \/ value' = Blank /\ UNCHANGED <<typed, last>>
    /\ UNCHANGED <<field, server, cached, open, saving, setting, due>>

\* What a save sends of the field.
Sends ==
    CASE field.kind = "none" -> NotSent
      [] field.kind = "draft" -> IF value = Untouched THEN cached ELSE value
      [] field.kind \in {"filled", "secret", "optional"} -> IF value = Blank THEN NotSent ELSE value
      [] OTHER -> value

\* Save: off while the mutation of the dialog is pending or a needed field is blank.
Pending == saving.state # "none" \/ (field.shared /\ setting.state # "none")

Save ==
    /\ open /\ ~Pending
    /\ field.kind \in {"needed", "new"} => value # Blank
    /\ saving' = [sends |-> Sends, state |-> "sent", heard |-> TRUE]
    /\ UNCHANGED <<field, server, cached, value, open, typed, setting, due, last>>

\* A switch, a select or a folder picked in the row (or in the dialog, for a
\* profile): one field, at once, whatever else is pending.
SetInline ==
    /\ field.inline \/ field.shared
    /\ cached # Gone /\ setting.state = "none"
    /\ IF field.inline THEN Fresh /\ setting' = [sends |-> last', state |-> "sent", heard |-> TRUE]
       ELSE setting' = [sends |-> NotSent, state |-> "sent", heard |-> TRUE] /\ UNCHANGED last
    /\ saving' = [saving EXCEPT !.heard = @ /\ ~field.shared]
    /\ UNCHANGED <<field, server, cached, value, open, typed, due>>

\* PATCH changes the fields that were sent; a row that is gone answers 404.  A
\* dialog that adds makes a row of its own.  An error may also be an answer that was
\* lost, the row being changed.
Applied(call) ==
    IF call.sends = NotSent \/ field.kind \in New THEN server ELSE call.sends

Serve(call) == call.state = "sent" /\ server # Gone

ServeSave ==
    /\ Serve(saving)
    /\ \/ server' = Applied(saving) /\ saving' = [saving EXCEPT !.state = "ok"]
       \/ saving' = [saving EXCEPT !.state = "error"] /\ server' \in {server, Applied(saving)}
    /\ UNCHANGED <<field, cached, value, open, typed, setting, due, last>>

ServeSet ==
    /\ Serve(setting)
    /\ \/ server' = Applied(setting) /\ setting' = [setting EXCEPT !.state = "ok"]
       \/ setting' = [setting EXCEPT !.state = "error"] /\ server' \in {server, Applied(setting)}
    /\ UNCHANGED <<field, cached, value, open, typed, saving, due, last>>

NotFound ==
    /\ server = Gone
    /\ \/ saving.state = "sent" /\ saving' = [saving EXCEPT !.state = "error"] /\ UNCHANGED setting
       \/ setting.state = "sent" /\ setting' = [setting EXCEPT !.state = "error"] /\ UNCHANGED saving
    /\ UNCHANGED <<field, server, cached, value, open, typed, due, last>>

\* Mutant: a dialog that was saved closes and nothing else.
ClearedNot == value

\* What the dialog holds after a save that succeeded.
Cleared ==
    CASE field.kind \in New \union {"secret"} -> Blank
      [] field.kind = "draft" -> Untouched
      [] OTHER -> value

\* The answer of a save.  The callback that closes the dialog and clears it belongs
\* to this call of mutate: it is dropped if another call of the mutation followed.
SaveAnswered ==
    /\ saving.state \in {"ok", "error"}
    /\ saving' = NoCall
    /\ due' = (due \/ saving.state = "ok")
    /\ IF saving.state = "ok" /\ saving.heard /\ cached # Gone
       THEN open' = FALSE /\ value' = Cleared ELSE UNCHANGED <<open, value>>
    /\ typed' = IF saving.state = "ok" /\ saving.heard THEN typed \ {saving.sends} ELSE typed
    /\ UNCHANGED <<field, server, cached, setting, last>>

\* Mutant: the mutation of the row's control invalidates nothing.
SetAnsweredQuietly ==
    /\ setting.state \in {"ok", "error"}
    /\ setting' = NoCall
    /\ UNCHANGED <<field, server, cached, value, open, typed, saving, due, last>>

SetAnswered ==
    /\ setting.state \in {"ok", "error"}
    /\ setting' = NoCall
    /\ due' = (due \/ setting.state = "ok")
    /\ UNCHANGED <<field, server, cached, value, open, typed, saving, last>>

\* The trash can: no question asked, any dialog of the row may have been used.
Delete ==
    /\ cached # Gone /\ server # Gone /\ field.kind \notin New
    /\ server' = Gone /\ due' = TRUE
    /\ UNCHANGED <<field, cached, value, open, typed, saving, setting, last>>

\* The list is fetched: the rows that are still there keep their dialogs' state.
Refetch ==
    /\ cached' = server /\ due' = FALSE
    /\ open' = (open /\ server # Gone)
    /\ UNCHANGED <<field, server, value, typed, saving, setting, last>>

\* Another tab writes the field.
Elsewhere ==
    /\ server # Gone /\ Fresh /\ server' = last'
    /\ UNCHANGED <<field, cached, value, open, typed, saving, setting, due>>

Next ==
    \/ OpenOrClose \/ Type \/ Save \/ SetInline \/ ServeSave \/ ServeSet \/ NotFound
    \/ SaveAnswered \/ SetAnswered \/ Delete \/ Refetch \/ Elsewhere

\* Requests are answered and an invalidated list that is on the screen is fetched.
Fairness ==
    /\ WF_vars(ServeSave) /\ WF_vars(ServeSet) /\ WF_vars(NotFound)
    /\ WF_vars(SaveAnswered) /\ WF_vars(SetAnswered) /\ WF_vars(due /\ Refetch)

Spec == Init /\ [][Next]_vars /\ Fairness

-----------------------------------------------------------------------------
\* A secret, or a field of a new row, that a save sends was typed in the dialog
\* since that value was last saved: the key sent an hour ago does not come back
\* with a later save and undo its rotation in another tab (the setApiKey('') and
\* reset() of onSuccess).  A dialog can be told of no success (heard) when the switch
\* of its row writes through the same mutation while the save is in flight
\* (EditArrInstanceDialog): what it has sent then comes again with its next save.
SecretSentOnce ==
    (field.kind \in New \union {"secret"} /\ saving.state = "sent" /\ saving.sends > Blank)
        => saving.sends \in typed

\* What this tab has written is shown: after the answer the row is fetched again,
\* whether the write came from the dialog or from the row.
OwnWriteDone == saving.state = "ok" \/ setting.state = "ok"
OwnWriteShown == OwnWriteDone ~> (cached = server)
=============================================================================
