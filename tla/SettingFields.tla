---------------------------- MODULE SettingFields ----------------------------
(***************************************************************************)
(* The controls that edit one row of the settings table: text fields with  *)
(* a draft and a Save button, switches and selects that write at once, the *)
(* list of exclusion presets, the order of the image hosts.  A behaviour   *)
(* follows one control; the value of its setting is a set of keys for all  *)
(* of them (a text is one of those sets, typed whole).                     *)
(*                                                                         *)
(* A write answered with success invalidates the setting and stays pending *)
(* until it has been read again, or that read has failed or is paused: only *)
(* then do the callbacks given to mutate run, and only those of the latest *)
(* write.  The answer of a write may be lost, and the write with it or not. *)
(***************************************************************************)
EXTENDS Naturals, Sequences, FiniteSets

CONSTANTS
    Keys,   \* what a value is made of
    MaxActs \* bound: writes of this tab, writes of others and visits of the page

VARIABLES
    control, \* which control it is
    server,  \* the row in the settings table
    cached,  \* the value the tab has read, Unloaded before
    draft,   \* the control's draft, Null when untouched
    calls,   \* writes in flight, oldest first: what they send, their state, and whether
             \* the control that sent them is still there to hear of it
    reading, \* the read in flight: its state, and the value it was answered with
    wanted,  \* what the user's changes of the list add up to
    blind,   \* history: something was written before the setting had been read or while
             \* its stored value was missed, with a write of an earlier visit pending, or
             \* by another tab
    missed,  \* history: a write was stored and not read since, as its answer was lost or
             \* the read that it waited for did not come
    acts

vars == <<control, server, cached, draft, calls, reading, wanted, blind, missed, acts>>

Values == SUBSET Keys
Unloaded == {"unloaded"}
Null == {"null"}
NoRead == [state |-> "none", value |-> Null]
Asked == [state |-> "asked", value |-> Null]

-----------------------------------------------------------------------------
(* The controls: how they are edited, and whether they are off while a write *)
(* is pending.  text: typed into a draft, saved by a button (typed text: only *)
(* once something was typed); choice: the value chosen is written; list: one *)
(* key is added or removed; order: the same, what was sent being the draft.  *)

SettingField == [edits |-> "text", guarded |-> TRUE]
DescriptionHeaderField == [edits |-> "text", guarded |-> FALSE]
CustomPatternsCard == [edits |-> "typed text", guarded |-> TRUE]
ScheduleCard == [edits |-> "text", guarded |-> FALSE]
SettingSelectField == [edits |-> "choice", guarded |-> FALSE]
SizeUnitsField == [edits |-> "choice", guarded |-> TRUE]
VerifySwitch == [edits |-> "choice", guarded |-> TRUE]
AutoExecuteSwitch == [edits |-> "choice", guarded |-> TRUE]
TonemapSwitch == [edits |-> "choice", guarded |-> FALSE]
PresetsCard == [edits |-> "list", guarded |-> TRUE]
ImageHostPriorityField == [edits |-> "order", guarded |-> FALSE]

Texts == {"text", "typed text"}

\* The tabs of the configuration page, as the controls they are made of.
TimeLanguageSection == {SettingSelectField, SizeUnitsField}
AutoApproveSection == {SettingField, VerifySwitch, AutoExecuteSwitch}
UploadSettingsSection == {SettingField, TonemapSwitch, DescriptionHeaderField, ImageHostPriorityField}
MetadataSection == {SettingField}
ExclusionsSection == {PresetsCard, CustomPatternsCard}

Controls ==
    TimeLanguageSection \union AutoApproveSection \union UploadSettingsSection
    \union MetadataSection \union ExclusionsSection \union {ScheduleCard}

-----------------------------------------------------------------------------
TypeOK ==
    /\ control \in Controls
    /\ server \in Values /\ cached \in Values \union {Unloaded} /\ draft \in Values \union {Null}
    /\ \A i \in DOMAIN calls :
          calls[i] \in [sends : Values, state : {"sent", "ok", "error", "reading"}, told : BOOLEAN]
    /\ Len(calls) <= MaxActs
    /\ reading \in {NoRead, Asked} \union [state : {"answered"}, value : Values]
    /\ blind \in BOOLEAN /\ missed \in BOOLEAN
    /\ acts \in 0 .. MaxActs

\* What a setting may hold: a text is one of a few values, their parts do not matter.
Contents == IF control.edits \in Texts THEN {{}} \union {{k} : k \in Keys} ELSE Values

Default == {} \* what is shown and assumed of a setting that was not read

Init ==
    /\ control \in Controls
    /\ server \in Contents /\ cached = Unloaded /\ draft = Null
    /\ calls = <<>> /\ reading = Asked
    /\ wanted = (IF control.edits = "list" THEN server ELSE {})
    /\ blind = FALSE /\ missed = FALSE /\ acts = 0

\* An order that was never saved is that of all the hosts, and so is one that was
\* saved empty.
parseOrder(value) == IF value \in {Unloaded, {}} THEN Keys ELSE value

disabledHosts(enabled) == Keys \ enabled

Shown ==
    IF draft # Null THEN draft
    ELSE IF control.edits = "order" THEN parseOrder(cached)
    ELSE IF cached = Unloaded THEN Default ELSE cached

\* The pending writes of this visit.
Pending == {i \in DOMAIN calls : calls[i].told}

\* Mutant: the switches of the list stay on while a write is pending.
FreeUnlessText == Pending = {} \/ control.edits \notin Texts

\* Whether the control takes a write now.
Free == Pending = {} \/ ~control.guarded

Send(v) ==
    /\ acts < MaxActs /\ acts' = acts + 1
    /\ calls' = Append(calls, [sends |-> v, state |-> "sent", told |-> TRUE])
    /\ blind' = (blind \/ cached = Unloaded \/ missed \/ Pending # DOMAIN calls)
    /\ UNCHANGED missed

Type(v) ==
    /\ control.edits \in Texts /\ v \in Contents \ {draft} /\ draft' = v
    /\ UNCHANGED <<control, server, cached, calls, reading, wanted, blind, missed, acts>>

Save ==
    /\ control.edits \in Texts /\ Free /\ Send(Shown)
    /\ control.edits = "typed text" => draft # Null
    /\ UNCHANGED <<control, server, cached, draft, reading, wanted>>

Choose(v) ==
    /\ control.edits = "choice" /\ Free /\ v # Shown /\ Send(v)
    /\ UNCHANGED <<control, server, cached, draft, reading, wanted>>

\* The cross of a host's row.
SortableRow(order, k) == order \ {k}

\* ImageHostPriorityField.save: a host is disabled, enabled, or moved.
Arrange(v) ==
    /\ control.edits = "order" /\ Free /\ Send(v)
    /\ \/ v = Shown /\ v # {}
       \/ \E k \in Shown : v = SortableRow(Shown, k)
       \/ \E k \in disabledHosts(Shown) : v = Shown \union {k}
    /\ draft' = v
    /\ UNCHANGED <<control, server, cached, reading, wanted>>

Flipped(set, k) == IF k \in set THEN set \ {k} ELSE set \union {k}

\* PresetsCard.toggle: the whole list is sent, computed from what was read.
Toggle(k) ==
    /\ control.edits = "list" /\ Free /\ Send(Flipped(Shown, k))
    /\ wanted' = Flipped(wanted, k)
    /\ UNCHANGED <<control, server, cached, draft, reading>>

\* The page is left and opened again: the new control hears nothing of the writes
\* that the old one sent, and is on.
Revisit ==
    /\ acts < MaxActs /\ acts' = acts + 1
    /\ draft' = Null
    /\ calls' = [i \in DOMAIN calls |-> [calls[i] EXCEPT !.told = FALSE]]
    /\ UNCHANGED <<control, server, cached, reading, wanted, blind, missed>>

-----------------------------------------------------------------------------
\* PUT: requests in flight together may be carried out in any order.  One whose answer is
\* an error or is lost goes back to what is stored: in the second case, what it sent.
Store(i) ==
    /\ calls[i].state = "sent"
    /\ \/ server' = calls[i].sends /\ calls' = [calls EXCEPT ![i].state = "ok"]
          /\ UNCHANGED <<wanted, missed>>
       \/ /\ calls' = [calls EXCEPT ![i].state = "error"]
          /\ \/ server' = calls[i].sends /\ missed' = TRUE
             \/ UNCHANGED <<server, missed>>
          /\ wanted' = IF control.edits = "list" THEN server' ELSE {}
    /\ UNCHANGED <<control, cached, draft, reading, blind, acts>>

Elsewhere(v) ==
    /\ acts < MaxActs /\ acts' = acts + 1
    /\ v \in Contents /\ server' = v /\ blind' = TRUE
    /\ UNCHANGED <<control, cached, draft, calls, reading, wanted, missed>>

\* A read that nobody's write waits for: the window is focused, the network is back.
BeginRead ==
    /\ reading = NoRead /\ reading' = Asked
    /\ UNCHANGED <<control, server, cached, draft, calls, wanted, blind, missed, acts>>

AnswerRead ==
    /\ reading = Asked /\ reading' = [state |-> "answered", value |-> server]
    /\ UNCHANGED <<control, server, cached, draft, calls, wanted, blind, missed, acts>>

DeliverRead ==
    /\ reading.state = "answered"
    /\ cached' = reading.value /\ reading' = NoRead
    /\ missed' = (missed /\ reading.value # server)
    /\ UNCHANGED <<control, server, draft, calls, wanted, blind, acts>>

\* The read fails, or is paused: what was read before stays, and the write that waits for
\* it waits no longer.
FailRead ==
    /\ reading # NoRead /\ reading' = NoRead
    /\ missed' = (missed \/ \E i \in DOMAIN calls : calls[i].state = "reading")
    /\ UNCHANGED <<control, server, cached, draft, calls, wanted, blind, acts>>

\* useSetSetting.onSuccess: another read begins, and a read in flight is dropped for it,
\* except the very first one, which is waited for.
Invalidate(i) ==
    /\ calls[i].state = "ok"
    /\ calls' = [calls EXCEPT ![i].state = "reading"]
    /\ reading' = IF cached = Unloaded /\ reading # NoRead THEN reading ELSE Asked
    /\ UNCHANGED <<control, server, cached, draft, wanted, blind, missed, acts>>

Without(i) == SubSeq(calls, 1, i - 1) \o SubSeq(calls, i + 1, Len(calls))

\* Mutant: the hook does not return the promise of the invalidation.
ReadOrNot(i) == calls[i].state = "reading"

\* The write is over once the read it has begun is.
ReadAgain(i) == calls[i].state = "reading" /\ reading = NoRead

\* The success callback, of the latest write only: a text's draft is dropped, with
\* what was typed meanwhile.
Succeed(i) ==
    /\ ReadAgain(i)
    /\ draft' = IF i = Len(calls) /\ calls[i].told /\ control.edits \in Texts THEN Null ELSE draft
    /\ calls' = Without(i)
    /\ UNCHANGED <<control, server, cached, reading, wanted, blind, missed, acts>>

\* The error callback: the order of the hosts goes back to what was read.
Fail(i) ==
    /\ calls[i].state = "error"
    /\ draft' = IF i = Len(calls) /\ calls[i].told /\ control.edits = "order" THEN Null ELSE draft
    /\ calls' = Without(i)
    /\ UNCHANGED <<control, server, cached, reading, wanted, blind, missed, acts>>

Next ==
    \/ \E v \in Values : Type(v) \/ Choose(v) \/ Arrange(v) \/ Elsewhere(v)
    \/ \E k \in Keys : Toggle(k)
    \/ Save \/ Revisit \/ BeginRead \/ AnswerRead \/ DeliverRead \/ FailRead
    \/ \E i \in DOMAIN calls : Store(i) \/ Invalidate(i) \/ Succeed(i) \/ Fail(i)

Spec == Init /\ [][Next]_vars

-----------------------------------------------------------------------------
\* Presets switched one after the other all take effect, although each write sends
\* the whole list as this tab last read it: a switch is off until the list has been
\* read again.  It fails when a switch is used (blind) before the list was ever read,
\* after coming back while a write is pending, after another tab has written, or
\* while the tab shows an old list because the read after a write did not come or the
\* write's answer was lost.
TogglesKept ==
    (control.edits = "list" /\ ~blind /\ calls = <<>>) => server = wanted

\* When a save is over and the draft is dropped the field shows the value that was
\* saved, never the old one for a moment (no blind write), if the read that the save
\* waited for has come.
DraftDropped(i) ==
    Succeed(i) /\ control.guarded /\ ~blind /\ ~missed /\ draft # Null /\ calls[i].told
NoFlicker == [][\A i \in DOMAIN calls : DraftDropped(i) => cached = calls[i].sends]_vars
=============================================================================
