------------------------------ MODULE ConfigProofs ------------------------------
(***************************************************************************)
(* What the configuration page and the upload pages promise, for any value *)
(* and any number of edits, writes, requests and breaks: a secret is sent  *)
(* by one save, presets switched one after the other all take effect, a    *)
(* dropped draft gives way to what was saved, and what a preparation made  *)
(* ready is published once.  Each with the exceptions that the module of   *)
(* its part names, which the code allows.                                  *)
(***************************************************************************)
EXTENDS TabProofs, SequenceTheorems, FiniteSetTheorems

-----------------------------------------------------------------------------
(* The forms of the configuration page                                      *)

LOCAL field == v1
LOCAL server == v2
LOCAL cached == v3
LOCAL value == v4
LOCAL open == v5
LOCAL typed == v6
LOCAL saving == v7
LOCAL setting == v8
LOCAL due == v9
LOCAL last == v10
USE DEF field, server, cached, value, open, typed, saving, setting, due, last

Sendable == {C!NotSent} \union 0 .. MaxValue
FormCall == [sends : Sendable, state : {"none", "sent", "ok", "error"}, heard : BOOLEAN]

\* A row that the list has lost is gone, an open dialog is one of a row that is listed,
\* and only a draft is untouched.
RowThere ==
    /\ cached = C!Gone => server = C!Gone
    /\ open => cached # C!Gone
    /\ value = C!Untouched => field.kind = "draft"

\* The fields the promise is about: blank again once the dialog hears that they are saved.
OneShot == field.kind \in C!New \union {"secret"}

\* What such a field holds, or has sent, was typed since its value was last saved.
TypedSince ==
    OneShot =>
        /\ cached # C!Gone => value = C!Blank \/ value \in typed
        /\ saving.state = "sent" /\ saving.sends > C!Blank => saving.sends \in typed

FormInv == C!TypeOK /\ RowThere /\ TypedSince

\* What a dialog holds, sent or not, is in its type.
LEMMA FormSends ==
  ASSUME MaxValue \in Nat \ {0}, FormInv, open
  PROVE  C!Sends \in Sendable
<1>1. value \in {C!Untouched} \union 0 .. MaxValue /\ cached \in 0 .. MaxValue
  BY DEF FormInv, C!TypeOK, RowThere
<1>2. CASE field.kind = "draft"
  BY <1>1, <1>2 DEF C!Sends, Sendable
<1>3. CASE field.kind # "draft"
  <2>1. value \in 0 .. MaxValue
    BY <1>1, <1>3 DEF FormInv, RowThere
  <2> QED BY <1>3, <2>1 DEF C!Sends, Sendable
<1> QED BY <1>2, <1>3

\* The user opens and closes the dialog, and types.
LEMMA FormEdited ==
  ASSUME MaxValue \in Nat \ {0}, FormInv, C!OpenOrClose \/ C!Type
  PROVE  FormInv'
<1> USE DEF FormInv, C!TypeOK
<1>1. CASE C!OpenOrClose
  <2>0. cached # C!Gone /\ open' \in BOOLEAN /\ UNCHANGED <<field, server, cached, typed, setting, due, last>>
    BY <1>1 DEF C!OpenOrClose
  <2>1. CASE field.kind \in {"draft", "row"}
    <3>1. value' = C!Start(field.kind, cached)
          /\ saving' = [saving EXCEPT !.heard = saving.state = "none"]
      BY <1>1, <2>1 DEF C!OpenOrClose
    <3>2. value' \in {C!Untouched} \union 0 .. MaxValue /\ (value' = C!Untouched => field.kind = "draft")
      BY <2>0, <2>1, <3>1 DEF C!Start, C!New, C!Gone, C!Untouched
    <3>3. saving' \in FormCall
      BY <3>1 DEF FormCall, Sendable
    <3>4. ~OneShot
      BY <2>1 DEF OneShot, C!New
    <3> QED BY <2>0, <3>2, <3>3, <3>4 DEF FormCall, Sendable, RowThere, TypedSince, OneShot
  <2>2. CASE field.kind \notin {"draft", "row"}
    <3>1. UNCHANGED <<value, saving>>
      BY <1>1, <2>2 DEF C!OpenOrClose
    <3> QED BY <2>0, <3>1 DEF RowThere, TypedSince, OneShot
  <2> QED BY <2>1, <2>2
<1>2. CASE C!Type
  <2>1. open /\ UNCHANGED <<field, server, cached, open, saving, setting, due>>
    BY <1>2 DEF C!Type
  <2>2. \/ last < MaxValue /\ last' = last + 1 /\ value' = last' /\ typed' = typed \union {last'}
        \/ value' = C!Blank /\ UNCHANGED <<typed, last>>
    BY <1>2 DEF C!Type, C!Fresh
  <2>3. CASE last < MaxValue /\ last' = last + 1 /\ value' = last' /\ typed' = typed \union {last'}
    <3>1. last' \in 1 .. MaxValue
      BY <2>3
    <3>2. typed' \subseteq 1 .. MaxValue
      BY <2>3, <3>1
    <3> QED BY <2>1, <2>3, <3>1, <3>2 DEF RowThere, TypedSince, OneShot, C!Untouched
  <2>4. CASE value' = C!Blank /\ UNCHANGED <<typed, last>>
    BY <2>1, <2>4 DEF RowThere, TypedSince, OneShot, C!Untouched, C!Blank
  <2> QED BY <2>2, <2>3, <2>4
<1> QED BY <1>1, <1>2

\* The user saves the dialog, or writes a field in the row.
LEMMA FormSent ==
  ASSUME MaxValue \in Nat \ {0}, FormInv, C!Save \/ C!SetInline
  PROVE  FormInv'
<1> USE DEF FormInv, C!TypeOK
<1>1. CASE C!Save
  <2>1. open /\ saving' = [sends |-> C!Sends, state |-> "sent", heard |-> TRUE]
        /\ UNCHANGED <<field, server, cached, value, open, typed, setting, due, last>>
    BY <1>1 DEF C!Save
  <2>2. C!Sends \in Sendable
    BY <2>1, FormSends
  <2>3. saving' \in FormCall
    BY <2>1, <2>2 DEF FormCall
  <2>4. OneShot => C!Sends = value \/ C!Sends = C!NotSent
    BY DEF OneShot, C!Sends, C!New
  <2>5. OneShot /\ C!Sends > C!Blank => C!Sends \in typed
    BY <2>1, <2>4 DEF TypedSince, RowThere, C!NotSent, C!Blank
  <2> QED BY <2>1, <2>3, <2>5 DEF FormCall, Sendable, RowThere, TypedSince, OneShot
<1>2. CASE C!SetInline
  <2>1. saving' = [saving EXCEPT !.heard = @ /\ ~field.shared]
        /\ UNCHANGED <<field, server, cached, value, open, typed, due>>
    BY <1>2 DEF C!SetInline
  <2>2. saving' \in FormCall /\ saving'.sends = saving.sends /\ saving'.state = saving.state
        /\ (~field.shared => saving'.heard = saving.heard)
    BY <2>1 DEF FormCall, Sendable
  <2>3. last' \in 1 .. MaxValue /\ setting' \in FormCall
    <3>1. CASE field.inline
      <4>1. last < MaxValue /\ last' = last + 1
            /\ setting' = [sends |-> last', state |-> "sent", heard |-> TRUE]
        BY <1>2, <3>1 DEF C!SetInline, C!Fresh
      <4> QED BY <4>1 DEF FormCall, Sendable
    <3>2. CASE ~field.inline
      <4>1. last' = last /\ setting' = [sends |-> C!NotSent, state |-> "sent", heard |-> TRUE]
        BY <1>2, <3>2 DEF C!SetInline
      <4> QED BY <4>1 DEF FormCall, Sendable
    <3> QED BY <3>1, <3>2
  <2>4. C!TypeOK'
    BY <2>1, <2>2, <2>3 DEF FormCall, Sendable
  <2> QED BY <2>1, <2>2, <2>4 DEF RowThere, TypedSince, OneShot
<1> QED BY <1>1, <1>2

\* The server carries out or refuses a write; another tab writes; the row is deleted.
LEMMA FormServed ==
  ASSUME MaxValue \in Nat \ {0}, FormInv,
         C!ServeSave \/ C!ServeSet \/ C!NotFound \/ C!Delete \/ C!Elsewhere
  PROVE  FormInv'
<1> USE DEF FormInv, C!TypeOK
<1>0. ASSUME NEW call \in {saving, setting}, NEW s \in {"ok", "error"}
      PROVE  /\ [call EXCEPT !.state = s] \in FormCall
             /\ [call EXCEPT !.state = s].heard = call.heard
             /\ [call EXCEPT !.state = s].state = s
             /\ C!Applied(call) \in {C!Gone} \union 0 .. MaxValue
  <2>1. call \in FormCall
    BY DEF FormCall, Sendable
  <2>2. C!Applied(call) = server \/ (C!Applied(call) = call.sends /\ call.sends # C!NotSent)
    BY DEF C!Applied
  <2> QED BY <2>1, <2>2 DEF FormCall, Sendable
<1>1. CASE C!ServeSave
  <2>1. PICK s \in {"ok", "error"} : saving' = [saving EXCEPT !.state = s]
    BY <1>1 DEF C!ServeSave
  <2>2. server # C!Gone /\ (server' = server \/ server' = C!Applied(saving))
    BY <1>1 DEF C!ServeSave, C!Serve
  <2>3. UNCHANGED <<field, cached, value, open, typed, setting, due, last>>
    BY <1>1 DEF C!ServeSave
  <2>4. saving' \in FormCall /\ saving'.heard = saving.heard /\ saving'.state # "sent"
        /\ server' \in {C!Gone} \union 0 .. MaxValue
    BY <1>0, <2>1, <2>2
  <2> QED BY <2>2, <2>3, <2>4 DEF FormCall, Sendable, RowThere, TypedSince, OneShot
<1>2. CASE C!ServeSet
  <2>1. PICK s \in {"ok", "error"} : setting' = [setting EXCEPT !.state = s]
    BY <1>2 DEF C!ServeSet
  <2>2. server # C!Gone /\ (server' = server \/ server' = C!Applied(setting))
    BY <1>2 DEF C!ServeSet, C!Serve
  <2>3. UNCHANGED <<field, cached, value, open, typed, saving, due, last>>
    BY <1>2 DEF C!ServeSet
  <2>4. setting' \in FormCall /\ server' \in {C!Gone} \union 0 .. MaxValue
    BY <1>0, <2>1, <2>2
  <2> QED BY <2>2, <2>3, <2>4 DEF FormCall, Sendable, RowThere, TypedSince, OneShot
<1>3. CASE C!NotFound
  <2>1. UNCHANGED <<field, server, cached, value, open, typed, due, last>>
    BY <1>3 DEF C!NotFound
  <2>2. CASE saving' = [saving EXCEPT !.state = "error"] /\ UNCHANGED setting
    <3>1. saving' \in FormCall /\ saving'.heard = saving.heard /\ saving'.state # "sent"
      BY <1>0, <2>2
    <3> QED BY <2>1, <2>2, <3>1 DEF FormCall, Sendable, RowThere, TypedSince, OneShot
  <2>3. CASE setting' = [setting EXCEPT !.state = "error"] /\ UNCHANGED saving
    <3>1. setting' \in FormCall
      BY <1>0, <2>3
    <3> QED BY <2>1, <2>3, <3>1 DEF FormCall, Sendable, RowThere, TypedSince, OneShot
  <2> QED BY <1>3, <2>2, <2>3 DEF C!NotFound
<1>4. CASE C!Delete
  BY <1>4 DEF C!Delete, RowThere, TypedSince, OneShot
<1>5. CASE C!Elsewhere
  BY <1>5 DEF C!Elsewhere, C!Fresh, RowThere, TypedSince, OneShot
<1> QED BY <1>1, <1>2, <1>3, <1>4, <1>5

\* An answer arrives, or the list that was invalidated.
LEMMA FormAnswered ==
  ASSUME MaxValue \in Nat \ {0}, FormInv, C!SaveAnswered \/ C!SetAnswered \/ C!Refetch
  PROVE  FormInv'
<1> USE DEF FormInv, C!TypeOK
<1>0. C!NoCall \in FormCall /\ C!NoCall.heard = TRUE /\ C!NoCall.state = "none"
  BY DEF C!NoCall, FormCall, Sendable
<1>1. CASE C!SaveAnswered
  <2>1. /\ saving' = C!NoCall /\ due' = (due \/ saving.state = "ok")
        /\ typed' = IF saving.state = "ok" /\ saving.heard THEN typed \ {saving.sends} ELSE typed
        /\ UNCHANGED <<field, server, cached, setting, last>>
    BY <1>1 DEF C!SaveAnswered
  <2>2. CASE saving.state = "ok" /\ saving.heard /\ cached # C!Gone
    <3>1. open' = FALSE /\ value' = C!Cleared
      BY <1>1, <2>2 DEF C!SaveAnswered
    <3>2. /\ value' \in {C!Untouched} \union 0 .. MaxValue
          /\ value' = C!Untouched => field.kind = "draft"
          /\ OneShot => value' = C!Blank
      BY <3>1 DEF C!Cleared, C!New, C!Blank, C!Untouched, OneShot, RowThere
    <3>3. saving' \in FormCall /\ typed' \subseteq 1 .. MaxValue /\ due' \in BOOLEAN /\ open' \in BOOLEAN
      BY <1>0, <2>1, <3>1
    <3> QED BY <1>0, <2>1, <3>1, <3>2, <3>3 DEF FormCall, Sendable, RowThere, TypedSince, OneShot
  <2>3. CASE ~(saving.state = "ok" /\ saving.heard /\ cached # C!Gone)
    <3>1. UNCHANGED <<open, value>>
      BY <1>1, <2>3 DEF C!SaveAnswered
    <3>2. saving' \in FormCall /\ typed' \subseteq 1 .. MaxValue /\ due' \in BOOLEAN
      BY <1>0, <2>1
    <3>3. OneShot /\ cached # C!Gone => typed' = typed
      BY <2>1, <2>3 DEF TypedSince
    <3> QED BY <1>0, <2>1, <3>1, <3>2, <3>3 DEF FormCall, Sendable, RowThere, TypedSince, OneShot
  <2> QED BY <2>2, <2>3
<1>2. CASE C!SetAnswered
  <2>1. setting' \in FormCall /\ due' \in BOOLEAN
        /\ UNCHANGED <<field, server, cached, value, open, typed, saving, last>>
    BY <1>0, <1>2 DEF C!SetAnswered
  <2> QED BY <2>1 DEF FormCall, Sendable, RowThere, TypedSince, OneShot
<1>3. CASE C!Refetch
  <2>1. cached' = server /\ due' = FALSE /\ open' = (open /\ server # C!Gone)
        /\ UNCHANGED <<field, server, value, typed, saving, setting, last>>
    BY <1>3 DEF C!Refetch
  <2>2. C!TypeOK'
    BY <2>1
  <2> QED BY <2>1, <2>2 DEF RowThere, TypedSince, OneShot
<1> QED BY <1>1, <1>2, <1>3

\* The invariant is inductive.
LEMMA FormSteps ==
  ASSUME MaxValue \in Nat \ {0}, FormInv, [C!Next]_(C!vars)
  PROVE  FormInv'
<1>1. CASE UNCHANGED C!vars
  BY <1>1 DEF C!vars, FormInv, C!TypeOK, RowThere, TypedSince, OneShot
<1>2. CASE C!Next
  BY <1>2, FormEdited, FormSent, FormServed, FormAnswered DEF C!Next
<1> QED BY <1>1, <1>2

\* A page that is opened.
LEMMA FormBegins ==
  ASSUME MaxValue \in Nat \ {0}, C!Init
  PROVE  FormInv
<1>1. /\ value = C!Start(field.kind, 1) /\ field \in C!Fields /\ server = 1 /\ cached = 1 /\ last = 1
      /\ open = FALSE /\ typed = {} /\ due = FALSE /\ saving = C!NoCall /\ setting = C!NoCall
  BY DEF C!Init
<1>2. C!NoCall \in FormCall /\ C!NoCall.heard = TRUE /\ C!NoCall.state = "none"
  BY DEF C!NoCall, FormCall, Sendable
<1>3. /\ value \in {C!Untouched, 0, 1} /\ (value = C!Untouched => field.kind = "draft")
      /\ OneShot => value = C!Blank
  BY <1>1 DEF C!Start, C!Blank, C!Untouched, C!New, OneShot
<1>a. /\ server \in {C!Gone} \union 0 .. MaxValue /\ cached \in 0 .. MaxValue \union {C!Gone}
      /\ value \in {C!Untouched} \union 0 .. MaxValue /\ last \in 1 .. MaxValue
  BY <1>1, <1>3
<1>b. typed \subseteq 1 .. MaxValue /\ open \in BOOLEAN /\ due \in BOOLEAN
  BY <1>1
<1>c. saving \in FormCall /\ setting \in FormCall
  BY <1>1, <1>2
<1>4. C!TypeOK
  BY <1>1, <1>a, <1>b, <1>c DEF C!TypeOK, FormCall, Sendable
<1> QED BY <1>1, <1>2, <1>3, <1>4 DEF FormInv, RowThere, TypedSince, C!Gone

\* The invariant holds throughout: what a field that is blank again after a save holds
\* was typed since.
THEOREM FormInvariance == Spec => [](part = "forms" => FormInv)
<1>1. Init => (part = "forms" => FormInv)
  BY OnePartBegins, FormBegins, BoundsAssumption
<1>2. (part = "forms" => FormInv) /\ [Next]_vars => (part = "forms" => FormInv)'
  BY OnePartSteps, FormSteps, BoundsAssumption
<1> QED BY <1>1, <1>2, PTL DEF Spec

\* A secret, or a field of a new row, that was saved is not sent by a later save once its
\* dialog has heard of it, whatever fails, is deleted or is written elsewhere in between
\* (the setApiKey('') and reset() of the dialogs' onSuccess).  Not promised: the dialog of
\* an Arr instance whose switch is used during the save hears nothing, and sends it again.
THEOREM SecretsSentOnce == Spec => []SecretSentOnce
<1>1. (part = "forms" => FormInv) => SecretSentOnce
  BY DEF FormInv, TypedSince, OneShot, SecretSentOnce, C!SecretSentOnce, Editing
<1> QED BY <1>1, FormInvariance, PTL

-----------------------------------------------------------------------------
(* The settings controls                                                    *)

LOCAL control == v1
LOCAL draft == v4
LOCAL saves == v5
LOCAL reading == v6
LOCAL wanted == v7
LOCAL blind == v8
LOCAL missed == v9
LOCAL acts == v10
USE DEF control, draft, saves, reading, wanted, blind, missed, acts

SaveCall == [sends : F!Values, state : {"sent", "ok", "error", "reading"}, told : BOOLEAN]

\* The writes in flight were made by the acts so far.
SavesTyped ==
    /\ saves \in Seq(SaveCall) /\ Len(saves) <= acts
    /\ blind \in BOOLEAN /\ missed \in BOOLEAN

\* What is read is what the server has.
ReadsServer == reading \in [state : {"answered"}, value : F!Values] => reading.value = server

\* A control that is off while its write is pending has one write at a time, and when the
\* setting has been read again after a success, what was read is what was sent, unless
\* that read did not come.
OneSave ==
    control.guarded /\ ~blind =>
        /\ Len(saves) <= 1
        /\ \A i \in DOMAIN saves :
              /\ cached # F!Unloaded
              /\ saves[i].state \in {"ok", "reading"} => server = saves[i].sends
              /\ saves[i].state = "reading" /\ ~missed
                  => ReadsServer /\ (reading = F!NoRead => cached = server)

\* The list sent is the one the user wants, computed from the one the server has, which
\* the tab knows unless it has missed a write.
ListFollowed ==
    control.edits = "list" /\ ~blind =>
        /\ draft = F!Null
        /\ saves = <<>> => server = wanted
        /\ ~missed /\ (\A i \in DOMAIN saves : saves[i].state \in {"sent", "error"}) =>
              cached \in {F!Unloaded, server} /\ ReadsServer
        /\ \A i \in DOMAIN saves :
              IF saves[i].state = "error" THEN server = wanted ELSE saves[i].sends = wanted

SettingInv == F!TypeOK /\ SavesTyped /\ OneSave /\ ListFollowed

-----------------------------------------------------------------------------
\* A list is edited by the presets' card, which is off while a write is pending.
LEMMA ListsAreGuarded ==
  ASSUME control \in F!Controls, control.edits = "list"
  PROVE  control.guarded
<1>1. control = F!PresetsCard \/ control \in F!Controls \ {F!PresetsCard}
  BY Zenon
<1>2. ASSUME control \in F!Controls \ {F!PresetsCard} PROVE FALSE
  <2>1. /\ F!ScheduleCard.edits # "list" /\ F!SettingSelectField.edits # "list"
        /\ F!SizeUnitsField.edits # "list" /\ F!SettingField.edits # "list"
        /\ F!VerifySwitch.edits # "list" /\ F!AutoExecuteSwitch.edits # "list"
        /\ F!TonemapSwitch.edits # "list" /\ F!DescriptionHeaderField.edits # "list"
        /\ F!ImageHostPriorityField.edits # "list" /\ F!CustomPatternsCard.edits # "list"
    BY DEF F!ScheduleCard, F!SettingSelectField, F!SizeUnitsField, F!SettingField,
           F!VerifySwitch, F!AutoExecuteSwitch, F!TonemapSwitch, F!DescriptionHeaderField,
           F!ImageHostPriorityField, F!CustomPatternsCard
  <2>2. \/ control = F!ScheduleCard \/ control = F!SettingSelectField
        \/ control = F!SizeUnitsField \/ control = F!SettingField
        \/ control = F!VerifySwitch \/ control = F!AutoExecuteSwitch
        \/ control = F!TonemapSwitch \/ control = F!DescriptionHeaderField
        \/ control = F!ImageHostPriorityField \/ control = F!CustomPatternsCard
    BY <1>2, Zenon DEF F!Controls, F!TimeLanguageSection, F!AutoApproveSection,
       F!UploadSettingsSection, F!MetadataSection, F!ExclusionsSection
  <2> QED BY <2>1, <2>2
<1>3. F!PresetsCard.guarded
  BY DEF F!PresetsCard
<1> QED BY <1>1, <1>2, <1>3

\* The markers are no values.
LEMMA MarkersDiffer ==
  F!Unloaded \notin F!Values /\ F!Null \notin F!Values
  BY KeysAssumption DEF F!Unloaded, F!Null, F!Values

\* A function on 1 .. n is a sequence of n elements.
LEMMA AsSequence ==
  ASSUME NEW S1, NEW n \in Nat, NEW s \in [1 .. n -> S1]
  PROVE  s \in Seq(S1) /\ Len(s) = n
<1>1. s \in Seq(S1)
  BY SeqDef
<1>2. DOMAIN s = 1 .. Len(s) /\ Len(s) \in Nat
  BY <1>1, LenProperties
<1>3. 1 .. n = 1 .. Len(s)
  BY <1>2
<1> QED BY <1>1, <1>2, <1>3

\* A sequence without one of its elements.
LEMMA OneLess ==
  ASSUME NEW S1, NEW s \in Seq(S1), NEW i \in DOMAIN s
  PROVE  LET t == SubSeq(s, 1, i - 1) \o SubSeq(s, i + 1, Len(s))
         IN  t \in Seq(S1) /\ Len(t) = Len(s) - 1
<1> DEFINE before == SubSeq(s, 1, i - 1)
           after == SubSeq(s, i + 1, Len(s))
<1>1. Len(s) \in Nat /\ s \in [1 .. Len(s) -> S1] /\ i \in 1 .. Len(s)
  BY LenProperties
<1>2. before \in Seq(S1) /\ Len(before) = IF 1 <= i - 1 THEN i - 1 ELSE 0
  <2>1. \A j \in 1 .. i - 1 : s[j] \in S1
    BY <1>1
  <2>2. /\ before \in Seq(S1)
        /\ Len(before) = IF 1 <= i - 1 THEN (i - 1) - 1 + 1 ELSE 0
    BY <1>1, <2>1, SubSeqProperties
  <2> QED BY <1>1, <2>2
<1>3. after \in Seq(S1) /\ Len(after) = Len(s) - i
  <2>1. \A j \in i + 1 .. Len(s) : s[j] \in S1
    BY <1>1
  <2>2. /\ after \in Seq(S1)
        /\ Len(after) = IF i + 1 <= Len(s) THEN Len(s) - (i + 1) + 1 ELSE 0
    BY <1>1, <2>1, SubSeqProperties
  <2> QED BY <1>1, <2>2
<1> HIDE DEF before, after
<1>4. before \o after \in Seq(S1) /\ Len(before \o after) = Len(before) + Len(after)
  BY <1>2, <1>3, ConcatProperties
<1>5. Len(before) + Len(after) = Len(s) - 1
  BY <1>1, <1>2, <1>3
<1> QED BY <1>4, <1>5 DEF before, after

\* The parts of the invariant that a step which leaves the writes alone must look after.
LEMMA TypesOfSaves ==
  ASSUME SettingInv
  PROVE  /\ saves \in Seq(SaveCall) /\ Len(saves) \in Nat /\ DOMAIN saves = 1 .. Len(saves)
         /\ \A i \in DOMAIN saves : saves[i] \in SaveCall
         /\ acts \in 0 .. MaxEdits /\ Len(saves) <= acts
  BY LenProperties, ElementOfSeq DEF SettingInv, SavesTyped, F!TypeOK

\* How the types follow from the sequence of writes.
LEMMA SettingTyped ==
  ASSUME saves' \in Seq(SaveCall), Len(saves') <= acts', acts' \in 0 .. MaxEdits,
         control' \in F!Controls, server' \in F!Values, cached' \in F!Values \union {F!Unloaded},
         draft' \in F!Values \union {F!Null}, blind' \in BOOLEAN, missed' \in BOOLEAN, MaxEdits \in Nat,
         reading' \in {F!NoRead, F!Asked} \union [state : {"answered"}, value : F!Values]
  PROVE  F!TypeOK' /\ SavesTyped'
<1>1. \A i \in DOMAIN saves' : saves'[i] \in SaveCall
  BY LenProperties, ElementOfSeq
<1>2. Len(saves') <= MaxEdits
  BY LenProperties
<1> QED BY <1>1, <1>2 DEF F!TypeOK, SavesTyped, SaveCall

\* A write is sent.  What follows it alone is that it is the only one, sends what is
\* wanted, and that the setting was read.
LEMMA SettingSent ==
  ASSUME MaxEdits \in Nat, SettingInv, NEW v \in F!Values, F!Free, F!Send(v),
         UNCHANGED <<control, server, cached, reading>>,
         draft' \in F!Values \union {F!Null},
         control.edits = "list" => draft' = draft,
         control.edits = "list" /\ ~blind /\ saves = <<>> /\ cached = server => wanted' = v
  PROVE  SettingInv'
<1> DEFINE c == [sends |-> v, state |-> "sent", told |-> TRUE]
<1>1. c \in SaveCall
  BY DEF SaveCall
<1>2. saves' = Append(saves, c) /\ acts < MaxEdits /\ acts' = acts + 1
      /\ blind' = (blind \/ cached = F!Unloaded \/ missed \/ F!Pending # DOMAIN saves)
      /\ UNCHANGED missed
  BY DEF F!Send
<1>3. /\ saves \in Seq(SaveCall) /\ Len(saves) \in Nat /\ DOMAIN saves = 1 .. Len(saves)
      /\ acts \in 0 .. MaxEdits /\ Len(saves) <= acts
  BY TypesOfSaves
<1>4. saves' \in Seq(SaveCall) /\ Len(saves') = Len(saves) + 1
  BY <1>1, <1>2, <1>3
<1>5. F!TypeOK' /\ SavesTyped'
  <2>1. acts' \in 0 .. MaxEdits /\ Len(saves') <= acts'
    BY <1>2, <1>3, <1>4
  <2>2. blind' \in BOOLEAN /\ missed' \in BOOLEAN
    BY <1>2 DEF SettingInv, SavesTyped
  <2> QED BY <1>4, <2>1, <2>2, SettingTyped DEF SettingInv, F!TypeOK
<1>6. ASSUME control.guarded, ~blind'
      PROVE  ~blind /\ ~missed /\ saves = <<>> /\ cached # F!Unloaded
  <2>1. F!Pending = {} /\ F!Pending = DOMAIN saves /\ cached # F!Unloaded /\ ~blind /\ ~missed
    BY <1>2, <1>6 DEF F!Free
  <2>2. 1 \notin 1 .. Len(saves)
    BY <1>3, <2>1, Zenon
  <2>3. Len(saves) = 0
    BY <1>3, <2>2
  <2> QED BY <1>3, <2>1, <2>3, EmptySeq
<1>7. ASSUME control.guarded, ~blind'
      PROVE  DOMAIN saves' = {1} /\ saves'[1] = c
  <2>1. saves = <<>>
    BY <1>6, <1>7
  <2>2. saves' = <<c>>
    BY <1>2, <2>1
  <2> QED BY <2>2
<1>8. OneSave'
  <2> SUFFICES ASSUME control'.guarded, ~blind'
               PROVE  Len(saves') <= 1 /\ saves'[1].state = "sent" /\ DOMAIN saves' = {1}
                      /\ cached' # F!Unloaded
    BY <1>7 DEF OneSave
  <2>1. Len(saves) = 0
    BY <1>6, EmptySeq
  <2> QED BY <1>4, <1>6, <1>7, <2>1
<1>9. ListFollowed'
  <2> SUFFICES ASSUME control'.edits = "list", ~blind' PROVE ListFollowed'
    BY DEF ListFollowed
  <2>1. control.guarded
    BY ListsAreGuarded DEF SettingInv, F!TypeOK
  <2>2. ~blind /\ ~missed /\ saves = <<>> /\ cached # F!Unloaded /\ DOMAIN saves' = {1} /\ saves'[1] = c
    BY <1>6, <1>7, <2>1
  <2>3. draft = F!Null /\ cached = server /\ ReadsServer
    <3>1. \A i \in DOMAIN saves : FALSE
      BY <1>3, <2>2, EmptySeq
    <3> QED BY <2>2, <3>1 DEF SettingInv, ListFollowed
  <2>4. wanted' = v /\ draft' = F!Null
    BY <2>2, <2>3
  <2>5. saves' # <<>>
    BY <1>3, <1>4, EmptySeq
  <2> QED BY <2>2, <2>3, <2>4, <2>5 DEF ListFollowed, ReadsServer
<1> QED BY <1>5, <1>8, <1>9 DEF SettingInv

\* What the user does: type, save, choose, arrange and toggle.
LEMMA SettingEdited ==
  ASSUME MaxEdits \in Nat, SettingInv,
         \/ \E v \in F!Values : F!Type(v) \/ F!Choose(v) \/ F!Arrange(v)
         \/ F!Save \/ \E k \in Keys : F!Toggle(k)
  PROVE  SettingInv'
<1>0. F!Shown \in F!Values \/ draft # F!Null
  BY DEF SettingInv, F!TypeOK, F!Shown, F!Default, F!Values, F!parseOrder
<1>a. F!Shown \in F!Values
  BY DEF SettingInv, F!TypeOK, F!Shown, F!Default, F!Values, F!parseOrder
<1>1. ASSUME NEW v \in F!Values, F!Type(v) PROVE SettingInv'
  <2>1. control.edits \in F!Texts /\ draft' = v
        /\ UNCHANGED <<control, server, cached, saves, reading, wanted, blind, missed, acts>>
    BY <1>1 DEF F!Type
  <2>2. control.edits # "list"
    BY <2>1 DEF F!Texts
  <2> QED BY <2>1, <2>2 DEF SettingInv, F!TypeOK, SavesTyped, OneSave, ListFollowed, ReadsServer
<1>2. CASE F!Save
  <2>1. F!Free /\ F!Send(F!Shown) /\ control.edits # "list"
        /\ UNCHANGED <<control, server, cached, draft, reading, wanted>>
    BY <1>2 DEF F!Save, F!Texts
  <2> QED BY <1>a, <2>1, SettingSent DEF SettingInv, F!TypeOK
<1>3. ASSUME NEW v \in F!Values, F!Choose(v) PROVE SettingInv'
  <2>1. F!Free /\ F!Send(v) /\ control.edits # "list"
        /\ UNCHANGED <<control, server, cached, draft, reading, wanted>>
    BY <1>3 DEF F!Choose
  <2> QED BY <2>1, SettingSent DEF SettingInv, F!TypeOK
<1>4. ASSUME NEW v \in F!Values, F!Arrange(v) PROVE SettingInv'
  <2>1. F!Free /\ F!Send(v) /\ control.edits # "list" /\ draft' = v
        /\ UNCHANGED <<control, server, cached, reading, wanted>>
    BY <1>4 DEF F!Arrange
  <2> QED BY <2>1, SettingSent
<1>5. ASSUME NEW k \in Keys, F!Toggle(k) PROVE SettingInv'
  <2>1. F!Free /\ F!Send(F!Flipped(F!Shown, k)) /\ control.edits = "list"
        /\ wanted' = F!Flipped(wanted, k)
        /\ UNCHANGED <<control, server, cached, draft, reading>>
    BY <1>5 DEF F!Toggle
  <2>2. F!Flipped(F!Shown, k) \in F!Values
    BY <1>a DEF F!Flipped, F!Values
  <2>3. ASSUME ~blind, saves = <<>>, cached = server
        PROVE  wanted' = F!Flipped(F!Shown, k)
    <3>1. draft = F!Null /\ server = wanted
      BY <2>1, <2>3 DEF SettingInv, ListFollowed
    <3>2. cached # F!Unloaded
      BY <2>3, MarkersDiffer DEF SettingInv, F!TypeOK
    <3>3. F!Shown = wanted
      BY <2>1, <2>3, <3>1, <3>2 DEF F!Shown
    <3> QED BY <2>1, <3>3
  <2> QED BY <2>1, <2>2, <2>3, SettingSent DEF SettingInv, F!TypeOK
<1> QED BY <1>1, <1>2, <1>3, <1>4, <1>5

\* Leaving and coming back: the writes stay in flight, nobody hears of them.
LEMMA SettingRevisited ==
  ASSUME MaxEdits \in Nat, SettingInv, F!Revisit
  PROVE  SettingInv'
<1>1. /\ saves \in Seq(SaveCall) /\ Len(saves) \in Nat /\ DOMAIN saves = 1 .. Len(saves)
      /\ \A i \in DOMAIN saves : saves[i] \in SaveCall
      /\ acts \in 0 .. MaxEdits /\ Len(saves) <= acts
  BY TypesOfSaves
<1>2. /\ acts < MaxEdits /\ acts' = acts + 1 /\ draft' = F!Null
      /\ saves' = [i \in DOMAIN saves |-> [saves[i] EXCEPT !.told = FALSE]]
      /\ UNCHANGED <<control, server, cached, reading, wanted, blind, missed>>
  BY DEF F!Revisit
<1>3. saves' \in [1 .. Len(saves) -> SaveCall]
  <2>1. \A i \in DOMAIN saves : [saves[i] EXCEPT !.told = FALSE] \in SaveCall
    BY <1>1 DEF SaveCall
  <2> QED BY <1>1, <1>2, <2>1
<1>4. saves' \in Seq(SaveCall) /\ Len(saves') = Len(saves) /\ DOMAIN saves' = DOMAIN saves
  <2>1. saves' \in Seq(SaveCall) /\ Len(saves') = Len(saves)
    BY <1>1, <1>3, AsSequence
  <2> QED BY <1>2, <2>1
<1>5. \A i \in DOMAIN saves : saves'[i].state = saves[i].state /\ saves'[i].sends = saves[i].sends
  BY <1>1, <1>2 DEF SaveCall
<1>6. F!TypeOK' /\ SavesTyped'
  <2>1. acts' \in 0 .. MaxEdits /\ Len(saves') <= acts'
    BY <1>1, <1>2, <1>4
  <2>2. blind' \in BOOLEAN /\ missed' \in BOOLEAN
    BY <1>2 DEF SettingInv, SavesTyped
  <2> QED BY <1>2, <1>4, <2>1, <2>2, SettingTyped DEF SettingInv, F!TypeOK
<1>7. OneSave'
  BY <1>2, <1>4, <1>5 DEF SettingInv, OneSave, ReadsServer
<1>8. saves' = <<>> => saves = <<>>
  BY <1>1, <1>4, EmptySeq
<1>9. ListFollowed'
  BY <1>2, <1>4, <1>5, <1>8 DEF SettingInv, ListFollowed, ReadsServer
<1> QED BY <1>6, <1>7, <1>9 DEF SettingInv


\* A write whose state changes.
LEMMA SaveMoved ==
  ASSUME SettingInv, NEW i \in DOMAIN saves, NEW s \in {"sent", "ok", "error", "reading"},
         saves' = [saves EXCEPT ![i].state = s]
  PROVE  /\ saves' \in Seq(SaveCall) /\ Len(saves') = Len(saves) /\ DOMAIN saves' = DOMAIN saves
         /\ saves'[i].state = s /\ saves'[i].sends = saves[i].sends
         /\ saves' # <<>> /\ saves # <<>>
         /\ control.guarded /\ ~blind => DOMAIN saves = {i}
<1> DEFINE c == [saves[i] EXCEPT !.state = s]
<1>1. /\ saves \in Seq(SaveCall) /\ Len(saves) \in Nat /\ DOMAIN saves = 1 .. Len(saves)
      /\ saves[i] \in SaveCall
  BY TypesOfSaves
<1>2. c \in SaveCall /\ c.state = s /\ c.sends = saves[i].sends
  BY <1>1 DEF SaveCall
<1> HIDE DEF c
<1>3. saves' = [saves EXCEPT ![i] = c]
  BY DEF c
<1>4. /\ saves' \in Seq(SaveCall) /\ Len(saves') = Len(saves) /\ DOMAIN saves' = DOMAIN saves
      /\ saves'[i] = c
  <2>1. saves' \in Seq(SaveCall) /\ Len(saves') = Len(saves)
    BY <1>1, <1>2, <1>3, ExceptSeq
  <2> QED BY <1>1, <1>3, <2>1
<1>5. saves' # <<>> /\ saves # <<>>
  BY <1>1, <1>4, EmptySeq
<1>6. ASSUME control.guarded, ~blind PROVE DOMAIN saves = {i}
  <2>1. Len(saves) <= 1
    BY <1>6 DEF SettingInv, OneSave
  <2> QED BY <1>1, <2>1
<1> QED BY <1>2, <1>4, <1>5, <1>6

\* A write moves on: it is stored or refused, or the setting is read again.
LEMMA SettingMoved ==
  ASSUME MaxEdits \in Nat, SettingInv, NEW i \in DOMAIN saves, F!Store(i) \/ F!Invalidate(i)
  PROVE  SettingInv'
<1>1. /\ saves \in Seq(SaveCall) /\ Len(saves) \in Nat /\ saves[i] \in SaveCall
      /\ saves[i].sends \in F!Values
      /\ acts \in 0 .. MaxEdits /\ Len(saves) <= acts
  BY TypesOfSaves DEF SaveCall
<1>2. UNCHANGED <<control, cached, draft, blind, acts>>
  BY DEF F!Store, F!Invalidate
<1>t. ASSUME saves' \in Seq(SaveCall), Len(saves') = Len(saves), server' \in F!Values, missed' \in BOOLEAN,
             reading' \in {F!NoRead, F!Asked} \union [state : {"answered"}, value : F!Values]
      PROVE  F!TypeOK' /\ SavesTyped'
  <2>1. acts' \in 0 .. MaxEdits /\ Len(saves') <= acts'
    BY <1>1, <1>2, <1>t
  <2>2. blind' \in BOOLEAN /\ missed' \in BOOLEAN
    BY <1>2, <1>t DEF SettingInv, SavesTyped
  <2> QED BY <1>2, <1>t, <2>1, <2>2, SettingTyped DEF SettingInv, F!TypeOK
<1>l. control.edits = "list" => control.guarded
  BY ListsAreGuarded DEF SettingInv, F!TypeOK
<1>3. ASSUME saves[i].state = "sent", server' = saves[i].sends,
             saves' = [saves EXCEPT ![i].state = "ok"], UNCHANGED <<reading, wanted, missed>>
      PROVE  SettingInv'
  <2>1. /\ saves' \in Seq(SaveCall) /\ Len(saves') = Len(saves) /\ DOMAIN saves' = DOMAIN saves
        /\ saves'[i].state = "ok" /\ saves'[i].sends = saves[i].sends
        /\ saves' # <<>> /\ saves # <<>>
        /\ control.guarded /\ ~blind => DOMAIN saves = {i}
    BY <1>3, SaveMoved, Zenon
  <2>2. F!TypeOK' /\ SavesTyped'
    BY <1>1, <1>3, <1>t, <2>1 DEF SettingInv, F!TypeOK, SavesTyped
  <2>3. OneSave'
    BY <1>2, <1>3, <2>1 DEF SettingInv, OneSave
  <2>4. ListFollowed'
    BY <1>2, <1>3, <1>l, <2>1 DEF SettingInv, ListFollowed
  <2> QED BY <2>2, <2>3, <2>4 DEF SettingInv
<1>4. ASSUME saves[i].state = "sent", UNCHANGED reading,
             saves' = [saves EXCEPT ![i].state = "error"],
             (server' = saves[i].sends /\ missed') \/ UNCHANGED <<server, missed>>,
             missed' \in BOOLEAN, control.edits = "list" => wanted' = server'
      PROVE  SettingInv'
  <2>1. /\ saves' \in Seq(SaveCall) /\ Len(saves') = Len(saves) /\ DOMAIN saves' = DOMAIN saves
        /\ saves'[i].state = "error" /\ saves'[i].sends = saves[i].sends
        /\ saves' # <<>> /\ saves # <<>>
        /\ control.guarded /\ ~blind => DOMAIN saves = {i}
    BY <1>4, SaveMoved, Zenon
  <2>2. F!TypeOK' /\ SavesTyped'
    BY <1>1, <1>4, <1>t, <2>1 DEF SettingInv, F!TypeOK
  <2>3. OneSave'
    BY <1>2, <1>4, <2>1 DEF SettingInv, OneSave
  <2>4. ListFollowed'
    BY <1>2, <1>4, <1>l, <2>1 DEF SettingInv, ListFollowed, ReadsServer
  <2> QED BY <2>2, <2>3, <2>4 DEF SettingInv
<1>5. CASE F!Invalidate(i)
  <2>1. /\ saves[i].state = "ok" /\ saves' = [saves EXCEPT ![i].state = "reading"]
        /\ reading' = IF cached = F!Unloaded /\ reading # F!NoRead THEN reading ELSE F!Asked
        /\ UNCHANGED <<server, wanted, missed>>
    BY <1>5 DEF F!Invalidate
  <2>2. /\ saves' \in Seq(SaveCall) /\ Len(saves') = Len(saves) /\ DOMAIN saves' = DOMAIN saves
        /\ saves'[i].state = "reading" /\ saves'[i].sends = saves[i].sends
        /\ saves' # <<>> /\ saves # <<>>
        /\ control.guarded /\ ~blind => DOMAIN saves = {i}
    BY <2>1, SaveMoved, Zenon
  <2>3. F!TypeOK' /\ SavesTyped'
    BY <1>1, <1>t, <2>1, <2>2 DEF SettingInv, F!TypeOK, SavesTyped
  <2>4. F!Asked \notin [state : {"answered"}, value : F!Values] /\ F!Asked # F!NoRead
    BY DEF F!Asked, F!NoRead
  <2>5. OneSave'
    <3> SUFFICES ASSUME control.guarded, ~blind PROVE OneSave'
      BY <1>2 DEF OneSave
    <3>1. Len(saves) <= 1 /\ cached # F!Unloaded /\ server = saves[i].sends
      BY <2>1 DEF SettingInv, OneSave
    <3>2. reading' = F!Asked
      BY <2>1, <3>1
    <3> QED BY <1>2, <2>1, <2>2, <2>4, <3>1, <3>2 DEF OneSave, ReadsServer
  <2>6. ListFollowed'
    BY <1>2, <1>l, <2>1, <2>2 DEF SettingInv, ListFollowed
  <2> QED BY <2>3, <2>5, <2>6 DEF SettingInv
<1>6. CASE F!Store(i)
  <2>1. /\ saves[i].state = "sent" /\ UNCHANGED reading
        /\ \/ /\ server' = saves[i].sends /\ saves' = [saves EXCEPT ![i].state = "ok"]
              /\ UNCHANGED <<wanted, missed>>
           \/ /\ saves' = [saves EXCEPT ![i].state = "error"]
              /\ (server' = saves[i].sends /\ missed' = TRUE) \/ UNCHANGED <<server, missed>>
              /\ wanted' = IF control.edits = "list" THEN server' ELSE {}
    BY <1>6 DEF F!Store
  <2>2. missed \in BOOLEAN
    BY DEF SettingInv, SavesTyped
  <2>3. CASE /\ server' = saves[i].sends /\ saves' = [saves EXCEPT ![i].state = "ok"]
             /\ UNCHANGED <<wanted, missed>>
    BY <1>3, <2>1, <2>3
  <2>4. CASE /\ saves' = [saves EXCEPT ![i].state = "error"]
             /\ (server' = saves[i].sends /\ missed' = TRUE) \/ UNCHANGED <<server, missed>>
             /\ wanted' = IF control.edits = "list" THEN server' ELSE {}
    <3>1. missed' \in BOOLEAN
      BY <2>2, <2>4
    <3>2. control.edits = "list" => wanted' = server'
      BY <2>4
    <3> QED BY <1>4, <2>1, <2>4, <3>1, <3>2
  <2> QED BY <2>1, <2>3, <2>4
<1> QED BY <1>5, <1>6

\* The setting is read, by this tab, or written by another.
LEMMA SettingRead ==
  ASSUME MaxEdits \in Nat, SettingInv,
         \/ F!BeginRead \/ F!AnswerRead \/ F!DeliverRead \/ F!FailRead
         \/ \E v \in F!Values : F!Elsewhere(v)
  PROVE  SettingInv'
<1>1. CASE F!AnswerRead
  <2>1. /\ reading = F!Asked /\ reading' = [state |-> "answered", value |-> server]
        /\ UNCHANGED <<control, server, cached, draft, saves, wanted, blind, missed, acts>>
    BY <1>1 DEF F!AnswerRead
  <2>2. reading'.value = server /\ reading' # F!NoRead
        /\ reading' \in [state : {"answered"}, value : F!Values]
    BY <2>1 DEF F!NoRead, SettingInv, F!TypeOK
  <2> QED BY <2>1, <2>2 DEF SettingInv, F!TypeOK, SavesTyped, OneSave, ListFollowed, ReadsServer
<1>2. CASE F!DeliverRead
  <2>1. /\ reading.state = "answered" /\ cached' = reading.value /\ reading' = F!NoRead
        /\ missed' = (missed /\ reading.value # server)
        /\ UNCHANGED <<control, server, draft, saves, wanted, blind, acts>>
    BY <1>2 DEF F!DeliverRead
  <2>2. reading \in [state : {"answered"}, value : F!Values] /\ cached' \in F!Values
    BY <2>1 DEF SettingInv, F!TypeOK, F!NoRead, F!Asked
  <2>3. reading' \notin [state : {"answered"}, value : F!Values] /\ cached' # F!Unloaded
    BY <2>1, <2>2, MarkersDiffer DEF F!NoRead
  <2> QED BY <2>1, <2>2, <2>3 DEF SettingInv, F!TypeOK, SavesTyped, OneSave, ListFollowed, ReadsServer
<1>3. ASSUME NEW v \in F!Values, F!Elsewhere(v) PROVE SettingInv'
  <2>1. /\ acts < MaxEdits /\ acts' = acts + 1 /\ server' = v /\ blind' = TRUE
        /\ UNCHANGED <<control, cached, draft, saves, reading, wanted, missed>>
    BY <1>3 DEF F!Elsewhere
  <2>2. saves \in Seq(SaveCall) /\ Len(saves) \in Nat /\ acts \in 0 .. MaxEdits /\ Len(saves) <= acts
    BY TypesOfSaves
  <2>3. acts' \in 0 .. MaxEdits /\ Len(saves') <= acts'
    BY <2>1, <2>2
  <2>4. F!TypeOK' /\ SavesTyped'
    BY <2>1, <2>2, <2>3, SettingTyped DEF SettingInv, F!TypeOK
  <2> QED BY <2>1, <2>4 DEF SettingInv, OneSave, ListFollowed
<1>4. CASE F!BeginRead
  <2>1. reading = F!NoRead /\ reading' = F!Asked
        /\ UNCHANGED <<control, server, cached, draft, saves, wanted, blind, missed, acts>>
    BY <1>4 DEF F!BeginRead
  <2>2. reading' \notin [state : {"answered"}, value : F!Values] /\ reading' # F!NoRead
    BY <2>1 DEF F!Asked, F!NoRead
  <2> QED BY <2>1, <2>2 DEF SettingInv, F!TypeOK, SavesTyped, OneSave, ListFollowed, ReadsServer
<1>5. CASE F!FailRead
  <2>1. /\ reading' = F!NoRead
        /\ missed' = (missed \/ \E i \in DOMAIN saves : saves[i].state = "reading")
        /\ UNCHANGED <<control, server, cached, draft, saves, wanted, blind, acts>>
    BY <1>5 DEF F!FailRead
  <2>2. reading' \notin [state : {"answered"}, value : F!Values] /\ missed' \in BOOLEAN
    BY <2>1 DEF F!NoRead, SettingInv, SavesTyped
  <2> QED BY <2>1, <2>2 DEF SettingInv, F!TypeOK, SavesTyped, OneSave, ListFollowed, ReadsServer
<1> QED BY <1>1, <1>2, <1>3, <1>4, <1>5

\* A write is over: the control hears of it, if it is still there.
LEMMA SettingOver ==
  ASSUME MaxEdits \in Nat, SettingInv, NEW i \in DOMAIN saves, F!Succeed(i) \/ F!Fail(i)
  PROVE  SettingInv'
<1>1. /\ saves \in Seq(SaveCall) /\ Len(saves) \in Nat /\ DOMAIN saves = 1 .. Len(saves)
      /\ acts \in 0 .. MaxEdits /\ Len(saves) <= acts
  BY TypesOfSaves
<1>2. /\ UNCHANGED <<control, server, cached, reading, wanted, blind, missed, acts>>
      /\ draft' \in {draft, F!Null} /\ saves' = F!Without(i)
      /\ saves[i].state = "error" \/ (saves[i].state = "reading" /\ reading = F!NoRead)
  BY DEF F!Succeed, F!Fail, F!ReadAgain
<1>3. saves' \in Seq(SaveCall) /\ Len(saves') = Len(saves) - 1
  BY <1>1, <1>2, OneLess DEF F!Without
<1>4. F!TypeOK' /\ SavesTyped'
  <2>1. acts' \in 0 .. MaxEdits /\ Len(saves') <= acts'
    BY <1>1, <1>2, <1>3
  <2>2. blind' \in BOOLEAN /\ missed' \in BOOLEAN
    BY <1>2 DEF SettingInv, SavesTyped
  <2>3. draft' \in F!Values \union {F!Null}
    BY <1>2 DEF SettingInv, F!TypeOK
  <2> QED BY <1>2, <1>3, <2>1, <2>2, <2>3, SettingTyped DEF SettingInv, F!TypeOK
<1>5. ASSUME control.guarded, ~blind PROVE saves' = <<>> /\ DOMAIN saves' = {} /\ DOMAIN saves = {i}
  <2>1. Len(saves) <= 1
    BY <1>5 DEF SettingInv, OneSave
  <2>2. Len(saves') = 0 /\ i = 1 /\ Len(saves) = 1
    BY <1>1, <1>3, <2>1
  <2>3. saves' = <<>>
    BY <1>3, <2>2, EmptySeq
  <2> QED BY <1>1, <2>2, <2>3
<1>6. OneSave'
  <2> SUFFICES ASSUME control.guarded, ~blind PROVE OneSave'
    BY <1>2 DEF OneSave
  <2>1. Len(saves') <= 1
    BY <1>5
  <2> QED BY <1>5, <2>1 DEF OneSave
<1>7. ListFollowed'
  <2> SUFFICES ASSUME control.edits = "list", ~blind PROVE ListFollowed'
    BY <1>2 DEF ListFollowed
  <2>1. control.guarded
    BY ListsAreGuarded DEF SettingInv, F!TypeOK
  <2>2. /\ draft' = F!Null /\ server = wanted
        /\ ~missed => cached \in {F!Unloaded, server} /\ ReadsServer
    <3>1. draft = F!Null /\ DOMAIN saves = {i}
      BY <1>5, <2>1 DEF SettingInv, ListFollowed
    <3>2. CASE saves[i].state = "error"
      BY <1>2, <3>1, <3>2 DEF SettingInv, ListFollowed
    <3>3. CASE saves[i].state = "reading" /\ reading = F!NoRead
      <4>1. /\ ~missed => ReadsServer /\ cached = server
            /\ server = saves[i].sends /\ saves[i].sends = wanted
        BY <2>1, <3>1, <3>3 DEF SettingInv, OneSave, ListFollowed
      <4> QED BY <1>2, <3>1, <4>1
    <3> QED BY <1>2, <3>2, <3>3
  <2> QED BY <1>2, <1>5, <2>1, <2>2 DEF ListFollowed, ReadsServer
<1> QED BY <1>4, <1>6, <1>7 DEF SettingInv

\* A step of the part keeps what it needs.
LEMMA SettingSteps ==
  ASSUME MaxEdits \in Nat, SettingInv, [F!Next]_(F!vars)
  PROVE  SettingInv'
<1>1. CASE UNCHANGED F!vars
  BY <1>1 DEF F!vars, SettingInv, F!TypeOK, SavesTyped, OneSave, ListFollowed, ReadsServer
<1>2. CASE F!Next
  <2>1. CASE \/ \E v \in F!Values : F!Type(v) \/ F!Choose(v) \/ F!Arrange(v)
             \/ F!Save \/ \E k \in Keys : F!Toggle(k)
    BY <2>1, SettingEdited
  <2>2. CASE \/ F!BeginRead \/ F!AnswerRead \/ F!DeliverRead \/ F!FailRead
             \/ \E v \in F!Values : F!Elsewhere(v)
    BY <2>2, SettingRead
  <2>3. CASE F!Revisit
    BY <2>3, SettingRevisited
  <2>4. CASE \E i \in DOMAIN saves : F!Store(i) \/ F!Invalidate(i)
    BY <2>4, SettingMoved
  <2>5. CASE \E i \in DOMAIN saves : F!Succeed(i) \/ F!Fail(i)
    BY <2>5, SettingOver
  <2> QED BY <1>2, <2>1, <2>2, <2>3, <2>4, <2>5 DEF F!Next
<1> QED BY <1>1, <1>2

\* Before anything is edited the list is as it should be.
LEMMA SettingBegins ==
  ASSUME MaxEdits \in Nat, F!Init
  PROVE  SettingInv
<1>1. saves = <<>> /\ saves \in Seq(SaveCall) /\ Len(saves) = 0 /\ DOMAIN saves = {}
  BY EmptySeq DEF F!Init
<1>2. acts = 0 /\ 0 \in 0 .. MaxEdits
  BY DEF F!Init
<1>3. F!TypeOK
  <2>1. Len(saves) <= MaxEdits
    BY <1>1
  <2>2. server \in F!Values
    BY DEF F!Init, F!Contents, F!Values
  <2> QED BY <1>1, <1>2, <2>1, <2>2 DEF F!Init, F!TypeOK
<1>4. SavesTyped
  <2>1. Len(saves) <= acts
    BY <1>1, <1>2
  <2>2. blind \in BOOLEAN /\ missed \in BOOLEAN
    BY DEF F!Init
  <2> QED BY <1>1, <2>1, <2>2 DEF SavesTyped
<1>5. OneSave
  <2>1. Len(saves) <= 1
    BY <1>1
  <2> QED BY <1>1, <2>1 DEF OneSave
<1>6. ListFollowed
  <2>1. F!Asked \notin [state : {"answered"}, value : F!Values]
    BY DEF F!Asked
  <2> QED BY <1>1, <2>1 DEF F!Init, ListFollowed, ReadsServer
<1> QED BY <1>3, <1>4, <1>5, <1>6 DEF SettingInv

\* The inductive invariant of the settings controls.
THEOREM SettingInvariance == Spec => [](part = "settings" => SettingInv)
<1>1. Init => (part = "settings" => SettingInv)
  BY OnePartBegins, SettingBegins, BoundsAssumption
<1>2. (part = "settings" => SettingInv) /\ [Next]_vars => (part = "settings" => SettingInv)'
  BY OnePartSteps, SettingSteps, BoundsAssumption
<1> QED BY <1>1, <1>2, PTL DEF Spec

\* Presets switched one after the other all take effect (PresetsCard.toggle, off while a
\* write is pending), unless a switch was used blindly: on a list not read since it was
\* last written, because that read failed, its answer was lost or another tab wrote it.
THEOREM TogglesTakeEffect == Spec => []TogglesKept
<1>1. (part = "settings" => SettingInv) => TogglesKept
  BY DEF SettingInv, ListFollowed, TogglesKept, F!TogglesKept
<1> QED BY <1>1, SettingInvariance, PTL

\* The draft that a save drops gives way to the value it saved, which has been read again
\* by then (useSetSetting.onSuccess returns the invalidation), unless that read failed or
\* the draft was saved blindly.
THEOREM DraftsGiveWay == Spec => NoFlicker
<1> DEFINE Inv == part = "settings" => SettingInv
           Shows == part = "settings" =>
                       \A i \in DOMAIN v5 : F!DraftDropped(i) => v3 = v5[i].sends
<1>1. Inv /\ [Next]_vars => [Shows]_vars
  <2> SUFFICES ASSUME part = "settings", SettingInv, NEW i \in DOMAIN saves, F!DraftDropped(i)
               PROVE  cached = saves[i].sends
    OBVIOUS
  <2>1. saves[i].state = "reading" /\ reading = F!NoRead /\ control.guarded /\ ~blind /\ ~missed
    BY DEF F!DraftDropped, F!Succeed, F!ReadAgain
  <2> QED BY <2>1 DEF SettingInv, OneSave
<1>2. Spec => []Inv
  BY SettingInvariance
<1> QED BY <1>1, <1>2, PTL DEF Spec, NoFlicker

-----------------------------------------------------------------------------
(* The uploads                                                              *)

LOCAL status == v1
LOCAL fields == v2
LOCAL accepted == v3
LOCAL form == v4
LOCAL seen == v5
LOCAL calls == v6
LOCAL visits == v7
LOCAL readied == v8
LOCAL raced == v9
USE DEF status, fields, accepted, form, seen, calls, visits, readied, raced

JobStatus == {"none", "draft", "ready", "uploading", "uploaded", "failed"}
Progresses == {"unsent", "sent", "preparing", "preparing again", "checked", "sending",
               "taken", "added", "ok", "error"}
UploadCall == [does : {"nothing", "create", "prepare", "patch", "confirm"}, at : Progresses,
               told : BOOLEAN]
Choice == [disk : Disks \union {U!NoDisk}, file : Disks \union {U!NoDisk}]

\* The requests that are at the tracker, and whether one more may come to it.
Sending == {a \in U!Acts : calls[a].at = "sending"}
Waiting == status = "ready" \/ \E a \in U!Acts : calls[a].at = "checked"
Next1 == IF Waiting THEN 1 ELSE 0

\* What was taken, what is being taken and what may be taken next each had a preparation.
EachPrepared == ~raced => accepted + Cardinality(Sending) + Next1 <= readied

UploadInv == U!TypeOK /\ EachPrepared

-----------------------------------------------------------------------------
\* There are finitely many requests at the tracker.
LEMMA SendingCount ==
  ASSUME MaxRequests \in Nat, NEW some \in SUBSET U!Acts
  PROVE  IsFiniteSet(some) /\ Cardinality(some) \in Nat
<1>1. IsFiniteSet(U!Acts)
  BY FS_Interval DEF U!Acts
<1> QED BY <1>1, FS_Subset, FS_CardinalityType

\* The types, by their names.
LEMMA UploadTyped ==
  U!TypeOK <=> /\ calls \in [U!Acts -> UploadCall]
               /\ status \in JobStatus /\ fields \in BOOLEAN /\ raced \in BOOLEAN
               /\ accepted \in Nat /\ readied \in Nat /\ visits \in 0 .. MaxVisits
               /\ form \in Choice /\ seen \in JobStatus
BY DEF U!TypeOK, UploadCall, Progresses, JobStatus, Choice

\* A step that brings no request to or from the tracker, and lets none come to it unless
\* a preparation ends.
LEMMA UploadKept ==
  ASSUME MaxRequests \in Nat, UploadInv, U!TypeOK',
         accepted' = accepted, raced' = raced, Sending' = Sending,
         readied' = readied + 1 \/ (readied' = readied /\ (Waiting' => Waiting))
  PROVE  UploadInv'
<1>1. Cardinality(Sending) \in Nat /\ accepted \in Nat /\ readied \in Nat
  BY SendingCount, UploadTyped DEF UploadInv, Sending
<1>2. Next1 \in {0, 1} /\ Next1' \in {0, 1} /\ (Waiting <=> Next1 = 1) /\ (Waiting' <=> Next1' = 1)
  BY DEF Next1
<1>3. EachPrepared'
  <2> SUFFICES ASSUME ~raced PROVE accepted + Cardinality(Sending) + Next1' <= readied'
    BY DEF EachPrepared
  <2>1. accepted + Cardinality(Sending) + Next1 <= readied
    BY DEF UploadInv, EachPrepared
  <2> QED BY <1>1, <1>2, <2>1
<1> QED BY <1>3 DEF UploadInv

\* One request goes on, neither to the tracker nor from it.
LEMMA CallGoesOn ==
  ASSUME U!TypeOK, NEW a \in U!Acts, NEW s \in Progresses, U!Answer(a, s)
  PROVE  /\ calls' \in [U!Acts -> UploadCall]
         /\ calls'[a].at = s
         /\ \A b \in U!Acts : b # a => calls'[b] = calls[b]
<1>1. calls \in [U!Acts -> UploadCall]
  BY UploadTyped
<1>2. [calls[a] EXCEPT !.at = s] \in UploadCall /\ [calls[a] EXCEPT !.at = s].at = s
  BY <1>1 DEF UploadCall
<1>3. calls' = [calls EXCEPT ![a] = [calls[a] EXCEPT !.at = s]]
  BY <1>1 DEF U!Answer
<1> HIDE DEF UploadCall
<1> QED BY <1>1, <1>2, <1>3

\* A request is sent from one of the tabs.
LEMMA UploadAsked ==
  ASSUME MaxRequests \in Nat, UploadInv, NEW here \in BOOLEAN,
         NEW does \in {"create", "prepare", "patch", "confirm"}, U!RequestOf(does, here)
  PROVE  UploadInv'
<1> DEFINE c == [does |-> does, at |-> "sent", told |-> here]
<1>1. PICK a \in U!Acts :
         /\ calls[a] = U!Unused /\ calls' = [calls EXCEPT ![a] = c]
         /\ UNCHANGED <<status, fields, accepted, form, seen, visits, readied, raced>>
  BY DEF U!RequestOf
<1>2. c \in UploadCall /\ c.at = "sent"
  BY DEF UploadCall, Progresses
<1>3. calls \in [U!Acts -> UploadCall] /\ U!TypeOK
  BY UploadTyped DEF UploadInv
<1> HIDE DEF c
<1>4. calls' \in [U!Acts -> UploadCall] /\ calls'[a].at = "sent" /\ calls[a].at = "unsent"
      /\ \A b \in U!Acts : b # a => calls'[b] = calls[b]
  BY <1>1, <1>2, <1>3 DEF U!Unused
<1>5. U!TypeOK'
  BY <1>1, <1>3, <1>4, UploadTyped DEF U!TypeOK, UploadCall, Progresses
<1>6. Sending' = Sending /\ (Waiting' => Waiting)
  BY <1>1, <1>4 DEF Sending, Waiting
<1> QED BY <1>1, <1>5, <1>6, UploadKept

\* The page sends requests, reads answers, is left and opened again, and so is another.
LEMMA UploadPage ==
  ASSUME MaxRequests \in Nat, MaxVisits \in Nat, UploadInv,
         \/ U!CreateUploadForm \/ U!DraftStep \/ U!ReadyStep \/ U!ConfirmAndPublish
         \/ U!OtherTab \/ U!UploadQueuePage \/ \E a \in U!Acts : U!Answered(a)
  PROVE  UploadInv'
<1>0. /\ calls \in [U!Acts -> UploadCall]
      /\ status \in JobStatus /\ fields \in BOOLEAN /\ raced \in BOOLEAN
      /\ accepted \in Nat /\ readied \in Nat /\ visits \in 0 .. MaxVisits
      /\ form \in Choice /\ seen \in JobStatus
  BY UploadTyped DEF UploadInv
\* What is left when a step keeps the server and the stage of every request but one that
\* is over.
<1>k. ASSUME calls' \in [U!Acts -> UploadCall], visits' \in 0 .. MaxVisits,
             form' \in Choice, seen' \in JobStatus,
             UNCHANGED <<status, fields, accepted, readied, raced>>,
             \A a \in U!Acts : calls'[a].at \in {calls[a].at, "unsent"},
             \A a \in U!Acts : calls[a].at \in {"sending", "checked"} => calls'[a].at = calls[a].at
      PROVE  UploadInv'
  <2>1. U!TypeOK'
    BY <1>0, <1>k DEF U!TypeOK, UploadCall, Progresses, JobStatus, Choice
  <2>2. Sending' = Sending /\ (Waiting' => Waiting)
    BY <1>k DEF Sending, Waiting
  <2> QED BY <1>k, <2>1, <2>2, UploadKept
<1>1. ASSUME NEW does \in {"create", "prepare", "patch", "confirm"}, U!Request(does) PROVE UploadInv'
  BY <1>1, UploadAsked DEF U!Request
<1>2. CASE U!CreateUploadForm
  <2>1. CASE U!Request("create")
    BY <2>1, <1>1
  <2>2. CASE ~U!Request("create")
    <3>1. UNCHANGED <<status, fields, accepted, seen, calls, visits, readied, raced>>
          /\ \/ \E d \in Disks : form' = [form EXCEPT !.disk = d]
             \/ form' = [form EXCEPT !.file = form.disk]
      BY <1>2, <2>2 DEF U!CreateUploadForm
    <3>2. form' \in Choice
      BY <1>0, <3>1 DEF Choice
    <3> QED BY <1>0, <1>k, <3>1, <3>2
  <2> QED BY <2>1, <2>2
<1>3. CASE U!DraftStep \/ U!ReadyStep \/ U!ConfirmAndPublish
  BY <1>1, <1>3 DEF U!DraftStep, U!ReadyStep, U!ConfirmAndPublish
<1>4. CASE U!OtherTab
  BY <1>4, UploadAsked DEF U!OtherTab
<1>5. CASE U!UploadQueuePage
  <2>1. /\ visits < MaxVisits /\ visits' = visits + 1 /\ seen' = status /\ form' = U!Empty
        /\ calls' = [a \in U!Acts |-> [calls[a] EXCEPT !.told = FALSE]]
        /\ UNCHANGED <<status, fields, accepted, readied, raced>>
    BY <1>5 DEF U!UploadQueuePage
  <2>2. \A a \in U!Acts : [calls[a] EXCEPT !.told = FALSE] \in UploadCall
                          /\ [calls[a] EXCEPT !.told = FALSE].at = calls[a].at
    BY <1>0 DEF UploadCall
  <2>3. calls' \in [U!Acts -> UploadCall] /\ \A a \in U!Acts : calls'[a].at = calls[a].at
    BY <2>1, <2>2
  <2>4. visits' \in 0 .. MaxVisits /\ seen' \in JobStatus /\ form' \in Choice
    BY <1>0, <2>1 DEF U!Empty, Choice
  <2> QED BY <1>k, <2>1, <2>3, <2>4
<1>6. ASSUME NEW a \in U!Acts, U!Answered(a) PROVE UploadInv'
  <2>1. /\ calls[a].at \in {"ok", "error"} /\ calls' = [calls EXCEPT ![a] = U!Unused]
        /\ seen' \in {seen, status} /\ form' \in {form, U!Empty}
        /\ UNCHANGED <<status, fields, accepted, visits, readied, raced>>
    BY <1>6 DEF U!Answered
  <2>2. U!Unused \in UploadCall /\ U!Unused.at = "unsent"
    BY DEF U!Unused, UploadCall, Progresses
  <2>3. calls' \in [U!Acts -> UploadCall] /\ calls'[a].at = "unsent"
        /\ \A b \in U!Acts : b # a => calls'[b] = calls[b]
    BY <1>0, <2>1, <2>2
  <2>4. seen' \in JobStatus /\ form' \in Choice
    BY <1>0, <2>1 DEF U!Empty, Choice
  <2>5. \A b \in U!Acts : calls'[b].at \in {calls[b].at, "unsent"}
    BY <2>3
  <2>6. \A b \in U!Acts : calls[b].at \in {"sending", "checked"} => calls'[b].at = calls[b].at
    BY <2>1, <2>3
  <2> QED BY <1>0, <1>k, <2>1, <2>3, <2>4, <2>5, <2>6
<1> QED BY <1>2, <1>3, <1>4, <1>5, <1>6

\* The server serves a request that does not reach the tracker, or is past it.
LEMMA UploadServed ==
  ASSUME MaxRequests \in Nat, MaxVisits \in Nat, UploadInv, NEW a \in U!Acts,
         \/ U!create_upload(a) \/ U!prepare_upload(a) \/ U!prepare(a) \/ U!patch_upload(a)
         \/ U!confirm_upload(a) \/ U!add_torrent(a)
  PROVE  UploadInv'
<1>0. /\ calls \in [U!Acts -> UploadCall]
      /\ status \in JobStatus /\ fields \in BOOLEAN /\ raced \in BOOLEAN
      /\ accepted \in Nat /\ readied \in Nat /\ visits \in 0 .. MaxVisits
      /\ form \in Choice /\ seen \in JobStatus /\ U!TypeOK
  BY UploadTyped DEF UploadInv
<1>r. readied \in Nat /\ readied + 1 \in Nat
  BY <1>0
<1>1. PICK s \in {"ok", "error", "checked", "preparing", "preparing again"} : U!Answer(a, s)
  BY DEF U!create_upload, U!prepare_upload, U!prepare, U!patch_upload, U!confirm_upload, U!add_torrent
<1>2. /\ calls' \in [U!Acts -> UploadCall] /\ calls'[a].at = s
      /\ \A b \in U!Acts : b # a => calls'[b] = calls[b]
  BY <1>0, <1>1, CallGoesOn DEF Progresses
<1>3. calls[a].at \in {"sent", "preparing", "preparing again", "added"}
  BY DEF U!create_upload, U!prepare_upload, U!prepare, U!patch_upload, U!confirm_upload, U!add_torrent,
     U!Sent
<1>4. UNCHANGED <<accepted, form, seen, visits, raced>>
  BY DEF U!create_upload, U!prepare_upload, U!prepare, U!patch_upload, U!confirm_upload, U!add_torrent
<1>5. Sending' = Sending
  BY <1>2, <1>3 DEF Sending
<1>6. ASSUME s # "checked" PROVE \A b \in U!Acts : calls'[b].at = "checked" => calls[b].at = "checked"
  BY <1>2, <1>6
<1>b. ASSUME NEW u \in {"ok", "error", "preparing", "preparing again"}, U!Answer(a, u)
      PROVE  s # "checked"
  BY <1>0, <1>2, <1>b, CallGoesOn DEF Progresses
<1>t. ASSUME status' \in JobStatus, fields' \in BOOLEAN, readied' \in Nat PROVE U!TypeOK'
  BY <1>0, <1>2, <1>4, <1>t DEF U!TypeOK, UploadCall, Progresses, JobStatus, Choice
<1>7. CASE U!create_upload(a) \/ U!prepare_upload(a) \/ U!patch_upload(a) \/ U!add_torrent(a)
  <2>1. s # "checked"
    BY <1>7, <1>b DEF U!create_upload, U!prepare_upload, U!patch_upload, U!add_torrent
  <2>2. /\ fields' \in BOOLEAN /\ readied' = readied
        /\ status' = status \/ status' = "draft"
    BY <1>0, <1>7 DEF U!create_upload, U!prepare_upload, U!patch_upload, U!add_torrent
  <2>3. Waiting' => Waiting
    BY <1>6, <2>1, <2>2 DEF Waiting
  <2>4. U!TypeOK'
    BY <1>0, <1>t, <2>2 DEF JobStatus
  <2> QED BY <1>4, <1>5, <2>2, <2>3, <2>4, UploadKept
<1>8. CASE U!prepare(a)
  <2>1. s # "checked"
    BY <1>8, <1>b DEF U!prepare
  <2>2. /\ fields' \in BOOLEAN
        /\ (status' = "ready" /\ readied' = readied + 1) \/ (status' = status /\ readied' = readied)
    BY <1>0, <1>8 DEF U!prepare
  <2>3. readied' = readied + 1 \/ (readied' = readied /\ (Waiting' => Waiting))
    BY <1>6, <2>1, <2>2 DEF Waiting
  <2>4. U!TypeOK'
    <3>1. status' \in JobStatus
      BY <1>0, <2>2 DEF JobStatus
    <3>2. readied' \in Nat
      BY <1>r, <2>2
    <3> QED BY <1>t, <2>2, <3>1, <3>2
  <2> QED BY <1>4, <1>5, <2>3, <2>4, UploadKept
<1>9. CASE U!confirm_upload(a)
  <2>1. UNCHANGED <<status, fields, readied>> /\ (status = "ready" \/ U!Answer(a, "error"))
    BY <1>9 DEF U!confirm_upload
  <2>2. status = "ready" \/ s # "checked"
    BY <1>b, <2>1
  <2>3. Waiting' => Waiting
    BY <1>6, <2>1, <2>2 DEF Waiting
  <2>4. U!TypeOK'
    BY <1>0, <1>t, <2>1
  <2> QED BY <1>4, <1>5, <2>1, <2>3, <2>4, UploadKept
<1> QED BY <1>7, <1>8, <1>9

\* A request goes to the tracker, and uses up what the last preparation allowed.
LEMMA UploadSubmitted ==
  ASSUME MaxRequests \in Nat, UploadInv, NEW a \in U!Acts, U!submit(a)
  PROVE  UploadInv'
<1>0. /\ calls \in [U!Acts -> UploadCall]
      /\ status \in JobStatus /\ fields \in BOOLEAN /\ raced \in BOOLEAN
      /\ accepted \in Nat /\ readied \in Nat /\ visits \in 0 .. MaxVisits
      /\ form \in Choice /\ seen \in JobStatus /\ U!TypeOK
  BY UploadTyped DEF UploadInv
<1>1. /\ calls[a].at = "checked" /\ U!Answer(a, "sending") /\ status' = "uploading"
      /\ raced' = (raced \/ \E b \in U!Acts \ {a} : calls[b].at = "checked")
      /\ UNCHANGED <<fields, accepted, form, seen, visits, readied>>
  BY DEF U!submit
<1>2. /\ calls' \in [U!Acts -> UploadCall] /\ calls'[a].at = "sending"
      /\ \A b \in U!Acts : b # a => calls'[b] = calls[b]
  BY <1>0, <1>1, CallGoesOn DEF Progresses
<1>3. U!TypeOK'
  BY <1>0, <1>1, <1>2 DEF U!TypeOK, UploadCall, Progresses, JobStatus, Choice
<1>4. EachPrepared'
  <2> SUFFICES ASSUME ~raced' PROVE accepted' + Cardinality(Sending') + Next1' <= readied'
    BY DEF EachPrepared
  <2>1. Sending' = Sending \union {a} /\ a \notin Sending
    BY <1>1, <1>2 DEF Sending
  <2>2. IsFiniteSet(Sending) /\ Cardinality(Sending) \in Nat
    BY SendingCount DEF Sending
  <2>3. Cardinality(Sending') = Cardinality(Sending) + 1
    BY <2>1, <2>2, FS_AddElement
  <2>4. ~raced /\ \A b \in U!Acts : calls'[b].at # "checked"
    BY <1>1, <1>2
  <2>5. ~Waiting' /\ Waiting
    BY <1>1, <2>4 DEF Waiting
  <2>6. Next1 = 1 /\ Next1' = 0
    BY <2>5 DEF Next1
  <2>7. accepted + Cardinality(Sending) + 1 <= readied
    BY <2>4, <2>6 DEF UploadInv, EachPrepared
  <2> QED BY <1>0, <1>1, <2>2, <2>3, <2>6, <2>7
<1> QED BY <1>3, <1>4 DEF UploadInv

\* The tracker takes the torrent or not; the process ends.
LEMMA UploadDone ==
  ASSUME MaxRequests \in Nat, MaxVisits \in Nat, UploadInv,
         U!Restart \/ \E a \in U!Acts : U!Take(a) \/ U!upload_torrent(a)
  PROVE  UploadInv'
<1>0. /\ calls \in [U!Acts -> UploadCall]
      /\ status \in JobStatus /\ fields \in BOOLEAN /\ raced \in BOOLEAN
      /\ accepted \in Nat /\ readied \in Nat /\ visits \in 0 .. MaxVisits
      /\ form \in Choice /\ seen \in JobStatus /\ U!TypeOK
  BY UploadTyped DEF UploadInv
<1>n. IsFiniteSet(Sending) /\ Cardinality(Sending) \in Nat
  BY SendingCount DEF Sending
<1>m. IsFiniteSet(Sending') /\ Cardinality(Sending') \in Nat
  BY SendingCount DEF Sending
<1>x. Next1 \in {0, 1} /\ Next1' \in {0, 1} /\ (Waiting <=> Next1 = 1) /\ (Waiting' <=> Next1' = 1)
  BY DEF Next1
\* Whatever leaves the tracker makes room for one acceptance.
<1>k. ASSUME U!TypeOK', UNCHANGED <<readied, raced>>, Waiting' => Waiting,
             accepted' + Cardinality(Sending') <= accepted + Cardinality(Sending)
      PROVE  UploadInv'
  <2> SUFFICES ASSUME ~raced PROVE accepted' + Cardinality(Sending') + Next1' <= readied
    BY <1>k DEF UploadInv, EachPrepared
  <2>1. accepted + Cardinality(Sending) + Next1 <= readied
    BY DEF UploadInv, EachPrepared
  <2>2. accepted' \in Nat
    BY <1>k DEF U!TypeOK
  <2> QED BY <1>0, <1>n, <1>m, <1>x, <1>k, <2>1, <2>2
<1>1. ASSUME NEW a \in U!Acts, U!Take(a) PROVE UploadInv'
  <2>1. /\ calls[a].at = "sending" /\ U!Answer(a, "taken") /\ accepted' = accepted + 1
        /\ UNCHANGED <<status, fields, form, seen, visits, readied, raced>>
    BY <1>1 DEF U!Take
  <2>2. /\ calls' \in [U!Acts -> UploadCall] /\ calls'[a].at = "taken"
        /\ \A b \in U!Acts : b # a => calls'[b] = calls[b]
    BY <1>0, <2>1, CallGoesOn DEF Progresses
  <2>3. accepted' \in Nat
    BY <1>0, <2>1
  <2>4. U!TypeOK'
    BY <1>0, <2>1, <2>2, <2>3 DEF U!TypeOK, UploadCall, Progresses, JobStatus, Choice
  <2>5. Sending' = Sending \ {a} /\ a \in Sending
    BY <2>1, <2>2 DEF Sending
  <2>6. Cardinality(Sending') = Cardinality(Sending) - 1
    BY <1>n, <2>5, FS_RemoveElement
  <2>7. Waiting' => Waiting
    BY <2>1, <2>2 DEF Waiting
  <2>8. accepted' + Cardinality(Sending') <= accepted + Cardinality(Sending)
    BY <1>0, <1>n, <2>1, <2>6
  <2> QED BY <1>k, <2>1, <2>4, <2>7, <2>8
<1>2. ASSUME NEW a \in U!Acts, U!upload_torrent(a) PROVE UploadInv'
  <2>1. PICK s \in {"added", "error"} : U!Answer(a, s)
    BY <1>2 DEF U!upload_torrent
  <2>2. /\ calls' \in [U!Acts -> UploadCall] /\ calls'[a].at = s
        /\ \A b \in U!Acts : b # a => calls'[b] = calls[b]
    BY <1>0, <2>1, CallGoesOn DEF Progresses
  <2>3. /\ calls[a].at \in {"sending", "taken"} /\ status' \in {"uploaded", "failed", status}
        /\ UNCHANGED <<fields, accepted, form, seen, visits, readied, raced>>
    BY <1>2 DEF U!upload_torrent, U!AfterFailure
  <2>4. U!TypeOK'
    <3>1. status' \in JobStatus
      BY <1>0, <2>3 DEF JobStatus
    <3> QED BY <1>0, <2>2, <2>3, <3>1 DEF U!TypeOK, UploadCall, Progresses, JobStatus, Choice
  <2>5. Sending' \subseteq Sending
    BY <2>2 DEF Sending
  <2>6. Cardinality(Sending') <= Cardinality(Sending)
    BY <1>n, <2>5, FS_Subset
  <2>7. Waiting' => Waiting
    BY <2>2, <2>3 DEF Waiting
  <2>8. accepted' + Cardinality(Sending') <= accepted + Cardinality(Sending)
    BY <1>0, <1>n, <1>m, <2>3, <2>6
  <2> QED BY <1>k, <2>3, <2>4, <2>7, <2>8
<1>3. ASSUME U!Restart PROVE UploadInv'
  <2>1. /\ visits < MaxVisits /\ visits' = visits + 1
        /\ calls' = [a \in U!Acts |-> IF calls[a].at \in {"unsent", "ok", "error"} THEN calls[a]
                                      ELSE [calls[a] EXCEPT !.at = "error"]]
        /\ UNCHANGED <<status, fields, accepted, form, seen, readied, raced>>
    BY <1>3 DEF U!Restart
  <2>2. \A a \in U!Acts : [calls[a] EXCEPT !.at = "error"] \in UploadCall
                          /\ [calls[a] EXCEPT !.at = "error"].at = "error"
    BY <1>0 DEF UploadCall, Progresses
  <2>3. calls' \in [U!Acts -> UploadCall] /\ \A a \in U!Acts : calls'[a].at \in {"unsent", "ok", "error"}
    BY <1>0, <2>1, <2>2
  <2>4. visits' \in 0 .. MaxVisits
    BY <1>0, <2>1
  <2>5. U!TypeOK'
    BY <1>0, <2>1, <2>3, <2>4 DEF U!TypeOK, UploadCall, Progresses, JobStatus, Choice
  <2>6. Sending' = {} /\ (Waiting' => Waiting)
    BY <2>1, <2>3 DEF Sending, Waiting
  <2>7. Cardinality(Sending') = 0
    BY <2>6, FS_EmptySet
  <2>8. accepted' + Cardinality(Sending') <= accepted + Cardinality(Sending)
    BY <1>0, <1>n, <2>1, <2>7
  <2> QED BY <1>k, <2>1, <2>5, <2>6, <2>8
<1> QED BY <1>1, <1>2, <1>3

\* The invariant is inductive.
LEMMA UploadSteps ==
  ASSUME MaxRequests \in Nat, MaxVisits \in Nat, UploadInv, [U!Next]_(U!vars)
  PROVE  UploadInv'
<1>1. CASE UNCHANGED U!vars
  BY <1>1 DEF U!vars, UploadInv, U!TypeOK, EachPrepared, Sending, Next1, Waiting
<1>2. CASE U!Next
  BY <1>2, UploadPage, UploadServed, UploadSubmitted, UploadDone DEF U!Next
<1> QED BY <1>1, <1>2

\* A page without an upload.
LEMMA UploadBegins ==
  ASSUME MaxRequests \in Nat, MaxVisits \in Nat, U!Init
  PROVE  UploadInv
<1>1. /\ status = "none" /\ fields = FALSE /\ accepted = 0 /\ form = U!Empty /\ seen = "none"
      /\ calls = [a \in U!Acts |-> U!Unused] /\ visits = 0 /\ readied = 0 /\ raced = FALSE
  BY DEF U!Init
<1>2. U!Unused \in UploadCall /\ U!Unused.at = "unsent"
  BY DEF U!Unused, UploadCall, Progresses
<1>3. calls \in [U!Acts -> UploadCall] /\ \A a \in U!Acts : calls[a].at = "unsent"
  BY <1>1, <1>2
<1>4. form \in Choice /\ seen \in JobStatus /\ status \in JobStatus
  BY <1>1 DEF JobStatus, U!Empty, Choice
<1>5. U!TypeOK
  <2>1. accepted \in Nat /\ readied \in Nat /\ visits \in 0 .. MaxVisits
    BY <1>1
  <2>2. fields \in BOOLEAN /\ raced \in BOOLEAN
    BY <1>1
  <2> QED BY <1>3, <1>4, <2>1, <2>2, UploadTyped
<1>6. Sending = {} /\ ~Waiting
  BY <1>1, <1>3 DEF Sending, Waiting
<1>7. EachPrepared
  BY <1>1, <1>6, FS_EmptySet DEF EachPrepared, Next1
<1> QED BY <1>5, <1>7 DEF UploadInv

\* The invariant holds throughout: what was taken, what is being taken and what may be
\* taken next each had a preparation of its own, unless two confirmations overlapped.
THEOREM UploadInvariance == Spec => [](part = "uploads" => UploadInv)
<1>1. Init => (part = "uploads" => UploadInv)
  BY OnePartBegins, UploadBegins, BoundsAssumption
<1>2. (part = "uploads" => UploadInv) /\ [Next]_vars => (part = "uploads" => UploadInv)'
  BY OnePartSteps, UploadSteps, BoundsAssumption
<1> QED BY <1>1, <1>2, PTL DEF Spec

\* What a preparation made ready is published once at most, whatever answers are lost,
\* whatever fails half-way, wherever the server stops and whichever tab asks, unless two
\* confirmations read that it is ready before either of them wrote (confirm_upload, submit).
THEOREM UploadedOnce == Spec => []PublishedOnce
<1>1. ASSUME part = "uploads" => UploadInv PROVE PublishedOnce
  <2> SUFFICES ASSUME part = "uploads", ~raced PROVE accepted <= readied
    BY DEF PublishedOnce, U!PublishedOnce
  <2>1. Cardinality(Sending) \in Nat /\ accepted \in Nat /\ readied \in Nat
    BY <1>1, SendingCount, BoundsAssumption, UploadTyped DEF UploadInv, Sending
  <2>2. accepted + Cardinality(Sending) + Next1 <= readied /\ Next1 \in {0, 1}
    BY <1>1 DEF UploadInv, EachPrepared, Next1
  <2> QED BY <2>1, <2>2
<1> QED BY <1>1, UploadInvariance, PTL
=================================================================================
