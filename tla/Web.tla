---------------------------------- MODULE Web ----------------------------------
(***************************************************************************)
(* The parts of the web interface side by side.  They share no state, so a *)
(* behaviour is one of one part: `part` says which, and v1 to v12 are its  *)
(* variables, in the order its module declares them; those it does not     *)
(* have are 0.                                                             *)
(***************************************************************************)
EXTENDS Integers, FiniteSets

CONSTANTS
    \* what ReviewPage, CheckDialog, SettingFields, Uploads, LibraryView and
    \* ScanChanges are about
    Reviews, Outcomes, Targets, Keys, Disks, MediaFiles, SeedFiles, Copies, PageSize,
    Files, Kept, Limit,
    \* the bounds of the parts; those called MaxActs and MaxRuns by more than one are told
    \* apart
    MaxChecks, MaxKept, MaxVisible, MaxNotices, MaxValue, MaxEdits, MaxTokens, MaxCalls,
    MaxRuns, MaxFocus, MaxWrites, MaxVisits, MaxRequests, MaxReady, MaxViews, MaxItems,
    MaxScans, MaxChanges, MaxBreaks

\* What may be checked by hand has a candidate and an execution, and nothing else.
ASSUME TargetsAssumption ==
    \A t \in Targets : t = [candidate |-> t.candidate, job |-> t.job]

\* What the values of a setting are made of: neither of the markers of a value that was
\* not read and of a draft that was not touched.
ASSUME KeysAssumption == "unloaded" \notin Keys /\ "null" \notin Keys

\* The bounds are numbers; a tab can be given at least one token, a field has a value, and
\* the changes of some run are kept (KEEP_RUNS).
ASSUME BoundsAssumption ==
    /\ {MaxChecks, MaxVisible, MaxRuns, MaxFocus, MaxWrites, MaxVisits, MaxRequests, MaxEdits,
        MaxViews, MaxScans, MaxChanges, MaxBreaks, Limit} \subseteq Nat
    /\ {MaxTokens, MaxValue, Kept} \subseteq Nat \ {0}

\* The files of the library and of the torrents are finitely many.
ASSUME FilesAssumption == IsFiniteSet(Files)

\* So are those that the library lists; a disk and a path name one of them, copies are some
\* of them, a size is a number.
ASSUME LibraryAssumption ==
    /\ IsFiniteSet(MediaFiles) /\ Copies \subseteq MediaFiles
    /\ \A f, g \in MediaFiles : f.disk = g.disk /\ f.path = g.path => f = g
    /\ \A f \in MediaFiles : f.size \in Nat
    /\ PageSize \in Nat

VARIABLES part, v1, v2, v3, v4, v5, v6, v7, v8, v9, v10, v11, v12

R == INSTANCE ReviewPage WITH
    MaxActs <- MaxNotices,
    rows <- v1, checks <- v2, jobs <- v3, list <- v4, polled <- v5, seen <- v6, acts <- v7,
    pushed <- v8, tracked <- v9, calls <- v10, due <- v11, breaks <- v12

D == INSTANCE CheckDialog WITH
    checks <- v1, last <- v2, button <- v3, data <- v4, starts <- v5, breaks <- v6

C == INSTANCE ConfigForms WITH
    field <- v1, server <- v2, cached <- v3, value <- v4, open <- v5, typed <- v6,
    saving <- v7, setting <- v8, due <- v9, last <- v10

F == INSTANCE SettingFields WITH
    MaxActs <- MaxEdits,
    control <- v1, server <- v2, cached <- v3, draft <- v4, calls <- v5, reading <- v6,
    wanted <- v7, blind <- v8, missed <- v9, acts <- v10

S == INSTANCE Session WITH
    configured <- v1, good <- v2, issued <- v3, token <- v4, status <- v5, me <- v6,
    library <- v7, stored <- v8, saving <- v9, calls <- v10, left <- v11, breaks <- v12

I == INSTANCE RunView WITH
    runs <- v1, polled <- v2, read <- v3, trigger <- v4, stop <- v5, was <- v6, ran <- v7,
    flash <- v8, timer <- v9, breaks <- v10

Q == INSTANCE QueryCache WITH
    q <- v1, m <- v2, page <- v3, write <- v4, cached <- v5, flight <- v6, joined <- v7,
    left <- v8, missed <- v9, writes <- v10, visits <- v11

U == INSTANCE Uploads WITH
    MaxActs <- MaxRequests,
    status <- v1, fields <- v2, accepted <- v3, form <- v4, seen <- v5, calls <- v6,
    visits <- v7, readied <- v8, raced <- v9

L == INSTANCE LibraryView WITH
    MaxActs <- MaxViews,
    tracked <- v1, excluded <- v2, reviewed <- v3, page <- v4, filters <- v5, toggled <- v6,
    kind <- v7, visible <- v8, observed <- v9, open <- v10, acts <- v11, gone <- v12

P == INSTANCE RunSteps WITH
    memory <- v1, at <- v2, stopped <- v3, wrote <- v4, row <- v5, asked <- v6, run <- v7,
    breaks <- v8

G == INSTANCE ScanChanges WITH
    MaxRuns <- MaxScans, MaxActs <- MaxChanges,
    index <- v1, excluded <- v2, runs <- v3, picture <- v4, changes <- v5, read <- v6,
    taken <- v7, mixed <- v8, cached <- v9, kind <- v10, acts <- v11

\* The reviews are finitely many; a check ends in one of the ways the tab can tell.
ASSUME ReviewsAssumption == IsFiniteSet(Reviews) /\ Outcomes \subseteq DOMAIN R!FinalStatus

vars == <<part, v1, v2, v3, v4, v5, v6, v7, v8, v9, v10, v11, v12>>

Init ==
    \/ part = "reviews" /\ R!Init
    \/ part = "checks" /\ D!Init /\ v7 = 0 /\ v8 = 0 /\ v9 = 0 /\ v10 = 0 /\ v11 = 0 /\ v12 = 0
    \/ part = "forms" /\ C!Init /\ v11 = 0 /\ v12 = 0
    \/ part = "settings" /\ F!Init /\ v11 = 0 /\ v12 = 0
    \/ part = "session" /\ S!Init
    \/ part = "run" /\ I!Init /\ v11 = 0 /\ v12 = 0
    \/ part = "cache" /\ Q!Init /\ v12 = 0
    \/ part = "uploads" /\ U!Init /\ v10 = 0 /\ v11 = 0 /\ v12 = 0
    \/ part = "library" /\ L!Init
    \/ part = "steps" /\ P!Init /\ v9 = 0 /\ v10 = 0 /\ v11 = 0 /\ v12 = 0
    \/ part = "changes" /\ G!Init /\ v12 = 0

\* A step of one part.
Reviewing == part = "reviews"
Checking == part = "checks"
Editing == part = "forms"
Following == part = "run"
Browsing == part = "library"
InReviews == Reviewing /\ UNCHANGED part
InChecks == Checking /\ UNCHANGED <<part, v7, v8, v9, v10, v11, v12>>
InForms == Editing /\ UNCHANGED <<part, v11, v12>>
InSettings == part = "settings" /\ UNCHANGED <<part, v11, v12>>
InSession == part = "session" /\ UNCHANGED part
InRun == Following /\ UNCHANGED <<part, v11, v12>>
InCache == part = "cache" /\ UNCHANGED <<part, v12>>
InUploads == part = "uploads" /\ UNCHANGED <<part, v10, v11, v12>>
InLibrary == Browsing /\ UNCHANGED part
InSteps == part = "steps" /\ UNCHANGED <<part, v9, v10, v11, v12>>
InChanges == part = "changes" /\ UNCHANGED <<part, v12>>

Next ==
    \/ InReviews /\ R!Next
    \/ InChecks /\ D!Next
    \/ InForms /\ C!Next
    \/ InSettings /\ F!Next
    \/ InSession /\ S!Next
    \/ InRun /\ I!Next
    \/ InCache /\ Q!Next
    \/ InUploads /\ U!Next
    \/ InLibrary /\ L!Next
    \/ InSteps /\ P!Next
    \/ InChanges /\ G!Next

Spec == Init /\ [][Next]_vars

-----------------------------------------------------------------------------
\* The part that runs keeps its variables in their types.
TypeOK ==
    CASE part = "reviews"  -> R!TypeOK
      [] part = "checks"   -> D!TypeOK
      [] part = "forms"    -> C!TypeOK
      [] part = "settings" -> F!TypeOK
      [] part = "session"  -> S!TypeOK
      [] part = "run"      -> I!TypeOK
      [] part = "cache"    -> Q!TypeOK
      [] part = "uploads"  -> U!TypeOK
      [] part = "library"  -> L!TypeOK
      [] part = "steps"    -> P!TypeOK
      [] part = "changes"  -> G!TypeOK

\* The dialog of a full check never shows another execution's check (keyOf).
ShownIsMine == Checking => D!ShownIsMine

\* A secret typed into a form of the configuration is not sent again once the form has
\* heard that it was saved (AddTrackerDialog and the others empty their fields; the one
\* of an Arr instance may not hear of it, and then sends it again).
SecretSentOnce == Editing => C!SecretSentOnce

\* Presets switched one after the other all take effect, as long as the list is read
\* again after each write (PresetsCard).
TogglesKept == part = "settings" => F!TogglesKept

\* A saved draft gives way to the value that was saved, when that value was read again
\* (useSetSetting).
NoFlicker ==
    [][part = "settings" => \A i \in DOMAIN v5 : F!DraftDropped(i) => v3 = v5[i].sends]_vars

\* After a logout nothing brings the library back (logout, queryPersistence).
LibraryForgotten == part = "session" => S!LibraryForgotten

\* A page shows the writes of its own tab, except for the gaps the module lists (hooks).
OwnWritesShown == part = "cache" => Q!OwnWritesShown

\* What a preparation made ready is published once, unless two confirmations read that at
\* once (prepare, confirm_upload, submit).
PublishedOnce == part = "uploads" => U!PublishedOnce

\* The views of the library count and list the same files (PosterView, FileTree).
ViewsAgree == Browsing => L!ViewsAgree

\* What the indicator says of the steps of a run is true of its worker (runSteps).
StepsTold == [](part = "steps" => P!Told(v7)) /\ [][part = "steps" => P!NeverBack]_vars

\* The card of changes tells what happened between the runs it names (record_changes).
ChangesTell == part = "changes" => G!ChangesTell
================================================================================
