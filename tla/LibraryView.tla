---- MODULE LibraryView ----
(***************************************************************************)
(* The library in the browser: the poster wall, the two trees (media files *)
(* and torrent files) and the sheet of one title.  All of them derive what *)
(* they show from the same rows, each with code of its own: the tabs and   *)
(* cards of lib/library-filters.ts, the titles of PosterView.tsx, the      *)
(* counts of ItemDetailSheet.tsx.  A file that the user excludes must drop *)
(* out of all of them.  The posters are rendered a page at a time, by an   *)
(* observer that an effect has to attach again when the list changes.      *)
(* The views are compared over the same data: the first answer of their    *)
(* queries is taken as arrived (before it the pages show nothing), and     *)
(* they are read again together (when each is read is QueryCache's).  A    *)
(* search text is one component of a path or one title, a size is a number *)
(* of gigabytes.                                                           *)
(***************************************************************************)
EXTENDS Integers, FiniteSets, FiniteSetsExt, Sequences

CONSTANTS
    MediaFiles,  \* [disk, path, title, tv, size]; title "none": not identified
    SeedFiles,   \* the same for torrent files; title "none": no hardlink
    Copies,      \* media files with the same content, on distinct inodes or on one
    PageSize,    \* posters rendered at a time (PAGE_SIZE)
    MaxActs      \* bound on what the user and the scans do

VARIABLES
    tracked,   \* files that belong to a torrent of a client
    excluded,  \* files that match an exclusion
    reviewed,  \* media files with a match that waits for approval
    page,      \* the page open
    filters,   \* its filters (LibraryFilters, or the status and text of the posters)
    toggled,   \* folders whose state is not the default one
    kind,      \* the tab of the posters: "movie" or "tv"
    visible,   \* posters rendered at most
    observed,  \* whether an observer watches the end of the wall
    open,      \* the title of the sheet, or "none"
    acts,
    gone       \* media files whose torrent files are no longer on the disk: their rows
               \* and those of the client stay, but no scan finds them

vars == <<tracked, excluded, reviewed, page, filters, toggled, kind, visible,
          observed, open, acts, gone>>

LibraryFiles == MediaFiles \cup SeedFiles
Titles == {f.title : f \in MediaFiles} \ {"none"}
Tab == {"all", "seeding", "orphan_media", "orphan_torrent", "ignored", "review", "duplicates"}

Sizes == {"", "x", "2"}
Filters == [status : Tab, showExcluded : BOOLEAN, search : {""} \cup Titles \cup {"x"},
            minGb : Sizes, maxGb : Sizes]

DefaultFilters ==
    [status |-> "all", showExcluded |-> FALSE, search |-> "", minGb |-> "", maxGb |-> ""]

\* app/library.py: the state of a media file and of a torrent file, for the wall and the
\* trees; that a media file's torrent file is still on the disk is not asked
StateOf(f) ==
    IF f \in MediaFiles
    THEN IF f \in tracked THEN "seeding" ELSE "orphan_media"
    ELSE IF f \notin tracked THEN "orphan_torrent"
         ELSE IF f.title = "none" THEN "ignored" ELSE "seeding"

\* app/library_detail.py: the state of a media file for the sheet, which asks
SheetStateOf(f) == IF f \in tracked \ gone THEN "seeding" ELSE "orphan_media"

\* app/duplicates.py: two paths at least to one content, none of them excluded, whether
\* they are copies or hardlinks
Duplicates ==
    LET left == Copies \ excluded IN IF Cardinality(left) > 1 THEN left ELSE {}

-----------------------------------------------------------------------------
(* lib/library-filters.ts *)

fileKey(f) == <<f.disk, f.path>>

duplicateKeys == {fileKey(f) : f \in Duplicates}

\* the bound a text stands for: one that is no number is none
parseGb(text) == IF text \in {"", "x"} THEN {} ELSE {2}

filterFiles(files, fs) ==
    {f \in files :
        /\ fs.showExcluded \/ f \notin excluded
        /\ fs.status = "duplicates" => f \notin excluded /\ fileKey(f) \in duplicateKeys
        /\ fs.status \notin {"all", "duplicates"} => f \notin excluded /\ StateOf(f) = fs.status
        /\ fs.search # "" => \E i \in DOMAIN f.path : f.path[i] = fs.search
        /\ \A least \in parseGb(fs.minGb) : f.size >= least
        /\ \A most \in parseGb(fs.maxGb) : f.size <= most}

hasActiveSearchFilters == filters.search # "" \/ filters.status = "duplicates"

\* the number on each tab and card of a tree
summarizeByState(files) ==
    LET counted == files \ excluded
    IN  [s \in Tab |-> Cardinality({f \in counted :
            \/ s = "all"
            \/ s = StateOf(f)
            \/ s = "duplicates" /\ fileKey(f) \in duplicateKeys})]

-----------------------------------------------------------------------------
(* components/FileTree.tsx: nodes are paths, so two files with one path on  *)
(* two disks are one node.                                                  *)

buildTree(files) == UNION {{SubSeq(f.path, 1, i) : i \in 1..Len(f.path)} : f \in files}

FilesAt(files, n) == {f \in files : f.path = n}

IsOpen(files, n) ==
    /\ FilesAt(files, n) = {}
    /\ hasActiveSearchFilters \/ ((Len(n) = 1) # (n \in toggled))

rows(files) ==
    {n \in buildTree(files) : \A i \in 1..(Len(n) - 1) : IsOpen(files, SubSeq(n, 1, i))}

-----------------------------------------------------------------------------
(* pages/library/PosterView.tsx *)

Mine(t) == {f \in MediaFiles : f.title = t}

counts(t) ==
    LET kept == Mine(t) \ excluded
    IN  [seeding   |-> Cardinality({f \in kept : StateOf(f) = "seeding"}),
         orphan    |-> Cardinality({f \in kept : StateOf(f) # "seeding"}),
         review    |-> Cardinality(kept \cap reviewed),
         duplicate |-> Cardinality(kept \cap Duplicates)]

OfKind(k) == {t \in Titles : \E f \in Mine(t) : f.tv = (k = "tv")}

\* the titles of one tab; a title with excluded files only is left out
toCardsAll(k) == OfKind(k)
toCards(k) == {t \in OfKind(k) : counts(t).seeding + counts(t).orphan > 0}

matchesStatus(t, s) ==
    CASE s = "seeding"      -> counts(t).seeding > 0 /\ counts(t).orphan = 0
      [] s = "orphan_media" -> counts(t).orphan > 0
      [] s = "review"       -> counts(t).review > 0
      [] s = "duplicates"   -> counts(t).duplicate > 0
      [] OTHER              -> TRUE

summarize(k) == [s \in Tab |-> Cardinality({t \in toCards(k) : matchesStatus(t, s)})]

cards == {t \in toCards(kind) : matchesStatus(t, filters.status) /\ filters.search \in {"", t}}

\* pages/library/ItemDetailSheet.tsx: the dots of the header
detailCounts(t) ==
    LET videos == Mine(t) \ excluded
    IN  [seeding |-> Cardinality({f \in videos : SheetStateOf(f) = "seeding"}),
         orphan  |-> Cardinality({f \in videos : SheetStateOf(f) # "seeding"})]

\* the effect that watches the end of the wall runs when one of these changes
EffectKeyVisible == <<visible>>
EffectKey == <<visible, Cardinality(cards)>>

More == page = "poster" /\ visible < Cardinality(cards)

\* the end of the wall exists while there is More; it is watched from the run
\* of the effect that finds it
Observe ==
    observed' = (More' /\ (observed \/ EffectKey' # EffectKey \/ page' # page))

-----------------------------------------------------------------------------
TypeOK ==
    /\ tracked \subseteq LibraryFiles /\ excluded \subseteq LibraryFiles /\ reviewed \subseteq MediaFiles
    /\ page \in {"poster", "folder", "torrent"}
    /\ filters \in Filters
    /\ toggled \subseteq buildTree(LibraryFiles)
    /\ kind \in {"movie", "tv"} /\ visible \in Nat /\ observed \in BOOLEAN
    /\ open \in Titles \cup {"none"} /\ acts \in 0..MaxActs
    /\ gone \subseteq MediaFiles

Init ==
    /\ tracked \in {{}, LibraryFiles} /\ excluded = {} /\ reviewed = {}
    /\ page = "poster" /\ filters = DefaultFilters /\ toggled = {} /\ kind = "movie"
    /\ visible = PageSize /\ observed = More
    /\ open = "none" /\ acts = 0 /\ gone = {}

Act == acts < MaxActs /\ acts' = acts + 1

rowsNow == rows(filterFiles(IF page = "folder" THEN MediaFiles ELSE SeedFiles, filters))

\* another page: its state starts anew
Go(p) ==
    /\ Act /\ open = "none" /\ p # page
    /\ page' = p /\ filters' = DefaultFilters /\ toggled' = {}
    /\ kind' = "movie" /\ visible' = PageSize
    /\ UNCHANGED <<tracked, gone, excluded, reviewed, open>>
    /\ Observe

FolderTabs == {"all", "seeding", "orphan_media", "duplicates"}
TorrentTabs == {"all", "seeding", "ignored", "orphan_torrent"}
PosterTabs == {"all", "seeding", "orphan_media", "review", "duplicates"}

\* FileFilterBar and the cards of a tree
SetFilters ==
    /\ Act /\ page # "poster" /\ open = "none"
    /\ \/ \E s \in (IF page = "folder" THEN FolderTabs ELSE TorrentTabs) :
              filters' = [filters EXCEPT !.status = s]
       \/ filters' = [filters EXCEPT !.showExcluded = ~@]
       \/ \E text \in {"", "x"} : filters' = [filters EXCEPT !.search = text]
       \/ \E text \in Sizes : filters' = [filters EXCEPT !.minGb = text]
       \/ \E text \in Sizes : filters' = [filters EXCEPT !.maxGb = text]
    /\ UNCHANGED <<tracked, gone, excluded, reviewed, page, toggled, kind, visible, observed, open>>

Toggle(n) ==
    /\ Act /\ page # "poster" /\ open = "none" /\ n \in rowsNow
    /\ FilesAt(filterFiles(IF page = "folder" THEN MediaFiles ELSE SeedFiles, filters), n) = {}
    /\ toggled' = IF n \in toggled THEN toggled \ {n} ELSE toggled \cup {n}
    /\ UNCHANGED <<tracked, gone, excluded, reviewed, page, filters, kind, visible, observed, open>>

\* a click on a row with an identity, or on a poster that is rendered
OpenItem(t) ==
    /\ Act /\ open = "none"
    /\ \/ page = "poster" /\ t \in cards
       \/ page # "poster" /\ \E f \in (IF page = "folder" THEN MediaFiles ELSE SeedFiles) :
              f.title = t /\ f \in filterFiles(LibraryFiles, filters) /\ f.path \in rowsNow
    /\ open' = t
    /\ UNCHANGED <<tracked, gone, excluded, reviewed, page, filters, toggled, kind, visible, observed>>

CloseItem ==
    /\ open # "none" /\ open' = "none"
    /\ UNCHANGED <<tracked, gone, excluded, reviewed, page, filters, toggled, kind, visible,
                   observed, acts>>

\* the tabs and the text of the posters: every change starts from the first page
SetPosters ==
    /\ Act /\ page = "poster" /\ open = "none"
    /\ \/ kind' \in {"movie", "tv"} \ {kind} /\ UNCHANGED filters
       \/ \E s \in PosterTabs : filters' = [filters EXCEPT !.status = s] /\ UNCHANGED kind
       \/ \E text \in {""} \cup Titles :
              filters' = [filters EXCEPT !.search = text] /\ UNCHANGED kind
    /\ visible' = PageSize
    /\ UNCHANGED <<tracked, gone, excluded, reviewed, page, toggled, open>>
    /\ Observe

\* the observer sees the end of the wall
ShowMore ==
    /\ observed
    /\ visible' = visible + PageSize
    /\ UNCHANGED <<tracked, gone, excluded, reviewed, page, filters, toggled, kind, open, acts>>
    /\ Observe

\* FileRow's button: the file is excluded and the library read again
Exclude(f) ==
    /\ Act /\ f \in Mine(open) \ excluded
    /\ excluded' = excluded \cup {f}
    /\ UNCHANGED <<tracked, gone, reviewed, page, filters, toggled, kind, visible, open>>
    /\ Observe

\* a run ends: other files are tracked or have lost their torrent file, other matches wait
Refetch ==
    /\ Act
    /\ \/ /\ \E f \in LibraryFiles : tracked' \in {tracked \cup {f}, tracked \ {f}}
          /\ UNCHANGED gone
       \/ /\ \E f \in MediaFiles : gone' \in {gone \cup {f}, gone \ {f}}
          /\ UNCHANGED tracked
    /\ reviewed' \in {{}} \cup {{f} : f \in MediaFiles \ tracked'}
    /\ UNCHANGED <<excluded, page, filters, toggled, kind, visible, open>>
    /\ Observe

Next ==
    \/ \E p \in {"poster", "folder", "torrent"} : Go(p)
    \/ SetFilters
    \/ \E n \in buildTree(LibraryFiles) : Toggle(n)
    \/ \E t \in Titles : OpenItem(t)
    \/ CloseItem
    \/ SetPosters
    \/ ShowMore
    \/ \E f \in MediaFiles : Exclude(f)
    \/ Refetch

\* who stays at the end of the wall is seen by an observer that watches it
Fairness == WF_vars(ShowMore)

Spec == Init /\ [][Next]_vars /\ Fairness

-----------------------------------------------------------------------------
\* The posters, the tree of media files and the sheet of a title agree: a title
\* is on the wall iff the tree lists one of its files, under Orphaned iff the
\* tree does, under Seeding iff all it lists are seeding, and the dots of the
\* sheet count what the tree lists, but that a file whose torrent file is no longer
\* on the disk (gone) is seeding to the wall and the tree and orphaned to the sheet;
\* and the number on every tab is that of what choosing the tab shows.
ViewsAgree ==
    LET shown(s) == filterFiles(MediaFiles, [DefaultFilters EXCEPT !.status = s])
    IN  /\ \A k \in {"movie", "tv"} : \A t \in OfKind(k) :
              LET listed(s) == Mine(t) \cap shown(s)
                  wall(s) == t \in toCards(k) /\ matchesStatus(t, s)
              IN  /\ wall("all") = (listed("all") # {})
                  /\ wall("orphan_media") = (listed("orphan_media") # {})
                  /\ wall("duplicates") = (listed("duplicates") # {})
                  /\ wall("seeding") = (listed("all") # {} /\ listed("seeding") = listed("all"))
                  /\ detailCounts(t).seeding = Cardinality(listed("seeding") \ gone)
                  /\ detailCounts(t).orphan =
                        Cardinality(listed("orphan_media") \cup (listed("seeding") \cap gone))
        /\ \A s \in FolderTabs : summarizeByState(MediaFiles)[s] = Cardinality(shown(s))
        /\ summarize(kind)["all"] = summarize(kind)["seeding"] + summarize(kind)["orphan_media"]

\* Who stays on the wall of posters comes to see every title that matches, after
\* any sequence of tabs, searches, exclusions and new answers: the observer that
\* renders the next page is attached again each time it has to.
OnWall == page = "poster"
AllShown == page # "poster" \/ visible >= Cardinality(cards)
ScrollShowsAll == OnWall ~> AllShown
====
