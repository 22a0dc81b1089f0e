----------------------------- MODULE QueryCache -----------------------------
(***************************************************************************)
(* The cache of queries behind every page: what each hook reads, what each *)
(* mutation writes and which keys it invalidates, and the rules of         *)
(* TanStack Query that decide which reads are made again.  Queries do not  *)
(* depend on each other: a behaviour follows one query and one mutation.   *)
(***************************************************************************)
EXTENDS Naturals, Sequences, SequencesExt

CONSTANTS
    MaxWrites, \* bound: times the mutation is sent
    MaxVisits  \* bound: pages opened

VARIABLES
    q,       \* the query followed
    m,       \* the mutation followed
    page,    \* the page on the screen
    write,   \* the request of the mutation: idle, sent or answered
    cached,  \* the query's data: nothing, or from before or after its last write
    flight,  \* the read in flight
    joined,  \* the query waits for a read that another visit, or the write, found in flight
    left,    \* the component that is to invalidate keys of the mutation is gone
    missed,  \* history: a read failed, or the mutation was over without one as it should
             \* have been (its answer was lost, or whoever was to invalidate was gone)
    writes, visits

vars == <<q, m, page, write, cached, flight, joined, left, missed, writes, visits>>

Query(key, reads) == [key |-> key, reads |-> reads]
Mutation(writes_, invalidates) ==
    [writes |-> writes_, invalidates |-> invalidates, local |-> {}]

-----------------------------------------------------------------------------
(* The queries: their keys, an id being "id", and what their answers are     *)
(* computed from.                                                            *)

useDisks == Query(<<"disks">>, {"disk"})
useAvailableMounts == Query(<<"disks", "available-mounts">>, {"disk"})
useBrowseDisk == Query(<<"disks", "id", "browse">>, {"directory"})
useTorrentClients == Query(<<"torrent-clients">>, {"torrent_client", "association"})
useTrackers == Query(<<"trackers">>, {"tracker"})
useBundledUploadProfiles == Query(<<"trackers", "upload-profiles", "bundled">>, {})
useUploadProfile == Query(<<"trackers", "id", "upload-profile">>, {"upload_profile"})
useRadarrInstances == Query(<<"radarr-instances">>, {"radarr_instance"})
useSonarrInstances == Query(<<"sonarr-instances">>, {"sonarr_instance"})
useUploads == Query(<<"uploads">>, {"upload"})
useUpload == Query(<<"uploads", "id">>, {"upload"})
useLibraryItems == Query(<<"library", "items">>, {"file", "exclusion", "review"})
useMediaFiles == Query(<<"library", "media-files">>, {"file", "exclusion", "review"})
useSeedFiles == Query(<<"library", "seed-files">>, {"file", "exclusion"})
useUnmatched == Query(<<"library", "unmatched">>, {"file", "exclusion"})
useLibraryDuplicates == Query(<<"library", "duplicates">>, {"file", "exclusion"})
useItemDetail == Query(<<"library", "detail">>, {"file", "exclusion", "review"})
useReviews == Query(<<"reviews">>, {"review"})
useRecentSeedJobs == Query(<<"reviews", "seed-jobs", "recent">>, {"review"})
useFailedSeedJobs == Query(<<"reviews", "failed">>, {"review"})
useCandidateAudit == Query(<<"reviews", "candidates", "id">>, {"review"})
useRuns == Query(<<"runs">>, {"run", "cancel_request"})
useDashboard == Query(<<"dashboard">>, {"run", "review", "file"})
useDashboardHistory == Query(<<"dashboard", "history">>, {"run"})
useDashboardChanges == Query(<<"dashboard", "changes">>, {"run"})
exclusionPatterns == Query(<<"settings", "exclusion_patterns">>, {"exclusion"})
useHealth == Query(<<"health">>, {})
useAppInfo == Query(<<"system", "info">>, {})
useUpdateCheck == Query(<<"system", "update-check">>, {})
useLogs == Query(<<"system", "logs">>, {})

\* The queries whose first answer is kept for good (staleTime Infinity).
Permanent == {useHealth}

-----------------------------------------------------------------------------
(* The mutations: what they write, what follows from it in the database      *)
(* (cascades), and the keys they invalidate: all in the hook, which goes on  *)
(* when the page is left, but for those that a component invalidates in a    *)
(* callback given to mutate, which is dropped with the component.            *)

useCreateDisk == Mutation({"disk"}, {<<"disks">>})
useUpdateDisk == Mutation({"disk"}, {<<"disks">>})
useDeleteDisk == Mutation({"disk", "association"}, {<<"disks">>})
useMkdir == Mutation({"directory"}, {<<"disks", "id", "browse">>})
useCreateTorrentClient == Mutation({"torrent_client"}, {<<"torrent-clients">>})
useUpdateTorrentClient == Mutation({"torrent_client"}, {<<"torrent-clients">>})
useDeleteTorrentClient == Mutation({"torrent_client", "association"}, {<<"torrent-clients">>})
useAssociateDisk == Mutation({"association"}, {<<"torrent-clients">>})
useDissociateDisk == Mutation({"association"}, {<<"torrent-clients">>})
useCreateTracker == Mutation({"tracker"}, {<<"trackers">>})
useUpdateTracker == Mutation({"tracker"}, {<<"trackers">>})
useDeleteTracker == Mutation({"tracker", "upload_profile"}, {<<"trackers">>})
useCreateUploadProfile == Mutation({"upload_profile"}, {<<"trackers", "id", "upload-profile">>})
useUpdateUploadProfile == Mutation({"upload_profile"}, {<<"trackers", "id", "upload-profile">>})
useDeleteUploadProfile == Mutation({"upload_profile"}, {<<"trackers", "id", "upload-profile">>})
useCreateRadarrInstance == Mutation({"radarr_instance"}, {<<"radarr-instances">>})
useUpdateRadarrInstance == Mutation({"radarr_instance"}, {<<"radarr-instances">>})
useDeleteRadarrInstance == Mutation({"radarr_instance"}, {<<"radarr-instances">>})
useCreateSonarrInstance == Mutation({"sonarr_instance"}, {<<"sonarr-instances">>})
useUpdateSonarrInstance == Mutation({"sonarr_instance"}, {<<"sonarr-instances">>})
useDeleteSonarrInstance == Mutation({"sonarr_instance"}, {<<"sonarr-instances">>})
useCreateUpload == Mutation({"upload"}, {<<"uploads">>})
usePrepareUpload == Mutation({"upload"}, {<<"uploads", "id">>})
usePatchUpload == Mutation({"upload"}, {<<"uploads", "id">>})
useConfirmUpload == Mutation({"upload"}, {<<"uploads", "id">>, <<"uploads">>})
useTriggerRun == Mutation({"run"}, {<<"runs">>, <<"dashboard">>})
useCancelRun == Mutation({"cancel_request"}, {<<"runs">>})
useApproveReview ==
    Mutation({"review"}, {<<"reviews">>, <<"reviews", "failed">>, <<"dashboard">>, <<"library">>})
useRejectReview == Mutation({"review"}, {<<"reviews">>, <<"dashboard">>, <<"library">>})
useRetryFailed == Mutation({"review"}, {<<"reviews">>})
useReconcileNow == Mutation({"review"}, {<<"library">>, <<"reviews">>})
useSearchNow == Mutation({"review"}, {<<"library">>, <<"reviews">>})
\* Mutant: the pages of the library are forgotten.
useExcludeFileOnly == Mutation({"exclusion"}, {<<"settings", "exclusion_patterns">>})

useExcludeFile == Mutation({"exclusion"}, {<<"library">>, <<"settings", "exclusion_patterns">>})
useInvalidateLibrary ==
    [Mutation({"exclusion"}, {<<"settings", "exclusion_patterns">>}) EXCEPT !.local = {<<"library">>}]

-----------------------------------------------------------------------------
(* The screens: the queries a component mounts and the mutations it offers,  *)
(* its own and those of the components it is made of.  The settings, the     *)
(* files of a check and the user have their own modules (SettingFields,      *)
(* CheckDialog, Session).                                                    *)

View(shows, does, parts) ==
    [shows |-> shows \union UNION {part.shows : part \in parts},
     does |-> does \union UNION {part.does : part \in parts}]

\* The sheet of a title opens from the wall, from the tree and from the changes.
FileRow == View({}, {useExcludeFile}, {})
SheetReviews == View({}, {useApproveReview, useRejectReview}, {})
Matching == View({}, {useSearchNow}, {})
History == View({}, {useReconcileNow}, {})
ItemDetailSheet == View({useItemDetail}, {}, {FileRow, SheetReviews, Matching, History})

PosterView == View({useLibraryItems}, {}, {ItemDetailSheet})
FileBrowser == ItemDetailSheet
FolderView == View({useMediaFiles, useLibraryDuplicates}, {}, {FileBrowser})
TorrentFolderView == View({useSeedFiles}, {}, {FileBrowser})

HealthHistoryChart == View({useDashboardHistory}, {}, {})
ChangesCard == View({useDashboardChanges}, {}, {ItemDetailSheet})
ScanHistoryCard == View({useRuns}, {}, {})
RunNowButton == View({useRuns}, {useTriggerRun, useCancelRun}, {})
DashboardPage ==
    View({useDashboard, useDashboardHistory}, {},
         {HealthHistoryChart, ChangesCard, ScanHistoryCard, RunNowButton})

CandidateAudit == View({useCandidateAudit}, {}, {})
ReviewRow == View({}, {useApproveReview, useRejectReview}, {CandidateAudit})
ReviewCard == View({useReviews}, {}, {ReviewRow})
ExecutionsCard == View({useRecentSeedJobs}, {useRetryFailed}, {})
ReseedingPage == View({}, {}, {ReviewCard, ExecutionsCard})

DiskBrowserDialog == View({useBrowseDisk}, {useMkdir}, {})
AddDiskDialog == View({useAvailableMounts}, {useCreateDisk}, {})
DisksSection ==
    View({useDisks}, {useUpdateDisk, useDeleteDisk}, {AddDiskDialog, DiskBrowserDialog})
DisksDialog == View({useDisks}, {useAssociateDisk, useDissociateDisk}, {})
TorrentClientsSection ==
    View({useTorrentClients, useDisks},
         {useCreateTorrentClient, useUpdateTorrentClient, useDeleteTorrentClient}, {DisksDialog})
Mapping == View({}, {}, {DisksSection, TorrentClientsSection})

ExclusionsSection == View({exclusionPatterns}, {useInvalidateLibrary}, {})
TrackerClientSelect == View({useTorrentClients}, {}, {})
UploadProfileDialog ==
    View({useUploadProfile, useBundledUploadProfiles},
         {useCreateUploadProfile, useUpdateUploadProfile, useDeleteUploadProfile}, {})
TrackersSection ==
    View({useTrackers, useBundledUploadProfiles},
         {useCreateTracker, useUpdateTracker, useDeleteTracker},
         {TrackerClientSelect, UploadProfileDialog})
IntegrationsSection ==
    View({useRadarrInstances, useSonarrInstances},
         {useCreateRadarrInstance, useUpdateRadarrInstance, useDeleteRadarrInstance,
          useCreateSonarrInstance, useUpdateSonarrInstance, useDeleteSonarrInstance}, {})
Integrations == View({}, {}, {TrackersSection, IntegrationsSection})
ApplicationSection == View({useAppInfo, useUpdateCheck}, {}, {})
LogsSection == View({useLogs}, {}, {})

\* Written, but not among the routes of this version.
UploadQueuePage == View({useUploads}, {}, {})
NewUploadPage ==
    View({useUpload, useDisks, useTrackers, useUploadProfile, useTorrentClients},
         {useCreateUpload, usePrepareUpload, usePatchUpload, useConfirmUpload}, {DiskBrowserDialog})

AppSidebarFooter == View({useDashboard, useHealth}, {}, {})
RunStatusIndicator == View({useRuns}, {}, {})
ActivityStack == View({useRecentSeedJobs}, {}, {})
AppLayout == View({}, {}, {AppSidebarFooter, RunStatusIndicator, ActivityStack})

\* The configuration shows one of its tabs.
Pages ==
    {PosterView, FolderView, TorrentFolderView, DashboardPage, ReseedingPage, Mapping,
     ExclusionsSection, Integrations, ApplicationSection, LogsSection, UploadQueuePage, NewUploadPage}

Mounted(p) == View({}, {}, {AppLayout, p}).shows
Queries == UNION {Mounted(p) : p \in Pages}
Mutations == UNION {p.does : p \in Pages}

Affected(qu, mu) == qu.reads \cap mu.writes # {}

\* An invalidation reaches every query whose key begins with the key given.
Reaches(keys, qu) == \E key \in keys : IsPrefix(key, qu.key)
Matches(qu, mu) == Reaches(mu.invalidates \union mu.local, qu)

-----------------------------------------------------------------------------
TypeOK ==
    /\ q \in Queries /\ m \in Mutations /\ page \in Pages
    /\ write \in {"idle", "sent", "answered"}
    /\ cached \in {"nothing", "before", "after"}
    /\ flight \in {"none", "asked", "before", "after"}
    /\ joined \in BOOLEAN /\ left \in BOOLEAN /\ missed \in BOOLEAN
    /\ writes \in 0 .. MaxWrites /\ visits \in 0 .. MaxVisits

OnScreen == q \in Mounted(page)

Init ==
    /\ m \in Mutations /\ q \in Queries /\ (Affected(q, m) \/ Matches(q, m))
    /\ page \in {p \in Pages : m \in p.does}
    /\ write = "idle" /\ joined = FALSE /\ left = FALSE /\ missed = FALSE /\ writes = 0 /\ visits = 0
    /\ cached = "nothing"
    /\ flight = IF OnScreen THEN "asked" ELSE "none"

\* A read begins: whatever was missed is read.
Ask == flight' = "asked" /\ missed' = FALSE

\* A page is opened: its queries are read again, a read left in flight is waited for.
Open(p) ==
    /\ visits < MaxVisits /\ visits' = visits + 1
    /\ p # page /\ page' = p /\ left' = (left \/ (write # "idle" /\ m.local # {}))
    /\ IF q \in Mounted(p) /\ ~OnScreen
       THEN /\ joined' = (joined \/ flight # "none")
            /\ IF flight = "none" /\ (q \notin Permanent \/ cached = "nothing")
               THEN Ask ELSE UNCHANGED <<flight, missed>>
       ELSE UNCHANGED <<flight, joined, missed>>
    /\ UNCHANGED <<q, m, write, cached, writes>>

\* The interval of the query, or the focus of the window.
Poll ==
    /\ OnScreen /\ q \notin Permanent /\ flight = "none" /\ Ask /\ joined' = FALSE
    /\ UNCHANGED <<q, m, page, write, cached, left, writes, visits>>

AnswerRead ==
    /\ flight = "asked" /\ flight' = "after"
    /\ UNCHANGED <<q, m, page, write, cached, joined, left, missed, writes, visits>>

DeliverRead ==
    /\ flight \in {"before", "after"} /\ flight' = "none" /\ cached' = flight
    /\ UNCHANGED <<q, m, page, write, joined, left, missed, writes, visits>>

\* What was read before stays.
FailRead ==
    /\ flight # "none" /\ flight' = "none" /\ missed' = TRUE
    /\ UNCHANGED <<q, m, page, write, cached, joined, left, writes, visits>>

Mutate ==
    /\ write = "idle" /\ m \in page.does /\ writes < MaxWrites
    /\ write' = "sent" /\ writes' = writes + 1 /\ left' = FALSE
    /\ UNCHANGED <<q, m, page, cached, flight, joined, missed, visits>>

\* The server writes: what was read so far is from before.
Written ==
    /\ cached' = IF Affected(q, m) /\ cached = "after" THEN "before" ELSE cached
    /\ flight' = IF Affected(q, m) /\ flight = "after" THEN "before" ELSE flight

Serve ==
    /\ write = "sent" /\ write' = "answered" /\ Written
    /\ UNCHANGED <<q, m, page, joined, left, missed, writes, visits>>

\* The write fails, or its answer is lost after it was carried out: nothing is
\* invalidated.
Fail ==
    /\ write = "sent" /\ write' = "idle"
    /\ \/ Written /\ missed' = TRUE
       \/ UNCHANGED <<cached, flight, missed>>
    /\ UNCHANGED <<q, m, page, joined, left, writes, visits>>

\* What is invalidated: all, or the keys of the hook if the page was left.
Invalidated == IF left THEN m.invalidates ELSE m.invalidates \union m.local

\* onSuccess: what is on the screen is read again.  A read in flight is dropped for the
\* new one if the query has data; the first one is waited for.
Invalidate ==
    /\ write = "answered" /\ write' = "idle"
    /\ LET waits == cached = "nothing" /\ flight # "none"
       IN IF OnScreen /\ Reaches(Invalidated, q)
          THEN /\ joined' = waits
               /\ IF waits THEN UNCHANGED <<flight, missed>> ELSE Ask
          ELSE /\ missed' = (missed \/ (left /\ Reaches(m.local, q)))
               /\ UNCHANGED <<flight, joined>>
    /\ UNCHANGED <<q, m, page, cached, left, writes, visits>>

Next ==
    \/ \E p \in Pages : Open(p)
    \/ Poll \/ AnswerRead \/ DeliverRead \/ FailRead
    \/ Mutate \/ Serve \/ Fail \/ Invalidate

Spec == Init /\ [][Next]_vars

-----------------------------------------------------------------------------
\* Queries that are read again by themselves every few seconds.
Polled == {useDashboard, useDashboardChanges}

\* What the tables leave out: a query on the screen beside a mutation, or opened
\* while the mutation is in flight, that the write changes and nothing reads again.
Forgotten ==
    {<<useTorrentClients, useDeleteDisk>>}
    \union {useLibraryItems, useMediaFiles, useItemDetail} \X {useRetryFailed}
    \union {useUploads} \X {usePrepareUpload, usePatchUpload}

\* Once nothing is in flight a page shows the data as the tab's last write left them,
\* whatever was being read when the write was sent, carried out and answered, and
\* whatever pages were opened meanwhile; except for a read that was found in flight
\* and waited for (joined), for what the tables forget, and until the next read when the
\* last one failed, the answer of the write was lost, or the exclusions were changed and
\* their page left before the answer, which drops the invalidation of the library
\* (missed).
OwnWritesShown ==
    (OnScreen /\ write = "idle" /\ flight = "none" /\ cached # "nothing" /\ ~joined /\ ~missed
        /\ q \notin Polled /\ <<q, m>> \notin Forgotten)
    => cached = "after"
=============================================================================
