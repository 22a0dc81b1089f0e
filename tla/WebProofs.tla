-------------------------------- MODULE WebProofs --------------------------------
(***************************************************************************)
(* The cache of queries and the notifications of the reseeding page, for   *)
(* any number of writes, pages opened, reviews, checks and restarts: a     *)
(* page shows the writes of its own tab, and the stack stays cut and in    *)
(* order.  With the other parts, the types of the whole web interface.     *)
(***************************************************************************)
EXTENDS ConfigProofs, ViewProofs

-----------------------------------------------------------------------------
(* The tables of queries and mutations                                      *)

Under(key, qu) == Q!IsPrefix(key, qu.key)

\* Under which key the queries are that read each kind of data.
Placed(qu) ==
    /\ "disk" \in qu.reads => Under(<<"disks">>, qu)
    /\ "directory" \in qu.reads => Under(<<"disks", "id", "browse">>, qu)
    /\ "torrent_client" \in qu.reads => Under(<<"torrent-clients">>, qu)
    /\ "association" \in qu.reads => Under(<<"torrent-clients">>, qu) /\ qu = Q!useTorrentClients
    /\ "tracker" \in qu.reads => Under(<<"trackers">>, qu)
    /\ "upload_profile" \in qu.reads => /\ Under(<<"trackers">>, qu)
                                        /\ Under(<<"trackers", "id", "upload-profile">>, qu)
    /\ "radarr_instance" \in qu.reads => Under(<<"radarr-instances">>, qu)
    /\ "sonarr_instance" \in qu.reads => Under(<<"sonarr-instances">>, qu)
    /\ "upload" \in qu.reads => /\ Under(<<"uploads">>, qu)
                                /\ Under(<<"uploads", "id">>, qu) \/ qu = Q!useUploads
    /\ "exclusion" \in qu.reads => \/ Under(<<"library">>, qu)
                                   \/ Under(<<"settings", "exclusion_patterns">>, qu)
    /\ "review" \in qu.reads =>
        \/ Under(<<"reviews">>, qu)
        \/ Under(<<"library">>, qu) /\ qu \in {Q!useLibraryItems, Q!useMediaFiles, Q!useItemDetail}
        \/ qu \in Q!Polled
    /\ "run" \in qu.reads => Under(<<"runs">>, qu) \/ Under(<<"dashboard">>, qu)
    /\ "cancel_request" \in qu.reads => Under(<<"runs">>, qu)

\* A key begins with itself, and with its own beginning.
LEMMA Prefixes ==
  ASSUME NEW a, NEW b, NEW c
  PROVE  /\ Q!IsPrefix(<<a>>, <<a>>) /\ Q!IsPrefix(<<a>>, <<a, b>>)
         /\ Q!IsPrefix(<<a>>, <<a, b, c>>)
         /\ Q!IsPrefix(<<a, b>>, <<a, b>>) /\ Q!IsPrefix(<<a, b, c>>, <<a, b, c>>)
  BY DEF Q!IsPrefix

\* That is where the queries of the hooks are.
LEMMA QueriesPlaced ==
  /\ Placed(Q!useDisks) /\ Placed(Q!useAvailableMounts) /\ Placed(Q!useBrowseDisk)
  /\ Placed(Q!useTorrentClients) /\ Placed(Q!useTrackers) /\ Placed(Q!useBundledUploadProfiles)
  /\ Placed(Q!useUploadProfile) /\ Placed(Q!useRadarrInstances) /\ Placed(Q!useSonarrInstances)
  /\ Placed(Q!useUploads) /\ Placed(Q!useUpload) /\ Placed(Q!useLibraryItems)
  /\ Placed(Q!useMediaFiles) /\ Placed(Q!useSeedFiles) /\ Placed(Q!useUnmatched)
  /\ Placed(Q!useLibraryDuplicates) /\ Placed(Q!useItemDetail) /\ Placed(Q!useReviews)
  /\ Placed(Q!useRecentSeedJobs) /\ Placed(Q!useFailedSeedJobs) /\ Placed(Q!useCandidateAudit)
  /\ Placed(Q!useRuns) /\ Placed(Q!useDashboard) /\ Placed(Q!useDashboardHistory)
  /\ Placed(Q!useDashboardChanges) /\ Placed(Q!exclusionPatterns) /\ Placed(Q!useHealth)
  /\ Placed(Q!useAppInfo) /\ Placed(Q!useUpdateCheck) /\ Placed(Q!useLogs)
<1>1. Placed(Q!useDisks)
  BY Prefixes DEF Placed, Under, Q!useDisks, Q!Query
<1>2. Placed(Q!useAvailableMounts)
  BY Prefixes DEF Placed, Under, Q!useAvailableMounts, Q!Query
<1>3. Placed(Q!useBrowseDisk)
  BY Prefixes DEF Placed, Under, Q!useBrowseDisk, Q!Query
<1>4. Placed(Q!useTorrentClients)
  BY Prefixes DEF Placed, Under, Q!useTorrentClients, Q!Query
<1>5. Placed(Q!useTrackers)
  BY Prefixes DEF Placed, Under, Q!useTrackers, Q!Query
<1>6. Placed(Q!useBundledUploadProfiles)
  BY Prefixes DEF Placed, Under, Q!useBundledUploadProfiles, Q!Query
<1>7. Placed(Q!useUploadProfile)
  BY Prefixes DEF Placed, Under, Q!useUploadProfile, Q!Query
<1>8. Placed(Q!useRadarrInstances)
  BY Prefixes DEF Placed, Under, Q!useRadarrInstances, Q!Query
<1>9. Placed(Q!useSonarrInstances)
  BY Prefixes DEF Placed, Under, Q!useSonarrInstances, Q!Query
<1>10. Placed(Q!useUploads)
  BY Prefixes DEF Placed, Under, Q!useUploads, Q!Query
<1>11. Placed(Q!useUpload)
  BY Prefixes DEF Placed, Under, Q!useUpload, Q!Query
<1>12. Placed(Q!useLibraryItems)
  BY Prefixes DEF Placed, Under, Q!useLibraryItems, Q!Query
<1>13. Placed(Q!useMediaFiles)
  BY Prefixes DEF Placed, Under, Q!useMediaFiles, Q!Query
<1>14. Placed(Q!useSeedFiles)
  BY Prefixes DEF Placed, Under, Q!useSeedFiles, Q!Query
<1>15. Placed(Q!useUnmatched)
  BY Prefixes DEF Placed, Under, Q!useUnmatched, Q!Query
<1>16. Placed(Q!useLibraryDuplicates)
  BY Prefixes DEF Placed, Under, Q!useLibraryDuplicates, Q!Query
<1>17. Placed(Q!useItemDetail)
  BY Prefixes DEF Placed, Under, Q!useItemDetail, Q!Query
<1>18. Placed(Q!useReviews)
  BY Prefixes DEF Placed, Under, Q!useReviews, Q!Query
<1>19. Placed(Q!useRecentSeedJobs)
  BY Prefixes DEF Placed, Under, Q!useRecentSeedJobs, Q!Query
<1>20. Placed(Q!useFailedSeedJobs)
  BY Prefixes DEF Placed, Under, Q!useFailedSeedJobs, Q!Query
<1>21. Placed(Q!useCandidateAudit)
  BY Prefixes DEF Placed, Under, Q!useCandidateAudit, Q!Query
<1>22. Placed(Q!useRuns)
  BY Prefixes DEF Placed, Under, Q!useRuns, Q!Query
<1>23. Placed(Q!useDashboard)
  BY Prefixes DEF Placed, Under, Q!useDashboard, Q!Query, Q!Polled
<1>24. Placed(Q!useDashboardHistory)
  BY Prefixes DEF Placed, Under, Q!useDashboardHistory, Q!Query
<1>25. Placed(Q!useDashboardChanges)
  BY Prefixes DEF Placed, Under, Q!useDashboardChanges, Q!Query, Q!Polled
<1>26. Placed(Q!exclusionPatterns)
  BY Prefixes DEF Placed, Under, Q!exclusionPatterns, Q!Query
<1>27. Placed(Q!useHealth)
  BY Prefixes DEF Placed, Under, Q!useHealth, Q!Query
<1>28. Placed(Q!useAppInfo)
  BY Prefixes DEF Placed, Under, Q!useAppInfo, Q!Query
<1>29. Placed(Q!useUpdateCheck)
  BY Prefixes DEF Placed, Under, Q!useUpdateCheck, Q!Query
<1>30. Placed(Q!useLogs)
  BY Prefixes DEF Placed, Under, Q!useLogs, Q!Query
<1> QED
  BY <1>1, <1>2, <1>3, <1>4, <1>5, <1>6, <1>7, <1>8, <1>9, <1>10, <1>11, <1>12, <1>13, <1>14,
      <1>15, <1>16, <1>17, <1>18, <1>19, <1>20, <1>21, <1>22, <1>23, <1>24, <1>25, <1>26, <1>27,
      <1>28, <1>29, <1>30

\* What the write of mu changes, mu reads again, but for what the tables forget.
ReadAgain(mu) ==
    \A qu : Placed(qu) /\ Q!Affected(qu, mu) =>
        Q!Matches(qu, mu) \/ qu \in Q!Polled \/ <<qu, mu>> \in Q!Forgotten

\* So do all the mutations of the hooks.
LEMMA MutationsReadAgain ==
  /\ ReadAgain(Q!useCreateDisk) /\ ReadAgain(Q!useUpdateDisk) /\ ReadAgain(Q!useDeleteDisk)
  /\ ReadAgain(Q!useMkdir) /\ ReadAgain(Q!useCreateTorrentClient)
  /\ ReadAgain(Q!useUpdateTorrentClient) /\ ReadAgain(Q!useDeleteTorrentClient)
  /\ ReadAgain(Q!useAssociateDisk) /\ ReadAgain(Q!useDissociateDisk)
  /\ ReadAgain(Q!useCreateTracker) /\ ReadAgain(Q!useUpdateTracker)
  /\ ReadAgain(Q!useDeleteTracker) /\ ReadAgain(Q!useCreateUploadProfile)
  /\ ReadAgain(Q!useUpdateUploadProfile) /\ ReadAgain(Q!useDeleteUploadProfile)
  /\ ReadAgain(Q!useCreateRadarrInstance) /\ ReadAgain(Q!useUpdateRadarrInstance)
  /\ ReadAgain(Q!useDeleteRadarrInstance) /\ ReadAgain(Q!useCreateSonarrInstance)
  /\ ReadAgain(Q!useUpdateSonarrInstance) /\ ReadAgain(Q!useDeleteSonarrInstance)
  /\ ReadAgain(Q!useCreateUpload) /\ ReadAgain(Q!usePrepareUpload)
  /\ ReadAgain(Q!usePatchUpload) /\ ReadAgain(Q!useConfirmUpload) /\ ReadAgain(Q!useTriggerRun)
  /\ ReadAgain(Q!useCancelRun) /\ ReadAgain(Q!useApproveReview) /\ ReadAgain(Q!useRejectReview)
  /\ ReadAgain(Q!useRetryFailed) /\ ReadAgain(Q!useReconcileNow) /\ ReadAgain(Q!useSearchNow)
  /\ ReadAgain(Q!useExcludeFile) /\ ReadAgain(Q!useInvalidateLibrary)
<1>1. ReadAgain(Q!useCreateDisk)
  BY DEF ReadAgain, Placed, Under, Q!Affected, Q!Matches, Q!Reaches, Q!useCreateDisk, Q!Mutation
<1>2. ReadAgain(Q!useUpdateDisk)
  BY DEF ReadAgain, Placed, Under, Q!Affected, Q!Matches, Q!Reaches, Q!useUpdateDisk, Q!Mutation
<1>3. ReadAgain(Q!useDeleteDisk)
  BY DEF ReadAgain, Placed, Under, Q!Affected, Q!Matches, Q!Reaches, Q!useDeleteDisk, Q!Mutation,
      Q!Forgotten
<1>4. ReadAgain(Q!useMkdir)
  BY DEF ReadAgain, Placed, Under, Q!Affected, Q!Matches, Q!Reaches, Q!useMkdir, Q!Mutation
<1>5. ReadAgain(Q!useCreateTorrentClient)
  BY DEF ReadAgain, Placed, Under, Q!Affected, Q!Matches, Q!Reaches, Q!useCreateTorrentClient, Q!Mutation
<1>6. ReadAgain(Q!useUpdateTorrentClient)
  BY DEF ReadAgain, Placed, Under, Q!Affected, Q!Matches, Q!Reaches, Q!useUpdateTorrentClient, Q!Mutation
<1>7. ReadAgain(Q!useDeleteTorrentClient)
  BY DEF ReadAgain, Placed, Under, Q!Affected, Q!Matches, Q!Reaches, Q!useDeleteTorrentClient, Q!Mutation
<1>8. ReadAgain(Q!useAssociateDisk)
  BY DEF ReadAgain, Placed, Under, Q!Affected, Q!Matches, Q!Reaches, Q!useAssociateDisk, Q!Mutation
<1>9. ReadAgain(Q!useDissociateDisk)
  BY DEF ReadAgain, Placed, Under, Q!Affected, Q!Matches, Q!Reaches, Q!useDissociateDisk, Q!Mutation
<1>10. ReadAgain(Q!useCreateTracker)
  BY DEF ReadAgain, Placed, Under, Q!Affected, Q!Matches, Q!Reaches, Q!useCreateTracker, Q!Mutation
<1>11. ReadAgain(Q!useUpdateTracker)
  BY DEF ReadAgain, Placed, Under, Q!Affected, Q!Matches, Q!Reaches, Q!useUpdateTracker, Q!Mutation
<1>12. ReadAgain(Q!useDeleteTracker)
  BY DEF ReadAgain, Placed, Under, Q!Affected, Q!Matches, Q!Reaches, Q!useDeleteTracker, Q!Mutation
<1>13. ReadAgain(Q!useCreateUploadProfile)
  BY DEF ReadAgain, Placed, Under, Q!Affected, Q!Matches, Q!Reaches, Q!useCreateUploadProfile, Q!Mutation
<1>14. ReadAgain(Q!useUpdateUploadProfile)
  BY DEF ReadAgain, Placed, Under, Q!Affected, Q!Matches, Q!Reaches, Q!useUpdateUploadProfile, Q!Mutation
<1>15. ReadAgain(Q!useDeleteUploadProfile)
  BY DEF ReadAgain, Placed, Under, Q!Affected, Q!Matches, Q!Reaches, Q!useDeleteUploadProfile, Q!Mutation
<1>16. ReadAgain(Q!useCreateRadarrInstance)
  BY DEF ReadAgain, Placed, Under, Q!Affected, Q!Matches, Q!Reaches, Q!useCreateRadarrInstance, Q!Mutation
<1>17. ReadAgain(Q!useUpdateRadarrInstance)
  BY DEF ReadAgain, Placed, Under, Q!Affected, Q!Matches, Q!Reaches, Q!useUpdateRadarrInstance, Q!Mutation
<1>18. ReadAgain(Q!useDeleteRadarrInstance)
  BY DEF ReadAgain, Placed, Under, Q!Affected, Q!Matches, Q!Reaches, Q!useDeleteRadarrInstance, Q!Mutation
<1>19. ReadAgain(Q!useCreateSonarrInstance)
  BY DEF ReadAgain, Placed, Under, Q!Affected, Q!Matches, Q!Reaches, Q!useCreateSonarrInstance, Q!Mutation
<1>20. ReadAgain(Q!useUpdateSonarrInstance)
  BY DEF ReadAgain, Placed, Under, Q!Affected, Q!Matches, Q!Reaches, Q!useUpdateSonarrInstance, Q!Mutation
<1>21. ReadAgain(Q!useDeleteSonarrInstance)
  BY DEF ReadAgain, Placed, Under, Q!Affected, Q!Matches, Q!Reaches, Q!useDeleteSonarrInstance, Q!Mutation
<1>22. ReadAgain(Q!useCreateUpload)
  BY DEF ReadAgain, Placed, Under, Q!Affected, Q!Matches, Q!Reaches, Q!useCreateUpload, Q!Mutation
<1>23. ReadAgain(Q!usePrepareUpload)
  BY DEF ReadAgain, Placed, Under, Q!Affected, Q!Matches, Q!Reaches, Q!usePrepareUpload, Q!Mutation,
      Q!Forgotten
<1>24. ReadAgain(Q!usePatchUpload)
  BY DEF ReadAgain, Placed, Under, Q!Affected, Q!Matches, Q!Reaches, Q!usePatchUpload, Q!Mutation,
      Q!Forgotten
<1>25. ReadAgain(Q!useConfirmUpload)
  BY DEF ReadAgain, Placed, Under, Q!Affected, Q!Matches, Q!Reaches, Q!useConfirmUpload, Q!Mutation
<1>26. ReadAgain(Q!useTriggerRun)
  BY DEF ReadAgain, Placed, Under, Q!Affected, Q!Matches, Q!Reaches, Q!useTriggerRun, Q!Mutation
<1>27. ReadAgain(Q!useCancelRun)
  BY DEF ReadAgain, Placed, Under, Q!Affected, Q!Matches, Q!Reaches, Q!useCancelRun, Q!Mutation
<1>28. ReadAgain(Q!useApproveReview)
  BY DEF ReadAgain, Placed, Under, Q!Affected, Q!Matches, Q!Reaches, Q!useApproveReview, Q!Mutation
<1>29. ReadAgain(Q!useRejectReview)
  BY DEF ReadAgain, Placed, Under, Q!Affected, Q!Matches, Q!Reaches, Q!useRejectReview, Q!Mutation
<1>30. ReadAgain(Q!useRetryFailed)
  BY DEF ReadAgain, Placed, Under, Q!Affected, Q!Matches, Q!Reaches, Q!useRetryFailed, Q!Mutation,
      Q!Forgotten
<1>31. ReadAgain(Q!useReconcileNow)
  BY DEF ReadAgain, Placed, Under, Q!Affected, Q!Matches, Q!Reaches, Q!useReconcileNow, Q!Mutation
<1>32. ReadAgain(Q!useSearchNow)
  BY DEF ReadAgain, Placed, Under, Q!Affected, Q!Matches, Q!Reaches, Q!useSearchNow, Q!Mutation
<1>33. ReadAgain(Q!useExcludeFile)
  BY DEF ReadAgain, Placed, Under, Q!Affected, Q!Matches, Q!Reaches, Q!useExcludeFile, Q!Mutation
<1>34. ReadAgain(Q!useInvalidateLibrary)
  BY DEF ReadAgain, Placed, Under, Q!Affected, Q!Matches, Q!Reaches, Q!useInvalidateLibrary, Q!Mutation
<1> QED
  BY <1>1, <1>2, <1>3, <1>4, <1>5, <1>6, <1>7, <1>8, <1>9, <1>10, <1>11, <1>12, <1>13, <1>14,
      <1>15, <1>16, <1>17, <1>18, <1>19, <1>20, <1>21, <1>22, <1>23, <1>24, <1>25, <1>26, <1>27,
      <1>28, <1>29, <1>30, <1>31, <1>32, <1>33, <1>34

\* A view shows and offers what the tables have.
Listed(view) ==
    /\ \A qu \in view.shows : Placed(qu)
    /\ \A mu \in view.does : ReadAgain(mu)

\* A view made of such views is one.
LEMMA ViewListed ==
  ASSUME NEW shows, NEW does, NEW parts,
         \A qu \in shows : Placed(qu), \A mu \in does : ReadAgain(mu),
         \A view \in parts : Listed(view)
  PROVE  Listed(Q!View(shows, does, parts))
  BY DEF Listed, Q!View

\* And so are all the pages: the tables hold for every query shown and every mutation offered.
LEMMA ViewsListed ==
  \A qu \in Q!Queries, mu \in Q!Mutations : Placed(qu) /\ ReadAgain(mu)
<1>1. Listed(Q!FileRow)
  BY ViewListed, MutationsReadAgain DEF Q!FileRow
<1>2. Listed(Q!SheetReviews)
  BY ViewListed, MutationsReadAgain DEF Q!SheetReviews
<1>3. Listed(Q!Matching)
  BY ViewListed, MutationsReadAgain DEF Q!Matching
<1>4. Listed(Q!History)
  BY ViewListed, MutationsReadAgain DEF Q!History
<1>5. Listed(Q!ItemDetailSheet)
  BY ViewListed, QueriesPlaced, <1>1, <1>2, <1>3, <1>4 DEF Q!ItemDetailSheet
<1>6. Listed(Q!PosterView)
  BY ViewListed, QueriesPlaced, <1>5 DEF Q!PosterView
<1>7. Listed(Q!FileBrowser)
  BY <1>5 DEF Q!FileBrowser
<1>8. Listed(Q!FolderView)
  BY ViewListed, QueriesPlaced, <1>7 DEF Q!FolderView
<1>9. Listed(Q!TorrentFolderView)
  BY ViewListed, QueriesPlaced, <1>7 DEF Q!TorrentFolderView
<1>10. Listed(Q!HealthHistoryChart)
  BY ViewListed, QueriesPlaced DEF Q!HealthHistoryChart
<1>11. Listed(Q!ChangesCard)
  BY ViewListed, QueriesPlaced, <1>5 DEF Q!ChangesCard
<1>12. Listed(Q!ScanHistoryCard)
  BY ViewListed, QueriesPlaced DEF Q!ScanHistoryCard
<1>13. Listed(Q!RunNowButton)
  BY ViewListed, QueriesPlaced, MutationsReadAgain DEF Q!RunNowButton
<1>14. Listed(Q!DashboardPage)
  BY ViewListed, QueriesPlaced, <1>10, <1>11, <1>12, <1>13 DEF Q!DashboardPage
<1>15. Listed(Q!CandidateAudit)
  BY ViewListed, QueriesPlaced DEF Q!CandidateAudit
<1>16. Listed(Q!ReviewRow)
  BY ViewListed, MutationsReadAgain, <1>15 DEF Q!ReviewRow
<1>17. Listed(Q!ReviewCard)
  BY ViewListed, QueriesPlaced, <1>16 DEF Q!ReviewCard
<1>18. Listed(Q!ExecutionsCard)
  BY ViewListed, QueriesPlaced, MutationsReadAgain DEF Q!ExecutionsCard
<1>19. Listed(Q!ReseedingPage)
  BY ViewListed, <1>17, <1>18 DEF Q!ReseedingPage
<1>20. Listed(Q!DiskBrowserDialog)
  BY ViewListed, QueriesPlaced, MutationsReadAgain DEF Q!DiskBrowserDialog
<1>21. Listed(Q!AddDiskDialog)
  BY ViewListed, QueriesPlaced, MutationsReadAgain DEF Q!AddDiskDialog
<1>22. Listed(Q!DisksSection)
  BY ViewListed, QueriesPlaced, MutationsReadAgain, <1>21, <1>20 DEF Q!DisksSection
<1>23. Listed(Q!DisksDialog)
  BY ViewListed, QueriesPlaced, MutationsReadAgain DEF Q!DisksDialog
<1>24. Listed(Q!TorrentClientsSection)
  BY ViewListed, QueriesPlaced, MutationsReadAgain, <1>23 DEF Q!TorrentClientsSection
<1>25. Listed(Q!Mapping)
  BY ViewListed, <1>22, <1>24 DEF Q!Mapping
<1>26. Listed(Q!ExclusionsSection)
  BY ViewListed, QueriesPlaced, MutationsReadAgain DEF Q!ExclusionsSection
<1>27. Listed(Q!TrackerClientSelect)
  BY ViewListed, QueriesPlaced DEF Q!TrackerClientSelect
<1>28. Listed(Q!UploadProfileDialog)
  BY ViewListed, QueriesPlaced, MutationsReadAgain DEF Q!UploadProfileDialog
<1>29. Listed(Q!TrackersSection)
  BY ViewListed, QueriesPlaced, MutationsReadAgain, <1>27, <1>28 DEF Q!TrackersSection
<1>30. Listed(Q!IntegrationsSection)
  BY ViewListed, QueriesPlaced, MutationsReadAgain DEF Q!IntegrationsSection
<1>31. Listed(Q!Integrations)
  BY ViewListed, <1>29, <1>30 DEF Q!Integrations
<1>32. Listed(Q!ApplicationSection)
  BY ViewListed, QueriesPlaced DEF Q!ApplicationSection
<1>33. Listed(Q!LogsSection)
  BY ViewListed, QueriesPlaced DEF Q!LogsSection
<1>34. Listed(Q!UploadQueuePage)
  BY ViewListed, QueriesPlaced DEF Q!UploadQueuePage
<1>35. Listed(Q!NewUploadPage)
  BY ViewListed, QueriesPlaced, MutationsReadAgain, <1>20 DEF Q!NewUploadPage
<1>36. Listed(Q!AppSidebarFooter)
  BY ViewListed, QueriesPlaced DEF Q!AppSidebarFooter
<1>37. Listed(Q!RunStatusIndicator)
  BY ViewListed, QueriesPlaced DEF Q!RunStatusIndicator
<1>38. Listed(Q!ActivityStack)
  BY ViewListed, QueriesPlaced DEF Q!ActivityStack
<1>39. Listed(Q!AppLayout)
  BY ViewListed, <1>36, <1>37, <1>38 DEF Q!AppLayout
<1>40. \A p \in Q!Pages : Listed(p)
  BY <1>6, <1>8, <1>9, <1>14, <1>19, <1>25, <1>26, <1>31, <1>32, <1>33, <1>34, <1>35 DEF Q!Pages
<1>41. \A p \in Q!Pages : Listed(Q!View({}, {}, {Q!AppLayout, p}))
  BY ViewListed, <1>39, <1>40
<1> QED
  BY <1>40, <1>41 DEF Listed, Q!Queries, Q!Mutations, Q!Mounted

-----------------------------------------------------------------------------
(* The cache of queries                                                     *)

LOCAL q == v1
LOCAL m == v2
LOCAL page == v3
LOCAL write == v4
LOCAL cached == v5
LOCAL flight == v6
LOCAL joined == v7
LOCAL gone == v8
LOCAL unread == v9
LOCAL writes == v10
LOCAL visits == v11
USE DEF q, m, page, write, cached, flight, joined, gone, unread, writes, visits

\* The promise is about these pairs.
Promised == q \notin Q!Polled /\ <<q, m>> \notin Q!Forgotten

\* A write that does not change what the query reads leaves nothing from before it.
NeverBefore == ~Q!Affected(q, m) => cached # "before" /\ flight # "before"

\* A write that does is followed by a read of what is on the screen: unless its answer is
\* waited for, the page waits for a read of another visit, or a read was missed, nothing
\* from before the write is on its way, and what the cache has from before is being read.
BeforeIsReadAgain ==
    (Promised /\ Q!OnScreen /\ write # "answered" /\ ~joined /\ ~unread) =>
        flight # "before" /\ (cached = "before" => flight # "none")

CacheInv == Q!TypeOK /\ NeverBefore /\ BeforeIsReadAgain

\* The query of a promised pair is matched by the mutation, unless it is not affected by
\* it; one that is kept for good is affected by nothing.
LEMMA PromisedIsMatched ==
  ASSUME Q!TypeOK
  PROVE  /\ Promised /\ Q!Affected(q, m) => Q!Matches(q, m)
         /\ Q!Affected(q, m) => q \notin Q!Permanent
<1>1. q \in Q!Queries /\ m \in Q!Mutations
  BY DEF Q!TypeOK
<1>2. Placed(q) /\ ReadAgain(m)
  BY <1>1, ViewsListed
<1>3. Promised /\ Q!Affected(q, m) => Q!Matches(q, m)
  BY <1>2 DEF ReadAgain, Promised
<1>4. Q!Affected(q, m) => q \notin Q!Permanent
  BY DEF Q!Affected, Q!Permanent, Q!useHealth, Q!Query
<1> QED BY <1>3, <1>4

\* In the part of the query cache: what the cache has from before a write of the tab is read
\* again, for any number of writes and of pages opened, unless that read is missed (it
\* fails, the write's answer is lost, or the page of the exclusions is left).
THEOREM CacheInvariance == Spec => [](part = "cache" => CacheInv)
<1> DEFINE Inv == part = "cache" => CacheInv
<1>1. Init => Inv
  <2> SUFFICES ASSUME Init, part = "cache"
               PROVE  CacheInv
    OBVIOUS
  <2>1. Q!Init
    BY OnePartBegins
  <2>2. q \in Q!Queries /\ m \in Q!Mutations /\ page \in Q!Pages
    BY <2>1 DEF Q!Init
  <2>3. write = "idle" /\ joined = FALSE /\ gone = FALSE /\ unread = FALSE
        /\ writes = 0 /\ visits = 0 /\ cached = "nothing"
    BY <2>1 DEF Q!Init
  <2>4. flight = IF Q!OnScreen THEN "asked" ELSE "none"
    BY <2>1 DEF Q!Init
  <2>5. 0 \in 0 .. MaxWrites /\ 0 \in 0 .. MaxVisits
    BY BoundsAssumption
  <2>6. flight \in {"asked", "none"}
    BY <2>4
  <2>7. Q!TypeOK
    BY <2>2, <2>3, <2>5, <2>6 DEF Q!TypeOK
  <2> QED BY <2>3, <2>6, <2>7 DEF CacheInv, NeverBefore, BeforeIsReadAgain
<1>2. Inv /\ [Next]_vars => Inv'
  <2> SUFFICES ASSUME Inv, [Next]_vars, part' = "cache"
               PROVE  CacheInv'
    OBVIOUS
  <2>0. CacheInv /\ [Q!Next]_(Q!vars)
    BY OnePartSteps
  <2>T. Q!TypeOK
    BY <2>0 DEF CacheInv
  <2>M. /\ Promised /\ Q!Affected(q, m) => Q!Matches(q, m)
        /\ Q!Affected(q, m) => q \notin Q!Permanent
    BY <2>T, PromisedIsMatched
  <2>1. CASE UNCHANGED Q!vars
    BY <2>0, <2>1 DEF CacheInv, Q!TypeOK, NeverBefore, BeforeIsReadAgain, Promised, Q!vars,
                      Q!OnScreen, Q!Affected
  <2>2. ASSUME NEW p \in Q!Pages, Q!Open(p)
        PROVE  CacheInv'
    <3>1. Q!TypeOK'
      <4>1. visits' \in 0 .. MaxVisits
        <5>1. visits \in 0 .. MaxVisits /\ visits < MaxVisits /\ visits' = visits + 1
          BY <2>2, <2>T DEF Q!Open, Q!TypeOK
        <5> QED BY <5>1, BoundsAssumption
      <4>2. /\ flight' \in {"none", "asked", "before", "after"}
            /\ joined' \in BOOLEAN /\ gone' \in BOOLEAN /\ unread' \in BOOLEAN
        BY <2>2, <2>T DEF Q!Open, Q!Ask, Q!TypeOK
      <4>3. UNCHANGED <<q, m, write, cached, writes>> /\ page' = p
        BY <2>2 DEF Q!Open
      <4> QED BY <2>T, <4>1, <4>2, <4>3 DEF Q!TypeOK
    <3>2. NeverBefore'
      BY <2>0, <2>2 DEF CacheInv, NeverBefore, Q!Open, Q!Ask, Q!Affected
    <3>3. BeforeIsReadAgain'
      <4> SUFFICES ASSUME Promised, Q!OnScreen', write # "answered", ~joined', ~unread'
                   PROVE  flight' # "before" /\ (cached = "before" => flight' # "none")
        BY <2>2 DEF BeforeIsReadAgain, Q!Open, Promised
      <4>1. CASE Q!OnScreen
        BY <2>0, <2>2, <4>1 DEF CacheInv, BeforeIsReadAgain, Q!Open, Q!OnScreen
      <4>2. CASE ~Q!OnScreen
        <5>1. q \in Q!Mounted(p)
          BY <2>2 DEF Q!OnScreen, Q!Open
        <5>2. /\ joined' = (joined \/ flight # "none")
              /\ flight' = IF flight = "none" /\ (q \notin Q!Permanent \/ cached = "nothing")
                           THEN "asked" ELSE flight
          BY <2>2, <4>2, <5>1 DEF Q!Open, Q!Ask
        <5>3. flight = "none"
          BY <5>2
        <5>4. cached = "before" => q \notin Q!Permanent
          BY <2>0, <2>M DEF CacheInv, NeverBefore
        <5> QED BY <5>2, <5>3, <5>4
      <4> QED BY <4>1, <4>2
    <3> QED BY <3>1, <3>2, <3>3 DEF CacheInv
  <2>3. CASE Q!Poll
    <3>1. Q!TypeOK'
      BY <2>3, <2>T DEF Q!Poll, Q!Ask, Q!TypeOK
    <3>2. NeverBefore' /\ BeforeIsReadAgain'
      BY <2>0, <2>3 DEF CacheInv, NeverBefore, BeforeIsReadAgain, Q!Poll, Q!Ask, Q!Affected
    <3> QED BY <3>1, <3>2 DEF CacheInv
  <2>4. CASE Q!AnswerRead
    <3>1. Q!TypeOK'
      BY <2>4, <2>T DEF Q!AnswerRead, Q!TypeOK
    <3>2. NeverBefore' /\ BeforeIsReadAgain'
      BY <2>0, <2>4 DEF CacheInv, NeverBefore, BeforeIsReadAgain, Q!AnswerRead, Q!Affected
    <3> QED BY <3>1, <3>2 DEF CacheInv
  <2>5. CASE Q!DeliverRead
    <3>1. Q!TypeOK'
      BY <2>5, <2>T DEF Q!DeliverRead, Q!TypeOK
    <3>2. NeverBefore' /\ BeforeIsReadAgain'
      BY <2>0, <2>5 DEF CacheInv, NeverBefore, BeforeIsReadAgain, Q!DeliverRead, Q!Affected,
                        Promised, Q!OnScreen
    <3> QED BY <3>1, <3>2 DEF CacheInv
  <2>6. CASE Q!Mutate
    <3>1. Q!TypeOK'
      <4>1. writes' \in 0 .. MaxWrites
        <5>1. writes \in 0 .. MaxWrites /\ writes < MaxWrites /\ writes' = writes + 1
          BY <2>6, <2>T DEF Q!Mutate, Q!TypeOK
        <5> QED BY <5>1, BoundsAssumption
      <4>2. UNCHANGED <<q, m, page, cached, flight, joined, unread, visits>>
            /\ write' = "sent" /\ gone' = FALSE
        BY <2>6 DEF Q!Mutate
      <4> QED BY <2>T, <4>1, <4>2 DEF Q!TypeOK
    <3>2. NeverBefore' /\ BeforeIsReadAgain'
      BY <2>0, <2>6 DEF CacheInv, NeverBefore, BeforeIsReadAgain, Q!Mutate, Q!Affected, Promised, Q!OnScreen
    <3> QED BY <3>1, <3>2 DEF CacheInv
  <2>7. CASE Q!Serve
    <3>1. Q!TypeOK'
      BY <2>7, <2>T DEF Q!Serve, Q!Written, Q!TypeOK
    <3>2. NeverBefore' /\ BeforeIsReadAgain'
      BY <2>0, <2>7 DEF CacheInv, NeverBefore, BeforeIsReadAgain, Q!Serve, Q!Written, Q!Affected
    <3> QED BY <3>1, <3>2 DEF CacheInv
  <2>8. CASE Q!Invalidate
    <3> DEFINE waits == cached = "nothing" /\ flight # "none"
    <3>0. /\ UNCHANGED <<q, m, page, cached, gone, writes, visits>> /\ write' = "idle"
          /\ IF Q!OnScreen /\ Q!Reaches(Q!Invalidated, q)
             THEN /\ joined' = waits
                  /\ flight' = (IF waits THEN flight ELSE "asked")
                  /\ unread' = (IF waits THEN unread ELSE FALSE)
             ELSE /\ unread' = (unread \/ (gone /\ Q!Reaches(m.local, q)))
                  /\ UNCHANGED <<flight, joined>>
      BY <2>8 DEF Q!Invalidate, Q!Ask
    <3>1. Q!TypeOK'
      <4>1. flight' \in {"none", "asked", "before", "after"}
            /\ joined' \in BOOLEAN /\ unread' \in BOOLEAN
        BY <2>T, <3>0 DEF Q!TypeOK
      <4> QED BY <2>T, <3>0, <4>1 DEF Q!TypeOK
    <3>2. NeverBefore'
      BY <2>0, <3>0 DEF CacheInv, NeverBefore, Q!Affected
    <3>3. BeforeIsReadAgain'
      <4> SUFFICES ASSUME Promised, Q!OnScreen, ~joined', ~unread'
                   PROVE  flight' # "before" /\ (cached = "before" => flight' # "none")
        BY <3>0 DEF BeforeIsReadAgain, Promised, Q!OnScreen
      <4>1. CASE Q!Matches(q, m)
        <5>1. Q!Reaches(m.invalidates, q) \/ Q!Reaches(m.local, q)
          BY <4>1 DEF Q!Matches, Q!Reaches
        <5>2. CASE Q!Reaches(Q!Invalidated, q)
          BY <3>0, <5>2
        <5>3. CASE ~Q!Reaches(Q!Invalidated, q)
          <6>1. ~(gone /\ Q!Reaches(m.local, q))
            BY <3>0, <5>3
          <6> QED BY <5>1, <5>3, <6>1 DEF Q!Invalidated, Q!Reaches
        <5> QED BY <5>2, <5>3
      <4>2. CASE ~Q!Affected(q, m)
        BY <2>0, <3>2, <3>0, <4>2 DEF CacheInv, NeverBefore, Q!Affected
      <4> QED BY <2>M, <4>1, <4>2
    <3> QED BY <3>1, <3>2, <3>3 DEF CacheInv
  <2>9. CASE Q!FailRead
    <3>1. Q!TypeOK'
      BY <2>9, <2>T DEF Q!FailRead, Q!TypeOK
    <3>2. NeverBefore' /\ BeforeIsReadAgain'
      BY <2>0, <2>9 DEF CacheInv, NeverBefore, BeforeIsReadAgain, Q!FailRead, Q!Affected
    <3> QED BY <3>1, <3>2 DEF CacheInv
  <2>10. CASE Q!Fail
    <3>1. Q!TypeOK'
      BY <2>10, <2>T DEF Q!Fail, Q!Written, Q!TypeOK
    <3>2. NeverBefore' /\ BeforeIsReadAgain'
      BY <2>0, <2>10 DEF CacheInv, NeverBefore, BeforeIsReadAgain, Q!Fail, Q!Written, Q!Affected,
                         Promised, Q!OnScreen
    <3> QED BY <3>1, <3>2 DEF CacheInv
  <2> QED BY <2>0, <2>1, <2>2, <2>3, <2>4, <2>5, <2>6, <2>7, <2>8, <2>9, <2>10 DEF Q!Next
<1> QED BY <1>1, <1>2, PTL DEF Spec

\* A page shows the writes of its own tab, once nothing is in flight and unless a read was
\* missed (OwnWritesShown names the gaps).
THEOREM WritesAreShown == Spec => []OwnWritesShown
<1>1. (part = "cache" => CacheInv) => OwnWritesShown
  <2> SUFFICES ASSUME CacheInv, Q!OnScreen, write = "idle", flight = "none", cached # "nothing",
                      ~joined, ~unread, Promised
               PROVE  cached = "after"
    BY DEF OwnWritesShown, Q!OwnWritesShown, Promised
  <2> QED BY DEF CacheInv, BeforeIsReadAgain, Q!TypeOK
<1> QED BY <1>1, CacheInvariance, PTL

-----------------------------------------------------------------------------
(* Repeating a step                                                         *)

\* What every step keeps holds to the end.
LEMMA StepByStep ==
  ASSUME NEW n \in Nat, NEW T, NEW f, f[0] \in T,
         \A i \in 1 .. n : f[i - 1] \in T => f[i] \in T
  PROVE  \A i \in 0 .. n : f[i] \in T
<1> DEFINE bad == {i \in 0 .. n : f[i] \notin T}
<1>1. ASSUME bad # {} PROVE FALSE
  <2>1. bad \in SUBSET Nat
    OBVIOUS
  <2>2. PICK i \in bad : \A k \in bad : i <= k
    BY <1>1, <2>1, Smallest
  <2>3. i \in 1 .. n
    BY <2>2
  <2>4. i - 1 \in 0 .. n /\ i - 1 \notin bad
    BY <2>2, <2>3
  <2>5. f[i - 1] \in T
    BY <2>4
  <2>6. f[i] \in T
    BY <2>3, <2>5
  <2> QED BY <2>2, <2>6
<1> QED BY <1>1

\* A step that keeps a set can be repeated from any of its members.
Repeats(f, n, first, step) == \A i \in 0 .. n : f[i] = IF i = 0 THEN first ELSE step[i][f[i - 1]]

LEMMA Repeated ==
  ASSUME NEW n \in Nat, NEW T, NEW first \in T, NEW step,
         \A i \in 1 .. n : \A x \in T : step[i][x] \in T
  PROVE  \E f \in [0 .. n -> T] : Repeats(f, n, first, step)
<1> DEFINE bad == {k \in 0 .. n : ~\E f \in [0 .. k -> T] : Repeats(f, k, first, step)}
<1>1. ASSUME bad # {} PROVE FALSE
  <2>1. bad \in SUBSET Nat
    OBVIOUS
  <2>2. PICK k \in bad : \A j \in bad : k <= j
    BY <1>1, <2>1, Smallest
  <2>3. CASE k = 0
    <3> DEFINE f == [i \in 0 .. 0 |-> first]
    <3>1. f \in [0 .. k -> T] /\ Repeats(f, k, first, step)
      BY <2>3 DEF Repeats
    <3> QED BY <2>2, <3>1
  <2>4. CASE k # 0
    <3>0. k \in 1 .. n
      BY <2>2, <2>4
    <3>1. k - 1 \in 0 .. n /\ k - 1 \notin bad
      BY <2>2, <3>0
    <3>2. PICK g \in [0 .. k - 1 -> T] : Repeats(g, k - 1, first, step)
      BY <3>1
    <3> DEFINE last == step[k][g[k - 1]]
               f == [i \in 0 .. k |-> IF i = k THEN last ELSE g[i]]
    <3>3. last \in T
      BY <3>0, <3>2
    <3>4. f \in [0 .. k -> T]
      <4>1. \A i \in 0 .. k : i # k => g[i] \in T
        BY <3>0, <3>2
      <4> QED BY <3>3, <4>1
    <3>5. ASSUME NEW i \in 0 .. k
          PROVE  f[i] = IF i = 0 THEN first ELSE step[i][f[i - 1]]
      <4>1. CASE i = k
        <5>1. f[i - 1] = g[k - 1] /\ i # 0
          BY <3>0, <4>1
        <5>2. f[i] = last
          BY <4>1
        <5> HIDE DEF f
        <5> QED BY <4>1, <5>1, <5>2
      <4>2. CASE i # k
        <5>1. i \in 0 .. k - 1 /\ f[i] = g[i]
          BY <3>0, <4>2
        <5>2. i # 0 => f[i - 1] = g[i - 1]
          BY <3>0, <5>1
        <5> HIDE DEF f, last
        <5>3. g[i] = IF i = 0 THEN first ELSE step[i][g[i - 1]]
          BY <3>2, <5>1 DEF Repeats
        <5> QED BY <5>1, <5>2, <5>3
      <4> QED BY <4>1, <4>2
    <3>6. Repeats(f, k, first, step)
      BY <3>5 DEF Repeats
    <3> HIDE DEF f
    <3> QED BY <2>2, <3>4, <3>6
  <2> QED BY <2>3, <2>4
<1>2. n \notin bad
  BY <1>1
<1>3. PICK f \in [0 .. n -> T] : Repeats(f, n, first, step)
  BY <1>2
<1> QED BY <1>3
-----------------------------------------------------------------------------
(* The reseeding page and its notifications                                 *)

LOCAL rows == v1
LOCAL checks == v2
LOCAL jobs == v3
LOCAL list == v4
LOCAL polled == v5
LOCAL lastSeen == v6
LOCAL acts == v7
LOCAL pushed == v8
LOCAL tracked == v9
LOCAL approvals == v10
LOCAL due == v11
LOCAL breaksMade == v12
USE DEF rows, checks, jobs, list, polled, lastSeen, acts, pushed, tracked, approvals, due,
        breaksMade

Statuses == {"running", "success", "error", "info"}
Texts == {"approving", "verifying", "not approved", "exec_failed", "added", "no_client", "rejected",
          "seeding", "recheck failed"} \union DOMAIN R!FinalStatus
Note == [id : Nat, status : Statuses, text : Texts, about : Reviews \union {0}]

\* The stack is cut, its notifications have the ids of their order, and what follows a check
\* was made.
StackInOrder(tab) ==
    /\ Len(tab.acts) <= MaxVisible
    /\ \A i \in 1 .. Len(tab.acts) :
            tab.acts[i].id <= tab.pushed /\ (i > 1 => tab.acts[i].id < tab.acts[i - 1].id)
    /\ \A c \in R!Checks : tab.tracked[c] <= tab.pushed

\* The tabs that have made least notifications or more.
Tabs(least) ==
    {tab \in [acts : Seq(Note), pushed : Nat, tracked : [R!Checks -> Nat]] :
        least <= tab.pushed /\ StackInOrder(tab)}

\* A notification more (pushActivity): the stack is cut and in order.
LEMMA PushTab ==
  ASSUME MaxVisible \in Nat, NEW least \in Nat, NEW tab \in Tabs(least), NEW status \in Statuses,
         NEW text \in Texts, NEW about \in Reviews \union {0}
  PROVE  /\ R!Push(tab, status, text, about) \in Tabs(least)
         /\ R!Push(tab, status, text, about).pushed = tab.pushed + 1
         /\ R!Push(tab, status, text, about).tracked = tab.tracked
<1> DEFINE new == [id |-> tab.pushed + 1, status |-> status, text |-> text, about |-> about]
           all == <<new>> \o tab.acts
           size == IF Len(all) < MaxVisible THEN Len(all) ELSE MaxVisible
           top == SubSeq(all, 1, size)
           count == tab.pushed + 1
           out == [tab EXCEPT !.pushed = count, !.acts = top]
<1>1. R!Push(tab, status, text, about) = out
  BY DEF R!Push
<1>2. /\ tab \in [acts : Seq(Note), pushed : Nat, tracked : [R!Checks -> Nat]]
      /\ least <= tab.pushed /\ StackInOrder(tab)
  BY DEF Tabs
<1>3. tab.acts \in Seq(Note) /\ tab.pushed \in Nat /\ tab.tracked \in [R!Checks -> Nat]
  BY <1>2
<1>4. new \in Note
  BY <1>3 DEF Note
<1> HIDE DEF new
<1>5. <<new>> \in Seq(Note) /\ Len(<<new>>) = 1 /\ <<new>>[1] = new
  BY <1>4
<1>6. /\ all \in Seq(Note) /\ Len(all) = Len(tab.acts) + 1
      /\ \A i \in 1 .. Len(all) : all[i] = IF i = 1 THEN new ELSE tab.acts[i - 1]
  <2>1. /\ all \in Seq(Note) /\ Len(all) = 1 + Len(tab.acts)
        /\ \A i \in 1 .. 1 + Len(tab.acts) :
              all[i] = IF i <= 1 THEN <<new>>[i] ELSE tab.acts[i - 1]
    BY <1>3, <1>5, ConcatProperties
  <2>2. Len(tab.acts) \in Nat
    BY <1>3, LenProperties
  <2> QED BY <1>5, <2>1, <2>2
<1> HIDE DEF all
<1>7. size \in 0 .. Len(all) /\ size <= MaxVisible
  BY <1>6, LenProperties
<1> HIDE DEF size
<1>8. /\ top \in Seq(Note) /\ Len(top) = size
      /\ \A i \in 1 .. size : top[i] = all[i]
  <2>1. \A i \in 1 .. size : all[i] \in Note
    BY <1>6, <1>7, ElementOfSeq
  <2>2. /\ top \in Seq(Note) /\ Len(top) = IF 1 <= size THEN size - 1 + 1 ELSE 0
        /\ \A i \in 1 .. size - 1 + 1 : top[i] = all[1 + i - 1]
    BY <1>7, <2>1, SubSeqProperties
  <2> QED BY <1>7, <2>2
<1> HIDE DEF top
<1>9. /\ out \in [acts : Seq(Note), pushed : Nat, tracked : [R!Checks -> Nat]]
      /\ out.pushed = tab.pushed + 1 /\ out.tracked = tab.tracked /\ out.acts = top
  <2>1. count \in Nat
    BY <1>3
  <2> HIDE DEF count
  <2>2. /\ out \in [acts : Seq(Note), pushed : Nat, tracked : [R!Checks -> Nat]]
        /\ out.pushed = count /\ out.tracked = tab.tracked /\ out.acts = top
    BY <1>2, <1>8, <2>1
  <2> QED BY <2>2 DEF count
<1>10. ASSUME NEW i \in 1 .. size
       PROVE  top[i].id <= tab.pushed + 1 /\ (i > 1 => top[i].id < top[i - 1].id)
  <2>0. new.id = tab.pushed + 1
    BY DEF new
  <2>1. CASE i = 1
    BY <1>3, <1>6, <1>7, <1>8, <2>0, <2>1
  <2>2. CASE i > 1
    <3>0. i - 1 \in 1 .. Len(tab.acts) /\ i - 1 \in 1 .. size /\ i \in 1 .. Len(all)
          /\ i - 1 \in 1 .. Len(all)
      BY <1>3, <1>6, <1>7, <2>2, LenProperties
    <3>1. top[i] = tab.acts[i - 1]
      BY <1>6, <1>8, <2>2, <3>0
    <3>2. top[i].id \in Nat /\ top[i].id <= tab.pushed
      <4>1. tab.acts[i - 1] \in Note
        BY <1>3, <3>0, ElementOfSeq
      <4>2. tab.acts[i - 1].id <= tab.pushed
        BY <1>2, <3>0 DEF StackInOrder
      <4> QED BY <3>1, <4>1, <4>2 DEF Note
    <3>3. CASE i = 2
      <4>1. top[i - 1] = new
        BY <1>6, <1>8, <3>0, <3>3
      <4> QED BY <1>3, <2>0, <3>2, <4>1
    <3>4. CASE i > 2
      <4>1. top[i - 1] = tab.acts[i - 2] /\ i - 1 > 1
        BY <1>6, <1>8, <3>0, <3>4
      <4>2. tab.acts[i - 1].id < tab.acts[(i - 1) - 1].id
        BY <1>2, <3>0, <4>1 DEF StackInOrder
      <4> QED BY <1>3, <3>1, <3>2, <4>1, <4>2
    <3> QED BY <2>2, <3>3, <3>4
  <2> QED BY <2>1, <2>2
<1>11. \A c \in R!Checks : tab.tracked[c] <= tab.pushed + 1
  BY <1>2, <1>3 DEF StackInOrder
<1> HIDE DEF out
<1>12. StackInOrder(out)
  BY <1>7, <1>8, <1>9, <1>10, <1>11 DEF StackInOrder
<1>13. out \in Tabs(least)
  BY <1>2, <1>3, <1>9, <1>12 DEF Tabs
<1> QED BY <1>1, <1>9, <1>13

\* A notification rewritten (updateActivity), there or no longer there.
LEMMA UpdateTab ==
  ASSUME MaxVisible \in Nat, NEW least \in Nat, NEW tab \in Tabs(least), NEW id \in Nat,
         NEW status \in Statuses, NEW text \in Texts, NEW about \in Reviews \union {0}
  PROVE  /\ R!Update(tab, id, status, text, about) \in Tabs(least)
         /\ R!Update(tab, id, status, text, about).pushed = tab.pushed
         /\ R!Update(tab, id, status, text, about).tracked = tab.tracked
<1> DEFINE new == [id |-> id, status |-> status, text |-> text, about |-> about]
           updated == [i \in DOMAIN tab.acts |-> IF tab.acts[i].id = id THEN new ELSE tab.acts[i]]
           out == [tab EXCEPT !.acts = updated]
<1>1. R!Update(tab, id, status, text, about) = out
  BY DEF R!Update
<1>2. /\ tab \in [acts : Seq(Note), pushed : Nat, tracked : [R!Checks -> Nat]]
      /\ least <= tab.pushed /\ StackInOrder(tab)
  BY DEF Tabs
<1>3. /\ tab.acts \in Seq(Note) /\ Len(tab.acts) \in Nat
      /\ DOMAIN tab.acts = 1 .. Len(tab.acts)
  BY <1>2, LenProperties
<1>4. new \in Note /\ new.id = id
  BY DEF Note
<1> HIDE DEF new
<1>5. \A i \in 1 .. Len(tab.acts) : tab.acts[i] \in Note
  BY <1>3, ElementOfSeq
<1>6. updated \in [1 .. Len(tab.acts) -> Note]
  BY <1>3, <1>4, <1>5
<1>7. updated \in Seq(Note) /\ Len(updated) = Len(tab.acts)
  BY <1>3, <1>6, SeqDef
<1>8. \A i \in 1 .. Len(tab.acts) : updated[i].id = tab.acts[i].id
  BY <1>3, <1>4
<1> HIDE DEF updated
<1>9. /\ out \in [acts : Seq(Note), pushed : Nat, tracked : [R!Checks -> Nat]]
      /\ out.pushed = tab.pushed /\ out.tracked = tab.tracked /\ out.acts = updated
  BY <1>2, <1>7
<1> HIDE DEF out
<1>10. StackInOrder(out)
  <2>1. \A i \in 1 .. Len(tab.acts) : i > 1 => i - 1 \in 1 .. Len(tab.acts)
    BY <1>3
  <2> QED BY <1>2, <1>7, <1>8, <1>9, <2>1 DEF StackInOrder
<1>11. out \in Tabs(least)
  BY <1>2, <1>9, <1>10 DEF Tabs
<1> QED BY <1>1, <1>9, <1>11

\* A check followed by a notification that was made, or by none (trackVerification).
LEMMA TrackTab ==
  ASSUME NEW least \in Nat, NEW tab \in Tabs(least), NEW id \in Nat, id <= tab.pushed, NEW c
  PROVE  R!Track(tab, c, id) \in Tabs(least) /\ R!Track(tab, c, id).pushed = tab.pushed
<1> DEFINE follows == [tab.tracked EXCEPT ![c] = id]
           out == [tab EXCEPT !.tracked = follows]
<1>1. R!Track(tab, c, id) = out
  BY DEF R!Track
<1>2. /\ tab \in [acts : Seq(Note), pushed : Nat, tracked : [R!Checks -> Nat]]
      /\ least <= tab.pushed /\ StackInOrder(tab)
  BY DEF Tabs
<1>3. follows \in [R!Checks -> Nat] /\ \A b \in R!Checks : follows[b] <= tab.pushed
  BY <1>2 DEF StackInOrder
<1> HIDE DEF follows
<1>4. /\ out \in [acts : Seq(Note), pushed : Nat, tracked : [R!Checks -> Nat]]
      /\ out.pushed = tab.pushed /\ out.tracked = follows /\ out.acts = tab.acts
  BY <1>2, <1>3
<1> HIDE DEF out
<1>5. StackInOrder(out)
  BY <1>2, <1>3, <1>4 DEF StackInOrder
<1> QED BY <1>1, <1>2, <1>4, <1>5 DEF Tabs

\* What is said of a check is one of the texts.
LEMMA Telling ==
  /\ \A s \in DOMAIN R!FinalStatus : R!FinalStatus[s] \in Statuses /\ s \in Texts
  /\ {"running", "success", "error", "info"} = Statuses
  /\ R!CheckStates \ {"unused"} = {"active"} \union DOMAIN R!FinalStatus
<1>1. DOMAIN R!FinalStatus = {"cancelled", "failed", "refuted", "added", "no_client",
                              "exec_failed", "skipped"}
  BY DEF R!FinalStatus
<1>2. \A s \in DOMAIN R!FinalStatus : R!FinalStatus[s] \in Statuses
  BY <1>1 DEF R!FinalStatus, Statuses
<1>3. R!CheckStates \ {"unused"} = {"active"} \union DOMAIN R!FinalStatus
  BY <1>1 DEF R!CheckStates
<1> QED BY <1>2, <1>3 DEF Statuses, Texts

\* The watcher's turn for one check.
LEMMA WatchedTab ==
  ASSUME MaxVisible \in Nat, NEW least \in Nat, NEW tab \in Tabs(least), NEW c \in R!Checks,
         NEW state \in R!CheckStates \ {"unused"}, checks[c].review \in Reviews \union {0}
  PROVE  R!Watched(tab, c, state) \in Tabs(least)
<1> DEFINE about == checks[c].review
           new == R!Push(tab, "running", "verifying", about)
           adopted == IF tab.tracked[c] = 0 /\ R!isActive(state)
                      THEN R!Track(new, c, tab.pushed + 1) ELSE tab
           id == adopted.tracked[c]
<1>1. "running" \in Statuses /\ "verifying" \in Texts
  BY DEF Statuses, Texts
<1>2. new \in Tabs(least) /\ new.pushed = tab.pushed + 1
  BY <1>1, PushTab
<1>3. tab.pushed + 1 \in Nat
  BY DEF Tabs
<1>4. R!Track(new, c, tab.pushed + 1) \in Tabs(least)
  <2>1. tab.pushed + 1 <= new.pushed
    BY <1>2, <1>3
  <2> HIDE DEF new
  <2> QED BY <1>2, <1>3, <2>1, TrackTab
<1>5. adopted \in Tabs(least)
  BY <1>4
<1> HIDE DEF new, adopted
<1>6. id \in Nat /\ 0 <= adopted.pushed
  BY <1>5 DEF Tabs
<1> HIDE DEF id
<1>7. CASE id = 0
  <2>1. R!Watched(tab, c, state) = tab
    BY <1>7 DEF R!Watched, id, adopted, new
  <2> QED BY <2>1
<1>8. CASE id # 0 /\ R!isActive(state)
  <2>1. R!Watched(tab, c, state) = R!Update(adopted, id, "running", "verifying", about)
    BY <1>8 DEF R!Watched, id, adopted, new
  <2>2. R!Update(adopted, id, "running", "verifying", about) \in Tabs(least)
    BY <1>1, <1>5, <1>6, UpdateTab
  <2> QED BY <2>1, <2>2
<1>9. CASE id # 0 /\ ~R!isActive(state)
  <2> DEFINE final == R!Update(adopted, id, R!FinalStatus[state], state, about)
  <2>1. R!Watched(tab, c, state) = R!Track(final, c, 0)
    BY <1>9 DEF R!Watched, id, adopted, new
  <2>2. R!FinalStatus[state] \in Statuses /\ state \in Texts
    BY <1>9, Telling DEF R!isActive
  <2>3. final \in Tabs(least)
    BY <1>5, <1>6, <2>2, UpdateTab
  <2> HIDE DEF final
  <2>4. 0 <= final.pushed
    BY <2>3 DEF Tabs
  <2>5. R!Track(final, c, 0) \in Tabs(least)
    BY <2>3, <2>4, TrackTab
  <2> QED BY <2>1, <2>5
<1> QED BY <1>7, <1>8, <1>9

\* The watcher over the whole answer.
LEMMA WatchedTabs ==
  ASSUME MaxVisible \in Nat, MaxChecks \in Nat, NEW least \in Nat, R!Tab \in Tabs(least),
         NEW now \in [R!Checks -> R!CheckStates],
         \A c \in R!Checks : checks[c].review \in Reviews \union {0}
  PROVE  R!WatchedInTurn(now) \in Tabs(least)
<1> DEFINE Turn(n, tab) == LET c == MaxChecks + 1 - n
                           IN  IF now[c] = "unused" THEN tab ELSE R!Watched(tab, c, now[c])
           Turns(f) == f = [n \in 0 .. MaxChecks |->
                                  IF n = 0 THEN R!Tab ELSE Turn(n, f[n - 1])]
           after == CHOOSE f : Turns(f)
           T == Tabs(least)
<1>1. R!WatchedInTurn(now) = after[MaxChecks]
  BY DEF R!WatchedInTurn
<1>2. ASSUME NEW n \in 1 .. MaxChecks, NEW tab \in T
      PROVE  Turn(n, tab) \in T
  <2>1. MaxChecks + 1 - n \in R!Checks
    BY DEF R!Checks
  <2>2. now[MaxChecks + 1 - n] \in R!CheckStates
    BY <2>1
  <2>3. now[MaxChecks + 1 - n] # "unused" =>
            R!Watched(tab, MaxChecks + 1 - n, now[MaxChecks + 1 - n]) \in T
    BY <2>1, <2>2, WatchedTab
  <2> QED BY <2>3
<1> HIDE DEF Turn, T
<1>3. \E f : Turns(f)
  <2> DEFINE step == [n \in 1 .. MaxChecks |-> [tab \in T |-> Turn(n, tab)]]
  <2>1. \A n \in 1 .. MaxChecks : \A tab \in T : step[n][tab] = Turn(n, tab)
    OBVIOUS
  <2> HIDE DEF step
  <2>2. \A n \in 1 .. MaxChecks : \A tab \in T : step[n][tab] \in T
    BY <1>2, <2>1
  <2>3. R!Tab \in T
    BY DEF T
  <2>4. PICK f \in [0 .. MaxChecks -> T] : Repeats(f, MaxChecks, R!Tab, step)
    BY <2>2, <2>3, Repeated
  <2>5. \A n \in 1 .. MaxChecks : f[n - 1] \in T
    OBVIOUS
  <2>6. \A n \in 0 .. MaxChecks : f[n] = IF n = 0 THEN R!Tab ELSE Turn(n, f[n - 1])
    BY <2>1, <2>4, <2>5 DEF Repeats
  <2>7. Turns(f)
    BY <2>6
  <2> QED BY <2>7
<1>4. Turns(after)
  BY <1>3
<1> HIDE DEF after
<1>5. after[0] = R!Tab /\ \A n \in 1 .. MaxChecks : after[n] = Turn(n, after[n - 1])
  BY <1>4
<1>6. after[0] \in T
  BY <1>5 DEF T
<1>7. \A n \in 0 .. MaxChecks : after[n] \in T
  BY <1>2, <1>5, <1>6, StepByStep
<1> QED BY <1>1, <1>7 DEF T

\* The watcher over the latest executions.
LEMMA AnnouncedTabs ==
  ASSUME MaxVisible \in Nat, NEW least \in Nat, R!Tab \in Tabs(least)
  PROVE  R!AnnouncedInTurn \in Tabs(least)
<1> DEFINE size == R!Cardinality(Reviews)
           latest == R!SetToSeq(Reviews)
           Turn(n, tab) == LET r == latest[n]
                           IN  IF ~R!Announced(r) THEN tab
                               ELSE IF jobs[r] = "seeding" THEN R!Push(tab, "success", "seeding", r)
                               ELSE R!Push(tab, "error", "recheck failed", r)
           Turns(f) == f = [n \in 0 .. size |-> IF n = 0 THEN R!Tab ELSE Turn(n, f[n - 1])]
           after == CHOOSE f : Turns(f)
           T == Tabs(least)
<1>1. R!AnnouncedInTurn = after[size]
  BY DEF R!AnnouncedInTurn
<1>2. size = Cardinality(Reviews)
  BY DEF R!Cardinality, Cardinality
<1>3. size \in Nat
  BY <1>2, ReviewsAssumption, FS_CardinalityType
<1>4. latest \in [1 .. size -> Reviews]
  <2>1. ExistsBijection(1 .. size, Reviews)
    BY <1>2, ReviewsAssumption, FS_CardinalityType
  <2>2. \E f \in [1 .. size -> Reviews] : R!IsInjective(f)
    BY <2>1 DEF ExistsBijection, Bijection, Injection, IsInjective, R!IsInjective
  <2> QED BY <2>2 DEF R!SetToSeq
<1> HIDE DEF size, latest
<1>5. ASSUME NEW n \in 1 .. size, NEW tab \in T
      PROVE  Turn(n, tab) \in T
  <2>1. latest[n] \in Reviews \union {0}
    BY <1>4
  <2>2. R!Push(tab, "success", "seeding", latest[n]) \in T
    <3>1. "success" \in Statuses /\ "seeding" \in Texts
      BY DEF Statuses, Texts
    <3> QED BY <2>1, <3>1, PushTab
  <2>3. R!Push(tab, "error", "recheck failed", latest[n]) \in T
    <3>1. "error" \in Statuses /\ "recheck failed" \in Texts
      BY DEF Statuses, Texts
    <3> QED BY <2>1, <3>1, PushTab
  <2> QED BY <2>2, <2>3
<1> HIDE DEF Turn, T
<1>6. \E f : Turns(f)
  <2> DEFINE step == [n \in 1 .. size |-> [tab \in T |-> Turn(n, tab)]]
  <2>1. \A n \in 1 .. size : \A tab \in T : step[n][tab] = Turn(n, tab)
    OBVIOUS
  <2> HIDE DEF step
  <2>2. \A n \in 1 .. size : \A tab \in T : step[n][tab] \in T
    BY <1>5, <2>1
  <2>3. R!Tab \in T
    BY DEF T
  <2>4. PICK f \in [0 .. size -> T] : Repeats(f, size, R!Tab, step)
    BY <1>3, <2>2, <2>3, Repeated
  <2>5. \A n \in 1 .. size : f[n - 1] \in T
    BY <1>3
  <2>6. \A n \in 0 .. size : f[n] = IF n = 0 THEN R!Tab ELSE Turn(n, f[n - 1])
    BY <1>3, <2>1, <2>4, <2>5 DEF Repeats
  <2>7. Turns(f)
    BY <2>6
  <2> QED BY <2>7
<1>7. Turns(after)
  BY <1>6
<1> HIDE DEF after
<1>8. after[0] = R!Tab /\ \A n \in 1 .. size : after[n] = Turn(n, after[n - 1])
  BY <1>3, <1>7
<1>9. after[0] \in T
  BY <1>8 DEF T
<1>10. \A n \in 0 .. size : after[n] \in T
  BY <1>3, <1>5, <1>8, <1>9, StepByStep
<1> QED BY <1>1, <1>3, <1>10 DEF T
Rows == [status : {"pending", "approved", "rejected"},
         verify : {"none", "verifying", "failed", "passed"},
         check : R!Checks \union {0}]
Jobs == {"none", "in_progress", "seeding", "failed"}
States == [review : Reviews \union {0}, state : R!CheckStates \union {"lost"}, listed : BOOLEAN]
Approval == [act : Nat,
         reply : {"none", "sent", "verifying", "error", "failed", "in_progress", "seeding"},
         check : R!Checks \union {0}]

\* What the server lists is a check it still has.
ServerOK ==
    /\ rows \in [Reviews -> Rows]
    /\ checks \in [R!Checks -> States]
    /\ \A c \in R!Checks : checks[c].listed => checks[c].state \in R!CheckStates
    /\ jobs \in [Reviews -> Jobs]

CopiesOK ==
    /\ list \in [Reviews -> {"absent", "none", "verifying", "failed", "passed"}]
    /\ polled \in [R!Checks -> R!CheckStates]
    /\ lastSeen \in [Reviews -> {"unloaded"} \union Jobs]
    /\ due \in BOOLEAN /\ breaksMade \in 0 .. MaxBreaks

\* The notifications are in order, and a request is one of a notification that was made.
StackOK == R!Tab \in Tabs(0)
CallsOK == approvals \in [Reviews -> Approval] /\ \A r \in Reviews : approvals[r].act <= pushed

ReviewInv == ServerOK /\ CopiesOK /\ StackOK /\ CallsOK

\* The invariant has the types of the page.
LEMMA ReviewTypes ==
  ASSUME ReviewInv
  PROVE  R!TypeOK
<1>1. /\ R!Tab \in [acts : Seq(Note), pushed : Nat, tracked : [R!Checks -> Nat]]
      /\ StackInOrder(R!Tab)
  BY DEF ReviewInv, StackOK, Tabs
<1>2. acts \in Seq(Note) /\ pushed \in Nat /\ tracked \in [R!Checks -> Nat]
  BY <1>1 DEF R!Tab
<1>3. R!Tab.acts = acts /\ R!Tab.pushed = pushed /\ R!Tab.tracked = tracked
  BY DEF R!Tab
<1>4. /\ Len(acts) <= MaxVisible
      /\ \A i \in DOMAIN acts : acts[i].id <= pushed /\ (i > 1 => acts[i].id < acts[i - 1].id)
  BY <1>1, <1>2, <1>3, LenProperties DEF StackInOrder
<1>5. tracked \in [R!Checks -> 0 .. pushed]
  BY <1>1, <1>2, <1>3 DEF StackInOrder
<1>6. DOMAIN approvals = Reviews /\ due \in BOOLEAN /\ breaksMade \in 0 .. MaxBreaks
  BY DEF ReviewInv, CallsOK, CopiesOK
<1>7. /\ list \in [Reviews -> {"absent", "none", "verifying", "failed", "passed"}]
      /\ polled \in [R!Checks -> R!CheckStates]
      /\ lastSeen \in [Reviews -> {"unloaded", "none", "in_progress", "seeding", "failed"}]
  <2>1. {"unloaded"} \union Jobs = {"unloaded", "none", "in_progress", "seeding", "failed"}
    BY DEF Jobs
  <2> QED BY <2>1 DEF ReviewInv, CopiesOK
<1>8. rows \in [Reviews -> Rows] /\ checks \in [R!Checks -> States] /\ jobs \in [Reviews -> Jobs]
  BY DEF ReviewInv, ServerOK
<1> QED BY <1>4, <1>5, <1>6, <1>7, <1>8 DEF R!TypeOK, Rows, States, Jobs

\* A new stack, made from the one there was, keeps the requests in order.
LEMMA ShownTab ==
  ASSUME StackOK, NEW tab \in Tabs(pushed), R!Show(tab)
  PROVE  StackOK' /\ pushed \in Nat /\ pushed' \in Nat /\ pushed <= pushed'
<1>1. /\ R!Tab \in [acts : Seq(Note), pushed : Nat, tracked : [R!Checks -> Nat]]
  BY DEF StackOK, Tabs
<1>2. pushed \in Nat
  BY <1>1 DEF R!Tab
<1>3. /\ tab \in [acts : Seq(Note), pushed : Nat, tracked : [R!Checks -> Nat]]
      /\ pushed <= tab.pushed /\ StackInOrder(tab)
  BY DEF Tabs
<1>4. tab = [acts |-> tab.acts, pushed |-> tab.pushed, tracked |-> tab.tracked]
  BY <1>3
<1>5. R!Tab' = [acts |-> acts', pushed |-> pushed', tracked |-> tracked']
  BY DEF R!Tab
<1>6. acts' = tab.acts /\ pushed' = tab.pushed /\ tracked' = tab.tracked
  BY DEF R!Show
<1>7. R!Tab' = tab
  BY <1>4, <1>5, <1>6
<1>8. tab \in Tabs(0)
  BY <1>2, <1>3 DEF Tabs
<1> QED BY <1>2, <1>3, <1>6, <1>7, <1>8 DEF StackOK

\* The stack there is has all the notifications made so far.
LEMMA OwnTab ==
  ASSUME StackOK
  PROVE  R!Tab \in Tabs(pushed) /\ pushed \in Nat /\ R!Tab.pushed = pushed
<1>1. /\ R!Tab \in [acts : Seq(Note), pushed : Nat, tracked : [R!Checks -> Nat]]
      /\ StackInOrder(R!Tab)
  BY DEF StackOK, Tabs
<1>2. R!Tab.pushed = pushed
  BY DEF R!Tab
<1>3. pushed \in Nat /\ pushed <= R!Tab.pushed
  BY <1>1, <1>2
<1> QED BY <1>1, <1>2, <1>3 DEF Tabs

\* One notification less.
LEMMA DismissTab ==
  ASSUME StackOK, R!Dismiss
  PROVE  StackOK'
<1>1. /\ R!Tab \in [acts : Seq(Note), pushed : Nat, tracked : [R!Checks -> Nat]]
      /\ StackInOrder(R!Tab)
  BY DEF StackOK, Tabs
<1>2. acts \in Seq(Note) /\ pushed \in Nat /\ tracked \in [R!Checks -> Nat]
  BY <1>1 DEF R!Tab
<1>3. Len(acts) \in Nat /\ DOMAIN acts = 1 .. Len(acts)
  BY <1>2, LenProperties
<1>4. /\ Len(acts) <= MaxVisible
      /\ \A i \in 1 .. Len(acts) :
            acts[i].id <= pushed /\ (i > 1 => acts[i].id < acts[i - 1].id)
      /\ \A c \in R!Checks : tracked[c] <= pushed
  BY <1>1 DEF R!Tab, StackInOrder
<1>5. PICK k \in 1 .. Len(acts) : acts' = R!RemoveAt(acts, k)
  BY <1>3 DEF R!Dismiss
<1> DEFINE before == SubSeq(acts, 1, k - 1)
           behind == SubSeq(acts, k + 1, Len(acts))
<1>6. acts' = before \o behind
  BY <1>5 DEF R!RemoveAt
<1>7. \A i \in 1 .. Len(acts) : acts[i] \in Note
  BY <1>2, ElementOfSeq
<1>8. /\ before \in Seq(Note) /\ Len(before) = k - 1
      /\ \A i \in 1 .. k - 1 : before[i] = acts[i]
  <2>1. \A i \in 1 .. k - 1 : acts[i] \in Note
    BY <1>3, <1>7
  <2>2. /\ before \in Seq(Note) /\ Len(before) = IF 1 <= k - 1 THEN k - 1 - 1 + 1 ELSE 0
        /\ \A i \in 1 .. k - 1 - 1 + 1 : before[i] = acts[1 + i - 1]
    BY <2>1, SubSeqProperties
  <2> QED BY <2>2
<1>9. /\ behind \in Seq(Note) /\ Len(behind) = Len(acts) - k
      /\ \A i \in 1 .. Len(acts) - k : behind[i] = acts[k + i]
  <2>1. \A i \in k + 1 .. Len(acts) : acts[i] \in Note
    BY <1>3, <1>7
  <2>2. /\ behind \in Seq(Note)
        /\ Len(behind) = IF k + 1 <= Len(acts) THEN Len(acts) - (k + 1) + 1 ELSE 0
        /\ \A i \in 1 .. Len(acts) - (k + 1) + 1 : behind[i] = acts[k + 1 + i - 1]
    BY <1>3, <2>1, SubSeqProperties
  <2>3. Len(behind) = Len(acts) - k
    <3> DEFINE size == Len(acts)
    <3>1. size \in Nat /\ k \in 1 .. size
      BY <1>3
    <3> HIDE DEF size
    <3>2. (IF k + 1 <= size THEN size - (k + 1) + 1 ELSE 0) = size - k
      BY <3>1
    <3> QED BY <2>2, <3>2 DEF size
  <2>4. \A i \in 1 .. Len(acts) - k : behind[i] = acts[k + i]
    <3> TAKE i \in 1 .. Len(acts) - k
    <3>1. i \in 1 .. Len(acts) - (k + 1) + 1 /\ k + 1 + i - 1 = k + i
      BY <1>3
    <3> QED BY <2>2, <3>1
  <2> QED BY <2>2, <2>3, <2>4
<1> HIDE DEF before, behind
<1>10. /\ acts' \in Seq(Note) /\ Len(acts') = Len(acts) - 1
       /\ \A i \in 1 .. Len(acts) - 1 : acts'[i] = IF i < k THEN acts[i] ELSE acts[i + 1]
  <2>1. /\ acts' \in Seq(Note) /\ Len(acts') = (k - 1) + (Len(acts) - k)
        /\ \A i \in 1 .. (k - 1) + (Len(acts) - k) :
                acts'[i] = IF i <= k - 1 THEN before[i] ELSE behind[i - (k - 1)]
    <3>1. /\ acts' \in Seq(Note) /\ Len(acts') = Len(before) + Len(behind)
          /\ \A i \in 1 .. Len(before) + Len(behind) :
                acts'[i] = IF i <= Len(before) THEN before[i] ELSE behind[i - Len(before)]
      BY <1>6, <1>8, <1>9, ConcatProperties
    <3>2. Len(before) = k - 1 /\ Len(behind) = Len(acts) - k
      BY <1>8, <1>9
    <3> QED BY <3>1, <3>2
  <2>2. (k - 1) + (Len(acts) - k) = Len(acts) - 1
    BY <1>3
  <2>3. ASSUME NEW i \in 1 .. Len(acts) - 1
        PROVE  acts'[i] = IF i < k THEN acts[i] ELSE acts[i + 1]
    <3>1. CASE i < k
      BY <1>3, <1>8, <2>1, <2>2, <3>1
    <3>2. CASE ~(i < k)
      <4>1. i - (k - 1) \in 1 .. Len(acts) - k /\ k + (i - (k - 1)) = i + 1
        BY <1>3, <3>2
      <4>2. acts'[i] = behind[i - (k - 1)]
        BY <1>3, <2>1, <2>2, <3>2
      <4> QED BY <1>9, <3>2, <4>1, <4>2
    <3> QED BY <3>1, <3>2
  <2> QED BY <2>1, <2>2, <2>3
<1>11. ASSUME NEW i \in 1 .. Len(acts')
       PROVE  acts'[i].id <= pushed /\ (i > 1 => acts'[i].id < acts'[i - 1].id)
  <2>0. \A j \in 1 .. Len(acts) : acts[j].id \in Nat
    BY <1>7 DEF Note
  <2>1. CASE i < k
    <3>1. acts'[i] = acts[i] /\ i \in 1 .. Len(acts)
      BY <1>3, <1>10, <2>1
    <3>2. i > 1 => acts'[i - 1] = acts[i - 1]
      BY <1>3, <1>10, <2>1
    <3> QED BY <1>4, <3>1, <3>2
  <2>2. CASE i = k
    <3>1. acts'[i] = acts[i + 1] /\ i + 1 \in 1 .. Len(acts)
      BY <1>3, <1>10, <2>2
    <3>2. acts[i + 1].id < acts[i].id
      <4>1. i + 1 > 1 /\ (i + 1) - 1 = i
        OBVIOUS
      <4> QED BY <1>4, <3>1, <4>1
    <3>3. i > 1 => acts'[i - 1] = acts[i - 1] /\ acts[i].id < acts[i - 1].id
                   /\ i - 1 \in 1 .. Len(acts)
      BY <1>3, <1>4, <1>10, <2>2
    <3> QED BY <1>4, <2>0, <2>2, <3>1, <3>2, <3>3
  <2>3. CASE i > k
    <3>1. acts'[i] = acts[i + 1] /\ i + 1 \in 1 .. Len(acts) /\ acts'[i - 1] = acts[(i + 1) - 1]
      BY <1>3, <1>10, <2>3
    <3>2. i + 1 > 1
      OBVIOUS
    <3> QED BY <1>4, <3>1, <3>2
  <2> QED BY <1>3, <1>10, <2>1, <2>2, <2>3
<1>12. pushed' = pushed /\ tracked' = tracked
  BY DEF R!Dismiss
<1>13. R!Tab' \in [acts : Seq(Note), pushed : Nat, tracked : [R!Checks -> Nat]]
  BY <1>2, <1>10, <1>12 DEF R!Tab
<1>14. R!Tab'.acts = acts' /\ R!Tab'.pushed = pushed /\ R!Tab'.tracked = tracked
  BY <1>12 DEF R!Tab
<1>15. Len(acts') <= MaxVisible
  <2>1. MaxVisible \in Nat
    BY BoundsAssumption
  <2> QED BY <1>3, <1>4, <1>10, <2>1
<1>16. StackInOrder(R!Tab')
  BY <1>4, <1>11, <1>14, <1>15 DEF StackInOrder
<1>17. R!Tab' \in Tabs(0)
  BY <1>2, <1>13, <1>14, <1>16 DEF Tabs
<1> QED BY <1>17 DEF StackOK, Tabs, StackInOrder

\* An answer is one of a request.
LEMMA AnswerKept ==
  ASSUME CallsOK, NEW r \in Reviews, NEW c \in R!Checks \union {0},
         NEW reply \in {"none", "sent", "verifying", "error", "failed", "in_progress", "seeding"},
         R!Answer(r, reply, c), pushed' = pushed
  PROVE  CallsOK'
<1> DEFINE answered == [approvals[r] EXCEPT !.reply = reply, !.check = c]
<1>1. approvals[r] \in Approval
  BY DEF CallsOK
<1>2. answered \in Approval /\ answered.act = approvals[r].act
  BY <1>1 DEF Approval
<1>3. approvals' = [approvals EXCEPT ![r] = answered]
  BY DEF R!Answer
<1> HIDE DEF answered
<1>4. approvals' \in [Reviews -> Approval]
  BY <1>2, <1>3 DEF CallsOK
<1>5. \A s \in Reviews : approvals'[s].act = approvals[s].act
  BY <1>2, <1>3 DEF CallsOK
<1> QED BY <1>4, <1>5 DEF CallsOK

\* A check started, from this tab or from another.
LEMMA StartKept ==
  ASSUME ServerOK, NEW r \in Reviews, NEW c \in R!Checks, R!StartCheck(r, c), UNCHANGED jobs
  PROVE  ServerOK'
<1> DEFINE check == [review |-> r, state |-> "active", listed |-> TRUE]
           row == [rows[r] EXCEPT !.verify = "verifying", !.check = c]
<1>1. checks' = [checks EXCEPT ![c] = check] /\ rows' = [rows EXCEPT ![r] = row]
  BY DEF R!StartCheck
<1>2. "active" \in R!CheckStates
  BY DEF R!CheckStates
<1>3. check \in States /\ check.state \in R!CheckStates
  BY <1>2 DEF States
<1>4. row \in Rows
  <2>1. rows[r] \in Rows
    BY DEF ServerOK
  <2> QED BY <2>1 DEF Rows
<1> HIDE DEF check, row
<1>5. checks' \in [R!Checks -> States] /\ rows' \in [Reviews -> Rows]
  BY <1>1, <1>3, <1>4 DEF ServerOK
<1>6. \A b \in R!Checks : checks'[b].listed => checks'[b].state \in R!CheckStates
  BY <1>1, <1>3 DEF ServerOK
<1> QED BY <1>5, <1>6 DEF ServerOK

\* What the tab reads is of the type of its copies.
LEMMA AnswersTyped ==
  ASSUME ServerOK
  PROVE  /\ R!ListedChecks \in [R!Checks -> R!CheckStates]
         /\ R!ListedReviews \in [Reviews -> {"absent", "none", "verifying", "failed", "passed"}]
         /\ \A c \in R!Checks : checks[c].review \in Reviews \union {0}
<1>1. "unused" \in R!CheckStates
  BY DEF R!CheckStates
<1>2. R!ListedChecks \in [R!Checks -> R!CheckStates]
  BY <1>1 DEF R!ListedChecks, ServerOK
<1>3. \A r \in Reviews : rows[r].verify \in {"none", "verifying", "failed", "passed"}
  BY DEF ServerOK, Rows
<1>4. R!ListedReviews \in [Reviews -> {"absent", "none", "verifying", "failed", "passed"}]
  BY <1>3 DEF R!ListedReviews
<1>5. \A c \in R!Checks : checks[c].review \in Reviews \union {0}
  BY DEF ServerOK, States
<1> QED BY <1>2, <1>4, <1>5

\* More notifications keep the requests in order.
LEMMA CallsFollow ==
  ASSUME CallsOK, pushed \in Nat, pushed' \in Nat, pushed <= pushed', UNCHANGED approvals
  PROVE  CallsOK'
<1>1. \A r \in Reviews : approvals[r].act \in Nat
  BY DEF CallsOK, Approval
<1> QED BY <1>1 DEF CallsOK

\* What a step leaves alone stays in order.
LEMMA SameParts ==
  ASSUME ReviewInv
  PROVE  /\ UNCHANGED <<rows, checks, jobs>> => ServerOK'
         /\ UNCHANGED <<list, polled, lastSeen, due, breaksMade>> => CopiesOK'
         /\ UNCHANGED <<acts, pushed, tracked>> => StackOK'
         /\ UNCHANGED <<approvals, pushed>> => CallsOK'
<1>1. UNCHANGED <<rows, checks, jobs>> => ServerOK'
  BY DEF ReviewInv, ServerOK
<1>2. UNCHANGED <<list, polled, lastSeen, due, breaksMade>> => CopiesOK'
  BY DEF ReviewInv, CopiesOK
<1>3. ASSUME UNCHANGED <<acts, pushed, tracked>> PROVE StackOK'
  <2>1. R!Tab' = R!Tab
    BY <1>3 DEF R!Tab
  <2> QED BY <2>1 DEF ReviewInv, StackOK, Tabs, StackInOrder
<1>4. UNCHANGED <<approvals, pushed>> => CallsOK'
  BY DEF ReviewInv, CallsOK
<1> QED BY <1>1, <1>2, <1>3, <1>4

\* A notification pushed at a click.
LEMMA PushKept ==
  ASSUME ReviewInv, NEW status \in Statuses, NEW text \in Texts, NEW r \in Reviews,
         R!Show(R!Push(R!Tab, status, text, r))
  PROVE  StackOK' /\ pushed \in Nat /\ pushed' = pushed + 1
<1> DEFINE tab == R!Push(R!Tab, status, text, r)
<1>1. R!Tab \in Tabs(pushed) /\ pushed \in Nat /\ R!Tab.pushed = pushed
  BY OwnTab DEF ReviewInv
<1>2. MaxVisible \in Nat
  BY BoundsAssumption
<1>3. tab \in Tabs(pushed) /\ tab.pushed = pushed + 1
  BY <1>1, <1>2, PushTab
<1> HIDE DEF tab
<1>4. pushed' = tab.pushed
  BY DEF R!Show, tab
<1>5. R!Show(tab)
  BY DEF tab
<1> QED BY <1>1, <1>3, <1>4, <1>5, ShownTab DEF ReviewInv

\* An approval clicked, on the page or in the sheet of a title.
LEMMA ApproveKept ==
  ASSUME ReviewInv, NEW r \in Reviews, R!Approve(r)
  PROVE  ReviewInv'
<1>1. /\ R!Show(R!Push(R!Tab, "running", "approving", r))
      /\ approvals' = [approvals EXCEPT
                          ![r] = [act |-> pushed + 1, reply |-> "sent", check |-> 0]]
      /\ UNCHANGED <<rows, checks, jobs, list, polled, lastSeen, due, breaksMade>>
  BY DEF R!Approve, R!server
<1>2. "running" \in Statuses /\ "approving" \in Texts
  BY DEF Statuses, Texts
<1>3. StackOK' /\ pushed \in Nat /\ pushed' = pushed + 1
  BY <1>1, <1>2, PushKept
<1>4. CallsOK'
  <2> DEFINE new == [act |-> pushed + 1, reply |-> "sent", check |-> 0]
  <2>1. new \in Approval /\ new.act = pushed + 1
    BY <1>3 DEF Approval
  <2>2. approvals' = [approvals EXCEPT ![r] = new]
    BY <1>1
  <2> HIDE DEF new
  <2>3. approvals' \in [Reviews -> Approval]
    BY <2>1, <2>2 DEF ReviewInv, CallsOK
  <2>4. \A s \in Reviews : approvals'[s].act <= pushed + 1
    <3> TAKE s \in Reviews
    <3>1. approvals[s].act \in Nat /\ approvals[s].act <= pushed
      BY DEF ReviewInv, CallsOK, Approval
    <3>2. approvals'[s] = IF s = r THEN new ELSE approvals[s]
      BY <2>2 DEF ReviewInv, CallsOK
    <3> QED BY <1>3, <2>1, <3>1, <3>2
  <2> QED BY <1>3, <2>3, <2>4 DEF CallsOK
<1> QED BY <1>1, <1>3, <1>4, SameParts DEF ReviewInv

\* An approval served: a check started, a conflict, or an execution at once.
LEMMA ServeKept ==
  ASSUME ReviewInv, NEW r \in Reviews, R!ServeApprove(r)
  PROVE  ReviewInv'
<1>0. UNCHANGED <<list, polled, lastSeen, acts, pushed, tracked, due, breaksMade>>
  BY DEF R!ServeApprove, R!stack
<1>1. CASE \E c \in R!Checks : R!StartCheck(r, c) /\ R!Answer(r, "verifying", c) /\ UNCHANGED jobs
  <2>1. PICK c \in R!Checks :
            R!StartCheck(r, c) /\ R!Answer(r, "verifying", c) /\ UNCHANGED jobs
    BY <1>1
  <2>2. ServerOK'
    BY <2>1, StartKept DEF ReviewInv
  <2>3. CallsOK'
    BY <1>0, <2>1, AnswerKept DEF ReviewInv
  <2> QED BY <1>0, <2>2, <2>3, SameParts DEF ReviewInv
<1>2. CASE R!Answer(r, "error", 0) /\ UNCHANGED R!server
  <2>1. CallsOK'
    BY <1>0, <1>2, AnswerKept DEF ReviewInv
  <2> QED BY <1>0, <1>2, <2>1, SameParts DEF ReviewInv, R!server
<1>3. CASE /\ rows' = [rows EXCEPT ![r].status = "approved"]
           /\ \E j \in {jobs[r]} \union R!Executions(r) :
                jobs' = [jobs EXCEPT ![r] = j] /\ R!Answer(r, j, 0)
           /\ UNCHANGED checks
  <2>1. PICK j \in {jobs[r]} \union R!Executions(r) :
            jobs' = [jobs EXCEPT ![r] = j] /\ R!Answer(r, j, 0)
    BY <1>3
  <2>2. jobs[r] \in Jobs
    BY DEF ReviewInv, ServerOK
  <2>3. j \in Jobs
    BY <2>2 DEF R!Executions, Jobs
  <2>4. rows[r] \in Rows
    BY DEF ReviewInv, ServerOK
  <2> DEFINE row == [rows[r] EXCEPT !.status = "approved"]
  <2>5. row \in Rows
    BY <2>4 DEF Rows
  <2>6. rows' = [rows EXCEPT ![r] = row]
    BY <1>3
  <2> HIDE DEF row
  <2>7. rows' \in [Reviews -> Rows] /\ jobs' \in [Reviews -> Jobs]
    BY <2>1, <2>3, <2>5, <2>6 DEF ReviewInv, ServerOK
  <2>8. ServerOK'
    BY <1>3, <2>7 DEF ReviewInv, ServerOK
  <2>9. j \in {"none", "sent", "verifying", "error", "failed", "in_progress", "seeding"}
    BY <2>3 DEF Jobs
  <2>10. CallsOK'
    BY <1>0, <2>1, <2>9, AnswerKept DEF ReviewInv
  <2> QED BY <1>0, <2>8, <2>10, SameParts DEF ReviewInv
<1> QED BY <1>1, <1>2, <1>3 DEF R!ServeApprove

\* An approval answered.
LEMMA ReplyKept ==
  ASSUME ReviewInv, NEW r \in Reviews, R!Reply(r)
  PROVE  ReviewInv'
<1> DEFINE call == approvals[r]
<1>1. call \in Approval /\ call.act <= pushed /\ call.reply # "sent"
  BY DEF ReviewInv, CallsOK, R!Reply, R!Answered
<1>2. /\ R!Show(R!Settled(r, call)) /\ approvals' = [approvals EXCEPT ![r] = R!NoCall]
      /\ due' = (due \/ call.reply # "error")
      /\ UNCHANGED <<rows, checks, jobs, list, polled, lastSeen, breaksMade>>
  BY DEF R!Reply, R!server
<1> HIDE DEF call
<1>3. R!Tab \in Tabs(pushed) /\ pushed \in Nat /\ R!Tab.pushed = pushed
  BY OwnTab DEF ReviewInv
<1>4. MaxVisible \in Nat /\ call.act \in Nat
  BY <1>1, BoundsAssumption DEF Approval
<1>5. R!Settled(r, call) \in Tabs(pushed)
  <2>1. \A status \in Statuses, text \in Texts :
            /\ R!Update(R!Tab, call.act, status, text, r) \in Tabs(pushed)
            /\ R!Update(R!Tab, call.act, status, text, r).pushed = pushed
    BY <1>3, <1>4, UpdateTab
  <2>2. /\ {"running", "error", "success", "info"} \subseteq Statuses
        /\ {"verifying", "not approved", "exec_failed", "added", "no_client"} \subseteq Texts
    BY DEF Statuses, Texts
  <2>3. call.reply \in {"none", "verifying", "error", "failed", "in_progress", "seeding"}
    BY <1>1 DEF Approval
  <2>4. CASE call.reply = "verifying"
    <3> DEFINE tab == R!Update(R!Tab, call.act, "running", "verifying", r)
    <3>1. tab \in Tabs(pushed) /\ tab.pushed = pushed
      BY <2>1, <2>2
    <3>2. R!Settled(r, call) = R!Track(tab, call.check, call.act)
      BY <2>4 DEF R!Settled
    <3> HIDE DEF tab
    <3>3. R!Track(tab, call.check, call.act) \in Tabs(pushed)
      BY <1>1, <1>3, <1>4, <3>1, TrackTab
    <3> QED BY <3>2, <3>3
  <2>5. CASE call.reply = "error"
    BY <2>1, <2>2, <2>5 DEF R!Settled
  <2>6. CASE call.reply = "failed"
    BY <2>1, <2>2, <2>6 DEF R!Settled
  <2>7. CASE call.reply \in {"in_progress", "seeding"}
    BY <2>1, <2>2, <2>7 DEF R!Settled
  <2>8. CASE call.reply = "none"
    BY <2>1, <2>2, <2>8 DEF R!Settled
  <2> QED BY <2>3, <2>4, <2>5, <2>6, <2>7, <2>8
<1>6. StackOK' /\ pushed' \in Nat /\ pushed <= pushed'
  BY <1>2, <1>5, ShownTab DEF ReviewInv
<1>7. CallsOK'
  <2>1. R!NoCall \in Approval /\ R!NoCall.act = 0
    BY DEF R!NoCall, Approval
  <2>2. approvals' \in [Reviews -> Approval]
    BY <1>2, <2>1 DEF ReviewInv, CallsOK
  <2>3. \A s \in Reviews : approvals'[s].act <= pushed'
    <3> TAKE s \in Reviews
    <3>1. approvals[s].act \in Nat /\ approvals[s].act <= pushed
      BY DEF ReviewInv, CallsOK, Approval
    <3>2. approvals'[s] = IF s = r THEN R!NoCall ELSE approvals[s]
      BY <1>2 DEF ReviewInv, CallsOK
    <3> QED BY <1>3, <1>6, <2>1, <3>1, <3>2
  <2> QED BY <2>2, <2>3 DEF CallsOK
<1>8. CopiesOK'
  BY <1>2 DEF ReviewInv, CopiesOK
<1> QED BY <1>2, <1>6, <1>7, <1>8, SameParts DEF ReviewInv

\* A rejection.
LEMMA RejectKept ==
  ASSUME ReviewInv, NEW r \in Reviews, R!ClickReject(r)
  PROVE  ReviewInv'
<1> DEFINE row == [rows[r] EXCEPT !.status = "rejected"]
<1>1. /\ rows' = [rows EXCEPT ![r] = row] /\ due' = TRUE
      /\ R!Show(R!Push(R!Tab, "info", "rejected", r))
      /\ UNCHANGED <<checks, jobs, list, polled, lastSeen, approvals, breaksMade>>
  BY DEF R!ClickReject
<1>2. row \in Rows
  <2>1. rows[r] \in Rows
    BY DEF ReviewInv, ServerOK
  <2> QED BY <2>1 DEF Rows
<1> HIDE DEF row
<1>3. ServerOK'
  BY <1>1, <1>2 DEF ReviewInv, ServerOK
<1>4. CopiesOK'
  BY <1>1 DEF ReviewInv, CopiesOK
<1>5. "info" \in Statuses /\ "rejected" \in Texts
  BY DEF Statuses, Texts
<1>6. StackOK' /\ pushed \in Nat /\ pushed' = pushed + 1
  BY <1>1, <1>5, PushKept
<1>7. CallsOK'
  BY <1>1, <1>6, CallsFollow DEF ReviewInv
<1> QED BY <1>3, <1>4, <1>6, <1>7 DEF ReviewInv

\* A retry of a failed execution.
LEMMA RetryKept ==
  ASSUME ReviewInv, NEW r \in Reviews, R!ClickRetry(r)
  PROVE  ReviewInv'
<1>1. /\ jobs' = [jobs EXCEPT ![r] = "in_progress"] /\ due' = TRUE
      /\ UNCHANGED <<rows, checks, list, polled, lastSeen, acts, pushed, tracked, approvals,
                     breaksMade>>
  BY DEF R!ClickRetry, R!stack
<1>2. ServerOK'
  BY <1>1 DEF ReviewInv, ServerOK, Jobs
<1>3. CopiesOK'
  BY <1>1 DEF ReviewInv, CopiesOK
<1> QED BY <1>1, <1>2, <1>3, SameParts DEF ReviewInv

\* The end of a check.
LEMMA EndKept ==
  ASSUME ReviewInv, NEW c \in R!Checks, NEW o \in Outcomes, R!WorkerEnds(c, o)
  PROVE  ReviewInv'
<1> DEFINE r == checks[c].review
           check == [checks[c] EXCEPT !.state = o]
           passed == o \notin {"cancelled", "failed", "refuted"}
           ready == rows[r].status = "pending"
           row == [rows[r] EXCEPT
                      !.verify = IF passed THEN "passed"
                                 ELSE IF o = "cancelled" THEN "none" ELSE "failed",
                      !.status = IF passed /\ ready THEN "approved" ELSE rows[r].status]
           job == IF o = "added" THEN "in_progress"
                  ELSE IF o = "exec_failed" THEN "failed" ELSE jobs[r]
<1>1. /\ checks' = [checks EXCEPT ![c] = check]
      /\ rows' = [rows EXCEPT ![r] = row] /\ jobs' = [jobs EXCEPT ![r] = job]
      /\ UNCHANGED <<list, polled, lastSeen, acts, pushed, tracked, approvals, due, breaksMade>>
  BY DEF R!WorkerEnds, R!stack
<1>2. check \in States /\ check.state \in R!CheckStates
  <2>1. checks[c] \in States
    BY DEF ReviewInv, ServerOK
  <2>2. o \in R!CheckStates
    BY ReviewsAssumption DEF R!CheckStates
  <2> QED BY <2>1, <2>2 DEF States
<1>3. r \in Reviews => row \in Rows /\ job \in Jobs
  <2>1. r \in Reviews => rows[r] \in Rows /\ jobs[r] \in Jobs
    BY DEF ReviewInv, ServerOK
  <2>2. r \in Reviews => row \in Rows
    BY <2>1 DEF Rows
  <2>3. r \in Reviews => job \in Jobs
    BY <2>1 DEF Jobs
  <2> QED BY <2>2, <2>3
<1> HIDE DEF check, row, job, r
<1>4. rows' \in [Reviews -> Rows] /\ jobs' \in [Reviews -> Jobs]
  BY <1>1, <1>3 DEF ReviewInv, ServerOK
<1>5. /\ checks' \in [R!Checks -> States]
      /\ \A b \in R!Checks : checks'[b].listed => checks'[b].state \in R!CheckStates
  BY <1>1, <1>2 DEF ReviewInv, ServerOK
<1>6. ServerOK'
  BY <1>4, <1>5 DEF ServerOK
<1> QED BY <1>1, <1>6, SameParts DEF ReviewInv

\* A finished check dropped by the server.
LEMMA EvictKept ==
  ASSUME ReviewInv, NEW c \in R!Checks, R!Evict(c)
  PROVE  ReviewInv'
<1> DEFINE check == [checks[c] EXCEPT !.listed = FALSE]
<1>1. /\ checks' = [checks EXCEPT ![c] = check]
      /\ UNCHANGED <<rows, jobs, list, polled, lastSeen, acts, pushed, tracked, approvals, due,
                     breaksMade>>
  BY DEF R!Evict, R!stack
<1>2. check \in States /\ check.listed = FALSE
  <2>1. checks[c] \in States
    BY DEF ReviewInv, ServerOK
  <2> QED BY <2>1 DEF States
<1> HIDE DEF check
<1>3. ServerOK'
  BY <1>1, <1>2 DEF ReviewInv, ServerOK
<1> QED BY <1>1, <1>3, SameParts DEF ReviewInv

\* A restart of the server.
LEMMA RestartKept ==
  ASSUME ReviewInv, R!Restart
  PROVE  ReviewInv'
<1> DEFINE Forgotten(c) == [checks[c] EXCEPT
                                !.listed = FALSE,
                            !.state = IF checks[c].state = "active" THEN "lost"
                                      ELSE checks[c].state]
           Undone(r) == IF rows[r].verify = "verifying"
                     THEN [rows[r] EXCEPT !.verify = "none", !.check = 0] ELSE rows[r]
<1>1. /\ breaksMade < MaxBreaks /\ breaksMade' = breaksMade + 1
      /\ checks' = [c \in R!Checks |-> Forgotten(c)] /\ rows' = [r \in Reviews |-> Undone(r)]
      /\ UNCHANGED <<jobs, list, polled, lastSeen, acts, pushed, tracked, approvals, due>>
  BY DEF R!Restart, R!stack
<1>2. \A c \in R!Checks : Forgotten(c) \in States /\ Forgotten(c).listed = FALSE
  <2> TAKE c \in R!Checks
  <2>1. checks[c] \in States
    BY DEF ReviewInv, ServerOK
  <2> QED BY <2>1 DEF States
<1>3. \A r \in Reviews : Undone(r) \in Rows
  <2> TAKE r \in Reviews
  <2>1. rows[r] \in Rows
    BY DEF ReviewInv, ServerOK
  <2> QED BY <2>1 DEF Rows
<1> HIDE DEF Forgotten, Undone
<1>4. ServerOK'
  BY <1>1, <1>2, <1>3 DEF ReviewInv, ServerOK
<1>5. breaksMade' \in 0 .. MaxBreaks
  <2>1. breaksMade \in 0 .. MaxBreaks /\ MaxBreaks \in Nat
    BY BoundsAssumption DEF ReviewInv, CopiesOK
  <2> QED BY <1>1, <2>1
<1>6. CopiesOK'
  BY <1>1, <1>5 DEF ReviewInv, CopiesOK
<1> QED BY <1>1, <1>4, <1>6, SameParts DEF ReviewInv

\* A poll of the checks, or of the executions.
LEMMA PollKept ==
  ASSUME ReviewInv, R!PollChecks \/ R!PollJobs
  PROVE  ReviewInv'
<1>0. MaxVisible \in Nat /\ MaxChecks \in Nat
  BY BoundsAssumption
<1>1. R!Tab \in Tabs(pushed) /\ pushed \in Nat
  BY OwnTab DEF ReviewInv
<1>2. /\ R!ListedChecks \in [R!Checks -> R!CheckStates]
      /\ \A c \in R!Checks : checks[c].review \in Reviews \union {0}
  BY AnswersTyped DEF ReviewInv
<1>3. CASE R!PollChecks
  <2> DEFINE tab == R!WatchedInTurn(R!ListedChecks)
  <2>1. /\ polled' = R!ListedChecks /\ R!Show(tab)
        /\ UNCHANGED <<rows, checks, jobs, list, lastSeen, approvals, breaksMade>>
    BY <1>3 DEF R!PollChecks, R!server
  <2>2. due' \in BOOLEAN
    BY <1>3 DEF R!PollChecks, ReviewInv, CopiesOK
  <2>3. tab \in Tabs(pushed)
    BY <1>0, <1>1, <1>2, WatchedTabs
  <2> HIDE DEF tab
  <2>4. StackOK' /\ pushed' \in Nat /\ pushed <= pushed'
    BY <2>1, <2>3, ShownTab DEF ReviewInv
  <2>5. CallsOK'
    BY <1>1, <2>1, <2>4, CallsFollow DEF ReviewInv
  <2>6. CopiesOK'
    BY <1>2, <2>1, <2>2 DEF ReviewInv, CopiesOK
  <2> QED BY <2>1, <2>4, <2>5, <2>6, SameParts DEF ReviewInv
<1>4. CASE R!PollJobs
  <2> DEFINE tab == R!AnnouncedInTurn
  <2>1. /\ lastSeen' = jobs /\ R!Show(tab)
        /\ UNCHANGED <<rows, checks, jobs, list, polled, approvals, due, breaksMade>>
    BY <1>4 DEF R!PollJobs, R!server
  <2>2. tab \in Tabs(pushed)
    BY <1>0, <1>1, AnnouncedTabs
  <2> HIDE DEF tab
  <2>3. StackOK' /\ pushed' \in Nat /\ pushed <= pushed'
    BY <2>1, <2>2, ShownTab DEF ReviewInv
  <2>4. CallsOK'
    BY <1>1, <2>1, <2>3, CallsFollow DEF ReviewInv
  <2>5. CopiesOK'
    BY <2>1 DEF ReviewInv, CopiesOK, ServerOK
  <2> QED BY <2>1, <2>3, <2>4, <2>5, SameParts DEF ReviewInv
<1> QED BY <1>3, <1>4

\* A tab that was just opened.
LEMMA EmptyTab ==
  ASSUME MaxVisible \in Nat, MaxChecks \in Nat
  PROVE  [acts |-> <<>>, pushed |-> 0, tracked |-> [c \in R!Checks |-> 0]] \in Tabs(0)
<1> DEFINE none == [c \in R!Checks |-> 0]
           tab == [acts |-> <<>>, pushed |-> 0, tracked |-> none]
<1>1. none \in [R!Checks -> Nat] /\ \A c \in R!Checks : none[c] = 0
  OBVIOUS
<1> HIDE DEF none
<1>2. <<>> \in Seq(Note) /\ Len(<<>>) = 0
  BY EmptySeq
<1>3. tab \in [acts : Seq(Note), pushed : Nat, tracked : [R!Checks -> Nat]]
  BY <1>1, <1>2
<1>4. StackInOrder(tab)
  BY <1>1, <1>2 DEF StackInOrder
<1>5. tab \in Tabs(0)
  BY <1>3, <1>4 DEF Tabs
<1> QED BY <1>5 DEF none

\* The page loaded again.
LEMMA ReloadKept ==
  ASSUME ReviewInv, R!Reload
  PROVE  ReviewInv'
<1>1. /\ breaksMade < MaxBreaks /\ breaksMade' = breaksMade + 1
      /\ list' = R!ListedReviews /\ due' = FALSE
      /\ polled' = [c \in R!Checks |-> "unused"] /\ lastSeen' = R!Unloaded
      /\ acts' = <<>> /\ pushed' = 0 /\ tracked' = [c \in R!Checks |-> 0]
      /\ approvals' = [r \in Reviews |-> R!NoCall]
      /\ UNCHANGED <<rows, checks, jobs>>
  BY DEF R!Reload, R!server
<1>2. breaksMade' \in 0 .. MaxBreaks
  <2>1. breaksMade \in 0 .. MaxBreaks /\ MaxBreaks \in Nat
    BY BoundsAssumption DEF ReviewInv, CopiesOK
  <2> QED BY <1>1, <2>1
<1>3. list' \in [Reviews -> {"absent", "none", "verifying", "failed", "passed"}]
  BY <1>1, AnswersTyped DEF ReviewInv
<1>4. polled' \in [R!Checks -> R!CheckStates]
  <2>1. "unused" \in R!CheckStates
    BY DEF R!CheckStates
  <2> QED BY <1>1, <2>1
<1>5. lastSeen' \in [Reviews -> {"unloaded"} \union Jobs]
  BY <1>1 DEF R!Unloaded
<1>6. CopiesOK'
  BY <1>1, <1>2, <1>3, <1>4, <1>5 DEF CopiesOK
<1>7. R!Tab' = [acts |-> <<>>, pushed |-> 0, tracked |-> [c \in R!Checks |-> 0]]
  BY <1>1 DEF R!Tab
<1>8. MaxVisible \in Nat /\ MaxChecks \in Nat
  BY BoundsAssumption
<1>9. StackOK'
  BY <1>7, <1>8, EmptyTab DEF StackOK, Tabs, StackInOrder
<1>10. CallsOK'
  <2>1. R!NoCall \in Approval /\ R!NoCall.act = 0
    BY DEF R!NoCall, Approval
  <2> QED BY <1>1, <2>1 DEF CallsOK
<1> QED BY <1>1, <1>6, <1>9, <1>10, SameParts DEF ReviewInv

\* In the part of the reseeding page: the stack of notifications is cut at MaxVisible and in
\* the order of their ids, and no check and no request follows a notification that was not
\* made, for any number of reviews, checks, restarts and reloads.
THEOREM ReviewInvariance == Spec => [](part = "reviews" => ReviewInv)
<1> DEFINE Inv == part = "reviews" => ReviewInv
<1>1. Init => Inv
  <2> SUFFICES ASSUME Init, part = "reviews"
               PROVE  ReviewInv
    OBVIOUS
  <2>0. R!Init
    BY OnePartBegins
  <2>1. ServerOK
    <3> DEFINE row == [status |-> "pending", verify |-> "none", check |-> 0]
               check == [review |-> 0, state |-> "unused", listed |-> FALSE]
    <3>1. row \in Rows
      BY DEF Rows
    <3>2. check \in States /\ check.listed = FALSE
      BY DEF States, R!CheckStates
    <3>3. /\ rows = [r \in Reviews |-> row] /\ checks = [c \in R!Checks |-> check]
          /\ jobs = [r \in Reviews |-> "none"]
      BY <2>0 DEF R!Init
    <3> HIDE DEF row, check
    <3> QED BY <3>1, <3>2, <3>3 DEF ServerOK, Jobs
  <2>2. CopiesOK
    <3>1. "unused" \in R!CheckStates /\ 0 \in 0 .. MaxBreaks
      BY BoundsAssumption DEF R!CheckStates
    <3> QED BY <2>0, <3>1 DEF R!Init, CopiesOK, Jobs
  <2>3. StackOK
    <3>1. R!Tab = [acts |-> <<>>, pushed |-> 0, tracked |-> [c \in R!Checks |-> 0]]
      BY <2>0 DEF R!Tab, R!Init
    <3>2. MaxVisible \in Nat /\ MaxChecks \in Nat
      BY BoundsAssumption
    <3> QED BY <3>1, <3>2, EmptyTab DEF StackOK
  <2>4. CallsOK
    <3>1. R!NoCall \in Approval /\ R!NoCall.act = 0
      BY DEF R!NoCall, Approval
    <3> QED BY <2>0, <3>1 DEF CallsOK, R!Init
  <2> QED BY <2>1, <2>2, <2>3, <2>4 DEF ReviewInv
<1>2. Inv /\ [Next]_vars => Inv'
  <2> SUFFICES ASSUME Inv, [Next]_vars, part' = "reviews"
               PROVE  ReviewInv'
    OBVIOUS
  <2>0. ReviewInv /\ [R!Next]_(R!vars)
    BY OnePartSteps
  <2>1. CASE UNCHANGED R!vars
    BY <2>0, <2>1, SameParts DEF R!vars, ReviewInv
  <2>2. ASSUME NEW r \in Reviews, R!ClickApprove(r) \/ R!ApproveInSheet(r) PROVE ReviewInv'
    BY <2>0, <2>2, ApproveKept DEF R!ClickApprove, R!ApproveInSheet
  <2>3. ASSUME NEW r \in Reviews, R!ServeApprove(r) PROVE ReviewInv'
    BY <2>0, <2>3, ServeKept
  <2>4. ASSUME NEW r \in Reviews, R!Reply(r) PROVE ReviewInv'
    BY <2>0, <2>4, ReplyKept
  <2>5. ASSUME NEW r \in Reviews, R!ElsewhereApprove(r) PROVE ReviewInv'
    <3>1. PICK c \in R!Checks : R!StartCheck(r, c)
      BY <2>5 DEF R!ElsewhereApprove
    <3>2. UNCHANGED <<jobs, list, polled, lastSeen, acts, pushed, tracked, approvals, due,
                      breaksMade>>
      BY <2>5 DEF R!ElsewhereApprove, R!stack
    <3>3. ServerOK'
      BY <2>0, <3>1, <3>2, StartKept DEF ReviewInv
    <3> QED BY <2>0, <3>2, <3>3, SameParts DEF ReviewInv
  <2>6. ASSUME NEW r \in Reviews, R!ClickReject(r) PROVE ReviewInv'
    BY <2>0, <2>6, RejectKept
  <2>7. ASSUME NEW r \in Reviews, R!RecheckEnds(r) PROVE ReviewInv'
    <3>1. \E s \in {"seeding", "failed"} : jobs' = [jobs EXCEPT ![r] = s]
      BY <2>7 DEF R!RecheckEnds
    <3>2. UNCHANGED <<rows, checks, list, polled, lastSeen, acts, pushed, tracked, approvals, due,
                      breaksMade>>
      BY <2>7 DEF R!RecheckEnds, R!stack
    <3>3. ServerOK'
      BY <2>0, <3>1, <3>2 DEF ReviewInv, ServerOK, Jobs
    <3> QED BY <2>0, <3>2, <3>3, SameParts DEF ReviewInv
  <2>8. ASSUME NEW r \in Reviews, R!ClickRetry(r) PROVE ReviewInv'
    BY <2>0, <2>8, RetryKept
  <2>9. ASSUME NEW c \in R!Checks, R!Evict(c) PROVE ReviewInv'
    BY <2>0, <2>9, EvictKept
  <2>10. ASSUME NEW c \in R!Checks, NEW o \in Outcomes, R!WorkerEnds(c, o) PROVE ReviewInv'
    BY <2>0, <2>10, EndKept
  <2>11. CASE R!Dismiss
    <3>1. UNCHANGED <<rows, checks, jobs, list, polled, lastSeen, pushed, approvals, due,
                      breaksMade>>
      BY <2>11 DEF R!Dismiss, R!server
    <3>2. StackOK'
      BY <2>0, <2>11, DismissTab DEF ReviewInv
    <3> QED BY <2>0, <3>1, <3>2, SameParts DEF ReviewInv
  <2>12. CASE R!Restart
    BY <2>0, <2>12, RestartKept
  <2>13. CASE R!Reload
    BY <2>0, <2>13, ReloadKept
  <2>14. CASE R!RefetchList
    <3>1. /\ list' = R!ListedReviews /\ due' = FALSE
          /\ UNCHANGED <<rows, checks, jobs, polled, lastSeen, acts, pushed, tracked, approvals,
                         breaksMade>>
      BY <2>14 DEF R!RefetchList, R!server, R!stack
    <3>2. CopiesOK'
      BY <2>0, <3>1, AnswersTyped DEF ReviewInv, CopiesOK
    <3> QED BY <2>0, <3>1, <3>2, SameParts DEF ReviewInv
  <2>15. CASE R!PollChecks \/ R!PollJobs
    BY <2>0, <2>15, PollKept
  <2> QED BY <2>0, <2>1, <2>2, <2>3, <2>4, <2>5, <2>6, <2>7, <2>8, <2>9, <2>10, <2>11, <2>12,
             <2>13, <2>14, <2>15 DEF R!Next
<1> QED BY <1>1, <1>2, PTL DEF Spec

-----------------------------------------------------------------------------
(* All the parts                                                            *)

\* The part that runs keeps its variables in their types (TypeOK): by the invariant of each
\* part, for every value of the constants.
THEOREM TypesKept == Spec => []TypeOK
<1>1. Spec => [](part \in {"reviews", "checks", "forms", "settings", "session", "run", "cache",
                           "uploads", "library", "steps", "changes"})
  <2> DEFINE OnePart == part \in {"reviews", "checks", "forms", "settings", "session", "run",
                                  "cache", "uploads", "library", "steps", "changes"}
  <2>1. Init => OnePart
    BY OnePartBegins
  <2>2. OnePart /\ [Next]_vars => OnePart'
    BY OnePartSteps
  <2> QED BY <2>1, <2>2, PTL DEF Spec
<1>2. (part = "forms" => FormInv) => (part = "forms" => C!TypeOK)
  BY DEF FormInv
<1>3. (part = "settings" => SettingInv) => (part = "settings" => F!TypeOK)
  BY DEF SettingInv
<1>4. (part = "cache" => CacheInv) => (part = "cache" => Q!TypeOK)
  BY DEF CacheInv
<1>5. (part = "uploads" => UploadInv) => (part = "uploads" => U!TypeOK)
  BY DEF UploadInv
<1>6. (part = "steps" => StepsInv) => (part = "steps" => P!TypeOK)
  BY DEF StepsInv
<1>7. (part = "changes" => ChangesInv) => (part = "changes" => G!TypeOK)
  BY DEF ChangesInv
<1>8. (part = "reviews" => ReviewInv) => (part = "reviews" => R!TypeOK)
  BY ReviewTypes
<1>9. ASSUME part \in {"reviews", "checks", "forms", "settings", "session", "run", "cache",
                       "uploads", "library", "steps", "changes"},
             part = "reviews" => R!TypeOK, part = "checks" => D!TypeOK,
             part = "forms" => C!TypeOK, part = "settings" => F!TypeOK,
             part = "session" => S!TypeOK, part = "run" => I!TypeOK,
             part = "cache" => Q!TypeOK, part = "uploads" => U!TypeOK,
             part = "library" => L!TypeOK, part = "steps" => P!TypeOK,
             part = "changes" => G!TypeOK
      PROVE  TypeOK
  BY <1>9 DEF TypeOK
<1> QED
  BY <1>1, <1>2, <1>3, <1>4, <1>5, <1>6, <1>7, <1>8, <1>9, ReviewInvariance, DialogTyped,
     FormInvariance, SettingInvariance, SessionTyped, IndicatorTyped, CacheInvariance,
     UploadInvariance, LibraryIsTyped, StepsInvariance, ChangesInvariance, PTL
==================================================================================
