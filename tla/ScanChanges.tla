------------------------------ MODULE ScanChanges ------------------------------
(***************************************************************************)
(* What has changed since the last scan: at the end of a run that scanned  *)
(* and indexed everything, the state of each file is compared with the     *)
(* picture that the last such run left, the differences are recorded and   *)
(* the picture is replaced (file_changes.py).  The dashboard shows those   *)
(* of the latest picture, between the two runs it names.                   *)
(* Nothing keeps two runs from doing this at once.                         *)
(***************************************************************************)
EXTENDS Naturals, FiniteSets, FiniteSetsExt, Sequences

CONSTANTS
    Files,   \* paths, of the library or of the torrents
    MaxRuns, \* bound: rows of run_log
    Kept,    \* runs whose changes are kept (KEEP_RUNS)
    Limit,   \* changes in an answer
    MaxActs  \* bound: changes of the index, restarts and what users do

VARIABLES
    index,    \* server: [Files -> State], as scans and torrent clients last had it
    excluded, \* server: files that match an exclusion
    runs,     \* server: run_log: how far each run is, and snapshot_saved
    picture,  \* server: file_state_snapshot, a row for each file that is there
    changes,  \* server: file_change
    read,     \* server: what a run that compares has read
    taken,    \* the picture each run has saved, and what was excluded when it did
    mixed,    \* two runs compared at once, or in another order than they began
    cached,   \* tab: the answer of GET /api/dashboard/changes
    kind,     \* tab: the kind of changes chosen on the card
    acts

vars == <<index, excluded, runs, picture, changes, read, taken, mixed, cached, kind, acts>>

\* A file in the client is seeding, or stopped there, or ignored if the library has no
\* link to it; one that is not there is orphan.
States == {"absent", "seeding", "stopped", "ignored", "orphan"}
Gone == [f \in Files |-> "absent"]
Reading == [now : [Files -> States], before : [Files -> States], hidden : SUBSET Files]
Unread == [now |-> Gone, before |-> Gone, hidden |-> {}]
Kinds == {"new", "removed", "now_seeding", "now_orphaned", "now_ignored", "stopped", "resumed"}
NoAnswer == [run |-> 0, since |-> 0, rows |-> {}, total |-> 0, counts |-> [k \in Kinds |-> 0]]

TypeOK ==
    /\ index \in [Files -> States] /\ excluded \subseteq Files
    /\ runs \in Seq([at : {"working", "comparing", "over"}, saved : BOOLEAN])
    /\ Len(runs) <= MaxRuns
    /\ picture \in [Files -> States]
    /\ changes \subseteq [run : 1 .. MaxRuns, file : Files, kind : Kinds]
    /\ {read, taken} \subseteq [1 .. MaxRuns -> Reading]
    /\ mixed \in BOOLEAN
    /\ cached.run \in 0 .. Len(runs) /\ cached.rows \subseteq [run : 1 .. MaxRuns, file : Files, kind : Kinds]
    /\ kind \in Kinds \union {"all"} /\ acts \in 0 .. MaxActs

Init ==
    /\ index \in [Files -> {"absent", "seeding"}] /\ excluded = {} /\ runs = <<>>
    /\ picture = Gone /\ changes = {}
    /\ read = [i \in 1 .. MaxRuns |-> Unread] /\ taken = read /\ mixed = FALSE
    /\ cached = NoAnswer /\ kind = "all" /\ acts = 0

server == <<index, excluded, runs, picture, changes, read, taken, mixed>>

-----------------------------------------------------------------------------
(* The runs.                                                                *)

Act == acts < MaxActs /\ acts' = acts + 1

start_run ==
    /\ Len(runs) < MaxRuns
    /\ runs' = Append(runs, [at |-> "working", saved |-> FALSE])
    /\ UNCHANGED <<index, excluded, picture, changes, read, taken, mixed, cached, kind, acts>>

\* A scan, a client's list or a refresh finds a file in another state.
Found(f, s) ==
    /\ s # index[f] /\ Act
    /\ index' = [index EXCEPT ![f] = s]
    /\ UNCHANGED <<excluded, runs, picture, changes, read, taken, mixed, cached, kind>>

\* record_changes, only after a complete scan: both sides are read ...
Compare(i) ==
    /\ runs[i].at = "working"
    /\ runs' = [runs EXCEPT ![i].at = "comparing"]
    /\ read' = [read EXCEPT ![i] = [now |-> index, before |-> picture, hidden |-> excluded]]
    /\ UNCHANGED <<index, excluded, picture, changes, taken, mixed, cached, kind, acts>>

Seeding(s) == s \in {"seeding", "stopped"}

\* _state_change and _kind: a state that changes says more than being stopped.
Kind(before, after) ==
    IF before = after THEN "none"
    ELSE IF before = "absent" THEN "new"
    ELSE IF after = "absent" THEN "removed"
    ELSE IF after = "orphan" THEN "now_orphaned"
    ELSE IF after = "ignored" THEN "now_ignored"
    ELSE IF ~Seeding(before) THEN "now_seeding"
    ELSE IF after = "stopped" THEN "stopped"
    ELSE "resumed"

\* The rows a run adds.
Differences(i) ==
    {[run |-> i, file |-> f, kind |-> Kind(read[i].before[f], read[i].now[f])] :
        f \in {g \in Files \ read[i].hidden : read[i].before[g] # read[i].now[g]}}

\* Mutant: the runs are counted from the oldest on.
KeptOldest(all) ==
    LET with == {c.run : c \in all}
    IN  {c \in all : Cardinality({r \in with : r < c.run}) < Kept}

\* The changes of the last runs that have some.
KeptOf(all) ==
    LET with == {c.run : c \in all}
    IN  {c \in all : Cardinality({r \in with : r > c.run}) < Kept}

\* ... and the differences are recorded with the new picture, in one transaction.
\* Without a picture, or with one of no file, there is nothing to compare with.
Record(i) ==
    /\ runs[i].at = "comparing"
    /\ changes' = IF read[i].before = Gone THEN changes
                  ELSE KeptOf(changes \union Differences(i))
    /\ picture' = read[i].now
    /\ runs' = [runs EXCEPT ![i] = [at |-> "over", saved |-> TRUE]]
    /\ taken' = [taken EXCEPT ![i] = read[i]] /\ read' = [read EXCEPT ![i] = Unread]
    /\ mixed' = (mixed \/ picture # read[i].before \/ \E j \in DOMAIN runs : j > i /\ runs[j].saved)
    /\ UNCHANGED <<index, excluded, cached, kind, acts>>

\* A run ends without a comparison: a scan or an indexing failed, it was stopped, an
\* error undid what it recorded, or the process died (close_interrupted_runs).
EndsWithout(i) ==
    /\ runs[i].at # "over" /\ Act
    /\ runs' = [runs EXCEPT ![i].at = "over"] /\ read' = [read EXCEPT ![i] = Unread]
    /\ UNCHANGED <<index, excluded, picture, changes, taken, mixed, cached, kind>>

Exclude(f) ==
    /\ Act /\ excluded' = IF f \in excluded THEN excluded \ {f} ELSE excluded \union {f}
    /\ UNCHANGED <<index, runs, picture, changes, read, taken, mixed, cached, kind>>

-----------------------------------------------------------------------------
(* The dashboard.                                                           *)

\* The two latest pictures name the runs; the counts are of all the changes of the
\* latest, of which the first ones are listed.
get_changes ==
    LET saved == {i \in DOMAIN runs : runs[i].saved}
        current == Max(saved)
        previous == Max(saved \ {current})
        rows == {c \in changes : c.run = current}
    IN  IF Cardinality(saved) < 2 THEN NoAnswer
        ELSE [run |-> current, since |-> previous, total |-> Cardinality(rows),
              counts |-> [k \in Kinds |-> Cardinality({c \in rows : c.kind = k})],
              rows |-> CHOOSE part \in SUBSET rows :
                          Cardinality(part) = Min({Limit, Cardinality(rows)})]

useDashboardChanges ==
    /\ cached # get_changes /\ cached' = get_changes
    /\ UNCHANGED <<server, kind, acts>>

\* ChangesCard: a chip for each kind there is, which stays chosen when the kind is gone.
chips == {k \in Kinds : cached.counts[k] > 0}
shown == {c \in cached.rows : kind \in {"all", c.kind}}

ChangesCard ==
    /\ kind' \in (chips \union {"all"}) \ {kind}
    /\ UNCHANGED <<server, cached, acts>>

Next ==
    \/ start_run \/ useDashboardChanges \/ ChangesCard
    \/ \E i \in DOMAIN runs : Compare(i) \/ Record(i) \/ EndsWithout(i)
    \/ \E f \in Files : Exclude(f) \/ \E s \in States : Found(f, s)

Spec == Init /\ [][Next]_vars

-----------------------------------------------------------------------------
\* The card tells what happened between the two runs it names: the changes listed,
\* the number on each chip and the total are those of the files between the pictures
\* that these runs left, for the files not excluded when they were compared, whatever
\* incomplete scans, failures, stops and restarts came between.  It fails when two
\* runs compare at once (mixed), and after a picture without any file.
ChangesTell ==
    LET before == taken[cached.since].now
        after == taken[cached.run].now
        told(f) == Kind(before[f], after[f])
        real == {f \in Files \ taken[cached.run].hidden : told(f) # "none"}
    IN  cached.run # 0 /\ ~mixed /\ before # Gone =>
            /\ \A c \in shown : c.run = cached.run /\ c.file \in real /\ c.kind = told(c.file)
            /\ cached.total = Cardinality(real)
            /\ \A k \in Kinds : cached.counts[k] = Cardinality({f \in real : told(f) = k})
=============================================================================
