----------------------------- MODULE CheckDialog -----------------------------
(***************************************************************************)
(* The "full check" button of an execution and its dialog: a check is      *)
(* started by hand, carried out by the server's only worker, polled every  *)
(* second while it is under way, cancelled, and found again when the       *)
(* dialog, or the page, is opened again.                                   *)
(***************************************************************************)
EXTENDS Naturals, FiniteSets

CONSTANTS
    Targets,   \* what may be checked: [candidate, job] records
    MaxChecks, \* bound: checks ever started
    MaxKept,   \* checks the server keeps before it drops finished ones
    MaxBreaks  \* bound: restarts of the server and reloads of the tab

VARIABLES
    checks, \* server: [Checks -> target, state, listed, stop]
    last,   \* tab: lastCheck, the last check started for each key, 0 for none
    button, \* tab: [Targets -> mounted, open, id] of the component
    data,   \* tab: [Checks -> cached status, "unknown" before the first answer]
    starts, \* tab: [Targets -> the POST in flight: "none", "sent", "error" or a check]
    breaks

vars == <<checks, last, button, data, starts, breaks>>

Checks == 1 .. MaxChecks
Ended == {"done", "failed", "cancelled"}

isActive(status) == status \in {"queued", "running"}

\* Mutant: the executions of one candidate share a key.
keyOfCandidate(t) == <<t.candidate, 0>>

keyOf(t) == <<t.candidate, t.job>>

DialogKeys == {keyOf(t) : t \in Targets}

TypeOK ==
    /\ checks \in [Checks -> [target : Targets \union {<<>>}, listed : BOOLEAN, stop : BOOLEAN,
                              state : {"unused", "queued", "running", "lost"} \union Ended]]
    /\ last \in [DialogKeys -> 0 .. MaxChecks]
    /\ button \in [Targets -> [mounted : BOOLEAN, open : BOOLEAN, id : 0 .. MaxChecks]]
    /\ data \in [Checks -> {"unknown", "queued", "running"} \union Ended]
    /\ starts \in [Targets -> {"none", "sent", "error"} \X (0 .. MaxChecks)
                              \union {"answered"} \X Checks]
    /\ breaks \in 0 .. MaxBreaks

Idle == <<"none", 0>>
NoButton == [mounted |-> FALSE, open |-> FALSE, id |-> 0]

Init ==
    /\ checks = [c \in Checks |-> [target |-> <<>>, state |-> "unused", listed |-> FALSE, stop |-> FALSE]]
    /\ last = [k \in DialogKeys |-> 0]
    /\ button = [t \in Targets |-> [NoButton EXCEPT !.mounted = TRUE]]
    /\ data = [c \in Checks |-> "unknown"]
    /\ starts = [t \in Targets |-> Idle]
    /\ breaks = 0

-----------------------------------------------------------------------------
(* The server.                                                              *)

\* start_check: the state is kept at once, the only worker takes it later.
ServeStart(t) ==
    /\ starts[t] = <<"sent", 0>>
    /\ \/ \E c \in Checks :
            /\ checks[c].state = "unused" /\ \A b \in Checks : b < c => checks[b].state # "unused"
            /\ checks' = [checks EXCEPT ![c] = [target |-> t, state |-> "queued",
                                                listed |-> TRUE, stop |-> FALSE]]
            /\ starts' = [starts EXCEPT ![t] = <<"answered", c>>]
       \/ starts' = [starts EXCEPT ![t] = <<"error", 0>>] /\ UNCHANGED checks
    /\ UNCHANGED <<last, button, data, breaks>>

Set(c, s) == checks' = [checks EXCEPT ![c].state = s] /\ UNCHANGED <<last, button, data, starts, breaks>>

Take(c) ==
    /\ checks[c].state = "queued" /\ \A b \in Checks : checks[b].state # "running"
    /\ \A b \in Checks : checks[b].state = "queued" => c <= b
    /\ Set(c, "running")

\* A request to stop is seen at the next piece, or too late.
WorkEnds(c) ==
    /\ checks[c].state = "running"
    /\ Set(c, "done") \/ Set(c, "failed") \/ (checks[c].stop /\ Set(c, "cancelled"))

Evict(c) ==
    /\ checks[c].state \in Ended /\ checks[c].listed
    /\ Cardinality({b \in Checks : checks[b].listed}) > MaxKept
    /\ checks' = [checks EXCEPT ![c].listed = FALSE]
    /\ UNCHANGED <<last, button, data, starts, breaks>>

Restart ==
    /\ breaks < MaxBreaks /\ breaks' = breaks + 1
    /\ checks' = [c \in Checks |-> [checks[c] EXCEPT
            !.listed = FALSE, !.state = IF isActive(@) THEN "lost" ELSE @]]
    /\ UNCHANGED <<last, button, data, starts>>

-----------------------------------------------------------------------------
(* The component (FullCheckButton.tsx, hooks/fullChecks.ts).                *)

\* What the dialog shows: the cached status of its check.
Shown(t) == IF button[t].id = 0 THEN "none" ELSE data[button[t].id]

OpenOrClose(t) ==
    /\ button[t].mounted
    /\ button' = [button EXCEPT ![t].open = ~@]
    /\ UNCHANGED <<checks, last, data, starts, breaks>>

\* Start, or run again: off while the check shown is under way or a start is pending.
Run(t) ==
    /\ button[t].open /\ ~isActive(Shown(t)) /\ starts[t][1] \in {"none", "error"}
    /\ starts' = [starts EXCEPT ![t] = <<"sent", 0>>]
    /\ UNCHANGED <<checks, last, button, data, breaks>>

\* The answer: the callback given to mutate does not run in a component that is gone.
StartAnswered(t) ==
    /\ starts[t][1] = "answered"
    /\ starts' = [starts EXCEPT ![t] = Idle]
    /\ IF button[t].mounted
       THEN /\ last' = [last EXCEPT ![keyOf(t)] = starts[t][2]]
            /\ button' = [button EXCEPT ![t].id = starts[t][2]]
       ELSE UNCHANGED <<last, button>>
    /\ UNCHANGED <<checks, data, breaks>>

\* useFullCheck: while queued, running or not known yet; an answer 404 leaves
\* what is cached, so that a check the server lost is polled for ever.
Poll(t) ==
    LET c == button[t].id
    IN  /\ button[t].mounted /\ c # 0 /\ data[c] \notin Ended
        /\ checks[c].listed
        /\ data' = [data EXCEPT ![c] = checks[c].state]
        /\ UNCHANGED <<checks, last, button, starts, breaks>>

\* The cancel button of a check under way.
Cancel(t) ==
    /\ button[t].open /\ isActive(Shown(t))
    /\ checks[button[t].id].listed /\ isActive(checks[button[t].id].state)
    /\ checks' = [checks EXCEPT ![button[t].id].stop = TRUE]
    /\ UNCHANGED <<last, button, data, starts, breaks>>

\* Another page, and back: the state of the component starts from lastCheck.
Leave(t) ==
    /\ button[t].mounted /\ button' = [button EXCEPT ![t] = NoButton]
    /\ UNCHANGED <<checks, last, data, starts, breaks>>

Mount(t) ==
    /\ ~button[t].mounted
    /\ button' = [button EXCEPT ![t] = [mounted |-> TRUE, open |-> FALSE, id |-> last[keyOf(t)]]]
    /\ starts' = [starts EXCEPT ![t] = Idle]
    /\ UNCHANGED <<checks, last, data, breaks>>

Reload ==
    /\ breaks < MaxBreaks /\ breaks' = breaks + 1
    /\ last' = [k \in DialogKeys |-> 0] /\ button' = [t \in Targets |-> [NoButton EXCEPT !.mounted = TRUE]]
    /\ data' = [c \in Checks |-> "unknown"] /\ starts' = [t \in Targets |-> Idle]
    /\ UNCHANGED checks

Next ==
    \/ \E t \in Targets : ServeStart(t) \/ OpenOrClose(t) \/ Run(t) \/ StartAnswered(t)
                          \/ Poll(t) \/ Cancel(t) \/ Leave(t) \/ Mount(t)
    \/ \E c \in Checks : Take(c) \/ WorkEnds(c) \/ Evict(c)
    \/ Restart \/ Reload

\* The worker works, the open page polls.
Fairness ==
    /\ \A c \in Checks : WF_vars(Take(c)) /\ WF_vars(WorkEnds(c))
    /\ \A t \in Targets : WF_vars(Poll(t))

Spec == Init /\ [][Next]_vars /\ Fairness

-----------------------------------------------------------------------------
\* A dialog that shows a check under way comes to show how it ended, unless the
\* server lost the check or the component is gone: polling goes on until then
\* ("si interroga ogni secondo finché è in coda o in corso, poi si ferma").
ShowsEnd(t) == ~isActive(Shown(t)) \/ ~checks[button[t].id].listed
DialogEnds == \A t \in Targets : isActive(Shown(t)) ~> ShowsEnd(t)

\* Coming back to a page shows the last check of that very execution, not one of
\* another execution of the same candidate ("riaprirla ne mostra lo stato").
ShownIsMine ==
    \A t \in Targets : button[t].id # 0 =>
        /\ checks[button[t].id].target = t
        /\ button[t].id = last[keyOf(t)]
=============================================================================
