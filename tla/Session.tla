------------------------------- MODULE Session -------------------------------
(***************************************************************************)
(* The login of one browser tab: the token in local storage, the gate in   *)
(* front of the pages, the password form, the logout, and the copy of the  *)
(* library that the browser keeps on its disk between visits.              *)
(***************************************************************************)
EXTENDS Naturals, FiniteSets

CONSTANTS
    MaxTokens, \* bound: tokens ever issued
    MaxCalls,  \* bound: requests in flight that the user or the focus of the window begins
    MaxBreaks  \* bound: reloads of the tab, expiries of the tokens, answers that get lost

VARIABLES
    configured, \* server: an account exists
    good,       \* server: the tokens it accepts
    issued,     \* server: how many tokens it has issued
    token,      \* tab: the token in local storage, 0 for none
    status,     \* tab: GET /api/auth/status: unknown, open, configured, or failed (no answer)
    me,         \* tab: GET /api/auth/me: unknown, ok, error, or stale (an error after an answer)
    library,    \* tab: the cache holds queries of the library
    stored,     \* browser: the library is in IndexedDB
    saving,     \* tab: the persister has a throttled write to do
    calls,      \* tab: [Kinds -> the request in flight]
    left,       \* the user has logged out and not signed in again
    breaks

vars == <<configured, good, issued, token, status, me, library, stored, saving, calls, left, breaks>>

Tokens == 1 .. MaxTokens
Queries == {"status", "me", "library"}
Kinds == Queries \union {"setup", "login", "password"}

\* A request carries the token there was when it was sent; a sign-in brings another.
NoCall == [sent |-> 0, answer |-> "none", brings |-> 0]
InFlight(kind) == calls[kind].answer # "none"

TypeOK ==
    /\ configured \in BOOLEAN /\ good \subseteq Tokens /\ issued \in 0 .. MaxTokens
    /\ token \in Tokens \union {0}
    /\ status \in {"unknown", "open", "configured", "failed"}
    /\ me \in {"unknown", "ok", "error", "stale"}
    /\ library \in BOOLEAN /\ stored \in BOOLEAN /\ saving \in BOOLEAN
    /\ calls \in [Kinds -> [sent : Tokens \union {0}, brings : Tokens \union {0},
                            answer : {"none", "asked", "ok", "401", "error"}]]
    /\ left \in BOOLEAN /\ breaks \in 0 .. MaxBreaks

Init ==
    /\ configured \in BOOLEAN /\ good = {} /\ issued = 0
    /\ token = 0 /\ status = "unknown" /\ me = "unknown"
    /\ library = FALSE /\ stored = FALSE /\ saving = FALSE
    /\ calls = [k \in Kinds |-> NoCall]
    /\ left = FALSE /\ breaks = 0

-----------------------------------------------------------------------------
(* The tab sends.                                                           *)

\* AuthGate: the screen in front of the user.  A status that could not be read counts
\* as an instance without an account.
AuthGate ==
    CASE status = "unknown" -> "nothing"
      [] status \in {"open", "failed"} -> "SetupScreen"
      [] status = "configured" /\ me = "unknown" -> "nothing"
      [] status = "configured" /\ me \in {"error", "stale"} -> "LoginScreen"
      [] OTHER -> "pages"

onRequest(with) == [NoCall EXCEPT !.sent = with, !.answer = "asked"]

\* A query in error that never had data is pending again while it is read again.
Fetching(state) == IF state \in {"failed", "error"} THEN "unknown" ELSE state

\* Bound: one request of each kind at a time.
Ask(kind) ==
    /\ ~InFlight(kind)
    /\ Cardinality({k \in Kinds : InFlight(k)}) < MaxCalls
    /\ calls' = [calls EXCEPT ![kind] = onRequest(token)]
    /\ UNCHANGED <<configured, good, issued, token, library, stored, saving, left, breaks>>

\* The forms, off while their request is pending.
SetupScreen == AuthGate = "SetupScreen" /\ Ask("setup") /\ UNCHANGED <<status, me>>
LoginScreen == AuthGate = "LoginScreen" /\ Ask("login") /\ UNCHANGED <<status, me>>
SecuritySection == AuthGate = "pages" /\ Ask("password") /\ UNCHANGED <<status, me>>

\* The queries, when they are mounted and when the window has the focus again.
useAuthStatus == Ask("status") /\ status' = Fetching(status) /\ UNCHANGED me
useMe == status = "configured" /\ Ask("me") /\ me' = Fetching(me) /\ UNCHANGED status
useLibraryItems == AuthGate = "pages" /\ Ask("library") /\ UNCHANGED <<status, me>>

-----------------------------------------------------------------------------
(* The server answers.                                                      *)

Answers(kind, answer) ==
    calls' = [calls EXCEPT ![kind].answer = answer]

\* require_auth, and /me which wants an account too.
AnswerQuery(kind) ==
    /\ kind \in {"me", "library"} /\ calls[kind].answer = "asked"
    /\ Answers(kind, IF calls[kind].sent \in good \/ (kind = "library" /\ ~configured) THEN "ok" ELSE "401")
    /\ UNCHANGED <<configured, good, issued, token, status, me, library, stored, saving, left, breaks>>

\* GET /status says what it finds; the value is read here and delivered later.
AnswerStatus ==
    /\ calls["status"].answer = "asked"
    /\ calls' = [calls EXCEPT !["status"].answer = "ok", !["status"].brings = IF configured THEN 1 ELSE 0]
    /\ UNCHANGED <<configured, good, issued, token, status, me, library, stored, saving, left, breaks>>

Issue(kind) ==
    /\ issued < MaxTokens /\ issued' = issued + 1 /\ good' = good \union {issued + 1}
    /\ calls' = [calls EXCEPT ![kind].answer = "ok", ![kind].brings = issued + 1]

\* Refused if there is an account, or for a blank name.
AnswerSetup ==
    /\ calls["setup"].answer = "asked"
    /\ \/ ~configured /\ configured' = TRUE /\ Issue("setup")
       \/ Answers("setup", "error") /\ UNCHANGED <<configured, good, issued>>
    /\ UNCHANGED <<token, status, me, library, stored, saving, left, breaks>>

\* The credentials are right, or wrong.
AnswerLogin ==
    /\ calls["login"].answer = "asked"
    /\ \/ Issue("login")
       \/ Answers("login", "401") /\ UNCHANGED <<good, issued>>
    /\ UNCHANGED <<configured, token, status, me, library, stored, saving, left, breaks>>

\* A wrong current password is a 401 like a wrong token.
AnswerPassword ==
    /\ calls["password"].answer = "asked"
    /\ \/ calls["password"].sent \in good /\ Answers("password", "ok")
       \/ Answers("password", "401")
    /\ UNCHANGED <<configured, good, issued, token, status, me, library, stored, saving, left, breaks>>

\* A query gets no answer, or a server error (the library and the status after retries).
Lose(kind) ==
    /\ kind \in Queries /\ calls[kind].answer = "asked"
    /\ breaks < MaxBreaks /\ breaks' = breaks + 1
    /\ Answers(kind, "error")
    /\ UNCHANGED <<configured, good, issued, token, status, me, library, stored, saving, left>>

Expire ==
    /\ breaks < MaxBreaks /\ breaks' = breaks + 1
    /\ good # {} /\ good' = {}
    /\ UNCHANGED <<configured, issued, token, status, me, library, stored, saving, calls, left>>

-----------------------------------------------------------------------------
(* The answers arrive.                                                      *)

\* The middleware discards the token on any 401, whatever token the request carried.
onResponse(kind) == IF calls[kind].answer = "401" THEN 0 ELSE token

Done(kind) == [calls EXCEPT ![kind] = NoCall]

DeliverStatus ==
    /\ calls["status"].answer \in {"ok", "error"}
    /\ status' = CASE calls["status"].answer = "error" -> IF status = "unknown" THEN "failed" ELSE status
                   [] calls["status"].brings = 1 -> "configured"
                   [] OTHER -> "open"
    /\ calls' = Done("status")
    /\ UNCHANGED <<configured, good, issued, token, me, library, stored, saving, left, breaks>>

DeliverMe ==
    /\ calls["me"].answer \in {"ok", "401", "error"}
    /\ me' = CASE calls["me"].answer = "ok" -> "ok"
               [] me \in {"ok", "stale"} -> "stale"
               [] OTHER -> "error"
    /\ token' = onResponse("me") /\ calls' = Done("me")
    /\ UNCHANGED <<configured, good, issued, status, library, stored, saving, left, breaks>>

\* A library query that succeeds is in the cache, and the cache is to be persisted;
\* one that fails keeps what it had.
DeliverLibrary ==
    /\ calls["library"].answer \in {"ok", "401", "error"}
    /\ library' = (library \/ calls["library"].answer = "ok") /\ saving' = TRUE
    /\ token' = onResponse("library") /\ calls' = Done("library")
    /\ UNCHANGED <<configured, good, issued, status, me, stored, left, breaks>>

\* An invalidated query is read again, an answer in flight being dropped, but for the
\* very first one.
Again(kind, state, with) ==
    IF state = "unknown" /\ InFlight(kind) THEN calls[kind] ELSE onRequest(with)

\* useSetup and useLogin: the token is kept and the two questions are asked again.
DeliverSignIn(kind) ==
    /\ kind \in {"setup", "login"} /\ calls[kind].answer \in {"ok", "401", "error"}
    /\ IF calls[kind].answer = "ok"
       THEN /\ token' = calls[kind].brings /\ left' = FALSE
            /\ calls' = [calls EXCEPT ![kind] = NoCall,
                            !["status"] = Again("status", status, calls[kind].brings),
                            !["me"] = IF status = "configured" THEN Again("me", me, calls[kind].brings)
                                      ELSE @]
            /\ status' = Fetching(status)
            /\ me' = IF status = "configured" THEN Fetching(me) ELSE me
       ELSE token' = onResponse(kind) /\ calls' = Done(kind) /\ UNCHANGED <<left, status, me>>
    /\ UNCHANGED <<configured, good, issued, library, stored, saving, breaks>>

DeliverPassword ==
    /\ calls["password"].answer \in {"ok", "401"}
    /\ token' = onResponse("password") /\ calls' = Done("password")
    /\ UNCHANGED <<configured, good, issued, status, me, library, stored, saving, left, breaks>>

\* Mutant: only the copy on the disk is removed.
ForgottenOnDisk == library

\* What the cache holds of the library after a logout: its queries, one in flight
\* included, are removed.
Forgotten == FALSE

\* logout: the token, the library in the cache and the copy on the disk go, and the
\* two questions are asked again.
Logout ==
    /\ AuthGate = "pages"
    /\ token' = 0 /\ library' = Forgotten /\ stored' = FALSE
    /\ saving' = TRUE /\ left' = TRUE
    /\ calls' = [calls EXCEPT !["library"] = NoCall,
                              !["status"] = onRequest(0), !["me"] = onRequest(0)]
    /\ UNCHANGED <<configured, good, issued, status, me, breaks>>

\* The persister's throttled write: what the cache held at its latest event.
Persist ==
    /\ saving /\ saving' = FALSE /\ stored' = library
    /\ UNCHANGED <<configured, good, issued, token, status, me, library, calls, left, breaks>>

\* The page is loaded again, and the library restored from the disk.
Reload ==
    /\ breaks < MaxBreaks /\ breaks' = breaks + 1
    /\ status' = "unknown" /\ me' = "unknown"
    /\ library' = stored /\ saving' = FALSE
    /\ calls' = [k \in Kinds |-> NoCall]
    /\ UNCHANGED <<configured, good, issued, token, stored, left>>

Next ==
    \/ SetupScreen \/ LoginScreen \/ SecuritySection
    \/ useAuthStatus \/ useMe \/ useLibraryItems
    \/ \E k \in Kinds : AnswerQuery(k) \/ Lose(k) \/ DeliverSignIn(k)
    \/ AnswerStatus \/ AnswerSetup \/ AnswerLogin \/ AnswerPassword \/ Expire
    \/ DeliverStatus \/ DeliverMe \/ DeliverLibrary \/ DeliverPassword
    \/ Logout \/ Persist \/ Reload

Spec == Init /\ [][Next]_vars

-----------------------------------------------------------------------------
\* After a logout the library is neither in the cache nor, once the persister has
\* nothing left to write, on the disk: no fetch in flight, no delayed write and no
\* page still mounted brings it back, in an instance with an account and until the
\* next sign-in.  (One tab: another tab of the same browser persists its own cache.)
LibraryForgotten == left => ~library /\ (saving \/ ~stored)
=============================================================================
