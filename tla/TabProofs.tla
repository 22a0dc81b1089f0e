------------------------------- MODULE TabProofs -------------------------------
(***************************************************************************)
(* What the tab shows of its session, of full checks and of runs, for any  *)
(* number of tokens, requests, executions, checks, runs, reloads, expiries *)
(* and lost answers: nothing brings the library back after a logout, a     *)
(* dialog shows no other execution's check, and the types of all three.    *)
(***************************************************************************)
EXTENDS Web, WellFoundedInduction, TLAPS

-----------------------------------------------------------------------------
(* The parts do not meet                                                    *)

\* A behaviour is one of one part from its first state.
LEMMA OnePartBegins ==
  ASSUME Init
  PROVE  /\ part \in {"reviews", "checks", "forms", "settings", "session", "run", "cache",
                      "uploads", "library", "steps", "changes"}
         /\ part = "reviews" => R!Init
         /\ part = "checks" => D!Init
         /\ part = "forms" => C!Init
         /\ part = "settings" => F!Init
         /\ part = "session" => S!Init
         /\ part = "run" => I!Init
         /\ part = "cache" => Q!Init
         /\ part = "uploads" => U!Init
         /\ part = "library" => L!Init
         /\ part = "steps" => P!Init
         /\ part = "changes" => G!Init
  BY DEF Init

\* A step is one of the part that runs, which stays the same.
LEMMA OnePartSteps ==
  ASSUME [Next]_vars
  PROVE  /\ part' = part
         /\ part = "reviews" => [R!Next]_(R!vars)
         /\ part = "checks" => [D!Next]_(D!vars)
         /\ part = "forms" => [C!Next]_(C!vars)
         /\ part = "settings" => [F!Next]_(F!vars)
         /\ part = "session" => [S!Next]_(S!vars)
         /\ part = "run" => [I!Next]_(I!vars)
         /\ part = "cache" => [Q!Next]_(Q!vars)
         /\ part = "uploads" => [U!Next]_(U!vars)
         /\ part = "library" => [L!Next]_(L!vars)
         /\ part = "steps" => [P!Next]_(P!vars)
         /\ part = "changes" => [G!Next]_(G!vars)
<1>1. CASE UNCHANGED vars
  BY <1>1 DEF vars, R!vars, D!vars, C!vars, F!vars, S!vars, I!vars, Q!vars, U!vars, L!vars,
              P!vars, G!vars
<1>2. CASE Next
  BY <1>2 DEF Next, InReviews, InChecks, InForms, InSettings, InSession, InRun, InCache,
              InUploads, InLibrary, InSteps, InChanges, Reviewing, Checking, Editing, Following,
              Browsing
<1> QED BY <1>1, <1>2

-----------------------------------------------------------------------------
(* Numbers                                                                  *)

\* A set of numbers has a smallest one; with an upper bound it has a largest one.
LEMMA Smallest ==
  ASSUME NEW nums \in SUBSET Nat, nums # {}
  PROVE  \E n \in nums : \A k \in nums : n <= k
<1> DEFINE less == OpToRel(<, Nat)
<1>1. IsWellFoundedOn(less, Nat)
  BY NatLessThanWellFounded
<1>2. \A n, k \in nums : k < n => <<k, n>> \in less
  BY DEF OpToRel
<1> HIDE DEF less
<1>3. PICK n \in nums : \A k \in nums : ~ (<<k, n>> \in less)
  BY <1>1, WFMin
<1>4. ASSUME NEW k \in nums PROVE n <= k
  <2>1. ~ (k < n)
    BY <1>2, <1>3
  <2> QED BY <2>1
<1> QED BY <1>4

LEMMA Largest ==
  ASSUME NEW bound \in Nat, NEW nums \in SUBSET (0 .. bound), nums # {}
  PROVE  \E n \in nums : \A k \in nums : k <= n
<1> DEFINE dists == {bound - n : n \in nums}
<1>0. \A n \in nums : bound - n \in Nat
  OBVIOUS
<1>1. dists \in SUBSET Nat /\ dists # {}
  BY <1>0
<1>2. PICK d \in dists : \A e \in dists : d <= e
  BY <1>1, Smallest
<1>3. PICK n \in nums : d = bound - n
  BY <1>2
<1>4. \A k \in nums : k <= n
  <2> TAKE k \in nums
  <2>1. d <= bound - k
    BY <1>2
  <2> QED BY <1>3, <2>1
<1> QED BY <1>4

-----------------------------------------------------------------------------
(* The session                                                              *)

LOCAL configured == v1
LOCAL good == v2
LOCAL issued == v3
LOCAL token == v4
LOCAL status == v5
LOCAL me == v6
LOCAL library == v7
LOCAL stored == v8
LOCAL saving == v9
LOCAL calls == v10
LOCAL left == v11
LOCAL breaks == v12
USE DEF configured, good, issued, token, status, me, library, stored, saving, calls, left, breaks

Call == [sent : S!Tokens \union {0}, brings : S!Tokens \union {0},
         answer : {"none", "asked", "ok", "401", "error"}]

\* What the tab takes for an account is one: pages are shown only in front of it.
AccountExists ==
    /\ status = "configured" => configured
    /\ calls["status"].brings = 1 => configured
    /\ left => configured

\* Since the logout there is no token, so that the server refuses every request for
\* the library; none sent before is awaited, and no copy is left.
NothingLeft ==
    left => /\ token = 0
            /\ calls["library"].sent = 0 /\ calls["library"].answer # "ok"
            /\ ~library /\ ~stored

SessionInv == S!TypeOK /\ AccountExists /\ NothingLeft

-----------------------------------------------------------------------------
\* The kinds of requests, by name.
LEMMA Kind == /\ {"status", "me", "library", "setup", "login", "password"} = S!Kinds
              /\ "status" \in S!Kinds /\ "me" \in S!Kinds /\ "library" \in S!Kinds
  BY DEF S!Kinds, S!Queries

\* A request is well formed and carries the token it was sent with.
LEMMA Requested ==
  ASSUME S!TypeOK
  PROVE  /\ S!NoCall \in Call /\ S!onRequest(token) \in Call /\ S!onRequest(0) \in Call
         /\ \A w \in S!Tokens \union {0} :
               S!onRequest(w) \in Call /\ S!onRequest(w).sent = w /\ S!onRequest(w).brings = 0
                 /\ S!onRequest(w).answer = "asked"
  BY DEF S!TypeOK, S!NoCall, S!onRequest, Call

\* The middleware leaves the token or discards it.
LEMMA Discarded ==
  ASSUME NEW kind, S!TypeOK
  PROVE  S!onResponse(kind) \in {0, token}
  BY DEF S!onResponse

\* A request that is begun changes the calls alone.
LEMMA AskKept ==
  ASSUME SessionInv, NEW kind \in S!Kinds, S!Ask(kind),
         status' \in {status, "unknown"}, me' \in {me, "unknown"}
  PROVE  SessionInv'
<1>1. calls' = [calls EXCEPT ![kind] = S!onRequest(token)]
  BY DEF S!Ask
<1>2. S!onRequest(token) \in Call /\ S!onRequest(token).sent = token
      /\ S!onRequest(token).brings = 0 /\ S!onRequest(token).answer = "asked"
  BY Requested DEF SessionInv, S!TypeOK
<1>3. calls \in [S!Kinds -> Call] /\ calls' \in [S!Kinds -> Call]
  BY <1>1, <1>2 DEF SessionInv, S!TypeOK, Call
<1>4. S!TypeOK'
  BY <1>3 DEF SessionInv, S!TypeOK, S!Ask, Call
<1>5. AccountExists'
  BY <1>1, <1>2, <1>3, Kind DEF SessionInv, AccountExists, S!Ask
<1>6. NothingLeft'
  BY <1>1, <1>2, <1>3, Kind DEF SessionInv, NothingLeft, S!Ask
<1> QED BY <1>4, <1>5, <1>6 DEF SessionInv

\* What the user or the focus of the window begins: forms and queries.
LEMMA QueryBegun ==
  ASSUME SessionInv,
         S!SetupScreen \/ S!LoginScreen \/ S!SecuritySection
           \/ S!useAuthStatus \/ S!useMe \/ S!useLibraryItems
  PROVE  SessionInv'
<1>1. PICK kind \in S!Kinds : S!Ask(kind) /\ status' \in {status, "unknown"} /\ me' \in {me, "unknown"}
  BY Kind DEF S!SetupScreen, S!LoginScreen, S!SecuritySection, S!useAuthStatus, S!useMe, S!useLibraryItems, S!Fetching
<1> QED BY <1>1, AskKept

\* What a change of the calls must respect: of the question about the status and of the
\* request for the library, and of nothing else.
LEMMA CallsKept ==
  ASSUME SessionInv, NEW kind \in S!Kinds, NEW c \in Call,
         calls' = [calls EXCEPT ![kind] = c],
         UNCHANGED <<configured, status, token, library, stored, left>>,
         kind = "status" => (c.brings = 1 => configured),
         kind = "library" => (left => c.sent = 0 /\ c.answer # "ok")
  PROVE  AccountExists' /\ NothingLeft' /\ calls' \in [S!Kinds -> Call]
<1>1. calls \in [S!Kinds -> Call]
  BY DEF SessionInv, S!TypeOK, Call
<1> QED BY <1>1, Kind DEF SessionInv, AccountExists, NothingLeft

\* The server answers a query or the password form, or its answer is lost.
LEMMA QueryAnswered ==
  ASSUME MaxTokens \in Nat \ {0}, MaxBreaks \in Nat, SessionInv,
         \/ \E k \in S!Kinds : S!AnswerQuery(k) \/ S!Lose(k)
         \/ S!AnswerStatus \/ S!AnswerPassword
  PROVE  SessionInv'
<1> USE DEF SessionInv
<1>0. calls \in [S!Kinds -> Call]
  BY DEF S!TypeOK, Call
<1>1. ASSUME NEW k \in S!Kinds, S!AnswerQuery(k) PROVE SessionInv'
  <2> DEFINE a == IF calls[k].sent \in good \/ (k = "library" /\ ~configured) THEN "ok" ELSE "401"
             c == [calls[k] EXCEPT !.answer = a]
  <2>1. calls' = [calls EXCEPT ![k] = c]
    BY <1>1, <1>0 DEF S!AnswerQuery, S!Answers
  <2>2. c \in Call /\ c.sent = calls[k].sent /\ c.brings = calls[k].brings /\ c.answer = a
    BY <1>0 DEF Call
  <2>3. k # "status"
    BY <1>1 DEF S!AnswerQuery
  <2>4. k = "library" => (left => c.sent = 0 /\ c.answer # "ok")
    <3> SUFFICES ASSUME k = "library", left PROVE c.sent = 0 /\ c.answer # "ok"
      OBVIOUS
    <3>1. calls[k].sent = 0 /\ configured
      BY DEF NothingLeft, AccountExists
    <3>2. 0 \notin good
      BY DEF S!TypeOK, S!Tokens
    <3> QED BY <2>2, <3>1, <3>2
  <2> HIDE DEF a, c
  <2>5. AccountExists' /\ NothingLeft' /\ calls' \in [S!Kinds -> Call]
    BY <1>1, <2>1, <2>2, <2>3, <2>4, CallsKept DEF S!AnswerQuery
  <2> QED BY <1>1, <2>5 DEF S!AnswerQuery, S!TypeOK, Call
<1>2. ASSUME NEW k \in S!Kinds, S!Lose(k) PROVE SessionInv'
  <2> DEFINE c == [calls[k] EXCEPT !.answer = "error"]
  <2>1. calls' = [calls EXCEPT ![k] = c]
    BY <1>2, <1>0 DEF S!Lose, S!Answers
  <2>2. c \in Call /\ c.sent = calls[k].sent /\ c.brings = calls[k].brings /\ c.answer = "error"
    BY <1>0 DEF Call
  <2>3. /\ k = "status" => (c.brings = 1 => configured)
        /\ k = "library" => (left => c.sent = 0 /\ c.answer # "ok")
    BY <2>2 DEF AccountExists, NothingLeft
  <2> HIDE DEF c
  <2>4. AccountExists' /\ NothingLeft' /\ calls' \in [S!Kinds -> Call]
    BY <1>2, <2>1, <2>2, <2>3, CallsKept DEF S!Lose
  <2>5. breaks' \in 0 .. MaxBreaks
    BY <1>2 DEF S!Lose, S!TypeOK
  <2> QED BY <1>2, <2>4, <2>5 DEF S!Lose, S!TypeOK, Call
<1>3. ASSUME S!AnswerStatus PROVE SessionInv'
  <2> DEFINE b == IF configured THEN 1 ELSE 0
             c == [calls["status"] EXCEPT !.answer = "ok", !.brings = b]
  <2>1. calls' = [calls EXCEPT !["status"] = c]
    BY <1>3, <1>0, Kind DEF S!AnswerStatus
  <2>b. b \in S!Tokens \union {0}
    BY DEF S!Tokens
  <2>2. c \in Call /\ c.brings = b
    BY <1>0, <2>b, Kind DEF Call
  <2>3. c.brings = 1 => configured
    BY <2>2
  <2> HIDE DEF b, c
  <2>4. AccountExists' /\ NothingLeft' /\ calls' \in [S!Kinds -> Call]
    BY <1>3, <2>1, <2>2, <2>3, Kind, CallsKept DEF S!AnswerStatus
  <2> QED BY <1>3, <2>4 DEF S!AnswerStatus, S!TypeOK, Call
<1>4. ASSUME S!AnswerPassword PROVE SessionInv'
  <2>1. PICK a \in {"ok", "401"} : S!Answers("password", a)
    BY <1>4 DEF S!AnswerPassword
  <2> DEFINE c == [calls["password"] EXCEPT !.answer = a]
  <2>2. calls' = [calls EXCEPT !["password"] = c] /\ c \in Call
    BY <2>1, <1>0, Kind DEF S!Answers, Call
  <2> HIDE DEF c
  <2>3. AccountExists' /\ NothingLeft' /\ calls' \in [S!Kinds -> Call]
    BY <1>4, <2>2, Kind, CallsKept DEF S!AnswerPassword
  <2> QED BY <1>4, <2>3 DEF S!AnswerPassword, S!TypeOK, Call
<1> QED BY <1>1, <1>2, <1>3, <1>4

\* A new token is one the server knows, and reaches the tab with its answer only.
LEMMA Issued ==
  ASSUME MaxTokens \in Nat \ {0}, SessionInv, NEW kind \in {"setup", "login"}, S!Issue(kind)
  PROVE  /\ good' \subseteq S!Tokens /\ issued' \in 0 .. MaxTokens
         /\ \E c \in Call : calls' = [calls EXCEPT ![kind] = c]
<1> DEFINE c == [calls[kind] EXCEPT !.answer = "ok", !.brings = issued + 1]
<1>1. calls \in [S!Kinds -> Call] /\ kind \in S!Kinds
  BY Kind DEF SessionInv, S!TypeOK, Call
<1>2. issued + 1 \in S!Tokens /\ issued' \in 0 .. MaxTokens
  BY DEF SessionInv, S!TypeOK, S!Issue, S!Tokens
<1>3. c \in Call
  BY <1>1, <1>2 DEF Call
<1>4. calls' = [calls EXCEPT ![kind] = c]
  BY <1>1 DEF S!Issue
<1>5. good' \subseteq S!Tokens
  BY <1>2 DEF S!Issue, SessionInv, S!TypeOK
<1> HIDE DEF c
<1> QED BY <1>2, <1>3, <1>4, <1>5

\* The server answers a sign-in; tokens expire.
LEMMA SignIn ==
  ASSUME MaxTokens \in Nat \ {0}, MaxBreaks \in Nat, SessionInv,
         S!AnswerSetup \/ S!AnswerLogin \/ S!Expire
  PROVE  SessionInv'
<1>0. calls \in [S!Kinds -> Call]
  BY DEF SessionInv, S!TypeOK, Call
<1>1. CASE S!Expire
  <2>1. S!TypeOK'
    BY <1>1 DEF S!Expire, SessionInv, S!TypeOK
  <2> QED BY <1>1, <2>1 DEF S!Expire, SessionInv, AccountExists, NothingLeft
<1>2. ASSUME NEW kind \in {"setup", "login"}, S!Answers(kind, "error") \/ S!Answers(kind, "401")
      PROVE  \E c \in Call : calls' = [calls EXCEPT ![kind] = c]
  <2>1. PICK a \in {"error", "401"} : S!Answers(kind, a)
    BY <1>2
  <2> DEFINE c == [calls[kind] EXCEPT !.answer = a]
  <2>2. c \in Call /\ calls' = [calls EXCEPT ![kind] = c]
    BY <2>1, <1>0, Kind DEF S!Answers, Call
  <2> QED BY <2>2
<1>3. CASE S!AnswerSetup \/ S!AnswerLogin
  <2>1. PICK kind \in {"setup", "login"} :
          /\ \/ S!Issue(kind)
             \/ (S!Answers(kind, "error") \/ S!Answers(kind, "401")) /\ UNCHANGED <<good, issued>>
          /\ UNCHANGED <<token, status, me, library, stored, saving, left, breaks>>
          /\ configured => configured'
          /\ configured' \in BOOLEAN
    <3>1. ASSUME S!AnswerSetup
          PROVE  /\ \/ S!Issue("setup")
                    \/ (S!Answers("setup", "error") \/ S!Answers("setup", "401")) /\ UNCHANGED <<good, issued>>
                 /\ UNCHANGED <<token, status, me, library, stored, saving, left, breaks>>
                 /\ configured => configured'
                 /\ configured' \in BOOLEAN
      <4>0. UNCHANGED <<token, status, me, library, stored, saving, left, breaks>>
        BY <3>1 DEF S!AnswerSetup
      <4>1. CASE ~configured /\ configured' = TRUE /\ S!Issue("setup")
        <5>1. configured' \in BOOLEAN /\ (configured => configured')
          BY <4>1
        <5> QED BY <4>0, <4>1, <5>1
      <4>2. CASE S!Answers("setup", "error") /\ UNCHANGED <<configured, good, issued>>
        BY <3>1, <4>2 DEF S!AnswerSetup, SessionInv, S!TypeOK
      <4> QED BY <3>1, <4>1, <4>2 DEF S!AnswerSetup
    <3>2. ASSUME S!AnswerLogin
          PROVE  /\ \/ S!Issue("login")
                    \/ (S!Answers("login", "error") \/ S!Answers("login", "401")) /\ UNCHANGED <<good, issued>>
                 /\ UNCHANGED <<token, status, me, library, stored, saving, left, breaks>>
                 /\ configured => configured'
                 /\ configured' \in BOOLEAN
      <4>1. configured' \in BOOLEAN /\ (configured => configured')
        BY <3>2 DEF S!AnswerLogin, SessionInv, S!TypeOK
      <4>2. S!Issue("login") \/ (S!Answers("login", "401") /\ UNCHANGED <<good, issued>>)
        BY <3>2 DEF S!AnswerLogin
      <4>3. UNCHANGED <<token, status, me, library, stored, saving, left, breaks>>
        BY <3>2 DEF S!AnswerLogin
      <4> QED BY <4>1, <4>2, <4>3
    <3> QED BY <1>3, <3>1, <3>2
  <2>2. good' \subseteq S!Tokens /\ issued' \in 0 .. MaxTokens
    BY <2>1, Issued DEF SessionInv, S!TypeOK
  <2>3. PICK c \in Call : calls' = [calls EXCEPT ![kind] = c]
    BY <2>1, <1>2, Issued
  <2>4. calls' \in [S!Kinds -> Call] /\ \A k \in S!Kinds : k # kind => calls'[k] = calls[k]
    BY <2>3, <1>0
  <2>5. S!TypeOK'
    BY <2>1, <2>2, <2>4 DEF SessionInv, S!TypeOK, Call
  <2>6. AccountExists' /\ NothingLeft'
    BY <2>1, <2>4, Kind DEF SessionInv, AccountExists, NothingLeft
  <2> QED BY <2>5, <2>6 DEF SessionInv
<1> QED BY <1>1, <1>3

\* An answer that arrives frees its request.
LEMMA Arrived ==
  ASSUME SessionInv, NEW kind \in S!Kinds, calls' = S!Done(kind)
  PROVE  /\ calls' \in [S!Kinds -> Call]
         /\ calls'["status"].brings = 1 => configured
         /\ left => calls'["library"].sent = 0 /\ calls'["library"].answer # "ok"
<1>1. calls \in [S!Kinds -> Call] /\ S!NoCall \in Call
  BY Requested DEF SessionInv, S!TypeOK, Call
<1>2. S!NoCall.sent = 0 /\ S!NoCall.brings = 0 /\ S!NoCall.answer = "none"
  BY DEF S!NoCall
<1>3. \A k \in S!Kinds : calls'[k] = IF k = kind THEN S!NoCall ELSE calls[k]
  BY <1>1 DEF S!Done
<1> QED BY <1>1, <1>2, <1>3, Kind DEF S!Done, SessionInv, AccountExists, NothingLeft

\* The answer to a query or to the password form arrives.
LEMMA Delivered ==
  ASSUME SessionInv, S!DeliverStatus \/ S!DeliverMe \/ S!DeliverLibrary \/ S!DeliverPassword
  PROVE  SessionInv'
<1> USE DEF SessionInv
<1>1. CASE S!DeliverStatus
  <2>1. status' \in {"open", "configured", "failed", status}
        /\ (status' = "configured" => status = "configured" \/ calls["status"].brings = 1)
    BY <1>1 DEF S!DeliverStatus
  <2>2. calls' = S!Done("status")
    BY <1>1 DEF S!DeliverStatus
  <2>3. S!TypeOK'
    BY <1>1, <2>1, <2>2, Arrived, Kind DEF S!DeliverStatus, S!TypeOK, Call
  <2>4. AccountExists' /\ NothingLeft'
    BY <1>1, <2>1, <2>2, Arrived, Kind DEF S!DeliverStatus, AccountExists, NothingLeft
  <2> QED BY <2>3, <2>4
<1>2. CASE S!DeliverMe
  <2>1. me' \in {"ok", "stale", "error"} /\ token' \in {0, token} /\ calls' = S!Done("me")
    BY <1>2, Discarded DEF S!DeliverMe
  <2>2. S!TypeOK'
    BY <1>2, <2>1, Arrived, Kind DEF S!DeliverMe, S!TypeOK, Call
  <2>3. AccountExists' /\ NothingLeft'
    BY <1>2, <2>1, Arrived, Kind DEF S!DeliverMe, AccountExists, NothingLeft
  <2> QED BY <2>2, <2>3
<1>3. CASE S!DeliverLibrary
  <2>1. token' \in {0, token} /\ calls' = S!Done("library") /\ saving' = TRUE
    BY <1>3, Discarded DEF S!DeliverLibrary
  <2>2. library' \in BOOLEAN /\ (left => ~library')
    BY <1>3 DEF S!DeliverLibrary, NothingLeft, S!TypeOK
  <2>3. S!TypeOK'
    BY <1>3, <2>1, <2>2, Arrived, Kind DEF S!DeliverLibrary, S!TypeOK, Call
  <2>4. AccountExists' /\ NothingLeft'
    BY <1>3, <2>1, <2>2, Arrived, Kind DEF S!DeliverLibrary, AccountExists, NothingLeft
  <2> QED BY <2>3, <2>4
<1>4. CASE S!DeliverPassword
  <2>1. token' \in {0, token} /\ calls' = S!Done("password")
    BY <1>4, Discarded DEF S!DeliverPassword
  <2>2. S!TypeOK'
    BY <1>4, <2>1, Arrived, Kind DEF S!DeliverPassword, S!TypeOK, Call
  <2>3. AccountExists' /\ NothingLeft'
    BY <1>4, <2>1, Arrived, Kind DEF S!DeliverPassword, AccountExists, NothingLeft
  <2> QED BY <2>2, <2>3
<1> QED BY <1>1, <1>2, <1>3, <1>4

\* A sign-in brings a token and ends the time after the logout; the two questions are
\* asked again, or their first answer awaited.
LEMMA SignedIn ==
  ASSUME SessionInv, NEW kind \in S!Kinds, S!DeliverSignIn(kind)
  PROVE  SessionInv'
<1>0. calls \in [S!Kinds -> Call] /\ kind \in {"setup", "login"}
  BY DEF SessionInv, S!TypeOK, Call, S!DeliverSignIn
<1>1. CASE calls[kind].answer # "ok"
  <2>1. token' \in {0, token} /\ calls' = S!Done(kind)
    BY <1>1, Discarded DEF S!DeliverSignIn, SessionInv
  <2>2. UNCHANGED <<left, status, me, configured, good, issued, library, stored, saving, breaks>>
    BY <1>1 DEF S!DeliverSignIn
  <2>3. S!TypeOK'
    BY <2>1, <2>2, Arrived DEF SessionInv, S!TypeOK, Call
  <2>4. AccountExists' /\ NothingLeft'
    BY <2>1, <2>2, Arrived DEF SessionInv, AccountExists, NothingLeft
  <2> QED BY <2>3, <2>4 DEF SessionInv
<1>2. CASE calls[kind].answer = "ok"
  <2> DEFINE b == calls[kind].brings
             s == S!Again("status", status, b)
             m == IF status = "configured" THEN S!Again("me", me, b) ELSE calls["me"]
  <2>1. b \in S!Tokens \union {0}
    BY <1>0 DEF Call
  <2>2. S!onRequest(b) \in Call /\ S!onRequest(b).brings = 0
    BY <2>1, Requested DEF SessionInv
  <2>3. s \in Call /\ m \in Call /\ (s.brings = 1 => configured)
    BY <1>0, <2>2, Kind DEF S!Again, SessionInv, AccountExists
  <2>4. S!NoCall \in Call
    BY Requested DEF SessionInv
  <2>5. calls' = [calls EXCEPT ![kind] = S!NoCall, !["status"] = s, !["me"] = m]
    BY <1>0, <1>2 DEF S!DeliverSignIn
  <2>6. token' = b /\ ~left' /\ left' \in BOOLEAN
    BY <1>2 DEF S!DeliverSignIn
  <2>7. /\ status' \in {status, "unknown"} /\ me' \in {me, "unknown"}
        /\ UNCHANGED <<configured, good, issued, library, stored, saving, breaks>>
    BY <1>2 DEF S!DeliverSignIn, S!Fetching
  <2> HIDE DEF b, s, m
  <2>8. calls' \in [S!Kinds -> Call] /\ calls'["status"] = s
    BY <1>0, <2>3, <2>4, <2>5, Kind
  <2>9. S!TypeOK'
    BY <2>1, <2>6, <2>7, <2>8 DEF SessionInv, S!TypeOK, Call
  <2>10. AccountExists' /\ NothingLeft'
    BY <2>3, <2>6, <2>7, <2>8 DEF SessionInv, AccountExists, NothingLeft
  <2> QED BY <2>9, <2>10 DEF SessionInv
<1> QED BY <1>1, <1>2

\* The logout itself: only pages have the button, so that there is an account.
LEMMA LoggedOut ==
  ASSUME SessionInv, S!Logout
  PROVE  SessionInv'
<1>1. status = "configured" /\ configured
  BY DEF S!Logout, S!AuthGate, SessionInv, S!TypeOK, AccountExists
<1>2. calls \in [S!Kinds -> Call] /\ S!NoCall \in Call /\ S!onRequest(0) \in Call
      /\ S!onRequest(0).brings = 0 /\ S!NoCall.sent = 0 /\ S!NoCall.answer # "ok"
  BY Requested DEF SessionInv, S!TypeOK, Call, S!NoCall, S!onRequest
<1>3. calls' = [calls EXCEPT !["library"] = S!NoCall, !["status"] = S!onRequest(0), !["me"] = S!onRequest(0)]
  BY DEF S!Logout
<1>4. /\ calls' \in [S!Kinds -> Call]
      /\ calls'["library"] = S!NoCall /\ calls'["status"] = S!onRequest(0)
  BY <1>2, <1>3, Kind
<1>5. token' = 0 /\ library' = FALSE /\ stored' = FALSE /\ saving' = TRUE /\ left' = TRUE
      /\ UNCHANGED <<configured, good, issued, status, me, breaks>>
  BY DEF S!Logout, S!Forgotten
<1>6. S!TypeOK'
  BY <1>4, <1>5 DEF SessionInv, S!TypeOK, Call
<1>7. AccountExists' /\ NothingLeft'
  BY <1>1, <1>2, <1>4, <1>5 DEF AccountExists, NothingLeft
<1> QED BY <1>6, <1>7 DEF SessionInv

\* The disk holds what the cache held, and the cache what the disk held.
LEMMA DiskKept ==
  ASSUME MaxBreaks \in Nat, SessionInv, S!Persist \/ S!Reload
  PROVE  SessionInv'
<1>1. CASE S!Persist
  <2>1. S!TypeOK'
    BY <1>1 DEF S!Persist, SessionInv, S!TypeOK
  <2>2. AccountExists' /\ NothingLeft'
    BY <1>1 DEF S!Persist, SessionInv, AccountExists, NothingLeft
  <2> QED BY <2>1, <2>2 DEF SessionInv
<1>2. CASE S!Reload
  <2>1. S!NoCall \in Call /\ S!NoCall.sent = 0 /\ S!NoCall.brings = 0 /\ S!NoCall.answer # "ok"
    BY DEF S!NoCall, Call
  <2>2. calls' \in [S!Kinds -> Call] /\ calls'["status"] = S!NoCall /\ calls'["library"] = S!NoCall
    BY <1>2, <2>1, Kind DEF S!Reload
  <2>a. breaks' \in 0 .. MaxBreaks
    BY <1>2 DEF S!Reload, SessionInv, S!TypeOK
  <2>b. library' \in BOOLEAN /\ saving' \in BOOLEAN
    BY <1>2 DEF S!Reload, SessionInv, S!TypeOK
  <2>c. status' = "unknown" /\ me' = "unknown"
        /\ UNCHANGED <<configured, good, issued, token, stored, left>>
    BY <1>2 DEF S!Reload
  <2>3. S!TypeOK'
    BY <2>2, <2>a, <2>b, <2>c DEF SessionInv, S!TypeOK, Call
  <2>4. AccountExists' /\ NothingLeft'
    BY <1>2, <2>1, <2>2 DEF S!Reload, SessionInv, AccountExists, NothingLeft
  <2> QED BY <2>3, <2>4 DEF SessionInv
<1> QED BY <1>1, <1>2

\* A tab that is opened.
LEMMA SessionBegins ==
  ASSUME MaxTokens \in Nat \ {0}, MaxBreaks \in Nat, S!Init
  PROVE  SessionInv
<1>1. \A k \in S!Kinds : calls[k] = S!NoCall
  BY DEF S!Init
<1>2. S!NoCall \in Call /\ calls \in [S!Kinds -> Call]
  BY DEF S!Init, Call, S!NoCall
<1>3. configured \in BOOLEAN /\ library \in BOOLEAN /\ stored \in BOOLEAN /\ saving \in BOOLEAN
      /\ left \in BOOLEAN
  BY DEF S!Init
<1>4. good \subseteq S!Tokens /\ issued \in 0 .. MaxTokens /\ token \in S!Tokens \union {0} /\ breaks \in 0 .. MaxBreaks
  BY DEF S!Init, S!Tokens
<1>5. status \in {"unknown", "open", "configured", "failed"} /\ me \in {"unknown", "ok", "error", "stale"}
  BY DEF S!Init
<1>6. S!TypeOK
  BY <1>2, <1>3, <1>4, <1>5 DEF S!TypeOK, Call
<1> QED BY <1>1, <1>6, Kind DEF S!Init, SessionInv, AccountExists, NothingLeft, S!NoCall

-----------------------------------------------------------------------------
\* The invariant is inductive.
LEMMA SessionSteps ==
  ASSUME MaxTokens \in Nat \ {0}, MaxBreaks \in Nat, SessionInv, [S!Next]_(S!vars)
  PROVE  SessionInv'
<1>1. CASE S!SetupScreen \/ S!LoginScreen \/ S!SecuritySection \/ S!useAuthStatus \/ S!useMe \/ S!useLibraryItems
  BY <1>1, QueryBegun
<1>2. CASE (\E k \in S!Kinds : S!AnswerQuery(k) \/ S!Lose(k)) \/ S!AnswerStatus \/ S!AnswerPassword
  BY <1>2, QueryAnswered
<1>3. CASE S!AnswerSetup \/ S!AnswerLogin \/ S!Expire
  BY <1>3, SignIn
<1>4. CASE S!DeliverStatus \/ S!DeliverMe \/ S!DeliverLibrary \/ S!DeliverPassword
  BY <1>4, Delivered
<1>5. CASE \E k \in S!Kinds : S!DeliverSignIn(k)
  BY <1>5, SignedIn
<1>6. CASE S!Logout
  BY <1>6, LoggedOut
<1>7. CASE S!Persist \/ S!Reload
  BY <1>7, DiskKept
<1>8. CASE UNCHANGED S!vars
  BY <1>8 DEF S!vars, SessionInv, S!TypeOK, AccountExists, NothingLeft, S!InFlight
<1> QED BY <1>1, <1>2, <1>3, <1>4, <1>5, <1>6, <1>7, <1>8 DEF S!Next

\* The invariant holds throughout: types, accounts, and what is left after a logout.
THEOREM SessionInvariance == Spec => [](part = "session" => SessionInv)
<1>1. Init => (part = "session" => SessionInv)
  BY OnePartBegins, SessionBegins, BoundsAssumption
<1>2. (part = "session" => SessionInv) /\ [Next]_vars => (part = "session" => SessionInv)'
  BY OnePartSteps, SessionSteps, BoundsAssumption
<1> QED BY <1>1, <1>2, PTL DEF Spec

\* Every reachable state of the session has its types.
THEOREM SessionTyped == Spec => [](part = "session" => S!TypeOK)
<1>1. SessionInv => S!TypeOK
  BY DEF SessionInv
<1> QED BY <1>1, SessionInvariance, PTL

\* After a logout the library is neither in the cache nor on the disk, until the next
\* sign-in: no read that was in flight, write that was put off, page still mounted or
\* reload brings it back (logout, queryPersistence.ts).
THEOREM Forgets == Spec => []LibraryForgotten
<1>1. (part = "session" => SessionInv) => LibraryForgotten
  BY DEF SessionInv, NothingLeft, LibraryForgotten, S!LibraryForgotten
<1> QED BY <1>1, SessionInvariance, PTL

-----------------------------------------------------------------------------
(* The dialogs of full checks                                               *)

LOCAL checks == v1
LOCAL last == v2
LOCAL button == v3
LOCAL data == v4
LOCAL starts == v5
LOCAL breaksSeen == v6
USE DEF checks, last, button, data, starts, breaksSeen

Check == [target : Targets \union {<<>>}, listed : BOOLEAN, stop : BOOLEAN,
          state : {"unused", "queued", "running", "lost"} \union D!Ended]
Button == [mounted : BOOLEAN, open : BOOLEAN, id : 0 .. MaxChecks]
CheckStatus == {"unknown", "queued", "running"} \union D!Ended
Start == {"none", "sent", "error"} \X (0 .. MaxChecks) \union {"answered"} \X D!Checks

\* What the server lists has been started and is not lost.
ListedIsKnown == \A c \in D!Checks : checks[c].listed => checks[c].state \notin {"unused", "lost"}

\* The check that is remembered, or on its way, for an execution is its own.
Its(c, t) == c \in D!Checks /\ checks[c].target = t /\ checks[c].state # "unused"

OwnOf(t) ==
    /\ last[D!keyOf(t)] # 0 => Its(last[D!keyOf(t)], t)
    /\ button[t].id # 0 => button[t].id = last[D!keyOf(t)]
    /\ starts[t][1] = "answered" => Its(starts[t][2], t)
Own == \A t \in Targets : OwnOf(t)

DialogInv == D!TypeOK /\ ListedIsKnown /\ Own

-----------------------------------------------------------------------------
\* Two executions have two keys.
LEMMA KeysDiffer ==
  /\ \A t, u \in Targets : D!keyOf(t) = D!keyOf(u) => t = u
  /\ \A t \in Targets : D!keyOf(t) \in D!DialogKeys
  BY TargetsAssumption DEF D!keyOf, D!DialogKeys

\* TypeOK, with the sets of records named.
LEMMA Shape ==
  D!TypeOK <=> /\ checks \in [D!Checks -> Check] /\ last \in [D!DialogKeys -> 0 .. MaxChecks]
             /\ button \in [Targets -> Button] /\ data \in [D!Checks -> CheckStatus]
             /\ starts \in [Targets -> Start] /\ breaksSeen \in 0 .. MaxBreaks
  BY DEF D!TypeOK, Check, Button, CheckStatus, Start

\* A button without a check, and no start on its way.
LEMMA Empty == /\ MaxChecks \in Nat => D!NoButton \in Button /\ D!NoButton.id = 0
               /\ MaxChecks \in Nat => D!Idle \in Start /\ D!Idle[1] = "none"
  BY DEF D!NoButton, Button, D!Idle, Start

\* The server changes its checks: what each was started for stays, and one once started
\* stays so.
LEMMA ChecksChange ==
  ASSUME DialogInv, checks' \in [D!Checks -> Check],
         \A c \in D!Checks : checks'[c].listed => checks'[c].state \notin {"unused", "lost"},
         \A c \in D!Checks : checks[c].state # "unused" =>
            checks'[c].target = checks[c].target /\ checks'[c].state # "unused",
         breaksSeen' \in 0 .. MaxBreaks,
         UNCHANGED <<last, button, data, starts>>
  PROVE  DialogInv'
<1>1. D!TypeOK'
  BY Shape DEF DialogInv, D!TypeOK, Check
<1>2. \A c, t : Its(c, t) => Its(c, t)'
  BY DEF Its
<1>3. Own'
  BY <1>2 DEF DialogInv, Own, OwnOf, D!keyOf
<1> QED BY <1>1, <1>3 DEF DialogInv, ListedIsKnown

\* A tab that is opened.
LEMMA DialogsBegin ==
  ASSUME MaxChecks \in Nat, MaxBreaks \in Nat, D!Init
  PROVE  DialogInv
<1>1. [target |-> <<>>, state |-> "unused", listed |-> FALSE, stop |-> FALSE] \in Check
  BY DEF Check
<1>2. [D!NoButton EXCEPT !.mounted = TRUE] \in Button /\ [D!NoButton EXCEPT !.mounted = TRUE].id = 0
  BY Empty DEF Button
<1>3. D!TypeOK
  <2>1. checks \in [D!Checks -> Check]
    BY <1>1 DEF D!Init
  <2>2. button \in [Targets -> Button] /\ starts \in [Targets -> Start]
    BY <1>2, Empty DEF D!Init
  <2>3. last \in [D!DialogKeys -> 0 .. MaxChecks] /\ data \in [D!Checks -> CheckStatus] /\ breaksSeen \in 0 .. MaxBreaks
    BY DEF D!Init, CheckStatus
  <2> QED BY <2>1, <2>2, <2>3 DEF D!TypeOK, Check, Button, CheckStatus, Start
<1>4. ListedIsKnown
  BY DEF D!Init, ListedIsKnown
<1>5. Own
  BY <1>2, KeysDiffer, Empty DEF D!Init, Own, OwnOf
<1> QED BY <1>3, <1>4, <1>5 DEF DialogInv

\* start_check: the new check is unlike any that is remembered.
LEMMA Started ==
  ASSUME DialogInv, NEW t \in Targets, D!ServeStart(t)
  PROVE  DialogInv'
<1>0. checks \in [D!Checks -> Check] /\ starts \in [Targets -> Start]
  BY Shape DEF DialogInv
<1>1. CASE \E c \in D!Checks :
              /\ checks[c].state = "unused"
              /\ checks' = [checks EXCEPT ![c] = [target |-> t, state |-> "queued",
                                                  listed |-> TRUE, stop |-> FALSE]]
              /\ starts' = [starts EXCEPT ![t] = <<"answered", c>>]
  <2>1. PICK c \in D!Checks :
              /\ checks[c].state = "unused"
              /\ checks' = [checks EXCEPT ![c] = [target |-> t, state |-> "queued",
                                                  listed |-> TRUE, stop |-> FALSE]]
              /\ starts' = [starts EXCEPT ![t] = <<"answered", c>>]
    BY <1>1
  <2> DEFINE n == [target |-> t, state |-> "queued", listed |-> TRUE, stop |-> FALSE]
  <2>2. n \in Check /\ n.target = t /\ n.state = "queued"
    BY DEF Check
  <2>3. <<"answered", c>> \in Start
    BY DEF Start
  <2>4. checks' = [checks EXCEPT ![c] = n]
    BY <2>1
  <2> HIDE DEF n
  <2>5. \A d \in D!Checks : checks'[d] = IF d = c THEN n ELSE checks[d]
    BY <2>4, <1>0
  <2>6. checks' \in [D!Checks -> Check] /\ starts' \in [Targets -> Start]
    BY <1>0, <2>1, <2>2, <2>3, <2>4
  <2>7. D!TypeOK'
    BY <2>6 DEF D!ServeStart, DialogInv, D!TypeOK, Check, Start
  <2>8. ListedIsKnown'
    BY <2>2, <2>5 DEF DialogInv, ListedIsKnown
  <2>9. \A d \in D!Checks : checks[d].state # "unused" =>
            checks'[d].target = checks[d].target /\ checks'[d].state # "unused"
    BY <2>1, <2>5
  <2>10. c \in D!Checks /\ checks'[c].target = t /\ checks'[c].state # "unused"
    BY <2>2, <2>5
  <2>11. \A u \in Targets : starts'[u] = IF u = t THEN <<"answered", c>> ELSE starts[u]
    BY <2>1, <1>0
  <2>12. last' = last /\ button' = button
    BY DEF D!ServeStart
  <2>13. Own'
    <3> SUFFICES ASSUME NEW u \in Targets PROVE OwnOf(u)'
      BY DEF Own
    <3>0. OwnOf(u)
      BY DEF DialogInv, Own
    <3>1. CASE u = t
      BY <3>0, <3>1, <2>9, <2>10, <2>11, <2>12 DEF OwnOf, Its
    <3>2. CASE u # t
      BY <3>0, <3>2, <2>9, <2>11, <2>12 DEF OwnOf, Its
    <3> QED BY <3>1, <3>2
  <2> QED BY <2>7, <2>8, <2>13 DEF DialogInv
<1>2. CASE starts' = [starts EXCEPT ![t] = <<"error", 0>>] /\ UNCHANGED checks
  <2>1. <<"error", 0>> \in Start
    BY <1>0, <1>2 DEF D!ServeStart, Start
  <2>2. starts' \in [Targets -> Start]
    BY <1>0, <1>2, <2>1
  <2>3. D!TypeOK'
    BY <1>2, <2>2 DEF D!ServeStart, DialogInv, D!TypeOK, Start
  <2>5. \A u \in Targets : starts'[u] = IF u = t THEN <<"error", 0>> ELSE starts[u]
    BY <1>0, <1>2
  <2>6. UNCHANGED <<checks, last, button>>
    BY <1>2 DEF D!ServeStart
  <2>7. Own'
    <3> SUFFICES ASSUME NEW u \in Targets PROVE OwnOf(u)'
      BY DEF Own
    <3>0. OwnOf(u)
      BY DEF DialogInv, Own
    <3>1. CASE u = t
      BY <3>0, <3>1, <2>5, <2>6 DEF OwnOf, Its
    <3>2. CASE u # t
      BY <3>0, <3>2, <2>5, <2>6 DEF OwnOf, Its
    <3> QED BY <3>1, <3>2
  <2> QED BY <1>2, <2>3, <2>7 DEF DialogInv, ListedIsKnown
<1> QED BY <1>1, <1>2 DEF D!ServeStart

\* The server's other steps.
LEMMA ServerSteps ==
  ASSUME MaxBreaks \in Nat, DialogInv,
         D!Restart \/ \E c \in D!Checks : D!Take(c) \/ D!WorkEnds(c) \/ D!Evict(c)
  PROVE  DialogInv'
<1>0. checks \in [D!Checks -> Check] /\ breaksSeen \in 0 .. MaxBreaks
      /\ \A c \in D!Checks : checks[c].listed => checks[c].state \notin {"unused", "lost"}
  BY Shape DEF DialogInv, ListedIsKnown
<1>1. ASSUME NEW c \in D!Checks, NEW s \in {"running"} \union D!Ended, checks[c].state # "unused", D!Set(c, s)
      PROVE  DialogInv'
  <2> DEFINE n == [checks[c] EXCEPT !.state = s]
  <2>1. n \in Check /\ n.state = s /\ n.target = checks[c].target /\ s \notin {"unused", "lost"}
    BY <1>0 DEF Check, D!Ended
  <2>2. checks' = [checks EXCEPT ![c] = n]
    BY <1>1, <1>0 DEF D!Set
  <2> HIDE DEF n
  <2>3. checks' \in [D!Checks -> Check] /\ \A d \in D!Checks : checks'[d] = IF d = c THEN n ELSE checks[d]
    BY <1>0, <2>1, <2>2
  <2>4. UNCHANGED <<last, button, data, starts>> /\ breaksSeen' \in 0 .. MaxBreaks
    BY <1>0, <1>1 DEF D!Set
  <2>5. \A d \in D!Checks : checks'[d].listed => checks'[d].state \notin {"unused", "lost"}
    BY <1>0, <2>1, <2>3
  <2>6. \A d \in D!Checks : checks[d].state # "unused" =>
            checks'[d].target = checks[d].target /\ checks'[d].state # "unused"
    BY <2>1, <2>3
  <2> QED BY <2>3, <2>4, <2>5, <2>6, ChecksChange
<1>2. ASSUME NEW c \in D!Checks, D!Take(c) \/ D!WorkEnds(c) PROVE DialogInv'
  BY <1>2, <1>1 DEF D!Take, D!WorkEnds, D!Ended
<1>3. ASSUME NEW c \in D!Checks, D!Evict(c) PROVE DialogInv'
  <2> DEFINE n == [checks[c] EXCEPT !.listed = FALSE]
  <2>1. n \in Check /\ ~n.listed /\ n.target = checks[c].target /\ n.state = checks[c].state
    BY <1>0 DEF Check
  <2>2. checks' = [checks EXCEPT ![c] = n]
    BY <1>3, <1>0 DEF D!Evict
  <2> HIDE DEF n
  <2>3. checks' \in [D!Checks -> Check] /\ \A d \in D!Checks : checks'[d] = IF d = c THEN n ELSE checks[d]
    BY <1>0, <2>1, <2>2
  <2>4. UNCHANGED <<last, button, data, starts>> /\ breaksSeen' \in 0 .. MaxBreaks
    BY <1>0, <1>3 DEF D!Evict
  <2>5. \A d \in D!Checks : checks'[d].listed => checks'[d].state \notin {"unused", "lost"}
    BY <1>0, <2>1, <2>3
  <2>6. \A d \in D!Checks : checks[d].state # "unused" =>
            checks'[d].target = checks[d].target /\ checks'[d].state # "unused"
    BY <2>1, <2>3
  <2> QED BY <2>3, <2>4, <2>5, <2>6, ChecksChange
<1>4. ASSUME D!Restart PROVE DialogInv'
  <2> DEFINE n(c) == [checks[c] EXCEPT !.listed = FALSE, !.state = IF D!isActive(@) THEN "lost" ELSE @]
  <2>1. ASSUME NEW c \in D!Checks
        PROVE  n(c) \in Check /\ ~n(c).listed /\ n(c).target = checks[c].target
               /\ (checks[c].state # "unused" => n(c).state # "unused")
    <3>1. checks[c] \in Check
      BY <1>0
    <3> QED BY <3>1 DEF Check, D!isActive
  <2>2. checks' = [c \in D!Checks |-> n(c)]
    BY <1>4 DEF D!Restart
  <2> HIDE DEF n
  <2>3. checks' \in [D!Checks -> Check] /\ \A d \in D!Checks : checks'[d] = n(d)
    BY <2>1, <2>2
  <2>4. UNCHANGED <<last, button, data, starts>> /\ breaksSeen' \in 0 .. MaxBreaks
    <3>0. breaksSeen < MaxBreaks /\ breaksSeen' = breaksSeen + 1
      BY <1>4 DEF D!Restart
    <3>1. breaksSeen' \in 0 .. MaxBreaks
      BY <1>0, <3>0
    <3> QED BY <3>1, <1>4 DEF D!Restart
  <2>5. /\ \A d \in D!Checks : checks'[d].listed => checks'[d].state \notin {"unused", "lost"}
        /\ \A d \in D!Checks : checks[d].state # "unused" =>
            checks'[d].target = checks[d].target /\ checks'[d].state # "unused"
    BY <2>1, <2>3
  <2> QED BY <2>3, <2>4, <2>5, ChecksChange
<1> QED BY <1>2, <1>3, <1>4

\* A step of the tab alone, which leaves the checks as they are.
LEMMA TabChange ==
  ASSUME DialogInv, UNCHANGED checks,
         last' \in [D!DialogKeys -> 0 .. MaxChecks], button' \in [Targets -> Button],
         data' \in [D!Checks -> CheckStatus], starts' \in [Targets -> Start], breaksSeen' \in 0 .. MaxBreaks,
         \A t \in Targets : OwnOf(t)'
  PROVE  DialogInv'
<1>1. D!TypeOK'
  BY DEF DialogInv, D!TypeOK, Button, CheckStatus, Start
<1> QED BY <1>1 DEF DialogInv, ListedIsKnown, Own

\* A button that keeps its check, or forgets it, and a start that has no answer yet.
LEMMA DialogClicks ==
  ASSUME MaxChecks \in Nat, DialogInv, NEW t \in Targets,
         D!OpenOrClose(t) \/ D!Run(t) \/ D!Leave(t)
  PROVE  DialogInv'
<1>0. /\ last \in [D!DialogKeys -> 0 .. MaxChecks] /\ button \in [Targets -> Button]
      /\ data \in [D!Checks -> CheckStatus] /\ starts \in [Targets -> Start] /\ breaksSeen \in 0 .. MaxBreaks
      /\ \A u \in Targets : OwnOf(u)
  BY Shape DEF DialogInv, Own
<1>1. CASE D!Run(t)
  <2>1. <<"sent", 0>> \in Start
    BY DEF Start
  <2>2. starts' \in [Targets -> Start]
        /\ \A u \in Targets : starts'[u][1] = "answered" => starts'[u] = starts[u]
    BY <1>0, <1>1, <2>1 DEF D!Run
  <2>3. UNCHANGED <<checks, last, button, data, breaksSeen>>
    BY <1>1 DEF D!Run
  <2>4. \A u \in Targets : OwnOf(u)'
    BY <1>0, <2>2, <2>3 DEF OwnOf, Its
  <2> QED BY <1>0, <2>2, <2>3, <2>4, TabChange
<1>2. CASE D!OpenOrClose(t) \/ D!Leave(t)
  <2>1. PICK b \in Button : button' = [button EXCEPT ![t] = b] /\ b.id \in {0, button[t].id}
    <3>1. CASE D!OpenOrClose(t)
      <4> DEFINE b == [button[t] EXCEPT !.open = ~@]
      <4>1. b \in Button /\ b.id = button[t].id
        BY <1>0 DEF Button
      <4>2. button' = [button EXCEPT ![t] = b]
        BY <1>0, <3>1 DEF D!OpenOrClose
      <4> QED BY <4>1, <4>2
    <3>2. CASE D!Leave(t)
      BY <3>2, Empty DEF D!Leave
    <3> QED BY <1>2, <3>1, <3>2
  <2>2. button' \in [Targets -> Button]
        /\ \A u \in Targets : button'[u].id \in {0, button[u].id}
    BY <1>0, <2>1
  <2>3. UNCHANGED <<checks, last, data, starts, breaksSeen>>
    BY <1>2 DEF D!OpenOrClose, D!Leave
  <2>4. \A u \in Targets : OwnOf(u)'
    BY <1>0, <2>2, <2>3 DEF OwnOf, Its
  <2> QED BY <1>0, <2>2, <2>3, <2>4, TabChange
<1> QED BY <1>1, <1>2

\* The answer is remembered under the key of the very execution it was asked for.
LEMMA AnswerArrives ==
  ASSUME MaxChecks \in Nat, DialogInv, NEW t \in Targets, D!StartAnswered(t)
  PROVE  DialogInv'
<1>0. /\ last \in [D!DialogKeys -> 0 .. MaxChecks] /\ button \in [Targets -> Button]
      /\ data \in [D!Checks -> CheckStatus] /\ starts \in [Targets -> Start] /\ breaksSeen \in 0 .. MaxBreaks
      /\ \A u \in Targets : OwnOf(u)
  BY Shape DEF DialogInv, Own
<1>1. D!Idle \in Start /\ D!Idle[1] = "none"
  BY Empty
<1>2. starts' \in [Targets -> Start] /\ \A u \in Targets : starts'[u] = IF u = t THEN D!Idle ELSE starts[u]
  BY <1>0, <1>1 DEF D!StartAnswered
<1>3. UNCHANGED <<checks, data, breaksSeen>>
  BY DEF D!StartAnswered
<1>4. CASE button[t].mounted
  <2> DEFINE c == starts[t][2]
             b == [button[t] EXCEPT !.id = c]
  <2>1. Its(c, t)
    BY <1>0 DEF D!StartAnswered, OwnOf
  <2>2. c \in 0 .. MaxChecks
    BY <2>1 DEF Its, D!Checks
  <2>3. b \in Button /\ b.id = c
    BY <1>0, <2>2 DEF Button
  <2>4. button' = [button EXCEPT ![t] = b]
    BY <1>0, <1>4 DEF D!StartAnswered
  <2>5. last' = [last EXCEPT ![D!keyOf(t)] = c]
    BY <1>4 DEF D!StartAnswered
  <2> HIDE DEF b, c
  <2>6. button' \in [Targets -> Button] /\ \A u \in Targets : button'[u] = IF u = t THEN b ELSE button[u]
    BY <1>0, <2>3, <2>4
  <2>7. last' \in [D!DialogKeys -> 0 .. MaxChecks]
        /\ \A u \in Targets : last'[D!keyOf(u)] = IF u = t THEN c ELSE last[D!keyOf(u)]
    BY <1>0, <2>2, <2>5, KeysDiffer
  <2>8. \A u \in Targets : OwnOf(u)'
    <3> SUFFICES ASSUME NEW u \in Targets PROVE OwnOf(u)'
      OBVIOUS
    <3>0. OwnOf(u)
      BY <1>0
    <3>1. CASE u = t
      BY <3>1, <1>1, <1>2, <1>3, <2>1, <2>3, <2>6, <2>7 DEF OwnOf, Its
    <3>2. CASE u # t
      BY <3>0, <3>2, <1>2, <1>3, <2>6, <2>7 DEF OwnOf, Its
    <3> QED BY <3>1, <3>2
  <2> QED BY <1>0, <1>2, <1>3, <2>6, <2>7, <2>8, TabChange
<1>5. CASE ~button[t].mounted
  <2>1. UNCHANGED <<last, button>>
    BY <1>5 DEF D!StartAnswered
  <2>2. \A u \in Targets : starts'[u][1] = "answered" => starts'[u] = starts[u]
    BY <1>1, <1>2
  <2>3. \A u \in Targets : OwnOf(u)'
    BY <1>0, <1>3, <2>1, <2>2 DEF OwnOf, Its
  <2> QED BY <1>0, <1>2, <1>3, <2>1, <2>3, TabChange
<1> QED BY <1>4, <1>5

\* What is polled is a status the interface knows.
LEMMA Polled ==
  ASSUME DialogInv, NEW t \in Targets, D!Poll(t)
  PROVE  DialogInv'
<1>0. /\ last \in [D!DialogKeys -> 0 .. MaxChecks] /\ button \in [Targets -> Button]
      /\ data \in [D!Checks -> CheckStatus] /\ starts \in [Targets -> Start] /\ breaksSeen \in 0 .. MaxBreaks
      /\ \A u \in Targets : OwnOf(u)
      /\ checks \in [D!Checks -> Check]
  BY Shape DEF DialogInv, Own
<1> DEFINE c == button[t].id
<1>1. c \in D!Checks
  BY <1>0 DEF D!Poll, OwnOf, Its
<1>2. checks[c].state \in CheckStatus
  BY <1>0, <1>1 DEF D!Poll, CheckStatus, Check, DialogInv, ListedIsKnown
<1>3. data' = [data EXCEPT ![c] = checks[c].state]
  BY DEF D!Poll
<1> HIDE DEF c
<1>4. data' \in [D!Checks -> CheckStatus]
  BY <1>0, <1>2, <1>3
<1>5. UNCHANGED <<checks, last, button, starts, breaksSeen>>
  BY DEF D!Poll
<1>6. \A u \in Targets : OwnOf(u)'
  BY <1>0, <1>5 DEF OwnOf, Its
<1> QED BY <1>0, <1>4, <1>5, <1>6, TabChange

\* A cancellation changes neither what a check is for nor how it stands.
LEMMA Cancelling ==
  ASSUME DialogInv, NEW t \in Targets, D!Cancel(t)
  PROVE  DialogInv'
<1>0. checks \in [D!Checks -> Check] /\ breaksSeen \in 0 .. MaxBreaks
      /\ \A c \in D!Checks : checks[c].listed => checks[c].state \notin {"unused", "lost"}
  BY Shape DEF DialogInv, ListedIsKnown
<1> DEFINE i == button[t].id
           n == [checks[i] EXCEPT !.stop = TRUE]
<1>1. i \in D!Checks
  BY DEF D!Cancel, DialogInv, Own, OwnOf, Its, D!Shown, D!isActive
<1>2. checks' = [checks EXCEPT ![i] = n]
  BY <1>0, <1>1 DEF D!Cancel
<1>3. n \in Check /\ n.listed = checks[i].listed /\ n.target = checks[i].target /\ n.state = checks[i].state
  BY <1>0, <1>1 DEF Check
<1>4. UNCHANGED <<last, button, data, starts, breaksSeen>>
  BY DEF D!Cancel
<1> HIDE DEF i, n
<1>5. checks' \in [D!Checks -> Check] /\ \A d \in D!Checks : checks'[d] = IF d = i THEN n ELSE checks[d]
  BY <1>0, <1>2, <1>3
<1>6. \A d \in D!Checks : checks'[d].listed => checks'[d].state \notin {"unused", "lost"}
  BY <1>0, <1>3, <1>5
<1>7. \A d \in D!Checks : checks[d].state # "unused" =>
          checks'[d].target = checks[d].target /\ checks'[d].state # "unused"
  BY <1>3, <1>5
<1> QED BY <1>0, <1>4, <1>5, <1>6, <1>7, ChecksChange

\* Coming back to a page, the button takes up what is remembered under its key; a page
\* that is loaded again remembers nothing.
LEMMA Returns ==
  ASSUME MaxChecks \in Nat, MaxBreaks \in Nat, DialogInv,
         D!Reload \/ \E t \in Targets : D!Mount(t)
  PROVE  DialogInv'
<1>0. /\ last \in [D!DialogKeys -> 0 .. MaxChecks] /\ button \in [Targets -> Button]
      /\ data \in [D!Checks -> CheckStatus] /\ starts \in [Targets -> Start] /\ breaksSeen \in 0 .. MaxBreaks
      /\ \A u \in Targets : OwnOf(u)
  BY Shape DEF DialogInv, Own
<1>1. D!Idle \in Start /\ D!Idle[1] = "none"
  BY Empty
<1>2. ASSUME NEW t \in Targets, D!Mount(t) PROVE DialogInv'
  <2> DEFINE b == [mounted |-> TRUE, open |-> FALSE, id |-> last[D!keyOf(t)]]
  <2>1. b \in Button /\ b.id = last[D!keyOf(t)]
    BY <1>0, KeysDiffer DEF Button
  <2>2. button' = [button EXCEPT ![t] = b] /\ starts' = [starts EXCEPT ![t] = D!Idle]
        /\ UNCHANGED <<checks, last, data, breaksSeen>>
    BY <1>2 DEF D!Mount
  <2> HIDE DEF b
  <2>3. /\ button' \in [Targets -> Button] /\ starts' \in [Targets -> Start]
        /\ \A u \in Targets : button'[u] = IF u = t THEN b ELSE button[u]
        /\ \A u \in Targets : starts'[u] = IF u = t THEN D!Idle ELSE starts[u]
    BY <1>0, <1>1, <2>1, <2>2
  <2>4. ASSUME NEW u \in Targets PROVE OwnOf(u)'
    <3>0. OwnOf(u)
      BY <1>0
    <3>1. CASE u = t
      BY <3>0, <3>1, <1>1, <2>1, <2>2, <2>3 DEF OwnOf, Its
    <3>2. CASE u # t
      BY <3>0, <3>2, <2>2, <2>3 DEF OwnOf, Its
    <3> QED BY <3>1, <3>2
  <2> QED BY <1>0, <2>2, <2>3, <2>4, TabChange
<1>3. CASE D!Reload
  <2>1. [D!NoButton EXCEPT !.mounted = TRUE] \in Button /\ [D!NoButton EXCEPT !.mounted = TRUE].id = 0
    BY Empty DEF Button
  <2>2. button' \in [Targets -> Button] /\ \A u \in Targets : button'[u].id = 0
    BY <1>3, <2>1 DEF D!Reload
  <2>3. last' \in [D!DialogKeys -> 0 .. MaxChecks] /\ \A u \in Targets : last'[D!keyOf(u)] = 0
    BY <1>3, KeysDiffer DEF D!Reload
  <2>4. starts' \in [Targets -> Start] /\ \A u \in Targets : starts'[u][1] = "none"
    BY <1>3, <1>1 DEF D!Reload
  <2>5. data' \in [D!Checks -> CheckStatus]
    BY <1>3 DEF D!Reload, CheckStatus
  <2>6. breaksSeen < MaxBreaks /\ breaksSeen' = breaksSeen + 1 /\ UNCHANGED checks
    BY <1>3 DEF D!Reload
  <2>7. breaksSeen' \in 0 .. MaxBreaks
    BY <1>0, <2>6
  <2>8. \A u \in Targets : OwnOf(u)'
    BY <2>2, <2>3, <2>4 DEF OwnOf
  <2> QED BY <2>2, <2>3, <2>4, <2>5, <2>6, <2>7, <2>8, TabChange
<1> QED BY <1>2, <1>3

-----------------------------------------------------------------------------
\* The invariant is inductive.
LEMMA DialogSteps ==
  ASSUME MaxChecks \in Nat, MaxBreaks \in Nat, DialogInv, [D!Next]_(D!vars)
  PROVE  DialogInv'
<1>1. ASSUME NEW t \in Targets, D!ServeStart(t) PROVE DialogInv'
  BY <1>1, Started
<1>2. ASSUME NEW t \in Targets, D!OpenOrClose(t) \/ D!Run(t) \/ D!Leave(t) PROVE DialogInv'
  BY <1>2, DialogClicks
<1>3. ASSUME NEW t \in Targets, D!StartAnswered(t) PROVE DialogInv'
  BY <1>3, AnswerArrives
<1>4. ASSUME NEW t \in Targets, D!Poll(t) \/ D!Cancel(t) PROVE DialogInv'
  BY <1>4, Polled, Cancelling
<1>5. CASE D!Restart \/ \E c \in D!Checks : D!Take(c) \/ D!WorkEnds(c) \/ D!Evict(c)
  BY <1>5, ServerSteps
<1>6. CASE D!Reload \/ \E t \in Targets : D!Mount(t)
  BY <1>6, Returns
<1>7. CASE UNCHANGED D!vars
  BY <1>7, Shape DEF D!vars, DialogInv, D!TypeOK, ListedIsKnown, Own, OwnOf, Its
<1> QED BY <1>1, <1>2, <1>3, <1>4, <1>5, <1>6, <1>7 DEF D!Next

\* The invariant holds throughout: what is remembered or awaited for an execution is a
\* check of that execution.
THEOREM DialogInvariance == Spec => [](part = "checks" => DialogInv)
<1>1. Init => (part = "checks" => DialogInv)
  BY OnePartBegins, DialogsBegin, BoundsAssumption
<1>2. (part = "checks" => DialogInv) /\ [Next]_vars => (part = "checks" => DialogInv)'
  BY OnePartSteps, DialogSteps, BoundsAssumption
<1> QED BY <1>1, <1>2, PTL DEF Spec

\* Every reachable state of the dialogs has its types.
THEOREM DialogTyped == Spec => [](part = "checks" => D!TypeOK)
<1>1. DialogInv => D!TypeOK
  BY DEF DialogInv
<1> QED BY <1>1, DialogInvariance, PTL

\* A dialog shows a check of its own execution, the last one started for it, whatever
\* was started for other executions of the candidate, evicted, lost by a restart, or
\* answered after the page was left (keyOf, lastCheck).
THEOREM DialogShowsItsOwn == Spec => []ShownIsMine
<1>1. DialogInv => D!ShownIsMine
  <2> SUFFICES ASSUME DialogInv, NEW t \in Targets, button[t].id # 0
               PROVE  checks[button[t].id].target = t /\ button[t].id = last[D!keyOf(t)]
    BY DEF D!ShownIsMine
  <2>1. OwnOf(t)
    BY DEF DialogInv, Own
  <2> QED BY <2>1 DEF OwnOf, Its
<1>2. (part = "checks" => DialogInv) => ShownIsMine
  BY <1>1 DEF ShownIsMine, Checking
<1> QED BY <1>2, DialogInvariance, PTL

-----------------------------------------------------------------------------
(* The indicator of the runs                                                *)

LOCAL runs == v1
LOCAL polled == v2
LOCAL read == v3
LOCAL trigger == v4
LOCAL stop == v5
LOCAL was == v6
LOCAL ran == v7
LOCAL flash == v8
LOCAL timer == v9
LOCAL focused == v10
USE DEF runs, polled, read, trigger, stop, was, ran, flash, timer, focused

RunStates == {"none"} \union I!InProgress \union I!Finished

\* The latest run of a list is one of its rows, and its state is the row's.
LEMMA LatestIsARow ==
  ASSUME MaxRuns \in Nat, NEW rows \in I!Lists \union {I!Unread}
  PROVE  /\ I!latestRun(rows) \in 0 .. MaxRuns
         /\ I!Deps(rows) \in (0 .. MaxRuns) \X RunStates
<1> DEFINE Begun(i) == rows[i] \in I!InProgress \union I!Finished
           there == {i \in I!Rows : Begun(i)}
           Latest(i) == /\ i # 0 => Begun(i)
                        /\ \A j \in I!Rows : Begun(j) => j <= i
<1>1. \E i \in 0 .. MaxRuns : Latest(i)
  <2>1. CASE there = {}
    BY <2>1 DEF I!Rows
  <2>2. CASE there # {}
    <3>1. there \in SUBSET (0 .. MaxRuns)
      BY DEF I!Rows
    <3>2. PICK i \in there : \A j \in there : j <= i
      BY <2>2, <3>1, Largest
    <3>3. i \in 0 .. MaxRuns /\ Latest(i)
      BY <3>1, <3>2
    <3> QED BY <3>3
  <2> QED BY <2>1, <2>2
<1>2. I!latestRun(rows) = CHOOSE i \in 0 .. MaxRuns : Latest(i)
  BY DEF I!latestRun
<1> HIDE DEF Latest
<1>3. I!latestRun(rows) \in 0 .. MaxRuns /\ Latest(I!latestRun(rows))
  BY <1>1, <1>2
<1>4. I!latestRun(rows) = 0 \/ rows[I!latestRun(rows)] \in RunStates
  BY <1>3 DEF Latest, RunStates
<1> QED BY <1>3, <1>4 DEF I!Deps, I!StateOfLatest, RunStates

\* The run that the button stops is a row.
LEMMA StoppableIsARow ==
  ASSUME MaxRuns \in Nat
  PROVE  I!activeRun \in 0 .. MaxRuns
<1> DEFINE Active(i) == polled[i] \in I!InProgress
           there == {i \in I!Rows : Active(i)}
           Newest(i) == Active(i) /\ \A j \in I!Rows : j > i => ~Active(j)
<1>1. CASE there = {}
  BY <1>1 DEF I!activeRun
<1>2. CASE there # {}
  <2>1. there \in SUBSET (0 .. MaxRuns)
    BY DEF I!Rows
  <2>2. PICK i \in there : \A j \in there : j <= i
    BY <1>2, <2>1, Largest
  <2>3. i \in I!Rows /\ Newest(i)
    BY <2>2 DEF I!Rows
  <2>4. I!activeRun = CHOOSE j \in I!Rows : Newest(j)
    BY <1>2 DEF I!activeRun
  <2> HIDE DEF Newest
  <2>5. I!activeRun \in I!Rows
    BY <2>3, <2>4
  <2> QED BY <2>5 DEF I!Rows
<1> QED BY <1>1, <1>2

\* A list stays one when a run begins, ends or is asked to stop.
LEMMA ListsStay ==
  ASSUME NEW rows \in I!Lists, NEW i, NEW s \in RunStates
  PROVE  [rows EXCEPT ![i] = s] \in I!Lists
  BY DEF I!Lists, RunStates

\* The server's runs and the tab's view of them keep their types.
LEMMA RunViewSteps ==
  ASSUME MaxRuns \in Nat, MaxFocus \in Nat, I!TypeOK, [I!Next]_(I!vars)
  PROVE  I!TypeOK'
<1> USE DEF I!TypeOK
<1>0. "active" \in RunStates /\ "done" \in RunStates /\ "cancelled" \in RunStates /\ "stopping" \in RunStates
  BY DEF RunStates, I!InProgress, I!Finished
<1>1. CASE I!Scheduled \/ I!ServeTrigger
  <2>0. runs' = [runs EXCEPT ![I!latestRun(runs) + 1] = "active"]
    BY <1>1 DEF I!Scheduled, I!ServeTrigger, I!Begin
  <2>1. runs' \in I!Lists
    BY <1>0, <2>0, ListsStay
  <2> QED BY <1>1, <2>1 DEF I!Scheduled, I!ServeTrigger
<1>2. ASSUME NEW i \in I!Rows, I!RunEnds(i) PROVE I!TypeOK'
  <2>1. runs' \in I!Lists
    BY <1>0, <1>2, ListsStay DEF I!RunEnds
  <2> QED BY <1>2, <2>1 DEF I!RunEnds
<1>3. CASE I!ServeStop
  <2>1. runs' \in I!Lists
    BY <1>0, <1>3, ListsStay DEF I!ServeStop
  <2>2. read' \in I!Lists \union {I!Idle, I!Asked} /\ stop' \in 0 .. MaxRuns
    BY <1>3 DEF I!ServeStop, I!Again
  <2> QED BY <1>3, <2>1, <2>2 DEF I!ServeStop
<1>4. CASE I!Poll \/ I!Focus \/ I!AnswerRead \/ I!DeliverRead
  BY <1>4 DEF I!Poll, I!Focus, I!AnswerRead, I!DeliverRead
<1>5. CASE I!ClickRun \/ I!TriggerDone
  BY <1>5 DEF I!ClickRun, I!TriggerDone, I!Again
<1>6. CASE I!ClickStop
  <2>1. stop' \in 0 .. MaxRuns
    BY <1>6, StoppableIsARow DEF I!ClickStop
  <2> QED BY <1>6, <2>1 DEF I!ClickStop
<1>7. CASE I!Effect
  <2>1. I!latestRun(polled) \in 0 .. MaxRuns /\ I!Deps(polled) \in (0 .. MaxRuns) \X RunStates
    BY LatestIsARow
  <2>2. ran' \in (0 .. MaxRuns) \X RunStates
    BY <1>7, <2>1 DEF I!Effect
  <2>3. was' \in BOOLEAN /\ timer' \in BOOLEAN /\ flash' \in 0 .. MaxRuns
    BY <1>7, <2>1 DEF I!Effect, I!isActive
  <2> QED BY <1>7, <2>2, <2>3 DEF I!Effect, RunStates
<1>8. CASE I!FlashOver \/ I!Dismiss
  <2>1. timer' \in BOOLEAN /\ flash' = 0
        /\ UNCHANGED <<runs, polled, read, trigger, stop, was, ran, focused>>
    BY <1>8 DEF I!FlashOver, I!Dismiss
  <2>2. 0 \in 0 .. MaxRuns
    OBVIOUS
  <2> QED BY <2>1, <2>2
<1>9. CASE UNCHANGED I!vars
  BY <1>9 DEF I!vars
<1> QED BY <1>1, <1>2, <1>3, <1>4, <1>5, <1>6, <1>7, <1>8, <1>9 DEF I!Next

\* A tab that is opened, whatever the server is doing.
LEMMA RunViewBegins ==
  ASSUME MaxRuns \in Nat, MaxFocus \in Nat, I!Init
  PROVE  I!TypeOK
<1>1. I!NoRuns \in I!Lists
  BY DEF I!NoRuns, I!Lists
<1>0. "active" \in RunStates /\ "done" \in RunStates
  BY DEF RunStates, I!InProgress, I!Finished
<1>2. runs \in I!Lists
  <2>1. runs = I!NoRuns \/ \E s \in {"active", "done"} : runs = [I!NoRuns EXCEPT ![1] = s]
    BY DEF I!Init
  <2> QED BY <1>0, <1>1, <2>1, ListsStay
<1>3. ran \in (0 .. MaxRuns) \X RunStates
  BY <1>1, LatestIsARow DEF I!Init
<1>4. /\ polled = I!Unread /\ read = I!Asked /\ trigger = "idle" /\ stop = 0
      /\ was = FALSE /\ flash = 0 /\ timer = FALSE /\ focused = 0
  BY DEF I!Init
<1>5. 0 \in 0 .. MaxRuns /\ 0 \in 0 .. MaxFocus
  OBVIOUS
<1>6. was \in BOOLEAN /\ timer \in BOOLEAN
  BY <1>4
<1> QED BY <1>2, <1>3, <1>4, <1>5, <1>6 DEF I!TypeOK, RunStates

\* Every reachable state of the indicator has its types: what it sums up, and the run it
\* offers to stop, are rows of the list (RunStatusIndicator, RunNowButton).
THEOREM IndicatorTyped == Spec => [](part = "run" => I!TypeOK)
<1>1. Init => (part = "run" => I!TypeOK)
  BY OnePartBegins, RunViewBegins, BoundsAssumption
<1>2. (part = "run" => I!TypeOK) /\ [Next]_vars => (part = "run" => I!TypeOK)'
  BY OnePartSteps, RunViewSteps, BoundsAssumption
<1> QED BY <1>1, <1>2, PTL DEF Spec
================================================================================
