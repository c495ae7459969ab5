------------------------------- MODULE Session -------------------------------
(***************************************************************************)
(* Sealed sessions (src/workos/session.py): Session objects made from one   *)
(* cookie, and invocations of refresh() and authenticate() on them that     *)
(* run concurrently, as threads that share a Session or as requests that    *)
(* each loaded the cookie.                                                  *)
(*                                                                         *)
(* A refresh reads and writes self.session_data and self.cookie_password    *)
(* one at a time.  Its POST is a call of the client, of which it knows what *)
(* OperationPromise promises; a delivery of it makes the API exchange the   *)
(* refresh token for a new pair of tokens, named here by the refresh.       *)
(***************************************************************************)
EXTENDS Integers

CONSTANTS
  Sessions,        \* Session objects
  Refreshes,       \* invocations of refresh()
  Auths,           \* invocations of authenticate()
  SessionOf,       \* the object each of them is invoked on
  Passwords,       \* Fernet keys
  CookieKey,       \* the one that sealed the cookie
  InitialPassword, \* the one each Session is constructed with
  NoPassword,      \* refresh() called without cookie_password
  Original,        \* the pair of tokens in the cookie
  NoCookie,        \* the empty session_data
  NoKey,
  Retries,         \* the client's max_retries
  Grace            \* whether the API may leave a used refresh token valid

Tokens == Refreshes \cup {Original}

\* A sealed session: its key, its refresh token, whether it holds the user that
\* refresh() asks for and the access token that authenticate() asks for.
Sealed == [key : Passwords, token : Tokens, user : BOOLEAN, access : BOOLEAN]

ASSUME SessionAssumption ==
  /\ SessionOf \in [Refreshes \cup Auths -> Sessions]
  /\ Refreshes \cap Auths = {}
  /\ CookieKey \in Passwords
  /\ InitialPassword \in [Sessions -> Passwords]
  /\ NoPassword \notin Passwords
  /\ Original \notin Refreshes
  /\ NoCookie \notin Sealed \cup Tokens
  /\ NoKey \notin Refreshes
  /\ Retries \in Nat
  /\ Grace \in BOOLEAN

VARIABLES
  session_data,    \* of each Session, the attribute
  cookie_password, \* of each Session, the attribute
  pc,              \* where each invocation is
  password,        \* its effective_cookie_password
  session,         \* the cookie it has read or unsealed
  result,          \* what it returned or raised
  live,            \* the refresh tokens the API accepts
  key, deliveries, verdict   \* the POST of each refresh

Invocations == Refreshes \cup Auths

attributes == <<session_data, cookie_password>>
locals == <<pc, password, session, result>>
callVars == <<key, deliveries, verdict>>
vars == <<session_data, cookie_password, pc, password, session, result, live,
          key, deliveries, verdict>>

Post == INSTANCE OperationPromise
  WITH Calls  <- Refreshes,
       Keys   <- Refreshes,
       Budget <- [r \in Refreshes |-> 0..Retries]
-----------------------------------------------------------------------------
\* The reasons _map_refresh_exception_to_reason gives for an answered error:
\* a 401, a 403 of an authentication flow, or another, by its message.
RefusalReasons == {"REFRESH_DENIED", "FLOW_REQUIRED", "MESSAGE"}

\* Those for a call without an answer, or with one that broke the client; a
\* cancelled task gets none.
NoAnswerReasons == {"REFRESH_NETWORK_ERROR", "MESSAGE", "CANCELLED"}

RefreshFailures ==
  {"INVALID_SESSION_COOKIE", "INVALID_JWT"} \cup RefusalReasons \cup NoAnswerReasons

AuthFailures ==
  {"NO_SESSION_COOKIE_PROVIDED", "INVALID_SESSION_COOKIE", "INVALID_JWT", "RAISED"}

Results == {"None", "AUTHENTICATED"} \cup RefreshFailures \cup AuthFailures

PCs == {"idle", "unsealing", "calling", "verifying", "committing",
        "committed", "done"}

Init ==
  /\ \E cookie \in {NoCookie} \cup [key : {CookieKey}, token : {Original},
                                    user : BOOLEAN, access : BOOLEAN] :
       session_data = [s \in Sessions |-> cookie]
  /\ session = [i \in Invocations |-> NoCookie]
  /\ cookie_password = InitialPassword
  /\ pc = [i \in Invocations |-> "idle"]
  /\ password = [r \in Refreshes |-> CookieKey]
  /\ result = [i \in Invocations |-> "None"]
  /\ live = {Original}
  /\ Post!Init

Finish(i, reason) ==
  /\ pc' = [pc EXCEPT ![i] = "done"]
  /\ result' = [result EXCEPT ![i] = reason]

\* unseal_data: decryption succeeds under the sealing key only.
Unseals(data, pw) == data # NoCookie /\ data.key = pw

\* Variant: no fallback to self.cookie_password.
ReadPasswordNoFallback(r) ==
  /\ pc[r] = "idle"
  /\ \E arg \in Passwords \cup {NoPassword} : password' = [password EXCEPT ![r] = arg]
  /\ pc' = [pc EXCEPT ![r] = "unsealing"]
  /\ UNCHANGED <<attributes, session, result, live, callVars>>

\* cookie_password or self.cookie_password
ReadPassword(r) ==
  /\ pc[r] = "idle"
  /\ \E arg \in Passwords \cup {NoPassword} :
       password' = [password EXCEPT ![r] =
                      IF arg = NoPassword THEN cookie_password[SessionOf[r]] ELSE arg]
  /\ pc' = [pc EXCEPT ![r] = "unsealing"]
  /\ UNCHANGED <<attributes, session, result, live, callVars>>

\* Variant: unseals with the Session's own password, to seal with the argument.
UnsealWithOwn(r) ==
  /\ pc[r] = "unsealing"
  /\ LET data == session_data[SessionOf[r]]
     IN  \/ /\ Unseals(data, cookie_password[SessionOf[r]]) /\ data.user
            /\ session' = [session EXCEPT ![r] = data]
            /\ pc' = [pc EXCEPT ![r] = "calling"]
            /\ Post!Begin(r) /\ key'[r] = r /\ verdict'[r] = "open"
            /\ UNCHANGED result
         \/ /\ ~(Unseals(data, cookie_password[SessionOf[r]]) /\ data.user)
            /\ Finish(r, "INVALID_SESSION_COOKIE")
            /\ UNCHANGED <<session, callVars>>
  /\ UNCHANGED <<attributes, password, live>>

\* A session without a user cannot be refreshed; refresh() does not look for an
\* access token.
Unseal(r) ==
  /\ pc[r] = "unsealing"
  /\ LET data == session_data[SessionOf[r]]
     IN  \/ /\ Unseals(data, password[r]) /\ data.user
            /\ session' = [session EXCEPT ![r] = data]
            /\ pc' = [pc EXCEPT ![r] = "calling"]
            /\ Post!Begin(r) /\ key'[r] = r /\ verdict'[r] = "open"
            /\ UNCHANGED result
         \/ /\ ~(Unseals(data, password[r]) /\ data.user)
            /\ Finish(r, "INVALID_SESSION_COOKIE")
            /\ UNCHANGED <<session, callVars>>
  /\ UNCHANGED <<attributes, password, live>>

\* The API serves the POST, perhaps after the caller has given up on it.
Exchange(r) ==
  /\ pc[r] # "idle" /\ session[r] # NoCookie
  /\ session[r].token \in live
  /\ Post!Deliver(r)
  /\ \E kept \in IF Grace THEN {{}, {session[r].token}} ELSE {{}} :
       live' = (live \ {session[r].token}) \cup kept \cup {r}
  /\ UNCHANGED <<attributes, locals>>

\* Variants: a call without an answer is taken for a success, and a call that
\* does not succeed is never given up.
AnsweredOptimistic(r) ==
  /\ pc[r] = "calling"
  /\ Post!Conclude(r)
  /\ \/ verdict'[r] \in {"succeeded", "unknown"}
        /\ pc' = [pc EXCEPT ![r] = "verifying"] /\ UNCHANGED result
     \/ verdict'[r] = "refused" /\ Finish(r, "REFRESH_DENIED")
  /\ UNCHANGED <<attributes, password, session, live>>

AnsweredOnSuccess(r) ==
  /\ pc[r] = "calling"
  /\ Post!Conclude(r)
  /\ verdict'[r] = "succeeded"
  /\ pc' = [pc EXCEPT ![r] = "verifying"]
  /\ UNCHANGED <<attributes, password, session, result, live>>

\* request_raw returns or raises.  An answer without tokens, such as one whose
\* body is not JSON, counts as a denial.
Answered(r) ==
  /\ pc[r] = "calling"
  /\ Post!Conclude(r)
  /\ \/ verdict'[r] = "succeeded"
        /\ \/ pc' = [pc EXCEPT ![r] = "verifying"] /\ UNCHANGED result
           \/ Finish(r, "REFRESH_DENIED")
     \/ verdict'[r] = "refused" /\ \E reason \in RefusalReasons : Finish(r, reason)
     \/ verdict'[r] = "unknown" /\ \E reason \in NoAnswerReasons : Finish(r, reason)
  /\ UNCHANGED <<attributes, password, session, live>>

\* Variant: the session is stored before its token is verified.
VerifyStored(r) ==
  /\ pc[r] = "verifying"
  /\ session_data' = [session_data EXCEPT ![SessionOf[r]] =
                        [key |-> password[r], token |-> r, user |-> TRUE, access |-> TRUE]]
  /\ \/ pc' = [pc EXCEPT ![r] = "committing"] /\ UNCHANGED result
     \/ Finish(r, "INVALID_JWT")
  /\ UNCHANGED <<cookie_password, password, session, live, callVars>>

\* jwt.decode under the JWKS key, and a sid in the claims.
Verify(r) ==
  /\ pc[r] = "verifying"
  /\ \/ pc' = [pc EXCEPT ![r] = "committing"] /\ UNCHANGED result
     \/ \E reason \in {"INVALID_JWT", "MESSAGE"} : Finish(r, reason)
  /\ UNCHANGED <<attributes, password, session, live, callVars>>

\* Variants: sealed with the Session's own password, or with the used token.
SealWithOwn(r, user) ==
  [key |-> cookie_password[SessionOf[r]], token |-> r, user |-> user, access |-> TRUE]

SealUsedToken(r, user) ==
  [key |-> password[r], token |-> session[r].token, user |-> user, access |-> TRUE]

\* The new cookie, sealed with the effective password; the answer holds both
\* tokens and may hold no user.
SealSession(r, user) ==
  [key |-> password[r], token |-> r, user |-> user, access |-> TRUE]

CommitData(r) ==
  /\ pc[r] = "committing"
  /\ \E user \in BOOLEAN :
       session_data' = [session_data EXCEPT ![SessionOf[r]] = SealSession(r, user)]
  /\ pc' = [pc EXCEPT ![r] = "committed"]
  /\ UNCHANGED <<cookie_password, password, session, result, live, callVars>>

CommitPassword(r) ==
  /\ pc[r] = "committed"
  /\ cookie_password' = [cookie_password EXCEPT ![SessionOf[r]] = password[r]]
  /\ Finish(r, "AUTHENTICATED")
  /\ UNCHANGED <<session_data, password, session, live, callVars>>

RefreshStep(r) ==
  \/ ReadPassword(r) \/ Unseal(r) \/ Answered(r)
  \/ Verify(r) \/ CommitData(r) \/ CommitPassword(r)
-----------------------------------------------------------------------------
AuthRead(a) ==
  /\ pc[a] = "idle"
  /\ \/ /\ session_data[SessionOf[a]] = NoCookie
        /\ Finish(a, "NO_SESSION_COOKIE_PROVIDED")
        /\ UNCHANGED session
     \/ /\ session_data[SessionOf[a]] # NoCookie
        /\ session' = [session EXCEPT ![a] = session_data[SessionOf[a]]]
        /\ pc' = [pc EXCEPT ![a] = "unsealing"]
        /\ UNCHANGED result
  /\ UNCHANGED <<attributes, password, live, callVars>>

\* A session without an access token is invalid to authenticate().
AuthUnseal(a) ==
  /\ pc[a] = "unsealing"
  /\ \/ /\ Unseals(session[a], cookie_password[SessionOf[a]]) /\ session[a].access
        /\ pc' = [pc EXCEPT ![a] = "verifying"]
        /\ UNCHANGED result
     \/ /\ ~(Unseals(session[a], cookie_password[SessionOf[a]]) /\ session[a].access)
        /\ Finish(a, "INVALID_SESSION_COOKIE")
  /\ UNCHANGED <<attributes, password, session, live, callVars>>

\* Only InvalidTokenError is caught: a JWKS that cannot be fetched, and a token
\* without a sid, leave authenticate() as exceptions.
AuthVerify(a) ==
  /\ pc[a] = "verifying"
  /\ \E outcome \in {"AUTHENTICATED", "INVALID_JWT", "RAISED"} : Finish(a, outcome)
  /\ UNCHANGED <<attributes, password, session, live, callVars>>

AuthStep(a) == AuthRead(a) \/ AuthUnseal(a) \/ AuthVerify(a)

Next ==
  \/ \E r \in Refreshes : RefreshStep(r) \/ Exchange(r)
  \/ \E a \in Auths : AuthStep(a)

Spec == Init /\ [][Next]_vars

\* Code that has started goes on; the client ends every call, which Termination
\* of RequestSystem says of a call that the API does not hold for ever.
FairSpec ==
  /\ Spec
  /\ \A r \in Refreshes : WF_vars(pc[r] # "idle" /\ RefreshStep(r))
  /\ \A a \in Auths : WF_vars(pc[a] # "idle" /\ AuthStep(a))
-----------------------------------------------------------------------------
TypeOK ==
  /\ session_data \in [Sessions -> Sealed \cup {NoCookie}]
  /\ cookie_password \in [Sessions -> Passwords]
  /\ pc \in [Invocations -> PCs]
  /\ password \in [Refreshes -> Passwords]
  /\ session \in [Invocations -> Sealed \cup {NoCookie}]
  /\ result \in [Invocations -> Results]
  /\ live \subseteq Tokens

Holds(s, t) == session_data[s] # NoCookie /\ session_data[s].token = t

\* Whatever passwords refreshes are given, the cookie stays sealed with the key
\* that sealed it first, and a Session's password is that key or its own.
SealKeyStable ==
  \A s \in Sessions :
    /\ session_data[s] # NoCookie => session_data[s].key = CookieKey
    /\ cookie_password[s] \in {InitialPassword[s], CookieKey}

\* A Session made with the right password never takes its cookie for an
\* invalid one, not even between the two assignments that commit a refresh;
\* unless it is the cookie the Session was made from, and that one holds no
\* access token (test_session_authenticate_no_access_token).
TornCommitHarmless ==
  \A a \in Auths :
    result[a] = "INVALID_SESSION_COOKIE" =>
      \/ InitialPassword[SessionOf[a]] # CookieKey
      \/ session[a].token = Original /\ ~session[a].access

\* A refresh that reports a failure has left every Session as it was.
FailureKeepsSession ==
  \A r \in Refreshes :
    result[r] \in RefreshFailures => \A s \in Sessions : ~Holds(s, r)

\* Where the API retires used refresh tokens, a commit replaces the very
\* session that was refreshed: no concurrent refresh is overwritten.
NoLostUpdate ==
  [][~Grace => \A r \in Refreshes : CommitData(r) => Holds(SessionOf[r], session[r].token)]_vars

\* A Session is left with a refresh token the API no longer accepts only while
\* the refresh that used it is running, or because that refresh failed after
\* the exchange, or ran on another Session.
StrandedOnlyByLoss ==
  \A s \in Sessions, t \in Tokens :
    Holds(s, t) /\ t \notin live =>
      \E r \in Refreshes :
        /\ Post!Delivered(r)
        /\ session[r].token = t
        /\ result[r] = "AUTHENTICATED" => SessionOf[r] # s

-----------------------------------------------------------------------------
(***************************************************************************)
(* The inductive invariant behind the safety properties.                   *)
(***************************************************************************)
Verdicts == {"idle", "open", "succeeded", "refused", "unknown"}

CallsOK ==
  /\ key \in [Refreshes -> Refreshes \cup {NoKey}]
  /\ deliveries \in [Refreshes -> SUBSET (0..Retries)]
  /\ verdict \in [Refreshes -> Verdicts]

Committed(r) == pc[r] = "committed" \/ result[r] = "AUTHENTICATED"

\* What an invocation holds at each point: a POST and the cookie's key once it
\* has unsealed a session, and no result before it ends.
LocalState ==
  /\ \A i \in Invocations : pc[i] # "done" => result[i] = "None"
  /\ \A a \in Auths : pc[a] = "unsealing" => session[a] # NoCookie
  /\ \A r \in Refreshes :
       /\ pc[r] \in {"idle", "unsealing"} => session[r] = NoCookie
       /\ session[r] = NoCookie =>
            key[r] = NoKey /\ deliveries[r] = {} /\ verdict[r] = "idle"
       /\ session[r] # NoCookie => key[r] = r /\ verdict[r] # "idle"
       /\ pc[r] \in {"calling", "verifying", "committing", "committed"} =>
            session[r] # NoCookie /\ password[r] = CookieKey

\* A cookie is sealed with the cookie's key wherever it is held.
SealedAlike ==
  /\ SealKeyStable
  /\ \A i \in Invocations : session[i] # NoCookie => session[i].key = CookieKey

\* Every cookie that a refresh made holds an access token.
AccessKept ==
  /\ \A s \in Sessions :
       session_data[s] # NoCookie /\ ~session_data[s].access => session_data[s].token = Original
  /\ \A i \in Invocations :
       session[i] # NoCookie /\ ~session[i].access => session[i].token = Original

\* A new token is found in a cookie only after the refresh that got it, on its
\* own Session, and only if the API did exchange it.
Provenance ==
  /\ \A s \in Sessions, r \in Refreshes :
       Holds(s, r) => Committed(r) /\ SessionOf[r] = s
  /\ \A i \in Invocations, r \in Refreshes :
       session[i] # NoCookie /\ session[i].token = r => Committed(r)
  /\ \A r \in Refreshes :
       pc[r] \in {"verifying", "committing"} \/ Committed(r) => Post!Delivered(r)

\* A commit replaces the session that was refreshed for good.
Replaced ==
  \A r \in Refreshes : Committed(r) => ~Holds(SessionOf[r], session[r].token)

\* A token that has been issued and is not accepted any more was exchanged.
Consumed ==
  \A t \in Tokens :
    t \notin live /\ (t \in Refreshes => Post!Delivered(t)) =>
      \E r \in Refreshes : Post!Delivered(r) /\ session[r].token = t

\* Where used tokens are retired, a token is exchanged once,
ExchangedOnce ==
  ~Grace => \A r \in Refreshes : Post!Delivered(r) =>
    /\ session[r].token \notin live
    /\ \A q \in Refreshes :
         Post!Delivered(q) /\ session[q].token = session[r].token => q = r

\* and a refresh that can still succeed is of the token its Session holds.
Current ==
  ~Grace => \A r \in Refreshes :
    /\ pc[r] \in {"calling", "verifying", "committing"}
    /\ session[r].token \in live \/ Post!Delivered(r)
    => Holds(SessionOf[r], session[r].token)

IInv ==
  /\ TypeOK
  /\ CallsOK
  /\ LocalState
  /\ SealedAlike
  /\ AccessKept
  /\ Provenance
  /\ Replaced
  /\ Consumed
  /\ ExchangedOnce
  /\ Current
-----------------------------------------------------------------------------
(***************************************************************************)
(* Refreshes as their callers see them: the token of a cookie, and how a     *)
(* refresh ended, decided where it stores the new cookie.                    *)
(***************************************************************************)
TokenOf(data) == IF data = NoCookie THEN NoCookie ELSE data.token

Held == [s \in Sessions |-> TokenOf(session_data[s])]

Used == [r \in Refreshes |-> TokenOf(session[r])]

Outcome(r) ==
  IF Committed(r) THEN "replaced" ELSE IF result[r] # "None" THEN "failed" ELSE "pending"

Outcomes == [r \in Refreshes |-> Outcome(r)]

Atomic == INSTANCE AtomicRefresh
  WITH Nothing <- NoCookie,
       Retired <- ~Grace,
       held    <- Held,
       used    <- Used,
       outcome <- Outcomes

\* Refreshes that interleave at every attribute they read or write, and whose
\* POSTs may be lost or served late, replace tokens as if each ran alone; one
\* that reports a failure has replaced none.
RefreshesAtomic == Atomic!Spec

\* Of the Sessions made from one cookie, one at most is ever refreshed where the
\* API retires used tokens, whichever refreshes fail, race or are given up on.
OneSessionGoesOn ==
  ~Grace => \A s, t \in Sessions, q, r \in Refreshes : Holds(s, q) /\ Holds(t, r) => s = t
-----------------------------------------------------------------------------
\* Every refresh() and authenticate() that has started ends, given that the POST
\* of a refresh does.
InvocationsEnd == \A i \in Invocations : pc[i] # "idle" ~> pc[i] = "done"

\* "AuthenticateWithSessionCookieSuccessResponse if the session is valid,
\* AuthenticateWithSessionCookieErrorResponse otherwise."
AuthenticateAnswers == \A a \in Auths : result[a] # "RAISED"
=============================================================================
