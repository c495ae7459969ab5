-------------------------------- MODULE Login --------------------------------
(***************************************************************************)
(* Logins of one application: a user's browser is sent to a PKCE URL, comes *)
(* back with a code, and the application exchanges it and goes through what *)
(* further steps of authentication the API asks for, each over the retry    *)
(* loop of HttpCall.                                                        *)
(*                                                                         *)
(* A code, and the pending token of a further step, is good for one call:   *)
(* the API, which is not part of the repository, binds a code to the client *)
(* and the challenge of its URL and a pending token to its step, redeems    *)
(* each once, and repeats the answer to a request whose Idempotency-Key it  *)
(* has seen.  Callbacks reach the application in any order and repeatedly,  *)
(* and a user may submit a step twice.                                      *)
(***************************************************************************)
EXTENDS HttpCall

CONSTANTS
  Logins,
  ClientIds,   \* client IDs an application may pass to a method
  Configured,  \* the client's own client ID
  Challenges,  \* the auth-flow errors the API answers with
  None

(***************************************************************************)
(* Auth-flow errors                                                        *)
(***************************************************************************)

AUTH_CODES ==
  {"email_verification_required", "mfa_enrollment", "mfa_challenge",
   "organization_selection_required", "sso_required",
   "organization_authentication_methods_required",
   "authentication_method_not_allowed", "email_password_auth_disabled",
   "passkey_progressive_enrollment", "radar_challenge", "radar_sign_up_challenge"}

\* The grant types that go on from an auth-flow error; from the others a user
\* has to start again.
GrantTypes ==
  [email_verification_required |-> {"email-verification:code"},
   mfa_enrollment |-> {"mfa-totp"},
   mfa_challenge |-> {"mfa-totp"},
   organization_selection_required |-> {"organization-selection"},
   radar_challenge |-> {"radar-email-challenge:code", "radar-sms-challenge:code"}]

Continued == DOMAIN GrantTypes

ASSUME LoginAssumption ==
  /\ Methods = {"post"}
  /\ KeyArguments = {NoKey}
  /\ Challenges \subseteq AUTH_CODES
  /\ None \notin ClientIds \cup {Configured}
  /\ None \notin AUTH_CODES \cup {"null", "None", "forbidden", "access_denied"}

Or(x, y) == IF x = None THEN y ELSE x

\* How a 403 names its challenge: under "code" with an OAuth error beside it
\* or not, or under "error" with no code, a null one, or one that names no
\* challenge ("forbidden" stands for these).
Namings(challenge) ==
  [code : {challenge}, error : {None, "access_denied"}]
    \cup [code : {None, "null", "forbidden"}, error : {challenge}]

\* str() makes a null code the text "None", which is no challenge.
Code(said) == IF said.code = "null" THEN "None" ELSE said.code

\* Variant: the error comes before the code.
AuthCodeOfError(said) == Or(said.error, Code(said))

AuthCode(said) == Or(Code(said), said.error)

\* A code that names no challenge hides the error beside it.
Hides(said) == Code(said) \notin AUTH_CODES \cup {None}

\* The challenge whose class is raised; None is a plain AuthorizationError.
Dispatch(said) == IF AuthCode(said) \in AUTH_CODES THEN AuthCode(said) ELSE None

(***************************************************************************)
(* PKCE                                                                    *)
(***************************************************************************)

\* Variant: the state is made when the module is imported.
StateShared(l) == "state"

\* 43 random characters each, named by the login they are made for.
State(l) == <<"state", l>>
Verifier(l) == <<"verifier", l>>

Challenge(verifier) == <<"S256", verifier>>

Products == {"user_management", "sso"}

\* The client ID in a URL: user management drops the one it is passed.
UrlClient(product, own) == IF product = "sso" THEN Or(own, Configured) ELSE Configured

UserLogin ==
  [product : Products, own : ClientIds \cup {None},
   state : {State(l) : l \in Logins}, verifier : {Verifier(l) : l \in Logins}]

ASSUME NoneAssumption == None \notin UserLogin

Codes ==
  [kind : {"code"}, user : Logins, state : {State(l) : l \in Logins},
   challenge : {Challenge(Verifier(l)) : l \in Logins}, client : ClientIds \cup {Configured}]

\* The pending token of a step that the answer to a call asks for.
Tokens == [kind : {"token"}, user : Logins, step : Challenges, call : Calls]

Types == {"authorization_code"} \cup UNION {GrantTypes[step] : step \in Continued}

Body ==
  [grant : Codes \cup Tokens, type : Types, client : ClientIds \cup {Configured},
   verifier : {Verifier(l) : l \in Logins} \cup {None}]

\* The user's tokens, or a further step and how it is named.
Answers ==
  [user : Logins, step : {None}, said : {None}]
    \cup UNION {[user : Logins, step : {ch}, said : Namings(ch)] : ch \in Challenges}

Redemption == [grant : Codes \cup Tokens, call : Calls, key : Keys, answer : Answers]

VARIABLES
  login,    \* what the application keeps of each login, or None
  codes,    \* the codes that browsers have brought back
  body,     \* what each call sends, or None
  redeemed  \* the redemptions of codes and pending tokens, and their answers

loginVars == <<login, codes, body, redeemed>>
vars == <<pc, method, key, attempt, outcome, status, wire, reply,
          login, codes, body, redeemed>>

Init ==
  /\ HttpInit
  /\ login = [l \in Logins |-> None]
  /\ codes = {}
  /\ body = [c \in Calls |-> None]
  /\ redeemed = {}
-----------------------------------------------------------------------------
GetAuthorizationUrl(l) ==
  /\ login[l] = None
  /\ \E product \in Products, own \in ClientIds \cup {None} :
       login' = [login EXCEPT ![l] = [product |-> product, own |-> own,
                                      state |-> State(l), verifier |-> Verifier(l)]]
  /\ UNCHANGED <<httpVars, codes, body, redeemed>>

\* The user signs in and the API hands the browser a code for the URL.
Authorize(l) ==
  /\ login[l] # None
  /\ codes' = codes \cup
       {[kind |-> "code", user |-> l, state |-> login[l].state,
         challenge |-> Challenge(login[l].verifier),
         client |-> UrlClient(login[l].product, login[l].own)]}
  /\ UNCHANGED <<httpVars, login, body, redeemed>>

\* authenticate_with_code_pkce or get_profile_and_token_pkce, for the login
\* whose state came back.
Exchange(c, l, code) ==
  /\ pc[c] = "idle"
  /\ login[l] # None
  /\ login[l].state = code.state
  /\ body' = [body EXCEPT ![c] =
       [grant |-> code, type |-> "authorization_code", verifier |-> login[l].verifier,
        client |-> Or(login[l].own, Configured)]]
  /\ Start(c)
  /\ UNCHANGED <<login, codes, redeemed>>

\* The API keeps an answer under the key of the request.
SavedFor(c) == {r \in redeemed : r.call = c \/ (key[c] # NoKey /\ r.key = key[c])}

\* The auth-flow errors, with their pending tokens, that a call can end with.
FlowErrors(c) ==
  {[step |-> Dispatch(r.answer.said),
    token |-> [kind |-> "token", user |-> r.answer.user, step |-> r.answer.step,
               call |-> r.call]] :
     r \in {x \in SavedFor(c) : outcome[c] = "AuthorizationError" /\ x.answer.step # None}}

\* The authenticate_with_* method for the error d has ended with.
Continue(c, d) ==
  /\ pc[c] = "idle"
  /\ \E error \in FlowErrors(d) :
       /\ error.step \in Continued
       /\ \E type \in GrantTypes[error.step] :
            body' = [body EXCEPT ![c] = [grant |-> error.token, type |-> type,
                                         client |-> Configured, verifier |-> None]]
  /\ Start(c)
  /\ UNCHANGED <<login, codes, redeemed>>

\* The rest of request() is that of HttpCall.
LoopStep(c) ==
  /\ pc[c] # "idle"
  /\ CallStep(c)
  /\ UNCHANGED loginVars
-----------------------------------------------------------------------------
apiUnchanged == <<pc, method, key, attempt, outcome, status, login, codes, body>>

IsCode(grant) == grant.kind = "code"

\* What the API compares before it redeems a grant.
Fits(b) ==
  IF IsCode(b.grant)
  THEN /\ b.type = "authorization_code"
       /\ b.client = b.grant.client
       /\ Challenge(b.verifier) = b.grant.challenge
  ELSE b.type \in GrantTypes[b.grant.step]

Spent(grant) == \E r \in redeemed : r.grant = grant

AlreadyApplied(m) == m.key # NoKey /\ \E r \in redeemed : r.key = m.key

\* Only user management asks for further steps.
AnswersTo(grant) ==
  {a \in Answers : a.user = grant.user
                    /\ (a.step # None => login[grant.user].product = "user_management")}

AnswerStatus(a) == IF a.step = None THEN 200 ELSE 403

ServeRedeem(m, s) ==
  LET b == body[m.call]
  IN  /\ ~AlreadyApplied(m) /\ ~Spent(b.grant) /\ Fits(b)
      /\ \E a \in AnswersTo(b.grant) :
           /\ s = AnswerStatus(a) \/ s >= 500
           /\ redeemed' = redeemed \cup
                {[grant |-> b.grant, call |-> m.call, key |-> m.key, answer |-> a]}
      /\ wire' = wire \ {m}
      /\ Answer(m, s)
      /\ UNCHANGED apiUnchanged

ServeReplay(m, s) ==
  /\ \E r \in redeemed : m.key # NoKey /\ r.key = m.key
                         /\ (s = AnswerStatus(r.answer) \/ s >= 500)
  /\ wire' = wire \ {m}
  /\ Answer(m, s)
  /\ UNCHANGED apiUnchanged
  /\ UNCHANGED redeemed

\* 400 is invalid_grant; a failure may come at any time.
ServeRefuse(m, s) ==
  /\ \/ s = 400 /\ ~AlreadyApplied(m)
        /\ (Spent(body[m.call].grant) \/ ~Fits(body[m.call]))
     \/ s >= 500
  /\ wire' = wire \ {m}
  /\ Answer(m, s)
  /\ UNCHANGED apiUnchanged
  /\ UNCHANGED redeemed

GatewayFails(m, s) ==
  /\ s >= 500
  /\ Answer(m, s)
  /\ UNCHANGED apiUnchanged
  /\ UNCHANGED <<wire, redeemed>>

ApiStep ==
  \E m \in wire, s \in Statuses :
    \/ ServeRedeem(m, s) \/ ServeReplay(m, s)
    \/ ServeRefuse(m, s) \/ GatewayFails(m, s)

Next ==
  \/ \E l \in Logins : GetAuthorizationUrl(l) \/ Authorize(l)
  \/ \E c \in Calls, l \in Logins, code \in codes : Exchange(c, l, code)
  \/ \E c, d \in Calls : Continue(c, d)
  \/ \E c \in Calls : LoopStep(c)
  \/ ApiStep

Spec == Init /\ [][Next]_vars
-----------------------------------------------------------------------------
TypeOK ==
  /\ HttpTypeOK
  /\ login \in [Logins -> UserLogin \cup {None}]
  /\ codes \subseteq Codes
  /\ body \in [Calls -> Body \cup {None}]
  /\ redeemed \subseteq Redemption

\* A call ends with a user's tokens only if its own grant was redeemed for
\* them, and with a further step only if it was redeemed for that; either is
\* the user's whose code or pending token the call sent.
LoginsApart ==
  \A c \in Calls : Succeeded(c) \/ outcome[c] = "AuthorizationError" =>
    /\ \E r \in SavedFor(c) :
         r.grant = body[c].grant /\ (r.answer.step = None <=> Succeeded(c))
    /\ \A r \in SavedFor(c) : r.answer.user = body[c].grant.user

\* The application passed a client ID that the URL had dropped.
ClientDropped(b) ==
  /\ IsCode(b.grant)
  /\ login[b.grant.user].product = "user_management"
  /\ login[b.grant.user].own \notin {None, Configured}

\* The code verifier, the client and the grant type of a call are those that
\* the API binds its grant to, whichever login comes back first and whatever
\* step is gone on from.
GrantsFit ==
  \A c \in Calls : Started(c) => Fits(body[c]) \/ ClientDropped(body[c])

\* A call is told that its grant is spent only if another call spent it: a
\* lost answer and the retry after it never cost a user the login.
GrantsNotWasted ==
  \A c \in Calls : status[c] = 400 /\ Fits(body[c]) =>
    \E r \in redeemed : r.grant = body[c].grant /\ r.call # c

\* Every further step the API asks for is raised as the error of that step,
\* with its pending token, however the answer names it, unless a code that is
\* none hides the name; only then is it a plain AuthorizationError.
StepsNamed ==
  \A c \in Calls : \A error \in FlowErrors(c) :
    \/ error.step = error.token.step
    \/ error.step = None /\ \E r \in SavedFor(c) : r.answer.step # None /\ Hides(r.answer.said)
-----------------------------------------------------------------------------
\* What the login of a user is, seen without its wire and its retries: an
\* operation whose key is the code or the pending token it sends.
Verdicts == [c \in Calls |-> Verdict(c)]

GrantKeys == [c \in Calls |-> IF Started(c) THEN body[c].grant ELSE NoKey]

Redemptions ==
  [c \in Calls |-> IF \E r \in redeemed : r.call = c THEN {"redeemed"} ELSE {}]

Promise == INSTANCE OperationPromise
  WITH Keys <- Codes \cup Tokens, Budget <- [c \in Calls |-> {"redeemed"}],
       key <- GrantKeys, deliveries <- Redemptions, verdict <- Verdicts

\* Logins keep the promise of OperationPromise: of the calls that send one
\* grant at most one takes effect, and a call succeeds only if one has.
GrantActsAsKey == Promise!Spec
-----------------------------------------------------------------------------
(***************************************************************************)
(* The inductive invariant behind the safety properties.                   *)
(***************************************************************************)
\* A call that has started has something to send, and a key of its own.
CallsKeyed ==
  /\ \A c \in Calls : Started(c) =>
       /\ key[c] = c
       /\ body[c] \in Body
       /\ IsCode(body[c].grant) => body[c].grant \in codes
  /\ \A m \in wire : Owned(m)

\* A code says of its URL what the application keeps of the login.
CodesTrue ==
  /\ \A l \in Logins : login[l] # None =>
       login[l].state = State(l) /\ login[l].verifier = Verifier(l)
  /\ \A code \in codes :
       /\ login[code.user] # None
       /\ code.state = State(code.user)
       /\ code.challenge = Challenge(Verifier(code.user))
       /\ code.client = UrlClient(login[code.user].product, login[code.user].own)

\* A grant is redeemed once, by the call that sent it, for its user.
RedeemedOnce ==
  /\ \A r \in redeemed :
       /\ Started(r.call)
       /\ r.key = r.call
       /\ r.grant = body[r.call].grant
       /\ r.answer.user = r.grant.user
  /\ \A r, q \in redeemed : r.grant = q.grant \/ r.call = q.call => r = q

\* What a call is told of its grant, or is about to be, holds for good.
RefusalsTrue ==
  \A c \in Calls : StatusKnown(c, 400) /\ Fits(body[c]) =>
    \E r \in redeemed : r.grant = body[c].grant /\ r.call # c

\* A call is told of tokens or of a further step, or is about to be, only by
\* the answer to its own redemption.
ChallengeKnown(c) == outcome[c] = "AuthorizationError" \/ StatusKnown(c, 403)

AnswersTrue ==
  \A c \in Calls :
    /\ ResultKnown(c) => \E r \in redeemed : r.call = c /\ r.answer.step = None
    /\ ChallengeKnown(c) => \E r \in redeemed : r.call = c /\ r.answer.step # None

IInv ==
  /\ TypeOK
  /\ LoopState
  /\ BudgetUsed
  /\ CallsKeyed
  /\ CodesTrue
  /\ RedeemedOnce
  /\ GrantsFit
  /\ RefusalsTrue
  /\ AnswersTrue
=============================================================================
