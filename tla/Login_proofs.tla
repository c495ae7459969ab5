----------------------------- MODULE Login_proofs -----------------------------
(***************************************************************************)
(* Proofs about Login, for any number of logins and calls, any retry        *)
(* budgets and any order in which callbacks come back and requests are      *)
(* served: the inductive invariant IInv and what follows from it.           *)
(***************************************************************************)
EXTENDS Login, HttpCall_proofs

-----------------------------------------------------------------------------
LEMMA ConstantsDistinct ==
  /\ Methods = {"post"} /\ KeyArguments = {NoKey}
  /\ Challenges \subseteq AUTH_CODES
  /\ None \notin ClientIds \cup {Configured}
  /\ None \notin AUTH_CODES \cup {"null", "None", "forbidden", "access_denied"}
BY LoginAssumption

\* A state names its login.
LEMMA StatesApart ==
  ASSUME NEW k, NEW l, State(k) = State(l)
  PROVE  k = l
<1>1. State(k)[2] = k /\ State(l)[2] = l
  BY DEF State
<1> QED
  BY <1>1

\* A challenge is raised as itself, unless the code beside it hides it.
LEMMA DispatchTrue ==
  ASSUME NEW challenge \in Challenges, NEW said \in Namings(challenge)
  PROVE  Dispatch(said) = IF Hides(said) THEN None ELSE challenge
<1>1. challenge \in AUTH_CODES /\ challenge # None /\ challenge # "null"
  BY ConstantsDistinct DEF AUTH_CODES
<1>2. /\ {"None", "forbidden"} \cap AUTH_CODES = {}
      /\ None \notin {"None", "null", "forbidden"}
  BY ConstantsDistinct DEF AUTH_CODES
<1>3. CASE said.code = challenge
  BY <1>1, <1>3 DEF Dispatch, Hides, AuthCode, Code, Or
<1>4. CASE said.code \in {"null", "forbidden"}
  BY <1>2, <1>4 DEF Dispatch, Hides, AuthCode, Code, Or
<1>5. CASE said.code = None /\ said.error = challenge
  BY <1>1, <1>2, <1>5 DEF Dispatch, Hides, AuthCode, Code, Or
<1> QED
  BY <1>3, <1>4, <1>5 DEF Namings

\* What an answer that asks for a step is raised as.
LEMMA AnswerDispatch ==
  ASSUME NEW a \in Answers, a.step # None
  PROVE  /\ a.step \in Challenges /\ a.user \in Logins
         /\ Dispatch(a.said) = IF Hides(a.said) THEN None ELSE a.step
<1>1. PICK ch \in Challenges : a.step = ch /\ a.said \in Namings(ch) /\ a.user \in Logins
  BY DEF Answers
<1> QED
  BY <1>1, DispatchTrue

\* The key of a started call is its own.
LEMMA OwnKey ==
  ASSUME HttpTypeOK, NEW c \in Calls, Start(c)
  PROVE  key' = [key EXCEPT ![c] = c]
<1>1. PICK arg \in KeyArguments, option \in KeyArguments, extra \in KeyArguments :
        key' = [key EXCEPT ![c] = BuildHeaders(c, method[c], arg, option, extra)]
  BY DEF Start
<1>2. arg = NoKey /\ option = NoKey /\ extra = NoKey /\ method[c] = "post"
  BY ConstantsDistinct DEF HttpTypeOK
<1>3. c # EmptyKey
  BY HttpCallAssumption
<1>4. BuildHeaders(c, method[c], arg, option, extra) = c
  BY <1>2, <1>3 DEF BuildHeaders, FreshKey
<1> QED
  BY <1>1, <1>4

Serve(m, s) ==
  ServeRedeem(m, s) \/ ServeReplay(m, s) \/ ServeRefuse(m, s) \/ GatewayFails(m, s)

LEMMA ServeFrame ==
  ASSUME NEW m \in wire, NEW s \in Statuses, Serve(m, s)
  PROVE  /\ UNCHANGED <<pc, method, key, attempt, outcome, status, login, codes, body>>
         /\ wire' \subseteq wire
         /\ Answer(m, s)
         /\ UNCHANGED redeemed \/ ServeRedeem(m, s)
BY DEF Serve, ServeRedeem, ServeReplay, ServeRefuse, GatewayFails, apiUnchanged

\* The body of a call that begins.
Begins(c, b) ==
  /\ pc[c] = "idle"
  /\ body' = [body EXCEPT ![c] = b]
  /\ Start(c)
  /\ UNCHANGED <<login, codes, redeemed>>

\* A call begins with a body that fits, or whose client ID was dropped.
LEMMA Beginnings ==
  ASSUME IInv, NEW c \in Calls,
         \/ \E l \in Logins, code \in codes : Exchange(c, l, code)
         \/ \E d \in Calls : Continue(c, d)
  PROVE  \E b \in Body : /\ Begins(c, b)
                         /\ IsCode(b.grant) => b.grant \in codes
                         /\ Fits(b) \/ ClientDropped(b)
<1> USE DEF IInv, TypeOK
<1>1. ASSUME NEW l \in Logins, NEW code \in codes, Exchange(c, l, code)
      PROVE  \E b \in Body : /\ Begins(c, b)
                             /\ IsCode(b.grant) => b.grant \in codes
                             /\ Fits(b) \/ ClientDropped(b)
  <2> DEFINE b == [grant |-> code, type |-> "authorization_code",
                   verifier |-> login[l].verifier, client |-> Or(login[l].own, Configured)]
  <2>1. /\ login[l] # None /\ login[l].state = code.state /\ Begins(c, b)
    BY <1>1 DEF Exchange, Begins
  <2>2. login[l] \in UserLogin /\ login[l].state = State(l) /\ login[l].verifier = Verifier(l)
    BY <2>1 DEF CodesTrue
  <2>3. /\ code \in Codes /\ code.state = State(code.user)
        /\ code.challenge = Challenge(Verifier(code.user))
        /\ code.client = UrlClient(login[code.user].product, login[code.user].own)
    BY DEF CodesTrue
  <2>4. code.user = l
    BY <2>1, <2>2, <2>3, StatesApart
  <2>5. Or(login[l].own, Configured) \in ClientIds \cup {Configured}
    BY <2>2 DEF UserLogin, Or
  <2>6. b \in Body
    BY <2>2, <2>3, <2>5 DEF Body, Types
  <2>7. b.grant = code /\ IsCode(b.grant)
    BY <2>3 DEF IsCode, Codes
  <2>8. Fits(b) \/ ClientDropped(b)
    <3>1. b.type = "authorization_code" /\ Challenge(b.verifier) = b.grant.challenge
      BY <2>2, <2>3, <2>4
    <3>2. b.client = Or(login[l].own, Configured)
      OBVIOUS
    <3>3. CASE login[l].product = "sso"
      BY <2>3, <2>4, <2>7, <3>1, <3>2, <3>3 DEF Fits, UrlClient
    <3>4. CASE login[l].own \in {None, Configured}
      BY <2>3, <2>4, <2>7, <3>1, <3>2, <3>4 DEF Fits, UrlClient, Or
    <3>5. CASE login[l].product # "sso" /\ login[l].own \notin {None, Configured}
      BY <2>2, <2>4, <2>7, <3>5 DEF ClientDropped, UserLogin, Products
    <3> QED BY <3>3, <3>4, <3>5
  <2> HIDE DEF b
  <2> QED BY <2>1, <2>6, <2>7, <2>8
<1>2. ASSUME NEW d \in Calls, Continue(c, d)
      PROVE  \E b \in Body : /\ Begins(c, b)
                             /\ IsCode(b.grant) => b.grant \in codes
                             /\ Fits(b) \/ ClientDropped(b)
  <2>1. PICK error \in FlowErrors(d) :
          /\ error.step \in Continued
          /\ \E type \in GrantTypes[error.step] :
               Begins(c, [grant |-> error.token, type |-> type,
                          client |-> Configured, verifier |-> None])
    BY <1>2 DEF Continue, Begins
  <2>2. PICK type \in GrantTypes[error.step] :
          Begins(c, [grant |-> error.token, type |-> type,
                     client |-> Configured, verifier |-> None])
    BY <2>1
  <2>3. PICK r \in SavedFor(d) :
          /\ r.answer.step # None
          /\ error.step = Dispatch(r.answer.said)
          /\ error.token = [kind |-> "token", user |-> r.answer.user,
                            step |-> r.answer.step, call |-> r.call]
    BY DEF FlowErrors
  <2>4. r.answer \in Answers /\ r.call \in Calls
    BY DEF SavedFor, Redemption
  <2>5. r.answer.step \in Challenges /\ r.answer.user \in Logins
    BY <2>3, <2>4, AnswerDispatch
  <2>6. None \notin Continued
    BY ConstantsDistinct DEF Continued, GrantTypes, AUTH_CODES
  <2>7. error.step = r.answer.step
    BY <2>1, <2>3, <2>4, <2>6, AnswerDispatch
  <2> DEFINE b == [grant |-> error.token, type |-> type,
                   client |-> Configured, verifier |-> None]
  <2>8. error.token \in Tokens
    BY <2>3, <2>4, <2>5 DEF Tokens
  <2>9. type \in Types
    BY <2>1, <2>2 DEF Types
  <2>10. b \in Body
    BY <2>8, <2>9 DEF Body
  <2>11. b.grant = error.token /\ b.grant.kind = "token" /\ b.grant.step = error.step
    BY <2>3, <2>7
  <2>12. ~IsCode(b.grant)
    BY <2>11 DEF IsCode
  <2>13. Fits(b)
    BY <2>2, <2>11, <2>12 DEF Fits
  <2>14. Begins(c, b)
    BY <2>2
  <2> HIDE DEF b
  <2> QED BY <2>10, <2>12, <2>13, <2>14
<1> QED BY <1>1, <1>2
-----------------------------------------------------------------------------
\* The steps of the client, by what they change.
ClientStep ==
  \/ \E l \in Logins : GetAuthorizationUrl(l) \/ Authorize(l)
  \/ \E c \in Calls, b \in Body :
       /\ Begins(c, b)
       /\ IsCode(b.grant) => b.grant \in codes
       /\ Fits(b) \/ ClientDropped(b)
  \/ \E c \in Calls : LoopStep(c)

LEMMA Steps ==
  ASSUME IInv, [Next]_vars
  PROVE  ClientStep \/ (\E m \in wire, s \in Statuses : Serve(m, s)) \/ UNCHANGED vars
<1>1. ASSUME NEW c \in Calls, NEW l \in Logins, NEW code \in codes, Exchange(c, l, code)
      PROVE  ClientStep
  BY <1>1, Beginnings DEF ClientStep
<1>2. ASSUME NEW c \in Calls, NEW d \in Calls, Continue(c, d) PROVE ClientStep
  BY <1>2, Beginnings DEF ClientStep
<1> QED
  BY <1>1, <1>2 DEF ClientStep, Next, ApiStep, Serve

LEMMA StepTypeOK == IInv /\ [Next]_vars => TypeOK'
<1> SUFFICES ASSUME IInv, [Next]_vars PROVE TypeOK'
  OBVIOUS
<1> USE DEF IInv, TypeOK
<1>1. ASSUME NEW l \in Logins, GetAuthorizationUrl(l) PROVE TypeOK'
  <2>1. login' \in [Logins -> UserLogin \cup {None}]
    BY <1>1 DEF GetAuthorizationUrl, UserLogin
  <2> QED BY <1>1, <2>1 DEF GetAuthorizationUrl, httpVars, HttpTypeOK
<1>2. ASSUME NEW l \in Logins, Authorize(l) PROVE TypeOK'
  <2>1. login[l] \in UserLogin /\ login[l].verifier = Verifier(l)
    BY <1>2 DEF Authorize, CodesTrue
  <2>2. UrlClient(login[l].product, login[l].own) \in ClientIds \cup {Configured}
    BY <2>1 DEF UserLogin, UrlClient, Or
  <2>3. codes' \subseteq Codes
    BY <1>2, <2>1, <2>2 DEF Authorize, Codes, UserLogin
  <2> QED BY <1>2, <2>3 DEF Authorize, httpVars, HttpTypeOK
<1>3. ASSUME NEW c \in Calls, NEW b \in Body, Begins(c, b) PROVE TypeOK'
  <2>1. HttpTypeOK'
    BY <1>3, CallStepType DEF Begins, CallStep
  <2> QED BY <1>3, <2>1 DEF Begins
<1>4. ASSUME NEW c \in Calls, LoopStep(c) PROVE TypeOK'
  BY <1>4, CallStepType DEF LoopStep, loginVars
<1>5. ASSUME NEW m \in wire, NEW s \in Statuses, Serve(m, s) PROVE TypeOK'
  <2>1. /\ HttpTypeOK' /\ m \in Request /\ m.call \in Calls
        /\ UNCHANGED <<login, codes, body>>
    BY <1>5, ServeFrame, AnswerFrame DEF HttpTypeOK
  <2>2. CASE ServeRedeem(m, s)
    <3>1. PICK a \in AnswersTo(body[m.call].grant) :
            redeemed' = redeemed \cup
              {[grant |-> body[m.call].grant, call |-> m.call, key |-> m.key, answer |-> a]}
      BY <2>2 DEF ServeRedeem
    <3>2. body[m.call] \in Body
      BY <2>1 DEF CallsKeyed, Owned
    <3>3. body[m.call].grant \in Codes \cup Tokens /\ m.key \in Keys /\ a \in Answers
      BY <2>1, <3>2 DEF Body, Request, AnswersTo
    <3>4. redeemed' \subseteq Redemption
      BY <2>1, <3>1, <3>3 DEF Redemption
    <3> QED BY <2>1, <3>4
  <2> QED BY <1>5, <2>1, <2>2, ServeFrame
<1>6. CASE UNCHANGED vars
  BY <1>6 DEF vars, HttpTypeOK
<1> QED BY <1>1, <1>2, <1>3, <1>4, <1>5, <1>6, Steps DEF ClientStep

LEMMA StepLoopState == IInv /\ [Next]_vars => LoopState' /\ BudgetUsed'
<1> SUFFICES ASSUME IInv, [Next]_vars PROVE LoopState' /\ BudgetUsed'
  OBVIOUS
<1> USE DEF IInv, TypeOK
<1>1. ASSUME UNCHANGED httpVars PROVE LoopState' /\ BudgetUsed'
  BY <1>1 DEF httpVars, LoopState, BudgetUsed, MayRetry
<1>2. ASSUME NEW c \in Calls, CallStep(c) PROVE LoopState' /\ BudgetUsed'
  BY <1>2, CallLoopState
<1>3. ASSUME NEW m \in wire, NEW s \in Statuses, Serve(m, s) PROVE LoopState' /\ BudgetUsed'
  BY <1>3, ServeFrame, AnswerLoopState
<1>4. ASSUME ClientStep
      PROVE  UNCHANGED httpVars \/ \E c \in Calls : CallStep(c)
  BY <1>4 DEF ClientStep, GetAuthorizationUrl, Authorize, Begins, LoopStep, CallStep
<1>5. UNCHANGED vars => UNCHANGED httpVars
  BY DEF vars, httpVars
<1> QED BY <1>1, <1>2, <1>3, <1>4, <1>5, Steps
-----------------------------------------------------------------------------
\* A step of a call starts nothing but that call, and stops nothing.
LEMMA StartedKept ==
  ASSUME HttpTypeOK, LoopState, NEW c \in Calls, CallStep(c), NEW d \in Calls
  PROVE  /\ Started(d) => Started(d)' /\ key'[d] = key[d]
         /\ Started(d)' => Started(d) \/ d = c
BY CallForward, OthersUnchanged DEF Started

LEMMA StepCallsKeyed == IInv /\ [Next]_vars => CallsKeyed'
<1> SUFFICES ASSUME IInv, [Next]_vars PROVE CallsKeyed'
  OBVIOUS
<1> USE DEF IInv, TypeOK
<1> DEFINE K(d) == Started(d) => /\ key[d] = d
                                 /\ body[d] \in Body
                                 /\ IsCode(body[d].grant) => body[d].grant \in codes
<1>1. /\ \A d \in Calls : K(d)
      /\ \A m \in wire : m \in Request /\ Owned(m)
  BY DEF CallsKeyed, HttpTypeOK
<1>2. ASSUME NEW c \in Calls, CallStep(c) PROVE \A m \in wire' : Owned(m)'
  BY <1>1, <1>2, CallOwned, SentOwned
<1>3. ASSUME NEW l \in Logins, GetAuthorizationUrl(l) \/ Authorize(l) PROVE CallsKeyed'
  <2>1. UNCHANGED <<pc, key, attempt, wire, body>> /\ codes \subseteq codes'
    BY <1>3 DEF GetAuthorizationUrl, Authorize, httpVars
  <2> QED BY <1>1, <2>1, AnswerOwned DEF CallsKeyed, Started
<1>4. ASSUME NEW c \in Calls, NEW b \in Body, Begins(c, b),
             IsCode(b.grant) => b.grant \in codes
      PROVE  CallsKeyed'
  <2>1. /\ Start(c) /\ CallStep(c) /\ UNCHANGED codes
        /\ body' = [body EXCEPT ![c] = b]
        /\ key' = [key EXCEPT ![c] = c]
    BY <1>4, OwnKey DEF Begins, CallStep
  <2>2. K(c)'
    BY <1>4, <2>1 DEF HttpTypeOK
  <2>3. ASSUME NEW d \in Calls \ {c} PROVE K(d)'
    BY <1>1, <2>1, OthersUnchanged DEF Started
  <2> QED BY <1>2, <2>1, <2>2, <2>3 DEF CallsKeyed
<1>5. ASSUME NEW c \in Calls, LoopStep(c) PROVE CallsKeyed'
  <2>1. CallStep(c) /\ Started(c) /\ UNCHANGED <<body, codes>>
    BY <1>5 DEF LoopStep, loginVars, Started
  <2>2. \A d \in Calls : K(d)'
    BY <1>1, <2>1, StartedKept
  <2> QED BY <1>2, <2>1, <2>2 DEF CallsKeyed
<1>6. ASSUME NEW m \in wire, NEW s \in Statuses, Serve(m, s) PROVE CallsKeyed'
  <2>1. UNCHANGED <<pc, key, attempt, body, codes>> /\ wire' \subseteq wire
    BY <1>6, ServeFrame
  <2> QED BY <1>1, <2>1, AnswerOwned DEF CallsKeyed, Started
<1>7. CASE UNCHANGED vars
  BY <1>1, <1>7, AnswerOwned DEF vars, CallsKeyed, Started
<1> QED BY <1>3, <1>4, <1>5, <1>6, <1>7, Steps DEF ClientStep

LEMMA StepCodesTrue == IInv /\ [Next]_vars => CodesTrue'
<1> SUFFICES ASSUME IInv, [Next]_vars PROVE CodesTrue'
  OBVIOUS
<1> USE DEF IInv, TypeOK
<1>1. ASSUME NEW l \in Logins, GetAuthorizationUrl(l) PROVE CodesTrue'
  <2>1. \A k \in Logins \ {l} : login'[k] = login[k]
    BY <1>1 DEF GetAuthorizationUrl
  <2>2. login'[l] # None => login'[l].state = State(l) /\ login'[l].verifier = Verifier(l)
    BY <1>1 DEF GetAuthorizationUrl
  <2>3. login[l] = None /\ UNCHANGED codes /\ login' \in [Logins -> UserLogin \cup {None}]
    BY <1>1, StepTypeOK DEF GetAuthorizationUrl
  <2>4. \A code \in codes : code.user \in Logins /\ code.user # l
    BY <2>3 DEF CodesTrue, Codes
  <2> QED BY <2>1, <2>2, <2>3, <2>4 DEF CodesTrue
<1>2. ASSUME NEW l \in Logins, Authorize(l) PROVE CodesTrue'
  <2> DEFINE new == [kind |-> "code", user |-> l, state |-> login[l].state,
                     challenge |-> Challenge(login[l].verifier),
                     client |-> UrlClient(login[l].product, login[l].own)]
  <2>1. login[l] # None /\ codes' = codes \cup {new} /\ UNCHANGED login
    BY <1>2 DEF Authorize
  <2>2. /\ login[new.user] # None
        /\ new.state = State(new.user)
        /\ new.challenge = Challenge(Verifier(new.user))
        /\ new.client = UrlClient(login[new.user].product, login[new.user].own)
    BY <2>1 DEF CodesTrue
  <2> HIDE DEF new
  <2> QED BY <2>1, <2>2 DEF CodesTrue
<1>3. CASE UNCHANGED <<login, codes>>
  BY <1>3 DEF CodesTrue
<1>4. ClientStep => \/ \E l \in Logins : GetAuthorizationUrl(l) \/ Authorize(l)
                    \/ UNCHANGED <<login, codes>>
  BY DEF ClientStep, Begins, LoopStep, loginVars
<1>5. (\E m \in wire, s \in Statuses : Serve(m, s)) \/ UNCHANGED vars
        => UNCHANGED <<login, codes>>
  BY ServeFrame DEF vars
<1> QED BY <1>1, <1>2, <1>3, <1>4, <1>5, Steps
-----------------------------------------------------------------------------
LEMMA StepRedeemedOnce == IInv /\ [Next]_vars => RedeemedOnce'
<1> SUFFICES ASSUME IInv, [Next]_vars PROVE RedeemedOnce'
  OBVIOUS
<1> USE DEF IInv, TypeOK
<1>1. \A r \in redeemed : /\ r.call \in Calls /\ Started(r.call) /\ r.key = r.call
                          /\ r.grant = body[r.call].grant /\ r.answer.user = r.grant.user
  BY DEF RedeemedOnce, Redemption
<1>2. ASSUME UNCHANGED <<redeemed, body>>, \A d \in Calls : Started(d) => Started(d)'
      PROVE  RedeemedOnce'
  BY <1>1, <1>2 DEF RedeemedOnce
<1>3. ASSUME NEW c \in Calls, NEW b \in Body, Begins(c, b) PROVE RedeemedOnce'
  <2>1. ~Started(c) /\ CallStep(c) /\ UNCHANGED redeemed /\ body' = [body EXCEPT ![c] = b]
    BY <1>3 DEF Begins, CallStep, Started
  <2>2. \A r \in redeemed : body'[r.call] = body[r.call] /\ Started(r.call)'
    BY <1>1, <2>1, StartedKept
  <2> QED BY <1>1, <2>1, <2>2 DEF RedeemedOnce
<1>4. ASSUME NEW m \in wire, NEW s \in Statuses, ServeRedeem(m, s) PROVE RedeemedOnce'
  <2>1. m.call \in Calls /\ Started(m.call) /\ m.key = m.call
    BY DEF CallsKeyed, Owned, HttpTypeOK, Request
  <2>2. PICK a \in AnswersTo(body[m.call].grant) :
          redeemed' = redeemed \cup
            {[grant |-> body[m.call].grant, call |-> m.call, key |-> m.key, answer |-> a]}
    BY <1>4 DEF ServeRedeem
  <2> DEFINE new == [grant |-> body[m.call].grant, call |-> m.call, key |-> m.key,
                     answer |-> a]
  <2>3. UNCHANGED <<pc, body>>
    BY <1>4 DEF ServeRedeem, apiUnchanged
  <2>4. new.answer.user = new.grant.user
    BY <2>2 DEF AnswersTo
  <2>5. \A r \in redeemed : r.grant # new.grant
    BY <1>4 DEF ServeRedeem, Spent
  <2>6. \A r \in redeemed : r.call # new.call
    <3>1. m.key # NoKey
      BY <2>1, KeysDistinct
    <3> QED BY <1>1, <1>4, <2>1, <3>1 DEF ServeRedeem, AlreadyApplied
  <2>7. /\ Started(new.call) /\ new.key = new.call /\ new.grant = body[new.call].grant
        /\ redeemed' = redeemed \cup {new}
    BY <2>1, <2>2
  <2>8. \A d \in Calls : Started(d)' = Started(d)
    BY <2>3 DEF Started
  <2>9. new.call \in Calls
    BY <2>1
  <2> HIDE DEF new
  <2>10. \A r, q \in redeemed' : r.grant = q.grant \/ r.call = q.call => r = q
    BY <2>5, <2>6, <2>7 DEF RedeemedOnce
  <2>11. \A r \in redeemed' : /\ Started(r.call)' /\ r.key = r.call
                              /\ r.grant = body'[r.call].grant
                              /\ r.answer.user = r.grant.user
    BY <1>1, <2>3, <2>4, <2>7, <2>8, <2>9
  <2> QED BY <2>10, <2>11 DEF RedeemedOnce
<1>5. ASSUME NEW c \in Calls, LoopStep(c) PROVE RedeemedOnce'
  BY <1>2, <1>5, StartedKept DEF LoopStep, loginVars
<1>6. ASSUME UNCHANGED <<pc, redeemed, body>> PROVE RedeemedOnce'
  BY <1>2, <1>6 DEF Started
<1>7. ASSUME NEW l \in Logins, GetAuthorizationUrl(l) \/ Authorize(l)
      PROVE  UNCHANGED <<pc, redeemed, body>>
  BY <1>7 DEF GetAuthorizationUrl, Authorize, httpVars
<1>8. UNCHANGED vars => UNCHANGED <<pc, redeemed, body>>
  BY DEF vars
<1> QED BY <1>3, <1>4, <1>5, <1>6, <1>7, <1>8, Steps, ServeFrame DEF ClientStep

LEMMA StepGrantsFit == IInv /\ [Next]_vars => GrantsFit'
<1> SUFFICES ASSUME IInv, [Next]_vars PROVE GrantsFit'
  OBVIOUS
<1> USE DEF IInv, TypeOK
<1>1. ASSUME NEW l \in Logins, GetAuthorizationUrl(l) PROVE GrantsFit'
  <2> SUFFICES ASSUME NEW c \in Calls, Started(c), ClientDropped(body[c])
               PROVE  ClientDropped(body[c])'
    BY <1>1 DEF GetAuthorizationUrl, httpVars, GrantsFit, Started, Fits
  <2>1. body[c].grant \in codes
    BY DEF CallsKeyed, ClientDropped
  <2>2. body[c].grant.user \in Logins /\ login[body[c].grant.user] # None
    BY <2>1 DEF CodesTrue, Codes
  <2>3. login'[body[c].grant.user] = login[body[c].grant.user]
    BY <1>1, <2>2 DEF GetAuthorizationUrl
  <2> QED BY <1>1, <2>3 DEF GetAuthorizationUrl, ClientDropped
<1>2. ASSUME NEW c \in Calls, NEW b \in Body, Begins(c, b), Fits(b) \/ ClientDropped(b)
      PROVE  GrantsFit'
  <2>1. CallStep(c) /\ UNCHANGED login /\ body' = [body EXCEPT ![c] = b]
    BY <1>2 DEF Begins, CallStep
  <2>2. \A d \in Calls \ {c} : body'[d] = body[d] /\ (Started(d)' => Started(d))
    BY <2>1, StartedKept
  <2>3. body'[c] = b
    BY <2>1
  <2>4. \A d \in Calls : Started(d)' => Fits(body'[d]) \/ ClientDropped(body'[d])
    BY <1>2, <2>2, <2>3 DEF GrantsFit
  <2> QED BY <2>1, <2>4 DEF GrantsFit, ClientDropped, Fits
<1>3. ASSUME UNCHANGED <<login, body>>, \A d \in Calls : Started(d)' => Started(d)
      PROVE  GrantsFit'
  BY <1>3 DEF GrantsFit, Fits, ClientDropped
<1>4. ASSUME NEW c \in Calls, LoopStep(c) PROVE GrantsFit'
  <2>1. CallStep(c) /\ Started(c) /\ UNCHANGED <<login, body>>
    BY <1>4 DEF LoopStep, loginVars, Started
  <2> QED BY <1>3, <2>1, StartedKept
<1>5. ASSUME UNCHANGED <<pc, login, body>> PROVE GrantsFit'
  BY <1>3, <1>5 DEF Started
<1>6. \A l \in Logins : Authorize(l) => UNCHANGED <<pc, login, body>>
  BY DEF Authorize, httpVars
<1>7. UNCHANGED vars => UNCHANGED <<pc, login, body>>
  BY DEF vars
<1> QED BY <1>1, <1>2, <1>4, <1>5, <1>6, <1>7, Steps, ServeFrame DEF ClientStep
-----------------------------------------------------------------------------
\* What the API says of a grant it refuses.
LEMMA RefusalTrue ==
  ASSUME IInv, NEW m \in wire, Serve(m, 400), Fits(body[m.call])
  PROVE  \E r \in redeemed : r.grant = body[m.call].grant /\ r.call # m.call
<1>1. m.key = m.call /\ m.key # NoKey
  <2>1. m.call \in Calls /\ m.key = m.call
    BY DEF IInv, TypeOK, CallsKeyed, Owned, HttpTypeOK, Request
  <2> QED BY <2>1, KeysDistinct
<1>2. ServeRefuse(m, 400)
  BY DEF Serve, ServeRedeem, ServeReplay, GatewayFails, AnswerStatus
<1>3. ~AlreadyApplied(m) /\ Spent(body[m.call].grant)
  BY <1>2 DEF ServeRefuse
<1>4. PICK r \in redeemed : r.grant = body[m.call].grant
  BY <1>3 DEF Spent
<1>5. r.call # m.call
  BY <1>1, <1>3, <1>4 DEF AlreadyApplied, IInv, RedeemedOnce
<1> QED BY <1>4, <1>5

LEMMA StepRefusalsTrue == IInv /\ [Next]_vars => RefusalsTrue'
<1> DEFINE A(d) == StatusKnown(d, 400) /\ Fits(body[d]) =>
                     \E r \in redeemed : r.grant = body[d].grant /\ r.call # d
<1> SUFFICES ASSUME IInv, [Next]_vars, NEW d \in Calls PROVE A(d)'
  BY DEF RefusalsTrue
<1> USE DEF IInv, TypeOK
<1>1. A(d)
  BY DEF RefusalsTrue
<1>2. ASSUME UNCHANGED body, redeemed \subseteq redeemed',
             StatusKnown(d, 400)' => StatusKnown(d, 400)
      PROVE  A(d)'
  BY <1>1, <1>2 DEF Fits
<1>3. ASSUME NEW c \in Calls, NEW b \in Body, Begins(c, b) PROVE A(d)'
  <2>1. CallStep(c) /\ UNCHANGED redeemed /\ body' = [body EXCEPT ![c] = b] /\ pc[c] = "idle"
    BY <1>3 DEF Begins, CallStep
  <2>2. StatusKnown(d, 400)' => StatusKnown(d, 400)
    BY <2>1, CallLearns
  <2>3. CASE d = c
    <3>1. ~StatusKnown(d, 400)
      BY <2>1, <2>3, StatusType DEF LoopState, StatusKnown
    <3> QED BY <2>2, <3>1
  <2>4. CASE d # c
    <3>1. body'[d] = body[d]
      BY <2>1, <2>4
    <3> QED BY <1>1, <2>1, <2>2, <3>1 DEF Fits
  <2> QED BY <2>3, <2>4
<1>4. ASSUME NEW c \in Calls, LoopStep(c) PROVE A(d)'
  <2>1. CallStep(c) /\ UNCHANGED <<body, redeemed>>
    BY <1>4 DEF LoopStep, loginVars
  <2>2. StatusKnown(d, 400)' => StatusKnown(d, 400)
    BY <2>1, CallLearns
  <2> QED BY <1>2, <2>1, <2>2
<1>5. ASSUME NEW m \in wire, NEW s \in Statuses, Serve(m, s) PROVE A(d)'
  <2>1. /\ Owned(m) /\ Answer(m, s) /\ UNCHANGED body /\ redeemed \subseteq redeemed'
        /\ UNCHANGED <<pc, method, key, attempt, outcome, status>>
    BY <1>5, ServeFrame DEF CallsKeyed, ServeRedeem
  <2>2. \/ StatusKnown(d, 400)' => StatusKnown(d, 400)
        \/ m = AttemptRequest(d) /\ (StatusKnown(d, 400)' => s = 400)
    BY <2>1, AnswerTells
  <2>3. CASE StatusKnown(d, 400)' => StatusKnown(d, 400)
    BY <1>2, <2>1, <2>3
  <2>4. CASE m = AttemptRequest(d) /\ s = 400
    <3>1. m.call = d
      BY <2>4 DEF AttemptRequest
    <3> QED BY <1>5, <2>1, <2>4, <3>1, RefusalTrue DEF Fits
  <2>5. CASE ~StatusKnown(d, 400)'
    BY <2>5
  <2> QED BY <2>2, <2>3, <2>4, <2>5
<1>6. ASSUME UNCHANGED <<status, reply, body, redeemed>> PROVE A(d)'
  BY <1>2, <1>6 DEF StatusKnown
<1>7. \A l \in Logins : GetAuthorizationUrl(l) \/ Authorize(l)
        => UNCHANGED <<status, reply, body, redeemed>>
  BY DEF GetAuthorizationUrl, Authorize, httpVars
<1>8. UNCHANGED vars => UNCHANGED <<status, reply, body, redeemed>>
  BY DEF vars
<1> HIDE DEF A
<1> QED BY <1>3, <1>4, <1>5, <1>6, <1>7, <1>8, Steps DEF ClientStep
-----------------------------------------------------------------------------
\* A call learns of a further step from an answer alone.
LEMMA ChallengeLearnt ==
  ASSUME HttpTypeOK, LoopState, NEW c \in Calls, CallStep(c), NEW d \in Calls,
         ChallengeKnown(d)'
  PROVE  ChallengeKnown(d)
<1> USE DEF HttpTypeOK, ChallengeKnown
<1>1. StatusKnown(d, 403)' => StatusKnown(d, 403)
  BY CallLearns
<1>2. CASE d # c
  BY <1>1, <1>2, OthersUnchanged
<1>3. CASE d = c /\ outcome'[c] = "AuthorizationError" /\ outcome[c] # "AuthorizationError"
  <2>1. Receive(c) /\ reply[c] # NoReply /\ reply[c] >= 400
        /\ RaiseError(reply[c]) = "AuthorizationError"
    BY <1>3 DEF CallStep, Start, EnterIteration, Send, ConnectError, Timeout, NetworkError,
                AttemptFails, Drip, Receive, Wake, Cancel, Finish
  <2>2. reply[c] = 403
    BY <2>1 DEF RaiseError
  <2> QED BY <1>3, <2>1, <2>2 DEF StatusKnown
<1> QED
  BY <1>1, <1>2, <1>3

\* What the API answers a request with, it has redeemed for the request's call.
LEMMA AnswerTrue ==
  ASSUME IInv, NEW m \in wire, NEW s \in Statuses, Serve(m, s), s < 400 \/ s = 403
  PROVE  \E r \in redeemed' : r.call = m.call /\ (r.answer.step = None <=> s < 400)
<1>1. s \in Int /\ ~(s >= 500) /\ s # 400
  BY StatusType
<1>2. CASE ServeRedeem(m, s)
  <2>1. PICK a \in AnswersTo(body[m.call].grant) :
          /\ s = AnswerStatus(a)
          /\ redeemed' = redeemed \cup
               {[grant |-> body[m.call].grant, call |-> m.call, key |-> m.key, answer |-> a]}
    BY <1>1, <1>2 DEF ServeRedeem
  <2>2. a.step = None <=> s < 400
    BY <2>1 DEF AnswerStatus
  <2> DEFINE new == [grant |-> body[m.call].grant, call |-> m.call, key |-> m.key,
                     answer |-> a]
  <2>3. new \in redeemed' /\ new.call = m.call /\ new.answer = a
    BY <2>1
  <2> HIDE DEF new
  <2> QED BY <2>2, <2>3
<1>3. CASE ServeReplay(m, s)
  <2>1. PICK r \in redeemed : r.key = m.key /\ s = AnswerStatus(r.answer)
    BY <1>1, <1>3 DEF ServeReplay
  <2>2. m.call \in Calls /\ m.key = m.call
    BY DEF IInv, TypeOK, CallsKeyed, Owned, HttpTypeOK, Request
  <2>3. r.call = m.call /\ redeemed' = redeemed
    BY <1>3, <2>1, <2>2 DEF IInv, RedeemedOnce, ServeReplay
  <2> QED BY <2>1, <2>3 DEF AnswerStatus
<1> QED
  BY <1>1, <1>2, <1>3 DEF Serve, ServeRefuse, GatewayFails

LEMMA StepAnswersTrue == IInv /\ [Next]_vars => AnswersTrue'
<1> DEFINE Told(d) == \E r \in redeemed : r.call = d /\ r.answer.step = None
           Asked(d) == \E r \in redeemed : r.call = d /\ r.answer.step # None
<1> SUFFICES ASSUME IInv, [Next]_vars, NEW d \in Calls
             PROVE  /\ ResultKnown(d)' => Told(d)'
                    /\ ChallengeKnown(d)' => Asked(d)'
  BY DEF AnswersTrue
<1> USE DEF IInv, TypeOK
<1>1. (ResultKnown(d) => Told(d)) /\ (ChallengeKnown(d) => Asked(d))
  BY DEF AnswersTrue
<1>2. redeemed \subseteq redeemed' => (Told(d) => Told(d)') /\ (Asked(d) => Asked(d)')
  OBVIOUS
<1> HIDE DEF Told, Asked
<1>3. ASSUME NEW c \in Calls, CallStep(c), UNCHANGED redeemed
      PROVE  /\ ResultKnown(d)' => Told(d)'
             /\ ChallengeKnown(d)' => Asked(d)'
  <2>1. ResultKnown(d)' => ResultKnown(d)
    BY <1>3, CallLearns
  <2>2. ChallengeKnown(d)' => ChallengeKnown(d)
    BY <1>3, ChallengeLearnt
  <2> QED BY <1>1, <1>2, <1>3, <2>1, <2>2
<1>4. ASSUME NEW m \in wire, NEW s \in Statuses, Serve(m, s)
      PROVE  /\ ResultKnown(d)' => Told(d)'
             /\ ChallengeKnown(d)' => Asked(d)'
  <2>1. /\ Owned(m) /\ Answer(m, s) /\ redeemed \subseteq redeemed'
        /\ UNCHANGED <<pc, method, key, attempt, outcome, status>>
    BY <1>4, ServeFrame DEF CallsKeyed, ServeRedeem
  <2>2. \/ /\ ResultKnown(d)' => ResultKnown(d)
           /\ StatusKnown(d, 403)' => StatusKnown(d, 403)
        \/ /\ m = AttemptRequest(d)
           /\ ResultKnown(d)' => s < 400
           /\ StatusKnown(d, 403)' => s = 403
    BY <2>1, AnswerTells
  <2>3. CASE /\ ResultKnown(d)' => ResultKnown(d)
             /\ StatusKnown(d, 403)' => StatusKnown(d, 403)
    BY <1>1, <1>2, <2>1, <2>3 DEF ChallengeKnown
  <2>4. CASE /\ m = AttemptRequest(d)
             /\ ResultKnown(d)' => s < 400
             /\ StatusKnown(d, 403)' => s = 403
    <3>1. m.call = d
      BY <2>4 DEF AttemptRequest
    <3>2. s < 400 => Told(d)'
      BY <1>4, <3>1, AnswerTrue DEF Told
    <3>3. s = 403 => Asked(d)'
      BY <1>4, <3>1, AnswerTrue DEF Asked
    <3>4. outcome'[d] = "AuthorizationError" => ChallengeKnown(d)
      BY <2>1 DEF ChallengeKnown
    <3> QED BY <1>1, <1>2, <2>1, <2>4, <3>2, <3>3, <3>4 DEF ChallengeKnown
  <2> QED BY <2>2, <2>3, <2>4
<1>5. ASSUME UNCHANGED <<outcome, status, reply, redeemed>>
      PROVE  /\ ResultKnown(d)' => Told(d)'
             /\ ChallengeKnown(d)' => Asked(d)'
  BY <1>1, <1>2, <1>5 DEF ResultKnown, ChallengeKnown, StatusKnown, Succeeded
<1>6. ClientStep => \/ \E c \in Calls : CallStep(c) /\ UNCHANGED redeemed
                    \/ UNCHANGED <<outcome, status, reply, redeemed>>
  BY DEF ClientStep, Begins, LoopStep, loginVars, CallStep, GetAuthorizationUrl, Authorize,
         httpVars
<1>7. UNCHANGED vars => UNCHANGED <<outcome, status, reply, redeemed>>
  BY DEF vars
<1> QED BY <1>3, <1>4, <1>5, <1>6, <1>7, Steps
-----------------------------------------------------------------------------
LEMMA InitIInv == Init => IInv
<1> SUFFICES ASSUME Init PROVE IInv
  OBVIOUS
<1>1. TypeOK
  BY HttpInitType DEF Init, TypeOK
<1> USE DEF Init, HttpInit
<1>2. LoopState /\ BudgetUsed
  BY RetriesType DEF LoopState, BudgetUsed, TransportErrors, RETRY_STATUS_CODES
<1>3. CallsKeyed /\ CodesTrue /\ RedeemedOnce /\ GrantsFit
  BY DEF CallsKeyed, CodesTrue, RedeemedOnce, GrantsFit, Started
<1>4. RefusalsTrue
  BY StatusType DEF RefusalsTrue, StatusKnown
<1>5. AnswersTrue
  <2>1. NoReply \notin Statuses
    BY StatusType
  <2>2. ASSUME NEW c \in Calls PROVE ~ResultKnown(c)
    BY DEF ResultKnown, Succeeded
  <2>3. ASSUME NEW c \in Calls PROVE ~ChallengeKnown(c)
    BY <2>1 DEF ChallengeKnown, StatusKnown
  <2> QED BY <2>2, <2>3 DEF AnswersTrue
<1> QED BY <1>1, <1>2, <1>3, <1>4, <1>5 DEF IInv

\* The inductive invariant holds in every state that logins and their calls
\* reach, whatever the API asks for and however often callbacks come back.
THEOREM Invariance == Spec => []IInv
<1>1. IInv /\ [Next]_vars => IInv'
  BY StepTypeOK, StepLoopState, StepCallsKeyed, StepCodesTrue, StepRedeemedOnce,
     StepGrantsFit, StepRefusalsTrue, StepAnswersTrue DEF IInv
<1> QED BY InitIInv, <1>1, PTL DEF Spec

\* What the API has saved for a call is what the call itself redeemed.
LEMMA SavedIsOwn ==
  ASSUME IInv, NEW c \in Calls, outcome[c] # "None", NEW r \in SavedFor(c)
  PROVE  r \in redeemed /\ r.call = c /\ r.answer \in Answers
                        /\ r.answer.user = body[c].grant.user
<1>1. Started(c) /\ key[c] = c
  BY DEF IInv, LoopState, CallsKeyed, Started
<1>2. r \in redeemed /\ r.call = c
  BY <1>1 DEF SavedFor, IInv, RedeemedOnce
<1> QED BY <1>2 DEF IInv, TypeOK, RedeemedOnce, Redemption

\* A call ends with tokens or a further step only by redeeming its own grant,
\* for the user of that grant: every POST has a key of its own, so the answer
\* repeated to a retry is the call's own.
THEOREM Apart == Spec => []LoginsApart
<1>1. IInv => LoginsApart
  <2> SUFFICES ASSUME IInv, NEW c \in Calls,
                      Succeeded(c) \/ outcome[c] = "AuthorizationError"
               PROVE  /\ \E r \in SavedFor(c) :
                           r.grant = body[c].grant /\ (r.answer.step = None <=> Succeeded(c))
                      /\ \A r \in SavedFor(c) : r.answer.user = body[c].grant.user
    BY DEF LoginsApart
  <2>1. outcome[c] # "None" /\ (outcome[c] = "AuthorizationError" => ~Succeeded(c))
    BY DEF Succeeded
  <2>2. PICK r \in redeemed : r.call = c /\ (r.answer.step = None <=> Succeeded(c))
    BY <2>1 DEF IInv, AnswersTrue, ResultKnown, ChallengeKnown
  <2>3. r \in SavedFor(c) /\ r.grant = body[c].grant
    BY <2>2 DEF SavedFor, IInv, RedeemedOnce
  <2> QED BY <2>1, <2>2, <2>3, SavedIsOwn
<1> QED BY Invariance, <1>1, PTL

\* What is sent with a grant is what the API binds the grant to.
THEOREM Fit == Spec => []GrantsFit
<1>1. IInv => GrantsFit
  BY DEF IInv
<1> QED BY Invariance, <1>1, PTL

\* A lost answer and the retry after it never use a grant up.
THEOREM NotWasted == Spec => []GrantsNotWasted
<1>1. IInv => GrantsNotWasted
  <2> SUFFICES ASSUME IInv, NEW c \in Calls, status[c] = 400, Fits(body[c])
               PROVE  \E r \in redeemed : r.grant = body[c].grant /\ r.call # c
    BY DEF GrantsNotWasted
  <2>1. 400 \in Statuses
    BY DEF IInv, TypeOK, HttpTypeOK
  <2> QED BY <2>1 DEF IInv, RefusalsTrue, StatusKnown
<1> QED BY Invariance, <1>1, PTL

\* A further step is raised as the error of that step, unless a code that names
\* no step hides it.
THEOREM Named == Spec => []StepsNamed
<1>1. IInv => StepsNamed
  <2> SUFFICES ASSUME IInv, NEW c \in Calls, NEW error \in FlowErrors(c),
                      error.step # error.token.step
               PROVE  /\ error.step = None
                      /\ \E r \in SavedFor(c) : r.answer.step # None /\ Hides(r.answer.said)
    BY DEF StepsNamed
  <2>1. PICK r \in SavedFor(c) :
          /\ outcome[c] = "AuthorizationError" /\ r.answer.step # None
          /\ error.step = Dispatch(r.answer.said) /\ error.token.step = r.answer.step
    BY DEF FlowErrors
  <2>2. r.answer \in Answers
    BY <2>1, SavedIsOwn
  <2> QED BY <2>1, <2>2, AnswerDispatch
<1> QED BY Invariance, <1>1, PTL
-----------------------------------------------------------------------------
LEMMA DeliveredIs ==
  ASSUME NEW c \in Calls
  PROVE  Promise!Delivered(c) <=> \E r \in redeemed : r.call = c
BY DEF Promise!Delivered, Redemptions

\* A call's own step begins or concludes the operation, or is not seen.
LEMMA CallSimulates ==
  ASSUME IInv, NEW c \in Calls, CallStep(c), UNCHANGED redeemed,
         \A d \in Calls \ {c} : body'[d] = body[d],
         IF Start(c) THEN body'[c].grant \in Codes \cup Tokens ELSE body'[c] = body[c]
  PROVE  [Promise!Next]_(Promise!promiseVars)
<1>1. HttpTypeOK /\ LoopState /\ UNCHANGED Redemptions
  BY DEF IInv, TypeOK, Redemptions
<1>2. Verdicts' = [Verdicts EXCEPT ![c] = Verdict(c)'] /\ Verdicts[c] = Verdict(c)
  BY <1>1, CallVerdict DEF Verdicts
<1>3. Started(c)' /\ \A d \in Calls \ {c} : Started(d)' = Started(d)
  BY <1>1, OthersUnchanged, CallForward DEF Started
<1>4. CASE Start(c)
  <2>1. GrantKeys' = [GrantKeys EXCEPT ![c] = body'[c].grant]
    BY <1>3 DEF GrantKeys
  <2>2. Promise!Begin(c)
    BY <1>1, <1>2, <1>4, <2>1, CallVerdict DEF Promise!Begin
  <2> QED BY <2>2 DEF Promise!Next
<1>5. CASE ~Start(c)
  <2>1. Started(c)
    BY <1>5 DEF CallStep, Send, ConnectError, Timeout, NetworkError, AttemptFails,
                Drip, Receive, Wake, Cancel, Started
  <2>2. UNCHANGED GrantKeys
    BY <1>3, <1>5, <2>1 DEF GrantKeys
  <2>3. CASE Verdict(c)' = "open"
    BY <1>1, <1>2, <1>5, <2>2, <2>3, CallVerdict DEF Promise!promiseVars, Verdicts
  <2>4. CASE Verdict(c)' # "open"
    <3>1. ResultKnown(c) => Promise!Effective(c)
      BY DeliveredIs DEF IInv, AnswersTrue, Promise!Effective
    <3>2. Promise!Conclude(c)
      BY <1>1, <1>2, <1>5, <2>2, <2>4, <3>1, CallVerdict DEF Promise!Conclude
    <3> QED BY <3>2 DEF Promise!Next
  <2> QED BY <2>3, <2>4
<1> QED BY <1>4, <1>5

\* A redemption is the one delivery of its grant.
LEMMA ServeSimulates ==
  ASSUME IInv, NEW m \in wire, NEW s \in Statuses, Serve(m, s)
  PROVE  [Promise!Next]_(Promise!promiseVars)
<1> DEFINE c == m.call
<1>1. /\ c \in Calls /\ Started(c)
      /\ UNCHANGED <<pc, method, key, attempt, outcome, status, body>>
  BY ServeFrame DEF IInv, TypeOK, CallsKeyed, Owned, HttpTypeOK, Request
<1>2. UNCHANGED <<Verdicts, GrantKeys>>
  BY <1>1 DEF Verdicts, Verdict, Succeeded, Refused, GrantKeys, Started
<1>3. CASE UNCHANGED redeemed
  BY <1>2, <1>3 DEF Promise!promiseVars, Redemptions
<1>4. CASE ServeRedeem(m, s)
  <2>1. PICK a \in Answers :
          redeemed' = redeemed \cup
            {[grant |-> body[c].grant, call |-> c, key |-> m.key, answer |-> a]}
    BY <1>4 DEF ServeRedeem, AnswersTo
  <2>2. \A r \in redeemed : r.grant # body[c].grant
    BY <1>4 DEF ServeRedeem, Spent
  <2>3. ASSUME NEW d \in Calls, Promise!SameKey(c, d) PROVE ~Promise!Delivered(d)
    <3>1. SUFFICES ASSUME NEW r \in redeemed, r.call = d PROVE FALSE
      BY DeliveredIs
    <3>2. Started(d) /\ r.grant = body[d].grant
      BY <3>1 DEF IInv, RedeemedOnce
    <3>3. body[d].grant = body[c].grant
      BY <1>1, <2>3, <3>2 DEF Promise!SameKey, GrantKeys
    <3> QED BY <2>2, <3>2, <3>3
  <2>4. Redemptions[c] = {}
    BY <1>1, <2>2 DEF Redemptions, IInv, RedeemedOnce
  <2>5. Redemptions' = [Redemptions EXCEPT ![c] = @ \cup {"redeemed"}]
    <3> DEFINE new == [grant |-> body[c].grant, call |-> c, key |-> m.key, answer |-> a]
    <3>1. redeemed' = redeemed \cup {new} /\ new.call = c
      BY <2>1
    <3> HIDE DEF new
    <3>2. \A d \in Calls : (\E r \in redeemed' : r.call = d)
                             <=> d = c \/ \E r \in redeemed : r.call = d
      BY <3>1
    <3> QED BY <2>4, <3>2 DEF Redemptions
  <2>6. Verdicts[c] # "idle"
    BY <1>1 DEF Verdicts, Verdict, Started
  <2>7. Promise!Deliver(c)
    BY <1>1, <1>2, <2>3, <2>4, <2>5, <2>6 DEF Promise!Deliver
  <2> QED BY <1>1, <2>7 DEF Promise!Next
<1> QED BY <1>3, <1>4, ServeFrame

\* A code or a pending token keeps the promise of an idempotency key.
THEOREM Refinement == Spec => GrantActsAsKey
<1>1. Init => Promise!Init
  BY DEF Init, HttpInit, Promise!Init, GrantKeys, Started, Redemptions, Verdicts, Verdict
<1>2. IInv /\ [Next]_vars => [Promise!Next]_(Promise!promiseVars)
  <2> SUFFICES ASSUME IInv, [Next]_vars PROVE [Promise!Next]_(Promise!promiseVars)
    OBVIOUS
  <2>1. ASSUME UNCHANGED <<pc, outcome, status, body, redeemed>>
        PROVE  UNCHANGED Promise!promiseVars
    BY <2>1 DEF Promise!promiseVars, GrantKeys, Started, Redemptions, Verdicts, Verdict,
                Succeeded, Refused
  <2>2. ASSUME NEW c \in Calls, NEW b \in Body, Begins(c, b)
        PROVE  [Promise!Next]_(Promise!promiseVars)
    <3>1. Start(c) /\ CallStep(c) /\ UNCHANGED redeemed
          /\ body' = [body EXCEPT ![c] = b] /\ body \in [Calls -> Body \cup {None}]
      BY <2>2 DEF Begins, CallStep, IInv, TypeOK
    <3>2. body'[c].grant \in Codes \cup Tokens
      BY <3>1 DEF Body
    <3> QED BY <3>1, <3>2, CallSimulates
  <2>3. ASSUME NEW c \in Calls, LoopStep(c) PROVE [Promise!Next]_(Promise!promiseVars)
    <3>1. CallStep(c) /\ ~Start(c) /\ UNCHANGED <<body, redeemed>>
      BY <2>3 DEF LoopStep, Start, loginVars
    <3> QED BY <3>1, CallSimulates
  <2>4. ASSUME NEW l \in Logins, GetAuthorizationUrl(l) \/ Authorize(l)
        PROVE  UNCHANGED <<pc, outcome, status, body, redeemed>>
    BY <2>4 DEF GetAuthorizationUrl, Authorize, httpVars
  <2>5. UNCHANGED vars => UNCHANGED <<pc, outcome, status, body, redeemed>>
    BY DEF vars
  <2> QED BY <2>1, <2>2, <2>3, <2>4, <2>5, Steps, ServeSimulates DEF ClientStep
<1> QED BY Invariance, <1>1, <1>2, PTL DEF Spec, GrantActsAsKey, Promise!Spec

\* Every step of a token call brings it nearer to its end, whatever the other
\* logins and refreshes do.
THEOREM Advancing == Spec => CallsAdvance
<1>1. IInv /\ IInv' /\ [Next]_vars => [Advance]_httpVars
  <2> SUFFICES ASSUME IInv, IInv', [Next]_vars PROVE Advance
    OBVIOUS
  <2>1. (\E c \in Calls : CallStep(c)) \/ UNCHANGED <<pc, attempt>>
    BY Steps, ServeFrame
       DEF ClientStep, Begins, LoopStep, CallStep, GetAuthorizationUrl, Authorize,
           httpVars, vars
  <2> QED BY <2>1, Advances DEF IInv, TypeOK
<1> QED BY Invariance, <1>1, PTL DEF Spec, CallsAdvance
=============================================================================
