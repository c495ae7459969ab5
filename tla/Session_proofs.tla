---------------------------- MODULE Session_proofs ----------------------------
(***************************************************************************)
(* Proofs about Session, for any number of Session objects and concurrent   *)
(* invocations, any passwords, and an API that retires used refresh tokens  *)
(* or does not: the inductive invariant IInv and the safety properties.     *)
(***************************************************************************)
EXTENDS Session, TLAPS

-----------------------------------------------------------------------------
LEMMA Distinct ==
  /\ Refreshes \cap Auths = {}
  /\ Original \notin Refreshes
  /\ NoCookie \notin Sealed \cup Tokens
  /\ NoKey \notin Refreshes
  /\ NoPassword \notin Passwords
  /\ CookieKey \in Passwords
  /\ SessionOf \in [Invocations -> Sessions]
  /\ InitialPassword \in [Sessions -> Passwords]
BY SessionAssumption DEF SessionAssumption, Invocations

\* What a step of the POST of refresh r does to the calls.
LEMMA BeginFrame ==
  ASSUME CallsOK, NEW r \in Refreshes,
         Post!Begin(r), key'[r] = r, verdict'[r] = "open"
  PROVE  /\ key' = [key EXCEPT ![r] = r]
         /\ verdict' = [verdict EXCEPT ![r] = "open"]
         /\ UNCHANGED deliveries
BY DEF CallsOK, Post!Begin

LEMMA DeliverFrame ==
  ASSUME CallsOK, NEW r \in Refreshes, Post!Deliver(r), key[r] = r
  PROVE  /\ UNCHANGED <<key, verdict>>
         /\ verdict[r] # "idle"
         /\ ~Post!Delivered(r)
         /\ deliveries' \in [Refreshes -> SUBSET (0..Retries)]
         /\ \A q \in Refreshes : Post!Delivered(q)' <=> q = r \/ Post!Delivered(q)
<1>1. PICK n \in (0..Retries) \ deliveries[r] :
        deliveries' = [deliveries EXCEPT ![r] = @ \cup {n}]
  BY DEF Post!Deliver
<1>2. ~Post!Delivered(r)
  BY Distinct DEF Post!Deliver, Post!SameKey
<1> QED BY <1>1, <1>2 DEF CallsOK, Post!Deliver, Post!Delivered

LEMMA ConcludeFrame ==
  ASSUME CallsOK, LocalState, NEW r \in Refreshes, Post!Conclude(r), session[r] # NoCookie
  PROVE  /\ UNCHANGED <<key, deliveries>>
         /\ verdict' \in [Refreshes -> Verdicts]
         /\ \A q \in Refreshes : q # r => verdict'[q] = verdict[q]
         /\ verdict'[r] # "idle"
         /\ verdict'[r] = "succeeded" => Post!Delivered(r)
<1>1. Post!Effective(r) => Post!Delivered(r)
  <2>1. ASSUME NEW d \in Refreshes, Post!Delivered(d), Post!SameKey(r, d)
        PROVE  d = r
    BY <2>1 DEF LocalState, CallsOK, Post!SameKey, Post!Delivered
  <2> QED BY <2>1 DEF Post!Effective
<1> QED BY <1>1 DEF CallsOK, Verdicts, Post!Conclude
-----------------------------------------------------------------------------
\* Types, of the Session and of the calls.
LEMMA InitTypeOK == Init => TypeOK /\ CallsOK
BY Distinct DEF Init, TypeOK, CallsOK, Sealed, Tokens, PCs, Results, Verdicts,
                Invocations, Post!Init

LEMMA FinishType ==
  ASSUME TypeOK, NEW i \in Invocations, NEW o \in Results, Finish(i, o)
  PROVE  /\ pc' \in [Invocations -> PCs]
         /\ result' \in [Invocations -> Results]
BY DEF TypeOK, Finish, PCs

LEMMA StepTypeOK == TypeOK /\ CallsOK /\ LocalState /\ [Next]_vars => TypeOK' /\ CallsOK'
<1> SUFFICES ASSUME TypeOK, CallsOK, LocalState, [Next]_vars PROVE TypeOK' /\ CallsOK'
  OBVIOUS
<1> USE Distinct DEF Invocations
<1>1. ASSUME NEW r \in Refreshes, RefreshStep(r) PROVE TypeOK' /\ CallsOK'
  <2>1. CASE ReadPassword(r)
    BY <2>1 DEF ReadPassword, TypeOK, CallsOK, PCs, attributes, callVars
  <2>2. CASE Unseal(r)
    <3>1. CASE Unseals(session_data[SessionOf[r]], password[r])
                 /\ session_data[SessionOf[r]].user
      <4>1. CallsOK'
        BY <2>2, <3>1, BeginFrame DEF Unseal, CallsOK, Verdicts
      <4> QED BY <2>2, <3>1, <4>1 DEF Unseal, TypeOK, PCs, attributes, Unseals
    <3>2. CASE ~(Unseals(session_data[SessionOf[r]], password[r])
                   /\ session_data[SessionOf[r]].user)
      BY <2>2, <3>2, FinishType
         DEF Unseal, TypeOK, CallsOK, Results, RefreshFailures, attributes, callVars
    <3> QED BY <3>1, <3>2
  <2>3. CASE Answered(r)
    <3>1. session[r] # NoCookie
      BY <2>3 DEF Answered, LocalState
    <3>2. CallsOK'
      BY <2>3, <3>1, ConcludeFrame DEF Answered, CallsOK
    <3>3. /\ pc' \in [Invocations -> PCs]
          /\ result' \in [Invocations -> Results]
      BY <2>3, FinishType
         DEF Answered, TypeOK, PCs, Results, RefreshFailures, RefusalReasons, NoAnswerReasons
    <3> QED BY <2>3, <3>2, <3>3 DEF Answered, TypeOK, attributes
  <2>4. CASE Verify(r)
    BY <2>4, FinishType
       DEF Verify, TypeOK, CallsOK, PCs, Results, RefreshFailures, RefusalReasons,
           attributes, callVars
  <2>5. CASE CommitData(r)
    BY <2>5 DEF CommitData, SealSession, TypeOK, CallsOK, PCs, Sealed, Tokens, callVars
  <2>6. CASE CommitPassword(r)
    BY <2>6, FinishType DEF CommitPassword, TypeOK, CallsOK, Results, callVars
  <2> QED BY <1>1, <2>1, <2>2, <2>3, <2>4, <2>5, <2>6 DEF RefreshStep
<1>2. ASSUME NEW r \in Refreshes, Exchange(r) PROVE TypeOK' /\ CallsOK'
  <2>1. key[r] = r
    BY <1>2 DEF Exchange, LocalState
  <2>2. CallsOK'
    BY <1>2, <2>1, DeliverFrame DEF Exchange, CallsOK
  <2>3. live' \subseteq Tokens
    <3>1. PICK kept \in {{}, {session[r].token}} :
            live' = (live \ {session[r].token}) \cup kept \cup {r}
      BY <1>2 DEF Exchange
    <3> QED BY <1>2, <3>1 DEF Exchange, TypeOK, Tokens
  <2> QED BY <1>2, <2>2, <2>3 DEF Exchange, TypeOK, attributes, locals
<1>3. ASSUME NEW a \in Auths, AuthStep(a) PROVE TypeOK' /\ CallsOK'
  <2>1. CASE AuthRead(a)
    BY <2>1, FinishType
       DEF AuthRead, TypeOK, CallsOK, PCs, Results, AuthFailures, attributes, callVars
  <2>2. CASE AuthUnseal(a)
    BY <2>2, FinishType
       DEF AuthUnseal, TypeOK, CallsOK, PCs, Results, AuthFailures, attributes, callVars
  <2>3. CASE AuthVerify(a)
    BY <2>3, FinishType
       DEF AuthVerify, TypeOK, CallsOK, Results, AuthFailures, attributes, callVars
  <2> QED BY <1>3, <2>1, <2>2, <2>3 DEF AuthStep
<1>4. CASE UNCHANGED vars
  BY <1>4 DEF vars, TypeOK, CallsOK
<1> QED BY <1>1, <1>2, <1>3, <1>4 DEF Next
-----------------------------------------------------------------------------
\* What a step leaves alone.
LEMMA RefreshFrame ==
  ASSUME TypeOK, CallsOK, LocalState, NEW r \in Refreshes, RefreshStep(r)
  PROVE  /\ UNCHANGED <<live, deliveries>>
         /\ \A i \in Invocations : i # r =>
              pc'[i] = pc[i] /\ session'[i] = session[i] /\ result'[i] = result[i]
         /\ \A q \in Refreshes : q # r =>
              password'[q] = password[q] /\ key'[q] = key[q] /\ verdict'[q] = verdict[q]
<1> USE DEF TypeOK, CallsOK, Invocations, attributes, callVars, Finish
<1>1. CASE ReadPassword(r)
  BY <1>1 DEF ReadPassword
<1>2. CASE Unseal(r)
  <2>1. CASE Unseals(session_data[SessionOf[r]], password[r])
               /\ session_data[SessionOf[r]].user
    BY <1>2, <2>1, BeginFrame DEF Unseal
  <2>2. CASE ~(Unseals(session_data[SessionOf[r]], password[r])
                 /\ session_data[SessionOf[r]].user)
    BY <1>2, <2>2 DEF Unseal
  <2> QED BY <2>1, <2>2
<1>3. CASE Answered(r)
  <2>1. session[r] # NoCookie
    BY <1>3 DEF Answered, LocalState
  <2> QED BY <1>3, <2>1, ConcludeFrame DEF Answered
<1>4. CASE Verify(r)
  BY <1>4 DEF Verify
<1>5. CASE CommitData(r)
  BY <1>5 DEF CommitData
<1>6. CASE CommitPassword(r)
  BY <1>6 DEF CommitPassword
<1> QED BY <1>1, <1>2, <1>3, <1>4, <1>5, <1>6 DEF RefreshStep

LEMMA AuthFrame ==
  ASSUME TypeOK, NEW a \in Auths, AuthStep(a)
  PROVE  /\ UNCHANGED <<session_data, cookie_password, password, live, key,
                        deliveries, verdict>>
         /\ \A i \in Invocations : i # a =>
              pc'[i] = pc[i] /\ session'[i] = session[i] /\ result'[i] = result[i]
BY DEF TypeOK, Invocations, AuthStep, AuthRead, AuthUnseal, AuthVerify, Finish,
       attributes, callVars

\* Exchange touches live and the deliveries of its refresh only.
LEMMA ExchangeFrame ==
  ASSUME TypeOK, CallsOK, LocalState, NEW r \in Refreshes, Exchange(r)
  PROVE  /\ UNCHANGED <<session_data, cookie_password, pc, password, session,
                        result, key, verdict>>
         /\ session[r] # NoCookie /\ session[r].token \in live
         /\ ~Post!Delivered(r)
         /\ \A q \in Refreshes : Post!Delivered(q)' <=> q = r \/ Post!Delivered(q)
         /\ live' \subseteq live \cup {r} /\ r \in live'
         /\ live \ {session[r].token} \subseteq live'
         /\ ~Grace => live' = (live \ {session[r].token}) \cup {r}
<1>1. key[r] = r
  BY DEF Exchange, LocalState
<1>2. PICK kept \in IF Grace THEN {{}, {session[r].token}} ELSE {{}} :
        live' = (live \ {session[r].token}) \cup kept \cup {r}
  BY DEF Exchange
<1> QED BY <1>1, <1>2, DeliverFrame DEF Exchange, attributes, locals
-----------------------------------------------------------------------------
LEMMA InitLocalState == Init => LocalState /\ SealedAlike /\ AccessKept
BY Distinct DEF Init, LocalState, SealedAlike, SealKeyStable, AccessKept, Post!Init, Invocations

LEMMA StepLocalState ==
  TypeOK /\ CallsOK /\ LocalState /\ SealedAlike /\ [Next]_vars => LocalState'
<1> SUFFICES ASSUME TypeOK, CallsOK, LocalState, SealedAlike, [Next]_vars
             PROVE  LocalState'
  OBVIOUS
<1> USE Distinct DEF Invocations
<1> DEFINE Ended(i) == pc[i] # "done" => result[i] = "None"
           Reading(a) == pc[a] = "unsealing" => session[a] # NoCookie
           Call(r) == /\ pc[r] \in {"idle", "unsealing"} => session[r] = NoCookie
                      /\ session[r] = NoCookie =>
                           key[r] = NoKey /\ deliveries[r] = {} /\ verdict[r] = "idle"
                      /\ session[r] # NoCookie => key[r] = r /\ verdict[r] # "idle"
                      /\ pc[r] \in {"calling", "verifying", "committing", "committed"} =>
                           session[r] # NoCookie /\ password[r] = CookieKey
<1>1. /\ \A i \in Invocations : Ended(i)
      /\ \A a \in Auths : Reading(a)
      /\ \A r \in Refreshes : Call(r)
  BY DEF LocalState
<1> SUFFICES /\ \A i \in Invocations : Ended(i)'
             /\ \A a \in Auths : Reading(a)'
             /\ \A r \in Refreshes : Call(r)'
  BY DEF LocalState
<1>2. ASSUME NEW r \in Refreshes, RefreshStep(r)
      PROVE  /\ \A i \in Invocations : Ended(i)'
             /\ \A a \in Auths : Reading(a)'
             /\ \A q \in Refreshes : Call(q)'
  <2>1. /\ \A i \in Invocations \ {r} : Ended(i)'
        /\ \A a \in Auths : Reading(a)'
        /\ \A q \in Refreshes \ {r} : Call(q)'
    BY <1>1, <1>2, RefreshFrame
  <2>2. Ended(r)' /\ Call(r)'
    <3> USE <1>1 DEF TypeOK, CallsOK, Finish, attributes, callVars
    <3>1. CASE ReadPassword(r)
      BY <3>1 DEF ReadPassword
    <3>2. CASE Unseal(r)
      <4>1. CASE Unseals(session_data[SessionOf[r]], password[r])
                   /\ session_data[SessionOf[r]].user
        <5>1. password[r] = CookieKey /\ session_data[SessionOf[r]] # NoCookie
          BY <4>1 DEF Unseals, SealedAlike, SealKeyStable
        <5> QED BY <3>2, <4>1, <5>1, BeginFrame DEF Unseal
      <4>2. CASE ~(Unseals(session_data[SessionOf[r]], password[r])
                     /\ session_data[SessionOf[r]].user)
        BY <3>2, <4>2 DEF Unseal
      <4> QED BY <4>1, <4>2
    <3>3. CASE Answered(r)
      <4>1. session[r] # NoCookie
        BY <3>3 DEF Answered, LocalState
      <4> QED BY <3>3, <4>1, ConcludeFrame DEF Answered
    <3>4. CASE Verify(r)
      BY <3>4 DEF Verify
    <3>5. CASE CommitData(r)
      BY <3>5 DEF CommitData
    <3>6. CASE CommitPassword(r)
      BY <3>6 DEF CommitPassword
    <3> QED BY <1>2, <3>1, <3>2, <3>3, <3>4, <3>5, <3>6 DEF RefreshStep
  <2> QED BY <2>1, <2>2
<1>3. ASSUME NEW r \in Refreshes, Exchange(r)
      PROVE  /\ \A i \in Invocations : Ended(i)'
             /\ \A a \in Auths : Reading(a)'
             /\ \A q \in Refreshes : Call(q)'
  BY <1>1, <1>3, ExchangeFrame DEF Post!Delivered
<1>4. ASSUME NEW a \in Auths, AuthStep(a)
      PROVE  /\ \A i \in Invocations : Ended(i)'
             /\ \A b \in Auths : Reading(b)'
             /\ \A q \in Refreshes : Call(q)'
  <2>1. Ended(a)' /\ Reading(a)'
    BY <1>1, <1>4 DEF AuthStep, AuthRead, AuthUnseal, AuthVerify, Finish, TypeOK
  <2> QED BY <1>1, <1>4, <2>1, AuthFrame
<1>5. CASE UNCHANGED vars
  BY <1>1, <1>5 DEF vars
<1> QED BY <1>2, <1>3, <1>4, <1>5 DEF Next

LEMMA StepSealedAlike ==
  TypeOK /\ CallsOK /\ LocalState /\ SealedAlike /\ [Next]_vars => SealedAlike'
<1> SUFFICES ASSUME TypeOK, CallsOK, LocalState, SealedAlike, [Next]_vars
             PROVE  SealedAlike'
  OBVIOUS
<1> USE Distinct DEF Invocations, SealedAlike, SealKeyStable, TypeOK
<1>1. ASSUME NEW r \in Refreshes, RefreshStep(r) PROVE SealedAlike'
  <2> USE DEF attributes
  <2>1. CASE ReadPassword(r)
    BY <2>1 DEF ReadPassword
  <2>2. CASE Unseal(r)
    BY <2>2 DEF Unseal, Unseals
  <2>3. CASE Answered(r)
    BY <2>3 DEF Answered
  <2>4. CASE Verify(r)
    BY <2>4 DEF Verify
  <2>5. CASE CommitData(r)
    BY <2>5 DEF CommitData, SealSession, LocalState
  <2>6. CASE CommitPassword(r)
    BY <2>6 DEF CommitPassword, LocalState
  <2> QED BY <1>1, <2>1, <2>2, <2>3, <2>4, <2>5, <2>6 DEF RefreshStep
<1>2. ASSUME NEW r \in Refreshes, Exchange(r) PROVE SealedAlike'
  BY <1>2 DEF Exchange, attributes, locals
<1>3. ASSUME NEW a \in Auths, AuthStep(a) PROVE SealedAlike'
  BY <1>3 DEF AuthStep, AuthRead, AuthUnseal, AuthVerify, attributes
<1>4. CASE UNCHANGED vars
  BY <1>4 DEF vars
<1> QED BY <1>1, <1>2, <1>3, <1>4 DEF Next

LEMMA StepAccessKept == TypeOK /\ AccessKept /\ [Next]_vars => AccessKept'
<1> SUFFICES ASSUME TypeOK, AccessKept, [Next]_vars PROVE AccessKept'
  OBVIOUS
<1> USE Distinct DEF Invocations, AccessKept, TypeOK
<1>1. ASSUME NEW r \in Refreshes, RefreshStep(r) PROVE AccessKept'
  <2> USE DEF attributes
  <2>1. CASE ReadPassword(r) \/ Answered(r) \/ Verify(r) \/ CommitPassword(r)
    BY <2>1 DEF ReadPassword, Answered, Verify, CommitPassword
  <2>2. CASE Unseal(r)
    BY <2>2 DEF Unseal, Unseals
  <2>3. CASE CommitData(r)
    BY <2>3 DEF CommitData, SealSession
  <2> QED BY <1>1, <2>1, <2>2, <2>3 DEF RefreshStep
<1>2. ASSUME NEW r \in Refreshes, Exchange(r) PROVE AccessKept'
  BY <1>2 DEF Exchange, attributes, locals
<1>3. ASSUME NEW a \in Auths, AuthStep(a) PROVE AccessKept'
  BY <1>3 DEF AuthStep, AuthRead, AuthUnseal, AuthVerify, attributes
<1>4. CASE UNCHANGED vars
  BY <1>4 DEF vars
<1> QED BY <1>1, <1>2, <1>3, <1>4 DEF Next
-----------------------------------------------------------------------------
\* What the steps of a refresh do to the tokens.
LEMMA CommitFrame ==
  ASSUME TypeOK, NEW r \in Refreshes, CommitData(r)
  PROVE  /\ \A s \in Sessions, t \in Tokens :
              Holds(s, t)' <=> IF s = SessionOf[r] THEN t = r ELSE Holds(s, t)
         /\ UNCHANGED <<session, result, live, deliveries>>
         /\ pc[r] = "committing" /\ pc'[r] = "committed"
         /\ \A i \in Invocations : i # r => pc'[i] = pc[i]
<1>1. SessionOf[r] \in Sessions /\ r \in Invocations
  BY Distinct DEF Invocations
<1>2. PICK user \in BOOLEAN :
        session_data' = [session_data EXCEPT ![SessionOf[r]] = SealSession(r, user)]
  BY DEF CommitData
<1>3. SealSession(r, user) \in Sealed /\ SealSession(r, user).token = r
  BY DEF SealSession, Sealed, Tokens, TypeOK
<1>4. SealSession(r, user) # NoCookie
  BY <1>3, Distinct
<1>5. /\ session_data'[SessionOf[r]] = SealSession(r, user)
      /\ \A s \in Sessions : s # SessionOf[r] => session_data'[s] = session_data[s]
  BY <1>1, <1>2 DEF TypeOK
<1> QED BY <1>1, <1>3, <1>4, <1>5 DEF CommitData, TypeOK, Holds, callVars

LEMMA UnsealFrame ==
  ASSUME TypeOK, NEW r \in Refreshes, Unseal(r)
  PROVE  /\ \/ session' = session
            \/ /\ session' = [session EXCEPT ![r] = session_data[SessionOf[r]]]
               /\ Holds(SessionOf[r], session'[r].token)
               /\ session[r] = NoCookie \/ pc[r] = "unsealing"
         /\ pc[r] = "unsealing" /\ pc'[r] \in {"calling", "done"}
         /\ pc'[r] = "calling" => session'[r] = session_data[SessionOf[r]]
                                    /\ Holds(SessionOf[r], session'[r].token)
         /\ UNCHANGED <<session_data, live>>
BY Distinct DEF Unseal, Unseals, Finish, TypeOK, Holds, Invocations, attributes

\* A refresh commits by CommitData only, and stays committed.
LEMMA CommittedFrame ==
  ASSUME TypeOK, CallsOK, LocalState, NEW r \in Refreshes, RefreshStep(r)
  PROVE  /\ \A q \in Refreshes : Committed(q) => Committed(q)'
         /\ \A q \in Refreshes : Committed(q)' => Committed(q) \/ (q = r /\ CommitData(r))
         /\ UNCHANGED session_data \/ CommitData(r)
         /\ UNCHANGED session \/ Unseal(r)
<1>1. \A q \in Refreshes : q # r => (Committed(q)' <=> Committed(q))
  BY RefreshFrame DEF Committed, Invocations
<1> USE Distinct DEF Committed, LocalState, TypeOK, Finish, Invocations, attributes
<1>2. CASE ReadPassword(r)
  BY <1>1, <1>2 DEF ReadPassword
<1>3. CASE Unseal(r)
  BY <1>1, <1>3 DEF Unseal
<1>4. CASE Answered(r)
  BY <1>1, <1>4 DEF Answered, RefusalReasons, NoAnswerReasons
<1>5. CASE Verify(r)
  BY <1>1, <1>5 DEF Verify
<1>6. CASE CommitData(r)
  BY <1>1, <1>6 DEF CommitData
<1>7. CASE CommitPassword(r)
  BY <1>1, <1>7 DEF CommitPassword
<1> QED BY <1>2, <1>3, <1>4, <1>5, <1>6, <1>7 DEF RefreshStep

LEMMA InitTokens == Init => Provenance /\ Replaced /\ Consumed /\ ExchangedOnce /\ Current
BY Distinct DEF Init, Provenance, Replaced, Consumed, ExchangedOnce, Current, Holds,
                Committed, Tokens, Invocations, Post!Init, Post!Delivered

LEMMA StepProvenance ==
  TypeOK /\ CallsOK /\ LocalState /\ Provenance /\ [Next]_vars => Provenance'
<1> SUFFICES ASSUME TypeOK, CallsOK, LocalState, Provenance, [Next]_vars
             PROVE  Provenance'
  OBVIOUS
<1>1. ASSUME NEW r \in Refreshes, RefreshStep(r) PROVE Provenance'
  <2>1. \A s \in Sessions, q \in Refreshes : Holds(s, q)' => Committed(q)' /\ SessionOf[q] = s
    <3>1. CASE UNCHANGED session_data
      BY <1>1, <3>1, CommittedFrame DEF Provenance, Holds
    <3>2. CASE CommitData(r)
      BY <1>1, <3>2, CommitFrame, CommittedFrame DEF Provenance, Committed, Tokens
    <3> QED BY <1>1, <3>1, <3>2, CommittedFrame
  <2>2. \A i \in Invocations, q \in Refreshes :
          session'[i] # NoCookie /\ session'[i].token = q => Committed(q)'
    <3>1. CASE UNCHANGED session
      BY <1>1, <3>1, CommittedFrame DEF Provenance
    <3>2. CASE Unseal(r)
      <4>1. \A i \in Invocations : \/ session'[i] = session[i]
                                    \/ Holds(SessionOf[r], session'[i].token)
        BY <3>2, UnsealFrame DEF TypeOK
      <4>2. SessionOf[r] \in Sessions
        BY Distinct DEF Invocations
      <4> QED BY <1>1, <4>1, <4>2, CommittedFrame DEF Provenance
    <3> QED BY <1>1, <3>1, <3>2, CommittedFrame
  <2>3. \A q \in Refreshes :
          pc'[q] \in {"verifying", "committing"} \/ Committed(q)' => Post!Delivered(q)'
    <3>1. \A q \in Refreshes : Post!Delivered(q)' <=> Post!Delivered(q)
      BY <1>1, RefreshFrame DEF Post!Delivered
    <3>2. pc'[r] \in {"verifying", "committing"} => Post!Delivered(r)
      <4> USE Distinct DEF TypeOK, Finish, Invocations
      <4>1. CASE ReadPassword(r)
        BY <4>1 DEF ReadPassword
      <4>2. CASE Unseal(r)
        BY <4>2, UnsealFrame
      <4>3. CASE Answered(r)
        <5>1. session[r] # NoCookie
          BY <4>3 DEF Answered, LocalState
        <5> QED BY <4>3, <5>1, ConcludeFrame DEF Answered
      <4>4. CASE Verify(r)
        BY <4>4 DEF Verify, Provenance
      <4>5. CASE CommitData(r)
        BY <4>5 DEF CommitData
      <4>6. CASE CommitPassword(r)
        BY <4>6 DEF CommitPassword
      <4> QED BY <1>1, <4>1, <4>2, <4>3, <4>4, <4>5, <4>6 DEF RefreshStep
    <3>3. CommitData(r) => Post!Delivered(r)
      BY DEF CommitData, Provenance
    <3> QED BY <1>1, <3>1, <3>2, <3>3, CommittedFrame, RefreshFrame DEF Provenance, Invocations
  <2> QED BY <2>1, <2>2, <2>3 DEF Provenance
<1>2. ASSUME NEW r \in Refreshes, Exchange(r) PROVE Provenance'
  BY <1>2, ExchangeFrame DEF Provenance, Holds, Committed
<1>3. ASSUME NEW a \in Auths, AuthStep(a) PROVE Provenance'
  <2>1. \A i \in Invocations : \/ session'[i] = session[i]
                                \/ /\ session'[i] = session_data[SessionOf[i]]
                                   /\ session_data[SessionOf[i]] # NoCookie
    BY <1>3 DEF AuthStep, AuthRead, AuthUnseal, AuthVerify, TypeOK, Invocations
  <2>2. \A r \in Refreshes : pc'[r] = pc[r] /\ result'[r] = result[r]
    BY <1>3, AuthFrame, Distinct DEF Invocations
  <2> QED BY <1>3, <2>1, <2>2, AuthFrame, Distinct
          DEF Provenance, Holds, Committed, Post!Delivered
<1>4. CASE UNCHANGED vars
  BY <1>4 DEF vars, Provenance, Holds, Committed, Post!Delivered
<1> QED BY <1>1, <1>2, <1>3, <1>4 DEF Next

LEMMA DeliveredSession ==
  ASSUME TypeOK, LocalState, NEW r \in Refreshes, Post!Delivered(r)
  PROVE  session[r] # NoCookie /\ session[r].token \in Tokens
                               /\ pc[r] \notin {"idle", "unsealing"}
<1>1. session[r] # NoCookie /\ r \in Invocations
  BY DEF LocalState, Post!Delivered, Invocations
<1>2. session[r] \in Sealed
  BY <1>1 DEF TypeOK
<1> QED BY <1>1, <1>2 DEF LocalState, Sealed

LEMMA NotCommitted ==
  ASSUME LocalState, NEW r \in Refreshes, pc[r] \notin {"committed", "done"}
  PROVE  ~Committed(r)
BY DEF LocalState, Committed, Invocations

\* The sessions of the refreshes that have been delivered do not change.
LEMMA SessionFrame ==
  ASSUME TypeOK, CallsOK, LocalState, [Next]_vars
  PROVE  \A r \in Refreshes : Post!Delivered(r) => session'[r] = session[r]
<1> SUFFICES ASSUME NEW q \in Refreshes, Post!Delivered(q) PROVE session'[q] = session[q]
  OBVIOUS
<1>1. ASSUME NEW r \in Refreshes, RefreshStep(r) PROVE session'[q] = session[q]
  <2>1. CASE q # r
    BY <1>1, <2>1, RefreshFrame DEF Invocations
  <2>2. CASE q = r
    BY <1>1, <2>2, DeliveredSession, CommittedFrame, UnsealFrame
  <2> QED BY <2>1, <2>2
<1>2. ASSUME NEW r \in Refreshes, Exchange(r) PROVE session'[q] = session[q]
  BY <1>2, ExchangeFrame
<1>3. ASSUME NEW a \in Auths, AuthStep(a) PROVE session'[q] = session[q]
  BY <1>3, AuthFrame, Distinct DEF Invocations
<1>4. CASE UNCHANGED vars
  BY <1>4 DEF vars
<1> QED BY <1>1, <1>2, <1>3, <1>4 DEF Next

LEMMA StepReplaced ==
  TypeOK /\ CallsOK /\ LocalState /\ Provenance /\ Replaced /\ [Next]_vars => Replaced'
<1> SUFFICES ASSUME TypeOK, CallsOK, LocalState, Provenance, Replaced, [Next]_vars,
                    NEW q \in Refreshes, Committed(q)'
             PROVE  ~Holds(SessionOf[q], session[q].token)'
  BY DEF Replaced
<1> USE Distinct DEF Invocations
<1>1. Committed(q) => /\ Post!Delivered(q)
                      /\ session'[q] = session[q]
                      /\ session[q] # NoCookie /\ session[q].token \in Tokens
                      /\ ~Holds(SessionOf[q], session[q].token)
  BY DeliveredSession, SessionFrame DEF Provenance, Replaced
<1>2. ASSUME NEW r \in Refreshes, RefreshStep(r)
      PROVE  ~Holds(SessionOf[q], session[q].token)'
  <2>1. CASE UNCHANGED session_data /\ ~CommitData(r)
    <3>1. Committed(q)
      BY <1>2, <2>1, CommittedFrame
    <3> QED BY <1>1, <2>1, <3>1 DEF Holds
  <2>2. CASE CommitData(r)
    <3>1. ~Committed(r) /\ Post!Delivered(r)
      BY <2>2, CommitFrame, NotCommitted DEF Provenance
    <3>2. /\ session[q] # NoCookie /\ session[q].token \in Tokens
          /\ session'[q] = session[q]
          /\ q # r => ~Holds(SessionOf[q], session[q].token)
      BY <1>1, <1>2, <2>2, <3>1, DeliveredSession, CommittedFrame, CommitFrame
    <3>3. session[q].token # r
      BY <3>1, <3>2 DEF Provenance
    <3>4. q = r \/ ~Holds(SessionOf[q], session[q].token)
      BY <3>2
    <3>5. \A s \in Sessions, t \in Tokens :
            Holds(s, t)' <=> IF s = SessionOf[r] THEN t = r ELSE Holds(s, t)
      BY <2>2, CommitFrame
    <3>6. SessionOf[q] \in Sessions
      OBVIOUS
    <3>7. ~(session_data'[SessionOf[q]] # NoCookie
              /\ session_data'[SessionOf[q]].token = session[q].token)
      BY <3>2, <3>3, <3>4, <3>5, <3>6 DEF Holds
    <3> QED BY <3>2, <3>7 DEF Holds
  <2> QED BY <1>2, <2>1, <2>2, CommittedFrame
<1>3. ASSUME NEW r \in Refreshes, Exchange(r)
      PROVE  ~Holds(SessionOf[q], session[q].token)'
  BY <1>1, <1>3, ExchangeFrame DEF Committed, Holds
<1>4. ASSUME NEW a \in Auths, AuthStep(a)
      PROVE  ~Holds(SessionOf[q], session[q].token)'
  BY <1>1, <1>4, AuthFrame DEF Committed, Holds
<1>5. CASE UNCHANGED vars
  BY <1>1, <1>5 DEF vars, Committed, Holds
<1> QED BY <1>2, <1>3, <1>4, <1>5 DEF Next

LEMMA StepConsumed ==
  TypeOK /\ CallsOK /\ LocalState /\ Consumed /\ [Next]_vars => Consumed'
<1> SUFFICES ASSUME TypeOK, CallsOK, LocalState, Consumed, [Next]_vars,
                    NEW t \in Tokens, t \notin live',
                    t \in Refreshes => Post!Delivered(t)'
             PROVE  \E r \in Refreshes : Post!Delivered(r)' /\ session'[r].token = t
  BY DEF Consumed
<1>1. ASSUME t \notin live, t \in Refreshes => Post!Delivered(t),
             \A r \in Refreshes : Post!Delivered(r) => Post!Delivered(r)'
      PROVE  \E r \in Refreshes : Post!Delivered(r)' /\ session'[r].token = t
  <2>1. PICK r \in Refreshes : Post!Delivered(r) /\ session[r].token = t
    BY <1>1 DEF Consumed
  <2> QED BY <1>1, <2>1, SessionFrame
<1>2. ASSUME NEW r \in Refreshes, Exchange(r)
      PROVE  \E q \in Refreshes : Post!Delivered(q)' /\ session'[q].token = t
  <2>1. CASE t \in live
    BY <1>2, <2>1, ExchangeFrame
  <2>2. CASE t \notin live
    <3>1. \A q \in Refreshes : Post!Delivered(q)' <=> q = r \/ Post!Delivered(q)
      BY <1>2, ExchangeFrame
    <3>2. r \in live'
      BY <1>2, ExchangeFrame
    <3> QED BY <1>1, <2>2, <3>1, <3>2
  <2> QED BY <2>1, <2>2
<1>3. CASE UNCHANGED <<live, deliveries>>
  BY <1>1, <1>3 DEF Post!Delivered
<1>4. ASSUME NEW r \in Refreshes, RefreshStep(r) PROVE UNCHANGED <<live, deliveries>>
  BY <1>4, RefreshFrame
<1>5. ASSUME NEW a \in Auths, AuthStep(a) PROVE UNCHANGED <<live, deliveries>>
  BY <1>5, AuthFrame
<1>6. CASE UNCHANGED vars
  BY <1>3, <1>6 DEF vars
<1> QED BY <1>2, <1>3, <1>4, <1>5, <1>6 DEF Next

LEMMA StepExchangedOnce ==
  TypeOK /\ CallsOK /\ LocalState /\ Provenance /\ ExchangedOnce /\ [Next]_vars
    => ExchangedOnce'
<1> SUFFICES ASSUME TypeOK, CallsOK, LocalState, Provenance, ExchangedOnce, [Next]_vars,
                    ~Grace,
                    NEW q \in Refreshes, Post!Delivered(q)',
                    NEW p \in Refreshes
             PROVE  /\ session'[q].token \notin live'
                    /\ Post!Delivered(p)' /\ session'[p].token = session'[q].token => p = q
  BY DEF ExchangedOnce
<1>1. ASSUME NEW r \in Refreshes, Exchange(r)
      PROVE  /\ session'[q].token \notin live'
             /\ Post!Delivered(p)' /\ session'[p].token = session'[q].token => p = q
  <2>1. ~Committed(r)
    BY <1>1, ExchangeFrame DEF Provenance
  <2>2. \A i \in Refreshes : session[i] # NoCookie => session[i].token # r
    BY <2>1 DEF Provenance, Invocations
  <2>3. \A i \in Refreshes : Post!Delivered(i) =>
          session[i] # NoCookie /\ session[i].token \notin live
    BY DeliveredSession DEF ExchangedOnce
  <2>4. /\ session' = session
        /\ session[r] # NoCookie /\ session[r].token \in live
        /\ live' = (live \ {session[r].token}) \cup {r}
        /\ \A i \in Refreshes : Post!Delivered(i)' <=> i = r \/ Post!Delivered(i)
    BY <1>1, ExchangeFrame
  <2>5. session'[q].token \notin live'
    BY <2>2, <2>3, <2>4
  <2>6. Post!Delivered(p)' /\ session'[p].token = session'[q].token => p = q
    BY <2>3, <2>4 DEF ExchangedOnce
  <2> QED BY <2>5, <2>6
<1>2. CASE UNCHANGED <<live, deliveries>>
  <2>1. \A i \in Refreshes : Post!Delivered(i)' => /\ Post!Delivered(i)
                                                 /\ session'[i] = session[i]
    BY <1>2, SessionFrame DEF Post!Delivered
  <2> QED BY <1>2, <2>1 DEF ExchangedOnce
<1>3. ASSUME NEW r \in Refreshes, RefreshStep(r) PROVE UNCHANGED <<live, deliveries>>
  BY <1>3, RefreshFrame
<1>4. ASSUME NEW a \in Auths, AuthStep(a) PROVE UNCHANGED <<live, deliveries>>
  BY <1>4, AuthFrame
<1>5. CASE UNCHANGED vars
  BY <1>2, <1>5 DEF vars
<1> QED BY <1>1, <1>2, <1>3, <1>4, <1>5 DEF Next

\* A refresh about to commit holds the token of its Session.
LEMMA CommitsCurrent ==
  ASSUME Provenance, Current, ~Grace, NEW r \in Refreshes, CommitData(r)
  PROVE  Post!Delivered(r) /\ Holds(SessionOf[r], session[r].token)
BY DEF CommitData, Provenance, Current

LEMMA StepCurrent ==
  TypeOK /\ CallsOK /\ LocalState /\ Provenance /\ ExchangedOnce /\ Current /\ [Next]_vars
    => Current'
<1> SUFFICES ASSUME TypeOK, CallsOK, LocalState, Provenance, ExchangedOnce, Current,
                    [Next]_vars, ~Grace,
                    NEW q \in Refreshes,
                    pc'[q] \in {"calling", "verifying", "committing"},
                    session'[q].token \in live' \/ Post!Delivered(q)'
             PROVE  Holds(SessionOf[q], session[q].token)'
  BY DEF Current
<1> USE Distinct DEF Invocations
<1>1. ASSUME pc'[q] = pc[q], session'[q] = session[q],
             UNCHANGED <<session_data, live, deliveries>>
      PROVE  Holds(SessionOf[q], session[q].token)'
  BY <1>1 DEF Current, Holds, Post!Delivered
<1>2. ASSUME NEW r \in Refreshes, RefreshStep(r)
      PROVE  Holds(SessionOf[q], session[q].token)'
  <2>1. UNCHANGED <<live, deliveries>>
    BY <1>2, RefreshFrame
  <2>2. CASE CommitData(r)
    <3>1. q # r /\ pc'[q] = pc[q] /\ session'[q] = session[q]
      BY <2>2, CommitFrame
    <3>2. Holds(SessionOf[q], session[q].token)
      BY <2>1, <3>1 DEF Current, Post!Delivered
    <3>3. SessionOf[q] # SessionOf[r]
      <4>1. Post!Delivered(r) /\ Holds(SessionOf[r], session[r].token)
        BY <2>2, CommitsCurrent
      <4>2. SUFFICES ASSUME SessionOf[q] = SessionOf[r] PROVE FALSE
        OBVIOUS
      <4>3. session[q].token = session[r].token
        BY <3>2, <4>1, <4>2 DEF Holds
      <4>4. ~Post!Delivered(q) /\ session[q].token \notin live
        BY <3>1, <4>1, <4>3 DEF ExchangedOnce
      <4> QED BY <2>1, <3>1, <4>4 DEF Post!Delivered
    <3>4. session_data'[SessionOf[q]] = session_data[SessionOf[q]]
      BY <2>2, <3>3 DEF CommitData, TypeOK
    <3> QED BY <3>1, <3>2, <3>4 DEF Holds
  <2>3. CASE UNCHANGED session_data /\ q # r
    BY <1>1, <1>2, <2>1, <2>3, RefreshFrame
  <2>4. CASE UNCHANGED session_data /\ q = r
    <3> USE DEF TypeOK, Finish, attributes
    <3>1. CASE ReadPassword(r)
      BY <2>4, <3>1 DEF ReadPassword
    <3>2. CASE Unseal(r)
      BY <2>4, <3>2, UnsealFrame DEF Holds
    <3>3. CASE Answered(r)
      BY <1>1, <2>1, <2>4, <3>3 DEF Answered, Current, Holds, Post!Delivered
    <3>4. CASE Verify(r)
      BY <1>1, <2>1, <2>4, <3>4 DEF Verify, Current, Holds, Post!Delivered
    <3>5. CASE CommitData(r)
      BY <2>2, <3>5
    <3>6. CASE CommitPassword(r)
      BY <2>4, <3>6 DEF CommitPassword
    <3> QED BY <1>2, <3>1, <3>2, <3>3, <3>4, <3>5, <3>6 DEF RefreshStep
  <2> QED BY <1>2, <2>2, <2>3, <2>4, CommittedFrame
<1>3. ASSUME NEW r \in Refreshes, Exchange(r)
      PROVE  Holds(SessionOf[q], session[q].token)'
  <2>1. /\ UNCHANGED <<session_data, pc, session>>
        /\ session[r].token \in live /\ live' \subseteq live \cup {r}
        /\ \A i \in Refreshes : Post!Delivered(i)' <=> i = r \/ Post!Delivered(i)
    BY <1>3, ExchangeFrame
  <2>2. session[q] # NoCookie /\ session[q].token # r
    BY <1>3, <2>1, ExchangeFrame DEF Provenance, LocalState
  <2>3. session[q].token \in live \/ Post!Delivered(q)
    BY <2>1, <2>2
  <2> QED BY <2>1, <2>3 DEF Current, Holds
<1>4. ASSUME NEW a \in Auths, AuthStep(a)
      PROVE  Holds(SessionOf[q], session[q].token)'
  BY <1>1, <1>4, AuthFrame
<1>5. CASE UNCHANGED vars
  BY <1>1, <1>5 DEF vars
<1> QED BY <1>2, <1>3, <1>4, <1>5 DEF Next
-----------------------------------------------------------------------------
\* The invariant holds in every reachable state: whoever refreshes or
\* authenticates what, cookies and tokens are where they belong.
THEOREM Invariance == Spec => []IInv
<1>1. Init => IInv
  BY InitTypeOK, InitLocalState, InitTokens DEF IInv
<1>2. IInv /\ [Next]_vars => IInv'
  BY StepTypeOK, StepLocalState, StepSealedAlike, StepAccessKept, StepProvenance, StepReplaced,
     StepConsumed, StepExchangedOnce, StepCurrent DEF IInv
<1> QED BY <1>1, <1>2, PTL DEF Spec

\* Every attribute, local and result of the sessions keeps its type.
THEOREM TypeCorrect == Spec => []TypeOK
<1>1. IInv => TypeOK
  BY DEF IInv
<1> QED BY <1>1, Invariance, PTL

\* The cookie keeps the key that sealed it first, and a Session's password is
\* that key or the one it was made with.
THEOREM SealKept == Spec => []SealKeyStable
<1>1. IInv => SealKeyStable
  BY DEF IInv, SealedAlike
<1> QED BY <1>1, Invariance, PTL

\* A failed refresh leaves no trace in any Session.
THEOREM FailuresHarmless == Spec => []FailureKeepsSession
<1>1. IInv => FailureKeepsSession
  <2> SUFFICES ASSUME IInv, NEW r \in Refreshes, result[r] \in RefreshFailures
               PROVE  ~Committed(r)
    BY DEF IInv, FailureKeepsSession, Provenance
  <2>1. result[r] \notin {"None", "AUTHENTICATED"}
    BY DEF RefreshFailures, RefusalReasons, NoAnswerReasons
  <2> QED BY <2>1 DEF IInv, LocalState, Committed, Invocations
<1> QED BY <1>1, Invariance, PTL

\* A used token is kept only by a refresh that runs, failed, or was another
\* Session's.
THEOREM StrandedByLossOnly == Spec => []StrandedOnlyByLoss
<1>1. IInv => StrandedOnlyByLoss
  <2> SUFFICES ASSUME IInv, NEW s \in Sessions, NEW t \in Tokens,
                      Holds(s, t), t \notin live
               PROVE  \E r \in Refreshes :
                        /\ Post!Delivered(r)
                        /\ session[r].token = t
                        /\ result[r] = "AUTHENTICATED" => SessionOf[r] # s
    BY DEF StrandedOnlyByLoss
  <2>1. t \in Refreshes => Post!Delivered(t)
    BY DEF IInv, Provenance
  <2>2. PICK r \in Refreshes : Post!Delivered(r) /\ session[r].token = t
    BY <2>1 DEF IInv, Consumed
  <2>3. result[r] = "AUTHENTICATED" => SessionOf[r] # s
    BY <2>2 DEF IInv, Replaced, Committed
  <2> QED BY <2>2, <2>3
<1> QED BY <1>1, Invariance, PTL

\* Where the API retires used tokens, no concurrent refresh is overwritten.
THEOREM NoUpdateLost == Spec => NoLostUpdate
<1>1. IInv /\ [Next]_vars =>
        [~Grace => \A r \in Refreshes :
           CommitData(r) => Holds(SessionOf[r], session[r].token)]_vars
  BY CommitsCurrent DEF IInv
<1> QED BY <1>1, Invariance, PTL DEF Spec, NoLostUpdate

\* No authenticate() of a Session made with the right password calls its cookie
\* invalid, whenever it reads the two attributes, but for a cookie that never held
\* an access token.
THEOREM NoTornCommit == Spec => []TornCommitHarmless
<1> DEFINE Excused(a) == \/ InitialPassword[SessionOf[a]] # CookieKey
                         \/ session[a].token = Original /\ ~session[a].access
<1>1. Init => TornCommitHarmless
  BY DEF Init, TornCommitHarmless, Invocations
<1>2. IInv /\ TornCommitHarmless /\ [Next]_vars => TornCommitHarmless'
  <2> SUFFICES ASSUME IInv, TornCommitHarmless, [Next]_vars,
                      NEW b \in Auths, result'[b] = "INVALID_SESSION_COOKIE"
               PROVE  Excused(b)'
    BY DEF TornCommitHarmless
  <2> USE Distinct DEF Invocations, IInv
  <2>1. CASE result'[b] = result[b] /\ session'[b] = session[b]
    BY <2>1 DEF TornCommitHarmless
  <2>2. ASSUME NEW a \in Auths, AuthStep(a) PROVE Excused(b)'
    <3>1. CASE a # b
      BY <2>1, <2>2, <3>1, AuthFrame
    <3>2. CASE AuthUnseal(b)
      <4>1. CASE Unseals(session[b], cookie_password[SessionOf[b]]) /\ session[b].access
        BY <2>1, <3>2, <4>1 DEF AuthUnseal
      <4>2. CASE ~Unseals(session[b], cookie_password[SessionOf[b]])
        BY <3>2, <4>2 DEF AuthUnseal, Unseals, LocalState, SealedAlike, SealKeyStable
      <4>3. CASE ~session[b].access
        BY <3>2, <4>3 DEF AuthUnseal, LocalState, AccessKept
      <4> QED BY <4>1, <4>2, <4>3
    <3>3. CASE AuthRead(b)
      <4>1. result'[b] \in {"None", "NO_SESSION_COOKIE_PROVIDED"}
        BY <3>3 DEF AuthRead, Finish, LocalState, TypeOK
      <4> QED BY <4>1
    <3>4. CASE AuthVerify(b)
      BY <3>4 DEF AuthVerify, Finish, TypeOK
    <3> QED BY <2>2, <3>1, <3>2, <3>3, <3>4 DEF AuthStep
  <2>3. ASSUME NEW r \in Refreshes, RefreshStep(r) \/ Exchange(r) PROVE Excused(b)'
    BY <2>1, <2>3, RefreshFrame, ExchangeFrame
  <2>4. CASE UNCHANGED vars
    BY <2>1, <2>4 DEF vars
  <2> QED BY <2>2, <2>3, <2>4 DEF Next
<1> QED BY <1>1, <1>2, Invariance, PTL DEF Spec
-----------------------------------------------------------------------------
\* Refreshes as callers see them: what a step does to tokens and outcomes.
LEMMA TokensHeld ==
  ASSUME TypeOK
  PROVE  /\ \A s \in Sessions, t \in Tokens : Holds(s, t) <=> TokenOf(session_data[s]) = t
         /\ \A i \in Invocations : session[i] # NoCookie <=> TokenOf(session[i]) # NoCookie
         /\ \A i \in Invocations : session[i] # NoCookie => session[i].token \in Tokens
<1>1. \A data \in Sealed : data # NoCookie /\ data.token \in Tokens /\ data.token # NoCookie
  BY Distinct DEF Sealed
<1>2. \A t \in Tokens : t # NoCookie
  BY Distinct
<1> QED BY <1>1, <1>2 DEF TypeOK, Holds, TokenOf

\* An outcome is decided once, by a step of the refresh itself.
LEMMA OutcomeFrame ==
  ASSUME TypeOK, CallsOK, LocalState, NEW r \in Refreshes, RefreshStep(r)
  PROVE  \A q \in Refreshes : q # r => Outcome(q)' = Outcome(q)
BY RefreshFrame DEF Outcome, Committed, Invocations

\* A refresh that reports a failure fails, whatever it held.
LEMMA FinishFails ==
  ASSUME IInv, NEW r \in Refreshes, RefreshStep(r), pc[r] # "done", ~Committed(r),
         NEW o \in RefreshFailures, Finish(r, o), UNCHANGED <<session_data, session>>
  PROVE  Atomic!Fail(r)
<1>1. o # "None" /\ o # "AUTHENTICATED"
  BY DEF RefreshFailures, RefusalReasons, NoAnswerReasons
<1>2. result[r] = "None" /\ result'[r] = o /\ pc'[r] = "done"
  BY DEF Finish, IInv, TypeOK, LocalState, Invocations
<1>3. Outcome(r) = "pending" /\ Outcome(r)' = "failed"
  BY <1>1, <1>2 DEF Outcome, Committed
<1>4. Outcomes' = [Outcomes EXCEPT ![r] = "failed"]
  BY <1>3, OutcomeFrame DEF Outcomes, IInv
<1> QED BY <1>3, <1>4 DEF Atomic!Fail, Outcomes, Held, Used

\* The step that stores the cookie replaces the token, of a Session that holds
\* the one the refresh took and that no other refresh has replaced.
LEMMA CommitReplaces ==
  ASSUME IInv, NEW r \in Refreshes, CommitData(r)
  PROVE  Atomic!Replace(r)
<1> USE DEF IInv
<1>1. /\ UNCHANGED <<session, result, live, deliveries>>
      /\ pc[r] = "committing" /\ pc'[r] = "committed"
  BY CommitFrame
<1>2. r \in Tokens /\ r # NoCookie /\ SessionOf[r] \in Sessions /\ r \in Invocations
  BY Distinct DEF Tokens, Invocations
<1>3. Outcome(r) = "pending" /\ Outcome(r)' = "replaced"
  BY <1>1, <1>2 DEF Outcome, Committed, LocalState
<1>4. Outcomes' = [Outcomes EXCEPT ![r] = "replaced"]
  <2>1. RefreshStep(r)
    BY DEF RefreshStep
  <2> QED BY <1>3, <2>1, OutcomeFrame DEF Outcomes
<1>5. Held' = [Held EXCEPT ![SessionOf[r]] = r]
  <2>1. PICK user \in BOOLEAN :
          session_data' = [session_data EXCEPT ![SessionOf[r]] = SealSession(r, user)]
    BY DEF CommitData
  <2>2. SealSession(r, user) \in Sealed /\ SealSession(r, user).token = r
    BY <1>2 DEF SealSession, Sealed, TypeOK
  <2>3. TokenOf(SealSession(r, user)) = r
    BY <2>2, Distinct DEF TokenOf
  <2>4. \A s \in Sessions : session_data'[s] = IF s = SessionOf[r] THEN SealSession(r, user)
                                                ELSE session_data[s]
    BY <2>1 DEF TypeOK
  <2> QED BY <1>2, <2>3, <2>4 DEF Held, TokenOf
<1>6. session[r] # NoCookie /\ Used[r] = session[r].token /\ Used[r] # NoCookie
  BY <1>1, <1>2, TokensHeld DEF LocalState, Used, TokenOf
<1>7. ASSUME ~Grace PROVE Held[SessionOf[r]] = Used[r]
  <2>1. Holds(SessionOf[r], session[r].token)
    BY <1>7, CommitsCurrent
  <2> QED BY <1>2, <1>6, <2>1, TokensHeld DEF Held
<1>8. ASSUME ~Grace, NEW q \in Refreshes, Outcomes[q] = "replaced" PROVE Used[q] # Used[r]
  <2>1. Committed(q) /\ q # r
    BY <1>3, <1>8 DEF Outcomes, Outcome
  <2>2. Post!Delivered(q) /\ Post!Delivered(r)
    BY <1>1, <2>1 DEF Provenance
  <2>3. session[q] # NoCookie
    BY <2>2 DEF LocalState, Post!Delivered
  <2>4. Used[q] = session[q].token
    BY <2>3 DEF Used, TokenOf
  <2> QED BY <1>6, <1>8, <2>1, <2>2, <2>4 DEF ExchangedOnce
<1> QED
  BY <1>1, <1>3, <1>4, <1>5, <1>6, <1>7, <1>8 DEF Atomic!Replace, Outcomes, Used

LEMMA RefreshSimulates ==
  ASSUME IInv, NEW r \in Refreshes, RefreshStep(r)
  PROVE  Atomic!Take(r) \/ Atomic!Replace(r) \/ Atomic!Fail(r)
           \/ UNCHANGED Atomic!refreshVars
<1> USE Distinct DEF IInv
<1>0. r \in Invocations /\ SessionOf[r] \in Sessions
  BY DEF Invocations
<1>1. ASSUME UNCHANGED <<session_data, session>>, Outcome(r)' = Outcome(r)
      PROVE  UNCHANGED Atomic!refreshVars
  BY <1>1, OutcomeFrame DEF Atomic!refreshVars, Held, Used, Outcomes
<1>2. CASE ReadPassword(r)
  <2>1. Outcome(r)' = Outcome(r) /\ UNCHANGED <<session_data, session>>
    BY <1>0, <1>2 DEF ReadPassword, Outcome, Committed, TypeOK, attributes
  <2> QED BY <1>1, <2>1
<1>3. CASE Unseal(r)
  <2> DEFINE data == session_data[SessionOf[r]]
  <2>1. pc[r] = "unsealing" /\ result[r] = "None" /\ session[r] = NoCookie
    BY <1>0, <1>3 DEF Unseal, LocalState
  <2>2. CASE Unseals(data, password[r]) /\ data.user
    <3>1. data # NoCookie /\ session' = [session EXCEPT ![r] = data] /\ pc'[r] = "calling"
          /\ UNCHANGED <<session_data, result>>
      BY <1>0, <1>3, <2>2 DEF Unseal, Unseals, TypeOK, attributes
    <3>2. Outcome(r) = "pending" /\ Outcome(r)' = "pending"
      BY <2>1, <3>1 DEF Outcome, Committed
    <3>3. Outcomes' = Outcomes /\ Held' = Held
      BY <3>1, <3>2, OutcomeFrame DEF Outcomes, Held
    <3>4. Used' = [Used EXCEPT ![r] = Held[SessionOf[r]]]
      <4>1. \A q \in Refreshes : session'[q] = IF q = r THEN data ELSE session[q]
        BY <1>0, <3>1 DEF TypeOK, Invocations
      <4>2. \A q \in Refreshes :
              TokenOf(session[q])' = IF q = r THEN TokenOf(data) ELSE TokenOf(session[q])
        BY <4>1 DEF TokenOf
      <4> QED BY <1>0, <4>2 DEF Used, Held
    <3>5. Used[r] = NoCookie /\ Held[SessionOf[r]] # NoCookie
      <4>1. data \in Sealed
        BY <1>0, <3>1 DEF TypeOK
      <4>2. data.token # NoCookie
        BY <4>1 DEF Sealed
      <4> QED BY <1>0, <2>1, <3>1, <4>2 DEF Used, Held, TokenOf
    <3> QED BY <3>2, <3>3, <3>4, <3>5 DEF Atomic!Take, Outcomes
  <2>3. CASE ~(Unseals(data, password[r]) /\ data.user)
    <3>1. Finish(r, "INVALID_SESSION_COOKIE") /\ UNCHANGED <<session_data, session>>
      BY <1>3, <2>3 DEF Unseal, attributes
    <3> QED BY <2>1, <3>1, FinishFails DEF Committed, RefreshFailures
  <2> QED BY <2>2, <2>3
<1>4. CASE Answered(r) \/ Verify(r)
  <2>1. /\ pc[r] \in {"calling", "verifying"} /\ result[r] = "None" /\ ~Committed(r)
        /\ UNCHANGED <<session_data, session>>
    BY <1>0, <1>4 DEF Answered, Verify, LocalState, Committed, attributes
  <2>2. CASE \E o \in RefreshFailures : Finish(r, o)
    BY <2>1, <2>2, FinishFails
  <2>3. CASE ~\E o \in RefreshFailures : Finish(r, o)
    <3>1. pc'[r] \in {"verifying", "committing"} /\ UNCHANGED result
      BY <1>0, <1>4, <2>3
         DEF Answered, Verify, TypeOK, RefreshFailures, RefusalReasons, NoAnswerReasons
    <3>2. Outcome(r)' = Outcome(r)
      BY <2>1, <3>1 DEF Outcome, Committed
    <3> QED BY <1>1, <2>1, <3>2
  <2> QED BY <2>2, <2>3
<1>5. CASE CommitData(r)
  BY <1>5, CommitReplaces
<1>6. CASE CommitPassword(r)
  <2>1. /\ UNCHANGED <<session_data, session>> /\ pc[r] = "committed"
        /\ result'[r] = "AUTHENTICATED"
    BY <1>0, <1>6 DEF CommitPassword, Finish, TypeOK
  <2> QED BY <1>1, <2>1 DEF Outcome, Committed
<1> QED BY <1>2, <1>3, <1>4, <1>5, <1>6 DEF RefreshStep

\* Concurrent refreshes of any Sessions replace tokens one at a time: what they
\* do in many steps each, they could have done in one.
THEOREM Refinement == Spec => RefreshesAtomic
<1>1. Init => Atomic!Init
  <2> SUFFICES ASSUME Init PROVE Atomic!Init
    OBVIOUS
  <2>1. PICK cookie \in {NoCookie} \cup [key : {CookieKey}, token : {Original},
                                         user : BOOLEAN, access : BOOLEAN] :
          session_data = [s \in Sessions |-> cookie]
    BY DEF Init
  <2>2. TokenOf(cookie) \in {Original, NoCookie}
    BY DEF TokenOf
  <2>3. Held = [s \in Sessions |-> TokenOf(cookie)]
    BY <2>1 DEF Held
  <2>4. Used = [r \in Refreshes |-> NoCookie]
    BY DEF Init, Used, TokenOf, Invocations
  <2>5. Outcomes = [r \in Refreshes |-> "pending"]
    BY DEF Init, Outcomes, Outcome, Committed, Invocations
  <2> QED BY <2>2, <2>3, <2>4, <2>5 DEF Atomic!Init
<1>2. IInv /\ [Next]_vars => [Atomic!Next]_(Atomic!refreshVars)
  <2> SUFFICES ASSUME IInv, [Next]_vars PROVE [Atomic!Next]_(Atomic!refreshVars)
    OBVIOUS
  <2>1. ASSUME NEW r \in Refreshes, RefreshStep(r)
        PROVE  [Atomic!Next]_(Atomic!refreshVars)
    BY <2>1, RefreshSimulates DEF Atomic!Next
  <2>2. ASSUME UNCHANGED session_data,
               \A r \in Refreshes :
                 pc'[r] = pc[r] /\ session'[r] = session[r] /\ result'[r] = result[r]
        PROVE  UNCHANGED Atomic!refreshVars
    BY <2>2 DEF Atomic!refreshVars, Held, Used, Outcomes, Outcome, Committed
  <2>3. ASSUME NEW r \in Refreshes, Exchange(r) PROVE UNCHANGED Atomic!refreshVars
    BY <2>2, <2>3, ExchangeFrame DEF IInv
  <2>4. ASSUME NEW a \in Auths, AuthStep(a) PROVE UNCHANGED Atomic!refreshVars
    BY <2>2, <2>4, AuthFrame, Distinct DEF IInv, Invocations
  <2>5. CASE UNCHANGED vars
    BY <2>2, <2>5 DEF vars
  <2> QED BY <2>1, <2>3, <2>4, <2>5 DEF Next
<1> QED BY Invariance, <1>1, <1>2, PTL DEF Spec, RefreshesAtomic, Atomic!Spec
-----------------------------------------------------------------------------
(***************************************************************************)
(* What AtomicRefresh promises, whatever implements it, and what follows    *)
(* for the Sessions that do.                                               *)
(***************************************************************************)
LEMMA InitDescent == Atomic!Init => Atomic!Descent
<1> SUFFICES ASSUME Atomic!Init PROVE Atomic!Descent
  OBVIOUS
<1>1. PICK token \in {Original, NoCookie} : Held = [s \in Sessions |-> token]
  BY DEF Atomic!Init
<1>2. \A s \in Sessions : Held[s] = token /\ token \notin Refreshes
  BY <1>1, Distinct DEF Tokens
<1>3. \A r \in Refreshes : Outcomes[r] = "pending"
  BY DEF Atomic!Init
<1> QED BY <1>1, <1>2, <1>3 DEF Atomic!Descent, Outcomes, Held

\* The first refresh of a Session replaces the original token, for good and for
\* all Sessions.
LEMMA ReplaceDescent ==
  ASSUME Atomic!Descent, NEW r \in Refreshes, Atomic!Replace(r)
  PROVE  Atomic!Descent'
<1> DEFINE s0 == SessionOf[r]
<1>1. /\ Held' = [Held EXCEPT ![s0] = r] /\ Used' = Used
      /\ Outcomes' = [Outcomes EXCEPT ![r] = "replaced"]
      /\ Used[r] # NoCookie /\ Outcomes[r] = "pending"
  BY DEF Atomic!Replace
<1>2. s0 \in Sessions
  BY Distinct DEF Invocations
<1>3. /\ \A s \in Sessions : Held'[s] = IF s = s0 THEN r ELSE Held[s]
      /\ \A q \in Refreshes : Outcomes'[q] = IF q = r THEN "replaced" ELSE Outcomes[q]
  BY <1>1, <1>2 DEF Atomic!Descent
<1>4. /\ \A s \in Sessions : Held'[s] \in Refreshes \cup {Original, NoCookie}
      /\ Held' = [s \in Sessions |-> Held'[s]]
      /\ Outcomes' = [q \in Refreshes |-> Outcomes'[q]]
  BY <1>1, <1>3 DEF Atomic!Descent
<1>5. ASSUME ~Grace, NEW p \in Refreshes, NEW q \in Refreshes,
             Outcomes'[p] = "replaced", Outcomes'[q] = "replaced", Used'[p] = Used'[q]
      PROVE  p = q
  <2>1. \A x \in Refreshes : Outcomes[x] = "replaced" => Used[x] # Used[r]
    BY <1>5 DEF Atomic!Replace
  <2> QED BY <1>1, <1>3, <1>5, <2>1 DEF Atomic!Descent
<1>6. ASSUME ~Grace, NEW s \in Sessions, Held'[s] \in Refreshes
      PROVE  \E q \in Refreshes :
               SessionOf[q] = s /\ Outcomes'[q] = "replaced" /\ Used'[q] = Original
  <2>1. CASE Held[s] \in Refreshes
    BY <1>1, <1>3, <1>6, <2>1 DEF Atomic!Descent
  <2>2. CASE Held[s] \notin Refreshes
    <3>1. s = s0 /\ Held[s0] = Used[r]
      BY <1>3, <1>6, <2>2 DEF Atomic!Replace
    <3>2. Used[r] = Original
      BY <1>1, <1>2, <2>2, <3>1 DEF Atomic!Descent
    <3> QED BY <1>1, <1>3, <3>1, <3>2
  <2> QED BY <2>1, <2>2
<1> QED
  BY <1>4, <1>5, <1>6 DEF Atomic!Descent

LEMMA StepDescent == Atomic!Descent /\ [Atomic!Next]_(Atomic!refreshVars) => Atomic!Descent'
<1> SUFFICES ASSUME Atomic!Descent, [Atomic!Next]_(Atomic!refreshVars) PROVE Atomic!Descent'
  OBVIOUS
<1>1. ASSUME NEW r \in Refreshes, Atomic!Replace(r) PROVE Atomic!Descent'
  BY <1>1, ReplaceDescent
<1>2. ASSUME NEW r \in Refreshes, Atomic!Take(r) PROVE Atomic!Descent'
  <2>1. /\ UNCHANGED <<Held, Outcomes>> /\ Outcomes[r] = "pending"
        /\ \A q \in Refreshes : q # r => Used'[q] = Used[q]
    BY <1>2 DEF Atomic!Take, Used
  <2> QED BY <2>1 DEF Atomic!Descent
<1>3. ASSUME NEW r \in Refreshes, Atomic!Fail(r) PROVE Atomic!Descent'
  <2>1. /\ UNCHANGED <<Held, Used>> /\ Outcomes[r] = "pending"
        /\ Outcomes' = [Outcomes EXCEPT ![r] = "failed"]
    BY <1>3 DEF Atomic!Fail
  <2>2. \A q \in Refreshes : Outcomes'[q] = IF q = r THEN "failed" ELSE Outcomes[q]
    BY <2>1 DEF Atomic!Descent
  <2>3. Outcomes' = [q \in Refreshes |-> Outcomes'[q]]
    BY <2>1 DEF Atomic!Descent
  <2> QED BY <2>1, <2>2, <2>3 DEF Atomic!Descent
<1>4. CASE UNCHANGED Atomic!refreshVars
  BY <1>4 DEF Atomic!refreshVars, Atomic!Descent
<1> QED BY <1>1, <1>2, <1>3, <1>4 DEF Atomic!Next

\* Any system that refreshes atomically lets one Session at most go on.
THEOREM AtomicOneGoesOn == RefreshesAtomic => []Atomic!OneGoesOn
<1>1. Atomic!Descent => Atomic!OneGoesOn
  BY DEF Atomic!Descent, Atomic!OneGoesOn
<1> QED BY InitDescent, StepDescent, <1>1, PTL DEF RefreshesAtomic, Atomic!Spec

\* Of the Sessions made from one cookie, in as many processes as load it, one at
\* most is ever refreshed: the others cannot be, however often they try.
THEOREM OneLineage == Spec => []OneSessionGoesOn
<1>1. TypeOK /\ Atomic!OneGoesOn => OneSessionGoesOn
  <2> SUFFICES ASSUME TypeOK, Atomic!OneGoesOn, ~Grace,
                      NEW s \in Sessions, NEW t \in Sessions,
                      NEW q \in Refreshes, NEW r \in Refreshes, Holds(s, q), Holds(t, r)
               PROVE  s = t
    BY DEF OneSessionGoesOn
  <2>1. Held[s] = q /\ Held[t] = r
    BY DEF Held, TokenOf, Holds
  <2> QED BY <2>1 DEF Atomic!OneGoesOn
<1> QED BY TypeCorrect, Refinement, AtomicOneGoesOn, <1>1, PTL
=============================================================================
