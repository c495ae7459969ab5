--------------------------- MODULE VaultStore_proofs ---------------------------
(***************************************************************************)
(* Proofs about VaultStore, for any number of writers, any retry budgets    *)
(* and any order in which their attempts are served: the inductive          *)
(* invariant IInv, what follows from it, that a version check acts as an    *)
(* idempotency key, and that the object is written as if at once.           *)
(***************************************************************************)
EXTENDS VaultStore, HttpCall_proofs

-----------------------------------------------------------------------------
LEMMA WritesType ==
  /\ Writes \subseteq Request
  /\ \A m \in Writes : m.call \in Calls /\ m.attempt \in 0..ResolveMaxRetries(m.call)
                       /\ m.key = NoKey
BY RetriesType DEF Writes, Request, Keys

LEMMA VersionsDistinct == NoCheck \notin Versions /\ Deleted \notin Versions \cup {NoCheck}
BY VaultAssumption DEF VaultAssumption

\* A write has no key.
LEMMA NoKeyBuilt ==
  ASSUME HttpTypeOK, \A d \in Calls : key[d] = NoKey, NEW c \in Calls, CallStep(c)
  PROVE  \A d \in Calls : key'[d] = NoKey
<1>1. CASE Start(c)
  <2>1. PICK arg \in KeyArguments, option \in KeyArguments, extra \in KeyArguments :
          key' = [key EXCEPT ![c] = BuildHeaders(c, method[c], arg, option, extra)]
    BY <1>1 DEF Start
  <2>2. arg = NoKey /\ option = NoKey /\ extra = NoKey /\ method[c] # "post"
    BY VaultAssumption DEF VaultAssumption, HttpTypeOK
  <2>3. BuildHeaders(c, method[c], arg, option, extra) = NoKey
    BY <2>2 DEF BuildHeaders, FreshKey
  <2> QED BY <2>1, <2>3 DEF HttpTypeOK
<1>2. CASE ~Start(c)
  BY <1>2 DEF CallStep, Send, ConnectError, Timeout, NetworkError, AttemptFails,
              Drip, Receive, Wake, Cancel
<1> QED BY <1>1, <1>2

\* Steps of the client either read the object or run the loop.
LEMMA ClientSteps ==
  ASSUME NEW c \in Calls, GetKv(c) \/ UpdateKv(c) \/ DeleteKv(c) \/ LoopStep(c)
  PROVE  GetKv(c) \/ (CallStep(c) /\ UNCHANGED vaultVars)
BY DEF UpdateKv, DeleteKv, LoopStep, CallStep

Serve(m, s) == ServeApply(m, s) \/ ServeRefuse(m, s) \/ GatewayFails(m, s)

LEMMA ServeFrame ==
  ASSUME NEW m \in wire, NEW s \in Statuses, Serve(m, s)
  PROVE  /\ UNCHANGED <<pc, method, key, attempt, outcome, status>>
         /\ UNCHANGED check
         /\ wire' \subseteq wire
         /\ Answer(m, s)
         /\ UNCHANGED <<current, effects>> \/ ServeApply(m, s)
BY DEF Serve, ServeApply, ServeRefuse, GatewayFails, apiUnchanged
-----------------------------------------------------------------------------
LEMMA StepTypeOK == IInv /\ [Next]_vars => TypeOK'
<1> SUFFICES ASSUME IInv, [Next]_vars PROVE TypeOK'
  OBVIOUS
<1> USE DEF IInv, TypeOK
<1>1. ASSUME NEW c \in Calls, GetKv(c) PROVE TypeOK'
  BY <1>1 DEF GetKv, httpVars, HttpTypeOK
<1>2. ASSUME NEW c \in Calls, CallStep(c), UNCHANGED vaultVars PROVE TypeOK'
  BY <1>2, CallStepType DEF vaultVars
<1>3. ASSUME NEW m \in wire, NEW s \in Statuses, Serve(m, s) PROVE TypeOK'
  <2>1. HttpTypeOK' /\ UNCHANGED check
    BY <1>3, ServeFrame, AnswerFrame DEF HttpTypeOK
  <2>2. CASE UNCHANGED <<current, effects>>
    BY <2>1, <2>2
  <2>3. CASE ServeApply(m, s)
    <3>1. m \in Writes
      BY DEF WritesOwned
    <3>2. current' \in Versions \cup {Deleted}
      BY <2>3, <3>1 DEF ServeApply, Versions
    <3>3. effects' \subseteq Effect
      BY <2>3, <3>1 DEF ServeApply, Effect
    <3> QED BY <2>1, <3>2, <3>3
  <2> QED BY <1>3, <2>2, <2>3, ServeFrame
<1>4. CASE UNCHANGED vars
  BY <1>4 DEF vars, HttpTypeOK
<1> QED BY <1>1, <1>2, <1>3, <1>4, ClientSteps DEF Next, ApiStep, Serve

LEMMA StepLoopState == IInv /\ [Next]_vars => LoopState' /\ BudgetUsed'
<1> SUFFICES ASSUME IInv, [Next]_vars PROVE LoopState' /\ BudgetUsed'
  OBVIOUS
<1> USE DEF IInv, TypeOK
<1>1. ASSUME NEW c \in Calls, GetKv(c) PROVE LoopState' /\ BudgetUsed'
  BY <1>1 DEF GetKv, httpVars, LoopState, BudgetUsed, MayRetry
<1>2. ASSUME NEW c \in Calls, CallStep(c) PROVE LoopState' /\ BudgetUsed'
  BY <1>2, CallLoopState
<1>3. ASSUME NEW m \in wire, NEW s \in Statuses, Serve(m, s) PROVE LoopState' /\ BudgetUsed'
  BY <1>3, ServeFrame, AnswerLoopState
<1>4. CASE UNCHANGED vars
  BY <1>4 DEF vars, LoopState, BudgetUsed, MayRetry
<1> QED BY <1>1, <1>2, <1>3, <1>4, ClientSteps DEF Next, ApiStep, Serve
-----------------------------------------------------------------------------
LEMMA StepWritesOwned == IInv /\ [Next]_vars => WritesOwned'
<1> SUFFICES ASSUME IInv, [Next]_vars PROVE WritesOwned'
  OBVIOUS
<1>1. /\ HttpTypeOK /\ LoopState /\ effects \subseteq Effect
      /\ \A c \in Calls : key[c] = NoKey
      /\ wire \subseteq Writes
      /\ \A m \in wire : Owned(m)
  BY DEF IInv, TypeOK, WritesOwned
<1>2. \A e \in effects : /\ e.request \in Writes /\ e.request \in Request
                         /\ e.request.call \in Calls
                         /\ Owned(e.request) /\ e.request \notin wire
                         /\ Checked(e.request.call) => e.over = check[e.request.call]
  BY <1>1, WritesType DEF IInv, WritesOwned, Effect
<1>3. ASSUME NEW c \in Calls, GetKv(c) PROVE WritesOwned'
  <2>1. \A e \in effects : e.request.call # c
    BY <1>2, <1>3 DEF GetKv, Owned, Started
  <2>2. \A e \in effects : check'[e.request.call] = check[e.request.call]
    BY <1>2, <1>3, <2>1 DEF GetKv, IInv, TypeOK
  <2>3. UNCHANGED <<wire, effects, pc, key, attempt>>
    BY <1>3 DEF GetKv, httpVars
  <2> QED BY <1>1, <1>2, <2>2, <2>3, AnswerOwned DEF WritesOwned, Checked
<1>4. ASSUME NEW c \in Calls, CallStep(c), UNCHANGED vaultVars PROVE WritesOwned'
  <2>1. \A d \in Calls : key'[d] = NoKey
    BY <1>1, <1>4, NoKeyBuilt
  <2>2. ASSUME NEW m \in wire', m \notin wire
        PROVE  m \in Writes /\ Owned(m)' /\ \A e \in effects : e.request # m
    <3>1. m = AttemptRequest(c) /\ pc[c] = "ready" /\ Owned(m)'
      BY <1>1, <1>4, <2>2, SentOwned
    <3>2. attempt[c] \in 0..ResolveMaxRetries(c)
      BY <1>1, <3>1, RetriesType DEF LoopState, HttpTypeOK
    <3>3. m \in Writes
      BY <1>1, <3>1, <3>2 DEF AttemptRequest, Writes
    <3>4. ~Owned(m)
      BY <3>1 DEF Owned, AttemptRequest
    <3> QED BY <1>2, <3>1, <3>3, <3>4
  <2>3. \A m \in wire : Owned(m)'
    BY <1>1, <1>4, CallOwned, WritesType
  <2>4. \A e \in effects : Owned(e.request)' /\ e.request \notin wire'
    BY <1>1, <1>2, <1>4, <2>2, CallOwned
  <2> QED BY <1>1, <1>2, <1>4, <2>1, <2>2, <2>3, <2>4 DEF vaultVars, WritesOwned, Checked
<1>5. ASSUME NEW m \in wire, NEW s \in Statuses, Serve(m, s) PROVE WritesOwned'
  <2>1. /\ UNCHANGED <<pc, key, attempt, check>> /\ wire' \subseteq wire
        /\ \A n \in Request : Owned(n) => Owned(n)'
    BY <1>5, ServeFrame, AnswerOwned
  <2>2. CASE UNCHANGED effects
    BY <1>1, <1>2, <2>1, <2>2, WritesType DEF WritesOwned, Checked
  <2>3. CASE ServeApply(m, s)
    <3> DEFINE new == [request |-> m, over |-> current]
    <3>1. effects' = effects \cup {new} /\ wire' = wire \ {m} /\ Passes(m)
      BY <2>3 DEF ServeApply
    <3>2. Checked(m.call) => new.over = check[m.call]
      BY <3>1 DEF Passes, VersionCheck, Checked
    <3>3. m \in Request /\ Owned(m)
      BY <1>1, WritesType
    <3> QED BY <1>1, <1>2, <2>1, <3>1, <3>2, <3>3, WritesType DEF WritesOwned, Checked
  <2> QED BY <1>5, <2>2, <2>3, ServeFrame
<1>6. CASE UNCHANGED vars
  BY <1>1, <1>2, <1>6, AnswerOwned DEF vars, WritesOwned, Checked
<1> QED BY <1>3, <1>4, <1>5, <1>6, ClientSteps DEF Next, ApiStep, Serve

LEMMA StepChain == IInv /\ [Next]_vars => Chain'
<1> SUFFICES ASSUME IInv, [Next]_vars PROVE Chain'
  OBVIOUS
<1>1. CASE UNCHANGED <<current, effects>>
  BY <1>1 DEF IInv, Chain
<1>2. ASSUME NEW m \in wire, NEW s \in Statuses, ServeApply(m, s) PROVE Chain'
  <2> DEFINE new == [request |-> m, over |-> current]
  <2>1. /\ effects' = effects \cup {new} /\ current # Deleted
        /\ current' \in {m, Deleted}
    BY <1>2 DEF ServeApply
  <2>2. m \in Writes /\ \A e \in effects : e.request # m
    BY DEF IInv, WritesOwned
  <2>3. \A e \in effects : e.over # m /\ e.over # Deleted
    BY <2>2, VersionsDistinct DEF IInv, Chain, TypeOK, Effect
  <2>4. current # m
    BY <2>2 DEF IInv, Chain
  <2>5. \A e \in effects' : e.over # current'
    BY <2>1, <2>3, <2>4
  <2>6. \A e, f \in effects' : e.over = f.over \/ e.request = f.request => e = f
    BY <2>1, <2>2 DEF IInv, Chain
  <2>7. \A v \in {current'} \cup {e.over : e \in effects'} :
          v \in Writes => \E e \in effects' : e.request = v
    <3>1. Deleted \notin Writes
      BY VersionsDistinct DEF Versions
    <3>2. \A v \in {current} \cup {e.over : e \in effects} :
            v \in Writes => \E e \in effects : e.request = v
      BY DEF IInv, Chain
    <3>3. new \in effects' /\ new.request = m /\ new.over = current /\ effects \subseteq effects'
      BY <2>1
    <3>4. \A e \in effects' : e.over \in {current} \cup {f.over : f \in effects}
      BY <2>1
    <3>5. \A v \in {current} \cup {f.over : f \in effects} :
            v \in Writes => \E e \in effects' : e.request = v
      BY <3>2, <3>3
    <3>6. current' \in Writes => \E e \in effects' : e.request = current'
      BY <2>1, <3>1, <3>3
    <3> HIDE DEF new
    <3> QED BY <3>4, <3>5, <3>6
  <2> QED BY <2>5, <2>6, <2>7 DEF Chain
<1> QED BY <1>1, <1>2, ServeFrame, ClientSteps
        DEF Next, ApiStep, Serve, GetKv, vaultVars, vars

LEMMA StepChecksReal == IInv /\ [Next]_vars => ChecksReal'
<1> SUFFICES ASSUME IInv, [Next]_vars PROVE ChecksReal'
  OBVIOUS
<1>1. ASSUME NEW c \in Calls, GetKv(c) PROVE ChecksReal'
  BY <1>1 DEF GetKv, IInv, TypeOK, ChecksReal
<1>2. CASE UNCHANGED vaultVars
  BY <1>2 DEF vaultVars, IInv, ChecksReal
<1>3. ASSUME NEW m \in wire, NEW s \in Statuses, ServeApply(m, s) PROVE ChecksReal'
  <2>1. effects' = effects \cup {[request |-> m, over |-> current]} /\ UNCHANGED check
    BY <1>3 DEF ServeApply, apiUnchanged
  <2> QED BY <2>1 DEF IInv, ChecksReal
<1> QED BY <1>1, <1>2, <1>3, ServeFrame, ClientSteps
        DEF Next, ApiStep, Serve, vaultVars, vars
-----------------------------------------------------------------------------
\* What a call has been told stays true, and every answer is true.
LEMMA StepAnswersTrue == IInv /\ [Next]_vars => AnswersTrue'
<1> DEFINE A(d) ==
      /\ ResultKnown(d) => \E e \in effects : e.request = AttemptRequest(d)
      /\ StatusKnown(d, 409) => Checked(d) /\ check[d] # current
                                 /\ \E e \in effects : e.over = check[d]
      /\ StatusKnown(d, 404) => current = Deleted
<1> SUFFICES ASSUME IInv, [Next]_vars, NEW d \in Calls PROVE A(d)'
  BY DEF AnswersTrue
<1>1. A(d) /\ HttpTypeOK /\ LoopState
  BY DEF IInv, AnswersTrue, TypeOK
<1>2. ASSUME NEW c \in Calls, GetKv(c) PROVE A(d)'
  <2>1. UNCHANGED httpVars /\ UNCHANGED <<current, effects>> /\ pc[c] = "idle"
    BY <1>2 DEF GetKv
  <2>2. UNCHANGED <<ResultKnown(d), StatusKnown(d, 409), StatusKnown(d, 404), AttemptRequest(d)>>
    BY <2>1 DEF httpVars, ResultKnown, StatusKnown, Succeeded, AttemptRequest
  <2>3. CASE d = c
    <3>1. outcome[d] = "None" /\ status[d] = 0 /\ reply[d] = NoReply
      BY <2>1, <2>3, <1>1 DEF LoopState
    <3>2. ~ResultKnown(d) /\ ~StatusKnown(d, 409) /\ ~StatusKnown(d, 404)
      BY <3>1, StatusType DEF ResultKnown, StatusKnown, Succeeded
    <3> QED BY <2>2, <3>2
  <2>4. CASE d # c
    <3>1. check'[d] = check[d]
      BY <1>2, <2>4 DEF GetKv, IInv, TypeOK
    <3> QED BY <1>1, <2>1, <2>2, <3>1 DEF Checked
  <2> QED BY <2>3, <2>4
<1>3. ASSUME NEW c \in Calls, CallStep(c), UNCHANGED vaultVars PROVE A(d)'
  <2>1. /\ ResultKnown(d)' => ResultKnown(d) /\ UNCHANGED AttemptRequest(d)
        /\ StatusKnown(d, 409)' => StatusKnown(d, 409)
        /\ StatusKnown(d, 404)' => StatusKnown(d, 404)
    BY <1>1, <1>3, CallLearns
  <2> QED BY <1>1, <1>3, <2>1 DEF vaultVars, Checked
<1>4. ASSUME NEW m \in wire, NEW s \in Statuses, Serve(m, s) PROVE A(d)'
  <2>1. /\ UNCHANGED AttemptRequest(d)
        /\ \/ /\ ResultKnown(d)' => ResultKnown(d)
              /\ StatusKnown(d, 409)' => StatusKnown(d, 409)
              /\ StatusKnown(d, 404)' => StatusKnown(d, 404)
           \/ /\ m = AttemptRequest(d)
              /\ ResultKnown(d)' => s < 400
              /\ StatusKnown(d, 409)' => s = 409
              /\ StatusKnown(d, 404)' => s = 404
    <3>1. Owned(m) /\ Answer(m, s) /\ UNCHANGED <<pc, method, key, attempt, outcome, status>>
      BY <1>4, ServeFrame DEF IInv, WritesOwned
    <3> QED BY <1>1, <3>1, AnswerTells
  <2>2. /\ UNCHANGED check /\ effects \subseteq effects'
        /\ current = Deleted => current' = Deleted
    BY <1>4, ServeFrame DEF ServeApply
  <2>3. \A e \in effects : e.over # current'
    BY <2>2, StepChain DEF Chain
  <2>4. s \in Nat
    BY StatusType
  <2>5. ResultKnown(d)' => \E e \in effects' : e.request = AttemptRequest(d)'
    <3>1. CASE ResultKnown(d)
      BY <1>1, <2>1, <2>2, <3>1
    <3>2. CASE m = AttemptRequest(d) /\ s < 400
      <4>1. ServeApply(m, s)
        BY <1>4, <2>4, <3>2 DEF Serve, ServeRefuse, Refusal, GatewayFails
      <4>2. [request |-> m, over |-> current] \in effects'
        BY <4>1 DEF ServeApply
      <4> QED BY <2>1, <3>2, <4>2
    <3> QED BY <2>1, <3>1, <3>2
  <2>6. StatusKnown(d, 409)' => /\ Checked(d)' /\ (check[d] # current)'
                               /\ \E e \in effects' : e.over = check'[d]
    <3>1. CASE StatusKnown(d, 409)
      BY <1>1, <2>2, <2>3, <3>1 DEF Checked
    <3>2. CASE m = AttemptRequest(d) /\ s = 409
      <4>1. ServeRefuse(m, s) /\ current # Deleted /\ ~Passes(m)
        BY <1>4, <2>4, <3>2 DEF Serve, ServeApply, ServeRefuse, Refusal, GatewayFails
      <4>2. check[d] \notin {NoCheck, current}
        BY <3>2, <4>1 DEF Passes, VersionCheck, AttemptRequest
      <4>3. \E e \in effects : e.over = check[d]
        BY <4>2 DEF IInv, ChecksReal
      <4> QED BY <2>2, <4>1, <4>2, <4>3 DEF ServeRefuse, Checked
    <3> QED BY <2>1, <3>1, <3>2
  <2>7. StatusKnown(d, 404)' => current' = Deleted
    <3>1. CASE StatusKnown(d, 404)
      BY <1>1, <2>2, <3>1
    <3>2. CASE m = AttemptRequest(d) /\ s = 404
      BY <1>4, <2>2, <2>4, <3>2 DEF Serve, ServeApply, ServeRefuse, Refusal, GatewayFails
    <3> QED BY <2>1, <3>1, <3>2
  <2> QED BY <2>5, <2>6, <2>7
<1>5. ASSUME UNCHANGED vars PROVE A(d)'
  BY <1>1, <1>5 DEF vars, ResultKnown, StatusKnown, Succeeded, AttemptRequest, Checked
<1> HIDE DEF A
<1> QED BY <1>2, <1>3, <1>4, <1>5, ClientSteps DEF Next, ApiStep, Serve
-----------------------------------------------------------------------------
LEMMA InitIInv == Init => IInv
<1> SUFFICES ASSUME Init PROVE IInv
  OBVIOUS
<1>1. TypeOK
  BY HttpInitType DEF Init, TypeOK, Versions
<1> USE DEF Init, HttpInit
<1>2. LoopState /\ BudgetUsed
  BY RetriesType DEF LoopState, BudgetUsed, TransportErrors, RETRY_STATUS_CODES
<1>3. WritesOwned /\ ChecksReal
  BY DEF WritesOwned, ChecksReal
<1>4. Chain
  BY VaultAssumption DEF VaultAssumption, Chain
<1>5. AnswersTrue
  <2>1. 0 \notin Statuses /\ NoReply \notin Statuses
    BY StatusType
  <2>2. \A c \in Calls : ~Succeeded(c) /\ status[c] = 0 /\ reply[c] = NoReply
    BY DEF Succeeded
  <2>3. \A c \in Calls : ~ResultKnown(c) /\ \A s : ~StatusKnown(c, s)
    BY <2>1, <2>2 DEF ResultKnown, StatusKnown
  <2> QED BY <2>3 DEF AnswersTrue
<1> QED BY <1>1, <1>2, <1>3, <1>4, <1>5 DEF IInv

\* The inductive invariant holds in every state the writers reach.
THEOREM Invariance == Spec => []IInv
<1>1. IInv /\ [Next]_vars => IInv'
  BY StepTypeOK, StepLoopState, StepWritesOwned, StepChain, StepChecksReal,
     StepAnswersTrue DEF IInv
<1> QED BY InitIInv, <1>1, PTL DEF Spec

\* A success of a checked write is its only effect, on the version it checked;
\* a conflict is never raised for the version that is current.
THEOREM ToldTrue == Spec => [](TypeOK /\ SuccessReplaces /\ ConflictIsReal)
<1>1. IInv => SuccessReplaces
  <2> SUFFICES ASSUME IInv, NEW c \in Calls, Succeeded(c), Checked(c)
               PROVE  \E e \in effects : e.over = check[c] /\ EffectsOf(c) = {e}
    BY DEF SuccessReplaces
  <2>1. PICK e \in effects : e.request = AttemptRequest(c)
    BY DEF IInv, AnswersTrue, ResultKnown
  <2>2. \A f \in EffectsOf(c) : f.over = check[c]
    BY DEF IInv, WritesOwned, EffectsOf
  <2>3. e \in EffectsOf(c)
    BY <2>1 DEF EffectsOf, AttemptRequest
  <2>4. EffectsOf(c) = {e}
    BY <2>2, <2>3 DEF IInv, Chain, EffectsOf
  <2> QED BY <2>2, <2>3, <2>4
<1>2. IInv => ConflictIsReal
  <2> SUFFICES ASSUME IInv, NEW c \in Calls, status[c] = 409
               PROVE  \E e \in effects : e.over = check[c]
    BY DEF ConflictIsReal
  <2>1. 409 \in Statuses
    BY DEF IInv, TypeOK, HttpTypeOK
  <2> QED BY <2>1 DEF IInv, AnswersTrue, StatusKnown
<1> QED BY Invariance, <1>1, <1>2, PTL DEF IInv

\* A writer that is told of a conflict checked a version that a write has
\* indeed replaced.
THEOREM ConflictsReal == Spec => []ConflictIsReal
BY ToldTrue, PTL

\* A call whose check is the current version has not been answered for good.
LEMMA StillOpen ==
  ASSUME IInv, NEW c \in Calls, Checked(c), check[c] = current, current # Deleted
  PROVE  ~Succeeded(c) /\ status[c] \notin {404, 409}
<1>1. \A f \in effects : f.over # check[c]
  BY DEF IInv, Chain
<1>2. ~Succeeded(c)
  <2>1. SUFFICES ASSUME Succeeded(c) PROVE FALSE
    OBVIOUS
  <2>2. PICK f \in effects : f.request = AttemptRequest(c)
    BY <2>1 DEF IInv, AnswersTrue, ResultKnown
  <2>3. f.over = check[c]
    BY <2>2 DEF IInv, WritesOwned, AttemptRequest
  <2> QED BY <1>1, <2>3
<1>3. status[c] \notin {404, 409}
  <2>1. status[c] \in Statuses \cup {0}
    BY DEF IInv, TypeOK, HttpTypeOK
  <2>2. \A t \in {404, 409} : status[c] = t => StatusKnown(c, t)
    BY <2>1 DEF StatusKnown
  <2> QED BY <2>2 DEF IInv, AnswersTrue
<1> QED BY <1>2, <1>3

\* A checked write that has been answered for good touches nothing any more.
THEOREM Settled == Spec => SettledIsQuiet
<1>1. IInv /\ [Next]_vars =>
        \A e \in effects' \ effects :
          Checked(e.request.call) =>
            ~Succeeded(e.request.call) /\ status[e.request.call] \notin {404, 409}
  <2> SUFFICES ASSUME IInv, [Next]_vars, NEW e \in effects' \ effects,
                      Checked(e.request.call)
               PROVE  ~Succeeded(e.request.call) /\ status[e.request.call] \notin {404, 409}
    OBVIOUS
  <2>1. PICK m \in wire, s \in Statuses : ServeApply(m, s)
    BY ServeFrame, ClientSteps DEF Next, ApiStep, Serve, GetKv, vaultVars, vars
  <2>2. e = [request |-> m, over |-> current] /\ current # Deleted
        /\ check[m.call] \in {NoCheck, current}
    BY <2>1 DEF ServeApply, Passes, VersionCheck
  <2>3. m.call \in Calls /\ check[m.call] = current
    BY <2>2, WritesType DEF IInv, WritesOwned, Checked
  <2> QED BY <2>2, <2>3, StillOpen
<1> QED BY Invariance, <1>1, PTL DEF Spec, SettledIsQuiet
-----------------------------------------------------------------------------
LEMMA DeliveryOf ==
  ASSUME NEW c \in Calls, NEW e \in effects, e.request.call = c
  PROVE  Deliveries[c] # {} /\ e.request.attempt \in Deliveries[c]
BY DEF Deliveries, EffectsOf

LEMMA DeliveredBy ==
  ASSUME NEW c \in Calls, NEW n \in Deliveries[c]
  PROVE  \E e \in effects : e.request.call = c /\ e.request.attempt = n
BY DEF Deliveries, EffectsOf

LEMMA ReadSimulates ==
  ASSUME IInv, NEW c \in Calls, GetKv(c)
  PROVE  UNCHANGED Promise!promiseVars
<1>1. UNCHANGED httpVars /\ UNCHANGED effects /\ ~Started(c)
  BY DEF GetKv, Started
<1>2. UNCHANGED <<Verdicts, Deliveries>>
  BY <1>1 DEF httpVars, Verdicts, Verdict, Succeeded, Refused, Deliveries, EffectsOf
<1>3. \A d \in Calls : Started(d) => check'[d] = check[d]
  BY <1>1 DEF GetKv, IInv, TypeOK
<1>4. \A d \in Calls : Started(d)' = Started(d)
  BY <1>1 DEF httpVars, Started
<1> QED BY <1>2, <1>3, <1>4 DEF Promise!promiseVars, CheckKeys

LEMMA CallSimulates ==
  ASSUME IInv, NEW c \in Calls, CallStep(c), UNCHANGED vaultVars
  PROVE  [Promise!Next]_(Promise!promiseVars)
<1>1. TypeOK /\ HttpTypeOK /\ LoopState /\ UNCHANGED <<Deliveries, check>>
  BY DEF IInv, TypeOK, vaultVars, Deliveries, EffectsOf
<1>2. Verdicts' = [Verdicts EXCEPT ![c] = Verdict(c)'] /\ Verdicts[c] = Verdict(c)
  BY <1>1, CallVerdict DEF Verdicts
<1>3. CheckKeys' = [CheckKeys EXCEPT ![c] = check[c]]
  <2>1. \A d \in Calls \ {c} : Started(d)' = Started(d)
    BY <1>1, OthersUnchanged DEF Started
  <2>2. Started(c)'
    BY <1>1, CallForward DEF Started
  <2> QED BY <1>1, <2>1, <2>2 DEF CheckKeys
<1>4. CASE Start(c)
  <2>1. check[c] \in Versions \cup {NoCheck}
    BY <1>1 DEF TypeOK
  <2>2. Promise!Begin(c)
    BY <1>1, <1>2, <1>3, <1>4, <2>1, CallVerdict DEF Promise!Begin
  <2> QED BY <2>2 DEF Promise!Next
<1>5. CASE ~Start(c)
  <2>1. UNCHANGED CheckKeys
    <3>1. Started(c)
      BY <1>5 DEF CallStep, Send, ConnectError, Timeout, NetworkError, AttemptFails,
                  Drip, Receive, Wake, Cancel, Started
    <3> QED BY <1>3, <3>1 DEF CheckKeys
  <2>2. CASE Verdict(c)' = "open"
    BY <1>1, <1>2, <1>5, <2>1, <2>2, CallVerdict DEF Promise!promiseVars, Verdicts
  <2>3. CASE Verdict(c)' # "open"
    <3>1. ResultKnown(c) => Promise!Effective(c)
      <4>1. SUFFICES ASSUME NEW e \in effects, e.request = AttemptRequest(c)
                     PROVE  Promise!Effective(c)
        BY DEF IInv, AnswersTrue
      <4> QED BY <4>1, DeliveryOf DEF AttemptRequest, Promise!Effective, Promise!Delivered
    <3>2. Promise!Conclude(c)
      BY <1>1, <1>2, <1>5, <2>1, <2>3, <3>1, CallVerdict DEF Promise!Conclude
    <3> QED BY <3>2 DEF Promise!Next
  <2> QED BY <2>2, <2>3
<1> QED BY <1>4, <1>5

LEMMA ServeSimulates ==
  ASSUME IInv, NEW m \in wire, NEW s \in Statuses, Serve(m, s)
  PROVE  [Promise!Next]_(Promise!promiseVars)
<1> DEFINE c == m.call
<1>1. /\ m \in Writes /\ c \in Calls /\ Owned(m)
      /\ UNCHANGED <<pc, method, key, attempt, outcome, status, check>>
  BY ServeFrame, WritesType DEF IInv, WritesOwned
<1>2. UNCHANGED <<Verdicts, CheckKeys>>
  BY <1>1 DEF Verdicts, Verdict, Succeeded, Refused, CheckKeys, Started
<1>3. CASE UNCHANGED effects
  BY <1>2, <1>3 DEF Promise!promiseVars, Deliveries, EffectsOf
<1>4. CASE ServeApply(m, s)
  <2> DEFINE new == [request |-> m, over |-> current]
  <2>1. effects' = effects \cup {new} /\ check[c] \in {NoCheck, current}
    BY <1>4 DEF ServeApply, Passes, VersionCheck
  <2>2. Verdicts[c] # "idle" /\ m.attempt \in Budgets[c] /\ CheckKeys[c] = check[c]
    BY <1>1, WritesType DEF Verdicts, Verdict, Owned, Started, Budgets, CheckKeys
  <2>3. ASSUME NEW d \in Calls, Promise!SameKey(c, d) PROVE ~Promise!Delivered(d)
    <3>1. SUFFICES ASSUME NEW e \in effects, e.request.call = d PROVE FALSE
      BY DeliveredBy DEF Promise!Delivered
    <3>2. Owned(e.request) /\ (Checked(d) => e.over = check[d])
      BY <3>1 DEF IInv, WritesOwned
    <3>3. check[d] = check[c] /\ check[c] = current /\ Checked(d)
      BY <1>1, <2>1, <2>2, <2>3, <3>1, <3>2
         DEF Promise!SameKey, CheckKeys, Owned, Started, Checked
    <3> QED BY <3>2, <3>3 DEF IInv, Chain
  <2>4. m.attempt \notin Deliveries[c]
    <3>1. SUFFICES ASSUME NEW e \in effects, e.request.call = c, e.request.attempt = m.attempt
                   PROVE  FALSE
      BY <1>1, DeliveredBy
    <3>2. e.request \in Writes /\ e.request \notin wire
      BY DEF IInv, TypeOK, Effect, WritesOwned
    <3>3. e.request = m
      BY <1>1, <3>1, <3>2, WritesType DEF Request
    <3> QED BY <3>2, <3>3
  <2>5. Deliveries' = [Deliveries EXCEPT ![c] = @ \cup {m.attempt}]
    <3>1. ASSUME NEW d \in Calls
          PROVE  {e.request.attempt : e \in EffectsOf(d)'}
                   = IF d = c THEN {e.request.attempt : e \in EffectsOf(d)} \cup {m.attempt}
                              ELSE {e.request.attempt : e \in EffectsOf(d)}
      <4>1. new.request = m
        OBVIOUS
      <4>2. EffectsOf(d)' = IF d = c THEN EffectsOf(d) \cup {new} ELSE EffectsOf(d)
        BY <2>1, <4>1 DEF EffectsOf
      <4> HIDE DEF new
      <4> QED BY <4>1, <4>2
    <3> QED BY <3>1 DEF Deliveries
  <2>6. Promise!Deliver(c)
    BY <1>1, <1>2, <2>2, <2>3, <2>4, <2>5 DEF Promise!Deliver
  <2> QED BY <1>1, <2>6 DEF Promise!Next
<1> QED BY <1>3, <1>4, ServeFrame

\* A version check keeps the promise of an idempotency key.
THEOREM Refinement == Spec => CheckActsAsKey
<1>1. Init => Promise!Init
  BY DEF Init, HttpInit, Promise!Init, CheckKeys, Started, Deliveries, EffectsOf,
         Verdicts, Verdict
<1>2. IInv /\ [Next]_vars => [Promise!Next]_(Promise!promiseVars)
  <2> SUFFICES ASSUME IInv, [Next]_vars PROVE [Promise!Next]_(Promise!promiseVars)
    OBVIOUS
  <2>1. CASE UNCHANGED vars
    BY <2>1 DEF vars, Promise!promiseVars, CheckKeys, Started, Deliveries, EffectsOf,
                Verdicts, Verdict, Succeeded, Refused
  <2> QED BY <2>1, ReadSimulates, CallSimulates, ServeSimulates, ClientSteps
          DEF Next, ApiStep, Serve
<1> QED BY Invariance, <1>1, <1>2, PTL DEF Spec, CheckActsAsKey, Promise!Spec

\* An object that is read, or a step of a call, is no write.
LEMMA ReadKeepsObject ==
  ASSUME IInv, NEW c \in Calls, GetKv(c)
  PROVE  Object!Read(c)
<1>1. UNCHANGED httpVars /\ UNCHANGED <<current, effects>> /\ pc[c] = "idle"
  BY DEF GetKv
<1>2. UNCHANGED <<Tidings, Overwritten, Wrote>>
  BY <1>1 DEF httpVars, Tidings, Told, Verdict, Succeeded, Refused, Overwritten, Wrote,
              EffectsOf
<1>3. Tidings[c] = "idle"
  BY <1>1 DEF Tidings, Told, Verdict
<1> QED BY <1>1, <1>2, <1>3 DEF GetKv, Object!Read

\* What a caller is told of a call that ends is what the answer said.
LEMMA CallTells ==
  ASSUME IInv, NEW c \in Calls, CallStep(c), UNCHANGED vaultVars
  PROVE  /\ Tidings' = [Tidings EXCEPT ![c] = Told(c)']
         /\ Start(c) => Told(c) = "idle" /\ Told(c)' \in {"open", "unknown"}
         /\ ~Start(c) =>
              /\ Told(c) = "open"
              /\ Told(c)' \in {"open", "succeeded", "conflict", "missing", "unknown"}
         /\ Told(c)' = "succeeded" => c \in Wrote
         /\ Told(c)' = "conflict" => check[c] \notin {NoCheck, current}
         /\ Told(c)' = "missing" => current = Deleted
<1>1. HttpTypeOK /\ LoopState /\ HttpTypeOK'
  BY CallStepType DEF IInv, TypeOK
<1>2. \A d \in Calls \ {c} : Told(d)' = Told(d)
  BY <1>1, CallVerdict, OthersUnchanged DEF Told
<1>3. Tidings' = [Tidings EXCEPT ![c] = Told(c)']
  BY <1>2 DEF Tidings
<1>4. /\ Start(c) => Told(c) = "idle" /\ Told(c)' \in {"open", "unknown"}
      /\ ~Start(c) => /\ Told(c) = "open"
                      /\ Told(c)' \in {"open", "succeeded", "conflict", "missing", "unknown"}
  BY <1>1, CallVerdict DEF Told
<1>5. ASSUME Told(c)' = "succeeded" PROVE c \in Wrote
  <2>1. ResultKnown(c)
    BY <1>1, <1>4, <1>5, CallVerdict DEF Told
  <2>2. PICK e \in effects : e.request = AttemptRequest(c)
    BY <2>1 DEF IInv, AnswersTrue
  <2> QED BY <2>2 DEF Wrote, EffectsOf, AttemptRequest
<1>6. ASSUME NEW s \in {404, 409}, status'[c] = s, Verdict(c)' = "refused"
      PROVE  StatusKnown(c, s)
  <2>1. s \in Statuses
    BY <1>1, <1>6 DEF HttpTypeOK
  <2>2. StatusKnown(c, s)'
    BY <1>6, <2>1 DEF StatusKnown
  <2> QED BY <1>1, <2>2, CallLearns
<1>7. ASSUME NEW s \in {404, 409}, Told(c)' = IF s = 409 THEN "conflict" ELSE "missing"
      PROVE  StatusKnown(c, s)
  <2>1. Verdict(c)' \in {"idle", "open", "succeeded", "refused", "unknown"}
    BY <1>1, CallVerdict
  <2>2. Verdict(c)' = "refused" /\ status'[c] = s
    BY <1>7, <2>1 DEF Told
  <2> QED BY <1>6, <2>2
<1>8. Told(c)' = "conflict" => StatusKnown(c, 409)
  BY <1>7
<1>9. Told(c)' = "missing" => StatusKnown(c, 404)
  BY <1>7
<1>10. /\ StatusKnown(c, 409) => check[c] \notin {NoCheck, current}
       /\ StatusKnown(c, 404) => current = Deleted
  BY DEF IInv, AnswersTrue, Checked
<1> QED BY <1>3, <1>4, <1>5, <1>8, <1>9, <1>10

LEMMA CallTellsObject ==
  ASSUME IInv, NEW c \in Calls, CallStep(c), UNCHANGED vaultVars
  PROVE  [Object!Next]_(Object!objectVars)
<1>1. UNCHANGED <<current, Overwritten, check, Wrote>>
  BY DEF vaultVars, Overwritten, Wrote, EffectsOf
<1>2. Tidings[c] = Told(c) /\ Tidings' = [Tidings EXCEPT ![c] = Told(c)']
  BY CallTells DEF Tidings
<1>3. CASE Start(c)
  BY <1>1, <1>2, <1>3, CallTells DEF Object!Begin, Object!Next
<1>4. CASE ~Start(c) /\ Told(c)' = "open"
  BY <1>1, <1>2, <1>4, CallTells DEF Object!objectVars, Tidings
<1>5. CASE ~Start(c) /\ Told(c)' # "open"
  BY <1>1, <1>2, <1>5, CallTells DEF Object!Tell, Object!Next
<1> QED BY <1>3, <1>4, <1>5

\* A request that is applied is a write, and makes a version that never was.
LEMMA ServeWrites ==
  ASSUME IInv, NEW m \in wire, NEW s \in Statuses, ServeApply(m, s)
  PROVE  Object!Write(m.call)
<1> DEFINE c == m.call
           new == [request |-> m, over |-> current]
<1>1. /\ m \in Writes /\ c \in Calls /\ Owned(m)
      /\ UNCHANGED <<pc, method, key, attempt, outcome, status, check>>
  BY ServeFrame, WritesType DEF IInv, WritesOwned, Serve
<1>2. /\ current # Deleted /\ check[c] \in {NoCheck, current}
      /\ current' \in {m, Deleted} /\ effects' = effects \cup {new}
  BY DEF ServeApply, Passes, VersionCheck
<1>3. UNCHANGED <<check, Tidings>>
  BY <1>1 DEF Tidings, Told, Verdict, Succeeded, Refused
<1>4. Tidings[c] # "idle"
  BY <1>1 DEF Tidings, Told, Verdict, Owned, Started
<1>5. ASSUME check[c] # NoCheck PROVE Tidings[c] \in {"open", "unknown"}
  <2>1. check[c] = current
    BY <1>2, <1>5
  <2>2. ~Succeeded(c) /\ status[c] \notin {404, 409}
    BY <1>1, <1>2, <1>5, <2>1, StillOpen DEF Checked
  <2>3. Verdict(c) \in {"idle", "open", "refused", "unknown"}
    BY <2>2 DEF Verdict
  <2>4. Told(c) \in {"idle", "open", "unknown"}
    BY <2>2, <2>3 DEF Told
  <2> QED BY <1>1, <1>4, <2>4 DEF Tidings
<1>6. m \notin Overwritten \cup {current}
  <2>1. SUFFICES ASSUME m \in {current} \cup Overwritten PROVE FALSE
    OBVIOUS
  <2>2. PICK e \in effects : e.request = m
    BY <1>1, <2>1 DEF Overwritten, IInv, Chain
  <2> QED BY <2>2 DEF IInv, WritesOwned
<1>7. Overwritten' = Overwritten \cup {current}
  <2>1. new.over = current
    OBVIOUS
  <2>2. effects' = effects \cup {new}
    BY <1>2
  <2> HIDE DEF new
  <2> QED BY <2>1, <2>2 DEF Overwritten
<1>8. Wrote' = Wrote \cup {c}
  <2>1. \A d \in Calls : EffectsOf(d)' = IF d = c THEN EffectsOf(d) \cup {new} ELSE EffectsOf(d)
    BY <1>2 DEF EffectsOf
  <2> QED BY <1>1, <2>1 DEF Wrote
<1>9. m \in Versions
  BY <1>1 DEF Versions
<1> QED BY <1>2, <1>3, <1>4, <1>5, <1>6, <1>7, <1>8, <1>9 DEF Object!Write

\* Retries, lost answers and late attempts do not show in the object: it is
\* written as if each write happened at once.
THEOREM Atomicity == Spec => ObjectAtomic
<1>1. Init => Object!Init
  BY DEF Init, HttpInit, Object!Init, Overwritten, Wrote, EffectsOf, Tidings, Told, Verdict
<1>2. IInv /\ [Next]_vars => [Object!Next]_(Object!objectVars)
  <2> SUFFICES ASSUME IInv, [Next]_vars PROVE [Object!Next]_(Object!objectVars)
    OBVIOUS
  <2>1. ASSUME NEW c \in Calls, GetKv(c) PROVE [Object!Next]_(Object!objectVars)
    BY <2>1, ReadKeepsObject DEF Object!Next
  <2>2. ASSUME UNCHANGED <<pc, outcome, status, check, current, effects>>
        PROVE  UNCHANGED Object!objectVars
    <3>1. UNCHANGED <<Overwritten, Wrote>>
      BY <2>2 DEF Overwritten, Wrote, EffectsOf
    <3>2. UNCHANGED Tidings
      BY <2>2 DEF Tidings, Told, Verdict, Succeeded, Refused
    <3> QED BY <2>2, <3>1, <3>2 DEF Object!objectVars
  <2>3. ASSUME NEW m \in wire, NEW s \in Statuses, Serve(m, s)
        PROVE  [Object!Next]_(Object!objectVars)
    <3>1. CASE ServeApply(m, s)
      BY <3>1, ServeWrites, WritesType DEF Object!Next, IInv, WritesOwned
    <3>2. CASE UNCHANGED <<current, effects>>
      BY <2>2, <2>3, <3>2, ServeFrame
    <3> QED BY <2>3, <3>1, <3>2, ServeFrame
  <2>4. CASE UNCHANGED vars
    BY <2>2, <2>4 DEF vars
  <2> QED BY <2>1, <2>3, <2>4, CallTellsObject, ClientSteps DEF Next, ApiStep, Serve
<1> QED BY Invariance, <1>1, <1>2, PTL DEF Spec, ObjectAtomic, Object!Spec

\* Writes end, too: every step of their calls brings them nearer to their end,
\* whatever other clients write in between.
THEOREM Advancing == Spec => CallsAdvance
<1>1. IInv /\ IInv' /\ [Next]_vars => [Advance]_httpVars
  <2> SUFFICES ASSUME IInv, IInv', [Next]_vars PROVE Advance
    OBVIOUS
  <2>1. (\E c \in Calls : CallStep(c)) \/ UNCHANGED <<pc, attempt>>
    BY ClientSteps, ServeFrame DEF Next, ApiStep, Serve, GetKv, httpVars, vars
  <2> QED BY <2>1, Advances DEF IInv, TypeOK
<1> QED BY Invariance, <1>1, PTL DEF Spec, CallsAdvance
=============================================================================
