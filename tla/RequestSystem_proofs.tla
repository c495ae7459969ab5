------------------------- MODULE RequestSystem_proofs -------------------------
(***************************************************************************)
(* Proofs about RequestSystem, for any number of calls, any retry budgets   *)
(* and any behaviour of the API: the inductive invariant IInv, the safety   *)
(* properties that follow from it, and the refinement of OperationPromise.  *)
(***************************************************************************)
EXTENDS RequestSystem, HttpCall_proofs

-----------------------------------------------------------------------------
LEMMA InitTypeOK == Init => TypeOK
BY HttpInitType DEF Init, TypeOK

LEMMA StepTypeOK == TypeOK /\ [Next]_vars => TypeOK'
<1> SUFFICES ASSUME TypeOK, [Next]_vars PROVE TypeOK'
  OBVIOUS
<1>1. ASSUME NEW c \in Calls, CallStep(c), UNCHANGED applied PROVE TypeOK'
  BY <1>1, CallStepType DEF TypeOK
<1>2. ASSUME NEW m \in wire, NEW s \in Statuses,
             ServeApply(m, s) \/ ServeReplay(m, s)
               \/ ServeRefuse(m, s) \/ GatewayFails(m, s)
      PROVE  TypeOK'
  <2>1. reply' \in [Calls -> Statuses \cup {NoReply}]
    BY <1>2, AnswerFrame DEF TypeOK, ServeApply, ServeReplay, ServeRefuse, GatewayFails
  <2>2. UNCHANGED apiUnchanged
    BY <1>2 DEF ServeApply, ServeReplay, ServeRefuse, GatewayFails
  <2>3. wire' \subseteq Request /\ applied' \subseteq Request
    BY <1>2 DEF TypeOK, HttpTypeOK, ServeApply, ServeReplay, ServeRefuse, GatewayFails
  <2> QED BY <2>1, <2>2, <2>3 DEF TypeOK, HttpTypeOK, apiUnchanged
<1>3. CASE UNCHANGED vars
  BY <1>3 DEF vars, TypeOK, HttpTypeOK
<1> QED BY <1>1, <1>2, <1>3 DEF Next, ApiStep

\* Every state the program reaches is well typed.
THEOREM TypeCorrect == Spec => []TypeOK
BY InitTypeOK, StepTypeOK, PTL DEF Spec
-----------------------------------------------------------------------------
\* The API changes no call, only what answers it.
LEMMA ApiFrame ==
  ASSUME TypeOK, NEW m \in wire, NEW s \in Statuses,
         ServeApply(m, s) \/ ServeReplay(m, s)
           \/ ServeRefuse(m, s) \/ GatewayFails(m, s)
  PROVE  /\ m \in Request /\ m.call \in Calls
         /\ UNCHANGED <<pc, method, key, attempt, outcome, status>>
         /\ wire' \subseteq wire
         /\ applied' \in {applied, applied \cup {m}}
         /\ Answer(m, s)
         /\ \A c \in Calls :
              \/ reply'[c] = reply[c]
              \/ /\ c = m.call /\ pc[c] = "waiting" /\ m.attempt = attempt[c]
                 /\ reply[c] = NoReply /\ reply'[c] = s
<1>1. UNCHANGED <<pc, method, key, attempt, outcome, status>>
  BY DEF ServeApply, ServeReplay, ServeRefuse, GatewayFails, apiUnchanged
<1>2. wire' \subseteq wire /\ applied' \in {applied, applied \cup {m}} /\ Answer(m, s)
  BY DEF ServeApply, ServeReplay, ServeRefuse, GatewayFails
<1> QED BY <1>1, <1>2, AnswerFrame DEF TypeOK
-----------------------------------------------------------------------------
\* The loop's bookkeeping, and the budget with it.
LEMMA StepLoopState == IInv /\ [Next]_vars => LoopState' /\ BudgetUsed'
<1> SUFFICES ASSUME IInv, [Next]_vars PROVE LoopState' /\ BudgetUsed'
  OBVIOUS
<1> USE DEF IInv, TypeOK
<1>1. CASE \E c \in Calls : CallStep(c)
  BY <1>1, CallLoopState
<1>2. CASE ApiStep
  BY <1>2, ApiFrame, AnswerLoopState DEF ApiStep
<1>3. CASE UNCHANGED vars
  BY <1>3 DEF vars, LoopState, BudgetUsed, MayRetry
<1> QED BY <1>1, <1>2, <1>3 DEF Next

\* Where a call's key comes from.
LEMMA StepKeyOrigin == IInv /\ [Next]_vars => KeyOrigin'
<1> SUFFICES ASSUME IInv, [Next]_vars, NEW d \in Calls
             PROVE  (/\ key[d] \in {NoKey, d} \cup UserKeys
                     /\ Started(d) /\ method[d] = "post" /\ EmptyKey \notin KeyArguments
                          => key[d] # NoKey)'
  BY DEF KeyOrigin
<1> USE DEF IInv, KeyOrigin, Started, TypeOK, HttpTypeOK
<1>1. CASE \E c \in Calls : CallStep(c)
  <2> PICK c \in Calls : CallStep(c)
    BY <1>1
  <2>1. CASE d # c
    BY <2>1, OthersUnchanged
  <2>2. CASE d = c /\ Start(c)
    <3>1. PICK arg \in KeyArguments, option \in KeyArguments, extra \in KeyArguments :
            key' = [key EXCEPT ![c] = BuildHeaders(c, method[c], arg, option, extra)]
      BY <2>2 DEF Start
    <3> QED BY <2>2, <3>1, KeyType DEF Start
  <2>3. CASE d = c /\ ~Start(c)
    <3>1. Started(c) /\ UNCHANGED <<method, key>>
      BY <2>3 DEF CallStep, Send, ConnectError, Timeout, NetworkError, AttemptFails,
                  Drip, Receive, Wake, Cancel
    <3> QED BY <2>3, <3>1
  <2> QED BY <2>1, <2>2, <2>3
<1>2. CASE ApiStep
  BY <1>2, ApiFrame DEF ApiStep
<1>3. CASE UNCHANGED vars
  BY <1>3 DEF vars
<1> QED BY <1>1, <1>2, <1>3 DEF Next
-----------------------------------------------------------------------------
\* Requests belong to their calls.
LEMMA StepRequestsOwned == IInv /\ [Next]_vars => RequestsOwned'
<1> SUFFICES ASSUME IInv, [Next]_vars PROVE RequestsOwned'
  OBVIOUS
<1>1. /\ TypeOK /\ HttpTypeOK /\ LoopState /\ wire \cap applied = {}
      /\ \A m \in wire \cup applied : m \in Request /\ Owned(m)
  BY DEF IInv, RequestsOwned, TypeOK, HttpTypeOK
<1>2. ASSUME NEW c \in Calls, CallStep(c), UNCHANGED applied
      PROVE  RequestsOwned'
  <2>1. \A m \in wire' \ wire : m \notin applied /\ Owned(m)'
    <3>1. AttemptRequest(c) \notin applied \/ pc[c] # "ready"
      BY <1>1 DEF Owned, AttemptRequest
    <3> QED BY <1>1, <1>2, <3>1, SentOwned
  <2>2. \A m \in wire \cup applied : Owned(m)'
    BY <1>1, <1>2, CallOwned
  <2> QED BY <1>1, <1>2, <2>1, <2>2 DEF RequestsOwned
<1>3. ASSUME NEW m \in wire, NEW s \in Statuses,
             ServeApply(m, s) \/ ServeReplay(m, s)
               \/ ServeRefuse(m, s) \/ GatewayFails(m, s)
      PROVE  RequestsOwned'
  <2>1. wire' \cap applied' = {}
    BY <1>1, <1>3 DEF ServeApply, ServeReplay, ServeRefuse, GatewayFails
  <2>2. \A n \in wire' \cup applied' : n \in wire \cup applied
    BY <1>3, <1>1, ApiFrame
  <2>3. UNCHANGED <<pc, key, attempt>>
    BY <1>3, <1>1, ApiFrame
  <2> QED BY <1>1, <2>1, <2>2, <2>3, AnswerOwned DEF RequestsOwned
<1>4. CASE UNCHANGED vars
  BY <1>1, <1>4, AnswerOwned DEF vars, RequestsOwned
<1> QED BY <1>2, <1>3, <1>4 DEF Next, ApiStep

\* The API's promise about keys.
LEMMA StepAppliedOnce == IInv /\ [Next]_vars => AppliedOnce'
<1> SUFFICES ASSUME AppliedOnce, [Next]_vars PROVE AppliedOnce'
  BY DEF IInv
<1>1. CASE UNCHANGED applied
  BY <1>1 DEF AppliedOnce
<1>2. ASSUME NEW m \in wire, NEW s \in Statuses, ServeApply(m, s)
      PROVE  AppliedOnce'
  BY <1>2 DEF ServeApply, AlreadyApplied, AppliedOnce
<1> QED BY <1>1, <1>2 DEF Next, ApiStep, ServeReplay, ServeRefuse, GatewayFails, vars

\* What a call has been told agrees with what became of its requests.
LEMMA StepAnswersTrue == IInv /\ [Next]_vars => AnswersTrue'
<1> DEFINE A(d) ==
      /\ ResultKnown(d) =>
           /\ AttemptRequest(d) \notin wire
           /\ AttemptRequest(d) \in applied \/ AlreadyApplied(AttemptRequest(d))
      /\ RefusalKnown(d) => AttemptRequest(d) \notin wire \cup applied
<1> SUFFICES ASSUME IInv, [Next]_vars, NEW d \in Calls PROVE A(d)'
  BY DEF AnswersTrue
<1>1. A(d)
  BY DEF IInv, AnswersTrue
<1>2. TypeOK /\ HttpTypeOK /\ LoopState
  BY DEF IInv, TypeOK
<1>3. ASSUME NEW c \in Calls, CallStep(c), UNCHANGED applied PROVE A(d)'
  <2>1. /\ ResultKnown(d)' => ResultKnown(d)
        /\ RefusalKnown(d)' => RefusalKnown(d)
        /\ ResultKnown(d)' \/ RefusalKnown(d)' =>
             /\ UNCHANGED AttemptRequest(d)
             /\ AttemptRequest(d) \in wire' => AttemptRequest(d) \in wire
    BY <1>2, <1>3, CallLearns DEF RefusalKnown
  <2> QED BY <1>1, <1>3, <2>1 DEF AlreadyApplied
<1>4. ASSUME NEW m \in wire, NEW s \in Statuses,
             ServeApply(m, s) \/ ServeReplay(m, s)
               \/ ServeRefuse(m, s) \/ GatewayFails(m, s)
      PROVE  A(d)'
  <2>1. /\ UNCHANGED AttemptRequest(d)
        /\ \/ (ResultKnown(d)' => ResultKnown(d)) /\ (RefusalKnown(d)' => RefusalKnown(d))
           \/ /\ m = AttemptRequest(d)
              /\ ResultKnown(d)' => s < 400
              /\ RefusalKnown(d)' => s \in 400..499
    <3>1. Owned(m) /\ Answer(m, s) /\ UNCHANGED <<pc, method, key, attempt, outcome, status>>
      BY <1>2, <1>4, ApiFrame DEF IInv, RequestsOwned
    <3> QED BY <1>2, <3>1, AnswerTells DEF RefusalKnown
  <2>2. wire' \subseteq wire /\ applied \subseteq applied' /\ wire \cap applied = {}
        /\ applied' \subseteq applied \cup {m}
    BY <1>2, <1>4, ApiFrame DEF IInv, RequestsOwned
  <2>3. CASE m # AttemptRequest(d)
    BY <1>1, <2>1, <2>2, <2>3 DEF AlreadyApplied
  <2>4. CASE m = AttemptRequest(d)
    <3>1. s \in Nat /\ ~ResultKnown(d) /\ ~RefusalKnown(d)
      BY <1>1, <2>4, StatusType
    <3>2. ASSUME ResultKnown(d)'
          PROVE  /\ m \notin wire'
                 /\ m \in applied' \/ AlreadyApplied(m)'
      <4>1. s < 400
        BY <2>1, <3>1, <3>2
      <4>2. ServeApply(m, s) \/ ServeReplay(m, s)
        BY <1>4, <3>1, <4>1 DEF ServeRefuse, GatewayFails
      <4> QED BY <4>2 DEF ServeApply, ServeReplay, AlreadyApplied
    <3>3. ASSUME RefusalKnown(d)' PROVE m \notin wire' \cup applied'
      <4>1. 400 <= s /\ s < 500
        BY <2>1, <3>1, <3>3
      <4>2. ServeRefuse(m, s)
        BY <1>4, <3>1, <4>1 DEF ServeApply, ServeReplay, GatewayFails, ResultStatuses
      <4> QED BY <2>2, <4>2 DEF ServeRefuse
    <3> QED BY <2>1, <2>4, <3>2, <3>3
  <2> QED BY <2>3, <2>4
<1>5. ASSUME UNCHANGED vars PROVE A(d)'
  BY <1>1, <1>5 DEF vars, ResultKnown, RefusalKnown, StatusKnown, Succeeded,
                    AttemptRequest, AlreadyApplied
<1> HIDE DEF A
<1> QED BY <1>3, <1>4, <1>5 DEF Next, ApiStep
-----------------------------------------------------------------------------
LEMMA InitIInv == Init => IInv
<1> SUFFICES ASSUME Init PROVE IInv
  OBVIOUS
<1>1. TypeOK
  BY InitTypeOK
<1> USE DEF Init, HttpInit
<1>2. RequestsOwned /\ AppliedOnce
  BY DEF RequestsOwned, AppliedOnce
<1>3. KeyOrigin
  BY DEF KeyOrigin, Started
<1>4. LoopState /\ BudgetUsed
  BY RetriesType DEF LoopState, BudgetUsed, TransportErrors, RETRY_STATUS_CODES
<1>5. AnswersTrue
  BY DEF AnswersTrue, ResultKnown, RefusalKnown, StatusKnown, Succeeded
<1> QED BY <1>1, <1>2, <1>3, <1>4, <1>5 DEF IInv

\* The inductive invariant holds in every state the system reaches.
THEOREM Invariance == Spec => []IInv
<1>1. IInv /\ [Next]_vars => IInv'
  <2> SUFFICES ASSUME IInv, [Next]_vars PROVE IInv'
    OBVIOUS
  <2>1. TypeOK'
    BY StepTypeOK DEF IInv
  <2> QED BY <2>1, StepRequestsOwned, StepAppliedOnce, StepKeyOrigin,
             StepLoopState, StepAnswersTrue DEF IInv
<1> QED BY InitIInv, <1>1, PTL DEF Spec

\* A keyed call, and a POST of a caller that passes no empty key, takes effect
\* at most once, however often it is retried and in whatever order its
\* attempts are served.
THEOREM AtMostOnce == Spec => [](KeyedOnce /\ PostOnce)
<1>1. IInv => KeyedOnce
  BY DEF IInv, RequestsOwned, Owned, AppliedOnce, KeyedOnce
<1>2. IInv => PostOnce
  <2> SUFFICES ASSUME IInv, EmptyKey \notin KeyArguments,
                      NEW m \in applied, NEW n \in applied,
                      m.call = n.call, method[m.call] = "post"
               PROVE  m = n
    BY DEF PostOnce
  <2>1. m.call \in Calls /\ Started(m.call) /\ m.key = key[m.call] /\ n.key = m.key
    BY DEF IInv, RequestsOwned, Owned, TypeOK, Request
  <2> QED BY <2>1 DEF IInv, KeyOrigin, AppliedOnce
<1> QED BY Invariance, <1>1, <1>2, PTL

\* Where no caller passes an empty key, every POST takes effect at most once,
\* however often it is retried and whenever its attempts are served.
THEOREM PostsOnce == Spec => []PostOnce
BY AtMostOnce, PTL

\* What a result proves to its caller.
THEOREM ResultsBacked == Spec => []SuccessIsBacked
<1>1. IInv => SuccessIsBacked
  <2> SUFFICES ASSUME IInv, NEW c \in Calls, Succeeded(c)
               PROVE  \/ Effects(c) # {}
                      \/ key[c] \in UserKeys /\ \E m \in applied : m.key = key[c]
    BY DEF SuccessIsBacked
  <2> DEFINE r == AttemptRequest(c)
  <2>1. r.call = c /\ r.key = key[c] /\ (r \in applied \/ AlreadyApplied(r))
    BY DEF IInv, AnswersTrue, ResultKnown, AttemptRequest
  <2>2. CASE r \in applied
    BY <2>1, <2>2 DEF Effects
  <2>3. CASE AlreadyApplied(r)
    <3>1. PICK n \in applied : n.key = key[c] /\ key[c] # NoKey
      BY <2>1, <2>3 DEF AlreadyApplied
    <3>2. n.call \in Calls /\ key[n.call] = key[c]
      BY <3>1 DEF IInv, RequestsOwned, Owned, TypeOK, Request
    <3>3. key[c] \in {c} \cup UserKeys /\ key[c] \in {n.call} \cup UserKeys
      BY <3>1, <3>2 DEF IInv, KeyOrigin
    <3>4. CASE key[c] = c
      BY <3>1, <3>3, <3>4, KeysDistinct DEF Effects
    <3>5. CASE key[c] \in UserKeys
      BY <3>1, <3>5
    <3> QED BY <3>3, <3>4, <3>5
  <2> QED BY <2>1, <2>2, <2>3
<1> QED BY Invariance, <1>1, PTL

\* What a refusal proves to its caller.
THEOREM RefusalsDefinite == Spec => []RefusalIsDefinite
<1>1. IInv => RefusalIsDefinite
  <2> SUFFICES ASSUME IInv, NEW m \in wire \cup applied, Refused(m.call)
               PROVE  m.attempt < attempt[m.call]
    BY DEF RefusalIsDefinite
  <2>1. /\ m \in Request /\ m.call \in Calls /\ attempt[m.call] \in Nat
        /\ m.key = key[m.call] /\ m.attempt <= attempt[m.call]
    BY DEF IInv, RequestsOwned, Owned, TypeOK, HttpTypeOK, Request
  <2>2. m # AttemptRequest(m.call)
    <3>1. status[m.call] \in Statuses
      BY <2>1 DEF IInv, TypeOK, HttpTypeOK, Refused
    <3>2. RefusalKnown(m.call)
      BY <3>1 DEF Refused, RefusalKnown, StatusKnown
    <3> QED BY <2>1, <3>2 DEF IInv, AnswersTrue
  <2>3. m = [call |-> m.call, attempt |-> m.attempt, key |-> m.key] /\ m.attempt \in Nat
    BY <2>1 DEF Request
  <2> QED BY <2>1, <2>2, <2>3 DEF AttemptRequest
<1> QED BY Invariance, <1>1, PTL

\* Nothing is given up before its retries are used.
THEOREM BudgetIsUsed == Spec => []BudgetUsed
<1>1. IInv => BudgetUsed
  BY DEF IInv
<1> QED BY Invariance, <1>1, PTL

\* After a success only an attempt given up on, of a call without a key, can
\* take effect.
THEOREM Quiet == Spec => QuietAfterSuccess
<1>1. IInv /\ [Next]_vars =>
        \A m \in applied' \ applied :
          Succeeded(m.call) => key[m.call] = NoKey /\ m.attempt < attempt[m.call]
  <2> SUFFICES ASSUME IInv, [Next]_vars, NEW m \in applied' \ applied, Succeeded(m.call)
               PROVE  key[m.call] = NoKey /\ m.attempt < attempt[m.call]
    OBVIOUS
  <2> DEFINE r == AttemptRequest(m.call)
  <2>1. m \in wire /\ ~AlreadyApplied(m)
    BY DEF Next, ApiStep, ServeApply, ServeReplay, ServeRefuse, GatewayFails, vars
  <2>2. /\ m \in Request /\ m.call \in Calls /\ attempt[m.call] \in Nat
        /\ m.key = key[m.call] /\ m.attempt <= attempt[m.call] /\ m.attempt \in Nat
    BY <2>1 DEF IInv, RequestsOwned, Owned, TypeOK, HttpTypeOK, Request
  <2>3. r \notin wire /\ (r \in applied \/ AlreadyApplied(r))
    BY <2>2 DEF IInv, AnswersTrue, ResultKnown
  <2>4. r.key = m.key
    BY <2>2 DEF AttemptRequest
  <2>5. key[m.call] = NoKey
    BY <2>1, <2>2, <2>3, <2>4 DEF AlreadyApplied
  <2>6. m.attempt # attempt[m.call]
    BY <2>1, <2>2, <2>3 DEF AttemptRequest, Request
  <2> QED BY <2>2, <2>5, <2>6
<1> QED BY Invariance, <1>1, PTL DEF Spec, QuietAfterSuccess
-----------------------------------------------------------------------------
\* How the abstraction sees a step that applies nothing.
LEMMA SameDeliveries == UNCHANGED applied => UNCHANGED Deliveries
BY DEF Deliveries, Effects

LEMMA DeliveryOf ==
  ASSUME NEW c \in Calls, NEW m \in applied, m.call = c
  PROVE  Deliveries[c] # {} /\ m.attempt \in Deliveries[c]
BY DEF Deliveries, Effects

LEMMA DeliveredBy ==
  ASSUME NEW c \in Calls, NEW n \in Deliveries[c]
  PROVE  \E m \in applied : m.call = c /\ m.attempt = n
BY DEF Deliveries, Effects

\* A call with a known result is effective in the abstraction.
LEMMA EffectiveIfKnown ==
  ASSUME IInv, NEW c \in Calls, ResultKnown(c)
  PROVE  Promise!Effective(c)
<1> DEFINE r == AttemptRequest(c)
<1>1. r.call = c /\ r.key = key[c] /\ (r \in applied \/ AlreadyApplied(r))
  BY DEF IInv, AnswersTrue, AttemptRequest
<1>2. CASE r \in applied
  BY <1>1, <1>2, DeliveryOf DEF Promise!Effective, Promise!Delivered
<1>3. CASE AlreadyApplied(r)
  <2>1. PICK n \in applied : n.key = key[c] /\ key[c] # NoKey
    BY <1>1, <1>3 DEF AlreadyApplied
  <2>2. n.call \in Calls /\ key[n.call] = key[c]
    BY <2>1 DEF IInv, RequestsOwned, Owned, TypeOK, Request
  <2>3. Promise!Delivered(n.call) /\ Promise!SameKey(c, n.call)
    BY <2>1, <2>2, DeliveryOf DEF Promise!Delivered, Promise!SameKey
  <2> QED BY <2>2, <2>3 DEF Promise!Effective
<1> QED BY <1>1, <1>2, <1>3

LEMMA CallSimulates ==
  ASSUME IInv, NEW c \in Calls, CallStep(c), UNCHANGED applied
  PROVE  [Promise!Next]_(Promise!promiseVars)
<1>1. TypeOK /\ HttpTypeOK /\ LoopState /\ UNCHANGED Deliveries
  BY SameDeliveries DEF IInv, TypeOK
<1>2. Verdicts' = [Verdicts EXCEPT ![c] = Verdict(c)'] /\ Verdicts[c] = Verdict(c)
  BY <1>1, CallVerdict DEF Verdicts
<1>3. CASE Start(c)
  <2>1. \E k \in Keys : key' = [key EXCEPT ![c] = k]
    BY <1>1, <1>3, KeyType DEF Start, Keys, HttpTypeOK
  <2>2. Promise!Begin(c)
    BY <1>1, <1>2, <1>3, <2>1, CallVerdict DEF Promise!Begin
  <2> QED BY <2>2 DEF Promise!Next
<1>4. CASE ~Start(c)
  <2>1. UNCHANGED key
    BY <1>4 DEF CallStep, Send, ConnectError, Timeout, NetworkError, AttemptFails,
                Drip, Receive, Wake, Cancel
  <2>2. CASE Verdict(c)' = "open"
    BY <1>1, <1>2, <1>4, <2>1, <2>2, CallVerdict DEF Promise!promiseVars, Verdicts
  <2>3. CASE Verdict(c)' # "open"
    <3>1. Promise!Conclude(c)
      BY <1>1, <1>2, <1>4, <2>1, <2>3, CallVerdict, EffectiveIfKnown DEF Promise!Conclude
    <3> QED BY <3>1 DEF Promise!Next
  <2> QED BY <2>2, <2>3
<1> QED BY <1>3, <1>4

LEMMA ApiSimulates ==
  ASSUME IInv, NEW m \in wire, NEW s \in Statuses,
         ServeApply(m, s) \/ ServeReplay(m, s)
           \/ ServeRefuse(m, s) \/ GatewayFails(m, s)
  PROVE  [Promise!Next]_(Promise!promiseVars)
<1> DEFINE c == m.call
<1>1. /\ m \in Request /\ c \in Calls /\ m.attempt \in Nat
      /\ UNCHANGED <<pc, method, key, attempt, outcome, status>>
  BY ApiFrame DEF IInv, Request
<1>2. UNCHANGED Verdicts
  BY <1>1 DEF Verdicts, Verdict, Succeeded, Refused
<1>3. CASE UNCHANGED applied
  BY <1>1, <1>2, <1>3, SameDeliveries DEF Promise!promiseVars
<1>4. CASE applied' # applied
  <2>1. ~AlreadyApplied(m) /\ applied' = applied \cup {m}
    BY <1>4 DEF ServeApply, ServeReplay, ServeRefuse, GatewayFails
  <2>2. Started(c) /\ m.key = key[c] /\ m.attempt \in Budgets[c] /\ m \notin applied
    BY <1>1, RetriesType DEF IInv, RequestsOwned, Owned, Budgets
  <2>3. Verdicts[c] # "idle"
    BY <1>1, <2>2 DEF Verdicts, Verdict, Started
  <2>4. ASSUME NEW d \in Calls, Promise!SameKey(c, d) PROVE ~Promise!Delivered(d)
    <3>1. SUFFICES ASSUME NEW n \in applied, n.call = d PROVE FALSE
      BY DeliveredBy DEF Promise!Delivered
    <3>2. n.key = key[d]
      BY <3>1 DEF IInv, RequestsOwned, Owned
    <3> QED BY <2>1, <2>2, <2>4, <3>2 DEF Promise!SameKey, AlreadyApplied
  <2>5. m.attempt \notin Deliveries[c]
    <3>1. SUFFICES ASSUME NEW n \in applied, n.call = c, n.attempt = m.attempt PROVE FALSE
      BY <1>1, DeliveredBy
    <3>2. n \in Request /\ n.key = m.key
      BY <2>2, <3>1 DEF IInv, RequestsOwned, Owned, TypeOK
    <3>3. n = m
      BY <1>1, <3>1, <3>2 DEF Request
    <3> QED BY <2>2, <3>1, <3>3
  <2>6. Deliveries' = [Deliveries EXCEPT ![c] = @ \cup {m.attempt}]
    <3>1. ASSUME NEW d \in Calls
          PROVE  {n.attempt : n \in Effects(d)'}
                   = IF d = c THEN {n.attempt : n \in Effects(d)} \cup {m.attempt}
                              ELSE {n.attempt : n \in Effects(d)}
      BY <2>1 DEF Effects
    <3> QED BY <3>1 DEF Deliveries
  <2>7. Promise!Deliver(c)
    BY <1>1, <1>2, <2>2, <2>3, <2>4, <2>5, <2>6 DEF Promise!Deliver
  <2> QED BY <1>1, <2>7 DEF Promise!Next
<1> QED BY <1>3, <1>4

\* The retry loop and the API implement the promise made to the caller.
THEOREM Refinement == Spec => PromiseKept
<1>1. Init => Promise!Init
  BY DEF Init, HttpInit, Promise!Init, Deliveries, Effects, Verdicts, Verdict
<1>2. IInv /\ [Next]_vars => [Promise!Next]_(Promise!promiseVars)
  <2> SUFFICES ASSUME IInv, [Next]_vars PROVE [Promise!Next]_(Promise!promiseVars)
    OBVIOUS
  <2>1. CASE UNCHANGED vars
    BY <2>1 DEF vars, Promise!promiseVars, Deliveries, Effects, Verdicts, Verdict,
                Succeeded, Refused
  <2> QED BY <2>1, CallSimulates, ApiSimulates DEF Next, ApiStep
<1> QED BY Invariance, <1>1, <1>2, PTL DEF Spec, PromiseKept, Promise!Spec

\* Every step of a call brings it nearer to its end, for any number of calls and
\* any max_retries: the bound behind Termination, without the fairness.
THEOREM Advancing == Spec => CallsAdvance
<1>1. IInv /\ IInv' /\ [Next]_vars => [Advance]_httpVars
  <2> SUFFICES ASSUME IInv, IInv', [Next]_vars PROVE Advance
    OBVIOUS
  <2>1. (\E c \in Calls : CallStep(c)) \/ UNCHANGED <<pc, attempt>>
    BY ApiFrame DEF Next, ApiStep, vars, IInv
  <2> QED BY <2>1, Advances DEF IInv, TypeOK
<1> QED BY Invariance, <1>1, PTL DEF Spec, CallsAdvance
=============================================================================
