------------------------------ MODULE VaultStore ------------------------------
(***************************************************************************)
(* Optimistic locking of a Vault object (src/workos/vault/_resource.py):    *)
(* callers that read the object with get_kv and write it with update_kv or  *)
(* delete_kv, passing the version they read as version_check, or nothing.   *)
(*                                                                         *)
(* A write is a PUT or a DELETE, which gets no idempotency key: its retries *)
(* and its late attempts are kept apart by the version check alone.  The    *)
(* API is not part of the repository: it applies a write whose version      *)
(* check is the current version or missing, and gives every update a        *)
(* version of its own, named here by the request that made it.              *)
(***************************************************************************)
EXTENDS HttpCall

CONSTANTS
  Initial,  \* the first version of the object
  NoCheck,  \* version_check=None
  Deleted   \* no version: the object is gone

\* The requests that calls can make within their budgets; they have no key.
Writes == UNION {[call : {c}, attempt : 0..ResolveMaxRetries(c), key : {NoKey}] : c \in Calls}

Versions == Writes \cup {Initial}

ASSUME VaultAssumption ==
  /\ Methods \subseteq {"put", "delete"}
  /\ KeyArguments = {NoKey}
  /\ Initial \notin Writes
  /\ NoCheck \notin Versions
  /\ Deleted \notin Versions \cup {NoCheck}

VARIABLES
  check,   \* the version_check of each call
  current, \* the object's version
  effects  \* the writes that took effect, each with the version it replaced

vaultVars == <<check, current, effects>>
vars == <<pc, method, key, attempt, outcome, status, wire, reply,
          check, current, effects>>

Effect == [request : Writes, over : Versions]

Init ==
  /\ HttpInit
  /\ check = [c \in Calls |-> NoCheck]
  /\ current = Initial
  /\ effects = {}
-----------------------------------------------------------------------------
\* Before it writes, a caller may read the object; the metadata it gets names
\* a version, or none.
GetKv(c) ==
  /\ pc[c] = "idle"
  /\ current # Deleted
  /\ check' = [check EXCEPT ![c] = current]
  /\ UNCHANGED <<httpVars, current, effects>>

UpdateKv(c) ==
  /\ method[c] = "put"
  /\ Start(c)
  /\ UNCHANGED vaultVars

DeleteKv(c) ==
  /\ method[c] = "delete"
  /\ Start(c)
  /\ UNCHANGED vaultVars

\* Variants: only the first attempt carries the check; the check is left out;
\* None is sent as a null, which is no version.
VersionCheckOnce(m) == IF m.attempt = 0 THEN check[m.call] ELSE NoCheck

VersionCheckOmitted(m) == NoCheck

VersionCheckNull(m) == IF check[m.call] = NoCheck THEN Deleted ELSE check[m.call]

\* The body of a PUT and the query of a DELETE are built before the loop.
VersionCheck(m) == check[m.call]

\* The rest of request() is that of HttpCall.
LoopStep(c) ==
  /\ pc[c] # "idle"
  /\ CallStep(c)
  /\ UNCHANGED vaultVars
-----------------------------------------------------------------------------
apiUnchanged == <<pc, method, key, attempt, outcome, status, check>>

Passes(m) == VersionCheck(m) \in {NoCheck, current}

\* The write takes effect; the answer may still be a failure.
ServeApply(m, s) ==
  /\ current # Deleted /\ Passes(m)
  /\ s < 400 \/ s >= 500
  /\ current' = IF method[m.call] = "put" THEN m ELSE Deleted
  /\ effects' = effects \cup {[request |-> m, over |-> current]}
  /\ wire' = wire \ {m}
  /\ Answer(m, s)
  /\ UNCHANGED apiUnchanged

\* 404 without an object, 409 for another version, any other failure at will.
Refusal(m, s) ==
  CASE s = 404 -> current = Deleted
    [] s = 409 -> current # Deleted /\ ~Passes(m)
    [] OTHER -> s >= 400

ServeRefuse(m, s) ==
  /\ Refusal(m, s)
  /\ wire' = wire \ {m}
  /\ Answer(m, s)
  /\ UNCHANGED apiUnchanged
  /\ UNCHANGED <<current, effects>>

\* A gateway answers while the request goes on.
GatewayFails(m, s) ==
  /\ s >= 500
  /\ Answer(m, s)
  /\ UNCHANGED apiUnchanged
  /\ UNCHANGED <<wire, current, effects>>

ApiStep ==
  \E m \in wire, s \in Statuses :
    ServeApply(m, s) \/ ServeRefuse(m, s) \/ GatewayFails(m, s)

Next ==
  \/ \E c \in Calls : GetKv(c) \/ UpdateKv(c) \/ DeleteKv(c) \/ LoopStep(c)
  \/ ApiStep

Spec == Init /\ [][Next]_vars
-----------------------------------------------------------------------------
TypeOK ==
  /\ HttpTypeOK
  /\ check \in [Calls -> Versions \cup {NoCheck}]
  /\ current \in Versions \cup {Deleted}
  /\ effects \subseteq Effect

Checked(c) == check[c] # NoCheck

EffectsOf(c) == {e \in effects : e.request.call = c}

\* A caller that is told of success has written over the version it had read,
\* once, whatever was retried or served late.
SuccessReplaces ==
  \A c \in Calls : Succeeded(c) /\ Checked(c) =>
    \E e \in effects : e.over = check[c] /\ EffectsOf(c) = {e}

\* A conflict tells that the version the caller had read is no longer the
\* current one; it may be the caller's own earlier attempt that replaced it.
ConflictIsReal ==
  \A c \in Calls : status[c] = 409 => \E e \in effects : e.over = check[c]

\* Once a checked write has been answered with success, a conflict or "not
\* found", no attempt of it that is still under way can touch the object.
SettledIsQuiet ==
  [][\A e \in effects' \ effects :
       LET c == e.request.call
       IN  Checked(c) => ~Succeeded(c) /\ status[c] \notin {404, 409}]_vars
-----------------------------------------------------------------------------
\* The version check does for a PUT or a DELETE what an idempotency key does
\* for a POST: writes that check one version exclude each other.
Verdicts == [c \in Calls |-> Verdict(c)]

CheckKeys == [c \in Calls |-> IF Started(c) THEN check[c] ELSE NoCheck]

Deliveries == [c \in Calls |-> {e.request.attempt : e \in EffectsOf(c)}]

Budgets == [c \in Calls |-> 0..ResolveMaxRetries(c)]

Promise == INSTANCE OperationPromise
  WITH NoKey <- NoCheck, Keys <- Versions \cup {NoCheck}, Budget <- Budgets,
       key <- CheckKeys, deliveries <- Deliveries, verdict <- Verdicts

CheckActsAsKey == Promise!Spec
-----------------------------------------------------------------------------
(***************************************************************************)
(* The object as its writers see it.                                       *)
(***************************************************************************)
Told(c) ==
  CASE Verdict(c) = "refused" /\ status[c] = 409 -> "conflict"
    [] Verdict(c) = "refused" /\ status[c] = 404 -> "missing"
    [] Verdict(c) = "refused" /\ status[c] \notin {404, 409} -> "unknown"
    [] OTHER -> Verdict(c)

Tidings == [c \in Calls |-> Told(c)]

Overwritten == {e.over : e \in effects}

Wrote == {c \in Calls : EffectsOf(c) # {}}

Object == INSTANCE VersionedObject
  WITH Writers <- Calls, object <- current, past <- Overwritten,
       wrote <- Wrote, told <- Tidings

\* Writers whose requests are retried, lost and served late write the object as
\* if each write happened at once: over the version that it checked, never after
\* its caller knows, and with a conflict only where there is one.
ObjectAtomic == Object!Spec
-----------------------------------------------------------------------------
(***************************************************************************)
(* The inductive invariant behind the safety properties.                   *)
(***************************************************************************)
\* A write has no key, belongs to its call, and is either under way or done;
\* one that passed a check replaced the version it checked.
WritesOwned ==
  /\ \A c \in Calls : key[c] = NoKey
  /\ wire \subseteq Writes
  /\ \A m \in wire : Owned(m)
  /\ \A e \in effects :
       /\ Owned(e.request)
       /\ e.request \notin wire
       /\ Checked(e.request.call) => e.over = check[e.request.call]

\* Versions form a chain: one that has been written over never comes back.
Chain ==
  /\ \A e \in effects : e.over # current
  /\ \A e, f \in effects : e.over = f.over \/ e.request = f.request => e = f
  /\ \A v \in {current} \cup {e.over : e \in effects} :
       v \in Writes => \E e \in effects : e.request = v

\* What a call has been told, or is about to be, holds for good.
AnswersTrue ==
  \A c \in Calls :
    /\ ResultKnown(c) => \E e \in effects : e.request = AttemptRequest(c)
    /\ StatusKnown(c, 409) => Checked(c) /\ check[c] # current
                               /\ \E e \in effects : e.over = check[c]
    /\ StatusKnown(c, 404) => current = Deleted

\* A check is a version that exists, or existed.
ChecksReal ==
  \A c \in Calls : check[c] \in {NoCheck, current} \cup {e.over : e \in effects}

IInv ==
  /\ TypeOK
  /\ LoopState
  /\ BudgetUsed
  /\ WritesOwned
  /\ Chain
  /\ ChecksReal
  /\ AnswersTrue
=============================================================================
