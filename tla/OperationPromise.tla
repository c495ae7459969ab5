-------------------------- MODULE OperationPromise --------------------------
(***************************************************************************)
(* What a caller of the WorkOS client may rely on, with no wire, no retry   *)
(* loop and no answers: an operation is delivered some number of times,     *)
(* within its budget, and the caller is told how it went.                   *)
(*                                                                         *)
(* Deliveries under one idempotency key exclude each other.  Deliveries of  *)
(* an operation without a key do not, and they may happen after the caller  *)
(* has been told.                                                           *)
(***************************************************************************)
EXTENDS Integers

CONSTANTS
  Calls,
  Keys,
  NoKey,
  Budget   \* Budget[c]: the deliveries c may cause, by name

VARIABLES
  key,        \* the key of each call, NoKey before it begins or without one
  deliveries, \* the deliveries of each call that took effect
  verdict     \* what its caller has been told

promiseVars == <<key, deliveries, verdict>>

Init ==
  /\ key = [c \in Calls |-> NoKey]
  /\ deliveries = [c \in Calls |-> {}]
  /\ verdict = [c \in Calls |-> "idle"]

Delivered(c) == deliveries[c] # {}

SameKey(c, d) == key[c] = key[d] /\ key[c] # NoKey

\* The operation took effect, if only through another call with its key.
Effective(c) == \E d \in Calls : Delivered(d) /\ (d = c \/ SameKey(c, d))

\* A call without a budget ends without having done anything.
Begin(c) ==
  /\ verdict[c] = "idle"
  /\ \E k \in Keys : key' = [key EXCEPT ![c] = k]
  /\ \E v \in {"open", "unknown"} : verdict' = [verdict EXCEPT ![c] = v]
  /\ UNCHANGED deliveries

Deliver(c) ==
  /\ verdict[c] # "idle"
  /\ \A d \in Calls : SameKey(c, d) => ~Delivered(d)
  /\ \E n \in Budget[c] \ deliveries[c] :
       deliveries' = [deliveries EXCEPT ![c] = @ \cup {n}]
  /\ UNCHANGED <<key, verdict>>

Conclude(c) ==
  /\ verdict[c] = "open"
  /\ \/ Effective(c) /\ verdict' = [verdict EXCEPT ![c] = "succeeded"]
     \/ \E v \in {"refused", "unknown"} : verdict' = [verdict EXCEPT ![c] = v]
  /\ UNCHANGED <<key, deliveries>>

Next == \E c \in Calls : Begin(c) \/ Deliver(c) \/ Conclude(c)

Spec == Init /\ [][Next]_promiseVars
=============================================================================
