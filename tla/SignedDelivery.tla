---------------------------- MODULE SignedDelivery ----------------------------
(***************************************************************************)
(* Deliveries that WorkOS signs and an application verifies: webhooks       *)
(* (src/workos/webhooks) and requests to actions (src/workos/actions.py).   *)
(* A delivery bears the time of the sender's clock, in milliseconds; it may *)
(* be late, arrive again, or arrive altered.  The two clocks differ by a    *)
(* bounded skew.  A MAC is a function of its secret, time and body.         *)
(***************************************************************************)
EXTENDS Integers

CONSTANTS
  Secrets,
  Payloads,
  Steps,      \* by how much time goes on, in milliseconds
  Skew,       \* how far the clocks are apart at most, in milliseconds
  Skews,      \* how far they are apart
  Tolerances, \* what an application passes, in seconds
  Horizon,    \* when the model stops: a bound on time
  None

ASSUME DeliveryAssumption ==
  /\ Steps \subseteq Nat /\ Skew \in Nat /\ Tolerances \subseteq Nat /\ Horizon \in Nat
  /\ Skews \subseteq -Skew..Skew
  /\ None \notin Tolerances

VARIABLES
  now,    \* the application's clock
  sent,   \* the deliveries that were signed, and when
  verdict \* on a delivery that was verified, or None: verifying keeps nothing

deliveryVars == <<now, sent, verdict>>

Helpers == {"webhooks", "actions"}

Seconds == 1000

DEFAULT_TOLERANCE == [webhooks |-> 180, actions |-> 30]

Deliveries ==
  [at : 0..Horizon, stamp : -Skew..Horizon + Skew, secret : Secrets, payload : Payloads]

Verdicts ==
  [delivery : Deliveries, helper : Helpers, secret : Secrets, payload : Payloads,
   tolerance : Tolerances \cup {None}, at : 0..Horizon, accepted : BOOLEAN]

DeliveryInit ==
  /\ now = 0
  /\ sent = {}
  /\ verdict = None

\* The sender's clock is somewhere within the skew.
Sign(secret, payload, skew) ==
  /\ sent = {}   \* one delivery at a time, which bounds the model
  /\ sent' = {[at |-> now, stamp |-> now + skew, secret |-> secret, payload |-> payload]}
  /\ UNCHANGED <<now, verdict>>

Tick(step) ==
  /\ verdict = None
  /\ now + step <= Horizon
  /\ now' = now + step
  /\ UNCHANGED <<sent, verdict>>

\* Variant: a tolerance of 0 counts as none.
ToleranceOr(helper, tolerance) ==
  IF tolerance \in {None, 0} THEN DEFAULT_TOLERANCE[helper] ELSE tolerance

Tolerance(helper, tolerance) ==
  IF tolerance = None THEN DEFAULT_TOLERANCE[helper] ELSE tolerance

\* Variants: the stamp is taken for seconds; only old deliveries are refused.
OutsideInMilliseconds(stamp, tolerance) ==
  now - stamp > tolerance \/ stamp - now > tolerance

Outside(stamp, tolerance) ==
  now - stamp > tolerance * Seconds \/ stamp - now > tolerance * Seconds

\* The expected signature is computed from the stamp of the header, the body
\* that arrived, and the application's secret.
SignatureMatches(delivery, payload, secret) ==
  payload = delivery.payload /\ secret = delivery.secret

Verify(helper, delivery, payload, secret, tolerance) ==
  /\ verdict = None
  /\ verdict' =
       [delivery |-> delivery, helper |-> helper, secret |-> secret, payload |-> payload,
        tolerance |-> tolerance, at |-> now,
        accepted |-> /\ ~Outside(delivery.stamp, Tolerance(helper, tolerance))
                     /\ SignatureMatches(delivery, payload, secret)]
  /\ UNCHANGED <<now, sent>>

DeliveryNext ==
  \/ \E secret \in Secrets, payload \in Payloads, skew \in Skews :
       Sign(secret, payload, skew)
  \/ \E step \in Steps : Tick(step)
  \/ \E helper \in Helpers, delivery \in sent, payload \in Payloads, secret \in Secrets,
        tolerance \in Tolerances \cup {None} :
       Verify(helper, delivery, payload, secret, tolerance)

DeliverySpec == DeliveryInit /\ [][DeliveryNext]_deliveryVars
-----------------------------------------------------------------------------
DeliveryTypeOK ==
  /\ now \in 0..Horizon
  /\ sent \subseteq Deliveries
  /\ verdict \in Verdicts \cup {None}

\* What an application asked for: its own tolerance, 0 included, or 180 s for
\* a webhook and 30 s for an action.
Promised(v) ==
  Seconds * (IF v.tolerance # None THEN v.tolerance
             ELSE IF v.helper = "webhooks" THEN 180 ELSE 30)

\* A delivery is accepted only as it was signed, and no copy of it after the
\* promised tolerance, give or take the skew of the clocks, has gone by.
ReplayBounded ==
  verdict # None /\ verdict.accepted =>
    /\ verdict.payload = verdict.delivery.payload
    /\ verdict.secret = verdict.delivery.secret
    /\ verdict.at - verdict.delivery.at <= Promised(verdict) + Skew

\* A delivery that arrives unaltered within the tolerance, less the skew, is
\* accepted, from a clock that runs ahead as from one that runs behind.
RejectionsJustified ==
  verdict # None /\ ~verdict.accepted =>
    \/ verdict.payload # verdict.delivery.payload
    \/ verdict.secret # verdict.delivery.secret
    \/ verdict.at - verdict.delivery.at + Skew > Promised(verdict)
-----------------------------------------------------------------------------
\* The inductive invariant: what is delivered was signed before, within the
\* skew.
DeliveryIInv ==
  /\ DeliveryTypeOK
  /\ \A d \in sent : d.at <= now /\ d.stamp - d.at \in -Skew..Skew
  /\ ReplayBounded
  /\ RejectionsJustified
=============================================================================
