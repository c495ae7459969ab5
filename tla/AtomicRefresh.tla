---------------------------- MODULE AtomicRefresh ----------------------------
(***************************************************************************)
(* What refresh() promises of the Sessions it runs on, with no passwords,   *)
(* no seals, no POST and no attribute written before another: a refresh     *)
(* takes the token of its Session and, in one step, replaces it or fails.   *)
(*                                                                         *)
(* Where the API retires used tokens, no two refreshes replace one token,   *)
(* be it on two Sessions made from one cookie, and the token replaced is    *)
(* the one the refresh took.                                                *)
(***************************************************************************)
CONSTANTS
  Sessions,
  Refreshes,  \* they name the tokens they get
  SessionOf,
  Original,   \* the token the Sessions start with,
  Nothing,    \* unless they have none
  Retired     \* whether used tokens are retired

VARIABLES
  held,   \* the token each Session holds
  used,   \* the token each refresh has taken
  outcome \* of each refresh

refreshVars == <<held, used, outcome>>

Init ==
  /\ \E token \in {Original, Nothing} : held = [s \in Sessions |-> token]
  /\ used = [r \in Refreshes |-> Nothing]
  /\ outcome = [r \in Refreshes |-> "pending"]

Take(r) ==
  /\ outcome[r] = "pending" /\ used[r] = Nothing
  /\ held[SessionOf[r]] # Nothing
  /\ used' = [used EXCEPT ![r] = held[SessionOf[r]]]
  /\ UNCHANGED <<held, outcome>>

Replace(r) ==
  /\ outcome[r] = "pending" /\ used[r] # Nothing
  /\ Retired =>
       /\ held[SessionOf[r]] = used[r]
       /\ \A q \in Refreshes : outcome[q] = "replaced" => used[q] # used[r]
  /\ held' = [held EXCEPT ![SessionOf[r]] = r]
  /\ outcome' = [outcome EXCEPT ![r] = "replaced"]
  /\ UNCHANGED used

Fail(r) ==
  /\ outcome[r] = "pending"
  /\ outcome' = [outcome EXCEPT ![r] = "failed"]
  /\ UNCHANGED <<held, used>>

Next == \E r \in Refreshes : Take(r) \/ Replace(r) \/ Fail(r)

Spec == Init /\ [][Next]_refreshVars
-----------------------------------------------------------------------------
\* Where used tokens are retired, one Session at most ever gets past the token
\* that all of them were made with.
OneGoesOn ==
  Retired => \A s, t \in Sessions : held[s] \in Refreshes /\ held[t] \in Refreshes => s = t

\* A Session that holds a new token has replaced the original one, and nobody
\* else has replaced what it replaced; the two functions stay functions.
Descent ==
  /\ \A s \in Sessions : held[s] \in Refreshes \cup {Original, Nothing}
  /\ held = [s \in Sessions |-> held[s]]
  /\ outcome = [r \in Refreshes |-> outcome[r]]
  /\ Retired =>
       /\ \A q, r \in Refreshes :
            outcome[q] = "replaced" /\ outcome[r] = "replaced" /\ used[q] = used[r] => q = r
       /\ \A s \in Sessions : held[s] \in Refreshes =>
            \E r \in Refreshes :
              SessionOf[r] = s /\ outcome[r] = "replaced" /\ used[r] = Original
=============================================================================
