---------------------------- MODULE VersionedObject ----------------------------
(***************************************************************************)
(* What get_kv, update_kv and delete_kv promise of one Vault object, with   *)
(* no requests, no retries and no answers that are lost: writers that may   *)
(* first read a version, and a write that happens at once.                  *)
(*                                                                         *)
(* A write that checks a version replaces that version or nothing, is not   *)
(* told of a conflict or a missing object unless that is so at the time,    *)
(* and is over once its caller has been told what came of it.               *)
(***************************************************************************)
CONSTANTS
  Writers,
  Versions,
  Initial,  \* the first of them
  NoCheck,  \* for a write that checks nothing
  Deleted   \* no version: the object is gone

VARIABLES
  object, \* its version
  past,   \* the versions that were written over
  check,  \* the version each writer has read
  wrote,  \* the writers that did write
  told    \* what each writer has been told

objectVars == <<object, past, check, wrote, told>>

Init ==
  /\ object = Initial
  /\ past = {}
  /\ check = [w \in Writers |-> NoCheck]
  /\ wrote = {}
  /\ told = [w \in Writers |-> "idle"]

Read(w) ==
  /\ told[w] = "idle"
  /\ object # Deleted
  /\ check' = [check EXCEPT ![w] = object]
  /\ UNCHANGED <<object, past, wrote, told>>

\* A write without any attempt ends as it begins.
Begin(w) ==
  /\ told[w] = "idle"
  /\ \E v \in {"open", "unknown"} : told' = [told EXCEPT ![w] = v]
  /\ UNCHANGED <<object, past, check, wrote>>

\* Perhaps after the writer has given up, but, with a check, not after it has
\* been told; an update makes a version that never was.
Write(w) ==
  /\ told[w] # "idle"
  /\ object # Deleted
  /\ check[w] \in {NoCheck, object}
  /\ check[w] # NoCheck => told[w] \in {"open", "unknown"}
  /\ object' \in (Versions \ (past \cup {object})) \cup {Deleted}
  /\ past' = past \cup {object}
  /\ wrote' = wrote \cup {w}
  /\ UNCHANGED <<check, told>>

Tell(w) ==
  /\ told[w] = "open"
  /\ \E v \in {"succeeded", "conflict", "missing", "unknown"} :
       /\ v = "succeeded" => w \in wrote
       /\ v = "conflict" => check[w] \notin {NoCheck, object}
       /\ v = "missing" => object = Deleted
       /\ told' = [told EXCEPT ![w] = v]
  /\ UNCHANGED <<object, past, check, wrote>>

Next == \E w \in Writers : Read(w) \/ Begin(w) \/ Write(w) \/ Tell(w)

Spec == Init /\ [][Next]_objectVars
=============================================================================
