---------------------------- MODULE UploadAttempt ----------------------------
(***************************************************************************)
(* What one native checkpoint attempt promises to its surroundings: it     *)
(* ends either with a published result whose objects all stay in           *)
(* checkpoint storage, or with nothing left behind.                        *)
(***************************************************************************)
CONSTANT Handles

VARIABLES outcome,   \* idle, running, abandoned, published, reclaimed
          objects,   \* objects of this attempt in checkpoint storage
          staged     \* the local checkpoint directory exists

vars == <<outcome, objects, staged>>

Init == outcome = "idle" /\ objects = {} /\ staged = FALSE

Begin == outcome = "idle" /\ outcome' = "running" /\ staged' = TRUE /\ UNCHANGED objects

\* The synchronous part failed before anything was created.
Reject == outcome = "idle" /\ outcome' = "reclaimed" /\ UNCHANGED <<objects, staged>>

\* Transfers go on for a while after the attempt has been given up.
Create(new) ==
    /\ outcome \in {"running", "abandoned"}
    /\ objects' = objects \cup new
    /\ UNCHANGED <<outcome, staged>>

Abandon == outcome = "running" /\ outcome' = "abandoned" /\ UNCHANGED <<objects, staged>>

\* The directory survives only as the task-local copy of the result.
Publish ==
    /\ outcome = "running"
    /\ outcome' = "published"
    /\ staged' \in {staged, FALSE}
    /\ UNCHANGED objects

Reclaim ==
    /\ outcome \in {"running", "abandoned"}
    /\ outcome' = "reclaimed"
    /\ objects' = {}
    /\ staged' = FALSE

Next ==
    \/ Begin \/ Reject \/ Abandon \/ Publish \/ Reclaim
    \/ \E new \in SUBSET Handles : Create(new)

\* An attempt that has begun comes to an end.
Spec == Init /\ [][Next]_vars /\ WF_vars(Publish \/ Reclaim)

==============================================================================
