--------------------------- MODULE ReconcilerClaims ---------------------------
(***************************************************************************)
(* What comments and tests of the repository say of the reconciliation     *)
(* loop, where the loop does something else.  Each formula is refuted by   *)
(* one run, with the least adversity that takes.                           *)
(***************************************************************************)
EXTENDS ReconcilerProperties

\* client_state.go: the deletion timestamp makes the operator clean up and, as
\* Reconcile's comments go, remove the finalizer.  A resource with nothing (left)
\* to clean up yields no command, and without a command the finalizer stays.
DeletedResourceReleased ==
    (cr.deleting /\ secret.exists) ~> (~cr.deleting \/ ~secret.exists)

\* client_state.go: "Cert used in JWKS expires - will happen regularly", with
\* main.go's SyncPeriod to force reconciliations.  The resync does not pass the
\* event filter, and a call of Reconcile without commands sets no timer.
Expiring(k) == /\ secret.content # Null
               /\ ActiveKey(secret.content.jwks, remaining) = k
               /\ remaining[k] <= RotationThreshold
               /\ cr.exists /\ ~cr.deleting
ExpiringKeyRotated == \A k \in Key : Expiring(k) ~> ~Expiring(k)

\* client_state.go: "Update API before secret".  The secret is updated first; if
\* registering the keys then fails, no later reconciliation repeats it, and the app
\* is left signing with a key that is not registered.
RotatedKeyRegistered == SigningKeyRegistered

\* client_state.go: "There may be the case that the `api` resource is null, but the
\* secret output exists, in which case we just overwrite it".  The planner is never
\* asked: the id in the document makes fetchCurrentState fail, for ever.
Orphaned == /\ secret.content # Null
            /\ IdOf(secret.content) \notin LiveIds
            /\ cr.exists /\ ~cr.deleting
OrphanedContentOverwritten == (pc = "fetch" /\ Orphaned) ~> ~Orphaned

=============================================================================
