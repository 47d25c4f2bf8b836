------------------------- MODULE ReconcilerProperties -------------------------
(***************************************************************************)
(* What makes the reconciliation loop correct.  Each property names the    *)
(* adversities it withstands; the runs give it exactly those.              *)
(***************************************************************************)
EXTENDS Reconciler

(***************************************************************************)
(* Under every adversity.                                                  *)
(***************************************************************************)

\* A client registered for the app is never orphaned: as long as there is one,
\* the resource it was made for exists and its finalizer brings the operator
\* back to clean up (loadInstance adds it before anything is created, and
\* updateStatus removes it last).
ClientsHeld == clients # {} => cr.exists /\ cr.finalizer

\* However often Reconcile is retried, with whatever copy of the secret, the app
\* has one client (the lookup by name in fetchCurrentState).
AtMostOneClient == \A c, d \in clients : c = d

\* A key handed to the app is replaced only when its certificate is about to end,
\* and stays in the document beside its successor (RotateIfNeeded, and the
\* resourceVersion under which the secret is updated).
HealthyKeyKept ==
    [][LET old == secret.content
           new == secret'.content
       IN old # Null /\ new # Null /\ new.jwks # old.jwks
            => /\ RotationDue(old.jwks, remaining)
               /\ ActiveKey(old.jwks, remaining) \in Range(new.jwks)]_vars

\* The promise about clients, implemented: see ClientLifecycle.
Lifecycle == INSTANCE ClientLifecycle
                 WITH held <- cr.exists /\ cr.finalizer, live <- LiveIds
LifecycleSpec == Lifecycle!Spec

(***************************************************************************)
(* As long as the controller does not read a stale cache.                  *)
(***************************************************************************)

\* Replacing the registered keys never cuts off a key the app was handed
\* (CreateClientJwks replaces the whole set).
UploadCoversSecret ==
    [][\A c \in clients : \A d \in clients' :
         /\ c.id = d.id /\ c.keys # d.keys
         /\ IdOf(secret.content) = c.id
         => JwksOf(secret.content) \subseteq d.keys]_vars

\* When the finalizer goes, no client and no credentials are left behind
\* (the order of the cleanup commands, and status last).
ReleasedClean ==
    [][cr.finalizer /\ ~cr'.finalizer => clients = {} /\ secret.content = Null]_vars

\* Unless someone else deletes the client, the document the app reads names a
\* client that exists (secret written after creation, cleared before deletion).
SecretNamesLiveClient == secret.content # Null => IdOf(secret.content) \in LiveIds

(***************************************************************************)
(* Whatever fails and however stale the caches, as long as nobody else     *)
(* removes the secret or the client.                                       *)
(***************************************************************************)

Settled == pc = "idle" /\ ~queued /\ ~timer /\ ~eventPending

Applied ==
    /\ secret.content # Null
    /\ \E c \in clients : c.id = IdOf(secret.content) /\ c.scopes = cr.scopes

\* When the controller has nothing left to do for a live resource, the client and
\* the document are there, as the resource asks.
SettledMeansApplied == Settled /\ cr.exists /\ ~cr.deleting => Applied

(***************************************************************************)
(* As long as nothing fails: conflicts and concurrent edits only.          *)
(***************************************************************************)

Reconciled ==
    /\ cr.exists /\ ~cr.deleting
    /\ cr.status.state = "reconciled"
    /\ cr.status.observedGeneration = cr.generation

\* "reconciled" at the current generation means that the API has a client, with the
\* scopes that generation asks for.
ReconciledMeansApplied ==
    Reconciled => clients # {} /\ \A c \in clients : c.scopes = cr.scopes

\* At rest the key the app signs with is registered: a rotation registers the keys
\* it wrote to the secret.
SigningKeyRegistered ==
    Settled /\ secret.content # Null
      => \A c \in clients : c.id = IdOf(secret.content)
                              => secret.content.jwks[1] \in c.keys

\* That needs the cache not to be stale and, so far, no call to have failed.
SettledMeansRegistered == faults = 0 => SigningKeyRegistered

(***************************************************************************)
(* Progress, under Fairness.                                               *)
(***************************************************************************)

Wants(s) == cr.exists /\ ~cr.deleting /\ cr.scopes = s /\ secret.exists
Serves(s) == \E c \in clients : /\ c.id = IdOf(secret.content)
                                /\ c.scopes = s
                                /\ secret.content.jwks[1] \in c.keys

\* Nothing has failed and nobody has interfered so far.
Undisturbed == faults = 0 /\ disruptions = 0

\* As long as there are concurrent edits only: scopes a user asks for, and goes on
\* asking for, reach the API, and the app is given a client with a registered key
\* (commands are planned again until nothing differs).
ScopesEventuallyServed ==
    \A s \in Scopes : Wants(s) ~> (Serves(s) \/ ~Wants(s) \/ ~Undisturbed)

\* As long as there are concurrent edits only: a deleted resource that has a client
\* is cleaned up and then goes away (updateStatus removes the finalizer).
DeletionCompletes ==
    (cr.deleting /\ clients # {} /\ secret.exists)
      ~> (~cr.deleting \/ ~secret.exists \/ ~Undisturbed)

\* Whatever fails, as often as it does, a deleted resource's client and credentials
\* go in the end: each failed cleanup command is tried again (the error Reconcile
\* returns puts the key back).
Clean == clients = {} /\ secret.content = Null
CleanupCompletes == (cr.deleting /\ secret.exists) ~> (Clean \/ ~secret.exists)

=============================================================================
