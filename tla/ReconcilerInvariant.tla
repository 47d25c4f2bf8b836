------------------------- MODULE ReconcilerInvariant -------------------------
(***************************************************************************)
(* Why the properties of the loop hold: inductive invariants, one named    *)
(* part per fact about the copies and the plan in flight.  TLC checks them *)
(* as invariants; ReconcilerProofs (IInv, why ClientsHeld, AtMostOneClient *)
(* and LifecycleSpec hold), SecretProofs and SettledProofs prove them.     *)
(***************************************************************************)
EXTENDS ReconcilerProperties

Held == cr.exists /\ cr.finalizer

\* A copy of the resource from which the worker would go on to create a client.
Vouches(copy) == copy.exists /\ copy.finalizer /\ ~copy.deleting

\* What a copy of an existing resource has, and room for the deletion's generation.
ResourceShape ==
    /\ cr.exists => cr.scopes \in Scopes
    /\ crCache.exists => crCache.scopes \in Scopes
    /\ pc # "idle" => instance.exists /\ instance.scopes \in Scopes
    /\ ~cr.deleting => cr.generation <= MaxGeneration

\* The finalizer is what keeps a deleted resource around.
DeletingHeld == cr.deleting => Held

\* However old the copy: only the worker takes the finalizer away, and it has
\* seen the deletion when it does.
CacheVouches == Vouches(crCache) => Held

CopiesCurrent ==
    /\ "cache" \in crFresh => crCache = cr
    /\ pc # "idle" /\ "instance" \in crFresh => instance = cr

\* The informer never goes back behind a deletion the worker has read.
DeletionSeen ==
    pc # "idle" /\ instance.deleting /\ "instance" \in crFresh => ~Vouches(crCache)

\* Before the finalizer is recorded, and ever after.
RecordingNew == pc = "record" => instance.exists /\ ~instance.deleting

WorkingHeld == pc \notin {"idle", "record"} /\ ~instance.deleting => Held

\* Commands in flight have keys, and know their client as soon as there is one: the
\* assertion of UpdateSecretContentCommand that a client id is there.
InFlight == pc \in {"exec", "postJwks"}

PlanComplete ==
    InFlight => /\ todo # <<>>
                /\ ~instance.deleting => jwks \in JwksType
                /\ target = Null => pc = "exec" /\ Head(todo) = "CreateClientInApi"

\* A client is created first thing, when there is none, and never in a cleanup.
CreatesFirst ==
    InFlight => \A i \in 2..Len(todo) : todo[i] # "CreateClientInApi"

CreatesWhenNone ==
    pc = "exec" /\ Head(todo) = "CreateClientInApi"
      => ~instance.deleting /\ clients = {}

PostsForNew == pc = "postJwks" => ~instance.deleting

\* A cleanup ends with the one client there may be.
CleanupTodo == {<<"DeleteClientInApi">>, <<"DeleteSecretContent", "DeleteClientInApi">>}

CleanupCoversClient ==
    /\ pc = "exec" /\ instance.deleting
         => todo \in CleanupTodo /\ LiveIds \subseteq {target}
    /\ pc = "status" /\ instance.deleting => clients = {}

\* What is true of the copies of the resource, and of the commands in flight.
Copies ==
    /\ ResourceShape /\ DeletingHeld
    /\ CacheVouches /\ CopiesCurrent
    /\ DeletionSeen /\ RecordingNew /\ WorkingHeld

Commands ==
    /\ PlanComplete
    /\ CreatesFirst /\ CreatesWhenNone /\ PostsForNew
    /\ CleanupCoversClient

IInv == TypeOK /\ ClientsHeld /\ AtMostOneClient /\ Copies /\ Commands

-----------------------------------------------------------------------------
(* Why SecretNamesLiveClient, UploadCoversSecret and ReleasedClean hold as *)
(* long as the controller does not read a stale secret.                    *)

\* Without lag, what fetchCurrentState lists is the secret.
SecretCopyCurrent == "cache" \in secretFresh => secretCache = secret

\* What is left of the plans for a live resource.
LiveTodo ==
    {CreateCommands, RecoverCommands,
     <<"UpdateSecretContent">>,
     <<"UpdateSecretContent", "UpdateClientJwks">>,
     <<"UpdateSecretContent", "UpdateClientJwks", "UpdateClientScopes">>,
     <<"UpdateSecretContent", "UpdateClientScopes">>,
     <<"UpdateClientJwks">>,
     <<"UpdateClientJwks", "UpdateClientScopes">>,
     <<"UpdateClientScopes">>}

PlanKnown ==
    /\ InFlight => todo \in IF instance.deleting THEN CleanupTodo ELSE LiveTodo
    /\ pc = "postJwks" => todo = CreateCommands

\* The client goes after the credentials.
ClearedFirst ==
    /\ pc = "exec" /\ todo = <<"DeleteClientInApi">> => secret.content = Null
    /\ pc = "status" /\ instance.deleting => secret.content = Null

\* Keys that are about to be registered are those of the document, if there is one for
\* that client.
RegistersWritten ==
    /\ pc = "exec" /\ Head(todo) = "UpdateClientJwks"
         => JwksOf(secret.content) \subseteq Range(jwks)
    /\ pc = "postJwks" => IdOf(secret.content) # target

FinalizerHeld == cr.finalizer => cr.exists

CommandsOnSecret == PlanKnown /\ ClearedFirst /\ RegistersWritten

SecretInv == SecretCopyCurrent /\ CommandsOnSecret /\ FinalizerHeld

\* If nobody else deletes clients, the one a call works on is there, and the document's.
TargetLive == InFlight /\ target # Null => target \in LiveIds

ClientNamed == TargetLive /\ SecretNamesLiveClient

-----------------------------------------------------------------------------
(* Why HealthyKeyKept holds, whatever copy of the secret a plan starts from. *)

\* A key set has its newest key in front, so that this is the active one.
NewestFirst(s) == \A i \in DOMAIN s : remaining[s[i]] <= remaining[s[1]]

KeysOrdered ==
    /\ NewestFirst(jwks)
    /\ secret.content # Null => NewestFirst(secret.content.jwks)
    /\ secretCache.content # Null => NewestFirst(secretCache.content.jwks)

\* The copy a call holds, it has listed.
ManifestHeld == pc \in {"idle", "record", "fetch"} => "manifest" \notin secretFresh

\* As long as an update of the secret would be accepted, the keys it would write are
\* those of the document, or follow on its active one, which is due.
KeysFollow ==
    InFlight /\ ~instance.deleting /\ "manifest" \in secretFresh /\ secret.content # Null
      => \/ jwks = secret.content.jwks
         \/ /\ remaining[secret.content.jwks[1]] <= RotationThreshold
            /\ secret.content.jwks[1] \in Range(jwks)

KeyInv == SecretCopyCurrent /\ KeysOrdered /\ ManifestHeld /\ KeysFollow

-----------------------------------------------------------------------------
(* Why SettledMeansRegistered holds, without lag and until a call fails. *)

DocumentRegistered ==
    secret.content # Null
      => \A c \in clients : c.id = IdOf(secret.content)
                              => secret.content.jwks[1] \in c.keys

\* The document is ahead of the client only between the two commands of a rotation.
Registering == pc = "exec" /\ Head(todo) = "UpdateClientJwks"

Rotating == Len(todo) >= 2 /\ todo[2] = "UpdateClientJwks"

\* Every other command that writes the document, writes a key that is registered.
WritesRegistered ==
    pc = "exec" /\ Head(todo) = "UpdateSecretContent" /\ ~Rotating
      => \A c \in clients : c.id = target => jwks[1] \in c.keys

RegisteredInv ==
    faults = 0 => /\ DocumentRegistered \/ Registering
                  /\ Registering => IdOf(secret.content) \in {Null, target}
                  /\ WritesRegistered

-----------------------------------------------------------------------------
(* Why SettledMeansApplied holds, as long as nobody else removes the       *)
(* secret or the client.                                                   *)

\* Two versions of a resource that the event filter takes for the same.
SameSpec(old, new) ==
    /\ old.exists = new.exists /\ old.generation = new.generation
    /\ old.scopes = new.scopes /\ old.deleting = new.deleting

\* What the informer has not seen, it will report.
SpecSeen == ~eventPending => SameSpec(crCache, cr)

\* What a call has not seen will be reported or is queued already.
InstanceSeen == pc # "idle" /\ ~eventPending /\ ~queued => SameSpec(instance, cr)

\* A deletion that has been read is this resource's, as long as there is a client left.
DeletionRead ==
    /\ crCache.deleting /\ (clients # {} \/ (pc # "idle" /\ ~instance.deleting))
         => cr.deleting
    /\ pc # "idle" /\ instance.deleting /\ clients # {} => cr.deleting

\* A document the controller would follow to a client is the secret's, unless that client
\* is to go.
DocumentFollowed ==
    secretCache.content # Null /\ IdOf(secretCache.content) \in LiveIds
      => IdOf(secretCache.content) = IdOf(secret.content) \/ cr.deleting

AppliedOrDue ==
    pc = "idle" /\ cr.exists /\ ~cr.deleting
      => queued \/ timer \/ eventPending \/ Applied

\* The app's secret is never there without having been deployed.
SecretThere ==
    /\ secretCache.exists \/ InFlight => secret.exists
    /\ secret.content # Null => secret.exists

SettledInv ==
    /\ SpecSeen /\ InstanceSeen
    /\ PlanKnown /\ TargetLive /\ SecretThere
    /\ DeletionRead /\ DocumentFollowed /\ AppliedOrDue

-----------------------------------------------------------------------------
(* Why ReconciledMeansApplied holds, as long as nobody else writes to the  *)
(* secret or the client, and until a call fails.                           *)

Due(command) == \E i \in DOMAIN todo : todo[i] = command

ObservedPast == cr.status.observedGeneration <= cr.generation

\* A call that could still report works on what the informer has seen.
ReportsSeen == pc # "idle" /\ "instance" \in crFresh => SameSpec(crCache, cr)

ReconciledSeen ==
    Reconciled => SameSpec(crCache, cr) /\ (pc # "idle" => SameSpec(instance, cr))

AppliedForInstance == \A c \in clients : c.scopes = instance.scopes

ReportsApplied == pc = "status" /\ ~instance.deleting => clients # {} /\ AppliedForInstance

\* A plan that leaves the scopes alone finds them right, or will not be completed.
PlanApplies ==
    InFlight /\ ~instance.deleting
      => \/ AppliedForInstance
         \/ Due("UpdateClientScopes")
         \/ Due("UpdateSecretContent") /\ "manifest" \notin secretFresh

\* An empty secret is listed as such only once: no stale copy of it is taken for it.
EmptySeen ==
    secretCache.exists /\ secretCache.content = Null /\ secret.content = Null
      => "cache" \in secretFresh

ClearsWritten ==
    pc = "exec" /\ Head(todo) = "DeleteSecretContent" /\ "manifest" \in secretFresh
      => secret.content # Null /\ secretCache.content # Null

\* Between calls a client has a document; only a creation and a cleanup leave it
\* without one for a while, and nothing stops them half way.
ClientDocumented ==
    clients # {} /\ secret.content = Null
      => InFlight /\ (instance.deleting => todo = <<"DeleteClientInApi">>)

CreatesOnEmpty ==
    InFlight /\ ~instance.deleting /\ secret.content = Null
      => "manifest" \in secretFresh /\ todo \in {CreateCommands, <<"UpdateSecretContent">>}

StatusTrue ==
    /\ ObservedPast /\ ReportsSeen /\ ReconciledSeen
    /\ ReconciledMeansApplied /\ ReportsApplied /\ PlanApplies

NothingHalfDone ==
    /\ EmptySeen /\ ClearsWritten
    /\ ClientDocumented /\ CreatesOnEmpty

AppliedInv == faults = 0 => StatusTrue /\ NothingHalfDone

=============================================================================
