------------------------------ MODULE Reconciler ------------------------------
(***************************************************************************)
(* internal/controller: the reconciliation loop of one MaskinportenClient  *)
(* resource, together with everything it talks to:                         *)
(*                                                                         *)
(*   - the custom resource in the Kubernetes API server, edited by users;  *)
(*   - the app's Opaque secret, created by whoever deploys the app;        *)
(*   - the informer caches through which the controller reads both;        *)
(*   - the clients registered in the Maskinporten self-service API;        *)
(*   - the workqueue, its delayed entry (RequeueAfter) and the one worker. *)
(*                                                                         *)
(* A resourceVersion is compared for equality only, so it is modelled by   *)
(* the set of copies that still carry the latest one: a write empties the  *)
(* set, and an update whose copy is not in it is refused as a conflict.    *)
(***************************************************************************)
EXTENDS ClientState

CONSTANTS
    Adversity,        \* which of the adversities below the environment has
    MaxGeneration,    \* bound: generations of one incarnation of the resource
    MaxCreations,     \* bound: incarnations of the resource
    MaxFaults,        \* bound: failed calls and restarts
    MaxDisruptions    \* bound: acts of other actors on what the operator owns

AdversityKind ==
    {"lag", "touch", "touchSecret", "undeploy", "externalDelete", "restart", "expiry"}

ASSUME BoundsAssumption ==
    /\ Adversity \subseteq AdversityKind
    /\ MaxGeneration \in Nat \ {0}
    /\ MaxCreations \in Nat
    /\ MaxFaults \in Nat
    /\ MaxDisruptions \in Nat

VARIABLES
    \* the custom resource
    cr,             \* the object in the API server
    crCache,        \* the informer's copy
    crFresh,        \* the copies of cr that carry its resourceVersion
    eventPending,   \* an undelivered watch event passes the event filter
    \* the app's secret
    secret,         \* the object in the API server
    secretCache,    \* the informer's copy
    secretFresh,    \* the copies of secret that carry its resourceVersion
    \* the Maskinporten API
    clients,        \* the clients registered under the app's client name
    \* time and configuration
    remaining,      \* what is left of each certificate
    authority,      \* config.MaskinportenApi.AuthorityUrl of this process
    \* the controller
    queued,         \* the workqueue holds the resource's key
    timer,          \* a RequeueAfter is outstanding
    pc,             \* where the worker is in Reconcile
    instance,       \* req.Instance
    todo,           \* commands still to execute
    done,           \* executedCommands
    jwks,           \* the key set the commands carry, <<>> if none
    target,         \* the client the commands are about, Null if none
    \* what is left of the bounds
    faults, disruptions, creations

crVars == <<cr, crCache, crFresh, eventPending>>
secretVars == <<secret, secretCache, secretFresh>>
worldVars == <<remaining, authority>>
queueVars == <<queued, timer>>
localVars == <<pc, instance, todo, done, jwks, target>>
boundVars == <<faults, disruptions, creations>>
vars == <<crVars, secretVars, clients, worldVars, queueVars, localVars, boundVars>>

-----------------------------------------------------------------------------
(* Types *)

Status == [state : {"", "reconciled", "error"},
           observedGeneration : 0..(MaxGeneration + 1),
           clientId : ClientId \cup {Null}]
NoStatus == [state |-> "", observedGeneration |-> 0, clientId |-> Null]

Resource == [exists : BOOLEAN, generation : 0..(MaxGeneration + 1),
             scopes : Scopes \cup {Null}, deleting : BOOLEAN,
             finalizer : BOOLEAN, status : Status]
NoResource == [exists |-> FALSE, generation |-> 0, scopes |-> Null,
               deleting |-> FALSE, finalizer |-> FALSE, status |-> NoStatus]

\* The one Opaque secret that carries the app's label.
Secret == [exists : BOOLEAN, content : Content \cup {Null}]
NoSecret == [exists |-> FALSE, content |-> Null]

PC == {"idle", "record", "fetch", "exec", "postJwks", "status", "error"}

ResourceTypeOK ==
    /\ cr \in Resource /\ crCache \in Resource
    /\ crFresh \subseteq {"cache", "instance"}
    /\ eventPending \in BOOLEAN

SecretTypeOK ==
    /\ secret \in Secret /\ secretCache \in Secret
    /\ secretFresh \subseteq {"cache", "manifest"}

WorldTypeOK == remaining \in Lifetimes /\ authority \in Authority

QueueTypeOK == queued \in BOOLEAN /\ timer \in BOOLEAN

WorkerTypeOK ==
    /\ pc \in PC
    /\ instance \in Resource
    /\ todo \in Seq(CommandName) /\ Len(todo) <= 3
    /\ done \subseteq CommandName
    /\ jwks \in JwksType \cup {<<>>}
    /\ target \in ClientId \cup {Null}

BoundTypeOK ==
    /\ faults \in 0..MaxFaults
    /\ disruptions \in 0..MaxDisruptions
    /\ creations \in 0..MaxCreations

TypeOK ==
    /\ ResourceTypeOK /\ SecretTypeOK /\ clients \subseteq Client
    /\ WorldTypeOK /\ QueueTypeOK /\ WorkerTypeOK /\ BoundTypeOK

-----------------------------------------------------------------------------
(* Helpers *)

LiveIds == {c.id : c \in clients}

JwksOf(content) == IF content = Null THEN {} ELSE Range(content.jwks)
IdOf(content) == IF content = Null THEN Null ELSE content.clientId

\* Keys and client ids are drawn from random sources: a new one differs from
\* every one that is still written down anywhere.
UsedKeys == (UNION {c.keys : c \in clients}) \cup Range(jwks)
              \cup JwksOf(secret.content) \cup JwksOf(secretCache.content)
UsedIds == LiveIds \cup {IdOf(secret.content), IdOf(secretCache.content),
                         cr.status.clientId, target}
NewKey == CHOOSE k \in Key \ UsedKeys : TRUE

Fault == faults < MaxFaults /\ faults' = faults + 1
Disruption(kind) ==
    /\ kind \in Adversity
    /\ disruptions < MaxDisruptions
    /\ disruptions' = disruptions + 1

\* Without lag the controller only reads a cache that has caught up.
CanRead(fresh) == "lag" \in Adversity \/ "cache" \in fresh

\* The locals of a call of Reconcile that has returned.
Forget == /\ pc' = "idle"
          /\ instance' = NoResource
          /\ todo' = <<>> /\ done' = {} /\ jwks' = <<>> /\ target' = Null

\* A slip: errors are logged and not returned.
Return_SwallowsError(requeue) == Forget /\ UNCHANGED queued

\* Reconcile returns: an error puts the key back on the workqueue.
Return(requeue) == Forget /\ queued' = (queued \/ requeue)

\* Nothing is written; the copy the call held goes with it.
KeepResource == UNCHANGED cr /\ crFresh' = crFresh \ {"instance"}

-----------------------------------------------------------------------------
(* Users, deployers and everyone else *)

\* The writes that raise metadata.generation, or that add or remove the object.
WriteObserved(new) == cr' = new /\ crFresh' = {} /\ eventPending' = TRUE

CreateResource(s) ==
    /\ ~cr.exists
    /\ creations < MaxCreations
    /\ creations' = creations + 1
    /\ WriteObserved([NoResource EXCEPT !.exists = TRUE, !.generation = 1, !.scopes = s])
    /\ UNCHANGED <<crCache, secretVars, clients, worldVars, queueVars, localVars,
                   faults, disruptions>>

EditScopes(s) ==
    /\ cr.exists
    /\ cr.deleting => "touch" \in Adversity
    /\ s # cr.scopes
    /\ cr.generation < MaxGeneration
    /\ WriteObserved([cr EXCEPT !.scopes = s, !.generation = @ + 1])
    /\ UNCHANGED <<crCache, secretVars, clients, worldVars, queueVars, localVars,
                   boundVars>>

\* A label or an annotation is written: a new resourceVersion, the same generation.
TouchResource ==
    /\ cr.exists
    /\ Disruption("touch")
    /\ crFresh' = {}
    /\ UNCHANGED <<cr, crCache, eventPending, secretVars, clients, worldVars, queueVars,
                   localVars, faults, creations>>

DeleteResource ==
    /\ cr.exists /\ ~cr.deleting
    /\ WriteObserved(IF cr.finalizer
                     THEN [cr EXCEPT !.deleting = TRUE, !.generation = @ + 1]
                     ELSE NoResource)
    /\ UNCHANGED <<crCache, secretVars, clients, worldVars, queueVars, localVars,
                   boundVars>>

DeployApp ==
    /\ ~secret.exists
    /\ secret' = [exists |-> TRUE, content |-> Null]
    /\ secretFresh' = {}
    /\ UNCHANGED <<crVars, secretCache, clients, worldVars, queueVars, localVars, boundVars>>

UndeployApp ==
    /\ secret.exists
    /\ Disruption("undeploy")
    /\ secret' = NoSecret
    /\ secretFresh' = {}
    /\ UNCHANGED <<crVars, secretCache, clients, worldVars, queueVars, localVars,
                   faults, creations>>

\* A deployment writes the secret's other entries.
TouchSecret ==
    /\ secret.exists
    /\ Disruption("touchSecret")
    /\ secretFresh' = {}
    /\ UNCHANGED <<crVars, secret, secretCache, clients, worldVars, queueVars, localVars,
                   faults, creations>>

DeleteClientExternally(c) ==
    /\ c \in clients
    /\ Disruption("externalDelete")
    /\ clients' = clients \ {c}
    /\ UNCHANGED <<crVars, secretVars, worldVars, queueVars, localVars, faults, creations>>

\* A key nobody has yet still has its whole lifetime ahead.
Tick ==
    /\ "expiry" \in Adversity
    /\ remaining' = [k \in Key |-> IF k \notin UsedKeys THEN Lifetime
                                   ELSE IF remaining[k] = 0 THEN 0
                                   ELSE remaining[k] - 1]
    /\ UNCHANGED <<crVars, secretVars, clients, authority, queueVars, localVars, boundVars>>

-----------------------------------------------------------------------------
(* Informers, the delayed queue and the process *)

\* GenerationChangedPredicate: updates that leave the generation alone, of the
\* status or the metadata, do not reach the workqueue.
SyncResource ==
    /\ "cache" \notin crFresh
    /\ crCache' = cr
    /\ crFresh' = crFresh \cup {"cache"}
    /\ queued' = (queued \/ eventPending)
    /\ eventPending' = FALSE
    /\ UNCHANGED <<cr, secretVars, clients, worldVars, timer, localVars, boundVars>>

\* Every SyncPeriod the informer reports its copy again, as an update from itself
\* to itself, and the same filter looks at it.
GenerationChanged(old, new) == old.generation # new.generation

Resync ==
    /\ crCache.exists
    /\ queued' = (queued \/ GenerationChanged(crCache, crCache))
    /\ UNCHANGED <<crVars, secretVars, clients, worldVars, timer, localVars, boundVars>>

\* Nothing watches secrets: their events fill the cache and wake nobody.
SyncSecret ==
    /\ "cache" \notin secretFresh
    /\ secretCache' = secret
    /\ secretFresh' = secretFresh \cup {"cache"}
    /\ UNCHANGED <<crVars, secret, clients, worldVars, queueVars, localVars, boundVars>>

TimerFires ==
    /\ timer
    /\ timer' = FALSE
    /\ queued' = TRUE
    /\ UNCHANGED <<crVars, secretVars, clients, worldVars, localVars, boundVars>>

\* The process ends anywhere in Reconcile and starts again, maybe with another
\* authority; the caches are filled before the first call of Reconcile.
Restart ==
    /\ "restart" \in Adversity
    /\ Fault
    /\ authority' \in Authority
    /\ crCache' = cr /\ crFresh' = {"cache"} /\ eventPending' = FALSE
    /\ secretCache' = secret /\ secretFresh' = {"cache"}
    /\ queued' = cr.exists /\ timer' = FALSE
    /\ Forget
    /\ UNCHANGED <<cr, secret, clients, remaining, disruptions, creations>>

-----------------------------------------------------------------------------
(* Reconcile: loading the resource *)

\* Optimistic concurrency of the API server.
ResourceWriteAccepted_Unchecked == cr.exists                   \* slips
SecretWriteAccepted_Unchecked == secret.exists
ResourceWriteAccepted == "instance" \in crFresh
SecretWriteAccepted == "manifest" \in secretFresh

LoadInstance ==
    /\ pc = "idle" /\ queued
    /\ CanRead(crFresh)
    /\ queued' = FALSE
    /\ IF crCache.exists
       THEN /\ instance' = crCache
            /\ crFresh' = (crFresh \ {"instance"})
                            \cup (IF "cache" \in crFresh THEN {"instance"} ELSE {})
            /\ pc' = IF crCache.deleting \/ crCache.finalizer THEN "fetch" ELSE "record"
       ELSE UNCHANGED <<instance, crFresh, pc>>      \* NotFound is ignored
    /\ UNCHANGED <<cr, crCache, eventPending, secretVars, clients, worldVars, timer,
                   todo, done, jwks, target, boundVars>>

\* updateStatus "recorded" writes the object, and with it not its status: only
\* the finalizer arrives.  Failing here reports no error status.
RecordFinalizer ==
    /\ pc = "record"
    /\ \/ /\ ResourceWriteAccepted
          /\ cr' = [cr EXCEPT !.finalizer = TRUE]
          /\ \/ /\ pc' = "fetch"
                /\ instance' = cr'
                /\ crFresh' = {"instance"}
                /\ UNCHANGED <<todo, done, jwks, target, queued, faults>>
             \/ /\ Fault                              \* the answer is lost
                /\ crFresh' = {}
                /\ Return(TRUE)
       \/ /\ Fault
          /\ Return(TRUE)
          /\ KeepResource
       \/ /\ ~ResourceWriteAccepted
          /\ Return(cr.exists)                       \* a NotFound is ignored here too
          /\ KeepResource
          /\ UNCHANGED faults
    /\ UNCHANGED <<crCache, eventPending, secretVars, clients, worldVars, timer,
                   disruptions, creations>>

-----------------------------------------------------------------------------
(* Reconcile: fetchCurrentState, and the plan computed from it *)

\* By the id in the document (none: the API answers 404), else by client name.
\* A slip: no document is taken to mean no client.
MatchingClients_ByIdOnly(content) ==
    IF content # Null THEN {c \in clients : c.id = content.clientId} ELSE {Null}

MatchingClients(content) ==
    IF content # Null THEN {c \in clients : c.id = content.clientId}
    ELSE IF clients = {} THEN {Null}
    ELSE clients

\* No command: neither the status nor the finalizer is written, nothing is requeued.
NoActions(commands) == commands = <<>>

FetchCurrentState ==
    /\ pc = "fetch"
    /\ CanRead(secretFresh)
    /\ secretCache.exists
    /\ \E client \in MatchingClients(secretCache.content) :
         LET content == secretCache.content
             commands == Plan(instance.deleting, instance.scopes, client, content,
                              authority, remaining)
             newKey == NeedsKey(instance.deleting, client, content, remaining)
         IN /\ newKey => Key \ UsedKeys # {}
            /\ IF NoActions(commands)
               THEN Return(FALSE) /\ KeepResource /\ UNCHANGED <<secretFresh, remaining>>
               ELSE /\ pc' = "exec"
                    /\ todo' = commands
                    /\ target' = IF client = Null THEN Null ELSE client.id
                    /\ jwks' = IF instance.deleting THEN <<>>
                               ELSE PlannedJwks(client, content, remaining, NewKey)
                    /\ remaining' = IF newKey THEN [remaining EXCEPT ![NewKey] = Lifetime]
                                    ELSE remaining
                    /\ secretFresh' = secretFresh \cup
                         (IF "cache" \in secretFresh THEN {"manifest"} ELSE {})
                    /\ UNCHANGED <<cr, crFresh, instance, done, queued>>
    /\ UNCHANGED <<crCache, eventPending, secret, secretCache, clients, authority, timer, boundVars>>

\* No secret, a client the document names that the API does not know, or a read
\* that fails, which includes a secret that cannot be used: two of them, another
\* type than Opaque, or a document that does not decode.
FetchFails ==
    /\ pc = "fetch"
    /\ CanRead(secretFresh)
    /\ \/ /\ ~secretCache.exists \/ MatchingClients(secretCache.content) = {}
          /\ UNCHANGED faults
       \/ Fault
    /\ pc' = "error"
    /\ UNCHANGED <<crVars, secretVars, clients, worldVars, queueVars, instance, todo, done,
                   jwks, target, disruptions, creations>>

-----------------------------------------------------------------------------
(* Reconcile: executing the commands *)

Executing(command) == pc = "exec" /\ todo # <<>> /\ Head(todo) = command

\* The command is appended to executedCommands and the loop goes on.
Executed ==
    /\ todo' = Tail(todo)
    /\ done' = done \cup {Head(todo)}
    /\ pc' = IF Tail(todo) = <<>> THEN "status" ELSE "exec"

\* The loop ends with an error: the command is not among the executed ones.
Aborted == pc' = "error" /\ UNCHANGED <<todo, done>>

\* A call of another system: it succeeds, or it fails after having taken effect
\* (its answer is lost), or it fails without effect.
Call(effect, noEffect) ==
    \/ effect /\ Executed /\ UNCHANGED faults
    \/ effect /\ Fault /\ Aborted
    \/ noEffect /\ Fault /\ Aborted

\* CreateClient posts the client first, and its keys in a second request.
CreateClientInApi ==
    /\ Executing("CreateClientInApi")
    /\ \/ \E id \in ClientId \ UsedIds :
            /\ clients' = clients \cup {[id |-> id, scopes |-> instance.scopes, keys |-> {}]}
            /\ \/ /\ pc' = "postJwks"
                  /\ target' = id
                  /\ UNCHANGED <<todo, done, faults>>
               \/ Fault /\ Aborted /\ UNCHANGED target
       \/ Fault /\ Aborted /\ UNCHANGED <<clients, target>>
    /\ UNCHANGED <<crVars, secretVars, worldVars, queueVars, instance, jwks,
                   disruptions, creations>>

\* Writes to a client; a client that is gone answers 404.
Registered == target \in LiveIds
WithKeys == {IF c.id = target THEN [c EXCEPT !.keys = ToPublic(jwks)] ELSE c : c \in clients}
WithScopes == {IF c.id = target THEN [c EXCEPT !.scopes = instance.scopes] ELSE c : c \in clients}

WriteClient(new) ==
    /\ \/ Registered /\ Call(clients' = new, UNCHANGED clients)
       \/ ~Registered /\ Aborted /\ UNCHANGED <<clients, faults>>
    /\ UNCHANGED <<crVars, secretVars, worldVars, queueVars, instance, jwks, target,
                   disruptions, creations>>

PostClientJwks == pc = "postJwks" /\ WriteClient(WithKeys)
UpdateClientJwks == Executing("UpdateClientJwks") /\ WriteClient(WithKeys)
UpdateClientScopes == Executing("UpdateClientScopes") /\ WriteClient(WithScopes)
DeleteClientInApi ==
    Executing("DeleteClientInApi") /\ WriteClient({c \in clients : c.id # target})

\* Writes to the secret, from the copy that was listed.
WriteSecret(content) ==
    /\ \/ /\ SecretWriteAccepted
          /\ Call(/\ secret' = [secret EXCEPT !.content = content]
                  /\ secretFresh' = {},
                  UNCHANGED <<secret, secretFresh>>)
       \/ /\ ~SecretWriteAccepted
          /\ Aborted
          /\ UNCHANGED <<secret, secretFresh, faults>>
    /\ UNCHANGED <<crVars, secretCache, clients, worldVars, queueVars, instance, jwks, target,
                   disruptions, creations>>

UpdateSecretContent ==
    /\ Executing("UpdateSecretContent")
    /\ WriteSecret([clientId |-> target, authority |-> authority, jwks |-> jwks])
DeleteSecretContent == Executing("DeleteSecretContent") /\ WriteSecret(Null)

-----------------------------------------------------------------------------
(* Reconcile: reporting *)

\* The in-memory status: every report claims the generation that was read.
Report(state) ==
    [state |-> state,
     observedGeneration |-> instance.generation,
     clientId |-> IF "DeleteClientInApi" \in done THEN Null
                  ELSE IF done \cap {"CreateClientInApi", "UpdateClientJwks",
                                     "UpdateClientScopes"} # {} THEN target
                  ELSE instance.status.clientId]

DropManifest == secretFresh' = secretFresh \ {"manifest"}

\* A slip: a deletion is reported like anything else.
ReportSuccess_KeepsFinalizer ==
    /\ ResourceWriteAccepted
    /\ crFresh' = {}
    /\ cr' = [cr EXCEPT !.status = Report("reconciled")]
    /\ UNCHANGED eventPending

\* A deletion ends with the removal of the finalizer, which removes the object.
ReportSuccess ==
    /\ ResourceWriteAccepted
    /\ crFresh' = {}
    /\ IF instance.deleting
       THEN cr' = NoResource /\ eventPending' = TRUE
       ELSE cr' = [cr EXCEPT !.status = Report("reconciled")] /\ UNCHANGED eventPending

UpdateStatus ==
    /\ pc = "status"
    /\ DropManifest
    /\ \/ /\ ReportSuccess
          /\ \/ Return(FALSE) /\ timer' = TRUE /\ UNCHANGED faults
             \/ Return(TRUE) /\ Fault /\ UNCHANGED timer      \* the answer is lost
       \/ /\ Return(TRUE)
          /\ Fault \/ (~ResourceWriteAccepted /\ UNCHANGED faults)
          /\ KeepResource
          /\ UNCHANGED <<eventPending, timer>>
    /\ UNCHANGED <<crCache, secret, secretCache, clients, worldVars, disruptions, creations>>

\* The outcome of the status update is ignored, the original error returned.
UpdateStatusWithError ==
    /\ pc = "error"
    /\ DropManifest
    /\ Return(TRUE)
    /\ \/ /\ ResourceWriteAccepted
          /\ cr' = [cr EXCEPT !.status = Report("error")]
          /\ crFresh' = {}
          /\ UNCHANGED faults
       \/ /\ Fault \/ (~ResourceWriteAccepted /\ UNCHANGED faults)
          /\ KeepResource
    /\ UNCHANGED <<crCache, eventPending, secret, secretCache, clients, worldVars, timer,
                   disruptions, creations>>

-----------------------------------------------------------------------------
(* The specification *)

Init ==
    /\ cr = NoResource /\ crCache = NoResource /\ crFresh = {"cache"}
    /\ eventPending = FALSE
    /\ secret = NoSecret /\ secretCache = NoSecret /\ secretFresh = {"cache"}
    /\ clients = {}
    /\ remaining = [k \in Key |-> Lifetime]
    /\ authority \in Authority
    /\ queued = FALSE /\ timer = FALSE
    /\ pc = "idle" /\ instance = NoResource
    /\ todo = <<>> /\ done = {} /\ jwks = <<>> /\ target = Null
    /\ faults = 0 /\ disruptions = 0 /\ creations = 0

Environment ==
    \/ \E s \in Scopes : CreateResource(s) \/ EditScopes(s)
    \/ TouchResource \/ DeleteResource
    \/ DeployApp \/ UndeployApp \/ TouchSecret
    \/ \E c \in clients : DeleteClientExternally(c)
    \/ Tick

Informers == SyncResource \/ Resync \/ SyncSecret \/ TimerFires

Reconcile ==
    \/ LoadInstance \/ RecordFinalizer
    \/ FetchCurrentState \/ FetchFails
    \/ CreateClientInApi \/ PostClientJwks
    \/ UpdateClientJwks \/ UpdateClientScopes \/ DeleteClientInApi
    \/ UpdateSecretContent \/ DeleteSecretContent
    \/ UpdateStatus \/ UpdateStatusWithError

Next == Environment \/ Informers \/ Restart \/ Reconcile

Spec == Init /\ [][Next]_vars

(***************************************************************************)
(* Watches deliver, resyncs come round, the delayed queue fires and the    *)
(* worker goes on.  Users, deployments, faults and the clock owe nothing.  *)
(***************************************************************************)
Fairness ==
    /\ WF_vars(SyncResource) /\ WF_vars(Resync)
    /\ WF_vars(SyncSecret)
    /\ WF_vars(TimerFires)
    /\ WF_vars(Reconcile)

FairSpec == Spec /\ Fairness

=============================================================================
