---------------------------- MODULE SettledProofs ----------------------------
(***************************************************************************)
(* Proofs that the controller does not stop early and does not report      *)
(* what is not so, for all values of the constants: what is at rest is     *)
(* applied, whatever fails; what is reported is, until a call has failed.  *)
(***************************************************************************)
EXTENDS SecretProofs

USE DEF vars, crVars, secretVars, worldVars, queueVars, localVars, boundVars

-----------------------------------------------------------------------------
(* The kinds of steps *)

World ==
    \/ \E s \in Scopes : CreateResource(s) \/ EditScopes(s)
    \/ TouchResource \/ DeleteResource \/ DeployApp \/ UndeployApp \/ TouchSecret
    \/ \E c \in clients : DeleteClientExternally(c)
    \/ Tick \/ SyncResource \/ Resync \/ SyncSecret \/ TimerFires
    \/ UNCHANGED vars

Around ==
    \/ Restart \/ RecordFinalizer \/ FetchFails \/ LoadInstance
    \/ UpdateStatus \/ UpdateStatusWithError

Writes ==
    \/ PostClientJwks \/ UpdateClientJwks \/ UpdateClientScopes
    \/ DeleteClientInApi \/ UpdateSecretContent \/ DeleteSecretContent

LEMMA Steps ==
    ASSUME [Next]_vars
    PROVE  World \/ Around \/ FetchCurrentState \/ CreateClientInApi \/ Writes
  BY DEF Next, Environment, Informers, Reconcile, World, Around, Writes

\* The world does not touch the worker.
LEMMA WorldSteps ==
    ASSUME World
    PROVE  UNCHANGED localVars /\ UNCHANGED faults
  BY DEF World, CreateResource, EditScopes, TouchResource, DeleteResource, DeployApp,
     UndeployApp, TouchSecret, DeleteClientExternally, Tick, SyncResource, Resync,
     SyncSecret, TimerFires

\* Before and after its commands a call leaves the clients and the secret alone.
LEMMA AroundSteps ==
    ASSUME Around
    PROVE  /\ UNCHANGED <<clients, secret>>
           /\ pc' \notin {"exec", "postJwks", "status"}
           /\ pc \in {"exec", "postJwks"} => Restart
  BY DEF Around, Restart, RecordFinalizer, FetchFails, LoadInstance, UpdateStatus,
     UpdateStatusWithError, Return, Forget

\* What has not failed so far, had not failed before.
LEMMA FaultsGrow ==
    ASSUME IInv, [Next]_vars, faults' = 0
    PROVE  faults = 0 /\ ~Fault /\ ~Restart
<1>0. faults \in Nat
  BY BoundsAssumption DEF IInv, TypeOK, BoundTypeOK
<1>1. ~Fault
  BY <1>0 DEF Fault
<1>2. ~Restart
  BY <1>1 DEF Restart
<1>3. UNCHANGED faults \/ Fault
  <2>1. CASE World
    BY <2>1, WorldSteps
  <2>2. CASE RecordFinalizer \/ FetchFails \/ LoadInstance
    BY <2>2 DEF RecordFinalizer, FetchFails, LoadInstance
  <2>3. CASE UpdateStatus \/ UpdateStatusWithError
    BY <2>3 DEF UpdateStatus, UpdateStatusWithError
  <2>4. CASE FetchCurrentState \/ CreateClientInApi
    BY <2>4 DEF FetchCurrentState, CreateClientInApi
  <2>5. CASE Writes
    BY <2>5 DEF Writes, PostClientJwks, UpdateClientJwks, UpdateClientScopes,
       DeleteClientInApi, UpdateSecretContent, DeleteSecretContent, WriteClient, WriteSecret,
       Call
  <2> QED
    BY <1>2, <2>1, <2>2, <2>3, <2>4, <2>5, Steps DEF Around
<1> QED
  BY <1>1, <1>2, <1>3

\* A plan made from a copy of the secret: without a client there is no document.
LEMMA Planning ==
    ASSUME IInv, FetchCurrentState
    PROVE  \E client \in MatchingClients(secretCache.content) :
             /\ client = Null => clients = {} /\ secretCache.content = Null
             /\ client # Null => client \in clients
             /\ LET p == Plan(instance.deleting, instance.scopes, client,
                              secretCache.content, authority, remaining)
                IN \/ /\ p = <<>> /\ Return(FALSE) /\ KeepResource
                      /\ UNCHANGED secretFresh
                   \/ /\ p # <<>> /\ pc' = "exec" /\ todo' = p
                      /\ target' = (IF client = Null THEN Null ELSE client.id)
                      /\ secretFresh' = secretFresh \cup
                           (IF "cache" \in secretFresh THEN {"manifest"} ELSE {})
                      /\ UNCHANGED <<cr, crFresh, instance, done, queued>>
<1> DEFINE content == secretCache.content
           p(client) == Plan(instance.deleting, instance.scopes, client, content,
                             authority, remaining)
<1>1. PICK client \in MatchingClients(content) :
         \/ p(client) = <<>> /\ Return(FALSE) /\ KeepResource /\ UNCHANGED secretFresh
         \/ /\ p(client) # <<>> /\ pc' = "exec" /\ todo' = p(client)
            /\ target' = (IF client = Null THEN Null ELSE client.id)
            /\ secretFresh' = secretFresh \cup
                 (IF "cache" \in secretFresh THEN {"manifest"} ELSE {})
            /\ UNCHANGED <<cr, crFresh, instance, done, queued>>
  BY DEF FetchCurrentState, NoActions
<1>2. clients \subseteq Client
  BY DEF IInv, TypeOK
<1>3. /\ client = Null => clients = {} /\ content = Null
      /\ client # Null => client \in clients
  BY <1>2, NullAssumption DEF MatchingClients
<1> QED
  BY <1>1, <1>3

\* Whatever is executed is what the planner put together.
LEMMA PlanKnownKept ==
    ASSUME IInv, PlanKnown, [Next]_vars
    PROVE  PlanKnown'
<1>1. CASE World
  BY <1>1, WorldSteps DEF PlanKnown, InFlight
<1>2. CASE Around
  BY <1>2, AroundSteps DEF PlanKnown, InFlight
<1>3. CASE FetchCurrentState
  <2> DEFINE content == secretCache.content
  <2>1. PICK client \in MatchingClients(content) :
           /\ client = Null => content = Null
           /\ LET p == Plan(instance.deleting, instance.scopes, client, content,
                            authority, remaining)
              IN \/ Return(FALSE)
                 \/ p # <<>> /\ pc' = "exec" /\ todo' = p /\ UNCHANGED instance
    BY <1>3, Planning
  <2>2. CASE Return(FALSE)
    BY <2>2 DEF Return, Forget, PlanKnown, InFlight
  <2>3. CASE ~Return(FALSE)
    <3> DEFINE p == Plan(instance.deleting, instance.scopes, client, content,
                         authority, remaining)
    <3>1. p # <<>> /\ pc' = "exec" /\ todo' = p /\ UNCHANGED instance
      BY <2>1, <2>3
    <3>2. instance.deleting \in BOOLEAN
      BY DEF IInv, TypeOK, WorkerTypeOK, Resource
    <3>3. p \in IF instance.deleting THEN CleanupTodo ELSE LiveTodo
      BY <2>1, <3>1, <3>2, PlanCases
    <3> HIDE DEF p
    <3> QED
      BY <3>1, <3>3 DEF PlanKnown
  <2> QED
    BY <2>2, <2>3
<1>4. CASE CreateClientInApi
  <2>1. ~instance.deleting /\ pc = "exec" /\ Head(todo) = "CreateClientInApi"
    BY <1>4, CreationAddsOne DEF CreateClientInApi, Executing
  <2>2. todo \in LiveTodo /\ todo = CreateCommands
    BY <2>1, LiveHead DEF PlanKnown, InFlight
  <2>3. UNCHANGED instance /\ (pc' = "error" \/ (pc' = "postJwks" /\ UNCHANGED todo))
    BY <1>4 DEF CreateClientInApi, Aborted
  <2> QED
    BY <2>1, <2>2, <2>3 DEF PlanKnown, InFlight
<1>5. CASE Writes
  <2> DEFINE rest == Tail(todo)
  <2>1. InFlight /\ UNCHANGED instance /\ (Aborted \/ Executed)
    BY <1>5, WritesAreCommands DEF InFlight, Writes
  <2>2. CASE Aborted
    BY <2>2 DEF Aborted, PlanKnown, InFlight
  <2>3. CASE Executed
    <3>1. todo' = rest /\ pc' = IF rest = <<>> THEN "status" ELSE "exec"
      BY <2>3 DEF Executed
    <3>2. todo \in IF instance.deleting THEN CleanupTodo ELSE LiveTodo
      BY <2>1 DEF PlanKnown
    <3>3. rest # <<>> /\ ~instance.deleting => rest \in LiveTodo
      BY <3>2, LiveTail
    <3>4. rest # <<>> /\ instance.deleting => rest \in CleanupTodo
      BY <3>2, CleanupSteps DEF CleanupTodo
    <3> HIDE DEF rest
    <3> QED
      BY <2>1, <3>1, <3>3, <3>4 DEF PlanKnown, InFlight
  <2> QED
    BY <2>1, <2>2, <2>3
<1> QED
  BY <1>1, <1>2, <1>3, <1>4, <1>5, Steps

-----------------------------------------------------------------------------
(* What the worker has seen of the resource *)

\* The event filter does not tell apart what differs in the finalizer or the status.
LEMMA SameSpecKept ==
    ASSUME cr \in Resource,
           \/ cr' = cr \/ cr' = [cr EXCEPT !.finalizer = TRUE]
           \/ \E st : cr' = [cr EXCEPT !.status = st]
    PROVE  SameSpec(cr', cr) /\ SameSpec(cr, cr')
  BY DEF SameSpec, Resource

\* An edit is an event.
LEMMA ResourceWrites ==
    ASSUME IInv, [Next]_vars
    PROVE  \/ SameSpec(cr', cr) /\ SameSpec(cr, cr')
           \/ eventPending'
<1>0. cr \in Resource
  BY DEF IInv, TypeOK, ResourceTypeOK
<1>1. CASE World
  BY <1>1 DEF World, SameSpec, CreateResource, EditScopes, TouchResource, DeleteResource,
     DeployApp, UndeployApp, TouchSecret, DeleteClientExternally, Tick, SyncResource, Resync,
     SyncSecret, TimerFires, WriteObserved
<1>2. CASE FetchCurrentState
  BY <1>0, <1>2, SameSpecKept DEF FetchCurrentState, KeepResource
<1>3. CASE CreateClientInApi
  BY <1>0, <1>3, SameSpecKept DEF CreateClientInApi
<1>4. CASE Writes
  BY <1>0, <1>4, SameSpecKept, WritesAreCommands DEF Writes
<1>5. CASE Restart \/ FetchFails \/ LoadInstance
  BY <1>0, <1>5, SameSpecKept DEF Restart, FetchFails, LoadInstance
<1>6. CASE RecordFinalizer
  BY <1>0, <1>6, SameSpecKept DEF RecordFinalizer, KeepResource
<1>7. CASE UpdateStatusWithError
  BY <1>0, <1>7, SameSpecKept DEF UpdateStatusWithError, KeepResource
<1>8. CASE UpdateStatus
  BY <1>0, <1>8, SameSpecKept DEF UpdateStatus, ReportSuccess, KeepResource
<1> QED
  BY <1>1, <1>2, <1>3, <1>4, <1>5, <1>6, <1>7, <1>8, Steps DEF Around

\* An event stays until the informer's copy is the resource.
LEMMA EventsStay ==
    ASSUME [Next]_vars, ~eventPending'
    PROVE  \/ crCache' = cr' /\ UNCHANGED cr /\ (SyncResource \/ Restart)
           \/ UNCHANGED <<crCache, eventPending>>
<1>1. CASE World
  BY <1>1 DEF World, CreateResource, EditScopes, TouchResource, DeleteResource,
     DeployApp, UndeployApp, TouchSecret, DeleteClientExternally, Tick, SyncResource, Resync,
     SyncSecret, TimerFires, WriteObserved
<1>2. CASE FetchCurrentState \/ CreateClientInApi
  BY <1>2 DEF FetchCurrentState, CreateClientInApi
<1>3. CASE Writes
  BY <1>3, WritesAreCommands DEF Writes
<1>4. CASE Around
  BY <1>4 DEF Around, Restart, FetchFails, LoadInstance, RecordFinalizer,
     UpdateStatusWithError, UpdateStatus, ReportSuccess
<1> QED
  BY <1>1, <1>2, <1>3, <1>4, Steps

\* What the informer has not seen, it will report.
LEMMA SpecSeenKept ==
    ASSUME IInv, SpecSeen, [Next]_vars
    PROVE  SpecSeen'
<1> SUFFICES ASSUME ~eventPending' PROVE SameSpec(crCache', cr')
  BY DEF SpecSeen
<1>1. CASE crCache' = cr'
  BY <1>1 DEF SameSpec
<1>2. CASE UNCHANGED <<crCache, eventPending>>
  <2>1. SameSpec(crCache, cr)
    BY <1>2 DEF SpecSeen
  <2>2. SameSpec(cr, cr')
    BY ResourceWrites
  <2> QED
    BY <1>2, <2>1, <2>2 DEF SameSpec
<1> QED
  BY <1>1, <1>2, EventsStay

\* The key stays on the workqueue until the worker takes it.
LEMMA QueuedStays ==
    ASSUME [Next]_vars, queued, ~queued'
    PROVE  LoadInstance \/ Restart
<1>1. CASE World
  BY <1>1 DEF World, CreateResource, EditScopes, TouchResource, DeleteResource,
     DeployApp, UndeployApp, TouchSecret, DeleteClientExternally, Tick, SyncResource, Resync,
     SyncSecret, TimerFires
<1>2. CASE FetchCurrentState \/ CreateClientInApi
  BY <1>2 DEF FetchCurrentState, CreateClientInApi, Return
<1>3. CASE Writes
  BY <1>3 DEF Writes, PostClientJwks, UpdateClientJwks, UpdateClientScopes,
       DeleteClientInApi, UpdateSecretContent, DeleteSecretContent, WriteClient, WriteSecret
<1>4. CASE RecordFinalizer \/ FetchFails \/ UpdateStatus \/ UpdateStatusWithError
  BY <1>4 DEF RecordFinalizer, FetchFails, UpdateStatus, UpdateStatusWithError, Return
<1> QED
  BY <1>1, <1>2, <1>3, <1>4, Steps DEF Around

\* A call goes on with the copy it has read, or read just now.
LEMMA InstanceKept ==
    ASSUME [Next]_vars, pc' # "idle"
    PROVE  \/ instance' = crCache /\ UNCHANGED <<cr, crCache, eventPending>> /\ LoadInstance
           \/ instance' = cr' /\ RecordFinalizer
           \/ UNCHANGED instance /\ pc # "idle" /\ ~LoadInstance /\ ~Restart
<1>1. CASE World
  <2>1. UNCHANGED <<instance, pc>>
    BY <1>1, WorldSteps
  <2>2. ~LoadInstance
    BY <2>1 DEF LoadInstance
  <2>3. ~Restart
    BY <2>1 DEF Restart, Forget
  <2> QED
    BY <2>1, <2>2, <2>3
<1>2. CASE FetchCurrentState \/ CreateClientInApi
  <2>1. UNCHANGED instance /\ pc # "idle"
    BY <1>2 DEF FetchCurrentState, CreateClientInApi, Executing, Return, Forget
  <2> QED
    BY <2>1 DEF LoadInstance, Restart, Forget
<1>3. CASE Writes
  <2>1. UNCHANGED instance /\ pc # "idle"
    BY <1>3, WritesAreCommands DEF Writes
  <2> QED
    BY <2>1 DEF LoadInstance, Restart, Forget
<1>4. CASE FetchFails
  BY <1>4 DEF FetchFails, LoadInstance, Restart, Forget
<1>5. CASE LoadInstance
  BY <1>5 DEF LoadInstance
<1>6. CASE RecordFinalizer
  BY <1>6 DEF RecordFinalizer, Return, Forget
<1>7. CASE Restart \/ UpdateStatus \/ UpdateStatusWithError
  BY <1>7 DEF Restart, UpdateStatus, UpdateStatusWithError, Return, Forget
<1> QED
  BY <1>1, <1>2, <1>3, <1>4, <1>5, <1>6, <1>7, Steps DEF Around

\* What a call has not seen will be reported, or is queued.
LEMMA InstanceSeenKept ==
    ASSUME IInv, SpecSeen, InstanceSeen, [Next]_vars
    PROVE  InstanceSeen'
<1> SUFFICES ASSUME pc' # "idle", ~eventPending', ~queued'
             PROVE  SameSpec(instance', cr')
  BY DEF InstanceSeen
<1>1. CASE instance' = cr'
  BY <1>1 DEF SameSpec
<1>2. CASE instance' = crCache /\ UNCHANGED <<cr, crCache, eventPending>>
  BY <1>2 DEF SpecSeen
<1>3. CASE UNCHANGED instance /\ pc # "idle" /\ ~LoadInstance /\ ~Restart
  <2>1. ~queued
    BY <1>3, QueuedStays
  <2>2. ~eventPending
    <3>1. SyncResource => queued' = (queued \/ eventPending)
      BY DEF SyncResource
    <3> QED
      BY <1>3, <3>1, EventsStay
  <2>3. SameSpec(instance, cr)
    BY <1>3, <2>1, <2>2 DEF InstanceSeen
  <2>4. SameSpec(cr, cr')
    BY ResourceWrites
  <2> QED
    BY <1>3, <2>3, <2>4 DEF SameSpec
<1> QED
  BY <1>1, <1>2, <1>3, InstanceKept

-----------------------------------------------------------------------------
(* What the worker has seen of the secret and the client *)

\* A call in flight has a target, unless it is about to make one.
LEMMA WritesHaveTarget ==
    ASSUME IInv, Writes
    PROVE  target # Null /\ InFlight
<1>1. InFlight
  BY WritesAreCommands DEF Writes, InFlight
<1>2. pc = "exec" => Head(todo) # "CreateClientInApi"
  BY DEF Writes, PostClientJwks, UpdateClientJwks, UpdateClientScopes, DeleteClientInApi,
     UpdateSecretContent, DeleteSecretContent, Executing
<1> QED
  BY <1>1, <1>2 DEF IInv, Commands, PlanComplete

\* Deleting the client is the last thing a cleanup does.
LEMMA DeletesLast ==
    ASSUME IInv, PlanKnown, DeleteClientInApi
    PROVE  /\ todo = <<"DeleteClientInApi">> /\ pc = "exec" /\ pc' \notin {"exec", "postJwks"}
           /\ UNCHANGED secret
<1>1. pc = "exec" /\ Head(todo) = "DeleteClientInApi" /\ UNCHANGED secret
  BY DEF DeleteClientInApi, Executing, WriteClient
<1>2. todo = <<"DeleteClientInApi">> /\ Tail(todo) = <<>>
  <2>1. todo \in IF instance.deleting THEN CleanupTodo ELSE LiveTodo
    BY <1>1 DEF PlanKnown, InFlight
  <2> QED
    BY <1>1, <2>1, LiveHead, CleanupSteps
<1>3. Executed \/ Aborted
  BY WritesAreCommands
<1> QED
  BY <1>1, <1>2, <1>3 DEF Executed, Aborted

\* The client a call works on stays there, if nobody else deletes it.
LEMMA TargetLiveKept ==
    ASSUME IInv, PlanKnown, TargetLive, "externalDelete" \notin Adversity, [Next]_vars
    PROVE  TargetLive'
<1>1. CASE World
  <2>1. CASE \E c \in clients : DeleteClientExternally(c)
    BY <2>1 DEF DeleteClientExternally, Disruption
  <2>2. CASE ~\E c \in clients : DeleteClientExternally(c)
    <3>1. UNCHANGED clients
      BY <1>1, <2>2 DEF World, CreateResource, EditScopes, TouchResource, DeleteResource,
         DeployApp, UndeployApp, TouchSecret, Tick, SyncResource, Resync, SyncSecret, TimerFires
    <3> QED
      BY <1>1, <3>1, WorldSteps DEF TargetLive, InFlight, LiveIds
  <2> QED
    BY <2>1, <2>2
<1>2. CASE Around
  BY <1>2, AroundSteps DEF TargetLive, InFlight
<1>3. CASE FetchCurrentState
  <2>1. PICK client \in MatchingClients(secretCache.content) :
           /\ client # Null => client \in clients
           /\ pc' = "idle" \/ target' = IF client = Null THEN Null ELSE client.id
    BY <1>3, Planning DEF Return, Forget
  <2>2. UNCHANGED clients
    BY <1>3 DEF FetchCurrentState
  <2> QED
    BY <2>1, <2>2 DEF TargetLive, InFlight, LiveIds
<1>4. CASE CreateClientInApi
  <2>1. CASE Aborted
    BY <2>1 DEF Aborted, TargetLive, InFlight
  <2>2. CASE ~Aborted
    <3>1. PICK id \in ClientId :
             /\ clients' = clients \cup
                             {[id |-> id, scopes |-> instance.scopes, keys |-> {}]}
             /\ target' = id
      BY <1>4, <2>2 DEF CreateClientInApi
    <3> DEFINE new == [id |-> id, scopes |-> instance.scopes, keys |-> {}]
    <3>2. new \in clients' /\ new.id = target'
      BY <3>1
    <3> HIDE DEF new
    <3> QED
      BY <3>2 DEF TargetLive, LiveIds
  <2> QED
    BY <2>1, <2>2
<1>5. CASE Writes
  <2>1. CASE DeleteClientInApi
    BY <2>1, DeletesLast DEF TargetLive, InFlight
  <2>2. CASE ~DeleteClientInApi
    <3>1. LiveIds' = LiveIds
      BY <1>5, <2>2, WritesToClients DEF LiveIds, Writes
    <3>2. UNCHANGED target /\ InFlight
      BY <1>5, WritesAreCommands DEF Writes, InFlight
    <3> QED
      BY <3>1, <3>2 DEF TargetLive
  <2> QED
    BY <2>1, <2>2
<1> QED
  BY <1>1, <1>2, <1>3, <1>4, <1>5, Steps

\* What the writes of the loop do to the secret.
LEMMA WritesToSecret ==
    ASSUME IInv, Writes
    PROVE  /\ secret'.exists = secret.exists /\ UNCHANGED secretCache
           /\ \/ UNCHANGED <<secret, secretFresh>>
              \/ /\ UpdateSecretContent /\ IdOf(secret'.content) = target
                 /\ secret'.content # Null /\ secretFresh' = {}
                 /\ "manifest" \in secretFresh
              \/ /\ DeleteSecretContent /\ secret'.content = Null /\ secretFresh' = {}
                 /\ "manifest" \in secretFresh
<1>0. secret \in Secret
  BY DEF IInv, TypeOK, SecretTypeOK
<1>1. CASE PostClientJwks \/ UpdateClientJwks \/ UpdateClientScopes \/ DeleteClientInApi
  BY <1>1 DEF PostClientJwks, UpdateClientJwks, UpdateClientScopes, DeleteClientInApi,
     WriteClient
<1>2. CASE UpdateSecretContent
  <2> DEFINE new == [clientId |-> target, authority |-> authority, jwks |-> jwks]
  <2>1. UNCHANGED secretCache
    BY <1>2 DEF UpdateSecretContent, WriteSecret
  <2>2. \/ UNCHANGED <<secret, secretFresh>>
        \/ /\ secret' = [secret EXCEPT !.content = new] /\ secretFresh' = {}
           /\ "manifest" \in secretFresh
    BY <1>2 DEF UpdateSecretContent, WriteSecret, Call, SecretWriteAccepted
  <2>3. new.clientId = target /\ new # Null
    <3>1. target \in ClientId
      BY WritesHaveTarget DEF IInv, TypeOK, WorkerTypeOK
    <3>2. ~instance.deleting => jwks \in JwksType
      BY WritesHaveTarget DEF IInv, Commands, PlanComplete
    <3>3. ~instance.deleting
      <4>1. pc = "exec" /\ Head(todo) = "UpdateSecretContent"
        BY <1>2 DEF UpdateSecretContent, Executing
      <4>2. instance.deleting => todo \in CleanupTodo
        BY <4>1 DEF IInv, Commands, CleanupCoversClient
      <4> QED
        BY <4>1, <4>2, CleanupSteps
    <3>4. authority \in Authority
      BY DEF IInv, TypeOK, WorldTypeOK
    <3>5. new \in Content
      BY <3>1, <3>2, <3>3, <3>4 DEF Content
    <3> QED
      BY <3>5, NullAssumption
  <2> HIDE DEF new
  <2>4. \/ UNCHANGED <<secret, secretFresh>>
        \/ /\ secret'.content = new /\ secret'.exists = secret.exists /\ secretFresh' = {}
           /\ "manifest" \in secretFresh
    BY <1>0, <2>2 DEF Secret
  <2> QED
    BY <1>2, <2>1, <2>3, <2>4 DEF IdOf
<1>3. CASE DeleteSecretContent
  <2>1. UNCHANGED secretCache
    BY <1>3 DEF DeleteSecretContent, WriteSecret
  <2>2. \/ UNCHANGED <<secret, secretFresh>>
        \/ /\ secret' = [secret EXCEPT !.content = Null] /\ secretFresh' = {}
           /\ "manifest" \in secretFresh
    BY <1>3 DEF DeleteSecretContent, WriteSecret, Call, SecretWriteAccepted
  <2>3. \/ UNCHANGED <<secret, secretFresh>>
        \/ /\ secret'.content = Null /\ secret'.exists = secret.exists /\ secretFresh' = {}
           /\ "manifest" \in secretFresh
    BY <1>0, <2>2 DEF Secret
  <2> QED
    BY <1>3, <2>1, <2>3
<1> QED
  BY <1>1, <1>2, <1>3 DEF Writes

\* The app's secret stays, once it is there.
LEMMA SecretThereKept ==
    ASSUME IInv, SecretThere, "undeploy" \notin Adversity, [Next]_vars
    PROVE  SecretThere'
<1>1. CASE World
  <2>0. UNCHANGED pc
    BY <1>1, WorldSteps
  <2>1. CASE DeployApp
    BY <2>0, <2>1 DEF DeployApp, SecretThere, InFlight
  <2>2. CASE UndeployApp
    BY <2>2 DEF UndeployApp, Disruption
  <2>3. CASE ~DeployApp /\ ~UndeployApp
    <3>1. UNCHANGED secret /\ secretCache' \in {secretCache, secret}
      BY <1>1, <2>3 DEF World, CreateResource, EditScopes, TouchResource, DeleteResource,
         TouchSecret, DeleteClientExternally, Tick, SyncResource, Resync, SyncSecret, TimerFires
    <3> QED
      BY <2>0, <3>1 DEF SecretThere, InFlight
  <2> QED
    BY <2>1, <2>2, <2>3
<1>2. CASE Around
  <2>1. secretCache' \in {secretCache, secret}
    BY <1>2 DEF Around, Restart, RecordFinalizer, FetchFails, LoadInstance, UpdateStatus,
     UpdateStatusWithError
  <2> QED
    BY <1>2, <2>1, AroundSteps DEF SecretThere, InFlight
<1>3. CASE FetchCurrentState
  BY <1>3 DEF FetchCurrentState, SecretThere
<1>4. CASE CreateClientInApi
  BY <1>4 DEF CreateClientInApi, SecretThere, InFlight, Executing
<1>5. CASE Writes
  <2>1. InFlight /\ secret.exists
    BY <1>5, WritesHaveTarget DEF SecretThere
  <2>2. secret'.exists
    BY <1>5, <2>1, WritesToSecret
  <2> QED
    BY <2>2 DEF SecretThere
<1> QED
  BY <1>1, <1>2, <1>3, <1>4, <1>5, Steps

\* Nobody else writes to the secret's document.
LEMMA WorldLeavesDocument ==
    ASSUME World, SecretThere, {"undeploy", "externalDelete"} \cap Adversity = {}
    PROVE  /\ UNCHANGED <<clients, secret>> \/ (DeployApp /\ UNCHANGED clients)
           /\ secret'.content = secret.content
           /\ UNCHANGED secretCache \/ (SyncSecret /\ secretCache' = secret')
<1>1. CASE DeployApp
  <2>1. secret.content = Null
    BY <1>1 DEF DeployApp, SecretThere
  <2> QED
    BY <1>1, <2>1 DEF DeployApp
<1>2. CASE UndeployApp \/ \E c \in clients : DeleteClientExternally(c)
  BY <1>2 DEF UndeployApp, DeleteClientExternally, Disruption
<1>3. CASE ~DeployApp /\ ~UndeployApp /\ ~\E c \in clients : DeleteClientExternally(c)
  BY <1>3 DEF World, CreateResource, EditScopes, TouchResource, DeleteResource,
     TouchSecret, Tick, SyncResource, Resync, SyncSecret, TimerFires
<1> QED
  BY <1>1, <1>2, <1>3

\* Without a fault the last command of a cleanup deletes the one client there is.
LEMMA CleanupDeletes ==
    ASSUME IInv, PlanKnown, TargetLive, DeleteClientInApi, ~Fault
    PROVE  Executed /\ clients' = {}
<1>1. target \in LiveIds
  BY WritesHaveTarget DEF TargetLive, Writes
<1>2. Executed /\ clients' = {c \in clients : c.id # target}
  BY <1>1 DEF DeleteClientInApi, WriteClient, Registered, Call
<1> QED
  BY <1>1, <1>2 DEF IInv, AtMostOneClient, LiveIds

\* A deletion is over when the worker has taken the finalizer, and no client is left then.
LEMMA DeletionStays ==
    ASSUME IInv, [Next]_vars, cr.deleting
    PROVE  cr'.deleting \/ (clients' = {} /\ pc' = "idle")
<1>0. cr \in Resource /\ cr.exists
  BY DEF IInv, TypeOK, ResourceTypeOK, Copies, DeletingHeld, Held
<1>1. CASE UNCHANGED cr
  BY <1>1
<1>2. CASE World
  <2>1. \/ UNCHANGED cr \/ \E s \in Scopes : cr' = [cr EXCEPT !.scopes = s, !.generation = @ + 1]
    BY <1>0, <1>2 DEF World, CreateResource, EditScopes, TouchResource, DeleteResource,
       DeployApp, UndeployApp, TouchSecret, DeleteClientExternally, Tick, SyncResource,
       Resync, SyncSecret, TimerFires, WriteObserved
  <2> QED
    BY <1>0, <2>1 DEF Resource
<1>3. CASE FetchCurrentState \/ CreateClientInApi
  BY <1>1, <1>3 DEF FetchCurrentState, CreateClientInApi, KeepResource
<1>4. CASE Writes
  BY <1>1, <1>4, WritesAreCommands DEF Writes
<1>5. CASE Restart \/ FetchFails \/ LoadInstance
  BY <1>1, <1>5 DEF Restart, FetchFails, LoadInstance
<1>6. CASE RecordFinalizer
  <2>1. UNCHANGED cr \/ cr' = [cr EXCEPT !.finalizer = TRUE]
    BY <1>6 DEF RecordFinalizer, KeepResource
  <2> QED
    BY <1>0, <2>1 DEF Resource
<1>7. CASE UpdateStatusWithError
  <2>1. UNCHANGED cr \/ cr' = [cr EXCEPT !.status = Report("error")]
    BY <1>7 DEF UpdateStatusWithError, KeepResource
  <2> QED
    BY <1>0, <2>1 DEF Resource
<1>8. CASE UpdateStatus
  <2>1. pc = "status" /\ pc' = "idle" /\ UNCHANGED clients
    BY <1>8 DEF UpdateStatus, Return, Forget
  <2>2. \/ UNCHANGED cr \/ instance.deleting
        \/ cr' = [cr EXCEPT !.status = Report("reconciled")]
    BY <1>8 DEF UpdateStatus, ReportSuccess, KeepResource
  <2>3. instance.deleting => clients' = {}
    BY <2>1 DEF IInv, Commands, CleanupCoversClient
  <2> QED
    BY <1>0, <2>1, <2>2, <2>3 DEF Resource
<1> QED
  BY <1>2, <1>3, <1>4, <1>5, <1>6, <1>7, <1>8, Steps DEF Around

\* Only a call for a live resource makes a client.
LEMMA ClientsAppear ==
    ASSUME IInv, [Next]_vars, clients = {}, clients' # {}
    PROVE  CreateClientInApi /\ ~instance.deleting /\ pc # "idle"
<1>1. ~World
  BY DEF World, CreateResource, EditScopes, TouchResource, DeleteResource, DeployApp,
     UndeployApp, TouchSecret, DeleteClientExternally, Tick, SyncResource, Resync,
     SyncSecret, TimerFires
<1>2. ~Around /\ ~FetchCurrentState
  BY AroundSteps DEF FetchCurrentState
<1>3. ~Writes
  BY WritesToClients DEF Writes
<1>4. CreateClientInApi
  BY <1>1, <1>2, <1>3, Steps
<1> QED
  BY <1>4, CreationAddsOne DEF CreateClientInApi, Executing

LEMMA DeletionReadKept ==
    ASSUME IInv, DeletionRead, [Next]_vars
    PROVE  DeletionRead'
<1> SUFFICES ASSUME ~cr'.deleting, clients' # {} \/ pc' # "idle"
             PROVE  /\ crCache'.deleting => clients' = {} /\ (pc' = "idle" \/ instance'.deleting)
                    /\ pc' # "idle" /\ instance'.deleting => clients' = {}
  BY DEF DeletionRead
<1>1. ~cr.deleting
  BY DeletionStays
<1>2. /\ crCache.deleting => clients = {} /\ (pc = "idle" \/ instance.deleting)
      /\ pc # "idle" /\ instance.deleting => clients = {}
  BY <1>1 DEF DeletionRead
<1>3. crCache' = crCache \/ crCache' = cr'
  <2>1. CASE World
    BY <2>1 DEF World, CreateResource, EditScopes, TouchResource, DeleteResource,
       DeployApp, UndeployApp, TouchSecret, DeleteClientExternally, Tick, SyncResource,
       Resync, SyncSecret, TimerFires
  <2>2. CASE FetchCurrentState \/ CreateClientInApi
    BY <2>2 DEF FetchCurrentState, CreateClientInApi
  <2>3. CASE Writes
    BY <2>3, WritesAreCommands DEF Writes
  <2>4. CASE Around
    BY <2>4 DEF Around, Restart, FetchFails, LoadInstance, RecordFinalizer,
       UpdateStatusWithError, UpdateStatus
  <2> QED
    BY <2>1, <2>2, <2>3, <2>4, Steps
<1>4. \/ pc' = "idle"
      \/ instance' = crCache /\ LoadInstance
      \/ instance' = cr' /\ RecordFinalizer
      \/ UNCHANGED instance /\ pc # "idle" /\ ~LoadInstance
  BY InstanceKept
<1>5. ASSUME clients' # {}
      PROVE  ~crCache'.deleting /\ ~(pc' # "idle" /\ instance'.deleting)
  <2>1. ~crCache.deleting /\ (pc = "idle" \/ ~instance.deleting)
    BY <1>2, <1>5, ClientsAppear
  <2> QED
    BY <1>3, <1>4, <2>1
<1>6. ASSUME crCache'.deleting, pc' # "idle"
      PROVE  instance'.deleting
  <2>1. crCache.deleting
    BY <1>3, <1>6
  <2>2. ~RecordFinalizer
    <3>1. RecordFinalizer => pc = "record"
      BY DEF RecordFinalizer
    <3> QED
      BY <1>2, <2>1, <3>1 DEF IInv, Copies, RecordingNew
  <2> QED
    BY <1>2, <1>4, <1>6, <2>1, <2>2
<1> QED
  BY <1>5, <1>6

\* A document that leads the controller to a client is the one the app reads, or the client
\* is on its way out.
LEMMA DocumentFollowedKept ==
    ASSUME IInv, SettledInv, [Next]_vars, {"undeploy", "externalDelete"} \cap Adversity = {}
    PROVE  DocumentFollowed'
<1>0. DocumentFollowed /\ PlanKnown /\ TargetLive /\ SecretThere /\ DeletionRead
  BY DEF SettledInv
<1> SUFFICES ASSUME secretCache'.content # Null, IdOf(secretCache'.content) \in LiveIds',
                    ~cr'.deleting
             PROVE  IdOf(secretCache'.content) = IdOf(secret'.content)
  BY DEF DocumentFollowed
<1>a. ~cr.deleting
  <2>1. clients' # {}
    BY DEF LiveIds
  <2> QED
    BY <2>1, DeletionStays
<1>b. secretCache.content # Null /\ IdOf(secretCache.content) \in LiveIds
        => IdOf(secretCache.content) = IdOf(secret.content)
  BY <1>0, <1>a DEF DocumentFollowed
<1>1. CASE World
  BY <1>0, <1>b, <1>1, WorldSteps, WorldLeavesDocument DEF LiveIds
<1>2. CASE Around
  <2>1. UNCHANGED secretCache \/ secretCache' = secret'
    BY <1>2 DEF Around, Restart, RecordFinalizer, FetchFails, LoadInstance, UpdateStatus,
     UpdateStatusWithError
  <2> QED
    BY <1>b, <1>2, <2>1, AroundSteps DEF LiveIds
<1>3. CASE FetchCurrentState
  BY <1>b, <1>3 DEF FetchCurrentState, LiveIds
<1>4. CASE CreateClientInApi
  <2>1. UNCHANGED <<secret, secretCache>>
    BY <1>4 DEF CreateClientInApi
  <2>2. CASE UNCHANGED clients
    BY <1>b, <2>1, <2>2 DEF LiveIds
  <2>3. CASE ~UNCHANGED clients
    <3>1. PICK id \in ClientId \ UsedIds :
             clients' = clients \cup {[id |-> id, scopes |-> instance.scopes, keys |-> {}]}
      BY <1>4, <2>3 DEF CreateClientInApi
    <3>2. clients = {}
      BY <1>4, CreationAddsOne
    <3>3. LiveIds' = {id}
      <4> DEFINE new == [id |-> id, scopes |-> instance.scopes, keys |-> {}]
      <4>1. clients' = {new} /\ new.id = id
        BY <3>1, <3>2
      <4> HIDE DEF new
      <4> QED
        BY <4>1 DEF LiveIds
    <3>4. IdOf(secretCache.content) # id
      BY <3>1 DEF UsedIds
    <3> QED
      BY <2>1, <3>3, <3>4
  <2> QED
    BY <2>2, <2>3
<1>5. CASE Writes
  <2>1. UNCHANGED secretCache
    BY <1>5, WritesToSecret
  <2>2. IdOf(secretCache.content) \in LiveIds
    BY <1>5, <2>1, WritesToClients DEF LiveIds, Writes
  <2>3. CASE UNCHANGED secret
    BY <1>b, <2>1, <2>2, <2>3
  <2>4. CASE UpdateSecretContent /\ IdOf(secret'.content) = target
    <3>1. target \in LiveIds
      BY <1>0, <1>5, WritesHaveTarget DEF TargetLive
    <3>2. \A i, j \in LiveIds : i = j
      BY DEF IInv, AtMostOneClient, LiveIds
    <3> QED
      BY <2>1, <2>2, <2>4, <3>1, <3>2
  <2>5. CASE DeleteSecretContent
    <3>1. pc = "exec" /\ Head(todo) = "DeleteSecretContent"
      BY <2>5 DEF DeleteSecretContent, Executing
    <3>2. ~instance.deleting
      <4>1. clients # {}
        BY <2>2 DEF LiveIds
      <4> QED
        BY <1>0, <1>a, <3>1, <4>1 DEF DeletionRead
    <3> QED
      BY <1>0, <3>1, <3>2, LiveHead DEF PlanKnown, InFlight
  <2> QED
    BY <1>5, <2>3, <2>4, <2>5, WritesToSecret
<1> QED
  BY <1>1, <1>2, <1>3, <1>4, <1>5, Steps

\* A plan with nothing to do has found the client and the document as they should be.
LEMMA NothingPlanned ==
    ASSUME NEW scopes, NEW client, NEW content, NEW url, NEW left,
           Plan(FALSE, scopes, client, content, url, left) = <<>>
    PROVE  client # Null /\ content # Null /\ client.scopes = scopes
<1>1. CreateCommands # <<>> /\ RecoverCommands # <<>>
  <2>1. CreateCommands # <<>>
    BY DEF CreateCommands
  <2>2. RecoverCommands # <<>>
    BY DEF RecoverCommands
  <2> QED
    BY <2>1, <2>2
<1>2. client # Null /\ content # Null
  BY <1>1 DEF Plan
<1>3. client.scopes = scopes
  <2> SUFFICES ASSUME ScopesChanged(client, scopes) PROVE FALSE
    BY DEF ScopesChanged
  <2> DEFINE S == If(AuthorityChanged(content, url) \/ RotationDue(content.jwks, left),
                     <<"UpdateSecretContent">>)
             J == If(RotationDue(content.jwks, left), <<"UpdateClientJwks">>)
             C == <<"UpdateClientScopes">>
             T == CommandName
  <2>1. S \o J \o C = <<>>
    BY <1>2 DEF Plan, SteadyCommands, If
  <2>2. S \in Seq(T) /\ J \in Seq(T)
    <3>1. <<"UpdateSecretContent">> \in Seq(T) /\ <<"UpdateClientJwks">> \in Seq(T)
      BY DEF CommandName
    <3>2. <<>> \in Seq(T)
      OBVIOUS
    <3> QED
      BY <3>1, <3>2 DEF If
  <2>3. C \in Seq(T) /\ Len(C) = 1
    BY DEF CommandName
  <2> HIDE DEF S, J, C, T
  <2>4. S \o J \in Seq(T)
    BY <2>2, ConcatProperties
  <2>5. Len((S \o J) \o C) = Len(S \o J) + 1 /\ Len(S \o J) \in Nat
    <3>1. Len((S \o J) \o C) = Len(S \o J) + Len(C)
      BY <2>3, <2>4, ConcatProperties
    <3>2. Len(S \o J) \in Nat
      BY <2>4, LenProperties
    <3> QED
      BY <2>3, <3>1, <3>2
  <2>6. Len(<<>>) = 0
    OBVIOUS
  <2> QED
    BY <2>1, <2>5, <2>6
<1> QED
  BY <1>2, <1>3

\* A call that returns is called again, or has nothing left to do.
LEMMA AppliedOrDueKept ==
    ASSUME IInv, SettledInv, [Next]_vars, {"undeploy", "externalDelete"} \cap Adversity = {}
    PROVE  AppliedOrDue'
<1>0. /\ SpecSeen /\ InstanceSeen /\ SecretThere
      /\ DocumentFollowed /\ AppliedOrDue
  BY DEF SettledInv
<1> SUFFICES ASSUME pc' = "idle", cr'.exists, ~cr'.deleting,
                    ~queued', ~timer', ~eventPending'
             PROVE  Applied'
  BY DEF AppliedOrDue
<1>1. CASE World
  <2>0. UNCHANGED pc
    BY <1>1, WorldSteps
  <2>1. UNCHANGED cr /\ ~timer /\ ~queued /\ ~eventPending
    <3>1. CASE \/ \E s \in Scopes : CreateResource(s) \/ EditScopes(s)
               \/ DeleteResource
      BY <3>1 DEF CreateResource, EditScopes, DeleteResource, WriteObserved
    <3>2. CASE SyncResource
      BY <3>2 DEF SyncResource
    <3>4. CASE Resync
      BY <3>4 DEF Resync
    <3>5. CASE TimerFires
      BY <3>5 DEF TimerFires
    <3>3. CASE \/ TouchResource \/ DeployApp \/ UndeployApp \/ TouchSecret
               \/ \E c \in clients : DeleteClientExternally(c)
               \/ Tick \/ SyncSecret \/ UNCHANGED vars
      BY <3>3 DEF TouchResource, DeployApp, UndeployApp, TouchSecret, DeleteClientExternally,
         Tick, SyncSecret
    <3> QED
      BY <1>1, <3>1, <3>2, <3>3, <3>4, <3>5 DEF World
  <2>2. Applied
    BY <1>0, <2>0, <2>1 DEF AppliedOrDue
  <2>3. UNCHANGED clients /\ secret'.content = secret.content
    BY <1>0, <1>1, WorldLeavesDocument
  <2> QED
    BY <2>1, <2>2, <2>3 DEF Applied
<1>2. CASE LoadInstance
  <2>1. UNCHANGED cr /\ ~crCache.exists /\ ~eventPending
    BY <1>2 DEF LoadInstance
  <2> QED
    BY <1>0, <2>1 DEF SpecSeen, SameSpec
<1>3. CASE RecordFinalizer
  <2>1. queued' = (queued \/ cr.exists) /\ UNCHANGED cr
    BY <1>3 DEF RecordFinalizer, Return, Forget, KeepResource
  <2> QED
    BY <2>1
<1>4. CASE FetchFails
  BY <1>4 DEF FetchFails
<1>5. CASE UpdateStatus \/ UpdateStatusWithError
  BY <1>5 DEF UpdateStatus, UpdateStatusWithError, Return
<1>6. CASE FetchCurrentState
  <2> DEFINE content == secretCache.content
             p(client) == Plan(instance.deleting, instance.scopes, client, content,
                               authority, remaining)
  <2>1. PICK client \in MatchingClients(content) :
           /\ client # Null => client \in clients
           /\ \/ p(client) = <<>> /\ Return(FALSE) /\ KeepResource
              \/ pc' = "exec"
    BY <1>6, Planning
  <2>2. p(client) = <<>> /\ ~queued /\ UNCHANGED <<cr, eventPending, clients, secret>>
        /\ pc = "fetch"
    BY <1>6, <2>1 DEF FetchCurrentState, Return, KeepResource
  <2>3. instance.scopes = cr.scopes /\ instance.deleting = cr.deleting
    BY <1>0, <2>2 DEF InstanceSeen, SameSpec
  <2>4. instance.deleting = FALSE
    <3>1. instance.deleting \in BOOLEAN
      BY DEF IInv, TypeOK, WorkerTypeOK, Resource
    <3> QED
      BY <2>2, <2>3, <3>1
  <2>5. client # Null /\ content # Null /\ client.scopes = instance.scopes
    <3>1. Plan(FALSE, instance.scopes, client, content, authority, remaining) = <<>>
      BY <2>2, <2>4
    <3> HIDE DEF content
    <3> QED
      BY <3>1, NothingPlanned
  <2>6. client \in clients /\ client.id = IdOf(content)
    BY <2>1, <2>5 DEF MatchingClients, IdOf
  <2>7. IdOf(content) = IdOf(secret.content)
    BY <1>0, <2>2, <2>5, <2>6 DEF DocumentFollowed, LiveIds
  <2>8. secret.content # Null
    <3>1. client.id # Null
      BY <2>6, NullAssumption DEF IInv, TypeOK, Client
    <3> QED
      BY <2>6, <2>7, <3>1 DEF IdOf
  <2> QED
    BY <2>2, <2>3, <2>5, <2>6, <2>7, <2>8 DEF Applied
<1>7. CASE CreateClientInApi
  BY <1>7 DEF CreateClientInApi, Aborted
<1>8. CASE Writes
  BY <1>8, WritesAreCommands DEF Writes, Executed, Aborted
<1>9. CASE Restart
  BY <1>9 DEF Restart
<1> QED
  BY <1>1, <1>2, <1>3, <1>4, <1>5, <1>6, <1>7, <1>8, <1>9, Steps DEF Around

\* The invariant behind what is at rest is inductive, given that of the clients.
LEMMA SettledInvKept ==
    ASSUME IInv, SettledInv, {"undeploy", "externalDelete"} \cap Adversity = {},
           [Next]_vars
    PROVE  SettledInv'
<1>1. SpecSeen' /\ InstanceSeen'
  BY SpecSeenKept, InstanceSeenKept DEF SettledInv
<1>2. PlanKnown' /\ TargetLive' /\ SecretThere'
  BY PlanKnownKept, TargetLiveKept, SecretThereKept DEF SettledInv
<1>3. DeletionRead' /\ DocumentFollowed' /\ AppliedOrDue'
  BY DeletionReadKept, DocumentFollowedKept, AppliedOrDueKept DEF SettledInv
<1> QED
  BY <1>1, <1>2, <1>3 DEF SettledInv

\* At the start there is nothing to do.
LEMMA SettledInvInit == Init => SettledInv
  BY DEF Init, SettledInv, SpecSeen, SameSpec, InstanceSeen, PlanKnown, InFlight, TargetLive,
     SecretThere, DeletionRead, DocumentFollowed, AppliedOrDue, NoResource, NoSecret

\* Between two calls of Reconcile whatever is not as the resource asks is queued, on the
\* timer, or will be reported by the informer: no edit, stale copy, refused write, failed
\* call or restart leaves the controller at rest with work to do.
THEOREM SettledInvariance ==
    ASSUME {"undeploy", "externalDelete"} \cap Adversity = {}
    PROVE  Spec => [](IInv /\ SettledInv)
<1>1. Init => IInv /\ SettledInv
  BY InitInvariant, SettledInvInit
<1>2. IInv /\ SettledInv /\ [Next]_vars => (IInv /\ SettledInv)'
  BY NextInvariant, SettledInvKept
<1> QED
  BY <1>1, <1>2, PTL DEF Spec

\* When the queue, the timer and the informer have nothing left for a live resource, its
\* client and the app's document are there, with the scopes the resource asks for:
\* whatever is read from stale caches, written at the wrong moment, rotated meanwhile, fails
\* with or without effect, or is cut off by a restart, Reconcile returns without being
\* called again only when it found nothing to do in what is current.  That needs that
\* nobody else removes the secret or the client, whose removal wakes nobody.
THEOREM AtRestApplied ==
    ASSUME {"undeploy", "externalDelete"} \cap Adversity = {}
    PROVE  Spec => []SettledMeansApplied
<1>1. IInv /\ SettledInv => SettledMeansApplied
  BY DEF SettledInv, SettledMeansApplied, AppliedOrDue, Settled
<1> QED
  BY <1>1, SettledInvariance, PTL

-----------------------------------------------------------------------------
(* What is reported: the resource *)

\* What a call reports is the generation it has read.
LEMMA StatusWritten ==
    ASSUME IInv, cr' = [cr EXCEPT !.status = Report("reconciled")],
           ResourceWriteAccepted, pc # "idle"
    PROVE  /\ cr'.status.observedGeneration = cr.generation
           /\ cr'.generation = cr.generation /\ cr'.scopes = cr.scopes
           /\ instance = cr
<1>1. cr \in Resource /\ instance = cr
  BY DEF IInv, TypeOK, ResourceTypeOK, Copies, CopiesCurrent, ResourceWriteAccepted
<1>2. Report("reconciled").observedGeneration = cr.generation
  BY <1>1 DEF Report
<1>3. cr'.status = Report("reconciled") /\ cr'.generation = cr.generation
      /\ cr'.scopes = cr.scopes
  BY <1>1 DEF Resource
<1> QED
  BY <1>1, <1>2, <1>3

\* A step after which the resource counts as reconciled reports that, or leaves what was
\* reported and what it was reported of alone.
LEMMA ReconciledWhen ==
    ASSUME IInv, ObservedPast, [Next]_vars, ~Fault, ~Restart
    PROVE  /\ ObservedPast'
           /\ Reconciled' => \/ Reconciled /\ SameSpec(cr, cr')
                             \/ /\ UpdateStatus /\ ResourceWriteAccepted /\ ~instance.deleting
                                /\ instance = cr /\ SameSpec(cr, cr')
<1>0. /\ cr \in Resource /\ cr.generation \in Nat
      /\ cr.status.observedGeneration \in Nat
  <2>1. cr \in Resource
    BY DEF IInv, TypeOK, ResourceTypeOK
  <2>2. cr.generation \in Nat /\ cr.status \in Status
    BY <2>1, BoundsAssumption DEF Resource
  <2>3. ASSUME NEW st \in Status PROVE st.observedGeneration \in Nat
    <3>1. st.observedGeneration \in 0..(MaxGeneration + 1)
      BY DEF Status
    <3> QED
      BY <3>1, BoundsAssumption
  <2> QED
    BY <2>1, <2>2, <2>3
<1>a. /\ NoStatus.observedGeneration = 0 /\ NoStatus.state # "reconciled"
      /\ ~NoResource.exists /\ NoResource.generation = 0 /\ NoResource.status = NoStatus
  <2>1. NoStatus.observedGeneration = 0 /\ NoStatus.state # "reconciled"
    BY DEF NoStatus
  <2>2. ~NoResource.exists /\ NoResource.generation = 0 /\ NoResource.status = NoStatus
    BY DEF NoResource
  <2> QED
    BY <2>1, <2>2
<1> DEFINE Goal == /\ ObservedPast'
                   /\ Reconciled' => \/ Reconciled /\ SameSpec(cr, cr')
                                     \/ /\ UpdateStatus /\ ResourceWriteAccepted
                                        /\ ~instance.deleting
                                        /\ instance = cr /\ SameSpec(cr, cr')
<1> SUFFICES Goal
  OBVIOUS
<1>1. CASE UNCHANGED cr
  BY <1>1 DEF Goal, ObservedPast, Reconciled, SameSpec
<1>2. ASSUME NEW s \in Scopes, CreateResource(s) PROVE Goal
  <2>1. cr' = [NoResource EXCEPT !.exists = TRUE, !.generation = 1, !.scopes = s]
    BY <1>2 DEF CreateResource, WriteObserved
  <2>2. cr'.generation = 1 /\ cr'.status = NoStatus
    BY <2>1 DEF NoResource
  <2> QED
    BY <1>a, <2>2 DEF Goal, ObservedPast, Reconciled
<1>3. ASSUME NEW s \in Scopes, EditScopes(s) PROVE Goal
  <2>1. cr' = [cr EXCEPT !.scopes = s, !.generation = @ + 1]
    BY <1>3 DEF EditScopes, WriteObserved
  <2>2. cr'.generation = cr.generation + 1 /\ cr'.status = cr.status
    BY <1>0, <2>1 DEF Resource
  <2> QED
    BY <1>0, <2>2 DEF Goal, ObservedPast, Reconciled
<1>4. ASSUME DeleteResource PROVE Goal
  <2>1. CASE cr' = NoResource
    BY <1>a, <2>1 DEF Goal, ObservedPast, Reconciled
  <2>2. CASE cr' = [cr EXCEPT !.deleting = TRUE, !.generation = @ + 1]
    <3>1. cr'.generation = cr.generation + 1 /\ cr'.status = cr.status /\ cr'.deleting
      BY <1>0, <2>2 DEF Resource
    <3> QED
      BY <1>0, <3>1 DEF Goal, ObservedPast, Reconciled
  <2> QED
    BY <1>4, <2>1, <2>2 DEF DeleteResource, WriteObserved
<1>5. ASSUME RecordFinalizer PROVE Goal
  <2>1. CASE cr' = [cr EXCEPT !.finalizer = TRUE]
    BY <1>0, <2>1 DEF Goal, ObservedPast, Reconciled, SameSpec, Resource
  <2> QED
    BY <1>1, <1>5, <2>1 DEF RecordFinalizer, KeepResource
<1>6. ASSUME UpdateStatus PROVE Goal
  <2>1. CASE /\ ResourceWriteAccepted /\ ~instance.deleting
             /\ cr' = [cr EXCEPT !.status = Report("reconciled")]
    <3>1. pc # "idle"
      BY <1>6 DEF UpdateStatus
    <3>2. SameSpec(cr, cr')
      BY <1>0, <2>1 DEF SameSpec, Resource
    <3>3. /\ cr'.status.observedGeneration = cr.generation
          /\ cr'.generation = cr.generation /\ instance = cr
      BY <2>1, <3>1, StatusWritten
    <3> QED
      BY <1>0, <1>6, <2>1, <3>2, <3>3 DEF Goal, ObservedPast
  <2>2. CASE cr' = NoResource
    BY <1>a, <2>2 DEF Goal, ObservedPast, Reconciled
  <2> QED
    BY <1>1, <1>6, <2>1, <2>2 DEF UpdateStatus, ReportSuccess, KeepResource
<1>7. ASSUME UpdateStatusWithError PROVE Goal
  <2>1. CASE ResourceWriteAccepted /\ cr' = [cr EXCEPT !.status = Report("error")]
    <3>1. instance = cr
      BY <1>7, <2>1 DEF UpdateStatusWithError, IInv, Copies, CopiesCurrent,
         ResourceWriteAccepted
    <3>2. /\ Report("error").observedGeneration = cr.generation
          /\ Report("error").state = "error"
      BY <3>1 DEF Report
    <3>3. cr'.status = Report("error") /\ cr'.generation = cr.generation
      BY <1>0, <2>1 DEF Resource
    <3> QED
      BY <1>0, <3>2, <3>3 DEF Goal, ObservedPast, Reconciled
  <2> QED
    BY <1>1, <1>7, <2>1 DEF UpdateStatusWithError, KeepResource
<1>8. ASSUME \/ TouchResource \/ DeployApp \/ UndeployApp \/ TouchSecret
             \/ \E c \in clients : DeleteClientExternally(c)
             \/ Tick \/ SyncResource \/ Resync \/ SyncSecret \/ TimerFires
             \/ LoadInstance \/ FetchFails \/ FetchCurrentState \/ CreateClientInApi
             \/ UNCHANGED vars
      PROVE UNCHANGED cr
  BY <1>8 DEF TouchResource, DeployApp, UndeployApp, TouchSecret, DeleteClientExternally,
     Tick, SyncResource, Resync, SyncSecret, TimerFires, LoadInstance,
     FetchFails, FetchCurrentState, KeepResource, CreateClientInApi
<1>9. ASSUME Writes PROVE UNCHANGED cr
  BY <1>9, WritesAreCommands DEF Writes
<1> HIDE DEF Goal
<1> QED
  BY <1>1, <1>2, <1>3, <1>4, <1>5, <1>6, <1>7, <1>8, <1>9, Steps DEF World, Around

\* What a call still holds of the resource, and could write, it held before or reads now.
LEMMA FreshKept ==
    ASSUME [Next]_vars, "instance" \in crFresh', ~LoadInstance, ~RecordFinalizer
    PROVE  /\ "instance" \in crFresh /\ UNCHANGED cr
           /\ UNCHANGED crCache \/ (SyncResource /\ crCache' = cr')
<1>1. CASE World
  <2>1. CASE \/ \E s \in Scopes : CreateResource(s) \/ EditScopes(s)
             \/ TouchResource \/ DeleteResource
    BY <2>1 DEF CreateResource, EditScopes, TouchResource, DeleteResource, WriteObserved
  <2>2. CASE SyncResource
    BY <2>2 DEF SyncResource
  <2>3. CASE \/ DeployApp \/ UndeployApp \/ TouchSecret
             \/ \E c \in clients : DeleteClientExternally(c)
             \/ Tick \/ Resync \/ SyncSecret \/ TimerFires \/ UNCHANGED vars
    BY <2>3 DEF DeployApp, UndeployApp, TouchSecret, DeleteClientExternally, Tick, Resync,
       SyncSecret, TimerFires
  <2> QED
    BY <1>1, <2>1, <2>2, <2>3 DEF World
<1>2. CASE FetchCurrentState \/ FetchFails \/ CreateClientInApi
  BY <1>2 DEF FetchCurrentState, FetchFails, CreateClientInApi, KeepResource
<1>3. CASE Writes
  BY <1>3, WritesAreCommands DEF Writes
<1>4. CASE Restart
  BY <1>4 DEF Restart
<1>5. CASE UpdateStatus \/ UpdateStatusWithError
  BY <1>5 DEF UpdateStatus, UpdateStatusWithError, ReportSuccess, KeepResource
<1> QED
  BY <1>1, <1>2, <1>3, <1>4, <1>5, Steps DEF Around

\* A call that could still report works on what the informer has seen.
LEMMA ReportsSeenKept ==
    ASSUME IInv, ReportsSeen, [Next]_vars
    PROVE  ReportsSeen'
<1> SUFFICES ASSUME pc' # "idle", "instance" \in crFresh'
             PROVE  SameSpec(crCache', cr')
  BY DEF ReportsSeen
<1>1. CASE LoadInstance
  <2>1. "cache" \in crFresh /\ UNCHANGED <<cr, crCache>>
    BY <1>1 DEF LoadInstance
  <2> QED
    BY <2>1 DEF SameSpec, IInv, Copies, CopiesCurrent
<1>2. CASE RecordFinalizer
  <2>1. /\ pc = "record" /\ "instance" \in crFresh /\ UNCHANGED crCache
        /\ cr' = [cr EXCEPT !.finalizer = TRUE]
    BY <1>2 DEF RecordFinalizer, Return, Forget, KeepResource, ResourceWriteAccepted
  <2>2. SameSpec(crCache, cr)
    BY <2>1 DEF ReportsSeen
  <2>3. SameSpec(cr, cr')
    BY <2>1, SameSpecKept DEF IInv, TypeOK, ResourceTypeOK
  <2> QED
    BY <2>1, <2>2, <2>3 DEF SameSpec
<1>3. CASE ~LoadInstance /\ ~RecordFinalizer
  <2>1. pc # "idle"
    BY <1>3, InstanceKept
  <2>2. SameSpec(crCache, cr)
    BY <1>3, <2>1, FreshKept DEF ReportsSeen
  <2> QED
    BY <1>3, <2>2, FreshKept DEF SameSpec
<1> QED
  BY <1>1, <1>2, <1>3

\* What counts as reconciled, the informer and the worker have seen.
LEMMA ReconciledSeenKept ==
    ASSUME IInv, ObservedPast, ReportsSeen, ReconciledSeen, [Next]_vars, ~Fault, ~Restart
    PROVE  ReconciledSeen'
<1> SUFFICES ASSUME Reconciled'
             PROVE  SameSpec(crCache', cr') /\ (pc' # "idle" => SameSpec(instance', cr'))
  BY DEF ReconciledSeen
<1>1. CASE UpdateStatus
  <2>1. pc' = "idle" /\ pc # "idle" /\ UNCHANGED crCache
    BY <1>1 DEF UpdateStatus, Return, Forget
  <2>2. SameSpec(crCache, cr) /\ SameSpec(cr, cr')
    BY <2>1, ReconciledWhen DEF ReconciledSeen, ReportsSeen, ResourceWriteAccepted
  <2> QED
    BY <2>1, <2>2 DEF SameSpec
<1>2. CASE ~UpdateStatus
  <2>1. Reconciled /\ SameSpec(cr, cr')
    BY <1>2, ReconciledWhen
  <2>2. SameSpec(crCache, cr) /\ (pc # "idle" => SameSpec(instance, cr))
    BY <2>1 DEF ReconciledSeen
  <2>3. crCache' \in {crCache, cr'}
    <3>1. CASE World
      BY <3>1 DEF World, CreateResource, EditScopes, TouchResource, DeleteResource,
         DeployApp, UndeployApp, TouchSecret, DeleteClientExternally, Tick, SyncResource,
         Resync, SyncSecret, TimerFires
    <3>2. CASE FetchCurrentState \/ CreateClientInApi \/ Around
      BY <3>2 DEF Around, FetchCurrentState, CreateClientInApi, Restart, FetchFails,
         LoadInstance, RecordFinalizer, UpdateStatusWithError, UpdateStatus
    <3>3. CASE Writes
      BY <3>3, WritesAreCommands DEF Writes
    <3> QED
      BY <3>1, <3>2, <3>3, Steps
  <2>4. SameSpec(crCache', cr')
    BY <2>1, <2>2, <2>3 DEF SameSpec
  <2>5. ASSUME pc' # "idle" PROVE SameSpec(instance', cr')
    BY <2>1, <2>2, <2>5, InstanceKept DEF SameSpec
  <2> QED
    BY <2>4, <2>5
<1> QED
  BY <1>1, <1>2

-----------------------------------------------------------------------------
(* What is reported: the client *)

\* What the writes of the loop do to the scopes.
LEMMA WritesToScopes ==
    ASSUME IInv, Writes, TargetLive, ~Fault
    PROVE  /\ clients # {} /\ target \in LiveIds
           /\ ~DeleteClientInApi => clients' # {}
           /\ ~UpdateClientScopes => \A d \in clients' : \E c \in clients : d.scopes = c.scopes
           /\ UpdateClientScopes => \A d \in clients' : d.scopes = instance.scopes
<1>0. clients \subseteq Client /\ AtMostOneClient
  BY DEF IInv, TypeOK
<1>1. target \in LiveIds /\ clients # {}
  BY WritesHaveTarget DEF TargetLive, LiveIds
<1>2. CASE UpdateSecretContent \/ DeleteSecretContent
  <2>1. UNCHANGED clients
    BY <1>2 DEF UpdateSecretContent, DeleteSecretContent, WriteSecret
  <2>2. ~UpdateClientScopes
    BY <1>2 DEF UpdateSecretContent, DeleteSecretContent, UpdateClientScopes, Executing
  <2> QED
    BY <1>1, <2>1, <2>2
<1>3. CASE PostClientJwks \/ UpdateClientJwks
  <2>1. clients' = WithKeys
    BY <1>1, <1>3 DEF PostClientJwks, UpdateClientJwks, WriteClient, Registered, Call
  <2>2. \A c \in clients : [c EXCEPT !.keys = ToPublic(jwks)].scopes = c.scopes
    BY <1>0 DEF Client
  <2>3. \A d \in WithKeys : \E c \in clients : d.scopes = c.scopes
    BY <2>2 DEF WithKeys
  <2>4. WithKeys # {}
    BY <1>1 DEF WithKeys
  <2>5. ~UpdateClientScopes
    <3>1. PostClientJwks => pc = "postJwks"
      BY DEF PostClientJwks
    <3>2. UpdateClientJwks => Head(todo) = "UpdateClientJwks"
      BY DEF UpdateClientJwks, Executing
    <3>3. UpdateClientScopes => pc = "exec" /\ Head(todo) = "UpdateClientScopes"
      BY DEF UpdateClientScopes, Executing
    <3> QED
      BY <1>3, <3>1, <3>2, <3>3
  <2> QED
    BY <1>1, <2>1, <2>3, <2>4, <2>5
<1>4. CASE UpdateClientScopes
  <2>1. clients' = WithScopes
    BY <1>1, <1>4 DEF UpdateClientScopes, WriteClient, Registered, Call
  <2>2. \A c \in clients : c.id = target
    BY <1>0, <1>1 DEF LiveIds, AtMostOneClient
  <2>3. \A c \in clients : [c EXCEPT !.scopes = instance.scopes].scopes = instance.scopes
    BY <1>0 DEF Client
  <2>4. WithScopes # {}
    BY <1>1 DEF WithScopes
  <2>5. \A d \in WithScopes : \E c \in clients : d = [c EXCEPT !.scopes = instance.scopes]
    BY <2>2 DEF WithScopes
  <2> QED
    BY <1>1, <1>4, <2>1, <2>3, <2>4, <2>5
<1>5. CASE DeleteClientInApi
  <2>1. clients' \subseteq clients
    BY <1>5 DEF DeleteClientInApi, WriteClient, Call
  <2>2. ~UpdateClientScopes
    BY <1>5 DEF DeleteClientInApi, UpdateClientScopes, Executing
  <2> QED
    BY <1>1, <1>5, <2>1, <2>2
<1> QED
  BY <1>2, <1>3, <1>4, <1>5 DEF Writes

\* Nobody but the worker writes to the client.
LEMMA WorldLeavesClient ==
    ASSUME World, "externalDelete" \notin Adversity
    PROVE  UNCHANGED clients
<1>1. CASE \E c \in clients : DeleteClientExternally(c)
  BY <1>1 DEF DeleteClientExternally, Disruption
<1>2. CASE ~\E c \in clients : DeleteClientExternally(c)
  BY <1>2 DEF World, CreateResource, EditScopes, TouchResource, DeleteResource,
     DeployApp, UndeployApp, TouchSecret, Tick, SyncResource, Resync, SyncSecret, TimerFires
<1> QED
  BY <1>1, <1>2

LEMMA OthersLeaveClient ==
    ASSUME [Next]_vars, ~CreateClientInApi, ~Writes, "externalDelete" \notin Adversity
    PROVE  UNCHANGED clients
<1>1. FetchCurrentState => UNCHANGED clients
  BY DEF FetchCurrentState
<1> QED
  BY <1>1, Steps, AroundSteps, WorldLeavesClient

\* What counts as reconciled is applied.
LEMMA ReconciledMeansAppliedKept ==
    ASSUME IInv, PlanKnown, TargetLive, StatusTrue, [Next]_vars, ~Fault, ~Restart,
           "externalDelete" \notin Adversity
    PROVE  ReconciledMeansApplied'
<1>0. /\ ObservedPast /\ ReconciledSeen /\ ReconciledMeansApplied /\ ReportsApplied
  BY DEF StatusTrue
<1> SUFFICES ASSUME Reconciled'
             PROVE  clients' # {} /\ \A c \in clients' : c.scopes = cr'.scopes
  BY DEF ReconciledMeansApplied
<1>1. CASE ~Reconciled
  <2>1. /\ UpdateStatus /\ ~instance.deleting /\ instance = cr /\ SameSpec(cr, cr')
    BY <1>0, <1>1, ReconciledWhen
  <2>2. pc = "status" /\ UNCHANGED clients
    BY <2>1 DEF UpdateStatus
  <2> QED
    BY <1>0, <2>1, <2>2 DEF ReportsApplied, AppliedForInstance, SameSpec
<1>2. CASE Reconciled
  <2>1. cr'.scopes = cr.scopes /\ clients # {} /\ \A c \in clients : c.scopes = cr.scopes
    <3>1. SameSpec(cr, cr')
      BY <1>0, ReconciledWhen
    <3> QED
      BY <1>0, <1>2, <3>1 DEF ReconciledMeansApplied, SameSpec
  <2>2. pc # "idle" => instance.scopes = cr.scopes /\ ~instance.deleting
    BY <1>0, <1>2 DEF ReconciledSeen, SameSpec, Reconciled
  <2>3. CASE CreateClientInApi
    BY <2>1, <2>3, CreationAddsOne
  <2>4. CASE Writes
    <3>1. pc # "idle"
      BY <2>4, WritesAreCommands DEF Writes
    <3>2. ~DeleteClientInApi
      <4>1. InFlight => todo \in LiveTodo
        BY <2>2, <3>1 DEF PlanKnown
      <4>2. DeleteClientInApi => InFlight /\ Head(todo) = "DeleteClientInApi"
        BY DEF DeleteClientInApi, Executing, InFlight
      <4> QED
        BY <4>1, <4>2, LiveHead
    <3> QED
      BY <2>1, <2>2, <2>4, <3>1, <3>2, WritesToScopes
  <2>5. CASE ~CreateClientInApi /\ ~Writes
    BY <2>1, <2>5, OthersLeaveClient
  <2> QED
    BY <2>3, <2>4, <2>5
<1> QED
  BY <1>1, <1>2

\* Without a fault a command fails only when the secret has been written meanwhile.
LEMMA WriteOutcome ==
    ASSUME IInv, Writes, TargetLive, ~Fault
    PROVE  \/ Executed
           \/ /\ Aborted /\ "manifest" \notin secretFresh
              /\ UNCHANGED <<clients, secret, secretFresh>>
              /\ UpdateSecretContent \/ DeleteSecretContent
<1>1. target \in LiveIds
  BY WritesToScopes
<1>2. CASE PostClientJwks \/ UpdateClientJwks \/ UpdateClientScopes \/ DeleteClientInApi
  BY <1>1, <1>2 DEF PostClientJwks, UpdateClientJwks, UpdateClientScopes, DeleteClientInApi,
     WriteClient, Registered, Call
<1>3. CASE UpdateSecretContent \/ DeleteSecretContent
  BY <1>3 DEF UpdateSecretContent, DeleteSecretContent, WriteSecret, SecretWriteAccepted, Call
<1> QED
  BY <1>2, <1>3 DEF Writes

\* For a live resource nothing is cleaned up, and keys are posted with the document next.
LEMMA LiveWrites ==
    ASSUME PlanKnown, Writes, ~instance.deleting
    PROVE  /\ todo \in LiveTodo /\ ~DeleteClientInApi /\ ~DeleteSecretContent
           /\ PostClientJwks => todo = CreateCommands
           /\ UpdateSecretContent => Head(todo) = "UpdateSecretContent"
           /\ UpdateClientJwks => Head(todo) = "UpdateClientJwks"
           /\ UpdateClientScopes => Head(todo) = "UpdateClientScopes"
           /\ pc \in {"exec", "postJwks"}
<1>1. pc \in {"exec", "postJwks"}
  BY WritesAreCommands DEF Writes
<1>2. todo \in LiveTodo /\ (pc = "postJwks" => todo = CreateCommands)
  BY <1>1 DEF PlanKnown, InFlight
<1>3. Head(todo) \notin {"DeleteClientInApi", "DeleteSecretContent"}
  BY <1>2, LiveHead
<1>4. /\ ~DeleteClientInApi /\ ~DeleteSecretContent
      /\ PostClientJwks => pc = "postJwks"
      /\ UpdateSecretContent => Head(todo) = "UpdateSecretContent"
      /\ UpdateClientJwks => Head(todo) = "UpdateClientJwks"
      /\ UpdateClientScopes => Head(todo) = "UpdateClientScopes"
  BY <1>3 DEF DeleteClientInApi, DeleteSecretContent, PostClientJwks, UpdateSecretContent,
     UpdateClientJwks, UpdateClientScopes, Executing
<1> QED
  BY <1>1, <1>2, <1>4

\* What is due and not done now is due afterwards.
LEMMA DueLater ==
    ASSUME NEW S, NEW p \in Seq(S), NEW c,
           NEW i \in DOMAIN p, p[i] = c, Head(p) # c
    PROVE  \E j \in DOMAIN Tail(p) : Tail(p)[j] = c
<1>1. p # <<>> /\ i \in 1..Len(p) /\ Head(p) = p[1]
  OBVIOUS
<1>2. i - 1 \in 1..(Len(p) - 1)
  BY <1>1
<1>3. /\ Tail(p) \in Seq(S) /\ Len(Tail(p)) = Len(p) - 1
      /\ \A j \in 1..Len(Tail(p)) : Tail(p)[j] = p[j + 1]
  BY <1>1, HeadTailProperties
<1>4. Tail(p)[i - 1] = c /\ i - 1 \in DOMAIN Tail(p)
  BY <1>1, <1>2, <1>3
<1> QED
  BY <1>4

\* What is due in the plans that are about to end, or have just begun.
LEMMA DueIn ==
    ASSUME IInv, PlanKnown, InFlight, ~instance.deleting
    PROVE  /\ Tail(todo) = <<>> => \A c : Due(c) => Head(todo) = c
           /\ todo = CreateCommands => ~Due("UpdateClientScopes")
           /\ todo = RecoverCommands => Due("UpdateSecretContent")
<1>1. todo \in LiveTodo
  BY DEF PlanKnown
<1>2. ASSUME Tail(todo) = <<>>, NEW c, Due(c) PROVE Head(todo) = c
  <2>1. todo \in Seq(CommandName) /\ todo # <<>>
    BY <1>1, LiveHead DEF IInv, TypeOK, WorkerTypeOK
  <2>2. Len(Tail(todo)) = Len(todo) - 1 /\ Len(todo) \in Nat
    BY <2>1, HeadTailProperties, LenProperties
  <2>3. Len(<<>>) = 0
    OBVIOUS
  <2>4. Len(todo) = 1
    BY <1>2, <2>2, <2>3
  <2> QED
    BY <1>2, <2>1, <2>4 DEF Due
<1>3. todo = CreateCommands => ~Due("UpdateClientScopes")
  BY DEF Due, CreateCommands
<1>4. ASSUME todo = RecoverCommands PROVE Due("UpdateSecretContent")
  <2>1. 2 \in DOMAIN todo /\ todo[2] = "UpdateSecretContent"
    BY <1>4 DEF RecoverCommands
  <2> QED
    BY <2>1 DEF Due
<1> QED
  BY <1>2, <1>3, <1>4

\* A plan that has been completed has set the scopes, or found them right.
LEMMA ReportsAppliedKept ==
    ASSUME IInv, PlanKnown, TargetLive, PlanApplies, ReportsApplied,
           [Next]_vars, ~Fault, ~Restart, "externalDelete" \notin Adversity
    PROVE  ReportsApplied'
<1> SUFFICES ASSUME pc' = "status", ~instance'.deleting
             PROVE  clients' # {} /\ AppliedForInstance'
  BY DEF ReportsApplied
<1>1. CASE World
  BY <1>1, WorldSteps, WorldLeavesClient DEF ReportsApplied, AppliedForInstance
<1>2. CASE Around
  BY <1>2, AroundSteps
<1>3. CASE FetchCurrentState \/ CreateClientInApi
  BY <1>3 DEF FetchCurrentState, Return, Forget, CreateClientInApi, Aborted
<1>4. CASE Writes
  <2>1. Executed /\ Tail(todo) = <<>>
    BY <1>4, WriteOutcome DEF Executed, Aborted
  <2>2. InFlight /\ UNCHANGED instance /\ ~instance.deleting
    BY <1>4, WritesAreCommands DEF Writes, InFlight
  <2>3. ~DeleteClientInApi /\ ~DeleteSecretContent /\ ~PostClientJwks
    <3>1. Tail(CreateCommands) # <<>>
      BY DEF CreateCommands
    <3> QED
      BY <1>4, <2>1, <2>2, <3>1, LiveWrites
  <2>4. clients' # {}
    BY <1>4, <2>3, WritesToScopes
  <2>5. CASE UpdateClientScopes
    BY <1>4, <2>2, <2>4, <2>5, WritesToScopes DEF AppliedForInstance
  <2>6. CASE ~UpdateClientScopes
    <3>1. AppliedForInstance
      <4>1. UpdateSecretContent => "manifest" \in secretFresh
        BY <2>1 DEF UpdateSecretContent, WriteSecret, SecretWriteAccepted, Executed, Aborted
      <4>2. Head(todo) # "UpdateClientScopes"
        BY <1>4, <2>2, <2>3, <2>6, LiveWrites DEF Writes
      <4>3. ~Due("UpdateClientScopes")
        BY <2>1, <2>2, <4>2, DueIn
      <4>4. Due("UpdateSecretContent") => "manifest" \in secretFresh
        <5>1. Due("UpdateSecretContent") => Head(todo) = "UpdateSecretContent"
          BY <2>1, <2>2, DueIn
        <5>2. Head(todo) = "UpdateSecretContent" => UpdateSecretContent
          BY <1>4, <2>2, <2>3, <2>6, LiveWrites DEF Writes
        <5> QED
          BY <4>1, <5>1, <5>2
      <4> QED
        BY <2>2, <4>3, <4>4 DEF PlanApplies
    <3> QED
      BY <1>4, <2>2, <2>4, <2>6, <3>1, WritesToScopes DEF AppliedForInstance
  <2> QED
    BY <2>5, <2>6
<1> QED
  BY <1>1, <1>2, <1>3, <1>4, Steps

\* The copy a call holds of the secret is refreshed by planning only.
LEMMA WorldManifest ==
    ASSUME World
    PROVE  /\ "manifest" \in secretFresh' => "manifest" \in secretFresh
           /\ \/ UNCHANGED secretFresh \/ SyncSecret
              \/ DeployApp \/ UndeployApp \/ TouchSecret
<1>1. CASE DeployApp \/ UndeployApp \/ TouchSecret
  BY <1>1 DEF DeployApp, UndeployApp, TouchSecret
<1>2. CASE SyncSecret
  BY <1>2 DEF SyncSecret
<1>3. CASE ~DeployApp /\ ~UndeployApp /\ ~TouchSecret /\ ~SyncSecret
  BY <1>3 DEF World, CreateResource, EditScopes, TouchResource, DeleteResource,
     DeleteClientExternally, Tick, SyncResource, Resync, TimerFires
<1> QED
  BY <1>1, <1>2, <1>3

\* Scopes that differ are in the plan.
LEMMA ScopesPlanned ==
    ASSUME NEW scopes, NEW client, NEW content, NEW url, NEW left,
           client # Null, content # Null, client.scopes # scopes
    PROVE  LET p == Plan(FALSE, scopes, client, content, url, left)
           IN \E i \in DOMAIN p : p[i] = "UpdateClientScopes"
<1> DEFINE p == Plan(FALSE, scopes, client, content, url, left)
           S == If(AuthorityChanged(content, url) \/ RotationDue(content.jwks, left),
                   <<"UpdateSecretContent">>)
           J == If(RotationDue(content.jwks, left), <<"UpdateClientJwks">>)
           C == <<"UpdateClientScopes">>
           T == CommandName
<1>1. p = S \o J \o C
  BY DEF Plan, SteadyCommands, If, ScopesChanged
<1>2. S \in Seq(T) /\ J \in Seq(T)
  <2>1. <<"UpdateSecretContent">> \in Seq(T) /\ <<"UpdateClientJwks">> \in Seq(T)
    BY DEF CommandName
  <2>2. <<>> \in Seq(T)
    OBVIOUS
  <2> QED
    BY <2>1, <2>2 DEF If
<1>3. C \in Seq(T) /\ Len(C) = 1 /\ C[1] = "UpdateClientScopes"
  BY DEF CommandName
<1> HIDE DEF p, S, J, C, T
<1>4. S \o J \in Seq(T)
  BY <1>2, ConcatProperties
<1> DEFINE SJ == S \o J
<1>5. SJ \in Seq(T) /\ p = SJ \o C
  BY <1>1, <1>4
<1> HIDE DEF SJ
<1>6. Len(SJ) \in Nat
  BY <1>5, LenProperties
<1> DEFINE last == Len(SJ) + 1
<1>7. last \in 1..last /\ ~(last <= Len(SJ)) /\ last - Len(SJ) = 1 /\ last = Len(SJ) + 1
  BY <1>6
<1>8. /\ p \in Seq(T) /\ Len(p) = last
      /\ \A i \in 1..last : p[i] = IF i <= Len(SJ) THEN SJ[i] ELSE C[i - Len(SJ)]
  <2>1. /\ SJ \o C \in Seq(T) /\ Len(SJ \o C) = Len(SJ) + Len(C)
        /\ \A i \in 1..Len(SJ) + Len(C) :
             (SJ \o C)[i] = IF i <= Len(SJ) THEN SJ[i] ELSE C[i - Len(SJ)]
    BY <1>3, <1>5, ConcatProperties
  <2> QED
    BY <1>3, <1>5, <2>1
<1> HIDE DEF last
<1>9. p[last] = C[1]
  <2>1. p[last] = C[last - Len(SJ)]
    BY <1>7, <1>8
  <2> QED
    BY <1>7, <2>1
<1>10. last \in DOMAIN p
  <2>1. DOMAIN p = 1..Len(p)
    BY <1>8, LenProperties
  <2>2. Len(p) = last /\ last \in 1..last
    BY <1>7, <1>8
  <2> QED
    BY <2>1, <2>2
<1> QED
  BY <1>3, <1>9, <1>10 DEF p

\* A plan whose client has other scopes sets them, or comes from a stale secret.
LEMMA PlanAppliesPlanned ==
    ASSUME IInv, KeyInv, PlanKnown, ClientDocumented, FetchCurrentState
    PROVE  PlanApplies'
<1> SUFFICES ASSUME InFlight', ~instance'.deleting
             PROVE  \/ AppliedForInstance'
                    \/ Due("UpdateClientScopes")'
                    \/ Due("UpdateSecretContent")' /\ "manifest" \notin secretFresh'
  BY DEF PlanApplies
<1> DEFINE content == secretCache.content
<1>1. PICK client \in MatchingClients(content) :
         /\ client = Null => clients = {} /\ content = Null
         /\ client # Null => client \in clients
         /\ \/ Return(FALSE)
            \/ /\ Plan(instance.deleting, instance.scopes, client, content, authority,
                       remaining) # <<>>
               /\ todo' = Plan(instance.deleting, instance.scopes, client, content, authority,
                               remaining)
               /\ secretFresh' = secretFresh \cup
                    (IF "cache" \in secretFresh THEN {"manifest"} ELSE {})
               /\ UNCHANGED instance
  BY Planning
<1> HIDE DEF content
<1>2. ~Return(FALSE)
  BY DEF Return, Forget, InFlight
<1>3. UNCHANGED <<clients, instance>> /\ instance.deleting = FALSE /\ pc = "fetch"
  <2>1. instance.deleting \in BOOLEAN
    BY DEF IInv, TypeOK, WorkerTypeOK, Resource
  <2> QED
    BY <1>1, <1>2, <2>1 DEF FetchCurrentState
<1> DEFINE p == Plan(FALSE, instance.scopes, client, content, authority, remaining)
<1>4. todo' = p
  BY <1>1, <1>2, <1>3
<1>5. CASE client = Null
  BY <1>1, <1>3, <1>5 DEF AppliedForInstance
<1>6. CASE client # Null /\ content = Null
  <2>1. 2 \in DOMAIN RecoverCommands /\ RecoverCommands[2] = "UpdateSecretContent"
    BY DEF RecoverCommands
  <2>2. todo' = RecoverCommands
    BY <1>4, <1>6 DEF Plan
  <2>3. Due("UpdateSecretContent")'
    BY <2>1, <2>2 DEF Due
  <2>4. secret.content # Null
    BY <1>1, <1>3, <1>6 DEF ClientDocumented, InFlight
  <2>5. "cache" \notin secretFresh /\ "manifest" \notin secretFresh
    BY <1>3, <1>6, <2>4 DEF KeyInv, SecretCopyCurrent, ManifestHeld, content
  <2> QED
    BY <1>1, <1>2, <2>3, <2>5
<1>7. CASE client # Null /\ content # Null /\ client.scopes = instance.scopes
  <2>1. \A c \in clients : c = client
    BY <1>1, <1>7 DEF IInv, AtMostOneClient
  <2> QED
    BY <1>3, <1>7, <2>1 DEF AppliedForInstance
<1>8. CASE client # Null /\ content # Null /\ client.scopes # instance.scopes
  <2>1. \E i \in DOMAIN p : p[i] = "UpdateClientScopes"
    <3> DEFINE scopes == instance.scopes
    <3>1. client.scopes # scopes
      BY <1>8
    <3> HIDE DEF scopes
    <3>2. \E i \in DOMAIN Plan(FALSE, scopes, client, content, authority, remaining) :
             Plan(FALSE, scopes, client, content, authority, remaining)[i]
               = "UpdateClientScopes"
      BY <1>8, <3>1, ScopesPlanned
    <3> QED
      BY <3>2 DEF scopes
  <2> QED
    BY <1>4, <2>1 DEF Due
<1> QED
  BY <1>5, <1>6, <1>7, <1>8

\* Until it is completed a plan goes on to set the scopes, or has set them.
LEMMA PlanAppliesKept ==
    ASSUME IInv, KeyInv, PlanKnown, TargetLive, PlanApplies, ClientDocumented,
           [Next]_vars, ~Fault, ~Restart, "externalDelete" \notin Adversity
    PROVE  PlanApplies'
<1>1. CASE World
  BY <1>1, WorldSteps, WorldLeavesClient, WorldManifest
     DEF PlanApplies, InFlight, AppliedForInstance, Due
<1>2. CASE Around
  BY <1>2, AroundSteps DEF PlanApplies, InFlight
<1>3. CASE FetchCurrentState
  BY <1>3, PlanAppliesPlanned
<1>4. CASE CreateClientInApi
  <2>1. clients' = clients \/ \E id \in ClientId :
           clients' = {[id |-> id, scopes |-> instance.scopes, keys |-> {}]}
    BY <1>4, CreationAddsOne
  <2>2. clients = {} /\ UNCHANGED instance
    BY <1>4, CreationAddsOne DEF CreateClientInApi
  <2>3. AppliedForInstance'
    BY <2>1, <2>2 DEF AppliedForInstance
  <2> QED
    BY <2>3 DEF PlanApplies
<1>5. CASE Writes
  <2> SUFFICES ASSUME InFlight', ~instance'.deleting
               PROVE  \/ AppliedForInstance'
                      \/ Due("UpdateClientScopes")'
                      \/ Due("UpdateSecretContent")' /\ "manifest" \notin secretFresh'
    BY DEF PlanApplies
  <2>1. /\ Executed /\ InFlight /\ UNCHANGED instance /\ ~instance.deleting
        /\ todo' = Tail(todo)
    <3>1. InFlight /\ UNCHANGED instance
      BY <1>5, WritesAreCommands DEF Writes, InFlight
    <3>2. ~Aborted
      BY DEF Aborted, InFlight
    <3> QED
      BY <1>5, <3>1, <3>2, WriteOutcome DEF Executed
  <2>2. ~DeleteClientInApi /\ ~DeleteSecretContent
    BY <1>5, <2>1, LiveWrites
  <2>3. todo \in Seq(CommandName)
    BY DEF IInv, TypeOK, WorkerTypeOK
  <2>4. CASE UpdateClientScopes
    BY <1>5, <2>1, <2>4, WritesToScopes DEF AppliedForInstance
  <2>5. CASE AppliedForInstance /\ ~UpdateClientScopes
    BY <1>5, <2>1, <2>5, WritesToScopes DEF AppliedForInstance
  <2>6. CASE Due("UpdateClientScopes") /\ ~UpdateClientScopes
    <3>1. Head(todo) # "UpdateClientScopes"
      <4>1. PostClientJwks => Head(todo) = "CreateClientInApi"
        <5>1. Head(CreateCommands) = "CreateClientInApi"
          BY DEF CreateCommands
        <5> QED
          BY <1>5, <2>1, <5>1, LiveWrites
      <4> QED
        BY <1>5, <2>1, <2>2, <2>6, <4>1, LiveWrites DEF Writes
    <3>2. PICK i \in DOMAIN todo : todo[i] = "UpdateClientScopes"
      BY <2>6 DEF Due
    <3>3. \E j \in DOMAIN Tail(todo) : Tail(todo)[j] = "UpdateClientScopes"
      BY <2>3, <3>1, <3>2, DueLater
    <3> QED
      BY <2>1, <3>3 DEF Due
  <2>7. CASE /\ Due("UpdateSecretContent") /\ "manifest" \notin secretFresh
             /\ ~UpdateClientScopes
    <3>1. ~UpdateSecretContent
      BY <2>1, <2>7 DEF UpdateSecretContent, WriteSecret, SecretWriteAccepted, Executed, Aborted
    <3>2. UNCHANGED secretFresh
      BY <1>5, <2>2, <3>1, WritesToSecret
    <3>3. Head(todo) # "UpdateSecretContent"
      <4>1. PostClientJwks => Head(todo) = "CreateClientInApi"
        <5>1. Head(CreateCommands) = "CreateClientInApi"
          BY DEF CreateCommands
        <5> QED
          BY <1>5, <2>1, <5>1, LiveWrites
      <4> QED
        BY <1>5, <2>1, <2>2, <2>7, <3>1, <4>1, LiveWrites DEF Writes
    <3>4. PICK i \in DOMAIN todo : todo[i] = "UpdateSecretContent"
      BY <2>7 DEF Due
    <3>5. \E j \in DOMAIN Tail(todo) : Tail(todo)[j] = "UpdateSecretContent"
      BY <2>3, <3>3, <3>4, DueLater
    <3> QED
      BY <2>1, <2>7, <3>2, <3>5 DEF Due
  <2> QED
    BY <2>1, <2>4, <2>5, <2>6, <2>7 DEF PlanApplies
<1> QED
  BY <1>1, <1>2, <1>3, <1>4, <1>5, Steps

-----------------------------------------------------------------------------
(* What is reported: nothing is half done *)

\* What the writes of the loop execute.
LEMMA WriteHeads ==
    ASSUME PlanKnown, Writes
    PROVE  /\ PostClientJwks => pc = "postJwks" /\ todo = CreateCommands
           /\ UpdateSecretContent => pc = "exec" /\ Head(todo) = "UpdateSecretContent"
           /\ DeleteSecretContent =>
                pc = "exec" /\ Head(todo) = "DeleteSecretContent" /\ instance.deleting
                /\ Tail(todo) = <<"DeleteClientInApi">>
           /\ UpdateClientJwks => pc = "exec" /\ Head(todo) = "UpdateClientJwks"
           /\ UpdateClientScopes => pc = "exec" /\ Head(todo) = "UpdateClientScopes"
<1>1. /\ PostClientJwks => pc = "postJwks"
      /\ UpdateSecretContent => pc = "exec" /\ Head(todo) = "UpdateSecretContent"
      /\ DeleteSecretContent => pc = "exec" /\ Head(todo) = "DeleteSecretContent"
      /\ UpdateClientJwks => pc = "exec" /\ Head(todo) = "UpdateClientJwks"
      /\ UpdateClientScopes => pc = "exec" /\ Head(todo) = "UpdateClientScopes"
  BY DEF PostClientJwks, UpdateSecretContent, DeleteSecretContent, UpdateClientJwks,
     UpdateClientScopes, Executing
<1>2. PostClientJwks => todo = CreateCommands
  BY <1>1 DEF PlanKnown
<1>3. DeleteSecretContent => instance.deleting /\ Tail(todo) = <<"DeleteClientInApi">>
  <2>1. pc = "exec" => todo \in IF instance.deleting THEN CleanupTodo ELSE LiveTodo
    BY DEF PlanKnown, InFlight
  <2> QED
    BY <1>1, <2>1, LiveHead, CleanupSteps
<1> QED
  BY <1>1, <1>2, <1>3

\* Only a document that was found is cleared.
LEMMA ClearsFound ==
    ASSUME NEW deleting \in BOOLEAN, NEW scopes, NEW client, NEW url, NEW left,
           NEW p, p = Plan(deleting, scopes, client, Null, url, left), p # <<>>
    PROVE  Head(p) # "DeleteSecretContent"
<1> DEFINE C == "DeleteClientInApi"
<1>1. CASE ~deleting
  <2>1. p = CreateCommands \/ p = RecoverCommands
    BY <1>1 DEF Plan
  <2>2. p \in LiveTodo
    BY <2>1 DEF LiveTodo
  <2> QED
    BY <2>2, LiveHead
<1>2. CASE deleting
  <2>1. <<>> \o <<C>> = <<C>> /\ <<>> \o <<>> = <<>>
    <3>1. <<C>> \in Seq({C}) /\ <<>> \in Seq({C})
      OBVIOUS
    <3> QED
      BY <3>1, ConcatEmptySeq
  <2>2. p = <<C>>
    BY <1>2, <2>1 DEF Plan, CleanupCommands, If
  <2>3. Head(<<C>>) = C
    OBVIOUS
  <2> QED
    BY <2>2, <2>3
<1> QED
  BY <1>1, <1>2

\* An empty secret is listed as such only once.
LEMMA EmptySeenKept ==
    ASSUME IInv, SecretThere, PlanKnown, EmptySeen, ClearsWritten, [Next]_vars, ~Restart,
           {"touchSecret", "undeploy"} \cap Adversity = {}
    PROVE  EmptySeen'
<1>1. CASE World
  <2>1. CASE DeployApp
    BY <2>1 DEF DeployApp, EmptySeen, SecretThere
  <2>2. CASE UndeployApp \/ TouchSecret
    BY <2>2 DEF UndeployApp, TouchSecret, Disruption
  <2>3. CASE SyncSecret
    BY <2>3 DEF SyncSecret, EmptySeen
  <2>4. CASE ~DeployApp /\ ~UndeployApp /\ ~TouchSecret /\ ~SyncSecret
    <3>1. UNCHANGED <<secret, secretCache, secretFresh>>
      BY <1>1, <2>4 DEF World, CreateResource, EditScopes, TouchResource, DeleteResource,
         DeleteClientExternally, Tick, SyncResource, Resync, TimerFires
    <3> QED
      BY <3>1 DEF EmptySeen
  <2> QED
    BY <2>1, <2>2, <2>3, <2>4
<1>2. CASE FetchCurrentState
  <2>1. UNCHANGED <<secret, secretCache>> /\ secretFresh \subseteq secretFresh'
    BY <1>2 DEF FetchCurrentState
  <2> QED
    BY <2>1 DEF EmptySeen
<1>3. CASE CreateClientInApi
  BY <1>3 DEF CreateClientInApi, EmptySeen
<1>4. CASE Around
  <2>1. /\ UNCHANGED <<secret, secretCache>>
        /\ "cache" \in secretFresh => "cache" \in secretFresh'
    BY <1>4 DEF Around, RecordFinalizer, FetchFails, LoadInstance, UpdateStatus,
       UpdateStatusWithError, DropManifest
  <2> QED
    BY <2>1 DEF EmptySeen
<1>5. CASE Writes
  <2>1. CASE DeleteSecretContent
    BY <1>5, <2>1, WritesToSecret, WriteHeads DEF EmptySeen, ClearsWritten
  <2>2. CASE ~DeleteSecretContent
    BY <1>5, <2>2, WritesToSecret DEF EmptySeen
  <2> QED
    BY <2>1, <2>2
<1> QED
  BY <1>1, <1>2, <1>3, <1>4, <1>5, Steps

\* A document that is about to be cleared is there, and has been listed.
LEMMA ClearsWrittenKept ==
    ASSUME IInv, KeyInv, PlanKnown, ClearsWritten, [Next]_vars,
           {"touchSecret", "undeploy"} \cap Adversity = {}
    PROVE  ClearsWritten'
<1>1. CASE World
  <2>1. CASE DeployApp \/ UndeployApp \/ TouchSecret
    BY <2>1 DEF DeployApp, UndeployApp, TouchSecret, ClearsWritten
  <2>2. CASE ~DeployApp /\ ~UndeployApp /\ ~TouchSecret
    <3>1. UNCHANGED secret /\ secretCache' \in {secretCache, secret}
      BY <1>1, <2>2 DEF World, CreateResource, EditScopes, TouchResource, DeleteResource,
         DeleteClientExternally, Tick, SyncResource, Resync, SyncSecret, TimerFires
    <3> QED
      BY <1>1, <3>1, WorldSteps, WorldManifest DEF ClearsWritten
  <2> QED
    BY <2>1, <2>2
<1>2. CASE FetchCurrentState
  <2> SUFFICES ASSUME pc' = "exec", Head(todo') = "DeleteSecretContent",
                      "manifest" \in secretFresh'
               PROVE  secret.content # Null /\ secretCache.content # Null
    BY <1>2 DEF ClearsWritten, FetchCurrentState
  <2> DEFINE content == secretCache.content
  <2>1. PICK client \in MatchingClients(content) :
           \/ Return(FALSE)
           \/ /\ Plan(instance.deleting, instance.scopes, client, content, authority,
                         remaining) # <<>>
              /\ todo' = Plan(instance.deleting, instance.scopes, client, content, authority,
                              remaining)
              /\ secretFresh' = secretFresh \cup
                   (IF "cache" \in secretFresh THEN {"manifest"} ELSE {})
    BY <1>2, Planning
  <2>2. ~Return(FALSE) /\ pc = "fetch"
    BY <1>2 DEF Return, Forget, FetchCurrentState
  <2>3. secretCache = secret
    BY <2>1, <2>2 DEF KeyInv, ManifestHeld, SecretCopyCurrent
  <2>4. content # Null
    <3> SUFFICES ASSUME content = Null PROVE FALSE
      OBVIOUS
    <3> DEFINE scopes == instance.scopes
               deleting == instance.deleting
               p == Plan(deleting, scopes, client, Null, authority, remaining)
    <3>1. p # <<>> /\ todo' = p
      BY <2>1, <2>2
    <3>2. deleting \in BOOLEAN
      BY DEF IInv, TypeOK, WorkerTypeOK, Resource
    <3>3. p = Plan(deleting, scopes, client, Null, authority, remaining)
      OBVIOUS
    <3> HIDE DEF p, scopes, deleting
    <3> QED
      BY <3>1, <3>2, <3>3, ClearsFound
  <2> QED
    BY <2>3, <2>4
<1>3. CASE CreateClientInApi
  <2>1. pc' # "exec"
    BY <1>3 DEF CreateClientInApi, Aborted
  <2> QED
    BY <2>1 DEF ClearsWritten
<1>4. CASE Around
  BY <1>4, AroundSteps DEF ClearsWritten
<1>5. CASE Writes
  <2> SUFFICES ASSUME pc' = "exec", Head(todo') = "DeleteSecretContent" PROVE FALSE
    BY DEF ClearsWritten
  <2>1. /\ todo' = Tail(todo) /\ Tail(todo) # <<>> /\ InFlight
    BY <1>5, WritesAreCommands DEF Writes, Executed, Aborted, InFlight
  <2>2. CASE ~instance.deleting
    <3>1. todo \in LiveTodo
      BY <2>1, <2>2 DEF PlanKnown
    <3> DEFINE t == Tail(todo)
    <3>2. t \in LiveTodo
      BY <2>1, <3>1, LiveTail
    <3>3. todo' = t
      BY <2>1
    <3> HIDE DEF t
    <3> QED
      BY <3>2, <3>3, LiveHead
  <2>3. CASE instance.deleting
    <3>1. todo \in CleanupTodo
      BY <2>1, <2>3 DEF PlanKnown
    <3>2. todo' = <<"DeleteClientInApi">>
      BY <2>1, <3>1, CleanupSteps
    <3>3. Head(<<"DeleteClientInApi">>) = "DeleteClientInApi"
      OBVIOUS
    <3> QED
      BY <3>2, <3>3
  <2> QED
    BY <2>2, <2>3
<1> QED
  BY <1>1, <1>2, <1>3, <1>4, <1>5, Steps

\* A client is without a document only while a call is about to write one, or is about
\* to delete the client.
LEMMA ClientDocumentedKept ==
    ASSUME IInv, SettledInv, ClientDocumented, CreatesOnEmpty, [Next]_vars, ~Fault, ~Restart,
           {"undeploy", "externalDelete"} \cap Adversity = {}
    PROVE  ClientDocumented'
<1>0. PlanKnown /\ TargetLive /\ SecretThere
  BY DEF SettledInv
<1> SUFFICES ASSUME clients' # {}, secret'.content = Null
             PROVE  InFlight' /\ (instance'.deleting => todo' = <<"DeleteClientInApi">>)
  BY DEF ClientDocumented
<1>1. CASE World
  BY <1>0, <1>1, WorldSteps, WorldLeavesDocument, WorldLeavesClient
     DEF ClientDocumented, InFlight
<1>2. CASE Around
  BY <1>2, AroundSteps DEF ClientDocumented, InFlight
<1>3. CASE FetchCurrentState
  BY <1>3 DEF FetchCurrentState, ClientDocumented, InFlight
<1>4. CASE CreateClientInApi
  BY <1>4, CreationAddsOne DEF CreateClientInApi, InFlight
<1>5. CASE Writes
  <2>1. InFlight /\ UNCHANGED instance /\ clients # {}
    BY <1>0, <1>5, WritesAreCommands, WritesToScopes DEF Writes, InFlight
  <2>2. CASE DeleteClientInApi
    BY <1>0, <2>2, CleanupDeletes
  <2>3. CASE DeleteSecretContent
    <3>1. Executed
      <4>1. Aborted /\ "manifest" \notin secretFresh /\ UNCHANGED secret => FALSE
        <5>1. instance.deleting /\ Head(todo) = "DeleteSecretContent"
          BY <1>0, <1>5, <2>3, WriteHeads
        <5>2. Head(<<"DeleteClientInApi">>) = "DeleteClientInApi"
          OBVIOUS
        <5> QED
          BY <2>1, <5>1, <5>2 DEF ClientDocumented
      <4> QED
        BY <1>0, <1>5, <4>1, WriteOutcome
    <3>2. Tail(todo) = <<"DeleteClientInApi">> /\ <<"DeleteClientInApi">> # <<>>
      BY <1>0, <1>5, <2>3, WriteHeads
    <3> QED
      BY <3>1, <3>2 DEF Executed, InFlight
  <2>4. CASE ~DeleteClientInApi /\ ~DeleteSecretContent
    <3>1. ~UpdateSecretContent \/ UNCHANGED secret
      BY <1>5, <2>4, WritesToSecret
    <3>2. UNCHANGED secret
      BY <1>5, <2>4, <3>1, WritesToSecret
    <3>3. ~instance.deleting
      <4>1. instance.deleting => todo \in CleanupTodo
        BY <1>0, <2>1 DEF PlanKnown
      <4>2. PostClientJwks => ~instance.deleting
        <5>1. PostClientJwks => pc = "postJwks"
          BY DEF PostClientJwks
        <5> QED
          BY <5>1 DEF IInv, Commands, PostsForNew
      <4> QED
        BY <1>0, <1>5, <2>4, <4>1, <4>2, WriteHeads, CleanupSteps DEF Writes
    <3>4. "manifest" \in secretFresh /\ todo \in {CreateCommands, <<"UpdateSecretContent">>}
      BY <2>1, <3>2, <3>3 DEF CreatesOnEmpty
    <3>5. Head(CreateCommands) = "CreateClientInApi"
      BY DEF CreateCommands
    <3>6. Head(<<"UpdateSecretContent">>) = "UpdateSecretContent"
      OBVIOUS
    <3>7. PostClientJwks \/ UpdateSecretContent
      BY <1>0, <1>5, <2>4, <3>4, <3>5, <3>6, WriteHeads DEF Writes
    <3>8. Executed
      BY <1>0, <1>5, <3>4, WriteOutcome
    <3>9. CASE UpdateSecretContent
      <4>1. secretFresh' = {}
        BY <3>8, <3>9 DEF UpdateSecretContent, WriteSecret, Call, Executed, Aborted
      <4> QED
        BY <1>5, <3>4, <3>9, <4>1, WritesToSecret DEF UpdateSecretContent, DeleteSecretContent,
           Executing
    <3>10. CASE PostClientJwks
      <4>1. todo = CreateCommands
        BY <1>0, <1>5, <3>10, WriteHeads
      <4>2. Tail(CreateCommands) # <<>>
        BY DEF CreateCommands
      <4> QED
        BY <2>1, <3>3, <3>8, <4>1, <4>2 DEF Executed, InFlight
    <3> QED
      BY <3>7, <3>9, <3>10
  <2> QED
    BY <2>2, <2>3, <2>4
<1> QED
  BY <1>1, <1>2, <1>3, <1>4, <1>5, Steps

\* A plan for a live resource that starts from an empty secret creates the client, and
\* its update of the secret will not be refused.
LEMMA CreatesOnEmptyKept ==
    ASSUME IInv, SettledInv, EmptySeen, ClientDocumented, CreatesOnEmpty, [Next]_vars,
           ~Fault, ~Restart,
           {"touchSecret", "undeploy", "externalDelete"} \cap Adversity = {}
    PROVE  CreatesOnEmpty'
<1>0. PlanKnown /\ TargetLive /\ SecretThere
  BY DEF SettledInv
<1> SUFFICES ASSUME InFlight', ~instance'.deleting, secret'.content = Null
             PROVE  /\ "manifest" \in secretFresh'
                    /\ todo' \in {CreateCommands, <<"UpdateSecretContent">>}
  BY DEF CreatesOnEmpty
<1>1. CASE World
  <2>1. UNCHANGED localVars /\ InFlight /\ secret.exists
    BY <1>0, <1>1, WorldSteps DEF InFlight, SecretThere
  <2>2. secret.content = Null
    BY <1>0, <1>1, WorldLeavesDocument
  <2>3. "manifest" \in secretFresh /\ todo \in {CreateCommands, <<"UpdateSecretContent">>}
    BY <2>1, <2>2 DEF CreatesOnEmpty
  <2>4. ~DeployApp /\ ~UndeployApp /\ ~TouchSecret
    BY <2>1 DEF DeployApp, UndeployApp, TouchSecret, Disruption
  <2>5. "manifest" \in secretFresh'
    BY <1>1, <2>3, <2>4, WorldManifest DEF SyncSecret
  <2> QED
    BY <2>1, <2>3, <2>5
<1>2. CASE Around
  BY <1>2, AroundSteps DEF InFlight
<1>3. CASE FetchCurrentState
  <2> DEFINE content == secretCache.content
  <2>1. PICK client \in MatchingClients(content) :
           /\ client = Null => content = Null
           /\ client # Null => client \in clients
           /\ \/ Return(FALSE)
              \/ /\ todo' = Plan(instance.deleting, instance.scopes, client, content,
                                 authority, remaining)
                 /\ secretFresh' = secretFresh \cup
                      (IF "cache" \in secretFresh THEN {"manifest"} ELSE {})
                 /\ UNCHANGED instance
    BY <1>3, Planning
  <2>2. ~Return(FALSE) /\ UNCHANGED <<secret, clients>> /\ ~InFlight /\ secretCache.exists
    BY <1>3 DEF Return, Forget, FetchCurrentState, InFlight
  <2>3. clients = {}
    BY <2>2 DEF ClientDocumented
  <2>4. client = Null /\ content = Null
    BY <2>1, <2>3
  <2>5. "cache" \in secretFresh
    BY <2>2, <2>4 DEF EmptySeen
  <2>6. todo' = CreateCommands
    BY <2>1, <2>2, <2>4 DEF Plan
  <2> QED
    BY <2>1, <2>2, <2>5, <2>6
<1>4. CASE CreateClientInApi
  <2>1. /\ UNCHANGED <<secret, secretFresh, instance>> /\ InFlight
        /\ UNCHANGED todo
    BY <1>4 DEF CreateClientInApi, Executing, InFlight, Aborted
  <2> QED
    BY <2>1 DEF CreatesOnEmpty
<1>5. CASE Writes
  <2>1. InFlight /\ UNCHANGED instance /\ Executed /\ clients # {}
    <3>1. ~Aborted
      BY DEF Aborted, InFlight
    <3> QED
      BY <1>0, <1>5, <3>1, WritesAreCommands, WritesToScopes, WriteOutcome DEF Writes, InFlight
  <2>2. ~DeleteClientInApi /\ ~DeleteSecretContent
    BY <1>0, <1>5, <2>1, LiveWrites
  <2>3. UNCHANGED <<secret, secretFresh>>
    BY <1>5, <2>2, WritesToSecret
  <2>4. "manifest" \in secretFresh /\ todo \in {CreateCommands, <<"UpdateSecretContent">>}
    BY <2>1, <2>3 DEF CreatesOnEmpty
  <2>5. Head(CreateCommands) = "CreateClientInApi" /\ Tail(CreateCommands) = <<"UpdateSecretContent">>
    BY DEF CreateCommands
  <2>6. Head(<<"UpdateSecretContent">>) = "UpdateSecretContent"
        /\ Tail(<<"UpdateSecretContent">>) = <<>>
    OBVIOUS
  <2>7. todo = CreateCommands
    BY <2>1, <2>4, <2>6 DEF Executed, InFlight
  <2> QED
    BY <2>1, <2>3, <2>4, <2>5, <2>7 DEF Executed
<1> QED
  BY <1>1, <1>2, <1>3, <1>4, <1>5, Steps

\* The invariant behind what is reported is inductive, given those of the clients, of the
\* copies and of the secret.
LEMMA AppliedInvKept ==
    ASSUME IInv, KeyInv, SettledInv, AppliedInv, [Next]_vars,
           {"touchSecret", "undeploy", "externalDelete"} \cap Adversity = {}
    PROVE  AppliedInv'
<1> SUFFICES ASSUME faults' = 0 PROVE StatusTrue' /\ NothingHalfDone'
  BY DEF AppliedInv
<1>1. ~Fault /\ ~Restart /\ StatusTrue /\ NothingHalfDone
  BY FaultsGrow DEF AppliedInv
<1>2. PlanKnown /\ TargetLive /\ SecretThere
  BY DEF SettledInv
<1>3. /\ ObservedPast' /\ ReportsSeen' /\ ReconciledSeen' /\ ReconciledMeansApplied'
  BY <1>1, <1>2, ReconciledWhen, ReportsSeenKept, ReconciledSeenKept, ReconciledMeansAppliedKept
     DEF StatusTrue
<1>4. ReportsApplied' /\ PlanApplies'
  BY <1>1, <1>2, ReportsAppliedKept, PlanAppliesKept DEF StatusTrue, NothingHalfDone
<1>5. EmptySeen' /\ ClearsWritten'
  BY <1>1, <1>2, EmptySeenKept, ClearsWrittenKept DEF NothingHalfDone
<1>6. ClientDocumented' /\ CreatesOnEmpty'
  BY <1>1, ClientDocumentedKept, CreatesOnEmptyKept DEF NothingHalfDone
<1> QED
  BY <1>3, <1>4, <1>5, <1>6 DEF StatusTrue, NothingHalfDone

\* At the start nothing has been reported.
LEMMA AppliedInvInit == Init => AppliedInv
<1> SUFFICES ASSUME Init PROVE StatusTrue /\ NothingHalfDone
  BY DEF AppliedInv
<1>1. ~cr.exists /\ cr.generation = 0 /\ cr.status.observedGeneration = 0
  BY DEF Init, NoResource, NoStatus
<1>2. ObservedPast /\ ~Reconciled
  BY <1>1 DEF ObservedPast, Reconciled
<1>3. pc = "idle" /\ clients = {} /\ ~secretCache.exists
  BY DEF Init, NoSecret
<1> QED
  BY <1>2, <1>3 DEF StatusTrue, NothingHalfDone, ReportsSeen, ReconciledSeen,
     ReconciledMeansApplied, ReportsApplied, PlanApplies, EmptySeen, ClearsWritten,
     ClientDocumented, CreatesOnEmpty, InFlight

\* What has been reported stays true, and what is about to be reported is: a plan that
\* leaves the scopes alone has found them right, or its write to the secret is refused.
THEOREM AppliedInvariance ==
    ASSUME {"touchSecret", "undeploy", "externalDelete"} \cap Adversity = {}
    PROVE  Spec => []AppliedInv
<1>1. Init => IInv /\ KeyInv /\ SettledInv /\ AppliedInv
  BY InitInvariant, KeyInvInit, SettledInvInit, AppliedInvInit
<1>2. IInv /\ KeyInv /\ SettledInv /\ AppliedInv /\ [Next]_vars
        => (IInv /\ KeyInv /\ SettledInv /\ AppliedInv)'
  BY NextInvariant, KeyInvKept, SettledInvKept, AppliedInvKept
<1> QED
  BY <1>1, <1>2, PTL DEF Spec

\* A resource that reports "reconciled" for its current generation has a client with
\* its scopes, whatever stale copies, conflicts, concurrent edits and deletions it went
\* through: a report claims the generation that was read, is refused when the resource has been
\* written since, and follows a plan that was completed, in which scopes that differ are
\* set; and a plan from a stale secret, which would leave them alone, is not completed.
\* That needs that no call has failed, nor the process ended, so far, and that nobody
\* else writes to the secret or the client.
THEOREM ReconciledApplies ==
    ASSUME {"touchSecret", "undeploy", "externalDelete"} \cap Adversity = {}
    PROVE  Spec => [](faults = 0 => ReconciledMeansApplied)
<1>1. AppliedInv => (faults = 0 => ReconciledMeansApplied)
  BY DEF AppliedInv, StatusTrue
<1> QED
  BY <1>1, AppliedInvariance, PTL

=============================================================================
