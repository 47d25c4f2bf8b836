--------------------------- MODULE ReconcilerProofs ---------------------------
(***************************************************************************)
(* Proofs, for all values of the constants, that the reconciliation loop   *)
(* never orphans a client, never has two of them, and implements           *)
(* ClientLifecycle.                                                        *)
(***************************************************************************)
EXTENDS ReconcilerInvariant, ClientStateProofs

-----------------------------------------------------------------------------
(* The key sets and the plan *)

\* The cleanup of a deleted resource, and what it covers when there is a client.
LEMMA CleanupShape ==
    ASSUME NEW client, NEW content, NEW p, p = CleanupCommands(client, content)
    PROVE  /\ p \in {<<>>, <<"DeleteSecretContent">>} \cup CleanupTodo
           /\ client # Null => p \in CleanupTodo
<1> DEFINE C == "DeleteClientInApi"
           S == "DeleteSecretContent"
<1>1. <<S>> \o <<C>> = <<S, C>> /\ <<>> \o <<C>> = <<C>>
      /\ <<S>> \o <<>> = <<S>> /\ <<>> \o <<>> = <<>>
  <2>1. <<S>> \in Seq({S, C}) /\ <<C>> \in Seq({S, C}) /\ <<>> \in Seq({S, C})
    OBVIOUS
  <2>2. <<S>> \o <<C>> = <<S, C>>
    BY PairConcat
  <2> QED
    BY <2>1, <2>2, ConcatEmptySeq
<1>2. CASE content # Null /\ client # Null
  BY <1>1, <1>2 DEF CleanupCommands, If, CleanupTodo
<1>3. CASE content # Null /\ client = Null
  BY <1>1, <1>3 DEF CleanupCommands, If, CleanupTodo
<1>4. CASE content = Null /\ client # Null
  BY <1>1, <1>4 DEF CleanupCommands, If, CleanupTodo
<1>5. CASE content = Null /\ client = Null
  BY <1>1, <1>5 DEF CleanupCommands, If, CleanupTodo
<1> QED
  BY <1>2, <1>3, <1>4, <1>5

\* With client and document there are at most three commands, none a creation.
LEMMA SteadyShape ==
    ASSUME NEW scopes, NEW client, NEW content, NEW url, NEW rotate,
           NEW p, p = SteadyCommands(scopes, client, content, url, rotate)
    PROVE  p \in Seq(CommandName \ {"CreateClientInApi"}) /\ Len(p) <= 3
<1> DEFINE T == CommandName \ {"CreateClientInApi"}
           S == If(AuthorityChanged(content, url) \/ rotate, <<"UpdateSecretContent">>)
           J == If(rotate, <<"UpdateClientJwks">>)
           C == If(ScopesChanged(client, scopes), <<"UpdateClientScopes">>)
<1>1. p = S \o J \o C
  BY DEF SteadyCommands
<1>0. {"UpdateSecretContent", "UpdateClientJwks", "UpdateClientScopes"} \subseteq T
  BY DEF CommandName
<1> HIDE DEF T
<1>2. S \in Seq(T) /\ Len(S) <= 1
  BY <1>0, IfShape
<1>3. J \in Seq(T) /\ Len(J) <= 1
  BY <1>0, IfShape
<1>4. C \in Seq(T) /\ Len(C) <= 1
  BY <1>0, IfShape
<1> HIDE DEF S, J, C
<1>5. S \o J \in Seq(T) /\ Len(S \o J) <= 2
  BY <1>2, <1>3, ConcatProperties
<1>6. (S \o J) \o C \in Seq(T) /\ Len((S \o J) \o C) <= 3
  BY <1>4, <1>5, ConcatProperties
<1> QED
  BY <1>1, <1>6 DEF T

\* The short plans, written out, are sequences of commands.
LEMMA ShortSeq ==
    ASSUME NEW T, NEW a \in T, NEW b \in T,
           NEW p, p = <<>> \/ p = <<a>> \/ p = <<b>> \/ p = <<a, b>>
    PROVE  p \in Seq(T) /\ Len(p) <= 2
<1>1. CASE p = <<>>
  BY <1>1
<1>2. CASE p = <<a>>
  BY <1>2
<1>3. CASE p = <<b>>
  BY <1>3
<1>4. CASE p = <<a, b>>
  BY <1>4
<1> QED
  BY <1>1, <1>2, <1>3, <1>4

\* Commands none of which is a creation do not start with one, or have one inside.
LEMMA WithoutCreation ==
    ASSUME NEW p \in Seq(CommandName \ {"CreateClientInApi"})
    PROVE  /\ p \in Seq(CommandName)
           /\ \A i \in 1..Len(p) : p[i] # "CreateClientInApi"
           /\ p # <<>> => Head(p) # "CreateClientInApi"
<1> DEFINE T == CommandName \ {"CreateClientInApi"}
<1>1. p \in Seq(T) /\ T \subseteq CommandName /\ "CreateClientInApi" \notin T
  OBVIOUS
<1> HIDE DEF T
<1>2. p \in Seq(CommandName)
  BY <1>1, SeqMonotonic
<1>3. \A i \in 1..Len(p) : p[i] # "CreateClientInApi"
  BY <1>1, ElementOfSeq
<1>4. p # <<>> => Head(p) # "CreateClientInApi"
  BY <1>1, HeadTailProperties
<1> QED
  BY <1>2, <1>3, <1>4

\* The commands of a plan: at most three, creation only at the front and only for a
\* live resource without a client; with a client, a cleanup covers it.
LEMMA PlanShape ==
    ASSUME NEW deleting \in BOOLEAN, NEW scopes, NEW client, NEW content,
           NEW url, NEW left,
           NEW p, p = Plan(deleting, scopes, client, content, url, left)
    PROVE  /\ p \in Seq(CommandName)
           /\ Len(p) <= 3
           /\ \A i \in 2..Len(p) : p[i] # "CreateClientInApi"
           /\ p # <<>> /\ Head(p) = "CreateClientInApi" => ~deleting /\ client = Null
           /\ deleting /\ client # Null => p \in CleanupTodo
<1> DEFINE T == CommandName \ {"CreateClientInApi"}
<1>0. /\ {"DeleteSecretContent", "DeleteClientInApi"} \subseteq T
      /\ {"UpdateClientJwks", "UpdateSecretContent"} \subseteq T
  BY DEF CommandName
<1>1. CASE deleting
  <2>1. p = CleanupCommands(client, content)
    BY <1>1 DEF Plan
  <2>2. p \in {<<>>, <<"DeleteSecretContent">>} \cup CleanupTodo
    BY <2>1, CleanupShape
  <2>3. client # Null => p \in CleanupTodo
    BY <2>1, CleanupShape
  <2> DEFINE S == "DeleteSecretContent"
             C == "DeleteClientInApi"
  <2>4. p = <<>> \/ p = <<S>> \/ p = <<C>> \/ p = <<S, C>>
    BY <2>2 DEF CleanupTodo
  <2>5. S \in T /\ C \in T
    BY <1>0
  <2> HIDE DEF S, C, T
  <2>6. p \in Seq(T) /\ Len(p) <= 2
    BY <2>4, <2>5, ShortSeq
  <2>7. /\ p \in Seq(CommandName)
        /\ \A i \in 1..Len(p) : p[i] # "CreateClientInApi"
        /\ p # <<>> => Head(p) # "CreateClientInApi"
    BY <2>6, WithoutCreation DEF T
  <2>8. Len(p) <= 3 /\ \A i \in 2..Len(p) : p[i] # "CreateClientInApi"
    BY <2>6, <2>7
  <2>9. deleting /\ client # Null => p \in CleanupTodo
    BY <2>3
  <2> QED
    BY <1>1, <2>7, <2>8, <2>9
<1>2. CASE ~deleting /\ client = Null
  <2>1. p = <<"CreateClientInApi", "UpdateSecretContent">>
    BY <1>2 DEF Plan, CreateCommands
  <2>2. p \in Seq(CommandName) /\ Len(p) = 2
    BY <2>1 DEF CommandName
  <2>3. \A i \in 2..Len(p) : p[i] # "CreateClientInApi"
    BY <2>1
  <2>4. Len(p) <= 3
    BY <2>2
  <2> QED
    BY <1>2, <2>2, <2>3, <2>4
<1>3. CASE ~deleting /\ client # Null /\ content = Null
  <2>1. p = <<"UpdateClientJwks", "UpdateSecretContent">>
    BY <1>3 DEF Plan, RecoverCommands
  <2> HIDE DEF T
  <2>2. p \in Seq(T) /\ Len(p) <= 2
    BY <1>0, <2>1, ShortSeq
  <2> QED
    BY <1>3, <2>2, WithoutCreation DEF T
<1>4. CASE ~deleting /\ client # Null /\ content # Null
  <2>1. p \in Seq(T) /\ Len(p) <= 3
    BY <1>4, SteadyShape DEF Plan
  <2> QED
    BY <1>4, <2>1, WithoutCreation
<1> QED
  BY <1>1, <1>2, <1>3, <1>4

-----------------------------------------------------------------------------
(* Types *)

USE DEF vars, crVars, secretVars, worldVars, queueVars, localVars, boundVars

\* The absent resource is a resource record.
LEMMA NoResourceType == NoResource \in Resource
<1>1. 0 \in 0..(MaxGeneration + 1)
  BY BoundsAssumption
<1>2. NoStatus \in Status
  BY <1>1 DEF NoStatus, Status
<1> QED
  BY <1>1, <1>2 DEF NoResource, Resource

\* updateStatus and updateStatusWithError report a well-formed status.
LEMMA ReportType ==
    ASSUME WorkerTypeOK, NEW state \in {"reconciled", "error"}
    PROVE  Report(state) \in Status
<1> DEFINE id == IF "DeleteClientInApi" \in done THEN Null
                 ELSE IF done \cap {"CreateClientInApi", "UpdateClientJwks",
                                    "UpdateClientScopes"} # {} THEN target
                 ELSE instance.status.clientId
<1>1. instance.status \in Status /\ instance.generation \in 0..(MaxGeneration + 1)
  BY DEF WorkerTypeOK, Resource
<1>2. id \in ClientId \cup {Null}
  BY <1>1 DEF WorkerTypeOK, Status
<1> HIDE DEF id
<1>3. [state |-> state, observedGeneration |-> instance.generation, clientId |-> id] \in Status
  BY <1>1, <1>2 DEF Status
<1> QED
  BY <1>3 DEF Report, id

\* What an action leaves alone keeps its type.
LEMMA TypeFrame ==
    ASSUME TypeOK
    PROVE  /\ UNCHANGED crVars => ResourceTypeOK'
           /\ UNCHANGED secretVars => SecretTypeOK'
           /\ UNCHANGED clients => (clients \subseteq Client)'
           /\ UNCHANGED worldVars => WorldTypeOK'
           /\ UNCHANGED queueVars => QueueTypeOK'
           /\ UNCHANGED localVars => WorkerTypeOK'
           /\ UNCHANGED boundVars => BoundTypeOK'
<1>1. UNCHANGED crVars => ResourceTypeOK'
  BY DEF TypeOK, ResourceTypeOK
<1>2. UNCHANGED secretVars => SecretTypeOK'
  BY DEF TypeOK, SecretTypeOK
<1>3. UNCHANGED clients => (clients \subseteq Client)'
  BY DEF TypeOK
<1>4. UNCHANGED worldVars => WorldTypeOK'
  BY DEF TypeOK, WorldTypeOK
<1>5. UNCHANGED queueVars => QueueTypeOK'
  BY DEF TypeOK, QueueTypeOK
<1>6. UNCHANGED localVars => WorkerTypeOK'
  BY DEF TypeOK, WorkerTypeOK
<1>7. UNCHANGED boundVars => BoundTypeOK'
  BY DEF TypeOK, BoundTypeOK
<1> QED
  BY <1>1, <1>2, <1>3, <1>4, <1>5, <1>6, <1>7

\* The locals of a call that has returned, and the bounds spent.
LEMMA ForgetType == ASSUME Forget PROVE WorkerTypeOK'
<1>1. NoResource \in Resource
  BY NoResourceType
<1>2. <<>> \in Seq(CommandName) /\ Len(<<>>) = 0
  OBVIOUS
<1> QED
  BY <1>1, <1>2 DEF Forget, WorkerTypeOK, PC

\* Returning from Reconcile keeps the worker's and the queue's types.
LEMMA ReturnType ==
    ASSUME QueueTypeOK, NEW requeue \in BOOLEAN, Return(requeue)
    PROVE  WorkerTypeOK' /\ queued' \in BOOLEAN
<1>1. WorkerTypeOK'
  BY ForgetType DEF Return
<1>2. queued' \in BOOLEAN
  BY DEF Return, QueueTypeOK
<1> QED
  BY <1>1, <1>2

\* Faults and disruptions stay within what is left of them.
LEMMA BoundTypes ==
    ASSUME BoundTypeOK
    PROVE  /\ Fault => faults' \in 0..MaxFaults
           /\ \A kind : Disruption(kind) => disruptions' \in 0..MaxDisruptions
  BY BoundsAssumption DEF BoundTypeOK, Fault, Disruption

\* A command leaves the queue of commands, or ends the loop.
LEMMA CommandType ==
    ASSUME WorkerTypeOK, todo # <<>>, Executed \/ Aborted, UNCHANGED <<instance, jwks, target>>
    PROVE  WorkerTypeOK'
<1>1. CASE Executed
  <2>1. Tail(todo) \in Seq(CommandName) /\ Len(Tail(todo)) <= 3 /\ Head(todo) \in CommandName
    BY HeadTailProperties DEF WorkerTypeOK
  <2>2. todo' \in Seq(CommandName) /\ Len(todo') <= 3 /\ done' \subseteq CommandName
    BY <1>1, <2>1 DEF Executed, WorkerTypeOK
  <2>3. pc' \in PC
    BY <1>1 DEF Executed, PC
  <2> QED
    BY <2>2, <2>3 DEF WorkerTypeOK
<1>2. CASE Aborted
  BY <1>2 DEF Aborted, WorkerTypeOK, PC
<1> QED
  BY <1>1, <1>2

\* A request that changes a client keeps every type.
LEMMA WriteClientType ==
    ASSUME TypeOK, NEW new, new \subseteq Client, WriteClient(new), todo # <<>>
    PROVE  TypeOK'
<1>1. (clients \subseteq Client)'
  BY DEF TypeOK, WriteClient, Call
<1>2. Executed \/ Aborted
  BY DEF WriteClient, Call
<1>3. WorkerTypeOK'
  BY <1>2, CommandType DEF TypeOK, WriteClient
<1>4. BoundTypeOK'
  BY BoundTypes DEF TypeOK, WriteClient, Call, BoundTypeOK
<1> QED
  BY <1>1, <1>3, <1>4, TypeFrame DEF TypeOK, WriteClient

\* An update of the secret keeps every type.
LEMMA WriteSecretType ==
    ASSUME TypeOK, NEW content \in Content \cup {Null}, WriteSecret(content), todo # <<>>
    PROVE  TypeOK'
<1>1. [secret EXCEPT !.content = content] \in Secret
  BY DEF TypeOK, SecretTypeOK, Secret
<1>2. SecretTypeOK'
  BY <1>1 DEF TypeOK, WriteSecret, Call, SecretTypeOK
<1>3. Executed \/ Aborted
  BY DEF WriteSecret, Call
<1>4. WorkerTypeOK'
  BY <1>3, CommandType DEF TypeOK, WriteSecret
<1>5. BoundTypeOK'
  BY BoundTypes DEF TypeOK, WriteSecret, Call, BoundTypeOK
<1> QED
  BY <1>2, <1>4, <1>5, TypeFrame DEF TypeOK, WriteSecret

\* Planning keeps every type: the commands, their client and their key set.
LEMMA PlanningType ==
    ASSUME IInv, FetchCurrentState
    PROVE  TypeOK'
<1> DEFINE content == secretCache.content
<1>1. PICK client \in MatchingClients(content) :
         LET commands == Plan(instance.deleting, instance.scopes, client, content,
                              authority, remaining)
             newKey == NeedsKey(instance.deleting, client, content, remaining)
         IN /\ newKey => Key \ UsedKeys # {}
            /\ IF NoActions(commands)
               THEN Return(FALSE) /\ KeepResource /\ UNCHANGED <<secretFresh, remaining>>
               ELSE /\ pc' = "exec"
                    /\ todo' = commands
                    /\ target' = IF client = Null THEN Null ELSE client.id
                    /\ jwks' = IF instance.deleting THEN <<>>
                               ELSE PlannedJwks(client, content, remaining, NewKey)
                    /\ remaining' = IF newKey THEN [remaining EXCEPT ![NewKey] = Lifetime]
                                    ELSE remaining
                    /\ secretFresh' = secretFresh \cup
                         (IF "cache" \in secretFresh THEN {"manifest"} ELSE {})
                    /\ UNCHANGED <<cr, crFresh, instance, done, queued>>
  BY DEF FetchCurrentState
<1> DEFINE commands == Plan(instance.deleting, instance.scopes, client, content,
                            authority, remaining)
           newKey == NeedsKey(instance.deleting, client, content, remaining)
<1>2. TypeOK
  BY DEF IInv
<1>3. UNCHANGED <<crCache, eventPending, secret, secretCache, clients, authority, timer,
                  boundVars>>
  BY DEF FetchCurrentState
<1>4. CASE NoActions(commands)
  <2>1. Return(FALSE) /\ KeepResource /\ UNCHANGED <<secretFresh, remaining>>
    BY <1>1, <1>4
  <2>2. WorkerTypeOK' /\ queued' \in BOOLEAN
    BY <1>2, <2>1, ReturnType DEF TypeOK
  <2>3. ResourceTypeOK'
    BY <1>2, <1>3, <2>1 DEF TypeOK, ResourceTypeOK, KeepResource
  <2>4. QueueTypeOK'
    BY <1>2, <1>3, <2>2 DEF TypeOK, QueueTypeOK
  <2> QED
    BY <1>2, <1>3, <2>1, <2>2, <2>3, <2>4, TypeFrame DEF TypeOK
<1>5. CASE ~NoActions(commands)
  <2>1. /\ newKey => Key \ UsedKeys # {}
        /\ pc' = "exec"
        /\ todo' = commands
        /\ target' = IF client = Null THEN Null ELSE client.id
        /\ jwks' = IF instance.deleting THEN <<>>
                   ELSE PlannedJwks(client, content, remaining, NewKey)
        /\ remaining' = IF newKey THEN [remaining EXCEPT ![NewKey] = Lifetime] ELSE remaining
        /\ secretFresh' = secretFresh \cup
             (IF "cache" \in secretFresh THEN {"manifest"} ELSE {})
        /\ UNCHANGED <<cr, crFresh, instance, done, queued>>
    BY <1>1, <1>5
  <2>2. newKey => NewKey \in Key
    BY <2>1 DEF NewKey
  <2>3. remaining \in Lifetimes /\ content \in Content \cup {Null} /\ instance.deleting \in BOOLEAN
    BY <1>2 DEF TypeOK, WorldTypeOK, SecretTypeOK, Secret, WorkerTypeOK, Resource
  <2>4. SecretTypeOK'
    BY <1>2, <1>3, <2>1 DEF TypeOK, SecretTypeOK
  <2>5. remaining' \in Lifetimes
    BY <2>1, <2>2, <2>3, LifetimeAssumption DEF Lifetimes
  <2>6. target' \in ClientId \cup {Null}
    BY <1>1, <1>2, <2>1 DEF MatchingClients, TypeOK, Client
  <2>7. todo' \in Seq(CommandName) /\ Len(todo') <= 3
    BY <2>1, <2>3, PlanShape
  <2>8. jwks' \in JwksType \cup {<<>>}
    <3>1. CASE instance.deleting
      BY <2>1, <3>1
    <3>2. CASE ~instance.deleting
      <4>1. (client = Null \/ content = Null \/ RotationDue(content.jwks, remaining))
              => NewKey \in Key
        BY <2>2, <3>2 DEF NeedsKey
      <4>2. PlannedJwks(client, content, remaining, NewKey) \in JwksType
        BY <2>3, <4>1, PlannedJwksType
      <4> QED
        BY <2>1, <3>2, <4>2
    <3> QED
      BY <3>1, <3>2
  <2>9. WorkerTypeOK'
    BY <1>2, <2>1, <2>6, <2>7, <2>8 DEF TypeOK, WorkerTypeOK, PC
  <2>10. WorldTypeOK'
    BY <1>2, <1>3, <2>5 DEF TypeOK, WorldTypeOK
  <2> QED
    BY <1>2, <1>3, <2>1, <2>4, <2>9, <2>10, TypeFrame DEF TypeOK
<1> QED
  BY <1>4, <1>5

\* Every step of the system keeps every type.
LEMMA TypePreserved ==
    ASSUME IInv, [Next]_vars
    PROVE  TypeOK'
<1>0. TypeOK
  BY DEF IInv
<1> USE TypeFrame, BoundTypes DEF TypeOK
<1>1. WithKeys \subseteq Client
  <2>1. ToPublic(jwks) \subseteq Key
    BY <1>0 DEF WorkerTypeOK, ToPublic, Range, JwksType
  <2>2. \A c \in clients : [c EXCEPT !.keys = ToPublic(jwks)] \in Client
    BY <1>0, <2>1 DEF Client
  <2> QED
    BY <1>0, <2>2 DEF WithKeys
<1>2. ASSUME instance.scopes \in Scopes PROVE WithScopes \subseteq Client
  <2>1. \A c \in clients : [c EXCEPT !.scopes = instance.scopes] \in Client
    BY <1>0, <1>2 DEF Client
  <2> QED
    BY <1>0, <2>1 DEF WithScopes
<1>3. ASSUME NEW s \in Scopes, CreateResource(s) PROVE TypeOK'
  <2>1. ResourceTypeOK'
    <3>1. 1 \in 0..(MaxGeneration + 1)
      BY BoundsAssumption
    <3>2. cr' = [NoResource EXCEPT !.exists = TRUE, !.generation = 1, !.scopes = s]
      BY <1>3 DEF CreateResource, WriteObserved
    <3>3. cr' \in Resource
      BY <3>1, <3>2, NoResourceType DEF Resource
    <3> QED
      BY <1>0, <1>3, <3>3 DEF CreateResource, WriteObserved, ResourceTypeOK
  <2>2. BoundTypeOK'
    BY <1>0, <1>3, BoundsAssumption DEF CreateResource, BoundTypeOK
  <2> QED
    BY <1>0, <1>3, <2>1, <2>2 DEF CreateResource
<1>4. ASSUME NEW s \in Scopes, EditScopes(s) PROVE TypeOK'
  <2>1. ResourceTypeOK'
    <3>1. cr.generation + 1 \in 0..(MaxGeneration + 1)
      BY <1>0, <1>4, BoundsAssumption DEF EditScopes, ResourceTypeOK, Resource
    <3>2. cr' = [cr EXCEPT !.scopes = s, !.generation = cr.generation + 1]
      BY <1>4 DEF EditScopes, WriteObserved
    <3>3. cr' \in Resource
      BY <1>0, <3>1, <3>2 DEF ResourceTypeOK, Resource
    <3> QED
      BY <1>0, <1>4, <3>3 DEF EditScopes, WriteObserved, ResourceTypeOK
  <2> QED
    BY <1>0, <1>4, <2>1 DEF EditScopes
<1>5. ASSUME TouchResource PROVE TypeOK'
  <2>1. ResourceTypeOK'
    BY <1>0, <1>5 DEF TouchResource, ResourceTypeOK
  <2>2. BoundTypeOK'
    BY <1>0, <1>5 DEF TouchResource, BoundTypeOK
  <2> QED
    BY <1>0, <1>5, <2>1, <2>2 DEF TouchResource
<1>6. ASSUME DeleteResource PROVE TypeOK'
  <2>1. ResourceTypeOK'
    <3>1. cr.generation + 1 \in 0..(MaxGeneration + 1)
      BY <1>0, <1>6, BoundsAssumption DEF IInv, Copies, ResourceShape, DeleteResource, ResourceTypeOK, Resource
    <3>2. cr' = [cr EXCEPT !.deleting = TRUE, !.generation = cr.generation + 1]
          \/ cr' = NoResource
      BY <1>6 DEF DeleteResource, WriteObserved
    <3>3. [cr EXCEPT !.deleting = TRUE, !.generation = cr.generation + 1] \in Resource
      BY <1>0, <3>1 DEF ResourceTypeOK, Resource
    <3> QED
      BY <1>0, <1>6, <3>2, <3>3, NoResourceType DEF DeleteResource, WriteObserved, ResourceTypeOK
  <2> QED
    BY <1>0, <1>6, <2>1 DEF DeleteResource
<1>7. ASSUME DeployApp PROVE TypeOK'
  <2>1. SecretTypeOK'
    BY <1>0, <1>7 DEF DeployApp, SecretTypeOK, Secret
  <2> QED
    BY <1>0, <1>7, <2>1 DEF DeployApp
<1>8. ASSUME UndeployApp PROVE TypeOK'
  <2>1. SecretTypeOK'
    BY <1>0, <1>8 DEF UndeployApp, SecretTypeOK, Secret, NoSecret
  <2>2. BoundTypeOK'
    BY <1>0, <1>8 DEF UndeployApp, BoundTypeOK
  <2> QED
    BY <1>0, <1>8, <2>1, <2>2 DEF UndeployApp
<1>9. ASSUME TouchSecret PROVE TypeOK'
  <2>1. SecretTypeOK'
    BY <1>0, <1>9 DEF TouchSecret, SecretTypeOK
  <2>2. BoundTypeOK'
    BY <1>0, <1>9 DEF TouchSecret, BoundTypeOK
  <2> QED
    BY <1>0, <1>9, <2>1, <2>2 DEF TouchSecret
<1>10. ASSUME NEW c \in clients, DeleteClientExternally(c) PROVE TypeOK'
  <2>1. (clients \subseteq Client)'
    BY <1>0, <1>10 DEF DeleteClientExternally
  <2>2. BoundTypeOK'
    BY <1>0, <1>10 DEF DeleteClientExternally, BoundTypeOK
  <2> QED
    BY <1>0, <1>10, <2>1, <2>2 DEF DeleteClientExternally
<1>11. ASSUME Tick PROVE TypeOK'
  <2>1. WorldTypeOK'
    <3>1. \A k \in Key : remaining[k] \in 0..Lifetime /\ Lifetime \in 0..Lifetime
      BY <1>0, LifetimeAssumption DEF WorldTypeOK, Lifetimes
    <3>2. \A k \in Key : remaining[k] # 0 => remaining[k] - 1 \in 0..Lifetime
      BY <3>1, LifetimeAssumption
    <3>3. 0 \in 0..Lifetime
      BY LifetimeAssumption
    <3>4. remaining' \in [Key -> 0..Lifetime]
      BY <1>11, <3>1, <3>2, <3>3 DEF Tick
    <3> QED
      BY <1>0, <1>11, <3>4 DEF Tick, WorldTypeOK, Lifetimes
  <2> QED
    BY <1>0, <1>11, <2>1 DEF Tick
<1>12. ASSUME SyncResource PROVE TypeOK'
  <2>1. ResourceTypeOK'
    BY <1>0, <1>12 DEF SyncResource, ResourceTypeOK
  <2>2. QueueTypeOK'
    BY <1>0, <1>12 DEF SyncResource, QueueTypeOK, ResourceTypeOK
  <2> QED
    BY <1>0, <1>12, <2>1, <2>2 DEF SyncResource
<1>13. ASSUME Resync PROVE TypeOK'
  <2>1. QueueTypeOK'
    BY <1>0, <1>13 DEF Resync, GenerationChanged, QueueTypeOK
  <2> QED
    BY <1>0, <1>13, <2>1 DEF Resync
<1>14. ASSUME SyncSecret PROVE TypeOK'
  <2>1. SecretTypeOK'
    BY <1>0, <1>14 DEF SyncSecret, SecretTypeOK
  <2> QED
    BY <1>0, <1>14, <2>1 DEF SyncSecret
<1>15. ASSUME TimerFires PROVE TypeOK'
  <2>1. QueueTypeOK'
    BY <1>0, <1>15 DEF TimerFires, QueueTypeOK
  <2> QED
    BY <1>0, <1>15, <2>1 DEF TimerFires
<1>16. ASSUME Restart PROVE TypeOK'
  <2>1. ResourceTypeOK'
    BY <1>0, <1>16 DEF Restart, ResourceTypeOK
  <2>2. SecretTypeOK'
    BY <1>0, <1>16 DEF Restart, SecretTypeOK
  <2>3. WorldTypeOK'
    BY <1>0, <1>16 DEF Restart, WorldTypeOK
  <2>4. QueueTypeOK'
    BY <1>0, <1>16 DEF Restart, QueueTypeOK, ResourceTypeOK, Resource
  <2>5. WorkerTypeOK'
    BY <1>16, ForgetType DEF Restart
  <2>6. BoundTypeOK'
    BY <1>0, <1>16 DEF Restart, BoundTypeOK
  <2> QED
    BY <1>0, <1>16, <2>1, <2>2, <2>3, <2>4, <2>5, <2>6 DEF Restart
<1>17. ASSUME LoadInstance PROVE TypeOK'
  <2>1. ResourceTypeOK'
    BY <1>0, <1>17 DEF LoadInstance, ResourceTypeOK
  <2>2. QueueTypeOK'
    BY <1>0, <1>17 DEF LoadInstance, QueueTypeOK
  <2>3. WorkerTypeOK'
    BY <1>0, <1>17 DEF LoadInstance, WorkerTypeOK, ResourceTypeOK, PC
  <2> QED
    BY <1>0, <1>17, <2>1, <2>2, <2>3 DEF LoadInstance
<1>18. ASSUME RecordFinalizer PROVE TypeOK'
  <2>1. ResourceTypeOK'
    <3>1. cr' = cr \/ cr' = [cr EXCEPT !.finalizer = TRUE]
      BY <1>18 DEF RecordFinalizer, KeepResource
    <3>2. cr' \in Resource
      BY <1>0, <3>1 DEF ResourceTypeOK, Resource
    <3>3. crFresh' \subseteq {"cache", "instance"}
      BY <1>0, <1>18 DEF RecordFinalizer, KeepResource, ResourceTypeOK
    <3> QED
      BY <1>0, <1>18, <3>2, <3>3 DEF RecordFinalizer, ResourceTypeOK
  <2>2. WorkerTypeOK'
    <3>1. CASE \E requeue \in BOOLEAN : Return(requeue)
      BY <1>0, <3>1, ReturnType
    <3>2. CASE pc' = "fetch" /\ instance' = cr' /\ UNCHANGED <<todo, done, jwks, target>>
      BY <1>0, <2>1, <3>2 DEF WorkerTypeOK, ResourceTypeOK, PC
    <3>3. cr.exists \in BOOLEAN
      BY <1>0 DEF ResourceTypeOK, Resource
    <3> QED
      BY <1>18, <3>1, <3>2, <3>3 DEF RecordFinalizer
  <2>3. QueueTypeOK'
    <3>1. cr.exists \in BOOLEAN
      BY <1>0 DEF ResourceTypeOK, Resource
    <3>2. queued' \in BOOLEAN
      BY <1>0, <1>18, <3>1, ReturnType DEF RecordFinalizer, QueueTypeOK
    <3> QED
      BY <1>0, <1>18, <3>2 DEF RecordFinalizer, QueueTypeOK
  <2>4. BoundTypeOK'
    BY <1>0, <1>18 DEF RecordFinalizer, BoundTypeOK
  <2> QED
    BY <1>0, <1>18, <2>1, <2>2, <2>3, <2>4 DEF RecordFinalizer
<1>19. ASSUME FetchCurrentState PROVE TypeOK'
  BY <1>19, PlanningType
<1>20. ASSUME FetchFails PROVE TypeOK'
  <2>1. WorkerTypeOK'
    BY <1>0, <1>20 DEF FetchFails, WorkerTypeOK, PC
  <2>2. BoundTypeOK'
    BY <1>0, <1>20 DEF FetchFails, BoundTypeOK
  <2> QED
    BY <1>0, <1>20, <2>1, <2>2 DEF FetchFails
<1>21. ASSUME CreateClientInApi PROVE TypeOK'
  <2>1. (clients \subseteq Client)'
    <3>1. instance.scopes \in Scopes
      BY <1>21 DEF IInv, Copies, ResourceShape, CreateClientInApi, Executing
    <3>2. \A id \in ClientId : [id |-> id, scopes |-> instance.scopes, keys |-> {}] \in Client
      BY <3>1 DEF Client
    <3> QED
      BY <1>0, <1>21, <3>2 DEF CreateClientInApi
  <2>2. WorkerTypeOK'
    <3>1. CASE Aborted /\ UNCHANGED <<instance, jwks, target>>
      BY <1>0, <1>21, <3>1, CommandType DEF CreateClientInApi, Executing
    <3>2. CASE pc' = "postJwks" /\ target' \in ClientId /\ UNCHANGED <<instance, jwks, todo, done>>
      BY <1>0, <3>2 DEF WorkerTypeOK, PC
    <3> QED
      BY <1>21, <3>1, <3>2 DEF CreateClientInApi
  <2>3. BoundTypeOK'
    BY <1>0, <1>21 DEF CreateClientInApi, BoundTypeOK
  <2> QED
    BY <1>0, <1>21, <2>1, <2>2, <2>3 DEF CreateClientInApi
<1>22. ASSUME PostClientJwks PROVE TypeOK'
  BY <1>22, <1>0, <1>1, WriteClientType DEF PostClientJwks, IInv, Commands, PlanComplete, InFlight
<1>23. ASSUME UpdateClientJwks PROVE TypeOK'
  BY <1>23, <1>0, <1>1, WriteClientType DEF UpdateClientJwks, Executing
<1>24. ASSUME UpdateClientScopes PROVE TypeOK'
  <2>1. pc = "exec" /\ todo # <<>> /\ WriteClient(WithScopes)
    BY <1>24 DEF UpdateClientScopes, Executing
  <2>2. instance.scopes \in Scopes
    BY <2>1 DEF IInv, Copies, ResourceShape
  <2> QED
    BY <1>0, <1>2, <2>1, <2>2, WriteClientType
<1>25. ASSUME DeleteClientInApi PROVE TypeOK'
  <2>1. {c \in clients : c.id # target} \subseteq Client
    BY <1>0
  <2> QED
    BY <1>25, <1>0, <2>1, WriteClientType DEF DeleteClientInApi, Executing
<1>26. ASSUME UpdateSecretContent PROVE TypeOK'
  <2>1. pc = "exec" /\ todo # <<>> /\ Head(todo) = "UpdateSecretContent"
    BY <1>26 DEF UpdateSecretContent, Executing
  <2>2. target \in ClientId
    BY <1>0, <2>1 DEF IInv, Commands, PlanComplete, InFlight, WorkerTypeOK
  <2>3. ~instance.deleting
    BY <2>1 DEF IInv, Commands, CleanupCoversClient, CleanupTodo
  <2>4. jwks \in JwksType
    BY <2>1, <2>3 DEF IInv, Commands, PlanComplete, InFlight
  <2>5. [clientId |-> target, authority |-> authority, jwks |-> jwks] \in Content
    BY <1>0, <2>2, <2>4 DEF Content, WorldTypeOK
  <2> QED
    BY <1>26, <1>0, <2>1, <2>5, WriteSecretType DEF UpdateSecretContent
<1>27. ASSUME DeleteSecretContent PROVE TypeOK'
  BY <1>27, <1>0, WriteSecretType DEF DeleteSecretContent, Executing
<1>28. ASSUME UpdateStatus PROVE TypeOK'
  <2>1. ResourceTypeOK'
    <3>1. Report("reconciled") \in Status
      BY <1>0, ReportType
    <3>2. [cr EXCEPT !.status = Report("reconciled")] \in Resource
      BY <1>0, <3>1 DEF ResourceTypeOK, Resource
    <3>3. cr' \in Resource
      BY <1>0, <1>28, <3>2, NoResourceType DEF UpdateStatus, ReportSuccess, KeepResource, ResourceTypeOK
    <3> QED
      BY <1>0, <1>28, <3>3 DEF UpdateStatus, ReportSuccess, KeepResource, ResourceTypeOK
  <2>2. SecretTypeOK'
    BY <1>0, <1>28 DEF UpdateStatus, DropManifest, SecretTypeOK
  <2>3. WorkerTypeOK'
    BY <1>0, <1>28, ReturnType DEF UpdateStatus
  <2>4. QueueTypeOK'
    BY <1>0, <1>28, ReturnType DEF UpdateStatus, QueueTypeOK
  <2>5. BoundTypeOK'
    BY <1>0, <1>28 DEF UpdateStatus, BoundTypeOK
  <2> QED
    BY <1>0, <1>28, <2>1, <2>2, <2>3, <2>4, <2>5 DEF UpdateStatus
<1>29. ASSUME UpdateStatusWithError PROVE TypeOK'
  <2>1. ResourceTypeOK'
    <3>1. Report("error") \in Status
      BY <1>0, ReportType
    <3>2. [cr EXCEPT !.status = Report("error")] \in Resource
      BY <1>0, <3>1 DEF ResourceTypeOK, Resource
    <3> QED
      BY <1>0, <1>29, <3>2 DEF UpdateStatusWithError, KeepResource, ResourceTypeOK
  <2>2. SecretTypeOK'
    BY <1>0, <1>29 DEF UpdateStatusWithError, DropManifest, SecretTypeOK
  <2>3. WorkerTypeOK'
    BY <1>0, <1>29, ReturnType DEF UpdateStatusWithError
  <2>4. QueueTypeOK'
    BY <1>0, <1>29, ReturnType DEF UpdateStatusWithError, QueueTypeOK
  <2>5. BoundTypeOK'
    BY <1>0, <1>29 DEF UpdateStatusWithError, BoundTypeOK
  <2> QED
    BY <1>0, <1>29, <2>1, <2>2, <2>3, <2>4, <2>5 DEF UpdateStatusWithError
<1>30. CASE UNCHANGED vars
  BY <1>0, <1>30
<1> QED
  BY <1>3, <1>4, <1>5, <1>6, <1>7, <1>8, <1>9, <1>10, <1>11, <1>12, <1>13, <1>14, <1>15, <1>16, <1>17, <1>18, <1>19, <1>20, <1>21, <1>22, <1>23, <1>24, <1>25, <1>26, <1>27, <1>28, <1>29, <1>30
     DEF Next, Environment, Informers, Reconcile

-----------------------------------------------------------------------------
(* The copies of the resource *)

\* An action that writes no copy, moves the worker at most along the steps that
\* follow loading, and at most takes away freshness.
LEMMA CopiesFrame ==
    ASSUME Copies, UNCHANGED <<cr, crCache, instance>>, crFresh' \subseteq crFresh,
           pc' = pc \/ (pc \notin {"idle", "record"} /\ pc' \notin {"idle", "record"})
    PROVE  Copies'
<1> USE DEF Copies
<1>1. ResourceShape'
  BY DEF ResourceShape
<1>2. DeletingHeld' /\ CacheVouches'
  BY DEF DeletingHeld, CacheVouches, Held, Vouches
<1>3. CopiesCurrent'
  BY DEF CopiesCurrent
<1>4. DeletionSeen'
  BY DEF DeletionSeen, Vouches
<1>5. RecordingNew' /\ WorkingHeld'
  BY DEF RecordingNew, WorkingHeld, Held
<1> QED
  BY <1>1, <1>2, <1>3, <1>4, <1>5

\* A command leaves the copies alone.
LEMMA CopiesInCommand ==
    ASSUME Copies, UNCHANGED <<crVars, instance>>, Executed \/ Aborted,
           pc \in {"exec", "postJwks"}
    PROVE  Copies'
<1>1. pc' \notin {"idle", "record"}
  BY DEF Executed, Aborted
<1> QED
  BY <1>1, CopiesFrame

\* A call that returns without having written the resource.
LEMMA CopiesForgotten ==
    ASSUME Copies, UNCHANGED <<cr, crCache>>, crFresh' \subseteq crFresh, Forget
    PROVE  Copies'
<1> USE DEF Copies, Forget
<1>1. ResourceShape'
  BY DEF ResourceShape
<1>2. DeletingHeld' /\ CacheVouches'
  BY DEF DeletingHeld, CacheVouches, Held, Vouches
<1>3. CopiesCurrent'
  BY DEF CopiesCurrent
<1>4. DeletionSeen' /\ RecordingNew' /\ WorkingHeld'
  BY DEF DeletionSeen, RecordingNew, WorkingHeld
<1> QED
  BY <1>1, <1>2, <1>3, <1>4

\* A write of the status, as the last thing a call does: it goes through only when
\* the copy that was read is current.
LEMMA CopiesReported ==
    ASSUME Copies, cr \in Resource, NEW st, UNCHANGED crCache, Forget,
           crFresh' = {}, cr' = [cr EXCEPT !.status = st]
    PROVE  Copies'
<1> USE DEF Copies, Forget
<1>1. /\ cr'.exists = cr.exists /\ cr'.generation = cr.generation
      /\ cr'.scopes = cr.scopes /\ cr'.deleting = cr.deleting
      /\ cr'.finalizer = cr.finalizer
  BY DEF Resource
<1>2. ResourceShape'
  BY <1>1 DEF ResourceShape
<1>3. DeletingHeld' /\ CacheVouches'
  BY <1>1 DEF DeletingHeld, CacheVouches, Held, Vouches
<1>4. CopiesCurrent'
  BY DEF CopiesCurrent
<1>5. DeletionSeen' /\ RecordingNew' /\ WorkingHeld'
  BY DEF DeletionSeen, RecordingNew, WorkingHeld
<1> QED
  BY <1>2, <1>3, <1>4, <1>5

\* The writes of users: the new object is held if the old one was, unless a
\* resource the operator never held is taken away.
LEMMA CopiesObserved ==
    ASSUME Copies, NEW new, WriteObserved(new), UNCHANGED <<crCache, pc, instance>>,
           Held => new.exists /\ new.finalizer,
           new.exists => new.scopes \in Scopes,
           ~new.deleting => new.generation <= MaxGeneration,
           new.deleting => new.exists /\ new.finalizer
    PROVE  Copies'
<1> USE DEF Copies, WriteObserved
<1>1. ResourceShape'
  BY DEF ResourceShape
<1>2. DeletingHeld' /\ CacheVouches'
  BY DEF DeletingHeld, CacheVouches, Held, Vouches
<1>3. CopiesCurrent' /\ DeletionSeen' /\ RecordingNew'
  BY DEF CopiesCurrent, DeletionSeen, RecordingNew
<1>4. WorkingHeld'
  BY DEF WorkingHeld, Held
<1> QED
  BY <1>1, <1>2, <1>3, <1>4

\* The last step of a deletion: nothing in flight or in the cache would bring a
\* client back, because the cache has got as far as the deletion.
LEMMA CopiesReleased ==
    ASSUME Copies, pc # "idle", instance.deleting, "instance" \in crFresh,
           Forget, crFresh' = {}, cr' = NoResource, UNCHANGED crCache
    PROVE  Copies'
<1> USE DEF Copies, Forget
<1>1. ~NoResource.exists /\ ~NoResource.deleting /\ NoResource.generation = 0
  BY DEF NoResource
<1>2. ResourceShape'
  BY <1>1, BoundsAssumption DEF ResourceShape
<1>3. DeletingHeld' /\ CacheVouches'
  BY <1>1 DEF DeletingHeld, CacheVouches, DeletionSeen, Held, Vouches
<1>4. CopiesCurrent' /\ DeletionSeen' /\ RecordingNew' /\ WorkingHeld'
  BY DEF CopiesCurrent, DeletionSeen, RecordingNew, WorkingHeld
<1> QED
  BY <1>2, <1>3, <1>4

\* The finalizer arrives: what was read is what is there, so it was no deletion.
LEMMA CopiesRecorded ==
    ASSUME Copies, cr \in Resource, pc = "record", "instance" \in crFresh,
           cr' = [cr EXCEPT !.finalizer = TRUE], UNCHANGED crCache,
           \/ crFresh' = {} /\ Forget
           \/ crFresh' = {"instance"} /\ pc' = "fetch" /\ instance' = cr'
    PROVE  Copies'
<1> USE DEF Copies
<1>1. /\ cr'.exists = cr.exists /\ cr'.generation = cr.generation
      /\ cr'.scopes = cr.scopes /\ cr'.deleting = cr.deleting
      /\ cr'.finalizer
  BY DEF Resource
<1>2. cr.exists /\ ~cr.deleting /\ Held'
  BY <1>1 DEF CopiesCurrent, RecordingNew, Held
<1>3. ResourceShape'
  BY <1>1, <1>2 DEF ResourceShape, Forget
<1>4. DeletingHeld' /\ CacheVouches' /\ WorkingHeld'
  BY <1>2 DEF DeletingHeld, CacheVouches, WorkingHeld
<1>5. CopiesCurrent'
  BY DEF CopiesCurrent
<1>6. DeletionSeen' /\ RecordingNew'
  BY <1>1, <1>2 DEF DeletionSeen, RecordingNew, Forget
<1> QED
  BY <1>3, <1>4, <1>5, <1>6

\* What the informer delivers is the resource as it is.
LEMMA CopiesSynced ==
    ASSUME Copies, UNCHANGED cr, crCache' = cr,
           \/ Forget /\ crFresh' = {"cache"}
           \/ UNCHANGED <<pc, instance>> /\ crFresh' = crFresh \cup {"cache"}
    PROVE  Copies'
<1> USE DEF Copies
<1>1. ResourceShape'
  BY DEF ResourceShape, Forget
<1>2. DeletingHeld' /\ CacheVouches'
  BY DEF DeletingHeld, CacheVouches, Held, Vouches
<1>3. CopiesCurrent'
  BY DEF CopiesCurrent, Forget
<1>4. DeletionSeen'
  BY DEF DeletionSeen, CopiesCurrent, Forget, Vouches
<1>5. RecordingNew' /\ WorkingHeld'
  BY DEF RecordingNew, WorkingHeld, Held, Forget
<1> QED
  BY <1>1, <1>2, <1>3, <1>4, <1>5

\* A call of Reconcile begins with the cache's copy.
LEMMA CopiesLoaded ==
    ASSUME Copies, LoadInstance, crCache \in Resource
    PROVE  Copies'
<1>1. CASE ~crCache.exists
  BY <1>1, CopiesFrame DEF LoadInstance
<1>2. CASE crCache.exists
  <2>1. /\ pc = "idle" /\ UNCHANGED <<cr, crCache>>
        /\ instance' = crCache
        /\ crFresh' = (crFresh \ {"instance"})
                        \cup (IF "cache" \in crFresh THEN {"instance"} ELSE {})
        /\ pc' = IF crCache.deleting \/ crCache.finalizer THEN "fetch" ELSE "record"
    BY <1>2 DEF LoadInstance
  <2> USE DEF Copies
  <2>2. ResourceShape'
    BY <1>2, <2>1 DEF ResourceShape
  <2>3. DeletingHeld' /\ CacheVouches'
    BY <2>1 DEF DeletingHeld, CacheVouches, Held, Vouches
  <2>4. CopiesCurrent'
    BY <2>1 DEF CopiesCurrent
  <2>5. DeletionSeen'
    BY <2>1 DEF DeletionSeen, Vouches
  <2>6. RecordingNew'
    BY <1>2, <2>1 DEF RecordingNew
  <2>7. WorkingHeld'
    BY <1>2, <2>1 DEF WorkingHeld, CacheVouches, Vouches, Held
  <2> QED
    BY <2>2, <2>3, <2>4, <2>5, <2>6, <2>7
<1> QED
  BY <1>1, <1>2

\* A command of the loop is a command: it changes no copy of the resource.
LEMMA WritesAreCommands ==
    ASSUME \/ PostClientJwks \/ UpdateClientJwks \/ UpdateClientScopes
           \/ DeleteClientInApi \/ UpdateSecretContent \/ DeleteSecretContent
    PROVE  /\ Executed \/ Aborted
           /\ pc \in {"exec", "postJwks"}
           /\ UNCHANGED <<crVars, instance, jwks, target>>
<1>1. ASSUME NEW new, WriteClient(new)
      PROVE  (Executed \/ Aborted) /\ UNCHANGED <<crVars, instance, jwks, target>>
  BY <1>1 DEF WriteClient, Call
<1>2. ASSUME NEW content, WriteSecret(content)
      PROVE  (Executed \/ Aborted) /\ UNCHANGED <<crVars, instance, jwks, target>>
  BY <1>2 DEF WriteSecret, Call
<1>3. pc \in {"exec", "postJwks"}
  BY DEF PostClientJwks, UpdateClientJwks, UpdateClientScopes, DeleteClientInApi,
         UpdateSecretContent, DeleteSecretContent, Executing
<1>4. (\E new : WriteClient(new)) \/ (\E content : WriteSecret(content))
  BY DEF PostClientJwks, UpdateClientJwks, UpdateClientScopes, DeleteClientInApi,
         UpdateSecretContent, DeleteSecretContent
<1> QED
  BY <1>1, <1>2, <1>3, <1>4

\* Every step of the system keeps the copies as they should be.
LEMMA CopiesPreserved ==
    ASSUME IInv, [Next]_vars
    PROVE  Copies'
<1>0. TypeOK /\ Copies /\ cr \in Resource /\ crCache \in Resource
  BY DEF IInv, TypeOK, ResourceTypeOK
<1>1. ASSUME NEW s \in Scopes, CreateResource(s) PROVE Copies'
  <2> DEFINE new == [NoResource EXCEPT !.exists = TRUE, !.generation = 1, !.scopes = s]
  <2>1. /\ new.exists /\ new.scopes \in Scopes /\ ~new.deleting
        /\ new.generation <= MaxGeneration
    BY BoundsAssumption DEF NoResource
  <2>2. WriteObserved(new) /\ UNCHANGED <<crCache, pc, instance>> /\ ~Held
    BY <1>1 DEF CreateResource, Held
  <2> HIDE DEF new
  <2> QED
    BY <1>0, <2>1, <2>2, CopiesObserved
<1>2. ASSUME NEW s \in Scopes, EditScopes(s) PROVE Copies'
  <2> DEFINE new == [cr EXCEPT !.scopes = s, !.generation = @ + 1]
  <2>1. /\ new.exists = cr.exists /\ new.finalizer = cr.finalizer
        /\ new.scopes = s /\ new.deleting = cr.deleting
        /\ new.generation = cr.generation + 1
    BY <1>0 DEF Resource
  <2>2. /\ WriteObserved(new) /\ UNCHANGED <<crCache, pc, instance>>
        /\ cr.generation < MaxGeneration
    BY <1>2 DEF EditScopes
  <2>3. ~new.deleting => new.generation <= MaxGeneration
    BY <1>0, <2>1, <2>2, BoundsAssumption DEF Resource
  <2>4. Held => new.exists /\ new.finalizer
    BY <2>1 DEF Held
  <2>5. new.deleting => new.exists /\ new.finalizer
    BY <1>0, <2>1 DEF Copies, DeletingHeld, Held
  <2> HIDE DEF new
  <2> QED
    BY <1>0, <2>1, <2>2, <2>3, <2>4, <2>5, CopiesObserved
<1>3. ASSUME DeleteResource PROVE Copies'
  <2>1. CASE cr.finalizer
    <3> DEFINE new == [cr EXCEPT !.deleting = TRUE, !.generation = @ + 1]
    <3>1. /\ new.exists = cr.exists /\ new.finalizer = cr.finalizer
          /\ new.scopes = cr.scopes /\ new.deleting
      BY <1>0 DEF Resource
    <3>2. WriteObserved(new) /\ UNCHANGED <<crCache, pc, instance>> /\ cr.exists
      BY <1>3, <2>1 DEF DeleteResource
    <3>3. cr.scopes \in Scopes
      BY <1>0, <3>2 DEF Copies, ResourceShape
    <3> HIDE DEF new
    <3> QED
      BY <1>0, <2>1, <3>1, <3>2, <3>3, CopiesObserved
  <2>2. CASE ~cr.finalizer
    <3>1. WriteObserved(NoResource) /\ UNCHANGED <<crCache, pc, instance>> /\ ~Held
      BY <1>3, <2>2 DEF DeleteResource, Held
    <3>2. ~NoResource.exists /\ ~NoResource.deleting /\ NoResource.generation <= MaxGeneration
      BY BoundsAssumption DEF NoResource
    <3> QED
      BY <1>0, <3>1, <3>2, CopiesObserved
  <2> QED
    BY <2>1, <2>2
<1>4. ASSUME SyncResource \/ Restart PROVE Copies'
  BY <1>0, <1>4, CopiesSynced DEF SyncResource, Restart
<1>5. ASSUME LoadInstance PROVE Copies'
  BY <1>0, <1>5, CopiesLoaded
<1>6. ASSUME RecordFinalizer PROVE Copies'
  <2>1. CASE KeepResource
    BY <1>0, <1>6, <2>1, CopiesForgotten DEF RecordFinalizer, KeepResource, Return
  <2>2. CASE ResourceWriteAccepted /\ cr' = [cr EXCEPT !.finalizer = TRUE]
             /\ (\/ crFresh' = {} /\ Forget
                 \/ crFresh' = {"instance"} /\ pc' = "fetch" /\ instance' = cr')
    BY <1>0, <1>6, <2>2, CopiesRecorded DEF RecordFinalizer, ResourceWriteAccepted
  <2> QED
    BY <1>6, <2>1, <2>2 DEF RecordFinalizer, Return
<1>7. ASSUME FetchCurrentState PROVE Copies'
  <2>1. CASE Forget
    BY <1>0, <1>7, <2>1, CopiesForgotten DEF FetchCurrentState, KeepResource
  <2>2. CASE pc' = "exec" /\ UNCHANGED <<cr, crFresh, instance>>
    BY <1>0, <1>7, <2>2, CopiesFrame DEF FetchCurrentState
  <2> QED
    BY <1>7, <2>1, <2>2 DEF FetchCurrentState, Return
<1>8. ASSUME FetchFails PROVE Copies'
  BY <1>0, <1>8, CopiesFrame DEF FetchFails
<1>9. ASSUME CreateClientInApi PROVE Copies'
  BY <1>0, <1>9, CopiesFrame DEF CreateClientInApi, Executing, Aborted
<1>10. ASSUME \/ PostClientJwks \/ UpdateClientJwks \/ UpdateClientScopes
              \/ DeleteClientInApi \/ UpdateSecretContent \/ DeleteSecretContent
       PROVE Copies'
  BY <1>0, <1>10, WritesAreCommands, CopiesInCommand
<1>11. ASSUME UpdateStatus PROVE Copies'
  <2>1. Forget /\ UNCHANGED crCache /\ pc = "status"
    BY <1>11 DEF UpdateStatus, Return
  <2>2. CASE KeepResource
    BY <1>0, <2>1, <2>2, CopiesForgotten DEF KeepResource
  <2>3. CASE ReportSuccess
    BY <1>0, <2>1, <2>3, CopiesReported, CopiesReleased DEF ReportSuccess, ResourceWriteAccepted
  <2> QED
    BY <1>11, <2>2, <2>3 DEF UpdateStatus
<1>12. ASSUME UpdateStatusWithError PROVE Copies'
  <2>1. Forget /\ UNCHANGED crCache
    BY <1>12 DEF UpdateStatusWithError, Return
  <2>2. CASE KeepResource
    BY <1>0, <2>1, <2>2, CopiesForgotten DEF KeepResource
  <2>3. CASE crFresh' = {} /\ cr' = [cr EXCEPT !.status = Report("error")]
    BY <1>0, <2>1, <2>3, CopiesReported
  <2> QED
    BY <1>12, <2>2, <2>3 DEF UpdateStatusWithError
<1>13. ASSUME UNCHANGED <<cr, crCache, pc, instance>>, crFresh' \subseteq crFresh
       PROVE Copies'
  BY <1>0, <1>13, CopiesFrame
<1>14. ASSUME \/ TouchResource \/ DeployApp \/ UndeployApp \/ TouchSecret
              \/ \E c \in clients : DeleteClientExternally(c)
              \/ Tick \/ Resync \/ SyncSecret \/ TimerFires \/ UNCHANGED vars
       PROVE UNCHANGED <<cr, crCache, pc, instance>> /\ crFresh' \subseteq crFresh
  BY <1>14 DEF TouchResource, DeployApp, UndeployApp, TouchSecret, DeleteClientExternally,
     Tick, Resync, SyncSecret, TimerFires
<1> QED
  BY <1>1, <1>2, <1>3, <1>4, <1>5, <1>6, <1>7, <1>8, <1>9, <1>10, <1>11, <1>12, <1>13, <1>14
     DEF Next, Environment, Informers, Reconcile

-----------------------------------------------------------------------------
(* The clients and the commands in flight *)

\* The clients and the hold on the resource, when no client is added.
LEMMA ClientsKept ==
    ASSUME ClientsHeld, AtMostOneClient, clients' \subseteq clients, Held => Held'
    PROVE  ClientsHeld' /\ AtMostOneClient'
  BY DEF ClientsHeld, AtMostOneClient, Held

\* Outside the worker's own steps clients only disappear.
LEMMA CommandsFrame ==
    ASSUME Commands, UNCHANGED localVars, clients' \subseteq clients
    PROVE  Commands'
<1> USE DEF Commands
<1>1. PlanComplete' /\ CreatesFirst' /\ PostsForNew'
  BY DEF PlanComplete, CreatesFirst, PostsForNew, InFlight
<1>2. CreatesWhenNone'
  BY DEF CreatesWhenNone
<1>3. CleanupCoversClient'
  BY DEF CleanupCoversClient, LiveIds
<1> QED
  BY <1>1, <1>2, <1>3

\* When the worker is not executing commands there is nothing to keep.
LEMMA NoCommands ==
    ASSUME pc' \notin {"exec", "postJwks", "status"}
    PROVE  Commands'
  BY DEF Commands, PlanComplete, CreatesFirst, CreatesWhenNone, PostsForNew,
         CleanupCoversClient, InFlight

\* The rest of the commands after one that is not a creation, or the end of one.
LEMMA CommandsTail ==
    ASSUME TypeOK, Commands, InFlight, target # Null, Executed \/ Aborted,
           UNCHANGED <<instance, jwks, target>>,
           {c.id : c \in clients'} \subseteq LiveIds,
           pc = "exec" /\ Head(todo) = "DeleteClientInApi" /\ Executed
             => target \notin {c.id : c \in clients'},
           pc = "postJwks" => ~instance.deleting
    PROVE  Commands'
<1>1. CASE Aborted
  BY <1>1, NoCommands DEF Aborted
<1>2. CASE Executed
  <2>1. todo \in Seq(CommandName) /\ todo # <<>>
    BY DEF TypeOK, WorkerTypeOK, Commands, PlanComplete
  <2> DEFINE rest == Tail(todo)
  <2>2. /\ rest \in Seq(CommandName) /\ Len(rest) = Len(todo) - 1 /\ Len(todo) \in Nat
        /\ \A i \in 1..Len(rest) : rest[i] = todo[i + 1]
    BY <2>1, HeadTailProperties, LenProperties
  <2>3. todo' = rest /\ pc' = IF rest = <<>> THEN "status" ELSE "exec"
    BY <1>2 DEF Executed
  <2> HIDE DEF rest
  <2>4. \A i \in 1..Len(rest) : rest[i] # "CreateClientInApi"
    <3>1. \A i \in 1..Len(rest) : i + 1 \in 2..Len(todo)
      BY <2>2
    <3> QED
      BY <2>2, <3>1 DEF Commands, CreatesFirst
  <2>5. rest # <<>> => Head(rest) # "CreateClientInApi"
    <3>1. rest # <<>> => Len(rest) >= 1 /\ Head(rest) = rest[1]
      BY <2>2, HeadTailProperties, EmptySeq, LenProperties
    <3> QED
      BY <2>2, <2>4, <3>1
  <2>6. PlanComplete'
    BY <2>3 DEF Commands, PlanComplete, InFlight
  <2>7. CreatesFirst' /\ CreatesWhenNone' /\ PostsForNew'
    <3>1. \A i \in 2..Len(rest) : rest[i] # "CreateClientInApi"
      BY <2>4
    <3> QED
      BY <2>3, <2>5, <3>1 DEF CreatesFirst, CreatesWhenNone, PostsForNew, InFlight
  <2>8. CleanupCoversClient'
    <3>1. CASE ~instance.deleting
      BY <3>1 DEF CleanupCoversClient
    <3>2. CASE instance.deleting
      <4>1. pc = "exec" /\ todo \in CleanupTodo /\ LiveIds \subseteq {target}
        BY <3>2 DEF InFlight, Commands, CleanupCoversClient
      <4>2. CASE todo = <<"DeleteClientInApi">>
        <5>1. rest = <<>> /\ Head(todo) = "DeleteClientInApi"
          BY <4>2 DEF rest
        <5>2. {c.id : c \in clients'} = {}
          BY <1>2, <4>1, <5>1
        <5> QED
          BY <2>3, <5>1, <5>2 DEF CleanupCoversClient
      <4>3. CASE todo = <<"DeleteSecretContent", "DeleteClientInApi">>
        <5>1. rest = <<"DeleteClientInApi">>
          BY <4>3 DEF rest
        <5>2. todo' \in CleanupTodo /\ pc' = "exec"
          BY <2>3, <5>1 DEF CleanupTodo
        <5>3. LiveIds' \subseteq {target'}
          BY <4>1 DEF LiveIds
        <5> QED
          BY <5>2, <5>3 DEF CleanupCoversClient
      <4> QED
        BY <4>1, <4>2, <4>3 DEF CleanupTodo
    <3> QED
      BY <3>1, <3>2
  <2> QED
    BY <2>6, <2>7, <2>8 DEF Commands
<1> QED
  BY <1>1, <1>2

\* Without a client there is nothing to clean up, and creation comes first.
LEMMA PlanWithoutClient ==
    ASSUME NEW deleting \in BOOLEAN, NEW scopes, NEW url, NEW left,
           NEW p, p = Plan(deleting, scopes, Null, Null, url, left)
    PROVE  p # <<>> => ~deleting /\ Head(p) = "CreateClientInApi"
<1>1. CASE deleting
  <2>1. p = <<>> \o <<>>
    BY <1>1 DEF Plan, CleanupCommands, If
  <2>2. <<>> \in Seq({}) /\ <<>> \o <<>> = <<>>
    BY ConcatEmptySeq
  <2> QED
    BY <2>1, <2>2
<1>2. CASE ~deleting
  BY <1>2 DEF Plan, CreateCommands
<1> QED
  BY <1>1, <1>2

\* The plan: creation first, and only without a client; a cleanup covers the client
\* that was found, which is the only one.
LEMMA CommandsPlanned ==
    ASSUME IInv, FetchCurrentState
    PROVE  Commands'
<1> DEFINE content == secretCache.content
<1>1. PICK client \in MatchingClients(content) :
         LET commands == Plan(instance.deleting, instance.scopes, client, content,
                              authority, remaining)
         IN \/ Return(FALSE)
            \/ /\ commands # <<>>
               /\ pc' = "exec"
               /\ todo' = commands
               /\ target' = IF client = Null THEN Null ELSE client.id
               /\ jwks' = IF instance.deleting THEN <<>>
                          ELSE PlannedJwks(client, content, remaining, NewKey)
               /\ NeedsKey(instance.deleting, client, content, remaining) => Key \ UsedKeys # {}
               /\ UNCHANGED instance
  BY DEF FetchCurrentState, NoActions
<1>2. UNCHANGED clients
  BY DEF FetchCurrentState
<1>3. CASE Return(FALSE)
  BY <1>3, NoCommands DEF Return, Forget
<1>4. CASE ~Return(FALSE)
  <2> DEFINE p == Plan(instance.deleting, instance.scopes, client, content,
                       authority, remaining)
  <2>1. /\ p # <<>> /\ pc' = "exec" /\ todo' = p /\ UNCHANGED instance
        /\ target' = IF client = Null THEN Null ELSE client.id
        /\ jwks' = IF instance.deleting THEN <<>>
                   ELSE PlannedJwks(client, content, remaining, NewKey)
        /\ NeedsKey(instance.deleting, client, content, remaining) => Key \ UsedKeys # {}
    BY <1>1, <1>4
  <2>2. /\ remaining \in Lifetimes /\ content \in Content \cup {Null}
        /\ instance.deleting \in BOOLEAN /\ clients \subseteq Client
    BY DEF IInv, TypeOK, WorldTypeOK, SecretTypeOK, Secret, WorkerTypeOK, Resource
  <2>3. \/ client \in clients /\ client # Null /\ client.id \in ClientId /\ client.id # Null
        \/ client = Null /\ content = Null /\ clients = {}
    BY <1>1, <2>2, NullAssumption DEF MatchingClients, Client
  <2>4. /\ \A i \in 2..Len(p) : p[i] # "CreateClientInApi"
        /\ Head(p) = "CreateClientInApi" => ~instance.deleting /\ client = Null
        /\ instance.deleting /\ client # Null => p \in CleanupTodo
    BY <2>1, <2>2, PlanShape
  <2>5. ~instance.deleting => jwks' \in JwksType
    <3> SUFFICES ASSUME ~instance.deleting PROVE jwks' \in JwksType
      OBVIOUS
    <3>1. (client = Null \/ content = Null \/ RotationDue(content.jwks, remaining))
            => NewKey \in Key
      BY <2>1 DEF NeedsKey, NewKey
    <3>2. PlannedJwks(client, content, remaining, NewKey) \in JwksType
      BY <2>2, <3>1, PlannedJwksType
    <3> QED
      BY <2>1, <3>2
  <2>6. client = Null => ~instance.deleting /\ Head(p) = "CreateClientInApi"
    <3> SUFFICES ASSUME client = Null
                 PROVE  ~instance.deleting /\ Head(p) = "CreateClientInApi"
      OBVIOUS
    <3>1. p = Plan(instance.deleting, instance.scopes, Null, Null, authority, remaining)
      BY <2>3
    <3> QED
      BY <2>1, <2>2, <3>1, PlanWithoutClient
  <2> HIDE DEF p
  <2>7. PlanComplete'
    BY <2>1, <2>3, <2>5, <2>6 DEF PlanComplete, InFlight
  <2>8. CreatesFirst' /\ PostsForNew'
    BY <2>1, <2>4 DEF CreatesFirst, PostsForNew, InFlight
  <2>9. CreatesWhenNone'
    BY <1>2, <2>1, <2>3, <2>4 DEF CreatesWhenNone
  <2>10. CleanupCoversClient'
    <3>1. instance.deleting => client # Null /\ p \in CleanupTodo /\ client \in clients
      BY <2>3, <2>4, <2>6
    <3>2. instance.deleting => LiveIds \subseteq {target'}
      BY <2>1, <3>1 DEF IInv, AtMostOneClient, LiveIds
    <3>3. LiveIds' = LiveIds
      BY <1>2 DEF LiveIds
    <3> QED
      BY <2>1, <3>1, <3>2, <3>3 DEF CleanupCoversClient
  <2> QED
    BY <2>7, <2>8, <2>9, <2>10 DEF Commands
<1> QED
  BY <1>3, <1>4

\* What the writes of the loop do to the clients: they keep their ids, or the
\* client of the cleanup goes.
LEMMA WritesToClients ==
    ASSUME IInv,
           \/ PostClientJwks \/ UpdateClientJwks \/ UpdateClientScopes
           \/ DeleteClientInApi \/ UpdateSecretContent \/ DeleteSecretContent
    PROVE  /\ {c.id : c \in clients'} \subseteq LiveIds
           /\ AtMostOneClient'
           /\ clients' # {} => clients # {}
           /\ ~DeleteClientInApi => {c.id : c \in clients'} = LiveIds
           /\ DeleteClientInApi /\ Executed => target \notin {c.id : c \in clients'}
<1>0. clients \subseteq Client /\ AtMostOneClient
  BY DEF IInv, TypeOK
<1>1. CASE UNCHANGED clients /\ ~(DeleteClientInApi /\ Executed)
  BY <1>0, <1>1 DEF LiveIds, AtMostOneClient
<1>2. CASE clients' = WithKeys /\ ~DeleteClientInApi
  <2>1. \A c \in clients : [c EXCEPT !.keys = ToPublic(jwks)].id = c.id
    BY <1>0 DEF Client
  <2>2. {c.id : c \in WithKeys} = LiveIds
    BY <2>1 DEF WithKeys, LiveIds
  <2>3. AtMostOneClient' /\ (clients' # {} => clients # {})
    BY <1>0, <1>2 DEF AtMostOneClient, WithKeys
  <2> QED
    BY <1>2, <2>2, <2>3
<1>3. CASE clients' = WithScopes /\ ~DeleteClientInApi
  <2>1. \A c \in clients : [c EXCEPT !.scopes = instance.scopes].id = c.id
    BY <1>0 DEF Client
  <2>2. {c.id : c \in WithScopes} = LiveIds
    BY <2>1 DEF WithScopes, LiveIds
  <2>3. AtMostOneClient' /\ (clients' # {} => clients # {})
    BY <1>0, <1>3 DEF AtMostOneClient, WithScopes
  <2> QED
    BY <1>3, <2>2, <2>3
<1>4. CASE DeleteClientInApi /\ clients' = {c \in clients : c.id # target}
  BY <1>0, <1>4 DEF LiveIds, AtMostOneClient
<1>5. ASSUME DeleteClientInApi
      PROVE  clients' = {c \in clients : c.id # target} \/ (UNCHANGED clients /\ ~Executed)
  BY <1>5 DEF DeleteClientInApi, Executing, WriteClient, Call, Executed, Aborted, Registered
<1>6. ASSUME ~DeleteClientInApi
      PROVE  clients' = WithKeys \/ clients' = WithScopes \/ UNCHANGED clients
  BY <1>6 DEF PostClientJwks, UpdateClientJwks, UpdateClientScopes, UpdateSecretContent,
     DeleteSecretContent, WriteClient, WriteSecret, Call
<1> QED
  BY <1>1, <1>2, <1>3, <1>4, <1>5, <1>6

\* What a step that leaves the clients alone has to keep: the hold.
LEMMA HoldKept ==
    ASSUME IInv, [Next]_vars, ~UpdateStatus
    PROVE  Held => Held'
<1>0. cr \in Resource
  BY DEF IInv, TypeOK, ResourceTypeOK
<1>1. CASE UNCHANGED cr
  BY <1>1 DEF Held
<1>2. ASSUME NEW s \in Scopes, CreateResource(s) PROVE ~Held
  BY <1>2 DEF CreateResource, Held
<1>3. ASSUME NEW s \in Scopes, EditScopes(s) PROVE Held => Held'
  BY <1>0, <1>3 DEF EditScopes, WriteObserved, Held, Resource
<1>4. ASSUME DeleteResource PROVE Held => Held'
  BY <1>0, <1>4 DEF DeleteResource, WriteObserved, Held, Resource
<1>5. ASSUME RecordFinalizer PROVE Held => Held'
  <2>1. cr' = cr \/ cr' = [cr EXCEPT !.finalizer = TRUE]
    BY <1>5 DEF RecordFinalizer, KeepResource
  <2> QED
    BY <1>0, <2>1 DEF Held, Resource
<1>6. ASSUME UpdateStatusWithError PROVE Held => Held'
  <2>1. cr' = cr \/ cr' = [cr EXCEPT !.status = Report("error")]
    BY <1>6 DEF UpdateStatusWithError, KeepResource
  <2> QED
    BY <1>0, <2>1 DEF Held, Resource
<1>7. ASSUME FetchCurrentState PROVE UNCHANGED cr
  BY <1>7 DEF FetchCurrentState, KeepResource
<1>8. ASSUME \/ PostClientJwks \/ UpdateClientJwks \/ UpdateClientScopes
             \/ DeleteClientInApi \/ UpdateSecretContent \/ DeleteSecretContent
      PROVE  UNCHANGED cr
  BY <1>8, WritesAreCommands
<1>9. ASSUME \/ TouchResource \/ DeployApp \/ UndeployApp \/ TouchSecret
             \/ \E c \in clients : DeleteClientExternally(c)
             \/ Tick \/ SyncResource \/ Resync \/ SyncSecret \/ TimerFires \/ Restart
             \/ LoadInstance \/ FetchFails \/ CreateClientInApi \/ UNCHANGED vars
      PROVE UNCHANGED cr
  BY <1>9 DEF TouchResource, DeployApp, UndeployApp, TouchSecret, DeleteClientExternally,
     Tick, SyncResource, Resync, SyncSecret, TimerFires, Restart, LoadInstance,
     FetchFails, CreateClientInApi
<1> QED
  BY <1>1, <1>2, <1>3, <1>4, <1>5, <1>6, <1>7, <1>8, <1>9
     DEF Next, Environment, Informers, Reconcile

\* The end of a call: the hold goes with a deletion, after the clients.
LEMMA StatusReleases ==
    ASSUME IInv, UpdateStatus
    PROVE  /\ UNCHANGED clients /\ pc' = "idle"
           /\ Held' = Held \/ (Held /\ ~Held' /\ clients = {})
<1>0. cr \in Resource
  BY DEF IInv, TypeOK, ResourceTypeOK
<1>1. UNCHANGED clients /\ pc' = "idle" /\ pc = "status"
  BY DEF UpdateStatus, Return, Forget
<1>2. CASE UNCHANGED cr
  BY <1>1, <1>2 DEF Held
<1>3. CASE cr' = [cr EXCEPT !.status = Report("reconciled")]
  BY <1>0, <1>1, <1>3 DEF Held, Resource
<1>4. CASE cr' = NoResource /\ ResourceWriteAccepted /\ instance.deleting
  <2>1. clients = {}
    BY <1>1, <1>4 DEF IInv, Commands, CleanupCoversClient
  <2>2. Held
    BY <1>1, <1>4 DEF IInv, Copies, CopiesCurrent, DeletingHeld, ResourceWriteAccepted
  <2>3. ~Held'
    BY <1>4 DEF Held, NoResource
  <2> QED
    BY <1>1, <2>1, <2>2, <2>3
<1> QED
  BY <1>2, <1>3, <1>4 DEF UpdateStatus, ReportSuccess, KeepResource

\* A creation adds the first client of a resource that is held.
LEMMA CreationAddsOne ==
    ASSUME IInv, CreateClientInApi
    PROVE  /\ Held /\ clients = {} /\ ~instance.deleting
           /\ \/ UNCHANGED <<clients, target>>
              \/ \E id \in ClientId :
                   clients' = {[id |-> id, scopes |-> instance.scopes, keys |-> {}]}
<1>1. pc = "exec" /\ Head(todo) = "CreateClientInApi"
  BY DEF CreateClientInApi, Executing
<1>2. ~instance.deleting /\ clients = {}
  BY <1>1 DEF IInv, Commands, CreatesWhenNone
<1>3. Held
  BY <1>1, <1>2 DEF IInv, Copies, WorkingHeld
<1>4. \/ UNCHANGED <<clients, target>>
      \/ \E id \in ClientId :
           clients' = clients \cup {[id |-> id, scopes |-> instance.scopes, keys |-> {}]}
  BY DEF CreateClientInApi
<1> QED
  BY <1>2, <1>3, <1>4

\* The steps that write clients, and the rest of them.
LEMMA OtherSteps ==
    ASSUME [Next]_vars, ~CreateClientInApi,
           ~(\/ PostClientJwks \/ UpdateClientJwks \/ UpdateClientScopes
             \/ DeleteClientInApi \/ UpdateSecretContent \/ DeleteSecretContent)
    PROVE  clients' \subseteq clients
  BY DEF Next, Environment, Informers, Reconcile, CreateResource, EditScopes,
     TouchResource, DeleteResource, DeployApp, UndeployApp, TouchSecret,
     DeleteClientExternally, Tick, SyncResource, Resync, SyncSecret, TimerFires, Restart,
     LoadInstance, RecordFinalizer, FetchCurrentState, FetchFails, UpdateStatus,
     UpdateStatusWithError

\* Every step keeps the one client held.
LEMMA ClientsPreserved ==
    ASSUME IInv, [Next]_vars
    PROVE  ClientsHeld' /\ AtMostOneClient'
<1>0. ClientsHeld /\ AtMostOneClient
  BY DEF IInv
<1>1. CASE UpdateStatus
  BY <1>0, <1>1, StatusReleases DEF ClientsHeld, AtMostOneClient, Held
<1>2. CASE CreateClientInApi
  <2>1. Held'
    BY <1>2, CreationAddsOne DEF CreateClientInApi, Held
  <2>2. AtMostOneClient'
    BY <1>2, CreationAddsOne DEF AtMostOneClient
  <2> QED
    BY <2>1, <2>2 DEF ClientsHeld, Held
<1>3. CASE \/ PostClientJwks \/ UpdateClientJwks \/ UpdateClientScopes
           \/ DeleteClientInApi \/ UpdateSecretContent \/ DeleteSecretContent
  <2>1. AtMostOneClient' /\ (clients' # {} => clients # {})
    BY <1>3, WritesToClients
  <2>2. UNCHANGED cr
    BY <1>3, WritesAreCommands
  <2> QED
    BY <1>0, <2>1, <2>2 DEF ClientsHeld
<1>4. CASE /\ ~UpdateStatus /\ ~CreateClientInApi
           /\ ~(\/ PostClientJwks \/ UpdateClientJwks \/ UpdateClientScopes
                \/ DeleteClientInApi \/ UpdateSecretContent \/ DeleteSecretContent)
  <2>1. clients' \subseteq clients /\ (Held => Held')
    BY <1>4, OtherSteps, HoldKept
  <2> QED
    BY <1>0, <2>1, ClientsKept
<1> QED
  BY <1>1, <1>2, <1>3, <1>4

\* Every step keeps the commands in flight as they should be.
LEMMA CommandsPreserved ==
    ASSUME IInv, [Next]_vars
    PROVE  Commands'
<1>0. TypeOK /\ Commands
  BY DEF IInv
<1>1. ASSUME \/ \E s \in Scopes : CreateResource(s) \/ EditScopes(s)
             \/ TouchResource \/ DeleteResource \/ DeployApp \/ UndeployApp \/ TouchSecret
             \/ \E c \in clients : DeleteClientExternally(c)
             \/ Tick \/ SyncResource \/ Resync \/ SyncSecret \/ TimerFires
             \/ UNCHANGED vars
      PROVE Commands'
  <2>1. UNCHANGED localVars /\ clients' \subseteq clients
    BY <1>1 DEF CreateResource, EditScopes, TouchResource, DeleteResource, DeployApp,
       UndeployApp, TouchSecret, DeleteClientExternally, Tick, SyncResource, Resync,
       SyncSecret, TimerFires
  <2> QED
    BY <1>0, <2>1, CommandsFrame
<1>2. ASSUME Restart \/ RecordFinalizer \/ FetchFails \/ LoadInstance
             \/ UpdateStatus \/ UpdateStatusWithError
      PROVE Commands'
  <2>1. pc' \notin {"exec", "postJwks", "status"}
    BY <1>2 DEF Restart, RecordFinalizer, FetchFails, LoadInstance, UpdateStatus,
       UpdateStatusWithError, Return, Forget
  <2> QED
    BY <2>1, NoCommands
<1>3. ASSUME FetchCurrentState PROVE Commands'
  BY <1>3, CommandsPlanned
<1>4. ASSUME CreateClientInApi PROVE Commands'
  <2>1. CASE Aborted
    BY <2>1, NoCommands DEF Aborted
  <2>2. CASE ~Aborted
    <3>1. /\ pc = "exec" /\ pc' = "postJwks" /\ target' \in ClientId
          /\ UNCHANGED <<todo, jwks, instance>>
      BY <1>4, <2>2 DEF CreateClientInApi, Executing
    <3>2. ~instance.deleting /\ target' # Null
      BY <1>4, <3>1, CreationAddsOne, NullAssumption
    <3>3. PlanComplete'
      BY <1>0, <3>1, <3>2 DEF Commands, PlanComplete, InFlight
    <3>4. CreatesFirst'
      BY <1>0, <3>1 DEF Commands, CreatesFirst, InFlight
    <3>5. CreatesWhenNone' /\ PostsForNew' /\ CleanupCoversClient'
      BY <3>1, <3>2 DEF CreatesWhenNone, PostsForNew, CleanupCoversClient
    <3> QED
      BY <3>3, <3>4, <3>5 DEF Commands
  <2> QED
    BY <2>1, <2>2
<1>5. ASSUME \/ PostClientJwks \/ UpdateClientJwks \/ UpdateClientScopes
             \/ DeleteClientInApi \/ UpdateSecretContent \/ DeleteSecretContent
      PROVE Commands'
  <2>1. /\ Executed \/ Aborted
        /\ InFlight
        /\ UNCHANGED <<instance, jwks, target>>
    BY <1>5, WritesAreCommands DEF InFlight
  <2>2. /\ pc = "exec" => Head(todo) # "CreateClientInApi"
        /\ pc = "postJwks" \/ pc = "exec"
        /\ Head(todo) = "DeleteClientInApi" /\ pc = "exec" => DeleteClientInApi
    BY <1>5 DEF PostClientJwks, UpdateClientJwks, UpdateClientScopes,
       DeleteClientInApi, UpdateSecretContent, DeleteSecretContent, Executing
  <2>3. target # Null
    BY <1>0, <2>1, <2>2 DEF Commands, PlanComplete
  <2>4. /\ {c.id : c \in clients'} \subseteq LiveIds
        /\ DeleteClientInApi /\ Executed => target \notin {c.id : c \in clients'}
    BY <1>5, WritesToClients
  <2>5. pc = "postJwks" => ~instance.deleting
    BY <1>0 DEF Commands, PostsForNew
  <2> QED
    BY <1>0, <2>1, <2>2, <2>3, <2>4, <2>5, CommandsTail
<1> QED
  BY <1>1, <1>2, <1>3, <1>4, <1>5 DEF Next, Environment, Informers, Reconcile

-----------------------------------------------------------------------------
(* The theorems *)

\* The operator starts with nothing in the cluster and nothing in flight.
LEMMA InitInvariant == Init => IInv
<1> SUFFICES ASSUME Init PROVE IInv
  OBVIOUS
<1> USE DEF Init
<1>0. NoResource \in Resource /\ ~NoResource.exists /\ ~NoResource.deleting
      /\ NoResource.generation = 0
  BY NoResourceType DEF NoResource
<1>1. TypeOK
  <2>1. ResourceTypeOK /\ SecretTypeOK /\ QueueTypeOK
    BY <1>0 DEF ResourceTypeOK, SecretTypeOK, QueueTypeOK, Secret, NoSecret
  <2>2. WorldTypeOK
    <3>1. Lifetime \in 0..Lifetime
      BY LifetimeAssumption
    <3> QED
      BY <3>1 DEF WorldTypeOK, Lifetimes
  <2>3. WorkerTypeOK
    <3>1. <<>> \in Seq(CommandName) /\ Len(<<>>) = 0
      OBVIOUS
    <3> QED
      BY <1>0, <3>1 DEF WorkerTypeOK, PC
  <2>4. BoundTypeOK
    BY BoundsAssumption DEF BoundTypeOK
  <2> QED
    BY <2>1, <2>2, <2>3, <2>4 DEF TypeOK
<1>2. ClientsHeld /\ AtMostOneClient
  BY DEF ClientsHeld, AtMostOneClient
<1>3. ResourceShape
  BY <1>0, BoundsAssumption DEF ResourceShape
<1>4. /\ DeletingHeld /\ CacheVouches /\ CopiesCurrent
      /\ DeletionSeen /\ RecordingNew /\ WorkingHeld
  BY <1>0 DEF DeletingHeld, CacheVouches, Vouches, CopiesCurrent, DeletionSeen,
     RecordingNew, WorkingHeld
<1>5. Commands
  BY DEF Commands, PlanComplete, CreatesFirst, CreatesWhenNone, PostsForNew,
     CleanupCoversClient, InFlight
<1> QED
  BY <1>1, <1>2, <1>3, <1>4, <1>5 DEF IInv, Copies

\* The invariant is inductive.
LEMMA NextInvariant == IInv /\ [Next]_vars => IInv'
<1> SUFFICES ASSUME IInv, [Next]_vars PROVE IInv'
  OBVIOUS
<1> QED
  BY TypePreserved, CopiesPreserved, ClientsPreserved, CommandsPreserved DEF IInv

\* The invariant that carries the rest holds in every reachable state of the loop,
\* under every adversity and whatever the bounds.
THEOREM Invariance == Spec => []IInv
<1> QED
  BY InitInvariant, NextInvariant, PTL DEF Spec

\* Every variable keeps its type: in particular the commands in flight are at most
\* three, and the documents and clients written are well formed.
THEOREM TypeCorrect == Spec => []TypeOK
<1>1. IInv => TypeOK
  BY DEF IInv
<1> QED
  BY <1>1, Invariance, PTL

\* No client is orphaned: loadInstance puts the finalizer on before a client is
\* made, updateStatus takes it off after the client is gone, and no copy of the
\* resource, however stale, makes the worker create one in between.
THEOREM ClientsAlwaysHeld == Spec => []ClientsHeld
<1>1. IInv => ClientsHeld
  BY DEF IInv
<1> QED
  BY <1>1, Invariance, PTL

\* Whatever copy of the secret it acts on, and however often it is retried, the
\* loop of Reconcile never registers a second client for the app.
THEOREM OneClient == Spec => []AtMostOneClient
<1>1. IInv => AtMostOneClient
  BY DEF IInv
<1> QED
  BY <1>1, Invariance, PTL

\* A step of the loop is a step of the abstract life of the app's client, or none.
LEMMA StepImplementsLifecycle ==
    ASSUME IInv, [Next]_vars
    PROVE  [Lifecycle!Next]_(Lifecycle!vars)
<1> USE DEF Lifecycle!vars
<1>0. clients \subseteq Client /\ ClientsHeld
  BY DEF IInv, TypeOK
<1>1. CASE Held' = Held /\ LiveIds' = LiveIds
  BY <1>1 DEF Held
<1>2. CASE ~Held /\ Held' /\ LiveIds' = LiveIds
  BY <1>2 DEF Held, Lifecycle!Next, Lifecycle!Acquire
<1>3. CASE Held /\ ~Held' /\ LiveIds = {} /\ LiveIds' = LiveIds
  BY <1>3 DEF Held, Lifecycle!Next, Lifecycle!Release
<1>4. CASE Held /\ Held' /\ LiveIds # {} /\ LiveIds' = {}
  BY <1>4 DEF Held, Lifecycle!Next, Lifecycle!Unregister
<1>5. CASE Held /\ Held' /\ LiveIds = {} /\ \E id \in ClientId : LiveIds' = {id}
  BY <1>5 DEF Held, Lifecycle!Next, Lifecycle!Register
<1>6. CASE UpdateStatus
  <2>1. LiveIds' = LiveIds
    BY <1>6, StatusReleases DEF LiveIds
  <2>2. Held' = Held \/ (Held /\ ~Held' /\ LiveIds = {})
    BY <1>6, StatusReleases DEF LiveIds
  <2> QED
    BY <1>1, <1>3, <2>1, <2>2
<1>7. CASE CreateClientInApi
  <2>1. Held' = Held /\ Held /\ LiveIds = {}
    BY <1>7, CreationAddsOne DEF CreateClientInApi, Held, LiveIds
  <2>2. CASE UNCHANGED clients
    BY <1>1, <2>1, <2>2 DEF LiveIds
  <2>3. CASE \E id \in ClientId :
               clients' = {[id |-> id, scopes |-> instance.scopes, keys |-> {}]}
    <3>1. \E id \in ClientId : LiveIds' = {id}
      BY <2>3 DEF LiveIds
    <3> QED
      BY <1>5, <2>1, <3>1
  <2> QED
    BY <1>7, <2>2, <2>3, CreationAddsOne
\* From here on: either the clients keep their ids, or the one there is goes.
<1>8. ASSUME {c.id : c \in clients'} \subseteq LiveIds
      PROVE  LiveIds' = LiveIds \/ (LiveIds # {} /\ LiveIds' = {})
  <2>1. \A c, d \in clients : c.id = d.id
    BY DEF IInv, AtMostOneClient
  <2> QED
    BY <1>8, <2>1 DEF LiveIds
<1>9. CASE \/ PostClientJwks \/ UpdateClientJwks \/ UpdateClientScopes
           \/ DeleteClientInApi \/ UpdateSecretContent \/ DeleteSecretContent
  <2>1. Held' = Held
    BY <1>9, WritesAreCommands DEF Held
  <2>2. LiveIds' = LiveIds \/ (LiveIds # {} /\ LiveIds' = {})
    BY <1>8, <1>9, WritesToClients
  <2>3. LiveIds # {} => Held
    BY <1>0 DEF ClientsHeld, Held, LiveIds
  <2> QED
    BY <1>1, <1>4, <2>1, <2>2, <2>3
<1>10. CASE /\ ~UpdateStatus /\ ~CreateClientInApi
            /\ ~(\/ PostClientJwks \/ UpdateClientJwks \/ UpdateClientScopes
                 \/ DeleteClientInApi \/ UpdateSecretContent \/ DeleteSecretContent)
  <2>1. clients' \subseteq clients /\ (Held => Held')
    BY <1>10, OtherSteps, HoldKept
  <2>2. LiveIds' = LiveIds \/ (LiveIds # {} /\ LiveIds' = {})
    BY <1>8, <2>1 DEF LiveIds
  <2>3. LiveIds # {} => Held
    BY <1>0 DEF ClientsHeld, Held, LiveIds
  <2>4. UNCHANGED cr \/ UNCHANGED clients
    BY <1>10 DEF Next, Environment, Informers, Reconcile, CreateResource, EditScopes,
       TouchResource, DeleteResource, DeployApp, UndeployApp, TouchSecret,
       DeleteClientExternally, Tick, SyncResource, Resync, SyncSecret, TimerFires, Restart,
       LoadInstance, RecordFinalizer, FetchCurrentState, FetchFails, UpdateStatusWithError
  <2>5. UNCHANGED clients => LiveIds' = LiveIds
    BY DEF LiveIds
  <2>6. UNCHANGED cr => Held' = Held
    BY DEF Held
  <2> QED
    BY <1>1, <1>2, <1>4, <2>1, <2>2, <2>3, <2>4, <2>5, <2>6 DEF Held
<1> QED
  BY <1>6, <1>7, <1>9, <1>10

\* The reconciliation loop implements ClientLifecycle: a client is made only while
\* there is none and the resource is held, and the hold is given up only when there
\* is none left.
THEOREM ImplementsLifecycle == Spec => LifecycleSpec
<1>1. Init => Lifecycle!Init
  BY DEF Init, Lifecycle!Init, LiveIds, NoResource
<1>2. IInv /\ [Next]_vars => [Lifecycle!Next]_(Lifecycle!vars)
  BY StepImplementsLifecycle
<1> QED
  BY <1>1, <1>2, Invariance, PTL DEF Spec, LifecycleSpec, Lifecycle!Spec

=============================================================================
