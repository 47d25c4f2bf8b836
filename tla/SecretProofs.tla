----------------------------- MODULE SecretProofs -----------------------------
(***************************************************************************)
(* Proofs about the app's document, for all values of the constants.  As   *)
(* long as the controller does not read a stale copy of it, a cleanup ends *)
(* without it, and keys are registered only together with those the app    *)
(* holds; if moreover nobody else deletes clients, it names one that is    *)
(* there.  A key the app was handed stays in it until it is due, and       *)
(* beside its successor then, under every adversity; and the key it signs  *)
(* with is registered, without stale caches and until a call fails.        *)
(***************************************************************************)
EXTENDS ReconcilerProofs

-----------------------------------------------------------------------------
(* The plan *)

\* Three commands appended to one another.
LEMMA TripleConcat ==
    ASSUME NEW a, NEW b, NEW c
    PROVE  <<a>> \o <<b>> \o <<c>> = <<a, b, c>>
<1> DEFINE ab == <<a, b>>
           abc == ab \o <<c>>
           T == {a, b, c}
<1>1. ab \in Seq(T) /\ <<c>> \in Seq(T) /\ <<a, b, c>> \in Seq(T)
      /\ Len(ab) = 2 /\ ab[1] = a /\ ab[2] = b
  OBVIOUS
<1>2. <<a>> \o <<b>> = ab
  BY PairConcat
<1> HIDE DEF ab, T
<1>3. /\ abc \in Seq(T) /\ Len(abc) = 3
      /\ abc[1] = a /\ abc[2] = b /\ abc[3] = c
  BY <1>1, ConcatProperties
<1>4. \A i \in 1..Len(abc) : abc[i] = <<a, b, c>>[i]
  BY <1>3
<1> HIDE DEF abc
<1>5. abc = <<a, b, c>>
  BY <1>1, <1>3, <1>4, SeqEqual
<1> QED
  BY <1>2, <1>5 DEF abc

\* With a client and a document: what there can be to do, in this order.
LEMMA SteadyPlans ==
    ASSUME NEW scopes, NEW client, NEW content, NEW url, NEW rotate \in BOOLEAN,
           NEW p, p = SteadyCommands(scopes, client, content, url, rotate),
           p # <<>>
    PROVE  p \in LiveTodo /\ Head(p) # "UpdateClientJwks"
<1> DEFINE written == AuthorityChanged(content, url) \/ rotate
           scoped == ScopesChanged(client, scopes)
           S == "UpdateSecretContent"
           J == "UpdateClientJwks"
           C == "UpdateClientScopes"
<1>1. p = If(written, <<S>>) \o If(rotate, <<J>>) \o If(scoped, <<C>>)
  BY DEF SteadyCommands
<1>2. /\ <<S>> \o <<J>> = <<S, J>> /\ <<S>> \o <<C>> = <<S, C>>
      /\ <<S>> \o <<J>> \o <<C>> = <<S, J, C>>
  BY PairConcat, TripleConcat
<1>3. /\ <<S>> \o <<>> = <<S>> /\ <<S, J>> \o <<>> = <<S, J>>
      /\ <<>> \o <<>> = <<>> /\ <<>> \o <<C>> = <<C>>
  <2>1. /\ <<S>> \in Seq({S, J, C}) /\ <<S, J>> \in Seq({S, J, C})
        /\ <<C>> \in Seq({S, J, C}) /\ <<>> \in Seq({S, J, C})
    OBVIOUS
  <2> QED
    BY <2>1, ConcatEmptySeq
<1>4. p \in {<<S>>, <<S, J>>, <<S, J, C>>, <<S, C>>, <<C>>}
  <2>1. CASE rotate /\ scoped
    BY <1>1, <1>2, <2>1 DEF If
  <2>2. CASE rotate /\ ~scoped
    BY <1>1, <1>2, <1>3, <2>2 DEF If
  <2>3. CASE ~rotate /\ written /\ scoped
    BY <1>1, <1>2, <1>3, <2>3 DEF If
  <2>4. CASE ~rotate /\ written /\ ~scoped
    BY <1>1, <1>3, <2>4 DEF If
  <2>5. CASE ~written /\ scoped
    BY <1>1, <1>3, <2>5 DEF If
  <2>6. CASE ~written /\ ~scoped
    BY <1>1, <1>3, <2>6 DEF If
  <2> QED
    BY <2>1, <2>2, <2>3, <2>4, <2>5, <2>6
<1>5. Head(p) \in {S, C}
  BY <1>4
<1>6. p \in LiveTodo
  BY <1>4 DEF LiveTodo
<1> QED
  BY <1>5, <1>6

\* A cleanup that does not clear the document has found none.
LEMMA CleanupPlans ==
    ASSUME NEW client, NEW content,
           client = Null => content = Null,
           NEW p, p = CleanupCommands(client, content), p # <<>>
    PROVE  p \in CleanupTodo /\ (p = <<"DeleteClientInApi">> => content = Null)
<1> DEFINE S == "DeleteSecretContent"
           C == "DeleteClientInApi"
<1>1. <<S>> \o <<C>> = <<S, C>>
  BY PairConcat
<1>2. <<>> \o <<C>> = <<C>> /\ <<>> \o <<>> = <<>>
  <2>1. <<C>> \in Seq({C}) /\ <<>> \in Seq({C})
    OBVIOUS
  <2> QED
    BY <2>1, ConcatEmptySeq
<1>3. CASE content # Null
  <2>1. p = <<S, C>>
    BY <1>1, <1>3 DEF CleanupCommands, If
  <2>2. <<S, C>> # <<C>>
    OBVIOUS
  <2> QED
    BY <2>1, <2>2 DEF CleanupTodo
<1>4. CASE content = Null /\ client # Null
  BY <1>2, <1>4 DEF CleanupCommands, If, CleanupTodo
<1>5. CASE content = Null /\ client = Null
  BY <1>2, <1>5 DEF CleanupCommands, If
<1> QED
  BY <1>3, <1>4, <1>5

\* What is planned: with keys first only when there is no document, and a cleanup
\* without clearing the document likewise.
LEMMA PlanCases ==
    ASSUME NEW deleting \in BOOLEAN, NEW scopes, NEW client, NEW content,
           NEW url, NEW left,
           client = Null => content = Null,
           NEW p, p = Plan(deleting, scopes, client, content, url, left), p # <<>>
    PROVE  /\ p \in IF deleting THEN CleanupTodo ELSE LiveTodo
           /\ p = <<"DeleteClientInApi">> => content = Null
           /\ Head(p) = "UpdateClientJwks" => content = Null
<1>1. CASE deleting
  <2>1. p \in CleanupTodo /\ (p = <<"DeleteClientInApi">> => content = Null)
    BY <1>1, CleanupPlans DEF Plan
  <2>2. Head(p) # "UpdateClientJwks"
    BY <2>1 DEF CleanupTodo
  <2> QED
    BY <1>1, <2>1, <2>2
<1>2. CASE ~deleting /\ content = Null
  <2>1. p \in {CreateCommands, RecoverCommands}
    BY <1>2 DEF Plan
  <2> QED
    BY <1>2, <2>1 DEF LiveTodo
<1>3. CASE ~deleting /\ content # Null
  <2>1. p \in LiveTodo /\ Head(p) # "UpdateClientJwks"
    <3> DEFINE due == RotationDue(content.jwks, left)
    <3>1. due \in BOOLEAN
      BY DEF RotationDue
    <3>2. client # Null
      BY <1>3
    <3>3. p = SteadyCommands(scopes, client, content, url, due)
      BY <1>3, <3>2 DEF Plan
    <3> HIDE DEF due
    <3> QED
      BY <3>1, <3>3, SteadyPlans
  <2>2. p # <<"DeleteClientInApi">>
    BY <2>1 DEF LiveTodo, CreateCommands, RecoverCommands
  <2> QED
    BY <1>3, <2>1, <2>2
<1> QED
  BY <1>1, <1>2, <1>3

\* What is left of a plan for a live resource is one of the plans; keys come after
\* the document that holds them.
LEMMA LiveTail ==
    ASSUME NEW p \in LiveTodo, NEW t, t = Tail(p), t # <<>>
    PROVE  /\ t \in LiveTodo
           /\ Head(t) = "UpdateClientJwks" => Head(p) = "UpdateSecretContent"
<1> DEFINE S == "UpdateSecretContent"
           J == "UpdateClientJwks"
           C == "UpdateClientScopes"
<1>1. \/ p = <<"CreateClientInApi", S>> \/ p = <<J, S>>
      \/ p = <<S>> \/ p = <<J>> \/ p = <<C>>
      \/ p = <<S, J>> \/ p = <<S, C>> \/ p = <<J, C>> \/ p = <<S, J, C>>
  BY DEF LiveTodo, CreateCommands, RecoverCommands
<1>2. t = <<S>> \/ t = <<C>> => t \in LiveTodo /\ Head(t) # J
  <2>1. <<S>> \in LiveTodo /\ <<C>> \in LiveTodo
    BY DEF LiveTodo
  <2>2. Head(<<S>>) = S /\ Head(<<C>>) = C
    OBVIOUS
  <2> QED
    BY <2>1, <2>2
<1>3. t = <<J>> \/ t = <<J, C>> => t \in LiveTodo
  BY DEF LiveTodo
<1>4. CASE p = <<"CreateClientInApi", S>>
  <2>1. t = <<S>>
    BY <1>4
  <2> QED
    BY <1>2, <2>1
<1>5. CASE p = <<J, S>>
  <2>1. t = <<S>>
    BY <1>5
  <2> QED
    BY <1>2, <2>1
<1>6. CASE p = <<S>> \/ p = <<J>> \/ p = <<C>>
  <2>1. \A c : Tail(<<c>>) = <<>>
    OBVIOUS
  <2> QED
    BY <1>6, <2>1
<1>7. CASE p = <<S, C>>
  <2>1. t = <<C>>
    BY <1>7
  <2> QED
    BY <1>2, <2>1
<1>8. CASE p = <<J, C>>
  <2>1. t = <<C>>
    BY <1>8
  <2> QED
    BY <1>2, <2>1
<1>9. CASE p = <<S, J>>
  <2>1. t = <<J>> /\ Head(p) = S
    BY <1>9
  <2> QED
    BY <1>3, <2>1
<1>10. CASE p = <<S, J, C>>
  <2>1. t = <<J, C>> /\ Head(p) = S
    BY <1>10
  <2> QED
    BY <1>3, <2>1
<1> QED
  BY <1>1, <1>4, <1>5, <1>6, <1>7, <1>8, <1>9, <1>10

\* Live plans clean nothing up, and only one of them creates.
LEMMA LiveHead ==
    ASSUME NEW p \in LiveTodo
    PROVE  /\ p # <<>> /\ p # <<"DeleteClientInApi">>
           /\ Head(p) \notin {"DeleteClientInApi", "DeleteSecretContent"}
           /\ Head(p) = "CreateClientInApi" => p = CreateCommands
  BY DEF LiveTodo, CreateCommands, RecoverCommands

\* A cleanup clears the document, then deletes the client.
LEMMA CleanupSteps ==
    ASSUME NEW p \in CleanupTodo
    PROVE  \/ p = <<"DeleteClientInApi">> /\ Head(p) = "DeleteClientInApi" /\ Tail(p) = <<>>
           \/ /\ Head(p) = "DeleteSecretContent" /\ p # <<"DeleteClientInApi">>
              /\ Tail(p) = <<"DeleteClientInApi">>
<1>1. CASE p = <<"DeleteClientInApi">>
  <2>1. Head(p) = "DeleteClientInApi" /\ Tail(p) = <<>>
    BY <1>1
  <2> QED
    BY <1>1, <2>1
<1>2. CASE p = <<"DeleteSecretContent", "DeleteClientInApi">>
  <2>1. Head(p) = "DeleteSecretContent" /\ Tail(p) = <<"DeleteClientInApi">>
    BY <1>2
  <2>2. p # <<"DeleteClientInApi">>
    BY <1>2
  <2> QED
    BY <2>1, <2>2
<1> QED
  BY <1>1, <1>2 DEF CleanupTodo

-----------------------------------------------------------------------------
(* What a call does to the document *)

USE DEF vars, crVars, secretVars, worldVars, queueVars, localVars, boundVars

\* Others may take the document away; that disturbs no command in flight.
LEMMA DocumentGone ==
    ASSUME Commands, CommandsOnSecret, UNCHANGED localVars,
           secret'.content = secret.content \/ secret'.content = Null
    PROVE  CommandsOnSecret'
<1>1. PlanKnown' /\ ClearedFirst'
  BY DEF CommandsOnSecret, PlanKnown, ClearedFirst, InFlight
<1>2. pc = "postJwks" => target # Null
  BY DEF Commands, PlanComplete, InFlight
<1>3. RegistersWritten'
  BY <1>2 DEF CommandsOnSecret, RegistersWritten, JwksOf, IdOf
<1> QED
  BY <1>1, <1>3 DEF CommandsOnSecret

\* When no command is in flight there is nothing to keep.
LEMMA NoCommandsOnSecret ==
    ASSUME pc' \notin {"exec", "postJwks", "status"}
    PROVE  CommandsOnSecret'
  BY DEF CommandsOnSecret, PlanKnown, ClearedFirst, RegistersWritten, InFlight

\* Without lag a plan starts from the document as it is.
LEMMA PlannedOnSecret ==
    ASSUME IInv, SecretCopyCurrent, "lag" \notin Adversity, FetchCurrentState
    PROVE  CommandsOnSecret'
<1> DEFINE content == secret.content
<1>1. secretCache = secret
  BY DEF FetchCurrentState, CanRead, SecretCopyCurrent
<1>2. PICK client \in MatchingClients(content) :
         LET commands == Plan(instance.deleting, instance.scopes, client, content,
                              authority, remaining)
         IN \/ Return(FALSE)
            \/ commands # <<>> /\ pc' = "exec" /\ todo' = commands /\ UNCHANGED instance
  BY <1>1 DEF FetchCurrentState, NoActions
<1>3. UNCHANGED secret
  BY DEF FetchCurrentState
<1>4. CASE Return(FALSE)
  BY <1>4, NoCommandsOnSecret DEF Return, Forget
<1>5. CASE ~Return(FALSE)
  <2> DEFINE p == Plan(instance.deleting, instance.scopes, client, content,
                       authority, remaining)
  <2>1. p # <<>> /\ pc' = "exec" /\ todo' = p /\ UNCHANGED instance
    BY <1>2, <1>5
  <2>2. client = Null => content = Null
    <3>1. clients \subseteq Client
      BY DEF IInv, TypeOK
    <3> QED
      BY <3>1, NullAssumption DEF MatchingClients
  <2>3. instance.deleting \in BOOLEAN
    BY DEF IInv, TypeOK, WorkerTypeOK, Resource
  <2>4. /\ p \in IF instance.deleting THEN CleanupTodo ELSE LiveTodo
        /\ p = <<"DeleteClientInApi">> => content = Null
        /\ Head(p) = "UpdateClientJwks" => content = Null
    BY <2>1, <2>2, <2>3, PlanCases
  <2> HIDE DEF p
  <2>5. PlanKnown' /\ ClearedFirst'
    BY <1>3, <2>1, <2>4 DEF PlanKnown, ClearedFirst
  <2>6. RegistersWritten'
    BY <1>3, <2>1, <2>4 DEF RegistersWritten, JwksOf
  <2> QED
    BY <2>5, <2>6 DEF CommandsOnSecret
<1> QED
  BY <1>4, <1>5

\* A client that was just made has an id no document has.
LEMMA CreatedOnSecret ==
    ASSUME IInv, CommandsOnSecret, CreateClientInApi
    PROVE  CommandsOnSecret'
<1>1. CASE Aborted
  BY <1>1, NoCommandsOnSecret DEF Aborted
<1>2. CASE ~Aborted
  <2>1. /\ pc = "exec" /\ Head(todo) = "CreateClientInApi"
        /\ pc' = "postJwks" /\ target' \notin UsedIds
        /\ UNCHANGED <<todo, instance, secret>>
    BY <1>2 DEF CreateClientInApi, Executing
  <2>2. ~instance.deleting
    BY CreationAddsOne
  <2>3. todo \in LiveTodo /\ todo = CreateCommands
    BY <2>1, <2>2, LiveHead DEF CommandsOnSecret, PlanKnown, InFlight
  <2>4. PlanKnown' /\ ClearedFirst'
    BY <2>1, <2>2, <2>3 DEF PlanKnown, ClearedFirst
  <2>5. RegistersWritten'
    BY <2>1 DEF RegistersWritten, UsedIds
  <2> QED
    BY <2>4, <2>5 DEF CommandsOnSecret
<1> QED
  BY <1>1, <1>2

\* The writes of the loop, one after the other.
LEMMA WritesOnSecret ==
    ASSUME IInv, CommandsOnSecret,
           \/ PostClientJwks \/ UpdateClientJwks \/ UpdateClientScopes
           \/ DeleteClientInApi \/ UpdateSecretContent \/ DeleteSecretContent
    PROVE  CommandsOnSecret'
<1>1. CASE Aborted
  BY <1>1, NoCommandsOnSecret DEF Aborted
<1>2. CASE ~Aborted
  <2> DEFINE rest == Tail(todo)
  <2>1. Executed /\ InFlight /\ UNCHANGED <<instance, jwks, target>>
    BY <1>2, WritesAreCommands DEF InFlight
  <2>2. todo' = rest /\ pc' = IF rest = <<>> THEN "status" ELSE "exec"
    BY <2>1 DEF Executed
  <2>3. /\ pc = "exec" /\ Head(todo) = "UpdateSecretContent" => UpdateSecretContent
        /\ pc = "exec" /\ Head(todo) = "DeleteSecretContent" => DeleteSecretContent
        /\ pc = "exec" /\ Head(todo) = "DeleteClientInApi" => DeleteClientInApi
    BY DEF PostClientJwks, UpdateClientJwks, UpdateClientScopes,
       DeleteClientInApi, UpdateSecretContent, DeleteSecretContent, Executing
  <2>4. CASE ~instance.deleting
    <3>1. todo \in LiveTodo
      BY <2>1, <2>4 DEF CommandsOnSecret, PlanKnown
    <3>2. rest # <<>> => rest \in LiveTodo
                         /\ (Head(rest) = "UpdateClientJwks" => Head(todo) = "UpdateSecretContent")
      BY <3>1, LiveTail
    <3> HIDE DEF rest
    <3>3. PlanKnown' /\ ClearedFirst'
      <4>1. rest # <<"DeleteClientInApi">>
        BY <3>2, LiveHead
      <4> QED
        BY <2>1, <2>2, <2>4, <3>2, <4>1 DEF PlanKnown, ClearedFirst, InFlight
    <3>4. RegistersWritten'
      <4> SUFFICES ASSUME pc' = "exec", Head(todo') = "UpdateClientJwks"
                   PROVE  JwksOf(secret'.content) \subseteq Range(jwks')
        BY <2>2 DEF RegistersWritten
      <4>1. Head(todo) = "UpdateSecretContent"
        BY <2>2, <3>2
      <4>2. pc = "exec"
        <5>1. pc = "postJwks" => Head(todo) = "CreateClientInApi"
          BY DEF CommandsOnSecret, PlanKnown, CreateCommands
        <5> QED
          BY <2>1, <4>1, <5>1 DEF InFlight
      <4>3. secret' = [secret EXCEPT !.content =
                         [clientId |-> target, authority |-> authority, jwks |-> jwks]]
        BY <1>2, <2>3, <4>1, <4>2 DEF UpdateSecretContent, WriteSecret, Call
      <4>4. secret \in Secret
        BY DEF IInv, TypeOK, SecretTypeOK
      <4>5. JwksOf(secret'.content) \subseteq Range(jwks)
        BY <4>3, <4>4 DEF JwksOf, Secret
      <4> QED
        BY <2>1, <4>5
    <3> QED
      BY <3>3, <3>4 DEF CommandsOnSecret
  <2>5. CASE instance.deleting
    <3>1. todo \in CleanupTodo /\ pc = "exec"
      BY <2>1, <2>5 DEF CommandsOnSecret, PlanKnown, IInv, Commands, PostsForNew, InFlight
    <3>2. CASE todo = <<"DeleteClientInApi">>
      <4>1. Head(todo) = "DeleteClientInApi" /\ rest = <<>>
        BY <3>2
      <4>2. UNCHANGED secret
        BY <2>3, <3>1, <4>1 DEF DeleteClientInApi, WriteClient
      <4>3. secret.content = Null
        BY <3>1, <3>2 DEF CommandsOnSecret, ClearedFirst
      <4> QED
        BY <2>2, <4>1, <4>2, <4>3 DEF CommandsOnSecret, PlanKnown, ClearedFirst,
           RegistersWritten, InFlight
    <3>3. CASE todo # <<"DeleteClientInApi">>
      <4>1. Head(todo) = "DeleteSecretContent" /\ rest = <<"DeleteClientInApi">>
        BY <3>1, <3>3, CleanupSteps
      <4>2. secret' = [secret EXCEPT !.content = Null] /\ secret \in Secret
        BY <1>2, <2>3, <3>1, <4>1 DEF DeleteSecretContent, WriteSecret, Call,
           IInv, TypeOK, SecretTypeOK
      <4>3. secret'.content = Null
        BY <4>2 DEF Secret
      <4>4. todo' = <<"DeleteClientInApi">> /\ pc' = "exec"
        BY <2>2, <4>1
      <4>5. todo' \in CleanupTodo /\ Head(todo') # "UpdateClientJwks"
        BY <4>4 DEF CleanupTodo
      <4> QED
        BY <2>1, <2>5, <4>3, <4>4, <4>5 DEF CommandsOnSecret, PlanKnown, ClearedFirst,
           RegistersWritten
    <3> QED
      BY <3>2, <3>3
  <2> QED
    BY <2>4, <2>5
<1> QED
  BY <1>1, <1>2

\* The copy fetchCurrentState lists is the secret, or known to be old.
LEMMA SecretCopyKept ==
    ASSUME SecretCopyCurrent, [Next]_vars
    PROVE  SecretCopyCurrent'
<1> USE DEF SecretCopyCurrent
<1>1. CASE UNCHANGED secretVars
  BY <1>1
<1>2. CASE DeployApp \/ UndeployApp \/ TouchSecret
  BY <1>2 DEF DeployApp, UndeployApp, TouchSecret
<1>3. CASE SyncSecret \/ Restart
  BY <1>3 DEF SyncSecret, Restart
<1>4. CASE FetchCurrentState \/ UpdateStatus \/ UpdateStatusWithError
  BY <1>4 DEF FetchCurrentState, UpdateStatus, UpdateStatusWithError, DropManifest
<1>5. CASE UpdateSecretContent \/ DeleteSecretContent
  BY <1>5 DEF UpdateSecretContent, DeleteSecretContent, WriteSecret, Call
<1> QED
  BY <1>1, <1>2, <1>3, <1>4, <1>5 DEF Next, Environment, Informers, Reconcile,
     CreateResource, EditScopes, TouchResource, DeleteResource, DeleteClientExternally, Tick,
     SyncResource, Resync, TimerFires, LoadInstance, RecordFinalizer, FetchFails,
     CreateClientInApi, PostClientJwks, UpdateClientJwks, UpdateClientScopes,
     DeleteClientInApi, WriteClient

\* Only an object that is there has a finalizer.
LEMMA FinalizerHeldKept ==
    ASSUME IInv, FinalizerHeld, [Next]_vars
    PROVE  FinalizerHeld'
<1> USE DEF FinalizerHeld
<1>0. /\ cr \in Resource /\ ~NoResource.exists /\ ~NoResource.finalizer
      /\ NoResource \in Resource
  BY NoResourceType DEF IInv, TypeOK, ResourceTypeOK, NoResource
<1>1. CASE UNCHANGED cr
  BY <1>1
<1>2. ASSUME NEW s \in Scopes, CreateResource(s) \/ EditScopes(s)
      PROVE  FinalizerHeld'
  <2>1. CASE CreateResource(s)
    <3>1. cr' = [NoResource EXCEPT !.exists = TRUE, !.generation = 1, !.scopes = s]
      BY <2>1 DEF CreateResource, WriteObserved
    <3> QED
      BY <1>0, <3>1 DEF Resource
  <2>2. CASE EditScopes(s)
    <3>1. cr' = [cr EXCEPT !.scopes = s, !.generation = @ + 1]
      BY <2>2 DEF EditScopes, WriteObserved
    <3>2. cr'.exists = cr.exists /\ cr'.finalizer = cr.finalizer
      BY <1>0, <3>1 DEF Resource
    <3> QED
      BY <3>2
  <2> QED
    BY <1>2, <2>1, <2>2
<1>3. CASE DeleteResource
  <2>1. \/ cr' = [cr EXCEPT !.deleting = TRUE, !.generation = @ + 1]
        \/ cr' = NoResource
    BY <1>3 DEF DeleteResource, WriteObserved
  <2>2. (cr'.exists = cr.exists /\ cr'.finalizer = cr.finalizer) \/ cr' = NoResource
    BY <1>0, <2>1 DEF Resource
  <2> QED
    BY <1>0, <2>2
<1>4. CASE RecordFinalizer
  <2>1. cr' = cr \/ ("instance" \in crFresh /\ cr' = [cr EXCEPT !.finalizer = TRUE])
    BY <1>4 DEF RecordFinalizer, ResourceWriteAccepted, KeepResource
  <2>2. "instance" \in crFresh => cr.exists
    BY <1>4 DEF RecordFinalizer, IInv, Copies, CopiesCurrent, ResourceShape
  <2> QED
    BY <1>0, <2>1, <2>2 DEF Resource
<1>5. CASE UpdateStatus \/ UpdateStatusWithError
  <2>1. cr' = cr \/ cr' = NoResource \/ \E st : cr' = [cr EXCEPT !.status = st]
    BY <1>5 DEF UpdateStatus, UpdateStatusWithError, ReportSuccess, KeepResource
  <2>2. (cr'.exists = cr.exists /\ cr'.finalizer = cr.finalizer) \/ cr' = NoResource
    BY <1>0, <2>1 DEF Resource
  <2> QED
    BY <1>0, <2>2
<1> QED
  BY <1>1, <1>2, <1>3, <1>4, <1>5 DEF Next, Environment, Informers, Reconcile,
     TouchResource, DeployApp, UndeployApp, TouchSecret, DeleteClientExternally, Tick,
     SyncResource, Resync, SyncSecret, TimerFires, Restart, LoadInstance,
     FetchCurrentState, FetchFails, KeepResource, CreateClientInApi, PostClientJwks,
     UpdateClientJwks, UpdateClientScopes, DeleteClientInApi, WriteClient,
     UpdateSecretContent, DeleteSecretContent, WriteSecret

-----------------------------------------------------------------------------
(* The theorems *)

\* The invariant about the document is inductive, given that of the clients.
LEMMA SecretInvKept ==
    ASSUME IInv, SecretInv, "lag" \notin Adversity, [Next]_vars
    PROVE  SecretInv'
<1>0. Commands /\ CommandsOnSecret /\ secret \in Secret
  BY DEF IInv, SecretInv, TypeOK, SecretTypeOK
<1>1. SecretCopyCurrent' /\ FinalizerHeld'
  BY SecretCopyKept, FinalizerHeldKept DEF SecretInv
<1>2. CASE \/ \E s \in Scopes : CreateResource(s) \/ EditScopes(s)
           \/ TouchResource \/ DeleteResource \/ DeployApp \/ UndeployApp \/ TouchSecret
           \/ \E c \in clients : DeleteClientExternally(c)
           \/ Tick \/ SyncResource \/ Resync \/ SyncSecret \/ TimerFires
           \/ UNCHANGED vars
  <2>1. UNCHANGED localVars
    BY <1>2 DEF CreateResource, EditScopes, TouchResource, DeleteResource, DeployApp,
       UndeployApp, TouchSecret, DeleteClientExternally, Tick, SyncResource, Resync,
       SyncSecret, TimerFires
  <2>2. secret'.content = secret.content \/ secret'.content = Null
    <3>1. CASE DeployApp \/ UndeployApp
      BY <3>1 DEF DeployApp, UndeployApp, NoSecret
    <3>2. CASE ~DeployApp /\ ~UndeployApp
      BY <1>2, <3>2 DEF CreateResource, EditScopes, TouchResource, DeleteResource,
         TouchSecret, DeleteClientExternally, Tick, SyncResource, Resync, SyncSecret,
         TimerFires
    <3> QED
      BY <3>1, <3>2
  <2>3. CommandsOnSecret'
    BY <1>0, <2>1, <2>2, DocumentGone
  <2> QED
    BY <1>1, <2>3 DEF SecretInv
<1>3. CASE \/ Restart \/ RecordFinalizer \/ FetchFails \/ LoadInstance
           \/ UpdateStatus \/ UpdateStatusWithError
  <2>1. pc' \notin {"exec", "postJwks", "status"}
    BY <1>3 DEF Restart, RecordFinalizer, FetchFails, LoadInstance, UpdateStatus,
       UpdateStatusWithError, Return, Forget
  <2> QED
    BY <1>1, <2>1, NoCommandsOnSecret DEF SecretInv
<1>4. CASE FetchCurrentState
  BY <1>1, <1>4, PlannedOnSecret DEF SecretInv
<1>5. CASE CreateClientInApi
  BY <1>0, <1>1, <1>5, CreatedOnSecret DEF SecretInv
<1>6. CASE \/ PostClientJwks \/ UpdateClientJwks \/ UpdateClientScopes
           \/ DeleteClientInApi \/ UpdateSecretContent \/ DeleteSecretContent
  BY <1>0, <1>1, <1>6, WritesOnSecret DEF SecretInv
<1> QED
  BY <1>2, <1>3, <1>4, <1>5, <1>6 DEF Next, Environment, Informers, Reconcile

\* At the start there is no document and no call.
LEMMA SecretInvInit == Init => SecretInv
  BY DEF Init, SecretInv, SecretCopyCurrent, CommandsOnSecret, PlanKnown, ClearedFirst,
     RegistersWritten, InFlight, FinalizerHeld, NoResource

\* The invariant about the document holds in every reachable state, if the caches the
\* controller reads have caught up.
LEMMA SecretInvariance ==
    ASSUME "lag" \notin Adversity
    PROVE  Spec => [](IInv /\ SecretInv)
<1>1. Init => IInv /\ SecretInv
  BY InitInvariant, SecretInvInit
<1>2. IInv /\ SecretInv /\ [Next]_vars => (IInv /\ SecretInv)'
  BY NextInvariant, SecretInvKept
<1> QED
  BY <1>1, <1>2, PTL DEF Spec

\* Without lag: the plan in flight is one of those the planner makes, a cleanup goes on
\* to the client only when the document is gone, and keys are registered only when the
\* document holds no others.
THEOREM DocumentInvariance ==
    ASSUME "lag" \notin Adversity
    PROVE  Spec => []SecretInv
<1>1. IInv /\ SecretInv => SecretInv
  OBVIOUS
<1> QED
  BY <1>1, SecretInvariance, PTL

\* A step that takes the finalizer away leaves nothing behind.
LEMMA StepReleasesClean ==
    ASSUME IInv, SecretInv, [Next]_vars, cr.finalizer, ~cr'.finalizer
    PROVE  clients = {} /\ secret.content = Null
<1>1. Held /\ ~Held'
  BY DEF Held, SecretInv, FinalizerHeld
<1>2. UpdateStatus
  BY <1>1, HoldKept
<1>3. clients = {}
  BY <1>1, <1>2, StatusReleases
<1>4. instance.deleting /\ pc = "status"
  <2>1. cr \in Resource
    BY DEF IInv, TypeOK, ResourceTypeOK
  <2>2. ~instance.deleting => \/ cr' = cr
                              \/ \E st : cr' = [cr EXCEPT !.status = st]
    BY <1>2 DEF UpdateStatus, ReportSuccess, KeepResource
  <2>3. ~instance.deleting => cr'.finalizer = cr.finalizer
    BY <2>1, <2>2 DEF Resource
  <2> QED
    BY <1>2, <2>3 DEF UpdateStatus
<1>5. secret.content = Null
  BY <1>4 DEF SecretInv, CommandsOnSecret, ClearedFirst
<1> QED
  BY <1>3, <1>5

\* When the finalizer goes, neither a client nor credentials are left, whatever
\* fails and whoever interferes, unless the cleanup was planned from a stale secret:
\* a cleanup clears the document before it deletes the client, and the status comes
\* last.
THEOREM ReleasesClean ==
    ASSUME "lag" \notin Adversity
    PROVE  Spec => ReleasedClean
<1>1. IInv /\ SecretInv /\ [Next]_vars
        => [cr.finalizer /\ ~cr'.finalizer => clients = {} /\ secret.content = Null]_vars
  BY StepReleasesClean
<1> QED
  BY <1>1, SecretInvariance, PTL DEF Spec, ReleasedClean

\* Registering keys covers the document of the client it is for.
LEMMA StepCoversSecret ==
    ASSUME IInv, SecretInv, [Next]_vars,
           NEW c \in clients, NEW d \in clients',
           c.id = d.id, c.keys # d.keys, IdOf(secret.content) = c.id
    PROVE  JwksOf(secret.content) \subseteq d.keys
<1>0. clients \subseteq Client /\ \A b \in clients : b = c
  BY DEF IInv, TypeOK, AtMostOneClient
<1>1. CASE clients' \subseteq clients
  BY <1>0, <1>1
<1>2. CASE CreateClientInApi
  BY <1>2, CreationAddsOne
<1>3. CASE UpdateClientScopes
  <2>1. clients' = clients \/ clients' = WithScopes
    BY <1>3 DEF UpdateClientScopes, WriteClient, Call
  <2>2. \A b \in WithScopes : \E e \in clients : b.keys = e.keys
    BY <1>0 DEF WithScopes, Client
  <2> QED
    BY <1>0, <2>1, <2>2
<1>4. CASE PostClientJwks \/ UpdateClientJwks
  <2>1. clients' = clients \/ clients' = WithKeys
    BY <1>4 DEF PostClientJwks, UpdateClientJwks, WriteClient, Call
  <2>2. d = IF c.id = target THEN [c EXCEPT !.keys = ToPublic(jwks)] ELSE c
    BY <1>0, <2>1 DEF WithKeys
  <2>3. c.id = target /\ d.keys = Range(jwks)
    BY <1>0, <2>2 DEF Client, ToPublic
  <2>4. UpdateClientJwks
    BY <1>4, <2>3 DEF PostClientJwks, SecretInv, CommandsOnSecret, RegistersWritten
  <2>5. JwksOf(secret.content) \subseteq Range(jwks)
    BY <2>4 DEF UpdateClientJwks, Executing, SecretInv, CommandsOnSecret, RegistersWritten
  <2> QED
    BY <2>3, <2>5
<1>5. CASE DeleteClientInApi \/ UpdateSecretContent \/ DeleteSecretContent
  BY <1>1, <1>5 DEF DeleteClientInApi, UpdateSecretContent, DeleteSecretContent, WriteClient,
     WriteSecret, Call
<1> QED
  BY <1>1, <1>2, <1>3, <1>4, <1>5, OtherSteps

\* The keys of a client are replaced only by sets that hold every key of the document
\* the app reads, unless the replacement was planned from a stale secret: a rotation
\* writes the document first, and keys that are registered first belong to a client
\* no document names.
THEOREM UploadsCover ==
    ASSUME "lag" \notin Adversity
    PROVE  Spec => UploadCoversSecret
<1> DEFINE Covers == \A c \in clients : \A d \in clients' :
                        /\ c.id = d.id /\ c.keys # d.keys
                        /\ IdOf(secret.content) = c.id
                        => JwksOf(secret.content) \subseteq d.keys
<1>1. IInv /\ SecretInv /\ [Next]_vars => [Covers]_vars
  BY StepCoversSecret
<1> QED
  BY <1>1, SecretInvariance, PTL DEF Spec, UploadCoversSecret

\* The document goes on naming its client as long as nobody touches either.
LEMMA NamedFrame ==
    ASSUME ClientNamed, UNCHANGED clients,
           UNCHANGED <<pc, target>> \/ pc' \notin {"exec", "postJwks"},
           secret' = secret \/ secret'.content = Null
    PROVE  ClientNamed'
<1>1. LiveIds' = LiveIds
  BY DEF LiveIds
<1>2. TargetLive'
  BY <1>1 DEF ClientNamed, TargetLive, InFlight
<1>3. SecretNamesLiveClient'
  BY <1>1 DEF ClientNamed, SecretNamesLiveClient
<1> QED
  BY <1>2, <1>3 DEF ClientNamed

\* A call that is planned works on a client it has found.
LEMMA NamedPlanned ==
    ASSUME ClientNamed, FetchCurrentState
    PROVE  ClientNamed'
<1>1. UNCHANGED <<clients, secret>>
  BY DEF FetchCurrentState
<1>2. PICK client \in MatchingClients(secretCache.content) :
         pc' = "idle" \/ target' = IF client = Null THEN Null ELSE client.id
  BY DEF FetchCurrentState, Return, Forget
<1>3. client = Null \/ client \in clients
  BY <1>2 DEF MatchingClients
<1>4. TargetLive'
  BY <1>1, <1>2, <1>3 DEF TargetLive, InFlight, LiveIds
<1>5. SecretNamesLiveClient'
  BY <1>1 DEF ClientNamed, SecretNamesLiveClient, LiveIds
<1> QED
  BY <1>4, <1>5 DEF ClientNamed

\* A client is made when there is none, so that there is no document either.
LEMMA NamedCreated ==
    ASSUME IInv, ClientNamed, CreateClientInApi
    PROVE  ClientNamed'
<1>1. clients = {} /\ secret' = secret
  BY CreationAddsOne DEF CreateClientInApi
<1>2. secret.content = Null
  BY <1>1 DEF ClientNamed, SecretNamesLiveClient, LiveIds
<1>3. SecretNamesLiveClient'
  BY <1>1, <1>2 DEF SecretNamesLiveClient
<1>4. TargetLive'
  <2>1. CASE Aborted
    BY <2>1 DEF Aborted, TargetLive, InFlight
  <2>2. CASE ~Aborted
    <3>1. PICK id \in ClientId :
             /\ clients' = clients \cup
                             {[id |-> id, scopes |-> instance.scopes, keys |-> {}]}
             /\ target' = id
      BY <2>2 DEF CreateClientInApi
    <3> DEFINE new == [id |-> id, scopes |-> instance.scopes, keys |-> {}]
    <3>2. new \in clients' /\ new.id = target'
      BY <3>1
    <3> HIDE DEF new
    <3> QED
      BY <3>2 DEF TargetLive, LiveIds
  <2> QED
    BY <2>1, <2>2
<1> QED
  BY <1>3, <1>4 DEF ClientNamed

\* The document is written for a client that is there, and the client that goes has
\* no document any more.
LEMMA NamedWritten ==
    ASSUME IInv, SecretInv, ClientNamed,
           \/ PostClientJwks \/ UpdateClientJwks \/ UpdateClientScopes
           \/ DeleteClientInApi \/ UpdateSecretContent \/ DeleteSecretContent
    PROVE  ClientNamed'
<1>0. secret \in Secret /\ CommandsOnSecret /\ Commands
  BY DEF IInv, TypeOK, SecretTypeOK, SecretInv
<1>1. InFlight /\ UNCHANGED target /\ (Executed \/ Aborted)
  BY WritesAreCommands DEF InFlight
<1>2. CASE DeleteClientInApi
  <2>1. pc = "exec" /\ Head(todo) = "DeleteClientInApi" /\ UNCHANGED secret
    BY <1>2 DEF DeleteClientInApi, Executing, WriteClient
  <2>2. todo \in CleanupTodo
    BY <1>0, <1>1, <2>1, LiveHead DEF CommandsOnSecret, PlanKnown
  <2>3. todo = <<"DeleteClientInApi">> /\ Tail(todo) = <<>>
    BY <2>1, <2>2, CleanupSteps
  <2>4. secret'.content = Null
    BY <1>0, <2>1, <2>3 DEF CommandsOnSecret, ClearedFirst
  <2>5. pc' \notin {"exec", "postJwks"}
    BY <1>1, <2>3 DEF Executed, Aborted
  <2> QED
    BY <2>4, <2>5 DEF ClientNamed, TargetLive, InFlight, SecretNamesLiveClient
<1>3. CASE ~DeleteClientInApi
  <2>1. LiveIds' = LiveIds
    BY <1>3, WritesToClients DEF LiveIds
  <2>2. TargetLive'
    BY <1>1, <2>1 DEF ClientNamed, TargetLive
  <2>3. SecretNamesLiveClient'
    <3>1. CASE UpdateSecretContent
      <4>1. target # Null
        BY <1>0, <3>1 DEF UpdateSecretContent, Executing, Commands, PlanComplete, InFlight
      <4>2. target \in LiveIds
        BY <1>1, <4>1 DEF ClientNamed, TargetLive
      <4>3. \/ secret' = secret
            \/ secret' = [secret EXCEPT !.content =
                            [clientId |-> target, authority |-> authority, jwks |-> jwks]]
        BY <3>1 DEF UpdateSecretContent, WriteSecret, Call
      <4>4. secret' = secret \/ secret'.content.clientId = target
        BY <1>0, <4>3 DEF Secret
      <4> QED
        BY <2>1, <4>2, <4>4 DEF ClientNamed, SecretNamesLiveClient, IdOf
    <3>2. CASE ~UpdateSecretContent
      <4>1. secret' = secret \/ secret' = [secret EXCEPT !.content = Null]
        BY <1>3, <3>2 DEF PostClientJwks, UpdateClientJwks, UpdateClientScopes, WriteClient,
           DeleteSecretContent, WriteSecret, Call
      <4>2. secret' = secret \/ secret'.content = Null
        BY <1>0, <4>1 DEF Secret
      <4> QED
        BY <2>1, <4>2 DEF ClientNamed, SecretNamesLiveClient
    <3> QED
      BY <3>1, <3>2
  <2> QED
    BY <2>2, <2>3 DEF ClientNamed
<1> QED
  BY <1>2, <1>3

\* Every step of the loop and of its world, if nobody else deletes clients.
LEMMA NamedKept ==
    ASSUME IInv, SecretInv, ClientNamed, "externalDelete" \notin Adversity, [Next]_vars
    PROVE  ClientNamed'
<1>1. CASE \/ \E s \in Scopes : CreateResource(s) \/ EditScopes(s)
           \/ TouchResource \/ DeleteResource \/ DeployApp \/ UndeployApp \/ TouchSecret
           \/ Tick \/ SyncResource \/ Resync \/ SyncSecret \/ TimerFires
           \/ UNCHANGED vars
  <2>1. UNCHANGED <<pc, target, clients>>
    BY <1>1 DEF CreateResource, EditScopes, TouchResource, DeleteResource, DeployApp,
       UndeployApp, TouchSecret, Tick, SyncResource, Resync, SyncSecret, TimerFires
  <2>2. secret' = secret \/ secret'.content = Null
    <3>1. CASE DeployApp \/ UndeployApp
      BY <3>1 DEF DeployApp, UndeployApp, NoSecret
    <3>2. CASE ~DeployApp /\ ~UndeployApp
      BY <1>1, <3>2 DEF CreateResource, EditScopes, TouchResource, DeleteResource,
         TouchSecret, Tick, SyncResource, Resync, SyncSecret, TimerFires
    <3> QED
      BY <3>1, <3>2
  <2> QED
    BY <2>1, <2>2, NamedFrame
<1>2. CASE \E c \in clients : DeleteClientExternally(c)
  BY <1>2 DEF DeleteClientExternally, Disruption
<1>3. CASE \/ Restart \/ RecordFinalizer \/ FetchFails \/ LoadInstance
           \/ UpdateStatus \/ UpdateStatusWithError
  <2>1. pc' \notin {"exec", "postJwks"} /\ UNCHANGED <<clients, secret>>
    BY <1>3 DEF Restart, RecordFinalizer, FetchFails, LoadInstance, UpdateStatus,
       UpdateStatusWithError, Return, Forget
  <2> QED
    BY <2>1, NamedFrame
<1>4. CASE FetchCurrentState
  BY <1>4, NamedPlanned
<1>5. CASE CreateClientInApi
  BY <1>5, NamedCreated
<1>6. CASE \/ PostClientJwks \/ UpdateClientJwks \/ UpdateClientScopes
           \/ DeleteClientInApi \/ UpdateSecretContent \/ DeleteSecretContent
  BY <1>6, NamedWritten
<1> QED
  BY <1>1, <1>2, <1>3, <1>4, <1>5, <1>6 DEF Next, Environment, Informers, Reconcile

\* The document the app reads names a client that is registered, whatever fails and
\* however often the call is retried, unless the plan came from a stale secret or
\* someone else deletes clients: the document is written after the client is made,
\* and cleared before the client is deleted.
THEOREM DocumentNamesClient ==
    ASSUME "lag" \notin Adversity, "externalDelete" \notin Adversity
    PROVE  Spec => []SecretNamesLiveClient
<1>1. Init => IInv /\ SecretInv /\ ClientNamed
  <2>1. Init => ClientNamed
    BY DEF Init, ClientNamed, TargetLive, InFlight, SecretNamesLiveClient, NoSecret
  <2> QED
    BY <2>1, InitInvariant, SecretInvInit
<1>2. IInv /\ SecretInv /\ ClientNamed /\ [Next]_vars
        => (IInv /\ SecretInv /\ ClientNamed)'
  BY NextInvariant, SecretInvKept, NamedKept
<1>3. ClientNamed => SecretNamesLiveClient
  BY DEF ClientNamed
<1> QED
  BY <1>1, <1>2, <1>3, PTL DEF Spec

-----------------------------------------------------------------------------
(* The order of the keys *)

\* A key set begins with a key, and has one or two.
LEMMA KeySetShape ==
    ASSUME NEW s \in JwksType
    PROVE  /\ 1 \in DOMAIN s /\ DOMAIN s \subseteq {1, 2}
           /\ \A i \in DOMAIN s : s[i] \in Key
           /\ s[1] \in Key
<1>1. CASE \E k \in Key : s = <<k>>
  BY <1>1
<1>2. CASE \E k, l \in Key : s = <<k, l>>
  BY <1>2
<1> QED
  BY <1>1, <1>2 DEF JwksType

\* With the newest key in front, RotateIfNeeded's loop stops at the first.
LEMMA ActiveIsFirst ==
    ASSUME NEW s \in JwksType, NewestFirst(s), remaining \in Lifetimes
    PROVE  ActiveKey(s, remaining) = s[1]
<1>1. /\ 1 \in DOMAIN s /\ DOMAIN s \subseteq {1, 2}
      /\ \A i \in DOMAIN s : remaining[s[i]] \in Int
  BY KeySetShape, LifetimeAssumption DEF Lifetimes
<1>2. EndsLast(s, remaining, 1)
  BY <1>1 DEF EndsLast, NewestFirst
<1>3. \A i \in DOMAIN s : EndsLast(s, remaining, i) => i = 1
  <2> SUFFICES ASSUME NEW i \in DOMAIN s, EndsLast(s, remaining, i), i # 1
               PROVE  FALSE
    OBVIOUS
  <2>1. 1 < i
    BY <1>1
  <2>2. remaining[s[1]] < remaining[s[i]]
    BY <1>1, <2>1 DEF EndsLast
  <2>3. remaining[s[i]] <= remaining[s[1]]
    BY DEF NewestFirst
  <2> QED
    BY <1>1, <2>2, <2>3
<1>4. (CHOOSE i \in DOMAIN s : EndsLast(s, remaining, i)) = 1
  BY <1>1, <1>2, <1>3
<1> QED
  BY <1>4 DEF ActiveKey

\* The clock, and the making of a key, keep the order of keys that are written down.
LEMMA OrderKept ==
    ASSUME remaining \in Lifetimes,
           \/ Tick
           \/ UNCHANGED remaining
           \/ \E k \in Key \ UsedKeys : remaining' = [remaining EXCEPT ![k] = Lifetime],
           NEW s, s = <<>> \/ s \in JwksType, NewestFirst(s), Range(s) \subseteq UsedKeys
    PROVE  \A i \in DOMAIN s : remaining'[s[i]] <= remaining'[s[1]]
<1> SUFFICES ASSUME NEW i \in DOMAIN s
             PROVE  remaining'[s[i]] <= remaining'[s[1]]
  OBVIOUS
<1>1. s \in JwksType
  OBVIOUS
<1>2. s[i] \in UsedKeys /\ s[1] \in UsedKeys /\ s[i] \in Key /\ s[1] \in Key
  BY <1>1, KeySetShape DEF Range
<1>3. remaining[s[i]] \in Nat /\ remaining[s[1]] \in Nat
  BY <1>2, LifetimeAssumption DEF Lifetimes
<1>4. remaining[s[i]] <= remaining[s[1]]
  BY DEF NewestFirst
<1>5. CASE Tick
  <2>1. \A k \in Key : k \in UsedKeys =>
           remaining'[k] = IF remaining[k] = 0 THEN 0 ELSE remaining[k] - 1
    BY <1>5 DEF Tick
  <2> QED
    BY <1>2, <1>3, <1>4, <2>1
<1>6. CASE UNCHANGED remaining
  BY <1>4, <1>6
<1>7. CASE \E k \in Key \ UsedKeys : remaining' = [remaining EXCEPT ![k] = Lifetime]
  BY <1>2, <1>4, <1>7 DEF Lifetimes
<1> QED
  BY <1>5, <1>6, <1>7

\* The keys that are written down, typed and in use.
LEMMA WrittenKeys ==
    ASSUME TypeOK
    PROVE  /\ jwks = <<>> \/ jwks \in JwksType
           /\ Range(jwks) \subseteq UsedKeys
           /\ secret.content # Null => /\ secret.content.jwks \in JwksType
                                       /\ Range(secret.content.jwks) \subseteq UsedKeys
           /\ secretCache.content # Null => /\ secretCache.content.jwks \in JwksType
                                            /\ Range(secretCache.content.jwks) \subseteq UsedKeys
<1>1. /\ secret.content \in Content \cup {Null} /\ secretCache.content \in Content \cup {Null}
      /\ jwks \in JwksType \cup {<<>>}
  BY DEF TypeOK, SecretTypeOK, Secret, WorkerTypeOK
<1>2. /\ secret.content # Null => secret.content.jwks \in JwksType
      /\ secretCache.content # Null => secretCache.content.jwks \in JwksType
  BY <1>1 DEF Content
<1>3. /\ Range(jwks) \subseteq UsedKeys
      /\ JwksOf(secret.content) \subseteq UsedKeys
      /\ JwksOf(secretCache.content) \subseteq UsedKeys
  BY DEF UsedKeys
<1>4. \A content : content # Null => JwksOf(content) = Range(content.jwks)
  BY DEF JwksOf
<1> QED
  BY <1>1, <1>2, <1>3, <1>4

\* A planned key set has its newest key in front: it is new, or the document's.
LEMMA PlannedOrder ==
    ASSUME NEW client, NEW content \in Content \cup {Null},
           content # Null => NewestFirst(content.jwks),
           remaining \in Lifetimes, remaining' \in Lifetimes,
           NEW k, (client = Null \/ content = Null \/ RotationDue(content.jwks, remaining))
                    => k \in Key /\ remaining'[k] = Lifetime,
           ~(client = Null \/ content = Null \/ RotationDue(content.jwks, remaining))
                    => UNCHANGED remaining,
           NEW s, s = PlannedJwks(client, content, remaining, k)
    PROVE  \A i \in DOMAIN s : remaining'[s[i]] <= remaining'[s[1]]
<1> DEFINE active == ActiveKey(content.jwks, remaining)
           fresh == client = Null \/ content = Null
           due == RotationDue(content.jwks, remaining)
<1>1. \A l \in Key : remaining'[l] <= Lifetime /\ remaining'[l] \in Nat
  BY LifetimeAssumption DEF Lifetimes
<1>2. CASE fresh
  <2>1. s = <<k>> /\ k \in Key
    BY <1>2 DEF PlannedJwks, CreateJwks
  <2> QED
    BY <1>1, <2>1
<1>3. CASE ~fresh /\ due
  <2>1. content.jwks \in JwksType
    BY <1>3 DEF Content
  <2>2. active \in Key
    BY <2>1, ActiveKeyInKey
  <2>3. s = <<k, active>>
    BY <1>3 DEF PlannedJwks, Rotated
  <2>4. k \in Key /\ remaining'[k] = Lifetime
    BY <1>3
  <2> HIDE DEF active
  <2>5. DOMAIN s = {1, 2} /\ s[1] = k /\ s[2] = active
    BY <2>3
  <2> QED
    BY <1>1, <2>2, <2>4, <2>5
<1>4. CASE ~fresh /\ ~due
  <2>1. s = content.jwks /\ UNCHANGED remaining
    BY <1>4 DEF PlannedJwks
  <2>2. NewestFirst(s)
    BY <1>4, <2>1
  <2> QED
    BY <2>1, <2>2 DEF NewestFirst
<1> QED
  BY <1>2, <1>3, <1>4

\* A write of the loop keeps the keys it carries, and an update takes them to the
\* document.
LEMMA WritesKeepKeys ==
    ASSUME TypeOK,
           \/ PostClientJwks \/ UpdateClientJwks \/ UpdateClientScopes
           \/ DeleteClientInApi \/ UpdateSecretContent \/ DeleteSecretContent
    PROVE  /\ UNCHANGED <<remaining, secretCache, jwks, instance>>
           /\ UNCHANGED <<secret, secretFresh>> \/ secretFresh' = {}
           /\ \/ secret' = secret
              \/ secret'.content = Null
              \/ secret'.content.jwks = jwks /\ "manifest" \in secretFresh /\ UpdateSecretContent
<1>1. secret \in Secret
  BY DEF TypeOK, SecretTypeOK
<1>2. CASE PostClientJwks \/ UpdateClientJwks \/ UpdateClientScopes \/ DeleteClientInApi
  BY <1>2 DEF PostClientJwks, UpdateClientJwks, UpdateClientScopes, DeleteClientInApi,
     WriteClient
<1>3. CASE DeleteSecretContent
  <2>1. /\ UNCHANGED <<remaining, secretCache, jwks, instance>>
        /\ \/ UNCHANGED <<secret, secretFresh>>
           \/ secretFresh' = {} /\ secret' = [secret EXCEPT !.content = Null]
    BY <1>3 DEF DeleteSecretContent, WriteSecret, Call
  <2>2. [secret EXCEPT !.content = Null].content = Null
    BY <1>1 DEF Secret
  <2> QED
    BY <2>1, <2>2
<1>4. CASE UpdateSecretContent
  <2> DEFINE new == [clientId |-> target, authority |-> authority, jwks |-> jwks]
  <2>1. /\ UNCHANGED <<remaining, secretCache, jwks, instance>>
        /\ \/ UNCHANGED <<secret, secretFresh>>
           \/ /\ secretFresh' = {} /\ secret' = [secret EXCEPT !.content = new]
              /\ "manifest" \in secretFresh
    BY <1>4 DEF UpdateSecretContent, WriteSecret, Call, SecretWriteAccepted
  <2>2. [secret EXCEPT !.content = new].content = new /\ new.jwks = jwks
    BY <1>1 DEF Secret
  <2> HIDE DEF new
  <2> QED
    BY <1>4, <2>1, <2>2
<1> QED
  BY <1>2, <1>3, <1>4

\* What the steps other than planning and the writes of the loop do to the keys.
LEMMA OthersKeepKeys ==
    ASSUME [Next]_vars, ~FetchCurrentState,
           ~(\/ PostClientJwks \/ UpdateClientJwks \/ UpdateClientScopes
             \/ DeleteClientInApi \/ UpdateSecretContent \/ DeleteSecretContent)
    PROVE  /\ Tick \/ UNCHANGED remaining
           /\ UNCHANGED jwks \/ jwks' = <<>>
           /\ secret' = secret \/ secret'.content = Null
           /\ UNCHANGED secretCache \/ secretCache' = secret
           /\ InFlight' => InFlight /\ UNCHANGED <<jwks, instance>>
           /\ "manifest" \in secretFresh' => "manifest" \in secretFresh /\ UNCHANGED secret
<1>1. CASE \/ \E s \in Scopes : CreateResource(s) \/ EditScopes(s)
           \/ TouchResource \/ DeleteResource \/ TouchSecret
           \/ \E c \in clients : DeleteClientExternally(c)
           \/ Tick \/ SyncResource \/ Resync \/ SyncSecret \/ TimerFires
           \/ UNCHANGED vars
  BY <1>1 DEF CreateResource, EditScopes, TouchResource, DeleteResource, TouchSecret,
     DeleteClientExternally, Tick, SyncResource, Resync, SyncSecret, TimerFires, InFlight
<1>2. CASE DeployApp \/ UndeployApp
  BY <1>2 DEF DeployApp, UndeployApp, NoSecret, InFlight
<1>3. CASE Restart \/ RecordFinalizer \/ FetchFails \/ LoadInstance
  BY <1>3 DEF Restart, RecordFinalizer, FetchFails, LoadInstance, Return, Forget, InFlight
<1>4. CASE UpdateStatus \/ UpdateStatusWithError
  BY <1>4 DEF UpdateStatus, UpdateStatusWithError, Return, Forget, DropManifest, InFlight
<1>5. CASE CreateClientInApi
  BY <1>5 DEF CreateClientInApi, Executing, Aborted, InFlight
<1> QED
  BY <1>1, <1>2, <1>3, <1>4, <1>5 DEF Next, Environment, Informers, Reconcile

\* A step that only moves documents about and lets time pass keeps the order.
LEMMA OrderFrame ==
    ASSUME TypeOK, KeysOrdered,
           Tick \/ UNCHANGED remaining,
           UNCHANGED jwks \/ jwks' = <<>>,
           \/ secret' = secret
           \/ secret'.content = Null
           \/ secret'.content.jwks = jwks,
           UNCHANGED secretCache \/ secretCache' = secret
    PROVE  KeysOrdered'
<1>0. remaining \in Lifetimes
  BY DEF TypeOK, WorldTypeOK
<1>1. \A i \in DOMAIN jwks : remaining'[jwks[i]] <= remaining'[jwks[1]]
  <2> DEFINE s == jwks
  <2>1. (s = <<>> \/ s \in JwksType) /\ NewestFirst(s) /\ Range(s) \subseteq UsedKeys
    BY WrittenKeys DEF KeysOrdered
  <2> HIDE DEF s
  <2>2. \A i \in DOMAIN s : remaining'[s[i]] <= remaining'[s[1]]
    BY <1>0, <2>1, OrderKept
  <2> QED
    BY <2>2 DEF s
<1>2. ASSUME NEW content, content = secret.content \/ content = secretCache.content,
             content # Null
      PROVE  \A i \in DOMAIN content.jwks :
                remaining'[content.jwks[i]] <= remaining'[content.jwks[1]]
  <2> DEFINE s == content.jwks
  <2>1. s \in JwksType /\ NewestFirst(s) /\ Range(s) \subseteq UsedKeys
    BY <1>2, WrittenKeys DEF KeysOrdered
  <2> HIDE DEF s
  <2>2. \A i \in DOMAIN s : remaining'[s[i]] <= remaining'[s[1]]
    BY <1>0, <2>1, OrderKept
  <2> QED
    BY <2>2 DEF s
<1>3. NewestFirst(jwks)'
  BY <1>1 DEF NewestFirst
<1>4. secret'.content # Null => NewestFirst(secret.content.jwks)'
  BY <1>1, <1>2 DEF NewestFirst
<1>5. secretCache'.content # Null => NewestFirst(secretCache.content.jwks)'
  BY <1>2 DEF NewestFirst
<1> QED
  BY <1>3, <1>4, <1>5 DEF KeysOrdered

\* Planning: the order of the keys, and that those planned follow on the document's.
LEMMA PlannedKeys ==
    ASSUME IInv, KeyInv, FetchCurrentState
    PROVE  KeysOrdered' /\ KeysFollow'
<1> DEFINE content == secretCache.content
<1>0. /\ TypeOK /\ SecretCopyCurrent /\ KeysOrdered /\ pc = "fetch"
      /\ "manifest" \notin secretFresh
      /\ content \in Content \cup {Null} /\ remaining \in Lifetimes
  BY DEF IInv, KeyInv, ManifestHeld, FetchCurrentState, TypeOK, SecretTypeOK, Secret, WorldTypeOK
<1>1. UNCHANGED <<secret, secretCache>>
  BY DEF FetchCurrentState
<1>2. PICK client \in MatchingClients(content) :
         LET newKey == NeedsKey(instance.deleting, client, content, remaining)
         IN \/ Return(FALSE) /\ UNCHANGED remaining
            \/ /\ newKey => Key \ UsedKeys # {}
               /\ pc' = "exec"
               /\ jwks' = IF instance.deleting THEN <<>>
                          ELSE PlannedJwks(client, content, remaining, NewKey)
               /\ remaining' = IF newKey THEN [remaining EXCEPT ![NewKey] = Lifetime]
                               ELSE remaining
               /\ secretFresh' = secretFresh \cup
                    (IF "cache" \in secretFresh THEN {"manifest"} ELSE {})
               /\ UNCHANGED instance
  BY DEF FetchCurrentState
<1>3. CASE Return(FALSE) /\ UNCHANGED remaining
  <2>1. jwks' = <<>> /\ pc' = "idle"
    BY <1>3 DEF Return, Forget
  <2>2. KeysOrdered'
    BY <1>0, <1>1, <1>3, <2>1, OrderFrame
  <2> QED
    BY <2>1, <2>2 DEF KeysFollow, InFlight
<1>4. CASE ~(Return(FALSE) /\ UNCHANGED remaining)
  <2> DEFINE newKey == NeedsKey(instance.deleting, client, content, remaining)
  <2>1. /\ newKey => Key \ UsedKeys # {}
        /\ pc' = "exec"
        /\ jwks' = IF instance.deleting THEN <<>>
                   ELSE PlannedJwks(client, content, remaining, NewKey)
        /\ remaining' = IF newKey THEN [remaining EXCEPT ![NewKey] = Lifetime]
                        ELSE remaining
        /\ secretFresh' = secretFresh \cup
             (IF "cache" \in secretFresh THEN {"manifest"} ELSE {})
        /\ UNCHANGED instance
    BY <1>2, <1>4
  <2>2. newKey => NewKey \in Key \ UsedKeys
    BY <2>1 DEF NewKey
  <2>3. UNCHANGED remaining \/ \E k \in Key \ UsedKeys : remaining' = [remaining EXCEPT ![k] = Lifetime]
    BY <2>1, <2>2
  <2>4. remaining' \in Lifetimes
    BY <1>0, <2>3, LifetimeAssumption DEF Lifetimes
  <2>5. ASSUME NEW c, c = secret.content \/ c = content, c # Null
        PROVE  \A i \in DOMAIN c.jwks : remaining'[c.jwks[i]] <= remaining'[c.jwks[1]]
    <3> DEFINE s == c.jwks
    <3>1. s \in JwksType /\ NewestFirst(s) /\ Range(s) \subseteq UsedKeys
      BY <1>0, <2>5, WrittenKeys DEF KeysOrdered
    <3> HIDE DEF s
    <3>2. \A i \in DOMAIN s : remaining'[s[i]] <= remaining'[s[1]]
      BY <1>0, <2>3, <3>1, OrderKept
    <3> QED
      BY <3>2 DEF s
  <2>6. NewestFirst(jwks)'
    <3>1. CASE instance.deleting
      BY <2>1, <3>1 DEF NewestFirst
    <3>2. CASE ~instance.deleting
      <4>1. newKey <=> (client = Null \/ content = Null \/ RotationDue(content.jwks, remaining))
        BY <3>2 DEF NeedsKey
      <4>2. newKey => NewKey \in Key /\ remaining'[NewKey] = Lifetime
        BY <1>0, <2>1, <2>2 DEF Lifetimes
      <4> DEFINE k == NewKey
                 s == PlannedJwks(client, content, remaining, k)
      <4>3. content # Null => NewestFirst(content.jwks)
        BY <1>0 DEF KeysOrdered
      <4>4. ~newKey => UNCHANGED remaining
        BY <2>1
      <4> HIDE DEF k
      <4>5. \A i \in DOMAIN s : remaining'[s[i]] <= remaining'[s[1]]
        BY <1>0, <2>4, <4>1, <4>2, <4>3, <4>4, PlannedOrder DEF k
      <4>6. jwks' = s
        BY <2>1, <3>2 DEF k
      <4> HIDE DEF s
      <4> QED
        BY <4>5, <4>6 DEF NewestFirst
    <3> QED
      BY <3>1, <3>2
  <2>7. KeysOrdered'
    BY <1>1, <2>5, <2>6 DEF KeysOrdered, NewestFirst
  <2>8. KeysFollow'
    <3> SUFFICES ASSUME ~instance.deleting, "manifest" \in secretFresh', secret.content # Null
                 PROVE  \/ jwks' = secret.content.jwks
                        \/ /\ remaining'[secret.content.jwks[1]] <= RotationThreshold
                           /\ secret.content.jwks[1] \in Range(jwks')
      BY <1>1, <2>1 DEF KeysFollow
    <3>1. content = secret.content
      BY <1>0, <2>1 DEF SecretCopyCurrent
    <3>2. client # Null
      BY <1>0, <1>2, <3>1, NullAssumption DEF MatchingClients, TypeOK
    <3> DEFINE s == content.jwks
    <3>3. s \in JwksType /\ NewestFirst(s) /\ Range(s) \subseteq UsedKeys
      BY <1>0, <3>1, WrittenKeys DEF KeysOrdered
    <3>4. ActiveKey(s, remaining) = s[1] /\ s[1] \in Key /\ s[1] \in Range(s)
      BY <1>0, <3>3, ActiveIsFirst, KeySetShape DEF Range
    <3>5. CASE RotationDue(s, remaining)
      <4>1. jwks' = <<NewKey, s[1]>>
        BY <2>1, <3>1, <3>2, <3>4, <3>5 DEF PlannedJwks, Rotated
      <4>2. s[1] \in Range(jwks')
        <5>1. 2 \in DOMAIN jwks' /\ jwks'[2] = s[1]
          BY <4>1
        <5> QED
          BY <5>1 DEF Range
      <4>3. remaining[s[1]] <= RotationThreshold
        BY <3>4, <3>5 DEF RotationDue
      <4>4. remaining'[s[1]] = remaining[s[1]]
        BY <1>0, <2>3, <3>3, <3>4 DEF Lifetimes
      <4> QED
        BY <3>1, <4>2, <4>3, <4>4
    <3>6. CASE ~RotationDue(s, remaining)
      BY <2>1, <3>1, <3>2, <3>6 DEF PlannedJwks
    <3> QED
      BY <3>5, <3>6
  <2> QED
    BY <2>7, <2>8
<1> QED
  BY <1>3, <1>4

-----------------------------------------------------------------------------
(* The theorem *)

\* A call has listed the secret before it holds a copy of it.
LEMMA ManifestHeldKept ==
    ASSUME ManifestHeld, [Next]_vars
    PROVE  ManifestHeld'
<1> USE DEF ManifestHeld
<1>1. CASE FetchCurrentState
  BY <1>1 DEF FetchCurrentState, Return, Forget
<1>2. CASE UpdateStatus \/ UpdateStatusWithError
  BY <1>2 DEF UpdateStatus, UpdateStatusWithError, DropManifest
<1>3. CASE \/ PostClientJwks \/ UpdateClientJwks \/ UpdateClientScopes
           \/ DeleteClientInApi \/ UpdateSecretContent \/ DeleteSecretContent
  <2>1. Executed \/ Aborted
    BY <1>3, WritesAreCommands
  <2> QED
    BY <2>1 DEF Executed, Aborted
<1>4. CASE CreateClientInApi
  BY <1>4 DEF CreateClientInApi, Aborted
<1>5. CASE Restart \/ RecordFinalizer \/ FetchFails \/ LoadInstance
  BY <1>5 DEF Restart, RecordFinalizer, FetchFails, LoadInstance, Return, Forget
<1>6. CASE \/ \E s \in Scopes : CreateResource(s) \/ EditScopes(s)
           \/ TouchResource \/ DeleteResource \/ DeployApp \/ UndeployApp \/ TouchSecret
           \/ \E c \in clients : DeleteClientExternally(c)
           \/ Tick \/ SyncResource \/ Resync \/ SyncSecret \/ TimerFires
           \/ UNCHANGED vars
  <2>1. UNCHANGED pc
    BY <1>6 DEF CreateResource, EditScopes, TouchResource, DeleteResource, DeployApp,
       UndeployApp, TouchSecret, DeleteClientExternally, Tick, SyncResource, Resync,
       SyncSecret, TimerFires
  <2>2. CASE DeployApp \/ UndeployApp \/ TouchSecret \/ SyncSecret
    BY <2>1, <2>2 DEF DeployApp, UndeployApp, TouchSecret, SyncSecret
  <2>3. CASE ~(DeployApp \/ UndeployApp \/ TouchSecret \/ SyncSecret)
    <3>1. UNCHANGED secretFresh
      BY <1>6, <2>3 DEF CreateResource, EditScopes, TouchResource, DeleteResource,
         DeleteClientExternally, Tick, SyncResource, Resync, TimerFires
    <3> QED
      BY <2>1, <3>1
  <2> QED
    BY <2>2, <2>3
<1> QED
  BY <1>1, <1>2, <1>3, <1>4, <1>5, <1>6 DEF Next, Environment, Informers, Reconcile

\* The invariant about the keys is inductive, given that of the clients.
LEMMA KeyInvKept ==
    ASSUME IInv, KeyInv, [Next]_vars
    PROVE  KeyInv'
<1>0. TypeOK /\ TypeOK' /\ SecretCopyCurrent' /\ ManifestHeld'
  BY NextInvariant, SecretCopyKept, ManifestHeldKept DEF IInv, KeyInv
<1>1. CASE FetchCurrentState
  BY <1>0, <1>1, PlannedKeys DEF KeyInv
<1> DEFINE Writes == \/ PostClientJwks \/ UpdateClientJwks \/ UpdateClientScopes
                     \/ DeleteClientInApi \/ UpdateSecretContent \/ DeleteSecretContent
<1>2. CASE Writes
  <2>1. /\ UNCHANGED <<remaining, secretCache, jwks, instance>>
        /\ UNCHANGED <<secret, secretFresh>> \/ secretFresh' = {}
        /\ secret' = secret \/ secret'.content = Null \/ secret'.content.jwks = jwks
    BY <1>0, <1>2, WritesKeepKeys
  <2>2. KeysOrdered'
    BY <1>0, <2>1, OrderFrame DEF KeyInv
  <2>3. InFlight
    BY <1>2, WritesAreCommands DEF InFlight
  <2>4. KeysFollow'
    BY <2>1, <2>3 DEF KeyInv, KeysFollow
  <2> QED
    BY <1>0, <2>2, <2>4 DEF KeyInv
<1>3. CASE ~FetchCurrentState /\ ~Writes
  <2>1. /\ Tick \/ UNCHANGED remaining
        /\ UNCHANGED jwks \/ jwks' = <<>>
        /\ secret' = secret \/ secret'.content = Null
        /\ UNCHANGED secretCache \/ secretCache' = secret
        /\ InFlight' => InFlight /\ UNCHANGED <<jwks, instance>>
        /\ "manifest" \in secretFresh' => "manifest" \in secretFresh /\ UNCHANGED secret
    BY <1>3, OthersKeepKeys
  <2>2. KeysOrdered'
    BY <1>0, <2>1, OrderFrame DEF KeyInv
  <2>3. KeysFollow'
    <3> SUFFICES ASSUME InFlight', ~instance'.deleting, "manifest" \in secretFresh',
                        secret'.content # Null, jwks' # secret'.content.jwks
                 PROVE  /\ remaining'[secret'.content.jwks[1]] <= RotationThreshold
                        /\ secret'.content.jwks[1] \in Range(jwks')
      BY DEF KeysFollow
    <3> DEFINE first == secret.content.jwks[1]
    <3>1. UNCHANGED <<secret, jwks>> /\ remaining[first] <= RotationThreshold
          /\ first \in Range(jwks)
      BY <2>1 DEF KeyInv, KeysFollow
    <3>2. first \in Key /\ first \in UsedKeys
      <4>1. secret.content.jwks \in JwksType /\ Range(secret.content.jwks) \subseteq UsedKeys
        BY <1>0, <3>1, WrittenKeys
      <4> QED
        BY <4>1, KeySetShape DEF Range
    <3> HIDE DEF first
    <3>3. remaining[first] \in Nat
      BY <1>0, <3>2, LifetimeAssumption DEF TypeOK, WorldTypeOK, Lifetimes
    <3>4. remaining'[first] = remaining[first]
          \/ remaining'[first] = IF remaining[first] = 0 THEN 0 ELSE remaining[first] - 1
      BY <2>1, <3>2 DEF Tick
    <3>5. remaining'[first] <= RotationThreshold
      BY <3>1, <3>3, <3>4, LifetimeAssumption
    <3> QED
      BY <3>1, <3>5 DEF first
  <2> QED
    BY <1>0, <2>2, <2>3 DEF KeyInv
<1> QED
  BY <1>1, <1>2, <1>3

\* At the start nothing is written and nothing listed.
LEMMA KeyInvInit == Init => KeyInv
  BY DEF Init, KeyInv, SecretCopyCurrent, KeysOrdered, NewestFirst, ManifestHeld, KeysFollow,
     InFlight, NoSecret

\* A step that changes the document's keys follows on the active one, which is due.
LEMMA StepKeepsHealthyKey ==
    ASSUME IInv, KeyInv, [Next]_vars,
           secret.content # Null, secret'.content # Null,
           secret'.content.jwks # secret.content.jwks
    PROVE  /\ RotationDue(secret.content.jwks, remaining)
           /\ ActiveKey(secret.content.jwks, remaining) \in Range(secret'.content.jwks)
<1>0. TypeOK /\ remaining \in Lifetimes
  BY DEF IInv, TypeOK, WorldTypeOK
<1>1. ~FetchCurrentState
  BY DEF FetchCurrentState
<1>2. /\ secret'.content.jwks = jwks /\ "manifest" \in secretFresh
      /\ UpdateSecretContent
  BY <1>0, <1>1, WritesKeepKeys, OthersKeepKeys
<1>3. pc = "exec" /\ Head(todo) = "UpdateSecretContent"
  BY <1>2 DEF UpdateSecretContent, Executing
<1>4. ~instance.deleting
  <2>1. instance.deleting => todo \in CleanupTodo
    BY <1>3 DEF IInv, Commands, CleanupCoversClient
  <2>2. \A p \in CleanupTodo : Head(p) # "UpdateSecretContent"
    BY CleanupSteps
  <2> QED
    BY <1>3, <2>1, <2>2
<1>5. /\ remaining[secret.content.jwks[1]] <= RotationThreshold
      /\ secret.content.jwks[1] \in Range(jwks)
  BY <1>2, <1>3, <1>4 DEF KeyInv, KeysFollow, InFlight
<1>6. ActiveKey(secret.content.jwks, remaining) = secret.content.jwks[1]
  <2> DEFINE s == secret.content.jwks
  <2>1. s \in JwksType /\ NewestFirst(s)
    BY <1>0, WrittenKeys DEF KeyInv, KeysOrdered
  <2> HIDE DEF s
  <2>2. ActiveKey(s, remaining) = s[1]
    BY <1>0, <2>1, ActiveIsFirst
  <2> QED
    BY <2>2 DEF s
<1> QED
  BY <1>2, <1>5, <1>6 DEF RotationDue

\* The invariant about the keys holds in every reachable state.
LEMMA KeyInvariance == Spec => [](IInv /\ KeyInv)
<1>1. Init => IInv /\ KeyInv
  BY InitInvariant, KeyInvInit
<1>2. IInv /\ KeyInv /\ [Next]_vars => (IInv /\ KeyInv)'
  BY NextInvariant, KeyInvKept
<1> QED
  BY <1>1, <1>2, PTL DEF Spec

\* Key sets have their newest key in front, and as long as the secret's
\* resourceVersion would let a call write it, the keys the call carries follow on those
\* in the document.
THEOREM KeysFollowAlways == Spec => []KeyInv
<1>1. IInv /\ KeyInv => KeyInv
  OBVIOUS
<1> QED
  BY <1>1, KeyInvariance, PTL

\* Whatever copy of the secret a plan starts from, whatever fails and whoever
\* interferes: the keys in the document change only when the active one is due, and it
\* stays in the document beside its successor. The resourceVersion under which the
\* secret is written refuses every plan made from another document, and RotateIfNeeded
\* keeps the active key, which is the one in front.
THEOREM KeysStay == Spec => HealthyKeyKept
<1> DEFINE Keeps == LET old == secret.content
                        new == secret'.content
                    IN old # Null /\ new # Null /\ new.jwks # old.jwks
                         => /\ RotationDue(old.jwks, remaining)
                            /\ ActiveKey(old.jwks, remaining) \in Range(new.jwks)
<1>1. IInv /\ KeyInv /\ [Next]_vars => [Keeps]_vars
  BY StepKeepsHealthyKey
<1> QED
  BY <1>1, KeyInvariance, PTL DEF Spec, HealthyKeyKept

-----------------------------------------------------------------------------
(* The registered keys *)

\* What a plan begins with tells what its key set is.
LEMMA PlannedWrite ==
    ASSUME NEW deleting \in BOOLEAN, NEW scopes, NEW client, NEW content,
           NEW url, NEW left,
           client = Null => content = Null,
           NEW p, p = Plan(deleting, scopes, client, content, url, left), p # <<>>,
           Head(p) = "UpdateSecretContent", ~(Len(p) >= 2 /\ p[2] = "UpdateClientJwks")
    PROVE  ~deleting /\ client # Null /\ content # Null /\ ~RotationDue(content.jwks, left)
<1>1. ~deleting
  <2>1. deleting => p \in CleanupTodo
    BY PlanCases
  <2> QED
    BY <2>1, CleanupSteps
<1>2. client # Null /\ content # Null
  <2>1. p # CreateCommands /\ p # RecoverCommands
    BY DEF CreateCommands, RecoverCommands
  <2> QED
    BY <1>1, <2>1 DEF Plan
<1>3. ~RotationDue(content.jwks, left)
  <2> SUFFICES ASSUME RotationDue(content.jwks, left) PROVE FALSE
    OBVIOUS
  <2> DEFINE S == "UpdateSecretContent"
             J == "UpdateClientJwks"
             C == "UpdateClientScopes"
  <2>1. p = <<S>> \o <<J>> \o If(ScopesChanged(client, scopes), <<C>>)
    BY <1>1, <1>2 DEF Plan, SteadyCommands, If
  <2>2. p = <<S, J>> \/ p = <<S, J, C>>
    <3>1. <<S>> \o <<J>> = <<S, J>> /\ <<S>> \o <<J>> \o <<C>> = <<S, J, C>>
      BY PairConcat, TripleConcat
    <3>2. <<S, J>> \o <<>> = <<S, J>>
      <4>1. <<S, J>> \in Seq({S, J})
        OBVIOUS
      <4> QED
        BY <4>1, ConcatEmptySeq
    <3> QED
      BY <2>1, <3>1, <3>2 DEF If
  <2>3. Len(p) >= 2 /\ p[2] = J
    BY <2>2
  <2> QED
    BY <2>3
<1> QED
  BY <1>1, <1>2, <1>3

\* Time, documents that go and clients that go leave registered keys registered.
LEMMA RegisteredFrame ==
    ASSUME RegisteredInv, faults' = 0 => faults = 0,
           clients' \subseteq clients,
           secret' = secret \/ secret'.content = Null,
           \/ UNCHANGED <<pc, todo, target, jwks>>
           \/ pc' # "exec" /\ pc # "exec"
    PROVE  RegisteredInv'
<1> SUFFICES ASSUME faults' = 0
             PROVE  /\ DocumentRegistered' \/ Registering'
                    /\ Registering' => IdOf(secret'.content) \in {Null, target'}
                    /\ WritesRegistered'
  BY DEF RegisteredInv
<1>1. DocumentRegistered => DocumentRegistered'
  BY DEF DocumentRegistered, IdOf
<1>2. CASE UNCHANGED <<pc, todo, target, jwks>>
  <2>1. Registering' = Registering
    BY <1>2 DEF Registering
  <2>2. IdOf(secret.content) \in {Null, target} => IdOf(secret'.content) \in {Null, target'}
    BY <1>2 DEF IdOf
  <2>3. WritesRegistered'
    BY <1>2 DEF RegisteredInv, WritesRegistered, Rotating
  <2> QED
    BY <1>1, <2>1, <2>2, <2>3 DEF RegisteredInv
<1>3. CASE pc' # "exec" /\ pc # "exec"
  BY <1>1, <1>3 DEF RegisteredInv, Registering, WritesRegistered
<1> QED
  BY <1>2, <1>3

\* A plan that writes the document without a rotation writes the keys it found.
LEMMA RegisteredPlanned ==
    ASSUME IInv, SecretInv, RegisteredInv, "lag" \notin Adversity, FetchCurrentState
    PROVE  RegisteredInv'
<1> DEFINE content == secret.content
<1>0. /\ secretCache = secret
      /\ UNCHANGED <<clients, secret, faults>>
      /\ pc = "fetch"
  BY DEF FetchCurrentState, CanRead, SecretInv, SecretCopyCurrent
<1>1. PICK client \in MatchingClients(content) :
         LET commands == Plan(instance.deleting, instance.scopes, client, content,
                              authority, remaining)
         IN \/ pc' = "idle"
            \/ /\ commands # <<>> /\ pc' = "exec" /\ todo' = commands
               /\ target' = IF client = Null THEN Null ELSE client.id
               /\ jwks' = IF instance.deleting THEN <<>>
                          ELSE PlannedJwks(client, content, remaining, NewKey)
  BY <1>0 DEF FetchCurrentState, NoActions, Return, Forget
<1> SUFFICES ASSUME faults' = 0
             PROVE  /\ DocumentRegistered' \/ Registering'
                    /\ Registering' => IdOf(secret'.content) \in {Null, target'}
                    /\ WritesRegistered'
  BY DEF RegisteredInv
<1>2. DocumentRegistered /\ DocumentRegistered'
  <2>1. DocumentRegistered
    BY <1>0 DEF RegisteredInv, Registering
  <2> QED
    BY <1>0, <2>1 DEF DocumentRegistered
<1>3. CASE pc' = "idle"
  BY <1>2, <1>3 DEF Registering, WritesRegistered
<1>4. CASE pc' # "idle"
  <2> DEFINE p == Plan(instance.deleting, instance.scopes, client, content,
                       authority, remaining)
  <2>1. /\ p # <<>> /\ pc' = "exec" /\ todo' = p
        /\ target' = IF client = Null THEN Null ELSE client.id
        /\ jwks' = IF instance.deleting THEN <<>>
                   ELSE PlannedJwks(client, content, remaining, NewKey)
    BY <1>1, <1>4
  <2>2. /\ client = Null => content = Null
        /\ client # Null /\ content # Null => client \in clients /\ client.id = content.clientId
    <3>1. clients \subseteq Client
      BY DEF IInv, TypeOK
    <3> QED
      BY <3>1, NullAssumption DEF MatchingClients
  <2>3. instance.deleting \in BOOLEAN
    BY DEF IInv, TypeOK, WorkerTypeOK, Resource
  <2>4. Head(p) = "UpdateClientJwks" => content = Null
    BY <2>1, <2>2, <2>3, PlanCases
  <2>5. Head(p) = "UpdateSecretContent" /\ ~(Len(p) >= 2 /\ p[2] = "UpdateClientJwks")
          => ~instance.deleting /\ client # Null /\ content # Null
             /\ ~RotationDue(content.jwks, remaining)
    BY <2>1, <2>2, <2>3, PlannedWrite
  <2> HIDE DEF p
  <2>6. Registering' => IdOf(secret'.content) \in {Null, target'}
    BY <1>0, <2>1, <2>4 DEF Registering, IdOf
  <2>7. WritesRegistered'
    <3> SUFFICES ASSUME Head(p) = "UpdateSecretContent",
                        ~(Len(p) >= 2 /\ p[2] = "UpdateClientJwks"),
                        NEW c \in clients, c.id = target'
                 PROVE  jwks'[1] \in c.keys
      BY <1>0, <2>1 DEF WritesRegistered, Rotating
    <3>1. jwks' = content.jwks /\ target' = content.clientId /\ content # Null
      BY <2>1, <2>2, <2>5 DEF PlannedJwks
    <3> QED
      BY <1>2, <3>1 DEF DocumentRegistered, IdOf
  <2> QED
    BY <1>2, <2>6, <2>7
<1> QED
  BY <1>3, <1>4

\* The first of one command, or of two.
LEMMA HeadOfShort ==
    ASSUME NEW a, NEW b
    PROVE  /\ Head(<<a>>) = a /\ Head(<<a, b>>) = a
           /\ <<a>> # <<>> /\ <<a, b>> # <<>>
<1>1. Head(<<a>>) = a /\ <<a>> # <<>>
  OBVIOUS
<1>2. Head(<<a, b>>) = a /\ <<a, b>> # <<>>
  OBVIOUS
<1> QED
  BY <1>1, <1>2

\* The update of a document is followed by that of the keys in a rotation, and by
\* nothing or the scopes otherwise.
LEMMA LiveNext ==
    ASSUME NEW p \in LiveTodo
    PROVE  LET rotating == Len(p) >= 2 /\ p[2] = "UpdateClientJwks"
               next == Tail(p)
           IN /\ Head(p) = "UpdateSecretContent" =>
                   \/ rotating /\ next # <<>> /\ Head(next) = "UpdateClientJwks"
                   \/ ~rotating /\ (next = <<>> \/ Head(next) = "UpdateClientScopes")
              /\ Head(p) = "UpdateClientJwks" => next = <<>> \/ Head(next) # "UpdateClientJwks"
              /\ Head(p) = "UpdateClientScopes" => next = <<>>
<1> DEFINE S == "UpdateSecretContent"
           J == "UpdateClientJwks"
           C == "UpdateClientScopes"
           rotating == Len(p) >= 2 /\ p[2] = J
           next == Tail(p)
           first == Head(p)
<1>1. \/ p = <<"CreateClientInApi", S>> \/ p = <<J, S>>
      \/ p = <<S>> \/ p = <<J>> \/ p = <<C>>
      \/ p = <<S, J>> \/ p = <<S, C>> \/ p = <<J, C>> \/ p = <<S, J, C>>
  BY DEF LiveTodo, CreateCommands, RecoverCommands
<1>2. p = <<"CreateClientInApi", S>> => first = "CreateClientInApi"
  OBVIOUS
<1>3. p = <<J, S>> => first = J /\ next = <<S>>
  OBVIOUS
<1>4. p = <<S>> => first = S /\ next = <<>> /\ ~rotating
  OBVIOUS
<1>5. (p = <<J>> => first = J /\ next = <<>>) /\ (p = <<C>> => first = C /\ next = <<>>)
  <2>1. p = <<J>> => first = J /\ next = <<>>
    OBVIOUS
  <2>2. p = <<C>> => first = C /\ next = <<>>
    OBVIOUS
  <2> QED
    BY <2>1, <2>2
<1>6. p = <<S, J>> => first = S /\ next = <<J>> /\ rotating
  OBVIOUS
<1>7. p = <<S, C>> => first = S /\ next = <<C>> /\ ~rotating
  OBVIOUS
<1>8. p = <<J, C>> => first = J /\ next = <<C>>
  OBVIOUS
<1>9. p = <<S, J, C>> => first = S /\ next = <<J, C>> /\ rotating
  OBVIOUS
<1> HIDE DEF rotating, next, first
<1>10. \/ first = "CreateClientInApi"
       \/ first = J /\ next \in {<<>>, <<S>>, <<C>>}
       \/ first = S /\ ~rotating /\ next \in {<<>>, <<C>>}
       \/ first = S /\ rotating /\ next \in {<<J>>, <<J, C>>}
       \/ first = C /\ next = <<>>
  BY <1>1, <1>2, <1>3, <1>4, <1>5, <1>6, <1>7, <1>8, <1>9, Zenon
<1>11. /\ next \in {<<>>, <<S>>, <<C>>} => next = <<>> \/ Head(next) # J
       /\ next \in {<<>>, <<C>>} => next = <<>> \/ Head(next) = C
       /\ next \in {<<J>>, <<J, C>>} => next # <<>> /\ Head(next) = J
  BY HeadOfShort
<1>12. /\ first = S => \/ rotating /\ next # <<>> /\ Head(next) = J
                       \/ ~rotating /\ (next = <<>> \/ Head(next) = C)
       /\ first = J => next = <<>> \/ Head(next) # J
       /\ first = C => next = <<>>
  BY <1>10, <1>11
<1> QED
  BY <1>12 DEF rotating, next, first

\* A client that was just made is not the document's.
LEMMA RegisteredCreated ==
    ASSUME IInv, SecretInv, RegisteredInv, CreateClientInApi
    PROVE  RegisteredInv'
<1> SUFFICES ASSUME faults' = 0
             PROVE  /\ DocumentRegistered' \/ Registering'
                    /\ Registering' => IdOf(secret'.content) \in {Null, target'}
                    /\ WritesRegistered'
  BY DEF RegisteredInv
<1>1. ~Fault
  BY BoundsAssumption DEF Fault, IInv, TypeOK, BoundTypeOK
<1>2. PICK id \in ClientId \ UsedIds :
         /\ clients' = clients \cup {[id |-> id, scopes |-> instance.scopes, keys |-> {}]}
         /\ pc' = "postJwks" /\ UNCHANGED secret
  BY <1>1 DEF CreateClientInApi
<1>3. clients = {} /\ IdOf(secret.content) # id
  BY CreationAddsOne DEF UsedIds
<1>4. DocumentRegistered'
  BY <1>2, <1>3 DEF DocumentRegistered
<1> QED
  BY <1>2, <1>4 DEF Registering, WritesRegistered

\* A command that fails without a fault has met a client or a secret that is gone.
LEMMA RegisteredAborted ==
    ASSUME IInv, RegisteredInv, Aborted, faults' = 0,
           \/ PostClientJwks \/ UpdateClientJwks \/ UpdateClientScopes
           \/ DeleteClientInApi \/ UpdateSecretContent \/ DeleteSecretContent
    PROVE  RegisteredInv'
<1>1. ~Fault /\ faults \in Nat
  BY BoundsAssumption DEF Fault, IInv, TypeOK, BoundTypeOK
<1>2. pc' = "error" /\ pc' # "exec"
  BY DEF Aborted
<1>3. /\ UNCHANGED <<clients, secret, faults>>
      /\ UpdateClientJwks => ~Registered
  <2>1. ~Executed
    <3>1. Executed => pc' \in {"status", "exec"}
      BY DEF Executed
    <3> QED
      BY <1>2, <3>1
  <2>2. CASE PostClientJwks \/ UpdateClientJwks \/ UpdateClientScopes \/ DeleteClientInApi
    BY <1>1, <2>1, <2>2 DEF PostClientJwks, UpdateClientJwks, UpdateClientScopes,
       DeleteClientInApi, WriteClient, Call
  <2>3. CASE UpdateSecretContent \/ DeleteSecretContent
    <3>1. UNCHANGED <<clients, secret, faults>>
      BY <1>1, <2>1, <2>3 DEF UpdateSecretContent, DeleteSecretContent, WriteSecret, Call
    <3>2. ~UpdateClientJwks
      BY <2>3 DEF UpdateSecretContent, DeleteSecretContent, UpdateClientJwks, Executing
    <3> QED
      BY <3>1, <3>2
  <2> QED
    BY <2>2, <2>3
<1>4. DocumentRegistered
  <2>1. CASE ~Registering
    BY <1>3, <2>1 DEF RegisteredInv
  <2>2. CASE Registering
    <3>1. target \notin LiveIds
      BY <1>3, <2>2 DEF Registering, Registered, PostClientJwks, UpdateClientJwks,
         UpdateClientScopes, DeleteClientInApi, UpdateSecretContent, DeleteSecretContent,
         Executing
    <3>2. IdOf(secret.content) \in {Null, target}
      BY <1>3, <2>2 DEF RegisteredInv
    <3>3. secret.content # Null => IdOf(secret.content) # Null
      BY NullAssumption DEF IInv, TypeOK, SecretTypeOK, Secret, Content, IdOf
    <3> QED
      BY <3>1, <3>2, <3>3 DEF DocumentRegistered, LiveIds
  <2> QED
    BY <2>1, <2>2
<1>5. DocumentRegistered'
  BY <1>3, <1>4 DEF DocumentRegistered
<1> QED
  BY <1>2, <1>5 DEF RegisteredInv, Registering, WritesRegistered

\* Registering keys replaces those of one client.
LEMMA KeysWritten ==
    ASSUME clients \subseteq Client, clients' = WithKeys, NEW d \in clients'
    PROVE  /\ d.id = target => d.keys = Range(jwks)
           /\ d.id # target => d \in clients
<1>1. PICK c \in clients : d = IF c.id = target THEN [c EXCEPT !.keys = ToPublic(jwks)] ELSE c
  BY DEF WithKeys
<1>2. c \in Client
  OBVIOUS
<1>3. CASE c.id = target
  <2>1. d = [c EXCEPT !.keys = ToPublic(jwks)]
    BY <1>1, <1>3
  <2>2. d.id = target /\ d.keys = Range(jwks)
    BY <1>2, <1>3, <2>1 DEF Client, ToPublic
  <2> QED
    BY <2>2
<1> QED
  BY <1>1, <1>3

\* Writing scopes leaves the keys alone.
LEMMA ScopesWritten ==
    ASSUME clients \subseteq Client, clients' = WithScopes, NEW d \in clients'
    PROVE  \E c \in clients : c.id = d.id /\ c.keys = d.keys
<1>1. PICK c \in clients : d = IF c.id = target THEN [c EXCEPT !.scopes = instance.scopes] ELSE c
  BY DEF WithScopes
<1>2. c \in Client
  OBVIOUS
<1>3. d.id = c.id /\ d.keys = c.keys
  BY <1>1, <1>2 DEF Client
<1> QED
  BY <1>3

\* The keys of a plan begin with one of them.
LEMMA FirstIsMember ==
    ASSUME jwks \in JwksType
    PROVE  jwks[1] \in Range(jwks)
  BY KeySetShape DEF Range

\* A registration that succeeds registers the keys the document has, or will have.
LEMMA RegisteredUploaded ==
    ASSUME IInv, SecretInv, RegisteredInv, faults = 0, Executed,
           PostClientJwks \/ UpdateClientJwks
    PROVE  RegisteredInv'
<1> DEFINE rest == Tail(todo)
           first == jwks[1]
<1>0. /\ clients \subseteq Client /\ clients' = WithKeys
      /\ UNCHANGED <<secret, instance, jwks, target>>
      /\ todo' = rest /\ pc' = IF rest = <<>> THEN "status" ELSE "exec"
  <2>1. pc' # "error"
    BY DEF Executed
  <2>2. clients' = WithKeys
    BY <2>1 DEF PostClientJwks, UpdateClientJwks, WriteClient, Call, Aborted
  <2> QED
    BY <2>2 DEF PostClientJwks, UpdateClientJwks, WriteClient, Executed, IInv, TypeOK
<1>1. InFlight /\ ~instance.deleting
  <2>1. InFlight
    BY DEF PostClientJwks, UpdateClientJwks, Executing, InFlight
  <2>2. CASE PostClientJwks
    BY <2>1, <2>2 DEF PostClientJwks, IInv, Commands, PostsForNew
  <2>3. CASE UpdateClientJwks
    <3>1. instance.deleting => todo \in CleanupTodo
      BY <2>1 DEF SecretInv, CommandsOnSecret, PlanKnown
    <3>2. Head(todo) = "UpdateClientJwks"
      BY <2>3 DEF UpdateClientJwks, Executing
    <3> QED
      BY <2>1, <3>1, <3>2, CleanupSteps
  <2> QED
    BY <2>2, <2>3
<1>2. todo \in LiveTodo /\ first \in Range(jwks)
  BY <1>1, FirstIsMember DEF SecretInv, CommandsOnSecret, PlanKnown, IInv, Commands, PlanComplete
<1>3. ~Registering'
  <2>1. CASE PostClientJwks
    <3>1. todo = <<"CreateClientInApi", "UpdateSecretContent">>
      BY <2>1 DEF PostClientJwks, SecretInv, CommandsOnSecret, PlanKnown, CreateCommands
    <3>2. rest = <<"UpdateSecretContent">>
      BY <3>1
    <3> HIDE DEF rest
    <3>3. Head(rest) # "UpdateClientJwks"
      BY <3>2, HeadOfShort
    <3> QED
      BY <1>0, <3>3 DEF Registering
  <2>2. CASE UpdateClientJwks
    <3>1. Head(todo) = "UpdateClientJwks"
      BY <2>2 DEF UpdateClientJwks, Executing
    <3>2. rest = <<>> \/ Head(rest) # "UpdateClientJwks"
      BY <1>2, <3>1, LiveNext
    <3> HIDE DEF rest
    <3> QED
      BY <1>0, <3>2 DEF Registering
  <2> QED
    BY <2>1, <2>2
<1> HIDE DEF rest, first
<1>4. \A d \in clients' : d.id = target => first \in d.keys
  BY <1>0, <1>2, KeysWritten
<1>5. WritesRegistered'
  BY <1>0, <1>4 DEF WritesRegistered, first
<1>6. DocumentRegistered'
  <2> SUFFICES ASSUME secret.content # Null, NEW d \in clients', d.id = IdOf(secret.content)
               PROVE  secret.content.jwks[1] \in d.keys
    BY <1>0 DEF DocumentRegistered
  <2>1. CASE PostClientJwks
    <3>1. d.id # target /\ ~Registering
      BY <2>1 DEF PostClientJwks, Registering, SecretInv, CommandsOnSecret, RegistersWritten
    <3>2. d \in clients
      BY <1>0, <3>1, KeysWritten
    <3> QED
      BY <3>1, <3>2 DEF RegisteredInv, DocumentRegistered
  <2>2. CASE UpdateClientJwks
    <3>1. Registering
      BY <2>2 DEF UpdateClientJwks, Executing, Registering
    <3>2. d.id = target
      <4>1. IdOf(secret.content) # Null
        BY NullAssumption DEF IInv, TypeOK, SecretTypeOK, Secret, Content, IdOf
      <4> QED
        BY <3>1, <4>1 DEF RegisteredInv
    <3>3. d.keys = Range(jwks)
      BY <1>0, <3>2, KeysWritten
    <3>4. JwksOf(secret.content) \subseteq Range(jwks)
      BY <3>1 DEF Registering, SecretInv, CommandsOnSecret, RegistersWritten
    <3>5. secret.content.jwks[1] \in JwksOf(secret.content)
      <4>1. secret.content.jwks \in JwksType
        BY DEF IInv, TypeOK, SecretTypeOK, Secret, Content
      <4> QED
        BY <4>1, KeySetShape DEF JwksOf, Range
    <3> QED
      BY <3>3, <3>4, <3>5
  <2> QED
    BY <2>1, <2>2
<1> QED
  BY <1>3, <1>5, <1>6 DEF RegisteredInv

\* The other writes to a client leave no key of the document unregistered.
LEMMA RegisteredScoped ==
    ASSUME IInv, SecretInv, RegisteredInv, faults = 0, Executed,
           UpdateClientScopes \/ DeleteClientInApi
    PROVE  RegisteredInv'
<1>0. /\ UNCHANGED secret /\ todo' = Tail(todo) /\ InFlight /\ pc = "exec"
      /\ pc' = IF Tail(todo) = <<>> THEN "status" ELSE "exec"
      /\ ~Registering
  BY DEF UpdateClientScopes, DeleteClientInApi, WriteClient, Executing, Executed, InFlight,
     Registering
<1>1. Tail(todo) = <<>>
  <2>1. todo \in IF instance.deleting THEN CleanupTodo ELSE LiveTodo
    BY <1>0 DEF SecretInv, CommandsOnSecret, PlanKnown
  <2>2. CASE DeleteClientInApi
    <3>1. Head(todo) = "DeleteClientInApi"
      BY <2>2 DEF DeleteClientInApi, Executing
    <3> QED
      BY <2>1, <3>1, LiveHead, CleanupSteps
  <2>3. CASE UpdateClientScopes
    <3>1. Head(todo) = "UpdateClientScopes"
      BY <2>3 DEF UpdateClientScopes, Executing
    <3> QED
      BY <2>1, <3>1, LiveNext, CleanupSteps
  <2> QED
    BY <2>2, <2>3
<1>2. \A d \in clients' : \E c \in clients : c.id = d.id /\ c.keys = d.keys
  <2>0. clients \subseteq Client
    BY DEF IInv, TypeOK
  <2>1. clients' \subseteq clients \/ clients' = WithScopes
    BY DEF UpdateClientScopes, DeleteClientInApi, WriteClient, Call
  <2> QED
    BY <2>0, <2>1, ScopesWritten
<1>3. DocumentRegistered'
  BY <1>0, <1>2 DEF RegisteredInv, DocumentRegistered
<1>4. pc' = "status"
  BY <1>0, <1>1
<1> QED
  BY <1>3, <1>4 DEF RegisteredInv, Registering, WritesRegistered

\* The document is written ahead of the client by a rotation only, whose next command
\* catches up.
LEMMA RegisteredDocument ==
    ASSUME IInv, SecretInv, RegisteredInv, faults = 0, Executed, UpdateSecretContent
    PROVE  RegisteredInv'
<1> DEFINE rest == Tail(todo)
<1>0. /\ pc = "exec" /\ Head(todo) = "UpdateSecretContent" /\ InFlight
      /\ UNCHANGED <<clients, instance, jwks, target>>
      /\ todo' = rest /\ pc' = IF rest = <<>> THEN "status" ELSE "exec"
  BY DEF UpdateSecretContent, Executing, WriteSecret, Executed, InFlight
<1>1. todo \in LiveTodo /\ jwks \in JwksType
  <2>1. instance.deleting => todo \in CleanupTodo
    BY <1>0 DEF SecretInv, CommandsOnSecret, PlanKnown
  <2>2. ~instance.deleting
    BY <1>0, <2>1, CleanupSteps
  <2> QED
    BY <1>0, <2>2 DEF SecretInv, CommandsOnSecret, PlanKnown, IInv, Commands, PlanComplete
<1>2. /\ IdOf(secret'.content) = target
      /\ secret'.content # Null => secret'.content.jwks = jwks
  <2> DEFINE new == [clientId |-> target, authority |-> authority, jwks |-> jwks]
  <2>1. secret \in Secret /\ secret' = [secret EXCEPT !.content = new]
    BY DEF IInv, TypeOK, SecretTypeOK, UpdateSecretContent, WriteSecret, Call, Executed, Aborted
  <2>2. new.clientId = target /\ new.jwks = jwks /\ new \in Content
    <3>1. target \in ClientId \cup {Null} /\ target # Null
      BY <1>0 DEF IInv, TypeOK, WorkerTypeOK, Commands, PlanComplete
    <3>2. authority \in Authority
      BY DEF IInv, TypeOK, WorldTypeOK
    <3> QED
      BY <1>1, <3>1, <3>2 DEF Content
  <2> HIDE DEF new
  <2>3. secret'.content = new
    BY <2>1 DEF Secret
  <2>4. secret'.content # Null
    BY <2>2, <2>3, NullAssumption
  <2> QED
    BY <2>2, <2>3, <2>4 DEF IdOf
<1>3. CASE Rotating
  <2>1. rest # <<>> /\ Head(rest) = "UpdateClientJwks"
    BY <1>0, <1>1, <1>3, LiveNext DEF Rotating
  <2> HIDE DEF rest
  <2> QED
    BY <1>0, <1>2, <2>1 DEF RegisteredInv, Registering, WritesRegistered
<1>4. CASE ~Rotating
  <2>1. rest = <<>> \/ Head(rest) = "UpdateClientScopes"
    BY <1>0, <1>1, <1>4, LiveNext DEF Rotating
  <2>2. \A c \in clients : c.id = target => jwks[1] \in c.keys
    BY <1>0, <1>4 DEF RegisteredInv, WritesRegistered
  <2>3. DocumentRegistered'
    BY <1>0, <1>2, <2>2 DEF DocumentRegistered
  <2> HIDE DEF rest
  <2> QED
    BY <1>0, <2>1, <2>3 DEF RegisteredInv, Registering, WritesRegistered
<1> QED
  BY <1>3, <1>4

\* A document that goes leaves the rest of a cleanup, which registers nothing.
LEMMA RegisteredCleared ==
    ASSUME IInv, SecretInv, RegisteredInv, faults = 0, Executed, DeleteSecretContent
    PROVE  RegisteredInv'
<1>0. /\ pc = "exec" /\ Head(todo) = "DeleteSecretContent" /\ InFlight
      /\ todo' = Tail(todo)
  BY DEF DeleteSecretContent, Executing, Executed, InFlight
<1>1. todo' = <<"DeleteClientInApi">>
  <2>1. todo \in IF instance.deleting THEN CleanupTodo ELSE LiveTodo
    BY <1>0 DEF SecretInv, CommandsOnSecret, PlanKnown
  <2> QED
    BY <1>0, <2>1, LiveHead, CleanupSteps
<1>2. Head(todo') = "DeleteClientInApi"
  BY <1>1, HeadOfShort
<1>3. secret'.content = Null
  <2>1. secret \in Secret /\ secret' = [secret EXCEPT !.content = Null]
    BY DEF IInv, TypeOK, SecretTypeOK, DeleteSecretContent, WriteSecret, Call, Executed, Aborted
  <2> QED
    BY <2>1 DEF Secret
<1> QED
  BY <1>2, <1>3 DEF RegisteredInv, DocumentRegistered, Registering, WritesRegistered

\* Every step of the loop and of its world.
LEMMA RegisteredKept ==
    ASSUME IInv, SecretInv, RegisteredInv, "lag" \notin Adversity, [Next]_vars
    PROVE  RegisteredInv'
<1>0. faults \in Nat
  BY BoundsAssumption DEF IInv, TypeOK, BoundTypeOK
<1>1. CASE \/ \E s \in Scopes : CreateResource(s) \/ EditScopes(s)
           \/ TouchResource \/ DeleteResource \/ DeployApp \/ UndeployApp \/ TouchSecret
           \/ \E c \in clients : DeleteClientExternally(c)
           \/ Tick \/ SyncResource \/ Resync \/ SyncSecret \/ TimerFires
           \/ UNCHANGED vars
  <2>1. UNCHANGED <<pc, todo, target, jwks>> /\ UNCHANGED faults
    BY <1>1 DEF CreateResource, EditScopes, TouchResource, DeleteResource, DeployApp,
       UndeployApp, TouchSecret, DeleteClientExternally, Tick, SyncResource, Resync,
       SyncSecret, TimerFires
  <2>2. secret' = secret \/ secret'.content = Null
    <3>1. CASE DeployApp \/ UndeployApp
      BY <3>1 DEF DeployApp, UndeployApp, NoSecret
    <3>2. CASE ~DeployApp /\ ~UndeployApp
      BY <1>1, <3>2 DEF CreateResource, EditScopes, TouchResource, DeleteResource,
         TouchSecret, DeleteClientExternally, Tick, SyncResource, Resync, SyncSecret,
         TimerFires
    <3> QED
      BY <3>1, <3>2
  <2>3. clients' \subseteq clients
    BY <1>1 DEF CreateResource, EditScopes, TouchResource, DeleteResource, DeployApp,
       UndeployApp, TouchSecret, DeleteClientExternally, Tick, SyncResource, Resync,
       SyncSecret, TimerFires
  <2> QED
    BY <2>1, <2>2, <2>3, RegisteredFrame
<1>2. CASE \/ Restart \/ RecordFinalizer \/ FetchFails \/ LoadInstance
           \/ UpdateStatus \/ UpdateStatusWithError
  <2>1. pc' # "exec" /\ UNCHANGED <<clients, secret>>
    BY <1>2 DEF Restart, RecordFinalizer, FetchFails, LoadInstance, UpdateStatus,
       UpdateStatusWithError, Return, Forget
  <2>2. faults' = 0 => faults = 0 /\ ~Restart
    <3>1. Restart => Fault
      BY DEF Restart
    <3>2. UNCHANGED faults \/ Fault
      <4>1. CASE Restart \/ RecordFinalizer \/ FetchFails \/ LoadInstance
        BY <4>1 DEF Restart, RecordFinalizer, FetchFails, LoadInstance
      <4>2. CASE UpdateStatus \/ UpdateStatusWithError
        BY <4>2 DEF UpdateStatus, UpdateStatusWithError
      <4> QED
        BY <1>2, <4>1, <4>2
    <3> QED
      BY <1>0, <3>1, <3>2 DEF Fault
  <2>3. faults' = 0 => pc # "exec"
    BY <1>2, <2>2 DEF RecordFinalizer, FetchFails, LoadInstance, UpdateStatus,
       UpdateStatusWithError
  <2>4. CASE faults' = 0
    BY <2>1, <2>2, <2>3, <2>4, RegisteredFrame
  <2>5. CASE faults' # 0
    BY <2>5 DEF RegisteredInv
  <2> QED
    BY <2>4, <2>5
<1>3. CASE FetchCurrentState
  BY <1>3, RegisteredPlanned
<1>4. CASE CreateClientInApi
  BY <1>4, RegisteredCreated
<1>5. CASE \/ PostClientJwks \/ UpdateClientJwks \/ UpdateClientScopes
           \/ DeleteClientInApi \/ UpdateSecretContent \/ DeleteSecretContent
  <2>1. CASE faults' # 0
    BY <2>1 DEF RegisteredInv
  <2>2. CASE faults' = 0 /\ Aborted
    BY <1>5, <2>2, RegisteredAborted
  <2>3. CASE faults' = 0 /\ ~Aborted
    <3>1. Executed
      BY <1>5, <2>3, WritesAreCommands
    <3>2. faults = 0
      <4>1. UNCHANGED faults \/ Fault
        BY <1>5 DEF PostClientJwks, UpdateClientJwks, UpdateClientScopes, DeleteClientInApi,
           UpdateSecretContent, DeleteSecretContent, WriteClient, WriteSecret, Call
      <4> QED
        BY <1>0, <2>3, <4>1 DEF Fault
    <3> QED
      BY <1>5, <3>1, <3>2, RegisteredUploaded, RegisteredScoped, RegisteredDocument,
         RegisteredCleared
  <2> QED
    BY <2>1, <2>2, <2>3
<1> QED
  BY <1>1, <1>2, <1>3, <1>4, <1>5 DEF Next, Environment, Informers, Reconcile

\* Until a call fails, a document that is ahead of the registered keys is followed by the
\* command that registers them, which no conflict comes between, unless the cache the
\* call read from is stale.
THEOREM RegistrationInvariance ==
    ASSUME "lag" \notin Adversity
    PROVE  Spec => [](IInv /\ SecretInv /\ RegisteredInv)
<1>1. Init => IInv /\ SecretInv /\ RegisteredInv
  <2>1. Init => RegisteredInv
    BY DEF Init, RegisteredInv, DocumentRegistered, Registering, WritesRegistered
  <2> QED
    BY <2>1, InitInvariant, SecretInvInit
<1>2. IInv /\ SecretInv /\ RegisteredInv /\ [Next]_vars
        => (IInv /\ SecretInv /\ RegisteredInv)'
  BY NextInvariant, SecretInvKept, RegisteredKept
<1> QED
  BY <1>1, <1>2, PTL DEF Spec

\* At rest, after any number of conflicts, concurrent edits, rotations and acts of
\* other actors, the key the app signs with is registered, unless the plan came from a
\* stale secret or a call has failed: only a rotation writes a document that is ahead
\* of the client, and the command after it registers the keys; every other document
\* carries a key that is registered.
THEOREM AtRestRegistered ==
    ASSUME "lag" \notin Adversity
    PROVE  Spec => []SettledMeansRegistered
<1>1. RegisteredInv => SettledMeansRegistered
  BY DEF RegisteredInv, SettledMeansRegistered, SigningKeyRegistered, Settled, Registering,
     DocumentRegistered
<1> QED
  BY <1>1, RegistrationInvariance, PTL

=============================================================================
