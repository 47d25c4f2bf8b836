----------------------------- MODULE ManyResources -----------------------------
(***************************************************************************)
(* Several MaskinportenClient resources under one operator.  What the      *)
(* controller finds for a resource depends on the names alone: the second  *)
(* dash-separated part of its own name is the app id (mapRequest,          *)
(* NewClientState), which selects the secret in its namespace by label and *)
(* the client in the Maskinporten API by client name.                      *)
(*                                                                         *)
(* The controller has one worker, so a call of Reconcile is one step here: *)
(* it is executed to its end, or up to a failure or a restart.  What can   *)
(* come between its steps is in Reconciler; caches have caught up, and no  *)
(* certificate comes near its end.                                         *)
(*                                                                         *)
(* A list of scopes that is empty may be nil or not, and DeepEqual tells   *)
(* the two apart.                                                          *)
(***************************************************************************)
EXTENDS ClientState

CONSTANTS
    Resource,           \* namespaced names
    Name,               \* their names, split at the dashes
    Namespace,
    ServiceOwnerName, Environment,   \* of the operator context
    AuthorityUrl,
    NilScopes, EmptyScopes,
    EmptyAnswer,        \* as which the API's answer for no scopes is decoded
    MaxEdits,           \* bound: what users and deployers do
    MaxFaults           \* bound: calls of Reconcile that do not reach their end

ASSUME ManyResourcesAssumption ==
    /\ \A r \in Resource : r \in DOMAIN Namespace /\ r \in DOMAIN Name
    /\ AuthorityUrl \in Authority
    /\ NilScopes \in Scopes /\ EmptyScopes \in Scopes
    /\ EmptyAnswer \in {NilScopes, EmptyScopes}
    /\ MaxEdits \in Nat /\ MaxFaults \in Nat

VARIABLES
    resources,          \* the custom resources, Null where there is none
    secrets,            \* the apps' secrets
    clients,            \* the clients in the Maskinporten API
    settled,            \* resources reconciled to the end, and left alone since
    edits, faults

vars == <<resources, secrets, clients, settled, edits, faults>>

-----------------------------------------------------------------------------
(* Names *)

\* mapRequest refuses any other name.
WellFormed == {r \in Resource : Len(Name[r]) >= 2}

AppId(r) == Name[r][2]

AppLabel_WithoutApp(app) == [owner |-> ServiceOwnerName]                  \* slips
GetClientName_WithoutApp(app) == [owner |-> ServiceOwnerName, environment |-> Environment]

AppLabel(app) == [owner |-> ServiceOwnerName, app |-> app]
GetClientName(app) ==
    [owner |-> ServiceOwnerName, environment |-> Environment, app |-> app]

SecretOf(r) == [namespace |-> Namespace[r], label |-> AppLabel(AppId(r))]
ClientNameOf(r) == GetClientName(AppId(r))

Slot == {SecretOf(r) : r \in WellFormed}
ClientName == {ClientNameOf(r) : r \in WellFormed}

\* No other resource has its app id, in whichever namespace.
Sole(r) == r \in WellFormed /\ \A q \in WellFormed : AppId(q) = AppId(r) => q = r

-----------------------------------------------------------------------------
(* Types *)

CustomResource == [scopes : Scopes, deleting : BOOLEAN, finalizer : BOOLEAN]
Secret == [exists : BOOLEAN, content : Content \cup {Null}]
NoSecret == [exists |-> FALSE, content |-> Null]
NamedClient == [id : ClientId, name : ClientName, scopes : Scopes, keys : SUBSET Key]

TypeOK ==
    /\ resources \in [Resource -> CustomResource \cup {Null}]
    /\ secrets \in [Slot -> Secret]
    /\ clients \subseteq NamedClient
    /\ settled \subseteq WellFormed
    /\ edits \in 0..MaxEdits /\ faults \in 0..MaxFaults

ASSUME NoneAssumption == Null \notin CustomResource /\ Null \notin NamedClient

Init ==
    /\ resources = [r \in Resource |-> Null]
    /\ secrets = [s \in Slot |-> NoSecret]
    /\ clients = {}
    /\ settled = {}
    /\ edits = 0 /\ faults = 0

-----------------------------------------------------------------------------
(* Users and deployers *)

Edit == edits < MaxEdits /\ edits' = edits + 1

CreateResource(r, scopes) ==
    /\ resources[r] = Null
    /\ Edit
    /\ resources' = [resources EXCEPT
         ![r] = [scopes |-> scopes, deleting |-> FALSE, finalizer |-> FALSE]]
    /\ UNCHANGED <<secrets, clients, settled, faults>>

EditScopes(r, scopes) ==
    /\ resources[r] # Null /\ ~resources[r].deleting
    /\ scopes # resources[r].scopes
    /\ Edit
    /\ resources' = [resources EXCEPT ![r].scopes = scopes]
    /\ settled' = settled \ {r}
    /\ UNCHANGED <<secrets, clients, faults>>

DeleteResource(r) ==
    /\ resources[r] # Null /\ ~resources[r].deleting
    /\ resources' = [resources EXCEPT
         ![r] = IF resources[r].finalizer THEN [resources[r] EXCEPT !.deleting = TRUE]
                ELSE Null]
    /\ settled' = settled \ {r}
    /\ UNCHANGED <<secrets, clients, edits, faults>>

DeployApp(s) ==
    /\ ~secrets[s].exists
    /\ secrets' = [secrets EXCEPT ![s] = [exists |-> TRUE, content |-> Null]]
    /\ UNCHANGED <<resources, clients, settled, edits, faults>>

UndeployApp(s) ==
    /\ secrets[s].exists
    /\ Edit
    /\ secrets' = [secrets EXCEPT ![s] = NoSecret]
    /\ settled' = {r \in settled : SecretOf(r) # s}
    /\ UNCHANGED <<resources, clients, faults>>

-----------------------------------------------------------------------------
(* What a call of Reconcile finds *)

\* A list with "omitempty" that is empty is left out, and read back as nil.
Omitted(scopes) == IF scopes = EmptyScopes THEN NilScopes ELSE scopes
Answered(scopes) == IF Omitted(scopes) = NilScopes THEN EmptyAnswer ELSE scopes

\* Without the finalizer the resource is written first, its spec with it.
Loaded(r) ==
    IF resources[r].finalizer THEN resources[r]
    ELSE [resources[r] EXCEPT !.finalizer = TRUE, !.scopes = Omitted(@)]

ContentOf(r) == secrets[SecretOf(r)].content

\* A slip: no document is taken to mean no client.
MatchingClients_ByIdOnly(r) ==
    IF ContentOf(r) # Null THEN {c \in clients : c.id = ContentOf(r).clientId} ELSE {Null}

\* By the id in the document, else by client name.
MatchingClients(r) ==
    IF ContentOf(r) # Null THEN {c \in clients : c.id = ContentOf(r).clientId}
    ELSE LET named == {c \in clients : c.name = ClientNameOf(r)}
         IN IF named = {} THEN {Null} ELSE named

Remaining == [k \in Key |-> Lifetime]

Commands(r, client) ==
    Plan(Loaded(r).deleting, Loaded(r).scopes, client, ContentOf(r), AuthorityUrl, Remaining)

\* Keys and ids are drawn from random sources.
Contents == {secrets[s].content : s \in Slot} \ {Null}
UnusedKeys == Key \ ((UNION {c.keys : c \in clients})
                       \cup (UNION {Range(content.jwks) : content \in Contents}))
NewKey == CHOOSE k \in UnusedKeys : TRUE
UnusedIds == ClientId \ ({c.id : c \in clients} \cup {content.clientId : content \in Contents})
NewId == CHOOSE id \in UnusedIds : TRUE

-----------------------------------------------------------------------------
(* What it does *)

Written(r, client, executed, jwks) ==
    [client EXCEPT
        !.keys = IF "UpdateClientJwks" \in executed THEN ToPublic(jwks) ELSE @,
        !.scopes = IF "UpdateClientScopes" \in executed THEN Answered(Loaded(r).scopes) ELSE @]

\* What becomes of the client, and of a new one if there was none.
Execute(r, client, id, executed, jwks, registered) ==
    /\ clients' = (clients \ {client}) \cup
         IF "CreateClientInApi" \in executed
         THEN {[id |-> id, name |-> ClientNameOf(r),
                scopes |-> Answered(Loaded(r).scopes), keys |-> registered]}
         ELSE IF client = Null \/ "DeleteClientInApi" \in executed THEN {}
         ELSE {Written(r, client, executed, jwks)}
    /\ secrets' =
         IF "UpdateSecretContent" \in executed
         THEN [secrets EXCEPT ![SecretOf(r)].content =
                 [clientId |-> id, authority |-> AuthorityUrl, jwks |-> jwks]]
         ELSE IF "DeleteSecretContent" \in executed
         THEN [secrets EXCEPT ![SecretOf(r)].content = Null]
         ELSE secrets

\* The first n commands.
Prefix(commands, n) == {commands[i] : i \in 1..n}

\* All commands are executed; a deletion takes the resource with it, unless there
\* was nothing to do.  A recovery has not looked at the scopes yet.
Completed(r, commands) ==
    /\ resources' = [resources EXCEPT
         ![r] = IF Loaded(r).deleting /\ commands # <<>> THEN Null ELSE Loaded(r)]
    /\ settled' = IF Loaded(r).deleting \/ commands = RecoverCommands
                  THEN settled \ {r} ELSE settled \cup {r}
    /\ UNCHANGED faults

\* The call fails, or the process ends, before the resource is reported.
Broken(r) ==
    /\ faults < MaxFaults /\ faults' = faults + 1
    /\ resources' = [resources EXCEPT ![r] = Loaded(r)]
    /\ settled' = settled \ {r}

\* CreateClient posts the client and then its keys: between the two it has none.
Reconcile(r) ==
    /\ r \in WellFormed /\ resources[r] # Null
    /\ secrets[SecretOf(r)].exists
    /\ \E client \in MatchingClients(r) :
         LET commands == Commands(r, client)
             jwks == PlannedJwks(client, ContentOf(r), Remaining, NewKey)
             id == IF client = Null THEN NewId ELSE client.id
         IN /\ NeedsKey(Loaded(r).deleting, client, ContentOf(r), Remaining) => UnusedKeys # {}
            /\ client = Null => UnusedIds # {}
            /\ \/ /\ Completed(r, commands)
                  /\ Execute(r, client, id, Prefix(commands, Len(commands)), jwks, ToPublic(jwks))
               \/ /\ Broken(r)
                  /\ \E n \in 0..Len(commands), registered \in {{}, ToPublic(jwks)} :
                       /\ registered = {} => n = 1
                       /\ Execute(r, client, id, Prefix(commands, n), jwks, registered)
    /\ UNCHANGED edits

\* There is no secret, or the API does not know the client the document names.
FetchFails(r) ==
    /\ r \in WellFormed /\ resources[r] # Null
    /\ ~secrets[SecretOf(r)].exists \/ MatchingClients(r) = {}
    /\ resources' = [resources EXCEPT ![r] = Loaded(r)]
    /\ UNCHANGED <<secrets, clients, settled, edits, faults>>

-----------------------------------------------------------------------------

UserStep ==
    \/ \E r \in Resource, scopes \in Scopes : CreateResource(r, scopes) \/ EditScopes(r, scopes)
    \/ \E r \in Resource : DeleteResource(r)
    \/ \E s \in Slot : DeployApp(s) \/ UndeployApp(s)

Next == UserStep \/ \E r \in Resource : Reconcile(r) \/ FetchFails(r)

Spec == Init /\ [][Next]_vars

-----------------------------------------------------------------------------
(* Properties *)

Held(r) == resources[r] # Null /\ resources[r].finalizer

\* Whatever resources share a client name, and wherever a call breaks off: a client
\* exists only while one of them carries the finalizer, so that its deletion, or another's,
\* still takes the client with it (fetchCurrentState finds it by id or by name).
NamedClientsHeld == \A c \in clients : \E r \in WellFormed : c.name = ClientNameOf(r) /\ Held(r)

\* Namesakes in several namespaces find each other's client by name and make no second
\* one, and the document of none leads to a client of another name.
OneClientPerName ==
    /\ \A c, d \in clients : c.name = d.name => c = d
    /\ \A r \in WellFormed, c \in clients :
         ContentOf(r) # Null /\ ContentOf(r).clientId = c.id => c.name = ClientNameOf(r)

\* What a resource alone with its app id has been given stays good, whatever the others
\* do: its document names a client that exists, with the document's keys registered.
\* (With a namesake it does not: one resource's recovery replaces the other's keys, one's
\* deletion takes the client the other's document names.)
SoleServed ==
    \A r \in WellFormed : Sole(r) /\ ContentOf(r) # Null
      => \E c \in clients : /\ c.id = ContentOf(r).clientId
                            /\ Range(ContentOf(r).jwks) \subseteq c.keys

\* A reconciled resource that is alone with its app id is left in peace, exactly if its
\* scopes are represented as the API's answer is: otherwise, with an empty list, each
\* call of Reconcile updates the client again.
QuietIfAnsweredAlike ==
    \A r \in settled : Sole(r)
      => \A client \in MatchingClients(r) :
           Commands(r, client) = <<>> <=> resources[r].scopes = Answered(resources[r].scopes)

\* Reconciling a resource changes no client of another name.
NameIsolation ==
    [][\A r \in Resource : Reconcile(r)
         => \A name \in ClientName \ {ClientNameOf(r)} :
              {c \in clients' : c.name = name} = {c \in clients : c.name = name}]_vars

-----------------------------------------------------------------------------
(* The inductive invariant *)

IdsUnique == \A c, d \in clients : c.id = d.id => c = d

ManyInv == TypeOK /\ IdsUnique /\ OneClientPerName /\ NamedClientsHeld /\ SoleServed

\* The API holds a client's scopes as it answers them.
ScopesAsAnswered == \A c \in clients : Answered(c.scopes) = c.scopes

\* A resource that is settled and alone finds its app, its document and, under the
\* document's id, only a client with its own scopes.
Established(r) ==
    /\ Held(r) /\ ~resources[r].deleting
    /\ secrets[SecretOf(r)].exists
    /\ ContentOf(r) # Null /\ ContentOf(r).authority = AuthorityUrl
    /\ \A c \in clients :
         c.id = ContentOf(r).clientId => c.scopes = Answered(resources[r].scopes)

QuietInv == ScopesAsAnswered /\ \A r \in settled : Sole(r) => Established(r)

=============================================================================
