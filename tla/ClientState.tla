----------------------------- MODULE ClientState -----------------------------
(***************************************************************************)
(* internal/maskinporten/client_state.go: the pure planner.  From a        *)
(* snapshot of the custom resource, the client registered in the           *)
(* Maskinporten API and the document in the app's secret it computes the   *)
(* commands that are to take the current state to the desired state.       *)
(***************************************************************************)
EXTENDS Jwks

CONSTANTS
    ClientId,     \* identifiers the Maskinporten API can assign
    Scopes,       \* scope lists a user can ask for
    Authority,    \* authority URLs the operator can be configured with
    Null          \* a nil pointer, or an absent document or client

(***************************************************************************)
(* SecretStateContent, the document the app reads, and the API's record    *)
(* of a client (ClientResponse together with its JWKS endpoint).           *)
(***************************************************************************)
Content == [clientId : ClientId, authority : Authority, jwks : JwksType]
Client == [id : ClientId, scopes : Scopes, keys : SUBSET Key]

ASSUME NullAssumption ==
    /\ Null \notin ClientId
    /\ Null \notin Content
    /\ Null \notin Client

CommandName ==
    {"CreateClientInApi", "UpdateSecretContent", "UpdateClientJwks",
     "UpdateClientScopes", "DeleteSecretContent", "DeleteClientInApi"}

If(condition, commands) == IF condition THEN commands ELSE <<>>

(***************************************************************************)
(* The custom resource is being deleted: the document first, so that the   *)
(* app never holds credentials of a client that is gone.                   *)
(***************************************************************************)
CleanupCommands_ForgetsClient(client, content) ==              \* slips
    If(content # Null, <<"DeleteSecretContent">>)
CleanupCommands_ForgetsContent(client, content) ==
    If(client # Null, <<"DeleteClientInApi">>)
CleanupCommands_ClientFirst(client, content) ==
    If(client # Null, <<"DeleteClientInApi">>)
      \o If(content # Null, <<"DeleteSecretContent">>)

CleanupCommands(client, content) ==
    If(content # Null, <<"DeleteSecretContent">>)
      \o If(client # Null, <<"DeleteClientInApi">>)

CreateCommands == <<"CreateClientInApi", "UpdateSecretContent">>

(***************************************************************************)
(* A client exists but the private keys are lost: new keys, registered     *)
(* before they are handed to the app.  The scopes are not looked at.       *)
(***************************************************************************)
RecoverCommands == <<"UpdateClientJwks", "UpdateSecretContent">>

(***************************************************************************)
(* Client and document exist.  A rotation rewrites the document and then   *)
(* the registered keys; scopes are compared with what the API returned.    *)
(***************************************************************************)
AuthorityChanged(content, authority) == content.authority # authority
ScopesChanged(client, scopes) == client.scopes # scopes

SteadyCommands_OneChange(scopes, client, content, authority, rotate) ==   \* slips
    IF rotate THEN <<"UpdateSecretContent", "UpdateClientJwks">>
    ELSE If(ScopesChanged(client, scopes), <<"UpdateClientScopes">>)
SteadyCommands_KeysUnregistered(scopes, client, content, authority, rotate) ==
    If(AuthorityChanged(content, authority) \/ rotate, <<"UpdateSecretContent">>)
      \o If(ScopesChanged(client, scopes), <<"UpdateClientScopes">>)

SteadyCommands(scopes, client, content, authority, rotate) ==
    If(AuthorityChanged(content, authority) \/ rotate, <<"UpdateSecretContent">>)
      \o If(rotate, <<"UpdateClientJwks">>)
      \o If(ScopesChanged(client, scopes), <<"UpdateClientScopes">>)

(***************************************************************************)
(* ClientState.Reconcile.  `deleting' and `scopes' come from the resource, *)
(* `remaining' is the clock's view of the certificates, `k' the key        *)
(* creation yields.                                                        *)
(***************************************************************************)
Plan(deleting, scopes, client, content, authority, remaining) ==
    IF deleting THEN CleanupCommands(client, content)
    ELSE IF client = Null THEN CreateCommands
    ELSE IF content = Null THEN RecoverCommands
    ELSE SteadyCommands(scopes, client, content, authority,
                        RotationDue(content.jwks, remaining))

(***************************************************************************)
(* Whether the plan generates a key, and the key set its commands carry.   *)
(***************************************************************************)
NeedsKey(deleting, client, content, remaining) ==
    ~deleting /\ (client = Null \/ content = Null
                  \/ RotationDue(content.jwks, remaining))

PlannedJwks(client, content, remaining, k) ==
    IF client = Null \/ content = Null THEN CreateJwks(k)
    ELSE IF RotationDue(content.jwks, remaining)
         THEN Rotated(content.jwks, remaining, k)
         ELSE content.jwks

=============================================================================
