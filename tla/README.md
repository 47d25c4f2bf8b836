# Altinn Kubernetes operator: specification

The operator keeps one *Maskinporten client* (an OAuth client with a key set) per
Altinn app. A user creates a `MaskinportenClient` resource; the operator registers
the client in the Maskinporten self-service API, hands its id and private keys to the
app through the app's secret, rotates the keys before their certificates run out, and
removes client and credentials when the resource is deleted.

These modules model that operator as its code is written (Go, under `src/`), together
with what surrounds it: users, deployments, informer caches, the Kubernetes API
server's optimistic concurrency, failing calls and restarts. TLC checks small
instances; TLAPS proves the safety properties for all values of the constants.

## 1. Inventory

| component | state it keeps | operations | hard behaviour |
|---|---|---|---|
| Reconciliation controller (`internal/controller`) | none across calls; within a call the copy of the resource, the listed secret, the commands executed so far | `Reconcile`: `mapRequest`, `loadInstance` (adds the finalizer), `fetchCurrentState`, `reconcile` (executes commands), `updateStatus`, `updateStatusWithError` | every step talks to another system and may fail with or without effect; the process may stop between any two; copies may be stale |
| Client state planner (`internal/maskinporten/client_state.go`) | none: pure | `NewClientState`, `Reconcile` → commands | the order of commands decides what a partial failure leaves behind |
| Key sets (`internal/crypto`) | none: pure but for clock and randomness | `CreateJwks`, `RotateIfNeeded`, `ToPublic` | rotation must not cut off the key in use; boundary at the threshold |
| Resource, secret (`api/v1alpha1`, Kubernetes) | spec, generation, finalizer, deletion timestamp, status; the document in the secret | written by users, deployments and the operator | conflicts, watch lag, the event filter |
| Maskinporten API client (`http_api_client.go`) | cached metadata and access token | list, get (two requests), create (two requests), update, replace keys, delete; each with `createReq`, the fetchers and `retryableHTTPDo` | lost answers, retries of a request whose body has been read, late arrivals, credentials that age while they are used |
| Manager (`cmd/main.go`) | caches, workqueue, delayed entries | watches, `SyncPeriod`, requeue | which events wake the controller |
| Cached values (`internal/caching`) | one value, when it was fetched, a lock | `Get` | lock hand-over, failing fetch |
| Fake Maskinporten (`internal/fakes`, `cmd/maskinporten_fakes`) | records and an index per test run | insert, delete, get, query, replace keys | index upkeep, unsynchronised handlers |
| Request mapping, operator context (`request.go`, `operatorcontext.go`) | constants | `mapRequest`, `GetClientName` | resources that share a name part share a client |
| Configuration, tokens, telemetry, command line tools | constants or nothing | | |

How they interact: the controller reads the resource and the secret through informer
caches, writes them through the API server under their `resourceVersion`, calls the
Maskinporten API over HTTP, and is woken by the workqueue (a watch event that passes
`GenerationChangedPredicate`, an error's requeue, or `RequeueAfter`). There is one
worker per process, and the deployment elects a leader (`config/manager/manager.yaml`),
so one call of `Reconcile` runs at a time.

What makes each component correct:

* controller: never orphan or double a client; never leave the app with a client that
  is gone or a key that is not registered; give the finalizer up last; report only what
  was applied; come to rest only when the resource is served; get there in the end.
* planner: every plan, cut off anywhere, leaves a state from which the next plan goes on.
* key sets: a key is replaced only when due, and stays beside its successor.
* API client: a request takes effect at most once and succeeds only when it has; the first
  attempt carries credentials that are valid; every operation ends.
* names: resources with different app ids never touch each other's client; those that
  share one never double or orphan it.

The hazards behind these properties are listed, at their lines, in `PROJECT.json`.

## 2. Modules

| module | what it models |
|---|---|
| `Jwks` | key sets: creation, the active key, rotation, publication |
| `ClientState` | the planner: which commands, in which order, with which key set |
| `Reconciler` | the loop, step by step, and everything it talks to; `EXTENDS ClientState` |
| `ClientLifecycle` | the promise: what may ever happen to a resource's hold and its clients |
| `ReconcilerProperties` | what is checked of the loop, by the adversities it withstands; the refinement of `ClientLifecycle` |
| `ReconcilerInvariant` | the inductive invariants: of the clients, of the document, of its keys and their registration, of what is left to do and what is reported |
| `ReconcilerClaims` | what comments of the repository say and the loop does not do |
| `ReconcilerProofs` | the theorems about clients and their resource |
| `SecretProofs` | the theorems about the document, and about its keys: kept until due, and registered at rest |
| `SettledProofs` | the theorems about rest and report: what the resource asks for is then applied |
| `CachedAtom` | the cached value: `Get` between its lock operations, any number of callers; its properties and invariant |
| `CachedAtomProofs` | the theorems about it |
| `FakeDb` | the fake's records and their index, and its handlers; its properties and invariant |
| `FakeDbProofs` | the theorems about it |
| `ApiClient` | the API client: operations as requests, token and grant, the retry loop, the transport; its properties and invariant |
| `ApiCall` | what the reconciler takes an operation of the API to be; `ApiClient` refines it |
| `ApiClientProofs` | the theorems about it |
| `ManyResources` | several resources under one operator: names, shared and not; `EXTENDS ClientState`; its properties and invariant |
| `ManyResourcesProofs` | the theorems about it |
| `ClientStateProofs` | the lemmas about key sets and plans that `ReconcilerProofs` and `ManyResourcesProofs` have in common |
| `MCReconciler`, `MCManyResources` | instances for TLC; each `.cfg` is one question |

### State and actions

`cr`, `secret` and `clients` are the truth in the API server and in Maskinporten;
`crCache` and `secretCache` the informers' copies; `instance`, `todo`, `done`, `jwks`,
`target` and `pc` the locals of the running call. A `resourceVersion` is only ever
compared for equality, so it is modelled by `crFresh` and `secretFresh`: which copies
still carry the latest one. An update whose copy is not fresh is refused.

| action | code |
|---|---|
| `CreateResource`, `EditScopes`, `TouchResource`, `DeleteResource` | users; generation and finalizer as the API server keeps them |
| `DeployApp`, `TouchSecret`, `UndeployApp` | the app's secret |
| `DeleteClientExternally`, `Tick` | someone else at the API; the clock |
| `SyncResource`, `SyncSecret`, `Resync`, `TimerFires`, `Restart` | informers, event filter, `SyncPeriod`, `RequeueAfter`, process restart (possibly with another authority URL) |
| `LoadInstance`, `RecordFinalizer` | `loadInstance`; the update that adds the finalizer |
| `FetchCurrentState`, `FetchFails` | `fetchCurrentState`, `NewClientState` and the plan |
| `CreateClientInApi`, `PostClientJwks` | the two requests of `CreateClient` |
| `UpdateClientJwks`, `UpdateClientScopes`, `DeleteClientInApi`, `UpdateSecretContent`, `DeleteSecretContent` | one command of the loop in `reconcile` each |
| `UpdateStatus`, `UpdateStatusWithError` | the end of a call, with the finalizer's removal |

`CachedAtom` has one action per stretch of `Get` between two lock operations or looks at
the clock: `Call`, `RLock`, `Hit`, `Miss`, `ReturnHit` for the read-locked half,
`Announce` and `Acquire` for `Lock`, and `FoundFresh`, `Fetch`, `Fetched`, `FetchFailed`
for what happens under it. The mutex is Go's: a waiting writer keeps new readers out, an
unlock lets in all that waited. `vars` stands for the fields of the struct and the locals
of `Get`.

`ApiClient` follows one operation at a time, as the one worker calls them, request by
request (`step`) and within a request leg by leg (`leg`: the authority's metadata, the
token, the API itself). Time is kept as ages of the things that expire.

| action | code |
|---|---|
| `Call`, `Invalid` | an operation is called; its checks refuse before anything is sent |
| `CachedToken`, `FetchMetadata`, `FetchToken` | `createReq`: the token is there, or `accessTokenFetcher` gets one, with or without the metadata; `createGrant`, `NewJWT` |
| `Send`, `SendFails` | an attempt in `retryableHTTPDo` that reaches the wire with its body, or that fails before (no address, no connection) and leaves the body unread; the transport refuses a body that has been read already, unless it was sent on an idle connection |
| `Break`, `ServerError`, `Resume` | a network error (the answer lost, the attempt lost, or the attempt still to arrive), a 5xx, the end of the pause; `GiveUp` when `MaxElapsedTime` is up |
| `Rejected`, `GotMetadata`, `GotToken`, `Accepted` | what the callers make of the answer: another status or an answer that does not decode, the two fetchers' results, and the next request or the end |
| `Issue`, `Apply`, `Answer`, `ApplyLate` | the authority and the API |

In `ManyResources` a call of `Reconcile` is one action, up to its end or to the command at
which it breaks: there is one worker, and what can come between its steps is
`Reconciler`'s question. `MatchingClients` and the plan are the code's; names are the
sequence of a resource's dash-separated parts (`WellFormed`, `AppId`), from which the
secret's label and the client's name are built. `ServiceOwnerName` and `Environment` are
constants: `Discover` hard-codes both.

`FakeDb` has one action per handler of the fake (`PostClient`, `PutClient`, `PostJwks`,
`GetClient`, `DeleteClient`) over the operations of its database (`Insert`, `Delete`), and
`TokenFor` for what the token endpoint answers. It differs from the API as the
reconciler's model takes it to be in two ways: an update of a client drops its keys, and
DELETE is answered without effect. Which clients have a name is a parameter of the handlers
(`Insert` refuses one without); `Next` sends what an operator does, whose requests name
every client (`buildApiReq`).

In the reconciler, a call of another system (`Call`) takes effect and succeeds, takes effect
and loses its answer, or fails without effect. `Fetch...` is one step: nothing in it writes,
and what it reads is either the cache, which the model lets be arbitrarily old, or the API,
which only the loop itself and `DeleteClientExternally` change.

### Abstractions

* In `Reconciler`: one resource, one app, at most one secret with the app's label. Several
  secrets, a secret of another type or one that does not decode appear as a failing fetch.
* Scope lists, keys, client ids and authority URLs are model values. New keys and ids are
  new: no two random ones are equal while anyone still holds one of them.
* A certificate is the number of ticks it has left, saturating at 0.
* The status keeps `state`, `observedGeneration` and `clientId`. The resource may be edited
  while it is being deleted only where "touch" is among the adversities.
* An informer jumps to the current object; intermediate versions it would have shown are
  older copies that the controller can also be holding.
* In `Reconciler` an operation of the API is what `ApiCall` says, with an API whose 5xx
  answers are honest: a request takes effect once or not at all, and before the operation
  returns. `ApiClient` shows that the retries keep to it. A POST that arrives after its
  operation has given up is not modelled: `Return` takes what is still in the network to be lost.
* An API that answers 5xx after it has done what was asked (`honest = FALSE`) may see a
  creation twice; `AppliedAtMostOnce` promises nothing for it.
* `ApiClient` counts time in ticks shorter than the shortest pause; ages stop counting at
  `Old`, beyond everything they are compared with. The token is said to live as long as
  `expires_in` says, and the fetch of it no longer than that.
* `ManyResources`: caches have caught up, certificates are far from their end, the authority
  URL does not change, and nobody else deletes clients. A scope list that is empty is nil or
  not (`NilScopes`, `EmptyScopes`); `omitempty` turns the one into the other whenever the
  resource or a request is written, and `reflect.DeepEqual` tells them apart.

## 3. Runs

The instances of the reconciler use five keys, three client ids, two scope lists and
certificates that live two ticks and are due at one. Each run grants the environment a set of
*adversities* and bounds how often it uses them: `MaxGeneration` edits, `MaxCreations`
incarnations, `MaxFaults` failed calls and restarts, `MaxDisruptions` acts of others. Once
the bounds are spent the system may come to rest, so deadlock is not checked there, nor in
`ManyResources`, whose users stop after `MaxEdits` acts. `CachedAtom`, `ApiClient` and
`FakeDb` can always be called again: there it is. Scope lists are symmetric (safety runs
only).

| run | adversities | shows |
|---|---|---|
| `adversity` | all but expiry; 2 faults, 1 disruption, 2 incarnations | `IInv`, `ClientsHeld`, `AtMostOneClient`, `LifecycleSpec` |
| `failures` | metadata writes, rewritten and removed secret, restart, expiry, two authorities; 2 faults | `SecretInv`, `RegisteredInv`, `SecretNamesLiveClient`, `SettledMeansRegistered`, `UploadCoversSecret`, `ReleasedClean` |
| `conflicts` | stale cache, metadata writes, expiry, edits; no faults | `TypeOK`, `KeyInv`, `SettledInv`, `AppliedInv`, `HealthyKeyKept`, `ReconciledMeansApplied`, `SettledMeansApplied` |
| `progress` | expiry, edits, restart; 1 fault; fair | `SettledMeansApplied`, `ScopesEventuallyServed`, `DeletionCompletes`, `CleanupCompletes` |
| `cached_atom` | three callers, four clock values, expiry after one; fair | `AtomInv`, `AnswerFresh`, `FetchSpacing`, `EveryCallReturns` |
| `fakes` | any requests about three apps | `IndexInRange`, `SupplierAuthenticates`, `DbInv` |
| `api_calls` | every operation; cached token for 2 ticks, grant 2, token 4, retries 4, attempts of up to 3; fair | `ApiInv`, `FirstAttemptAuthorized`, `AppliedAtMostOnce`, `ImplementsApiCall`, `EveryCallEnds` |
| `many_resources` | five resources: three namesakes (two of them in one namespace), one alone, one without an app id; 3 edits, 1 broken call | `ManyInv`, `QuietInv`, `NamedClientsHeld`, `OneClientPerName`, `SoleServed`, `QuietIfAnsweredAlike`, `NameIsolation` |

**Why the bounds are enough.** A plan has at most three commands, so two faults reach every
pair of a failed command and a failed retry; one disruption is enough to make any one write
conflict; a second incarnation is what it takes for a stale copy to outlive its resource; two
scope lists and two generations make an applied value differ from a requested one. A run uses
at most four keys at a time: a document's two, the one replaced in flight, and a new one. Of
three callers of a cached value one can hold the write lock, one wait for it and one read;
four clock values are two expiries. Three apps and the operator's own client are a record
that goes, the last that takes its place, and one that neither touches. In `api_calls` the
times keep the code's proportions (a token is cached for half its life, a grant lives as long
as a token is cached, retries go on for a token's life), so a grant and a token can each
expire during the retries, and two to four attempts fit into them: a lost one, a late one and
a repeated one. Three namesakes are what it takes for two to share a secret and a third to
share only the client; a broken call covers every prefix of a plan, and `CreateClient`
between its two requests. Each property has a mutant of the code that its run rejects.

**Fairness.** `FairSpec` has weak fairness of the informers (a watch delivers), of
`Resync` and `TimerFires` (the manager's timers), and of the worker as a whole: any step
of a running call, and the call of a queued key. Users, deployments, faults and the
clock owe nothing. No step of the reconciler is assumed strongly fair: steps compete
with nothing but the bounded environment. In `CachedAtom` the retriever answers (its
requests give up after two minutes), so the steps of a call are weakly fair; the queue of
writers is strongly fair, as Go's mutex hands itself to a waiter that has waited long.
Nobody owes a call. In `ApiClient` an attempt that is sent is answered or
breaks at some point: the transport's doing, for the client itself sets no timeout
(`http_api_client.go:74`); time passes, the rest is the program's own steps.
`progress` checks properties of different fault models at once: `CleanupCompletes` holds
whatever fails, the other two promise something only as long as nothing has
(`Undisturbed`).

### Where the code and its comments part

Each `claim_*` run states what a comment says and shows a behaviour of the code that
does not do it; `PROJECT.json` quotes the lines.

| run | what happens |
|---|---|
| `claim_release` | a deletion that needs no command never removes the finalizer |
| `claim_rotation` | resyncs do not pass the event filter and an idle call sets no timer, so keys run out unrotated |
| `claim_order` | a rotation writes the secret before the API and is not repeated when the latter fails |
| `claim_overwrite` | a document whose client is gone blocks every reconciliation instead of being overwritten |

Three more observations have no run of their own. In the fake, updating one of two apps'
clients leaves the other's index entry pointing at the wrong record (`db.go:117` does not
follow the record it moves), so the next `Get` of it ends in `panic("inconsistent state")`;
`FakeDb` has these behaviours (`panicked`), and its properties say what is left intact.
An update that `Insert` refuses, for want of a name, has deleted the record by then and can
leave an entry beyond the slice; no operator sends one. The fake's dump endpoint reads the
records of every operator while handlers may be changing them: it is not modelled.
Resources that share an app id harm each other: when the one's document is
missing, its recovery registers new keys for the client both use and cuts off the other's
app, and a deletion of either takes the client the other's document names. And if
the API answers an empty scope list in the other representation than the resource has it,
every call of `Reconcile` updates the client again (`QuietIfAnsweredAlike` says exactly when).

The safety properties in `ReconcilerProperties` are grouped by the adversities they need to
be spared. `SecretNamesLiveClient`, `UploadCoversSecret`, `ReleasedClean` and
`SettledMeansRegistered` do not hold when the secret's cache may be behind: a document the
cache has not seen yet is taken for a lost one (the registered keys are replaced under the
app), or is left behind by a deletion. `SettledMeansRegistered` does not hold when calls fail
(`claim_order`) and is therefore conditional on no call having failed so far, nor does
`ReconciledMeansApplied`. `SettledMeansApplied`, which is about the scopes and the document
and not about the keys, holds whatever fails: an error puts the key back on the queue, and a
call that executed commands sets the timer. `ReconciledMeansApplied` goes wrong in one way,
after a failed update of the secret or, without any failed call, when someone else rewrites
the secret: a creation whose secret update is refused, with the scopes edited before the
retry, is completed by the plan that replaces a lost document (`client_state.go:254`), which
leaves the API's scopes as they are, and is reported "reconciled" at the new generation. A
conflict on the status update is never repaired either: the retry finds nothing to do and
returns before it would report the client id, so no property says that the status is
complete.

## 4. Proofs

`ReconcilerProofs` proves, for every value of the constants and under every adversity:

* `Invariance`: `Spec => []IInv`
* `TypeCorrect`: `Spec => []TypeOK`
* `ClientsAlwaysHeld`: `Spec => []ClientsHeld`
* `OneClient`: `Spec => []AtMostOneClient`
* `ImplementsLifecycle`: `Spec => LifecycleSpec`, the refinement of `ClientLifecycle`

`SecretProofs` proves, for every value of the constants with `"lag" \notin Adversity`, whatever
fails, restarts and interferes otherwise:

* `DocumentInvariance`: `Spec => []SecretInv`
* `ReleasesClean`: `Spec => ReleasedClean`
* `UploadsCover`: `Spec => UploadCoversSecret`
* `DocumentNamesClient`: `Spec => []SecretNamesLiveClient`, if
  `"externalDelete" \notin Adversity` too

and, under every adversity:

* `KeysFollowAlways`: `Spec => []KeyInv`
* `KeysStay`: `Spec => HealthyKeyKept`

and, with `"lag" \notin Adversity`:

* `RegistrationInvariance`: `Spec => []RegisteredInv`, with `IInv` and `SecretInv`
* `AtRestRegistered`: `Spec => []SettledMeansRegistered`

`SettledProofs` proves, under every adversity except `"undeploy"` and `"externalDelete"`, stale
caches, failed calls and restarts included:

* `SettledInvariance`: `Spec => []SettledInv`, with `IInv`
* `AtRestApplied`: `Spec => []SettledMeansApplied`

and, with `"touchSecret"` excepted too:

* `AppliedInvariance`: `Spec => []AppliedInv`
* `ReconciledApplies`: `Spec => [](faults = 0 => ReconciledMeansApplied)`

`CachedAtomProofs` proves, for any number of callers, any expiry and any bound on the clock:

* `AtomInvariance`: `Spec => []AtomInv`
* `AnswersAreFresh`: `Spec => AnswerFresh`
* `FetchesAreSpaced`: `Spec => FetchSpacing`

`FakeDbProofs` proves, for any ids and key sets:

* `DbInvariance`: `Spec => []DbInv`
* `SupplierAlwaysAuthenticates`: `Spec => []SupplierAuthenticates`
* `AlwaysInRange`: `Spec => []IndexInRange`

`ApiClientProofs` proves, for all times:

* `ApiInvariance`: `Spec => []ApiInv`
* `FirstAttempt`: `Spec => []FirstAttemptAuthorized`
* `AtMostOnce`: `Spec => []AppliedAtMostOnce`
* `ImplementsCall`: `Spec => ImplementsApiCall`, the refinement of `ApiCall`

`ManyResourcesProofs` proves, for any number of resources with any names and namespaces:

* `ManyInvariance`: `Spec => []ManyInv`
* `NamedClientsAlwaysHeld`: `Spec => []NamedClientsHeld`
* `OneClientEach`: `Spec => []OneClientPerName`
* `SoleAlwaysServed`: `Spec => []SoleServed`
* `NamesIsolated`: `Spec => NameIsolation`
* `QuietInvariance`: `Spec => []QuietInv`, and from it
* `SettledLeftInPeace`: `Spec => []QuietIfAnsweredAlike`

Assumptions: `LifetimeAssumption` (the threshold lies within a certificate's life),
`NullAssumption` (an absent value is none of the values), `BoundsAssumption` (bounds are
natural numbers, the first generation is within bounds), `ExpiryAssumption` and
`NoneAssumption` (times are natural numbers, no value is none of them),
`FakeAssumption` (the operator's id and keys are not an app's), `AgeAssumption` and
`LifeAssumption` (ages count beyond every limit; a token is cached no longer than it lives
and is fetched within its life), and `ManyResourcesAssumption` (every resource has a name and
a namespace; the scope constants are scope lists). None is about the sizes of sets.

**Why an invariant.** `ClientsHeld` is not inductive: a worker might create a client for a
resource that is gone. It does not, because (`WorkingHeld`) a call that is past loading and
not deleting works on a resource that is held; because (`CacheVouches`) even the oldest
cached copy that shows a finalizer and no deletion is of a resource that is still held.
That in turn holds because the finalizer is only removed by a write whose copy is current
(`CopiesCurrent`) and shows the deletion, and by then the cache is no older than that
copy (`DeletionSeen`). `AtMostOneClient` needs to know that a creation in flight was planned
when there was no client and nobody else creates (`CreatesWhenNone`, `CreatesFirst`), and
the release needs `CleanupCoversClient`: what is left of a cleanup still deletes the one
client. `PlanComplete` contains the code's own assertion that an update of the secret
always has a client id.

`ReleasedClean`, `UploadCoversSecret` and `SecretNamesLiveClient` depend on what is left of
the plan: `PlanKnown` lists what it can be. Each plan starts from the document as it is,
because without lag the listed copy is the secret (`SecretCopyCurrent`). Hence a cleanup
with only the deletion of the client left has cleared the document, or has found none, and
others only take documents away (`ClearedFirst`); and keys that are registered next are
those just written to the document, or there is no document of that client
(`RegistersWritten`: a new client's id is in no document). That nobody else deletes clients
is needed only for the client a call works on to be there still (`TargetLive`).

`HealthyKeyKept` holds with stale copies too, because an update of the secret is refused
unless the copy that was listed is current. `KeysFollow` says what follows: while the update
would be accepted, the keys it carries are the document's, or its active key is due and
among them. The active key is the first, since key sets are ordered newest first
(`KeysOrdered`) and the clock keeps that order; and a call that has not listed the secret
holds no copy (`ManifestHeld`).

`SettledMeansRegistered` rests on when the document may be ahead of the client
(`RegisteredInv`): only between the two commands of a rotation, the update of the secret and
that of the client's keys (`Registering`), and then the document is the one of the client the
call works on. Any other update of the document carries keys whose first is registered
(`WritesRegistered`): a created client and a recovered one had them registered before, a
changed authority keeps those that were listed. Once a call has failed this is lost
(`claim_order`), hence `faults = 0`. A client or a secret that someone else removes in
the middle does no harm: there is then no client, or no document, to disagree.

`SettledMeansApplied` says that the controller does not rest too early, so its invariant
relates what is still to be done to what will wake the controller (`SettledInv`). A version
of the resource that the informer has not seen will be reported (`SpecSeen`), one that a call
has not seen is reported or queued (`InstanceSeen`). Between calls, what is not applied is
queued, on the timer, or will be reported (`AppliedOrDue`). A stale copy of the secret does not
spoil this: a call returns without commands, and so without the timer, only if its document
names a client that is there, and that document is the secret's own (`DocumentFollowed`: new
ids are in no document, and documents are cleared only when the resource is being deleted). The
last needs that a stale copy never shows the deletion of an earlier resource of that name while
there is a client (`DeletionRead`). Nothing in this is disturbed by a fault: a call that fails
is queued again, and a restart lists the resource. The exceptions are those the code has: the
removal of a client or of a secret wakes nobody.

`ReconciledMeansApplied` adds what has been reported (`AppliedInv`). A report claims the
generation that was read and is refused when the resource has been written since, so what is
reconciled at the current generation is what the call, if one is running, works on
(`ReportsSeen`, `ReconciledSeen`). A plan that leaves the scopes alone has found them right, sets
them later, or will not be completed (`PlanApplies`). The last case is a plan that takes an
existing document for a lost one; to see that it is refused one must know that a client is
without a document only while one call creates it or clears up (`ClientDocumented`,
`CreatesOnEmpty`), so that an empty copy beside a client is an old one (`EmptySeen`). Someone
who rewrites or removes the secret at that moment makes the plan succeed: that is the
exception described above, and why `"touchSecret"` is excepted here. A failed update of the
secret does the same, hence `faults = 0`.

The action properties of `CachedAtom` need to know that what a caller has seen of the
clock and the value still holds when it acts on it (`ChecksHold`). That is so because the
value changes only under the write lock, whose holder is alone (`WriterAlone`), and because
a value is never older than the time it is filed under (`StampedBefore`).

In `FakeDb` entries of apps may lead to the wrong record, but never to the first
(`AppsBehind`), which stays the operator's own (`SupplierFirst`); an update takes out one
record behind it and appends one, so places stay within the slice.

`AppliedAtMostOnce` is not inductive: a repeated request might meet one that took effect
before. It does not, because (`BodySentOnce`) a body is sent again only on a connection that
was idle, and an attempt that broke leaves none; after an honest 5xx nothing was done. An
attempt that fails before it is written leaves the body unread, and has had no effect. A
deletion may be repeated, but finds nothing the second time (`EffectsKnown`).
`FirstAttemptAuthorized` rests on `AgesKept`: a token is never older than the time it is
filed under, a grant never older than the attempts that carry it. The refinement maps steps
of the retry loop to stutters and needs `EffectsKnown` to see that an accepted write has
taken effect.

`ManyInv` ties together what is promised of several resources: a document leads to a client
of its resource's name only (`OneClientPerName`), so executing a plan touches that client only, and
as no other resource has that name when it is alone (`Sole`), only its own calls can
touch what it was served. Unique ids (`IdsUnique`) make the client named by a document one.
`QuietIfAnsweredAlike` needs in addition (`QuietInv`) that a client's scopes are as the API
answers them, and that a settled resource that is alone finds its app, a document with the
current authority and a client with its own scopes (`Established`): each plan that settles a
resource has just compared or written all three, a recovery excepted, which settles nothing.

**Layout.** The plan's shape (`PlanShape`, `CleanupShape`, `SteadyShape`) is established once
about the planner. Preservation has three parts, each one step per action or class of
actions: types (`TypePreserved`), the copies of the resource (`CopiesPreserved`) and the
commands and clients (`CommandsPreserved`, `ClientsPreserved`). The refinement uses the same
lemmas: a step that changes the clients or the hold is one of four.

**Model-checked only.** Liveness (`ScopesEventuallyServed`, `DeletionCompletes`,
`CleanupCompletes`, `EveryCallReturns`, `EveryCallEnds`) is out of the prover's reach. Every
other property of a passing run is a theorem. Where a theorem has a hypothesis about
`Adversity` or `faults`, the run that checks the property grants no more than it allows;
`conflicts` and `progress` have fewer adversities than `SettledProofs` allows (a stale cache
together with failed calls is in the theorem only, and so are rewritten secrets and several
authorities).

## 5. Plan

1. `Jwks`, `ClientState`, `Reconciler`, `CachedAtom`, `FakeDb`, their runs and the proofs
   above: done.
2. The API client's retries and tokens, and the call they amount to (`ApiClient`, `ApiCall`): done.
3. Several resources and shared names (`ManyResources`): done.
4. Proofs of the properties of the secret and of its keys (`SecretProofs`): done.
5. `ManyResources` with interleaved steps: namesakes' calls that break and are retried
   around each other beyond the one broken call of the run.
6. Proof that the keys are registered at rest (`AtRestRegistered`): done.
7. Proofs of `ReconciledMeansApplied` and `SettledMeansApplied` (`SettledProofs`) and of
   `QuietIfAnsweredAlike` (`ManyResourcesProofs`): done.

## 6. Not modelled

Encodings (X.509, JOSE, JSON, the claims of a token), URLs and the fields of requests other
than name, scopes and keys, configuration loading, telemetry, probes and metrics, the command
line utilities, the sample app and the generated code: they hold no state the properties
depend on. Requests that arrive after their operation has given up (see the abstractions)
and a client that is changed by someone else other than by deleting it.
