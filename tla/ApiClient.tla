------------------------------- MODULE ApiClient -------------------------------
(***************************************************************************)
(* internal/maskinporten/http_api_client.go: how an operation of the       *)
(* Maskinporten API becomes HTTP requests.  Each request takes a bearer    *)
(* token from the cache (fetched with a signed grant when the cached one   *)
(* has expired), and is repeated, with the same token and the same body    *)
(* reader, after a network error or a 5xx answer until two minutes have    *)
(* passed.  The operator has one operation under way at a time.            *)
(*                                                                         *)
(* Time is kept in ages, which stop counting at Old.  The tick is shorter  *)
(* than the shortest pause between two attempts (half a second).           *)
(***************************************************************************)
EXTENDS Naturals, Sequences

CONSTANTS
    ExpireAfter,    \* of the cached token, from before it was fetched (1 minute)
    GrantLife,      \* exp of the grant (1 minute)
    TokenLife,      \* expires_in of the token (2 minutes)
    MaxElapsed,     \* MaxElapsedTime of the backoff (2 minutes)
    MaxPause,       \* the longest pause between two attempts (45 seconds)
    MaxLatency,     \* bound: how long an attempt can be under way
    Old,            \* bound: where ages stop counting
    Null

ASSUME AgeAssumption ==
    /\ ExpireAfter \in Nat /\ GrantLife \in Nat /\ TokenLife \in Nat
    /\ MaxElapsed \in Nat /\ MaxPause \in Nat \ {0} /\ MaxLatency \in Nat
    /\ Old \in Nat
    /\ ExpireAfter < Old /\ GrantLife < Old /\ TokenLife < Old /\ MaxElapsed < Old

\* A cached token is dropped before it expires; one that is fetched arrives before.
ASSUME LifeAssumption == ExpireAfter <= TokenLife /\ MaxLatency <= TokenLife

VARIABLES
    \* the operation
    op,             \* the method of HttpApiClient under way, Null if none
    step,           \* which of its requests
    leg,            \* what that request is at: metadata and token, or itself
    pc,
    outcome,        \* of the last operation
    \* the loop in retryableHTTPDo
    elapsed,        \* since the first attempt
    pause,          \* what is left of the pause before the next one
    latency,        \* since the attempt was sent
    \* the request
    body,           \* its body reader is "unread" or "read"
    connection,     \* the transport keeps an idle connection to the API
    \* tokens
    fetching,       \* since CachedAtom read the clock for the fetch under way
    filed,          \* since the time the cached token is filed under
    grant,          \* since the grant was signed
    issued,         \* since the token in the answer under way was issued
    token,          \* since the cached token was issued
    \* the API
    reply,          \* its answer to the attempt under way, Null if not processed
    late,           \* attempts that broke, and that it has yet to process
    applied,        \* how often the request has taken effect
    honest          \* its 5xx answers mean that nothing was done

callVars == <<op, step, leg, pc, outcome>>
retryVars == <<elapsed, pause, latency>>
requestVars == <<body, connection>>
tokenVars == <<fetching, filed, grant, issued, token>>
apiVars == <<reply, late, applied, honest>>
vars == <<callVars, retryVars, requestVars, tokenVars, apiVars>>

-----------------------------------------------------------------------------
(* Operations and their requests *)

Requests == [GetAllClients    |-> <<"list">>,
             GetClient        |-> <<"get", "getJwks">>,
             CreateClient     |-> <<"create", "postJwks">>,
             CreateClientJwks |-> <<"postJwks">>,
             UpdateClient     |-> <<"update">>,
             DeleteClient     |-> <<"delete">>]

WithBody == {"create", "postJwks", "update"}
Writing == WithBody \cup {"delete"}

Request == Requests[op][step]

ASSUME NullAssumption == Null \notin {"ok", "refused", "error", "success"} \cup DOMAIN Requests

-----------------------------------------------------------------------------
(* Types *)

Age == 0..Old
Older(age) == IF age < Old THEN age + 1 ELSE Old

TypeOK ==
    /\ op \in DOMAIN Requests \cup {Null}
    /\ step \in 1..2 /\ (op # Null => step <= Len(Requests[op]))
    /\ leg \in {"metadata", "token", "api"}
    /\ pc \in {"idle", "prepare", "send", "sent", "pause"}
    /\ outcome \in {"success", "error", Null}
    /\ elapsed \in Age /\ pause \in 0..MaxPause /\ latency \in 0..MaxLatency
    /\ body \in {"unread", "read"} /\ connection \in BOOLEAN
    /\ fetching \in Age /\ filed \in Age /\ grant \in Age
    /\ issued \in Age /\ token \in Age
    /\ reply \in {"ok", "refused", "error", Null}
    /\ late \in Nat /\ applied \in Nat /\ honest \in BOOLEAN

Init ==
    /\ op = Null /\ step = 1 /\ leg = "api" /\ pc = "idle" /\ outcome = Null
    /\ elapsed = 0 /\ pause = 0 /\ latency = 0
    /\ body = "unread" /\ connection = FALSE
    /\ fetching = 0 /\ filed = Old /\ grant = 0 /\ issued = 0 /\ token = Old
    /\ reply = Null /\ late = 0 /\ applied = 0 /\ honest \in BOOLEAN

-----------------------------------------------------------------------------
(* Helpers *)

\* retryableHTTPDo is entered.
StartAttempts(l) ==
    /\ leg' = l /\ pc' = "send"
    /\ elapsed' = 0

\* The operation returns; what it still has in the network is taken to be lost.
Return(how) ==
    /\ op' = Null /\ step' = 1 /\ leg' = "api" /\ pc' = "idle"
    /\ outcome' = how
    /\ elapsed' = 0
    /\ body' = "unread"
    /\ fetching' = 0 /\ grant' = 0 /\ issued' = 0
    /\ late' = 0 /\ applied' = 0

\* The operation goes on to its next request.
NextRequest ==
    /\ step' = step + 1
    /\ leg' = "api" /\ pc' = "prepare"
    /\ elapsed' = 0
    /\ body' = "unread"
    /\ late' = 0 /\ applied' = 0
    /\ UNCHANGED <<op, outcome, fetching, grant, issued>>

-----------------------------------------------------------------------------
(* Preparing a request: createReq, the token cache, and its fetcher *)

Call(o) ==
    /\ op = Null
    /\ op' = o /\ pc' = "prepare" /\ outcome' = Null
    /\ UNCHANGED <<step, leg, retryVars, requestVars, tokenVars, apiVars>>

\* Missing ids or keys, a private key among the public ones: nothing is sent.
Invalid ==
    /\ pc = "prepare"
    /\ Return("error")
    /\ UNCHANGED <<pause, latency, connection, filed, token, reply, honest>>

Expired == filed > ExpireAfter

CachedToken ==
    /\ pc = "prepare"
    /\ ~Expired
    /\ StartAttempts("api")
    /\ UNCHANGED <<op, step, outcome, pause, latency, requestVars, tokenVars, apiVars>>

\* The authority's metadata are cached too.  Only when they are there is the grant
\* signed, and its exp computed.
Fetch(l) ==
    /\ pc = "prepare"
    /\ Expired
    /\ fetching' = 0 /\ grant' = 0
    /\ StartAttempts(l)
    /\ UNCHANGED <<op, step, outcome, pause, latency, requestVars, filed, issued, token,
                   apiVars>>

FetchMetadata == Fetch("metadata")
FetchToken == Fetch("token")

-----------------------------------------------------------------------------
(* retryableHTTPDo *)

HasBody == leg = "api" /\ Request \in WithBody

BodyIsGone_ReadAnew == FALSE                                     \* a slip

\* The transport is handed a body that a previous attempt has read.  On an idle
\* connection it fails before a byte is written and can start again from GetBody; on a
\* new one the attempt fails, with a Content-Length that the body does not have.
BodyIsGone == HasBody /\ body = "read" /\ ~connection

\* The attempt reaches the wire, and its body with it.
Send ==
    /\ pc = "send"
    /\ ~BodyIsGone
    /\ pc' = "sent"
    /\ body' = IF HasBody THEN "read" ELSE body
    /\ connection' = (connection /\ leg # "api")
    /\ UNCHANGED <<op, step, leg, outcome, retryVars, tokenVars, apiVars>>

\* NextBackOff draws a pause that ends in time,
Pause ==
    /\ \E p \in 1..MaxPause : elapsed + p <= MaxElapsed /\ pause' = p
    /\ pc' = "pause"
    /\ UNCHANGED <<op, step, leg, outcome, elapsed, body, fetching, grant, issued, applied>>

\* or one that does not.
GiveUp ==
    /\ elapsed + MaxPause > MaxElapsed
    /\ Return("error")
    /\ UNCHANGED pause

PauseOrGiveUp == (Pause /\ UNCHANGED late) \/ GiveUp

\* Or it does not (no address, no connection, a body that is gone), and leaves the body
\* as it was: one that is unread is sent in full by the next attempt.
SendFails ==
    /\ pc = "send"
    /\ PauseOrGiveUp
    /\ connection' = (connection /\ leg # "api")
    /\ UNCHANGED <<latency, filed, token, reply, honest>>

AttemptOver == pc = "sent" /\ latency' = 0 /\ reply' = Null

\* A network error: the answer is lost, or the attempt is, or it is only delayed.
Break ==
    /\ AttemptOver
    /\ \/ PauseOrGiveUp
       \/ Pause /\ reply = Null /\ leg = "api" /\ Request \in Writing /\ late' = late + 1
    /\ UNCHANGED <<connection, filed, token, honest>>

\* An answer leaves its connection idle, unless its body was closed unread, or, after
\* a 5xx, not closed at all.
ConnectionKept == connection' \in IF leg = "api" THEN BOOLEAN ELSE {connection}

ServerError ==
    /\ AttemptOver
    /\ reply = "error"
    /\ PauseOrGiveUp
    /\ ConnectionKept
    /\ UNCHANGED <<filed, token, honest>>

Resume_StartsOver ==                                             \* a slip
    /\ pc = "pause" /\ pause = 0
    /\ pc' = "send" /\ elapsed' = 0
    /\ UNCHANGED <<op, step, leg, outcome, pause, latency, requestVars, tokenVars, apiVars>>

Resume ==
    /\ pc = "pause" /\ pause = 0
    /\ pc' = "send"
    /\ UNCHANGED <<op, step, leg, outcome, retryVars, requestVars, tokenVars, apiVars>>

-----------------------------------------------------------------------------
(* What the callers make of the answer *)

\* Any other status than the one expected, or an answer that does not decode.
Rejected ==
    /\ AttemptOver
    /\ reply \in {"refused", "ok"}
    /\ Return("error")
    /\ ConnectionKept
    /\ UNCHANGED <<pause, filed, token, honest>>

GotMetadata ==
    /\ AttemptOver
    /\ leg = "metadata" /\ reply = "ok"
    /\ StartAttempts("token")
    /\ grant' = 0
    /\ UNCHANGED <<op, step, outcome, pause, requestVars, fetching, filed, issued, token,
                   late, applied, honest>>

GotToken_FiledOnArrival ==                                       \* a slip
    /\ AttemptOver
    /\ leg = "token" /\ reply = "ok"
    /\ StartAttempts("api")
    /\ token' = issued /\ filed' = 0
    /\ fetching' = 0 /\ grant' = 0 /\ issued' = 0
    /\ UNCHANGED <<op, step, outcome, pause, requestVars, late, applied, honest>>

\* The token is filed under the time before its fetch: CachedAtom.
GotToken ==
    /\ AttemptOver
    /\ leg = "token" /\ reply = "ok"
    /\ StartAttempts("api")
    /\ token' = issued /\ filed' = fetching
    /\ fetching' = 0 /\ grant' = 0 /\ issued' = 0
    /\ UNCHANGED <<op, step, outcome, pause, requestVars, late, applied, honest>>

Accepted_AnyStatus ==                                            \* a slip
    /\ AttemptOver
    /\ leg = "api" /\ reply \in {"ok", "refused"}
    /\ IF step < Len(Requests[op]) THEN NextRequest ELSE Return("success")
    /\ ConnectionKept
    /\ UNCHANGED <<pause, filed, token, honest>>

Accepted ==
    /\ AttemptOver
    /\ leg = "api" /\ reply = "ok"
    /\ IF step < Len(Requests[op]) THEN NextRequest ELSE Return("success")
    /\ ConnectionKept
    /\ UNCHANGED <<pause, filed, token, honest>>

-----------------------------------------------------------------------------
(* The API, the authority, and time *)

\* A client that is deleted is not found again.
Gone == Request = "delete" /\ applied > 0

Applicable == Request \in Writing /\ token <= TokenLife /\ ~Gone

\* The authority issues a token for a grant that has not expired.
Issue ==
    /\ pc = "sent" /\ reply = Null
    /\ leg = "token" /\ grant <= GrantLife
    /\ reply' = "ok" /\ issued' = 0
    /\ UNCHANGED <<callVars, retryVars, requestVars, fetching, filed, grant, token,
                   late, applied, honest>>

Apply ==
    /\ pc = "sent" /\ reply = Null
    /\ leg = "api" /\ Applicable
    /\ applied' = applied + 1
    /\ reply' \in {"ok"} \cup IF honest THEN {} ELSE {"error"}
    /\ UNCHANGED <<callVars, retryVars, requestVars, tokenVars, late, honest>>

\* It answers without changing anything.
Answer ==
    /\ pc = "sent" /\ reply = Null
    /\ \/ reply' \in {"refused", "error"}
       \/ reply' = "ok" /\ leg = "metadata"
       \/ reply' = "ok" /\ leg = "api" /\ Request \notin Writing /\ token <= TokenLife
    /\ UNCHANGED <<callVars, retryVars, requestVars, tokenVars, late, applied, honest>>

\* It comes to an attempt whose connection is gone.
ApplyLate ==
    /\ late > 0
    /\ late' = late - 1
    /\ applied' = IF Applicable THEN applied + 1 ELSE applied
    /\ UNCHANGED <<callVars, retryVars, requestVars, tokenVars, reply, honest>>

Tick ==
    /\ \/ pc = "idle"
       \/ pc = "sent" /\ latency < MaxLatency
       \/ pc = "pause" /\ pause > 0
    /\ filed' = Older(filed) /\ token' = Older(token)
    /\ elapsed' = IF pc = "idle" THEN elapsed ELSE Older(elapsed)
    /\ latency' = IF pc = "sent" THEN latency + 1 ELSE latency
    /\ pause' = IF pc = "pause" THEN pause - 1 ELSE pause
    /\ fetching' = IF leg = "api" THEN fetching ELSE Older(fetching)
    /\ grant' = IF leg = "token" THEN Older(grant) ELSE grant
    /\ issued' = IF leg = "token" /\ reply = "ok" THEN Older(issued) ELSE issued
    /\ UNCHANGED <<callVars, requestVars, apiVars>>

-----------------------------------------------------------------------------

Proceed ==
    \/ Invalid \/ CachedToken \/ FetchMetadata \/ FetchToken
    \/ Send \/ SendFails \/ Break \/ ServerError \/ Resume
    \/ Rejected \/ GotMetadata \/ GotToken \/ Accepted
    \/ Issue \/ Apply \/ Answer

Next == (\E o \in DOMAIN Requests : Call(o)) \/ Proceed \/ ApplyLate \/ Tick

Spec == Init /\ [][Next]_vars

(***************************************************************************)
(* An attempt that is sent is answered or breaks: the client itself sets   *)
(* no timeout.  Nobody has to call.                                        *)
(***************************************************************************)
FairSpec == Spec /\ WF_vars(Proceed) /\ WF_vars(Tick)

-----------------------------------------------------------------------------
(* Properties *)

\* The first attempt of a request is never in vain for the time its credential has
\* been kept: the grant is signed after the metadata are there, the cached token is
\* filed under a time before it was issued.  So a refusal for an expired token, which
\* only a retry can meet (createReq reads the token once), does not repeat itself.
FirstAttemptAuthorized ==
    pc = "send" /\ elapsed = 0
      => /\ leg = "token" => grant <= GrantLife
         /\ leg = "api" => token <= TokenLife

\* However often retryableHTTPDo repeats a request, and whatever arrives late, an API
\* that answers 5xx only when it has done nothing sees one effect of it: no second
\* client is created by a retry.
AppliedAtMostOnce == honest => applied <= 1

\* The operations are what the reconciler takes them to be: see ApiCall.
Abstract == INSTANCE ApiCall WITH effects <- applied
ImplementsApiCall == Abstract!Spec

\* Every operation ends: the retries of the two or three requests it consists of do.
EveryCallEnds == op # Null ~> op = Null

-----------------------------------------------------------------------------
(* The inductive invariant                                                  *)

InLoop == pc \in {"send", "sent", "pause"}

\* What is only there while a request is: in the operation, the loop, the attempt.
Phases ==
    /\ op = Null <=> pc = "idle"
    /\ op = Null => step = 1
    /\ ~InLoop => leg = "api" /\ elapsed = 0
    /\ ~InLoop \/ leg # "api" => body = "unread" /\ late = 0 /\ applied = 0
    /\ reply # Null => pc = "sent"
    /\ pc # "sent" => latency = 0

\* No credential is older than the time that has been kept for it.
AgesKept ==
    /\ token <= filed
    /\ leg = "token" => grant <= elapsed
    /\ leg = "token" /\ reply = "ok" => issued <= latency /\ issued <= fetching
    /\ leg = "api" /\ InLoop
         => token <= ExpireAfter + elapsed \/ token <= MaxLatency + elapsed

\* A body that may have arrived is not sent again: after a broken attempt there is no
\* connection to send it on, and a 5xx of an honest API is no effect.
BodySentOnce ==
    honest /\ InLoop /\ HasBody
      => /\ applied + late <= 1
         /\ pc = "sent" => late = 0 /\ (reply # "ok" => applied = 0)
         /\ pc # "sent" /\ (body = "unread" \/ connection) => late = 0 /\ applied = 0

EffectsKnown ==
    InLoop /\ leg = "api"
      => /\ pc = "sent" => ~connection /\ (HasBody => body = "read")
         /\ Request = "delete" => applied <= 1
         /\ Request \notin Writing => late = 0 /\ applied = 0
         /\ Request \in Writing /\ reply = "ok" => applied > 0

ApiInv == TypeOK /\ Phases /\ AgesKept /\ BodySentOnce /\ EffectsKnown

=============================================================================
