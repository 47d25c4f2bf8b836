---------------------------- MODULE ApiClientProofs ----------------------------
(***************************************************************************)
(* The API client's operations, for all values of the constants: the       *)
(* inductive invariant, its consequences, and the refinement of ApiCall.   *)
(***************************************************************************)
EXTENDS ApiClient, TLAPS

\* Every operation has one or two requests.
LEMMA OneOrTwo ==
    ASSUME NEW o \in DOMAIN Requests
    PROVE  Len(Requests[o]) \in 1..2
<1>1. CASE o = "GetAllClients"
    <2>1. Requests[o] = <<"list">>
        BY <1>1 DEF Requests
    <2> QED
        BY <2>1
<1>2. CASE o = "GetClient"
    <2>1. Requests[o] = <<"get", "getJwks">>
        BY <1>2 DEF Requests
    <2> QED
        BY <2>1
<1>3. CASE o = "CreateClient"
    <2>1. Requests[o] = <<"create", "postJwks">>
        BY <1>3 DEF Requests
    <2> QED
        BY <2>1
<1>4. CASE o = "CreateClientJwks"
    <2>1. Requests[o] = <<"postJwks">>
        BY <1>4 DEF Requests
    <2> QED
        BY <2>1
<1>5. CASE o = "UpdateClient"
    <2>1. Requests[o] = <<"update">>
        BY <1>5 DEF Requests
    <2> QED
        BY <2>1
<1>6. CASE o = "DeleteClient"
    <2>1. Requests[o] = <<"delete">>
        BY <1>6 DEF Requests
    <2> QED
        BY <2>1
<1> QED
    BY <1>1, <1>2, <1>3, <1>4, <1>5, <1>6 DEF Requests

LEMMA TypeInit == Init => TypeOK
<1> SUFFICES ASSUME Init PROVE TypeOK
    OBVIOUS
<1>1. op = Null /\ step = 1 /\ step \in 1..2
    BY DEF Init
<1>2. elapsed \in Age /\ pause \in 0..MaxPause /\ latency \in 0..MaxLatency
    BY AgeAssumption DEF Init, Age
<1>3. fetching \in Age /\ filed \in Age /\ grant \in Age /\ issued \in Age /\ token \in Age
    BY AgeAssumption DEF Init, Age
<1>4. late \in Nat /\ applied \in Nat /\ honest \in BOOLEAN /\ connection \in BOOLEAN
    BY DEF Init
<1> QED
    BY <1>1, <1>2, <1>3, <1>4 DEF Init, TypeOK

\* The steps of a call, split as the proofs below need them.
LEMMA TypePreserved == TypeOK /\ Phases /\ [Next]_vars => TypeOK'
<1> SUFFICES ASSUME TypeOK, Phases, [Next]_vars PROVE TypeOK'
    OBVIOUS
<1> USE AgeAssumption, NullAssumption
<1>len. \A o \in DOMAIN Requests : Len(Requests[o]) \in 1..2
    BY OneOrTwo
<1>older. \A a \in Age : Older(a) \in Age
    BY DEF Age, Older
<1>1. ASSUME NEW o \in DOMAIN Requests, Call(o) PROVE TypeOK'
    <2>1. step = 1
        BY <1>1 DEF Call, Phases
    <2>2. op' = o /\ step' = 1
        BY <1>1, <2>1 DEF Call
    <2>3. Len(Requests[o]) \in 1..2
        BY <1>len
    <2>4. step' <= Len(Requests[op'])
        <3>1. 1 <= Len(Requests[o])
            BY <2>3
        <3> QED
            BY <2>2, <3>1
    <2> QED
        BY <1>1, <2>2, <2>4 DEF Call, TypeOK, retryVars, requestVars, tokenVars, apiVars
<1>2. CASE Invalid
    BY <1>2 DEF Invalid, Return, TypeOK, Age
<1>3. CASE CachedToken
    BY <1>3 DEF CachedToken, StartAttempts, TypeOK, Age, requestVars, tokenVars, apiVars
<1>4. CASE FetchMetadata \/ FetchToken
    BY <1>4 DEF FetchMetadata, FetchToken, Fetch, StartAttempts, TypeOK, Age, requestVars,
                apiVars
<1>5. CASE Send
    BY <1>5 DEF Send, TypeOK, retryVars, tokenVars, apiVars
<1>6. CASE SendFails
    BY <1>6 DEF SendFails, PauseOrGiveUp, Pause, GiveUp, Return, TypeOK, Age
<1>7. CASE Break
    BY <1>7 DEF Break, AttemptOver, PauseOrGiveUp, Pause, GiveUp, Return, TypeOK, Age
<1>8. CASE ServerError
    BY <1>8 DEF ServerError, AttemptOver, ConnectionKept, PauseOrGiveUp, Pause, GiveUp,
                Return, TypeOK, Age
<1>9. CASE Resume
    BY <1>9 DEF Resume, TypeOK, retryVars, requestVars, tokenVars, apiVars
<1>10. CASE Rejected
    BY <1>10 DEF Rejected, AttemptOver, ConnectionKept, Return, TypeOK, Age
<1>11. CASE GotMetadata
    BY <1>11 DEF GotMetadata, AttemptOver, StartAttempts, TypeOK, Age, requestVars
<1>12. CASE GotToken
    BY <1>12 DEF GotToken, AttemptOver, StartAttempts, TypeOK, Age, requestVars
<1>13. CASE Accepted
    <2>1. op \in DOMAIN Requests
        BY <1>13 DEF Accepted, AttemptOver, Phases, TypeOK
    <2>2. Len(Requests[op]) \in 1..2
        BY <2>1, <1>len
    <2>3. connection' \in BOOLEAN /\ latency' = 0 /\ reply' = Null
        BY <1>13 DEF Accepted, AttemptOver, ConnectionKept, TypeOK
    <2>4. CASE step < Len(Requests[op]) /\ NextRequest
        <3>1. op' = op /\ step' = step + 1
            BY <2>4 DEF NextRequest
        <3>2. step + 1 \in 1..2 /\ step + 1 <= Len(Requests[op])
            <4>1. step \in 1..2
                BY DEF TypeOK
            <4>2. \A m, n \in 1..2 : m < n => m + 1 \in 1..2 /\ m + 1 <= n
                OBVIOUS
            <4>3. step < Len(Requests[op])
                BY <2>4
            <4> QED
                BY <2>2, <4>1, <4>2, <4>3
        <3>3. step' \in 1..2 /\ step' <= Len(Requests[op'])
            BY <3>1, <3>2
        <3> QED
            BY <1>13, <2>3, <2>4, <3>1, <3>3 DEF Accepted, NextRequest, TypeOK, Age
    <2>5. CASE Return("success")
        BY <1>13, <2>3, <2>5 DEF Accepted, Return, TypeOK, Age
    <2> QED
        BY <1>13, <2>4, <2>5 DEF Accepted
<1>14. CASE Issue
    BY <1>14 DEF Issue, TypeOK, Age, callVars, retryVars, requestVars
<1>15. CASE Apply
    BY <1>15 DEF Apply, TypeOK, callVars, retryVars, requestVars, tokenVars
<1>16. CASE Answer
    BY <1>16 DEF Answer, TypeOK, callVars, retryVars, requestVars, tokenVars
<1>17. CASE ApplyLate
    BY <1>17 DEF ApplyLate, TypeOK, callVars, retryVars, requestVars, tokenVars
<1>18. CASE Tick
    BY <1>18, <1>older DEF Tick, TypeOK, callVars, requestVars, apiVars
<1>19. CASE UNCHANGED vars
    BY <1>19 DEF vars, TypeOK, callVars, retryVars, requestVars, tokenVars, apiVars
<1> QED
    BY <1>1, <1>2, <1>3, <1>4, <1>5, <1>6, <1>7, <1>8, <1>9, <1>10, <1>11, <1>12, <1>13,
       <1>14, <1>15, <1>16, <1>17, <1>18, <1>19 DEF Next, Proceed

\* What a request needs is there only while the request is.
LEMMA PhasesPreserved == TypeOK /\ Phases /\ [Next]_vars => Phases'
<1> SUFFICES ASSUME TypeOK, Phases, [Next]_vars PROVE Phases'
    OBVIOUS
<1> USE NullAssumption DEF TypeOK
<1>1. ASSUME NEW o \in DOMAIN Requests, Call(o) PROVE Phases'
    BY <1>1 DEF Call, Phases, InLoop, retryVars, requestVars, tokenVars, apiVars
<1>2. CASE Invalid
    BY <1>2 DEF Invalid, Return, Phases, InLoop
<1>3. CASE CachedToken
    BY <1>3 DEF CachedToken, StartAttempts, Expired, Phases, InLoop, requestVars, tokenVars,
             apiVars
<1>4. CASE FetchMetadata \/ FetchToken
    BY <1>4 DEF FetchMetadata, FetchToken, Fetch, StartAttempts, Phases, InLoop,
             requestVars, apiVars
<1>5. CASE Send
    BY <1>5 DEF Send, BodyIsGone, HasBody, Phases, InLoop, retryVars, tokenVars, apiVars
<1>6. CASE SendFails
    BY <1>6 DEF SendFails, PauseOrGiveUp, Pause, GiveUp, Return, Phases, InLoop
<1>7. CASE Break
    BY <1>7 DEF Break, AttemptOver, PauseOrGiveUp, Pause, GiveUp, Return, Phases, InLoop
<1>8. CASE ServerError
    BY <1>8 DEF ServerError, AttemptOver, ConnectionKept, PauseOrGiveUp, Pause, GiveUp,
             Return, Phases, InLoop
<1>9. CASE Resume
    BY <1>9 DEF Resume, Phases, InLoop, retryVars, requestVars, tokenVars, apiVars
<1>10. CASE Rejected
    BY <1>10 DEF Rejected, AttemptOver, Return, Phases, InLoop
<1>11. CASE GotMetadata
    BY <1>11 DEF GotMetadata, AttemptOver, StartAttempts, Phases, InLoop, requestVars
<1>12. CASE GotToken
    BY <1>12 DEF GotToken, AttemptOver, StartAttempts, Phases, InLoop, requestVars
<1>13. CASE Accepted
    BY <1>13 DEF Accepted, AttemptOver, NextRequest, Return, Phases, InLoop
<1>14. CASE Issue
    BY <1>14 DEF Issue, Phases, InLoop, callVars, retryVars, requestVars
<1>15. CASE Apply
    BY <1>15 DEF Apply, Applicable, Gone, Phases, InLoop, callVars, retryVars, requestVars,
              tokenVars
<1>16. CASE Answer
    BY <1>16 DEF Answer, Phases, InLoop, callVars, retryVars, requestVars, tokenVars
<1>17. CASE ApplyLate
    BY <1>17 DEF ApplyLate, Applicable, Gone, Phases, InLoop, callVars, retryVars,
              requestVars, tokenVars
<1>18. CASE Tick
    BY <1>18 DEF Tick, Phases, InLoop, callVars, requestVars, apiVars
<1>19. CASE UNCHANGED vars
    BY <1>19 DEF vars, Phases, InLoop, callVars, retryVars, requestVars, tokenVars, apiVars
<1> QED
    BY <1>1, <1>2, <1>3, <1>4, <1>5, <1>6, <1>7, <1>8, <1>9, <1>10, <1>11, <1>12, <1>13,
       <1>14, <1>15, <1>16, <1>17, <1>18, <1>19 DEF Next, Proceed

\* Credentials are not older than the time that is kept for them.
LEMMA AgesPreserved == TypeOK /\ Phases /\ AgesKept /\ [Next]_vars => AgesKept'
<1> SUFFICES ASSUME TypeOK, Phases, AgesKept, [Next]_vars PROVE AgesKept'
    OBVIOUS
<1> USE AgeAssumption
<1>1. ASSUME NEW o \in DOMAIN Requests, Call(o) PROVE AgesKept'
    BY <1>1 DEF Call, AgesKept, InLoop, Phases, TypeOK, Age, retryVars, requestVars,
             tokenVars, apiVars
<1>2. CASE Invalid
    BY <1>2 DEF Invalid, Return, AgesKept, InLoop, Phases, TypeOK, Age
<1>3. CASE CachedToken
    BY <1>3 DEF CachedToken, StartAttempts, Expired, AgesKept, InLoop, Phases, TypeOK, Age,
             requestVars, tokenVars, apiVars
<1>4. CASE FetchMetadata \/ FetchToken
    <2>1. leg' \in {"metadata", "token"} /\ grant' = 0 /\ elapsed' = 0
        BY <1>4 DEF FetchMetadata, FetchToken, Fetch, StartAttempts
    <2>2. reply' = Null /\ token' = token /\ filed' = filed
        BY <1>4 DEF FetchMetadata, FetchToken, Fetch, Phases, TypeOK, apiVars
    <2> QED
        BY <2>1, <2>2, NullAssumption DEF AgesKept
<1>5. CASE Send
    BY <1>5 DEF Send, BodyIsGone, HasBody, AgesKept, InLoop, Phases, TypeOK, Age, retryVars,
             tokenVars, apiVars
<1>6. CASE SendFails
    <2>1. token' = token /\ filed' = filed /\ reply' = Null
        BY <1>6 DEF SendFails, AttemptOver, Phases
    <2>2. CASE Return("error")
        BY <2>1, <2>2, NullAssumption DEF Return, AgesKept, InLoop
    <2>3. CASE Pause
        <3>1. leg' = leg /\ grant' = grant /\ elapsed' = elapsed /\ InLoop
            BY <1>6, <2>3 DEF Pause, SendFails, AttemptOver, InLoop
        <3> QED
            BY <2>1, <3>1, NullAssumption DEF AgesKept
    <2> QED
        BY <1>6, <2>2, <2>3 DEF SendFails, PauseOrGiveUp, GiveUp
<1>7. CASE Break
    <2>1. token' = token /\ filed' = filed /\ reply' = Null
        BY <1>7 DEF Break, AttemptOver, Phases
    <2>2. CASE Return("error")
        BY <2>1, <2>2, NullAssumption DEF Return, AgesKept, InLoop
    <2>3. CASE Pause
        <3>1. leg' = leg /\ grant' = grant /\ elapsed' = elapsed /\ InLoop
            BY <1>7, <2>3 DEF Pause, Break, AttemptOver, InLoop
        <3> QED
            BY <2>1, <3>1, NullAssumption DEF AgesKept
    <2> QED
        BY <1>7, <2>2, <2>3 DEF Break, PauseOrGiveUp, GiveUp
<1>8. CASE ServerError
    <2>1. token' = token /\ filed' = filed /\ reply' = Null
        BY <1>8 DEF ServerError, AttemptOver, Phases
    <2>2. CASE Return("error")
        BY <2>1, <2>2, NullAssumption DEF Return, AgesKept, InLoop
    <2>3. CASE Pause
        <3>1. leg' = leg /\ grant' = grant /\ elapsed' = elapsed /\ InLoop
            BY <1>8, <2>3 DEF Pause, ServerError, AttemptOver, InLoop
        <3> QED
            BY <2>1, <3>1, NullAssumption DEF AgesKept
    <2> QED
        BY <1>8, <2>2, <2>3 DEF ServerError, PauseOrGiveUp, GiveUp
<1>9. CASE Resume
    BY <1>9 DEF Resume, AgesKept, InLoop, Phases, TypeOK, Age, retryVars, requestVars,
             tokenVars, apiVars
<1>10. CASE Rejected
    BY <1>10 DEF Rejected, AttemptOver, Return, AgesKept, InLoop, Phases, TypeOK, Age
<1>11. CASE GotMetadata
    <2>1. leg' = "token" /\ grant' = 0 /\ elapsed' = 0 /\ reply' = Null
        BY <1>11 DEF GotMetadata, AttemptOver, StartAttempts
    <2>2. token' = token /\ filed' = filed
        BY <1>11 DEF GotMetadata
    <2> QED
        BY <2>1, <2>2, NullAssumption DEF AgesKept
<1>12. CASE GotToken
    BY <1>12 DEF GotToken, AttemptOver, StartAttempts, AgesKept, InLoop, Phases, TypeOK,
              Age, requestVars
<1>13. CASE Accepted
    BY <1>13 DEF Accepted, AttemptOver, NextRequest, Return, AgesKept, InLoop, Phases,
              TypeOK, Age
<1>14. CASE Issue
    BY <1>14 DEF Issue, AgesKept, InLoop, Phases, TypeOK, Age, callVars, retryVars,
              requestVars
<1>15. CASE Apply
    BY <1>15 DEF Apply, Applicable, Gone, AgesKept, InLoop, Phases, TypeOK, Age, callVars,
              retryVars, requestVars, tokenVars
<1>16. CASE Answer
    BY <1>16 DEF Answer, AgesKept, InLoop, Phases, TypeOK, Age, callVars, retryVars,
              requestVars, tokenVars
<1>17. CASE ApplyLate
    BY <1>17 DEF ApplyLate, Applicable, Gone, AgesKept, InLoop, Phases, TypeOK, Age,
              callVars, retryVars, requestVars, tokenVars
<1>18. CASE Tick
    <2> USE DEF Tick, callVars, requestVars, apiVars
    <2>1. leg' = leg /\ pc' = pc /\ reply' = reply
        BY <1>18
    <2>2. \A a, b \in Age : a <= b => Older(a) <= Older(b)
        BY DEF Age, Older
    <2>3. \A a \in Age, b \in Nat : a <= b => Older(a) <= b + 1
        BY DEF Age, Older
    <2>4. token' <= filed'
        BY <1>18, <2>2 DEF AgesKept, TypeOK
    <2>5. ASSUME leg' = "token" PROVE grant' <= elapsed'
        <3>1. elapsed' = Older(elapsed) /\ grant' = Older(grant)
            BY <1>18, <2>1, <2>5 DEF Phases, InLoop
        <3> QED
            BY <2>1, <2>2, <2>5, <3>1 DEF AgesKept, TypeOK
    <2>6. ASSUME leg' = "token", reply' = "ok" PROVE issued' <= latency' /\ issued' <= fetching'
        <3>1. pc = "sent"
            BY <2>1, <2>6, NullAssumption DEF Phases
        <3>2. issued' = Older(issued) /\ fetching' = Older(fetching) /\ latency' = latency + 1
            BY <1>18, <2>1, <2>6, <3>1
        <3>3. issued <= latency /\ issued <= fetching
            BY <2>1, <2>6 DEF AgesKept
        <3>4. issued \in Age /\ fetching \in Age /\ latency \in Nat
            BY DEF TypeOK
        <3> QED
            BY <2>2, <2>3, <3>2, <3>3, <3>4
    <2>7. ASSUME leg' = "api", InLoop'
          PROVE  token' <= ExpireAfter + elapsed' \/ token' <= MaxLatency + elapsed'
        <3>1. token <= ExpireAfter + elapsed \/ token <= MaxLatency + elapsed
            BY <2>1, <2>7 DEF AgesKept, InLoop
        <3>2. elapsed' = Older(elapsed) /\ token' = Older(token)
            BY <1>18, <2>1, <2>7 DEF InLoop
        <3>3. elapsed \in Age /\ token \in Age
            BY DEF TypeOK
        <3>4. \A a, b \in Age, n \in Nat : a <= n + b => Older(a) <= n + Older(b)
            BY DEF Age, Older
        <3> QED
            BY <3>1, <3>2, <3>3, <3>4
    <2> QED
        BY <2>4, <2>5, <2>6, <2>7 DEF AgesKept
<1>19. CASE UNCHANGED vars
    BY <1>19 DEF vars, AgesKept, InLoop, Phases, TypeOK, Age, callVars, retryVars,
              requestVars, tokenVars, apiVars
<1> QED
    BY <1>1, <1>2, <1>3, <1>4, <1>5, <1>6, <1>7, <1>8, <1>9, <1>10, <1>11, <1>12, <1>13,
       <1>14, <1>15, <1>16, <1>17, <1>18, <1>19 DEF Next, Proceed

\* A body that may have arrived is not sent again.
LEMMA BodySentOncePreserved == TypeOK /\ Phases /\ EffectsKnown /\ BodySentOnce /\ [Next]_vars => BodySentOnce'
<1> SUFFICES ASSUME TypeOK, Phases, EffectsKnown, BodySentOnce, [Next]_vars PROVE BodySentOnce'
    OBVIOUS
<1> USE NullAssumption
<1>1. ASSUME NEW o \in DOMAIN Requests, Call(o) PROVE BodySentOnce'
    BY <1>1 DEF Call, BodySentOnce, InLoop, HasBody, Request, Phases, TypeOK, retryVars,
             requestVars, tokenVars, apiVars
<1>2. CASE Invalid
    BY <1>2 DEF Invalid, Return, BodySentOnce, InLoop, HasBody, Request, Phases, TypeOK
<1>3. CASE CachedToken
    BY <1>3 DEF CachedToken, StartAttempts, Expired, BodySentOnce, InLoop, HasBody, Request,
             Phases, TypeOK, requestVars, tokenVars, apiVars
<1>4. CASE FetchMetadata \/ FetchToken
    BY <1>4 DEF FetchMetadata, FetchToken, Fetch, StartAttempts, BodySentOnce, InLoop,
             HasBody, Request, Phases, TypeOK, requestVars, apiVars
<1>5. CASE Send
    BY <1>5 DEF Send, BodyIsGone, HasBody, BodySentOnce, InLoop, HasBody, Request, Phases,
             TypeOK, retryVars, tokenVars, apiVars
<1>6. CASE SendFails
    BY <1>6 DEF SendFails, PauseOrGiveUp, Pause, GiveUp, Return, BodySentOnce, InLoop,
             HasBody, Request, Phases, TypeOK
<1>7. CASE Break
    <2>1. /\ pc = "sent" /\ reply' = Null
          /\ UNCHANGED connection
        BY <1>7 DEF Break, AttemptOver
    <2>2. CASE GiveUp
        BY <1>7, <2>2 DEF Break, GiveUp, Return, BodySentOnce, InLoop
    <2>3. CASE Pause
        <3>1. /\ UNCHANGED <<op, step, leg, body, applied, honest>> /\ pc' = "pause"
              /\ late' = late \/ (late' = late + 1 /\ reply = Null)
            BY <1>7, <2>3 DEF Break, Pause, PauseOrGiveUp, GiveUp, Return
        <3>2. SUFFICES ASSUME honest, HasBody PROVE BodySentOnce'
            BY <3>1 DEF BodySentOnce, HasBody, Request
        <3>3. /\ applied + late <= 1 /\ late = 0 /\ (reply # "ok" => applied = 0)
            BY <2>1, <3>2 DEF BodySentOnce, InLoop
        <3>4. body' = "read" /\ ~connection'
            BY <2>1, <3>1, <3>2 DEF EffectsKnown, InLoop, HasBody
        <3>5. applied' + late' <= 1
            BY <3>1, <3>3, NullAssumption DEF TypeOK
        <3> QED
            BY <3>1, <3>4, <3>5 DEF BodySentOnce
    <2> QED
        BY <1>7, <2>2, <2>3 DEF Break, PauseOrGiveUp
<1>8. CASE ServerError
    BY <1>8 DEF ServerError, AttemptOver, ConnectionKept, PauseOrGiveUp, Pause, GiveUp,
             Return, BodySentOnce, InLoop, HasBody, Request, Phases, TypeOK
<1>9. CASE Resume
    BY <1>9 DEF Resume, BodySentOnce, InLoop, HasBody, Request, Phases, TypeOK, retryVars,
             requestVars, tokenVars, apiVars
<1>10. CASE Rejected
    BY <1>10 DEF Rejected, AttemptOver, Return, BodySentOnce, InLoop, HasBody, Request,
              Phases, TypeOK
<1>11. CASE GotMetadata
    BY <1>11 DEF GotMetadata, AttemptOver, StartAttempts, BodySentOnce, InLoop, HasBody,
              Request, Phases, TypeOK, requestVars
<1>12. CASE GotToken
    BY <1>12 DEF GotToken, AttemptOver, StartAttempts, BodySentOnce, InLoop, HasBody,
              Request, Phases, TypeOK, requestVars
<1>13. CASE Accepted
    BY <1>13 DEF Accepted, AttemptOver, NextRequest, Return, BodySentOnce, InLoop, HasBody,
              Request, Phases, TypeOK
<1>14. CASE Issue
    BY <1>14 DEF Issue, BodySentOnce, InLoop, HasBody, Request, Phases, TypeOK, callVars,
              retryVars, requestVars
<1>15. CASE Apply
    BY <1>15 DEF Apply, Applicable, Gone, BodySentOnce, InLoop, HasBody, Request, Phases,
              TypeOK, callVars, retryVars, requestVars, tokenVars
<1>16. CASE Answer
    BY <1>16 DEF Answer, BodySentOnce, InLoop, HasBody, Request, Phases, TypeOK, callVars,
              retryVars, requestVars, tokenVars
<1>17. CASE ApplyLate
    BY <1>17 DEF ApplyLate, Applicable, Gone, BodySentOnce, InLoop, HasBody, Request,
              Phases, TypeOK, callVars, retryVars, requestVars, tokenVars
<1>18. CASE Tick
    BY <1>18 DEF Tick, BodySentOnce, InLoop, HasBody, Request, Phases, TypeOK, callVars,
              requestVars, apiVars
<1>19. CASE UNCHANGED vars
    BY <1>19 DEF vars, BodySentOnce, InLoop, HasBody, Request, Phases, TypeOK, callVars,
              retryVars, requestVars, tokenVars, apiVars
<1> QED
    BY <1>1, <1>2, <1>3, <1>4, <1>5, <1>6, <1>7, <1>8, <1>9, <1>10, <1>11, <1>12, <1>13,
       <1>14, <1>15, <1>16, <1>17, <1>18, <1>19 DEF Next, Proceed

\* What the API has done is known as far as its answers tell.
LEMMA EffectsPreserved == TypeOK /\ Phases /\ EffectsKnown /\ [Next]_vars => EffectsKnown'
<1> SUFFICES ASSUME TypeOK, Phases, EffectsKnown, [Next]_vars PROVE EffectsKnown'
    OBVIOUS
<1> USE NullAssumption
<1>1. ASSUME NEW o \in DOMAIN Requests, Call(o) PROVE EffectsKnown'
    BY <1>1 DEF Call, EffectsKnown, InLoop, HasBody, Request, Phases, TypeOK, retryVars,
             requestVars, tokenVars, apiVars
<1>2. CASE Invalid
    BY <1>2 DEF Invalid, Return, EffectsKnown, InLoop, HasBody, Request, Phases, TypeOK
<1>3. CASE CachedToken
    BY <1>3 DEF CachedToken, StartAttempts, Expired, EffectsKnown, InLoop, HasBody, Request,
             Phases, TypeOK, requestVars, tokenVars, apiVars
<1>4. CASE FetchMetadata \/ FetchToken
    BY <1>4 DEF FetchMetadata, FetchToken, Fetch, StartAttempts, EffectsKnown, InLoop,
             HasBody, Request, Phases, TypeOK, requestVars, apiVars
<1>5. CASE Send
    BY <1>5 DEF Send, BodyIsGone, HasBody, EffectsKnown, InLoop, HasBody, Request, Phases,
             TypeOK, retryVars, tokenVars, apiVars
<1>6. CASE SendFails
    BY <1>6 DEF SendFails, PauseOrGiveUp, Pause, GiveUp, Return, EffectsKnown, InLoop,
             HasBody, Request, Phases, TypeOK
<1>7. CASE Break
    BY <1>7 DEF Break, AttemptOver, PauseOrGiveUp, Pause, GiveUp, Return, EffectsKnown,
             InLoop, HasBody, Request, Phases, TypeOK
<1>8. CASE ServerError
    BY <1>8 DEF ServerError, AttemptOver, ConnectionKept, PauseOrGiveUp, Pause, GiveUp,
             Return, EffectsKnown, InLoop, HasBody, Request, Phases, TypeOK
<1>9. CASE Resume
    BY <1>9 DEF Resume, EffectsKnown, InLoop, HasBody, Request, Phases, TypeOK, retryVars,
             requestVars, tokenVars, apiVars
<1>10. CASE Rejected
    BY <1>10 DEF Rejected, AttemptOver, Return, EffectsKnown, InLoop, HasBody, Request,
              Phases, TypeOK
<1>11. CASE GotMetadata
    BY <1>11 DEF GotMetadata, AttemptOver, StartAttempts, EffectsKnown, InLoop, HasBody,
              Request, Phases, TypeOK, requestVars
<1>12. CASE GotToken
    BY <1>12 DEF GotToken, AttemptOver, StartAttempts, EffectsKnown, InLoop, HasBody,
              Request, Phases, TypeOK, requestVars
<1>13. CASE Accepted
    BY <1>13 DEF Accepted, AttemptOver, NextRequest, Return, EffectsKnown, InLoop, HasBody,
              Request, Phases, TypeOK
<1>14. CASE Issue
    BY <1>14 DEF Issue, EffectsKnown, InLoop, HasBody, Request, Phases, TypeOK, callVars,
              retryVars, requestVars
<1>15. CASE Apply
    <2>1. UNCHANGED <<op, step, leg, pc, body, connection>> /\ applied' = applied + 1 /\ late' = late
        BY <1>15 DEF Apply, callVars, requestVars
    <2>2. Request' = Request /\ Request \in Writing /\ ~Gone
        BY <1>15, <2>1 DEF Apply, Applicable, Request
    <2>3. applied \in Nat /\ (Request = "delete" => applied = 0)
        BY <2>2 DEF Gone, TypeOK
    <2>4. applied' > 0 /\ (Request' = "delete" => applied' <= 1)
        BY <2>1, <2>2, <2>3
    <2>5. pc' = "sent" => ~connection' /\ (HasBody' => body' = "read")
        BY <1>15, <2>1, <2>2 DEF Apply, EffectsKnown, InLoop, HasBody
    <2> QED
        BY <2>2, <2>4, <2>5 DEF EffectsKnown
<1>16. CASE Answer
    BY <1>16 DEF Answer, EffectsKnown, InLoop, HasBody, Request, Phases, TypeOK, callVars,
              retryVars, requestVars, tokenVars
<1>17. CASE ApplyLate
    <2>1. UNCHANGED <<op, step, leg, pc, body, connection, reply>>
        BY <1>17 DEF ApplyLate, callVars, requestVars
    <2>2. Request' = Request
        BY <2>1 DEF Request
    <2>3. applied' = (IF Applicable THEN applied + 1 ELSE applied) /\ late > 0
        BY <1>17 DEF ApplyLate
    <2>4. applied \in Nat /\ late \in Nat
        BY DEF TypeOK
    <2>5. applied' >= applied /\ (Request = "delete" /\ applied <= 1 => applied' <= 1)
        BY <2>3, <2>4 DEF Applicable, Gone
    <2>6. CASE InLoop /\ leg = "api"
        <3>1. Request \in Writing
            BY <2>3, <2>4, <2>6 DEF EffectsKnown
        <3>2. InLoop' /\ leg' = "api"
            BY <2>1, <2>6 DEF InLoop
        <3>3. pc' = "sent" => ~connection' /\ (HasBody' => body' = "read")
            BY <2>1, <2>2, <2>6 DEF EffectsKnown, HasBody
        <3>4. Request' = "delete" => applied' <= 1
            BY <2>2, <2>5, <2>6 DEF EffectsKnown
        <3>5. reply' = "ok" => applied' > 0
            <4>1. ASSUME reply = "ok" PROVE applied > 0
                BY <2>6, <3>1, <4>1 DEF EffectsKnown
            <4>2. applied' \in Nat
                BY <2>3, <2>4
            <4> QED
                BY <2>1, <2>4, <2>5, <4>1, <4>2
        <3> QED
            BY <2>2, <3>1, <3>3, <3>4, <3>5 DEF EffectsKnown
    <2>7. CASE ~(InLoop /\ leg = "api")
        BY <2>1, <2>7 DEF EffectsKnown, InLoop
    <2> QED
        BY <2>6, <2>7
<1>18. CASE Tick
    BY <1>18 DEF Tick, EffectsKnown, InLoop, HasBody, Request, Phases, TypeOK, callVars,
              requestVars, apiVars
<1>19. CASE UNCHANGED vars
    BY <1>19 DEF vars, EffectsKnown, InLoop, HasBody, Request, Phases, TypeOK, callVars,
              retryVars, requestVars, tokenVars, apiVars
<1> QED
    BY <1>1, <1>2, <1>3, <1>4, <1>5, <1>6, <1>7, <1>8, <1>9, <1>10, <1>11, <1>12, <1>13,
       <1>14, <1>15, <1>16, <1>17, <1>18, <1>19 DEF Next, Proceed

-----------------------------------------------------------------------------

LEMMA InvInit == Init => ApiInv
<1> SUFFICES ASSUME Init PROVE ApiInv
    OBVIOUS
<1>1. TypeOK
    BY TypeInit
<1>2. pc = "idle" /\ leg = "api" /\ op = Null /\ step = 1
    BY DEF Init
<1>3. Phases
    BY <1>2, NullAssumption DEF Init, Phases, InLoop
<1>4. AgesKept
    BY <1>2, AgeAssumption DEF Init, AgesKept, InLoop
<1>5. BodySentOnce /\ EffectsKnown
    BY <1>2 DEF BodySentOnce, EffectsKnown, InLoop
<1> QED
    BY <1>1, <1>3, <1>4, <1>5 DEF ApiInv

LEMMA InvStep == ApiInv /\ [Next]_vars => ApiInv'
BY TypePreserved, PhasesPreserved, AgesPreserved, BodySentOncePreserved, EffectsPreserved
   DEF ApiInv

\* What a request needs is there only while it is; its credential is no older than the
\* client believes; a body that may have arrived is not sent again (retryableHTTPDo).
THEOREM ApiInvariance == Spec => []ApiInv
<1>1. Init => ApiInv
    BY InvInit
<1>2. ApiInv /\ [Next]_vars => ApiInv'
    BY InvStep
<1> QED
    BY <1>1, <1>2, PTL DEF Spec

LEMMA AuthorizedInState == ApiInv => FirstAttemptAuthorized
<1> SUFFICES ASSUME ApiInv, pc = "send", elapsed = 0
             PROVE  /\ leg = "token" => grant <= GrantLife
                    /\ leg = "api" => token <= TokenLife
    BY DEF FirstAttemptAuthorized
<1>1. grant \in Nat /\ token \in Nat
    BY AgeAssumption DEF ApiInv, TypeOK, Age
<1>2. leg = "token" => grant <= 0
    BY DEF ApiInv, AgesKept
<1>3. leg = "api" => token <= ExpireAfter + 0 \/ token <= MaxLatency + 0
    BY DEF ApiInv, AgesKept, InLoop
<1> QED
    BY <1>1, <1>2, <1>3, AgeAssumption, LifeAssumption

\* Whatever the lifetimes and the latencies are, as long as a cached token is dropped
\* before it expires and one that is fetched arrives before it does: the first attempt
\* of no request carries a credential that is too old.
THEOREM FirstAttempt == Spec => []FirstAttemptAuthorized
BY ApiInvariance, AuthorizedInState, PTL

LEMMA AppliedInState == ApiInv => AppliedAtMostOnce
<1> SUFFICES ASSUME ApiInv, honest PROVE applied <= 1
    BY DEF AppliedAtMostOnce
<1>1. applied \in Nat /\ late \in Nat
    BY DEF ApiInv, TypeOK
<1>2. CASE ~InLoop \/ leg # "api"
    BY <1>2 DEF ApiInv, Phases
<1>3. CASE InLoop /\ leg = "api"
    <2>1. CASE Request \in WithBody
        <3>1. applied + late <= 1
            BY <1>3, <2>1 DEF ApiInv, BodySentOnce, HasBody
        <3> QED
            BY <1>1, <3>1
    <2>2. CASE Request = "delete"
        BY <1>3, <2>2 DEF ApiInv, EffectsKnown
    <2>3. CASE Request \notin Writing
        BY <1>3, <2>3 DEF ApiInv, EffectsKnown
    <2> QED
        BY <2>1, <2>2, <2>3 DEF Writing
<1> QED
    BY <1>2, <1>3

\* However long the API may be retried: one effect of each request.
THEOREM AtMostOnce == Spec => []AppliedAtMostOnce
BY ApiInvariance, AppliedInState, PTL

-----------------------------------------------------------------------------
(* The refinement of ApiCall *)

LEMMA AbstractInit == Init => Abstract!Init
BY DEF Init, Abstract!Init

\* A request that returns with an error is a failure of the operation.
LEMMA ReturnFails == ApiInv /\ pc # "idle" /\ Return("error") /\ UNCHANGED honest
                       => Abstract!Fail
BY DEF Return, Abstract!Fail, Abstract!End, ApiInv, Phases

\* One more effect is one the abstract operation allows.
LEMMA EffectAllowed ==
    ASSUME ApiInv, ApiInv', UNCHANGED <<op, step, honest, outcome>>,
           InLoop, leg = "api", Request \in Writing, applied' = applied + 1
    PROVE  Abstract!TakeEffect
<1>1. op # Null
    BY DEF ApiInv, Phases, InLoop
<1>2. AppliedAtMostOnce'
    BY AppliedInState, PTL
<1>3. honest => applied = 0
    BY <1>2 DEF AppliedAtMostOnce, ApiInv, TypeOK
<1> QED
    BY <1>1, <1>3 DEF Abstract!TakeEffect, Request

LEMMA AbstractStep ==
    ApiInv /\ ApiInv' /\ [Next]_vars => [Abstract!Next]_Abstract!vars
<1> SUFFICES ASSUME ApiInv, ApiInv', [Next]_vars PROVE [Abstract!Next]_Abstract!vars
    OBVIOUS
<1> DEFINE Stutters == UNCHANGED <<op, step, applied, honest, outcome>>
<1>stutter. Stutters => [Abstract!Next]_Abstract!vars
    BY DEF Abstract!vars
<1>fail. Abstract!Fail => [Abstract!Next]_Abstract!vars
    BY DEF Abstract!Next
<1>effect. Abstract!TakeEffect => [Abstract!Next]_Abstract!vars
    BY DEF Abstract!Next
<1> HIDE DEF Stutters
<1>1. ASSUME NEW o \in DOMAIN Requests, Call(o) PROVE [Abstract!Next]_Abstract!vars
    <2>1. Abstract!Invoke(o)
        BY <1>1 DEF Call, Abstract!Invoke, apiVars
    <2> QED
        BY <2>1 DEF Abstract!Next
<1>2. CASE Invalid
    BY <1>2, <1>fail, ReturnFails DEF Invalid
<1>3. CASE CachedToken
    BY <1>3, <1>stutter DEF CachedToken, Stutters, apiVars
<1>4. CASE FetchMetadata \/ FetchToken
    BY <1>4, <1>stutter DEF FetchMetadata, FetchToken, Fetch, Stutters, apiVars
<1>5. CASE Send
    BY <1>5, <1>stutter DEF Send, Stutters, apiVars
<1>6. CASE SendFails
    BY <1>6, <1>stutter, <1>fail, ReturnFails
       DEF SendFails, PauseOrGiveUp, Pause, GiveUp, Stutters
<1>7. CASE Break
    BY <1>7, <1>stutter, <1>fail, ReturnFails
       DEF Break, AttemptOver, PauseOrGiveUp, Pause, GiveUp, Stutters
<1>8. CASE ServerError
    BY <1>8, <1>stutter, <1>fail, ReturnFails
       DEF ServerError, AttemptOver, PauseOrGiveUp, Pause, GiveUp, Stutters
<1>9. CASE Resume
    BY <1>9, <1>stutter DEF Resume, Stutters, apiVars
<1>10. CASE Rejected
    BY <1>10, <1>fail, ReturnFails DEF Rejected, AttemptOver
<1>11. CASE GotMetadata
    BY <1>11, <1>stutter DEF GotMetadata, Stutters
<1>12. CASE GotToken
    BY <1>12, <1>stutter DEF GotToken, Stutters
<1>13. CASE Accepted
    <2>1. pc = "sent" /\ leg = "api" /\ reply = "ok" /\ UNCHANGED honest
        BY <1>13 DEF Accepted, AttemptOver
    <2>2. Abstract!Done
        BY <2>1 DEF Abstract!Done, ApiInv, EffectsKnown, InLoop, Request
    <2>3. op # Null
        BY <2>1 DEF ApiInv, Phases
    <2>4. CASE step < Len(Requests[op]) /\ NextRequest
        <3>1. Abstract!Advance
            BY <2>1, <2>2, <2>3, <2>4 DEF NextRequest, Abstract!Advance
        <3> QED
            BY <3>1 DEF Abstract!Next
    <2>5. CASE ~(step < Len(Requests[op])) /\ Return("success")
        <3>1. step = Len(Requests[op])
            <4>1. op \in DOMAIN Requests /\ step \in 1..2 /\ step <= Len(Requests[op])
                BY <2>3 DEF ApiInv, TypeOK
            <4>2. Len(Requests[op]) \in 1..2
                BY <4>1, OneOrTwo
            <4>3. \A m, n \in 1..2 : m <= n /\ ~(m < n) => m = n
                OBVIOUS
            <4> QED
                BY <2>5, <4>1, <4>2, <4>3
        <3>2. Abstract!Succeed
            BY <2>1, <2>2, <2>3, <2>5, <3>1 DEF Return, Abstract!Succeed, Abstract!End
        <3> QED
            BY <3>2 DEF Abstract!Next
    <2> QED
        BY <1>13, <2>4, <2>5 DEF Accepted
<1>14. CASE Issue
    BY <1>14, <1>stutter DEF Issue, callVars, Stutters
<1>15. CASE Apply
    <2>1. /\ InLoop /\ leg = "api" /\ Request \in Writing /\ applied' = applied + 1
          /\ UNCHANGED <<op, step, honest, outcome>>
        BY <1>15 DEF Apply, Applicable, InLoop, callVars
    <2> QED
        BY <2>1, <1>effect, EffectAllowed
<1>16. CASE Answer
    BY <1>16, <1>stutter DEF Answer, callVars, Stutters
<1>17. CASE ApplyLate
    <2>1. late > 0 /\ UNCHANGED <<op, step, honest, outcome>>
        BY <1>17 DEF ApplyLate, callVars
    <2>2. InLoop /\ leg = "api"
        BY <2>1 DEF ApiInv, Phases, TypeOK
    <2>3. CASE Applicable
        <3>1. Request \in Writing /\ applied' = applied + 1
            BY <1>17, <2>3 DEF ApplyLate, Applicable
        <3> QED
            BY <2>1, <2>2, <3>1, <1>effect, EffectAllowed
    <2>4. CASE ~Applicable
        BY <1>17, <2>4, <1>stutter DEF ApplyLate, callVars, Stutters
    <2> QED
        BY <2>3, <2>4
<1>18. CASE Tick
    BY <1>18, <1>stutter DEF Tick, callVars, apiVars, Stutters
<1>19. CASE UNCHANGED vars
    BY <1>19, <1>stutter DEF vars, callVars, apiVars, Stutters
<1> QED
    BY <1>1, <1>2, <1>3, <1>4, <1>5, <1>6, <1>7, <1>8, <1>9, <1>10, <1>11, <1>12, <1>13,
       <1>14, <1>15, <1>16, <1>17, <1>18, <1>19 DEF Next, Proceed

\* An operation of HttpApiClient, with its tokens, its retries and what the network does
\* to them, is the operation the reconciler takes it to be: its requests in order, each
\* at most once when the API's 5xx answers are honest, all of them when it succeeds.
THEOREM ImplementsCall == Spec => ImplementsApiCall
<1>1. Init => Abstract!Init
    BY AbstractInit
<1>2. ApiInv /\ ApiInv' /\ [Next]_vars => [Abstract!Next]_Abstract!vars
    BY AbstractStep
<1> QED
    BY <1>1, <1>2, ApiInvariance, PTL DEF Spec, ImplementsApiCall, Abstract!Spec

=============================================================================
