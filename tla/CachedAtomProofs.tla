--------------------------- MODULE CachedAtomProofs ---------------------------
(***************************************************************************)
(* For any number of callers, any expiry and any bound on the clock: an    *)
(* answer is fresh, and fetches are spaced.  The locking discipline gives  *)
(* the invariant (WriterAlone keeps the value still while a caller acts on *)
(* its look at the clock), and each action property is about the one step  *)
(* that returns, or that stores.                                           *)
(***************************************************************************)
EXTENDS CachedAtom, TLAPS

USE ExpiryAssumption, NoneAssumption

\* NewCachedAtom starts with the zero time and nobody inside.
LEMMA InitAtom == Init => AtomInv
  BY DEF Init, AtomInv, TypeOK, WriterAlone, StampedBefore, ChecksHold, Time

\* Steps of Get that leave the value, its stamp and the clock alone, and do not
\* give up the write lock.
LEMMA WaitingStep ==
  ASSUME AtomInv, NEW c \in Caller,
         Call(c) \/ RLock(c) \/ Hit(c) \/ Miss(c) \/ ReturnHit(c) \/ Announce(c)
           \/ Acquire(c) \/ Fetch(c)
  PROVE  AtomInv'
<1> USE DEF AtomInv, TypeOK, Time
<1>1. CASE Call(c)
  BY <1>1 DEF Call, Step, Silent, WriterAlone, StampedBefore, ChecksHold, Expired
<1>2. CASE RLock(c)
  BY <1>2 DEF RLock, Step, Silent, WriterAlone, StampedBefore, ChecksHold, Expired
<1>3. CASE Hit(c)
  BY <1>3 DEF Hit, Step, Silent, WriterAlone, StampedBefore, ChecksHold, Expired
<1>4. CASE Miss(c)
  BY <1>4 DEF Miss, Step, Silent, WriterAlone, StampedBefore, ChecksHold, Expired
<1>5. CASE ReturnHit(c)
  BY <1>5 DEF ReturnHit, Step, Return, WriterAlone, StampedBefore, ChecksHold, Expired
<1>6. CASE Announce(c)
  BY <1>6 DEF Announce, Step, Silent, WriterAlone, StampedBefore, ChecksHold, Expired
<1>7. CASE Acquire(c)
  BY <1>7 DEF Acquire, Step, Silent, WriterAlone, StampedBefore, ChecksHold, Expired
<1>8. CASE Fetch(c)
  BY <1>8 DEF Fetch, Step, Silent, WriterAlone, StampedBefore, ChecksHold, Expired
<1> QED
  BY <1>1, <1>2, <1>3, <1>4, <1>5, <1>6, <1>7, <1>8

\* Steps that give up the write lock: the writer was alone, so nobody else's look at
\* the clock is about the value it may have stored.
LEMMA UnlockingStep ==
  ASSUME AtomInv, NEW c \in Caller, FoundFresh(c) \/ Fetched(c) \/ FetchFailed(c)
  PROVE  AtomInv'
<1> USE DEF AtomInv, TypeOK, Time
<1>1. \A d \in Caller : d # c => pc[d] \notin {"check", "hit", "drain", "recheck", "fetch"}
  BY DEF FoundFresh, Fetched, FetchFailed, WriterAlone
<1>2. CASE FoundFresh(c)
  BY <1>1, <1>2 DEF FoundFresh, ReturnAndUnlock, Return, WriterAlone, StampedBefore, ChecksHold, Expired
<1>3. CASE Fetched(c)
  BY <1>1, <1>3 DEF Fetched, ReturnAndUnlock, Return, WriterAlone, StampedBefore, ChecksHold, Expired
<1>4. CASE FetchFailed(c)
  BY <1>1, <1>4 DEF FetchFailed, ReturnAndUnlock, Return, WriterAlone, StampedBefore, ChecksHold, Expired
<1> QED
  BY <1>2, <1>3, <1>4

\* The invariant is inductive.
LEMMA NextAtom == AtomInv /\ [Next]_vars => AtomInv'
<1> SUFFICES ASSUME AtomInv, [Next]_vars PROVE AtomInv'
  OBVIOUS
<1>1. CASE Tick
  BY <1>1 DEF Tick, Silent, AtomInv, TypeOK, Time, WriterAlone, StampedBefore, ChecksHold, Expired
<1>2. CASE UNCHANGED vars
  BY <1>2 DEF vars, AtomInv, TypeOK, Time, WriterAlone, StampedBefore, ChecksHold, Expired
<1>3. ASSUME NEW c \in Caller, Call(c) \/ Announce(c) \/ Goes(c) PROVE AtomInv'
  BY <1>3, WaitingStep, UnlockingStep DEF Goes
<1> QED
  BY <1>1, <1>2, <1>3 DEF Next

\* CachedAtom.Get keeps its lock discipline and never acts on a look at the clock
\* that no longer holds.
THEOREM AtomInvariance == Spec => []AtomInv
  BY InitAtom, NextAtom, PTL DEF Spec

\* A call of Get ends in one of four ways; in each the answer is no older than
\* expireAfter was, counted back from the beginning of the call.
LEMMA FreshStep ==
  ASSUME AtomInv, [Next]_vars, NEW c \in Caller,
         pc[c] # "idle", pc'[c] = "idle", answer' # None
  PROVE  began[c] - answer' <= ExpireAfter
<1> USE DEF AtomInv, TypeOK, Time
<1>1. PICK d \in Caller : ReturnHit(d) \/ FoundFresh(d) \/ Fetched(d) \/ FetchFailed(d)
  BY DEF Next, vars, Tick, Silent, Call, Announce, Goes, RLock, Hit, Miss, Acquire, Fetch
<1>2. d = c
  BY <1>1 DEF ReturnHit, FoundFresh, Fetched, FetchFailed, Step, ReturnAndUnlock
<1>3. CASE ReturnHit(c)
  BY <1>3 DEF ReturnHit, Step, Return, ChecksHold, StampedBefore
<1>4. CASE FoundFresh(c)
  BY <1>4 DEF FoundFresh, ReturnAndUnlock, Return, Expired, ChecksHold, StampedBefore
<1>5. CASE Fetched(c)
  BY <1>5 DEF Fetched, ReturnAndUnlock, Return, ChecksHold
<1>6. CASE FetchFailed(c)
  BY <1>6 DEF FetchFailed, ReturnAndUnlock, Return
<1> QED
  BY <1>1, <1>2, <1>3, <1>4, <1>5, <1>6

\* Get never answers with a value that had expired when it was called.
THEOREM AnswersAreFresh == Spec => AnswerFresh
<1>1. AtomInv /\ [Next]_vars
        => [\A c \in Caller : pc[c] # "idle" /\ pc'[c] = "idle" /\ answer' # None
                                => began[c] - answer' <= ExpireAfter]_vars
  BY FreshStep
<1> QED
  BY <1>1, AtomInvariance, PTL DEF Spec, AnswerFresh

\* Only Fetched stores, and its caller has checked the expiry under the write lock.
LEMMA SpacedStep ==
  ASSUME AtomInv, [Next]_vars, currentFetchedAt # None,
         currentFetchedAt' # currentFetchedAt
  PROVE  currentFetchedAt' - currentFetchedAt > ExpireAfter
<1>1. PICK c \in Caller : Fetched(c)
  BY DEF Next, vars, Tick, Call, Announce, Goes, RLock, Hit, Miss, ReturnHit, Acquire,
         FoundFresh, Fetch, FetchFailed
<1> QED
  BY <1>1 DEF Fetched, AtomInv, ChecksHold, Expired

\* However many callers find the value expired, the retriever is not asked again
\* within expireAfter of its last success.
THEOREM FetchesAreSpaced == Spec => FetchSpacing
<1>1. AtomInv /\ [Next]_vars
        => [currentFetchedAt # None /\ currentFetchedAt' # currentFetchedAt
              => currentFetchedAt' - currentFetchedAt > ExpireAfter]_vars
  BY SpacedStep
<1> QED
  BY <1>1, AtomInvariance, PTL DEF Spec, FetchSpacing

=============================================================================
