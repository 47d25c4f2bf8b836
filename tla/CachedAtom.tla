------------------------------ MODULE CachedAtom ------------------------------
(***************************************************************************)
(* internal/caching: CachedAtom, the value that is fetched again once it   *)
(* has expired.  The API client keeps its access token and its authority's *)
(* metadata in one each.  Any number of goroutines call Get; they share a  *)
(* sync.RWMutex, which is modelled by what the Go runtime does: a caller   *)
(* of Lock keeps new readers out while it waits for the readers inside,    *)
(* and Unlock lets in all readers that waited before the next writer.      *)
(*                                                                         *)
(* The value is represented by the time at which it was produced, somewhere*)
(* between the call of the retriever and its answer.                       *)
(***************************************************************************)
EXTENDS Integers

CONSTANTS
    Caller,         \* the goroutines
    ExpireAfter,    \* expireAfter
    MaxTime,        \* bound: where the clock stops
    None            \* the zero time, a nil value, no one

ASSUME ExpiryAssumption == ExpireAfter \in Nat /\ MaxTime \in Nat
ASSUME NoneAssumption == None \notin Nat /\ None \notin Caller

VARIABLES
    clock,
    current,            \* the value
    currentFetchedAt,   \* the clock as read before it was fetched
    readers,            \* who holds the mutex for reading
    writer,             \* who holds it for writing, or waits for the readers to leave
    pc,
    began,              \* when the running call began, 0 if none
    now,                \* the clock as read by the caller that fetches
    answer              \* what this step returned: a value, or None (and an error)

vars == <<clock, current, currentFetchedAt, readers, writer, pc, began, now, answer>>

Time == 0..MaxTime

TypeOK ==
    /\ clock \in Time
    /\ current \in Time \cup {None}
    /\ currentFetchedAt \in Time \cup {None}
    /\ readers \subseteq Caller
    /\ writer \in Caller \cup {None}
    /\ pc \in [Caller -> {"idle", "rlock", "check", "hit", "lock", "drain",
                          "recheck", "fetch"}]
    /\ began \in [Caller -> Time]
    /\ now \in Time
    /\ answer \in Time \cup {None}

Init ==
    /\ clock = 0
    /\ current = None
    /\ currentFetchedAt = None
    /\ readers = {}
    /\ writer = None
    /\ pc = [c \in Caller |-> "idle"]
    /\ began = [c \in Caller |-> 0]
    /\ now = 0
    /\ answer = None

-----------------------------------------------------------------------------
(* Helpers *)

\* Sub of the zero time is longer than any expiry.
Expired(at) == currentFetchedAt # None => at - currentFetchedAt > ExpireAfter

Step(c, from, to) == pc[c] = from /\ pc' = [pc EXCEPT ![c] = to]

Silent == answer' = None
Return(c, value) == answer' = value /\ began' = [began EXCEPT ![c] = 0]

\* The end of a call that holds the write lock: readers that wait are let in.
ReturnAndUnlock(c, value) ==
    /\ Return(c, value)
    /\ writer' = None
    /\ readers' = {d \in Caller : pc[d] = "rlock"}
    /\ pc' = [d \in Caller |-> IF d = c THEN "idle"
                               ELSE IF pc[d] = "rlock" THEN "check" ELSE pc[d]]

-----------------------------------------------------------------------------
(* Get *)

Call(c) ==
    /\ Step(c, "idle", "rlock")
    /\ began' = [began EXCEPT ![c] = clock]
    /\ Silent
    /\ UNCHANGED <<clock, current, currentFetchedAt, readers, writer, now>>

RLock(c) ==
    /\ Step(c, "rlock", "check")
    /\ writer = None
    /\ readers' = readers \cup {c}
    /\ Silent
    /\ UNCHANGED <<clock, current, currentFetchedAt, writer, began, now>>

\* The first look at the clock, under the read lock.
Hit(c) ==
    /\ Step(c, "check", "hit")
    /\ ~Expired(clock)
    /\ Silent
    /\ UNCHANGED <<clock, current, currentFetchedAt, readers, writer, began, now>>

Miss_KeepsReadLock(c) ==                                         \* a slip
    /\ Step(c, "check", "lock") /\ Expired(clock) /\ Silent
    /\ UNCHANGED <<clock, current, currentFetchedAt, readers, writer, began, now>>

\* RUnlock; the write lock is not held yet, and others may be faster.
Miss(c) ==
    /\ Step(c, "check", "lock")
    /\ Expired(clock)
    /\ readers' = readers \ {c}
    /\ Silent
    /\ UNCHANGED <<clock, current, currentFetchedAt, writer, began, now>>

ReturnHit(c) ==
    /\ Step(c, "hit", "idle")
    /\ Return(c, current)
    /\ readers' = readers \ {c}
    /\ UNCHANGED <<clock, current, currentFetchedAt, writer, now>>

\* Lock: first among the writers, then wait for the readers that are inside.
Announce(c) ==
    /\ Step(c, "lock", "drain")
    /\ writer = None
    /\ writer' = c
    /\ Silent
    /\ UNCHANGED <<clock, current, currentFetchedAt, readers, began, now>>

Acquire(c) ==
    /\ Step(c, "drain", "recheck")
    /\ readers = {}
    /\ Silent
    /\ UNCHANGED <<clock, current, currentFetchedAt, readers, writer, began, now>>

\* The second look: another caller has fetched in between.
FoundFresh(c) ==
    /\ pc[c] = "recheck"
    /\ ~Expired(clock)
    /\ ReturnAndUnlock(c, current)
    /\ UNCHANGED <<clock, current, currentFetchedAt, now>>

Fetch_Always(c) ==                                               \* a slip
    /\ Step(c, "recheck", "fetch") /\ now' = clock /\ Silent
    /\ UNCHANGED <<clock, current, currentFetchedAt, readers, writer, began>>

Fetch(c) ==
    /\ Step(c, "recheck", "fetch")
    /\ Expired(clock)
    /\ now' = clock
    /\ Silent
    /\ UNCHANGED <<clock, current, currentFetchedAt, readers, writer, began>>

Fetched_StampedLate(c) ==                                        \* a slip
    /\ pc[c] = "fetch"
    /\ \E produced \in now..clock : current' = produced /\ ReturnAndUnlock(c, produced)
    /\ currentFetchedAt' = clock
    /\ UNCHANGED <<clock, now>>

\* Filed under the time before the retriever was called.
Fetched(c) ==
    /\ pc[c] = "fetch"
    /\ \E produced \in now..clock : current' = produced /\ ReturnAndUnlock(c, produced)
    /\ currentFetchedAt' = now
    /\ UNCHANGED <<clock, now>>

FetchFailed(c) ==
    /\ pc[c] = "fetch"
    /\ ReturnAndUnlock(c, None)
    /\ UNCHANGED <<clock, current, currentFetchedAt, now>>

Tick ==
    /\ clock < MaxTime
    /\ clock' = clock + 1
    /\ Silent
    /\ UNCHANGED <<current, currentFetchedAt, readers, writer, pc, began, now>>

-----------------------------------------------------------------------------

Goes(c) ==
    \/ RLock(c) \/ Hit(c) \/ Miss(c) \/ ReturnHit(c)
    \/ Acquire(c) \/ FoundFresh(c) \/ Fetch(c) \/ Fetched(c) \/ FetchFailed(c)

Next == Tick \/ \E c \in Caller : Call(c) \/ Announce(c) \/ Goes(c)

Spec == Init /\ [][Next]_vars

(***************************************************************************)
(* The retriever answers (its requests give up after two minutes), and a   *)
(* mutex among writers is handed to each that waits.  Nobody has to call.  *)
(***************************************************************************)
Fairness == \A c \in Caller : WF_vars(Goes(c)) /\ SF_vars(Announce(c))

FairSpec == Spec /\ Fairness

-----------------------------------------------------------------------------
(* Properties *)

\* A caller is never answered with a value that had expired when it called Get:
\* what is returned was produced at most expireAfter before the call.
AnswerFresh ==
    [][\A c \in Caller : pc[c] # "idle" /\ pc'[c] = "idle" /\ answer' # None
                             => began[c] - answer' <= ExpireAfter]_vars

\* Callers that find the value expired together fetch it once: two successful
\* fetches are more than expireAfter apart (the second check, under the write lock).
FetchSpacing ==
    [][currentFetchedAt # None /\ currentFetchedAt' # currentFetchedAt
         => currentFetchedAt' - currentFetchedAt > ExpireAfter]_vars

\* Every call returns: the read lock is released before the write lock is asked for,
\* and every path gives up the lock it holds.
EveryCallReturns == \A c \in Caller : pc[c] # "idle" ~> pc[c] = "idle"

-----------------------------------------------------------------------------
(* The inductive invariant behind the two action properties *)

\* Whoever is between Lock and Unlock is the writer, and alone once inside.
WriterAlone ==
    \A c \in Caller : /\ pc[c] \in {"drain", "recheck", "fetch"} => writer = c
                      /\ pc[c] \in {"check", "hit"} => c \in readers
                      /\ pc[c] \in {"recheck", "fetch"} => readers = {}

\* The value is no older than the time it is filed under.
StampedBefore ==
    currentFetchedAt # None
      => current # None /\ currentFetchedAt <= current /\ current <= clock

\* What a caller has seen of the clock and the value still holds when it acts on it.
ChecksHold ==
    \A c \in Caller :
      /\ began[c] <= clock
      /\ pc[c] = "hit" => /\ currentFetchedAt # None
                          /\ began[c] - currentFetchedAt <= ExpireAfter
      /\ pc[c] = "fetch" => began[c] <= now /\ now <= clock /\ Expired(now)

\* The lock and the clock together: see the two properties they are for.
AtomInv == TypeOK /\ WriterAlone /\ StampedBefore /\ ChecksHold

=============================================================================
