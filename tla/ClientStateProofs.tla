---------------------------- MODULE ClientStateProofs ----------------------------
(***************************************************************************)
(* The key sets and the plans, for all values of the constants: the lemmas *)
(* that the proofs about one resource and about several have in common.    *)
(***************************************************************************)
EXTENDS ClientState, SequenceTheorems, TLAPS

\* RotateIfNeeded's loop ends at a key of the set.
LEMMA ActiveKeyInKey ==
    ASSUME NEW s \in JwksType, NEW left \in Lifetimes
    PROVE  ActiveKey(s, left) \in Key
<1>1. CASE \E k \in Key : s = <<k>>
  <2>1. PICK k \in Key : s = <<k>>
    BY <1>1
  <2>2. DOMAIN s = {1} /\ s[1] = k
    BY <2>1
  <2>3. EndsLast(s, left, 1)
    BY <2>2 DEF EndsLast, Lifetimes
  <2>4. ActiveKey(s, left) = s[1]
    BY <2>2, <2>3 DEF ActiveKey
  <2> QED
    BY <2>2, <2>4
<1>2. CASE \E k, l \in Key : s = <<k, l>>
  <2>1. PICK k \in Key, l \in Key : s = <<k, l>>
    BY <1>2
  <2>2. DOMAIN s = {1, 2} /\ s[1] = k /\ s[2] = l
    BY <2>1
  <2>3. left[k] \in Int /\ left[l] \in Int
    BY LifetimeAssumption DEF Lifetimes
  <2>4. EndsLast(s, left, 1) \/ EndsLast(s, left, 2)
    BY <2>2, <2>3 DEF EndsLast
  <2>5. (CHOOSE i \in DOMAIN s : EndsLast(s, left, i)) \in DOMAIN s
    BY <2>2, <2>4
  <2> QED
    BY <2>2, <2>5 DEF ActiveKey
<1> QED
  BY <1>1, <1>2 DEF JwksType

\* Whatever the plan, its key set is one or two known keys.
LEMMA PlannedJwksType ==
    ASSUME NEW client, NEW content \in Content \cup {Null}, NEW left \in Lifetimes, NEW k,
           (client = Null \/ content = Null \/ RotationDue(content.jwks, left)) => k \in Key
    PROVE  PlannedJwks(client, content, left, k) \in JwksType
<1>1. CASE client = Null \/ content = Null
  BY <1>1 DEF PlannedJwks, CreateJwks, JwksType
<1>2. CASE client # Null /\ content # Null
  <2>1. content.jwks \in JwksType
    BY <1>2 DEF Content
  <2>2. ActiveKey(content.jwks, left) \in Key
    BY <2>1, ActiveKeyInKey
  <2> QED
    BY <1>2, <2>1, <2>2 DEF PlannedJwks, Rotated, JwksType
<1> QED
  BY <1>1, <1>2

\* Appending one command to another makes the pair of them.
LEMMA PairConcat ==
    ASSUME NEW a, NEW b
    PROVE  <<a>> \o <<b>> = <<a, b>>
<1> DEFINE ab == <<a>> \o <<b>>
           T == {a, b}
<1>1. <<a>> \in Seq(T) /\ <<b>> \in Seq(T) /\ <<a, b>> \in Seq(T)
  OBVIOUS
<1> HIDE DEF T
<1>2. ab \in Seq(T) /\ Len(ab) = 2 /\ ab[1] = a /\ ab[2] = b
  BY <1>1, ConcatProperties
<1>3. \A i \in 1..Len(ab) : ab[i] = <<a, b>>[i]
  BY <1>2
<1> HIDE DEF ab
<1>4. ab = <<a, b>>
  BY <1>1, <1>2, <1>3, SeqEqual
<1> QED
  BY <1>4 DEF ab

\* An optional command is a sequence of at most one.
LEMMA IfShape ==
    ASSUME NEW T, NEW c \in T, NEW condition
    PROVE  If(condition, <<c>>) \in Seq(T) /\ Len(If(condition, <<c>>)) <= 1
<1>1. <<c>> \in Seq(T) /\ Len(<<c>>) = 1 /\ <<>> \in Seq(T) /\ Len(<<>>) = 0
  OBVIOUS
<1> QED
  BY <1>1 DEF If

=============================================================================
