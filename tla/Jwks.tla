-------------------------------- MODULE Jwks --------------------------------
(***************************************************************************)
(* The key sets of internal/crypto: a JWKS is the ordered list of a        *)
(* client's keys, newest first, each key carrying one certificate.  A key  *)
(* is a model value; the only thing the program reads from a certificate   *)
(* is how far its NotAfter lies ahead of the clock, so the certificates    *)
(* are a function `remaining' from keys to the ticks they have left, which *)
(* saturates at 0 once the certificate has expired.                        *)
(***************************************************************************)
EXTENDS Naturals, Sequences, Functions

CONSTANTS
    Key,                \* the keys the random source can yield
    Lifetime,           \* ticks from creation to NotAfter (30 days)
    RotationThreshold   \* ticks before NotAfter at which a key is due (7 days)

ASSUME LifetimeAssumption ==
    /\ Lifetime \in Nat
    /\ RotationThreshold \in Nat
    /\ RotationThreshold < Lifetime

(***************************************************************************)
(* A document holds the key it was created with, or that key and the one   *)
(* it replaced: RotateIfNeeded never keeps a third.                        *)
(***************************************************************************)
JwksType == {<<k>> : k \in Key} \cup {<<k, l>> : k, l \in Key}

Lifetimes == [Key -> 0..Lifetime]

(***************************************************************************)
(* CreateJwks: one key whose certificate ends at getNotAfter.              *)
(***************************************************************************)
CreateJwks(k) == <<k>>

(***************************************************************************)
(* The loop of RotateIfNeeded: the key with the latest NotAfter, and the   *)
(* first of them when several end together.                                *)
(***************************************************************************)
EndsLast(jwks, remaining, i) ==
    \A j \in DOMAIN jwks :
        /\ remaining[jwks[j]] <= remaining[jwks[i]]
        /\ j < i => remaining[jwks[j]] < remaining[jwks[i]]

ActiveKey(jwks, remaining) ==
    jwks[CHOOSE i \in DOMAIN jwks : EndsLast(jwks, remaining, i)]

RotationDue(jwks, remaining) ==
    remaining[ActiveKey(jwks, remaining)] <= RotationThreshold

(***************************************************************************)
(* The result of RotateIfNeeded when the active key is due: the new key in *)
(* front of the active one, every other key dropped.                       *)
(***************************************************************************)
Rotated_KeepsEveryKey(jwks, remaining, k) == <<k>> \o jwks    \* slips
Rotated_NewestLast(jwks, remaining, k) == <<ActiveKey(jwks, remaining), k>>

Rotated(jwks, remaining, k) == <<k, ActiveKey(jwks, remaining)>>

(***************************************************************************)
(* ToPublic keeps every key of the set: what the API registers.            *)
(***************************************************************************)
ToPublic_NewestOnly(jwks) == {jwks[1]}                         \* a slip

ToPublic(jwks) == Range(jwks)

=============================================================================
