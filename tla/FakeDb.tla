-------------------------------- MODULE FakeDb --------------------------------
(***************************************************************************)
(* internal/fakes and cmd/maskinporten_fakes: the stand-in for Maskinporten*)
(* and its self-service API that the operator is run against in tests.     *)
(* Each run of the operator has a database of its own: a slice of client   *)
(* records and an index from client ids to places in it.  An operator has  *)
(* one request under way at a time, so a handler is one step.              *)
(*                                                                         *)
(* A record keeps its id and its key set (a model value, Null for nil); the*)
(* other fields of a client are copied from the request.                   *)
(***************************************************************************)
EXTENDS Naturals, Sequences, FiniteSets, Functions

CONSTANTS
    Id,             \* the client ids uuid.New can yield
    Supplier,       \* the id of the operator's own client
    KeySet,         \* the key sets the operator registers for apps
    SupplierKeys,   \* the key set of the operator's own client
    Null

ASSUME FakeAssumption ==
    /\ Supplier \notin Id
    /\ SupplierKeys \notin KeySet
    /\ Null \notin KeySet \cup {SupplierKeys}

VARIABLES
    clients,        \* Db.Clients
    clientIdIndex,  \* Db.ClientIdIndex, counted from 1
    panicked        \* the last request ended in a panic

vars == <<clients, clientIdIndex, panicked>>

ClientRecord == [clientId : Id \cup {Supplier}, jwks : KeySet \cup {SupplierKeys, Null}]

(***************************************************************************)
(* The operations of Db, on a database db of records and their index.      *)
(***************************************************************************)
Db == [clients |-> clients, index |-> clientIdIndex]
Has(id) == id \in DOMAIN clientIdIndex

NewDb == [clients |-> <<>>, index |-> [id \in {} |-> 0]]

\* A client without a name, or one that exists already, is refused.
Insert(db, named, id, jwks) ==
    IF ~named \/ id \in DOMAIN db.index THEN db
    ELSE [clients |-> Append(db.clients, [clientId |-> id, jwks |-> jwks]),
          index |-> [i \in DOMAIN db.index \cup {id} |->
                       IF i = id THEN Len(db.clients) + 1 ELSE db.index[i]]]

\* A slip: the entry stays, and the Insert that follows is refused.
Delete_KeepsEntry(db, id) ==
    LET last == Len(db.clients)
    IN [clients |-> SubSeq([db.clients EXCEPT ![db.index[id]] = db.clients[last]], 1, last - 1),
        index |-> db.index]

\* The last record takes the place of the one that goes; its entry is left as it was.
Delete(db, id) ==
    LET last == Len(db.clients)
    IN [clients |-> SubSeq([db.clients EXCEPT ![db.index[id]] = db.clients[last]], 1, last - 1),
        index |-> Restrict(db.index, DOMAIN db.index \ {id})]

\* Get panics when the entry leads to another client's record.
GetPanics(id) == Has(id) /\ clients[clientIdIndex[id]].clientId # id

Become(db) == clients' = db.clients /\ clientIdIndex' = db.index

(***************************************************************************)
(* The first request of a run finds the operator's own client.             *)
(***************************************************************************)
Init ==
    LET db == Insert(NewDb, TRUE, Supplier, SupplierKeys)
    IN clients = db.clients /\ clientIdIndex = db.index /\ panicked = FALSE

(***************************************************************************)
(* The handlers.  A request for a client the index does not have is        *)
(* answered with an error.                                                 *)
(***************************************************************************)
PostClient(id, named) ==
    /\ ~Has(id)
    /\ \A i \in DOMAIN clients : clients[i].clientId # id
    /\ Become(Insert(Db, named, id, Null))
    /\ panicked' = FALSE

\* A slip: the zero value of a missing entry is taken for a place.
PutClient_UnknownIsFirst(id, named) ==
    /\ LET place == IF Has(id) THEN clientIdIndex[id] ELSE 1
           known == [i \in DOMAIN clientIdIndex \cup {id} |->
                       IF i = id THEN place ELSE clientIdIndex[i]]
       IN Become(Insert(Delete([Db EXCEPT !.index = known], id), named, id, Null))
    /\ panicked' = FALSE

\* An update replaces the record, and its key set by nil.  One that Insert refuses has
\* already deleted it: the entry of the last record, which moved, leads out of the slice.
PutClient(id, named) ==
    /\ Has(id)
    /\ Become(Insert(Delete(Db, id), named, id, Null))
    /\ panicked' = FALSE

PostJwks(id, jwks) ==
    /\ Has(id)
    /\ clients' = [clients EXCEPT ![clientIdIndex[id]].jwks = jwks]
    /\ panicked' = FALSE
    /\ UNCHANGED clientIdIndex

GetClient(id) ==
    /\ panicked' = GetPanics(id)
    /\ UNCHANGED <<clients, clientIdIndex>>

\* DELETE is answered and does nothing.
DeleteClient(id) ==
    /\ panicked' = FALSE
    /\ UNCHANGED <<clients, clientIdIndex>>

\* The token endpoint looks for the one record that has the key.
TokenFor(jwks) ==
    LET found == {i \in DOMAIN clients : clients[i].jwks = jwks}
    IN IF Cardinality(found) = 1 THEN clients[CHOOSE i \in found : TRUE].clientId ELSE Null

\* What the operator sends: buildApiReq names every client it creates or updates.
Next ==
    \E id \in Id :
        \/ PostClient(id, TRUE) \/ PutClient(id, TRUE) \/ GetClient(id) \/ DeleteClient(id)
        \/ \E jwks \in KeySet : PostJwks(id, jwks)

Spec == Init /\ [][Next]_vars

-----------------------------------------------------------------------------
(* Properties *)

\* No sequence of an operator's requests takes an entry of the index out of the slice: there are
\* as many records as entries, whichever record they lead to.
IndexInRange ==
    /\ Len(clients) = Cardinality(DOMAIN clientIdIndex)
    /\ \A id \in DOMAIN clientIdIndex : clientIdIndex[id] \in DOMAIN clients

\* Whatever an operator does to its apps' clients, it can still get a token: its own
\* record stays where it is, found by its id and by its key.
SupplierAuthenticates ==
    /\ TokenFor(SupplierKeys) = Supplier
    /\ ~GetPanics(Supplier)

-----------------------------------------------------------------------------
(* The inductive invariant: the operator's own client stays first, and no  *)
(* entry or record of an app is ever taken for it.                         *)

SupplierFirst ==
    /\ clients # <<>> /\ Supplier \in DOMAIN clientIdIndex
    /\ clientIdIndex[Supplier] = 1
    /\ clients[1] = [clientId |-> Supplier, jwks |-> SupplierKeys]

AppsBehind ==
    /\ \A id \in DOMAIN clientIdIndex \ {Supplier} : clientIdIndex[id] # 1
    /\ \A i \in DOMAIN clients : i # 1 => clients[i].jwks # SupplierKeys

TypeOK ==
    /\ clients \in Seq(ClientRecord)
    /\ IsFiniteSet(DOMAIN clientIdIndex)
    /\ DOMAIN clientIdIndex \subseteq Id \cup {Supplier}
    /\ clientIdIndex \in [DOMAIN clientIdIndex -> Nat]
    /\ panicked \in BOOLEAN

DbInv == TypeOK /\ IndexInRange /\ SupplierFirst /\ AppsBehind

=============================================================================
