---------------------------- MODULE FakeDbProofs ----------------------------
(***************************************************************************)
(* For any ids and key sets: no request leads out of the slice, and the    *)
(* operator's own client can always authenticate.                          *)
(***************************************************************************)
EXTENDS FakeDb, FiniteSetTheorems, TLAPS

USE FakeAssumption

\* The database of a new run: one record, one entry.
LEMMA InitDb == Init => DbInv
<1> SUFFICES ASSUME Init PROVE DbInv
  OBVIOUS
<1>1. /\ clients = <<[clientId |-> Supplier, jwks |-> SupplierKeys]>>
      /\ clientIdIndex = [id \in {Supplier} |-> 1]
      /\ panicked = FALSE
  BY DEF Init, Insert, NewDb
<1>2. Cardinality({Supplier}) = 1 /\ IsFiniteSet({Supplier})
  BY FS_Singleton
<1>3. /\ clients \in Seq(ClientRecord) /\ Len(clients) = 1
      /\ clients[1] = [clientId |-> Supplier, jwks |-> SupplierKeys]
  BY <1>1 DEF ClientRecord
<1>4. /\ DOMAIN clientIdIndex = {Supplier} /\ clientIdIndex[Supplier] = 1
      /\ clientIdIndex \in [{Supplier} -> Nat]
  BY <1>1
<1>5. TypeOK
  BY <1>1, <1>2, <1>3, <1>4 DEF TypeOK
<1>6. IndexInRange
  BY <1>2, <1>3, <1>4 DEF IndexInRange
<1>7. SupplierFirst /\ AppsBehind
  BY <1>3, <1>4 DEF SupplierFirst, AppsBehind
<1> QED
  BY <1>5, <1>6, <1>7 DEF DbInv

\* Insert of a new client appends its record and enters its place.
LEMMA PostStep ==
  ASSUME DbInv, NEW id \in Id, PostClient(id, TRUE)
  PROVE  DbInv'
<1> DEFINE record == [clientId |-> id, jwks |-> Null]
           dom == DOMAIN clientIdIndex
<1> USE DEF DbInv, TypeOK
<1>1. /\ clients' = Append(clients, record)
      /\ clientIdIndex' = [i \in dom \cup {id} |->
                             IF i = id THEN Len(clients) + 1 ELSE clientIdIndex[i]]
      /\ panicked' = FALSE /\ id \notin dom
  BY DEF PostClient, Has, Become, Insert, Db
<1>2. IsFiniteSet(dom \cup {id}) /\ Cardinality(dom \cup {id}) = Cardinality(dom) + 1
  BY <1>1, FS_AddElement
<1>3. record \in ClientRecord
  BY DEF ClientRecord
<1>4. TypeOK'
  <2>1. clients' \in Seq(ClientRecord)
    BY <1>1, <1>3
  <2>2. /\ DOMAIN clientIdIndex' = dom \cup {id}
        /\ clientIdIndex' \in [dom \cup {id} -> Nat]
    BY <1>1
  <2> QED
    BY <1>1, <1>2, <2>1, <2>2
<1>5. IndexInRange'
  BY <1>1, <1>2, <1>3 DEF IndexInRange
<1>6. SupplierFirst'
  BY <1>1, <1>3 DEF SupplierFirst
<1>7. AppsBehind'
  BY <1>1, <1>3 DEF AppsBehind, SupplierFirst, IndexInRange
<1> QED
  BY <1>4, <1>5, <1>6, <1>7

\* An update takes out one record that is not the first, and appends one: every place
\* that was in the slice still is.
LEMMA PutStep ==
  ASSUME DbInv, NEW id \in Id, PutClient(id, TRUE)
  PROVE  DbInv'
<1> DEFINE record == [clientId |-> id, jwks |-> Null]
           dom == DOMAIN clientIdIndex
           last == Len(clients)
           place == clientIdIndex[id]
           moved == [clients EXCEPT ![place] = clients[last]]
           kept == SubSeq(moved, 1, last - 1)
<1> USE DEF DbInv, TypeOK
<1>1. /\ id \in dom /\ id # Supplier
      /\ place \in 2..last /\ last \in Nat /\ last >= 2
  BY DEF PutClient, Has, IndexInRange, AppsBehind
<1>2. /\ clients' = Append(kept, record)
      /\ clientIdIndex' = [i \in (dom \ {id}) \cup {id} |->
                             IF i = id THEN Len(kept) + 1 ELSE Restrict(clientIdIndex, dom \ {id})[i]]
      /\ panicked' = FALSE
  BY DEF PutClient, Become, Insert, Delete, Db, Restrict
<1>3. moved \in Seq(ClientRecord) /\ Len(moved) = last
  BY <1>1
<1>4. /\ kept \in Seq(ClientRecord) /\ Len(kept) = last - 1
      /\ \A i \in 1..(last - 1) : kept[i] = IF i = place THEN clients[last] ELSE clients[i]
  BY <1>1, <1>3
<1>5. record \in ClientRecord
  BY DEF ClientRecord
<1>6. /\ clients' \in Seq(ClientRecord) /\ Len(clients') = last
      /\ \A i \in 1..(last - 1) : clients'[i] = IF i = place THEN clients[last] ELSE clients[i]
      /\ clients'[last] = record
  BY <1>1, <1>2, <1>4, <1>5
<1>7. clientIdIndex' = [i \in dom |-> IF i = id THEN last ELSE clientIdIndex[i]]
  BY <1>1, <1>2, <1>4 DEF Restrict
<1>8. TypeOK'
  BY <1>1, <1>2, <1>6, <1>7
<1>9. IndexInRange'
  BY <1>1, <1>6, <1>7 DEF IndexInRange
<1>10. clients'[1] = clients[1] /\ DOMAIN clients' = 1..last /\ DOMAIN clients = 1..last
  BY <1>1, <1>6
<1>11. SupplierFirst'
  BY <1>1, <1>6, <1>7, <1>10 DEF SupplierFirst
<1>12. \A i \in 1..last : i # 1 => clients'[i].jwks # SupplierKeys
  <2> SUFFICES ASSUME NEW i \in 1..last, i # 1 PROVE clients'[i].jwks # SupplierKeys
    OBVIOUS
  <2>1. CASE i = last
    BY <2>1, <1>6
  <2>2. CASE i # last
    <3>1. clients'[i] = IF i = place THEN clients[last] ELSE clients[i]
      BY <2>2, <1>1, <1>6
    <3> QED
      BY <3>1, <1>1, <1>10 DEF AppsBehind
  <2> QED
    BY <2>1, <2>2
<1>13. AppsBehind'
  BY <1>1, <1>7, <1>10, <1>12 DEF AppsBehind
<1> QED
  BY <1>8, <1>9, <1>11, <1>13

\* New keys go to some app's record, if not to the one meant.
LEMMA JwksStep ==
  ASSUME DbInv, NEW id \in Id, NEW jwks \in KeySet, PostJwks(id, jwks)
  PROVE  DbInv'
<1> DEFINE place == clientIdIndex[id]
<1> USE DEF DbInv, TypeOK
<1>1. place \in DOMAIN clients /\ place # 1
  BY DEF PostJwks, Has, IndexInRange, AppsBehind
<1>2. /\ clients' = [clients EXCEPT ![place].jwks = jwks]
      /\ UNCHANGED clientIdIndex /\ panicked' = FALSE
  BY DEF PostJwks
<1>3. clients[place] \in ClientRecord
  BY <1>1
<1> DEFINE new == [clients[place] EXCEPT !.jwks = jwks]
<1>5. /\ new \in ClientRecord
      /\ new.jwks = jwks
  BY <1>3 DEF ClientRecord
<1>6. clients' = [clients EXCEPT ![place] = new]
  BY <1>1, <1>2
<1> HIDE DEF new
<1>7. /\ clients' \in Seq(ClientRecord) /\ DOMAIN clients' = DOMAIN clients
      /\ Len(clients') = Len(clients)
  BY <1>1, <1>5, <1>6
<1>8. \A i \in DOMAIN clients : clients'[i] = IF i = place THEN new ELSE clients[i]
  BY <1>1, <1>6
<1>9. 1 \in DOMAIN clients
  BY DEF SupplierFirst
<1>10. TypeOK' /\ IndexInRange'
  BY <1>2, <1>7 DEF IndexInRange
<1>11. SupplierFirst'
  BY <1>1, <1>2, <1>7, <1>8, <1>9 DEF SupplierFirst
<1>12. AppsBehind'
  <2>1. \A i \in DOMAIN clients : i # 1 => clients'[i].jwks # SupplierKeys
    BY <1>5, <1>8 DEF AppsBehind
  <2> QED
    BY <2>1, <1>2, <1>7 DEF AppsBehind
<1> QED
  BY <1>10, <1>11, <1>12

\* The invariant is inductive.
LEMMA NextDb == DbInv /\ [Next]_vars => DbInv'
<1> SUFFICES ASSUME DbInv, [Next]_vars PROVE DbInv'
  OBVIOUS
<1>1. ASSUME NEW id \in Id, GetClient(id) \/ DeleteClient(id) PROVE DbInv'
  BY <1>1 DEF GetClient, DeleteClient, GetPanics, Has, DbInv, TypeOK, IndexInRange,
              SupplierFirst, AppsBehind
<1>2. CASE UNCHANGED vars
  BY <1>2 DEF vars, DbInv, TypeOK, IndexInRange, SupplierFirst, AppsBehind
<1> QED
  BY <1>1, <1>2, PostStep, PutStep, JwksStep DEF Next

\* Db and its handlers keep the operator's own record and the size of the index.
THEOREM DbInvariance == Spec => []DbInv
  BY InitDb, NextDb, PTL DEF Spec

\* The one record with the operator's keys is the first.
LEMMA SupplierFound == DbInv => SupplierAuthenticates
<1> SUFFICES ASSUME DbInv PROVE SupplierAuthenticates
  OBVIOUS
<1> DEFINE found == {i \in DOMAIN clients : clients[i].jwks = SupplierKeys}
<1>1. found = {1}
  BY DEF DbInv, TypeOK, SupplierFirst, AppsBehind
<1>2. Cardinality(found) = 1 /\ (CHOOSE i \in found : TRUE) = 1
  BY <1>1, FS_Singleton
<1>3. TokenFor(SupplierKeys) = Supplier
  <2>1. TokenFor(SupplierKeys)
          = IF Cardinality(found) = 1 THEN clients[CHOOSE i \in found : TRUE].clientId ELSE Null
    BY DEF TokenFor
  <2>2. clients[1].clientId = Supplier
    BY DEF DbInv, SupplierFirst
  <2> QED
    BY <1>2, <2>1, <2>2
<1> QED
  BY <1>3 DEF SupplierAuthenticates, GetPanics, DbInv, SupplierFirst

\* However many apps there are and whatever the fake mixes up among them, the operator
\* gets its token.
THEOREM SupplierAlwaysAuthenticates == Spec => []SupplierAuthenticates
  BY DbInvariance, SupplierFound, PTL

\* No request is ever out of range.
THEOREM AlwaysInRange == Spec => []IndexInRange
<1>1. DbInv => IndexInRange
  BY DEF DbInv
<1> QED
  BY <1>1, DbInvariance, PTL

=============================================================================
