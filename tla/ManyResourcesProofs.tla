-------------------------- MODULE ManyResourcesProofs --------------------------
(***************************************************************************)
(* Resources side by side, for any names and namespaces: a client of a     *)
(* name at a time, held by a resource with that name's app id, and a       *)
(* resource alone with its app id served, and then left in peace, whatever *)
(* the others do.                                                          *)
(***************************************************************************)
EXTENDS ManyResources, ClientStateProofs

-----------------------------------------------------------------------------
(* The commands of a call, and how far it gets with them *)

LEMMA NeverDue ==
    ASSUME NEW jwks \in JwksType
    PROVE  ~RotationDue(jwks, Remaining)
<1>1. Remaining \in Lifetimes
    BY LifetimeAssumption DEF Remaining, Lifetimes
<1>2. ActiveKey(jwks, Remaining) \in Key
    BY <1>1, ActiveKeyInKey
<1>3. Remaining[ActiveKey(jwks, Remaining)] = Lifetime
    BY <1>2 DEF Remaining
<1> QED
    BY <1>3, LifetimeAssumption DEF RotationDue

LEMMA PrefixOfNone == ASSUME NEW n \in 0..0 PROVE Prefix(<<>>, n) = {}
BY DEF Prefix

LEMMA PrefixOfOne ==
    ASSUME NEW x, NEW n \in 0..1
    PROVE  Prefix(<<x>>, n) \in {{}, {x}} /\ (n = 1 => Prefix(<<x>>, n) = {x})
<1>1. CASE n = 0
    BY <1>1 DEF Prefix
<1>2. CASE n = 1
    <2>1. 1..n = {1} /\ <<x>>[1] = x
        BY <1>2
    <2>2. Prefix(<<x>>, n) = {x}
        BY <2>1 DEF Prefix
    <2> QED
        BY <2>2
<1> QED
    BY <1>1, <1>2

LEMMA PrefixOfTwo ==
    ASSUME NEW x, NEW y, NEW n \in 0..2
    PROVE  /\ n = 0 => Prefix(<<x, y>>, n) = {}
           /\ n = 1 => Prefix(<<x, y>>, n) = {x}
           /\ n = 2 => Prefix(<<x, y>>, n) = {x, y}
<1> DEFINE s == <<x, y>>
<1>1. s[1] = x /\ s[2] = y
    OBVIOUS
<1> HIDE DEF s
<1>2. CASE n = 0
    BY <1>2 DEF Prefix
<1>3. CASE n = 1
    <2>1. 1..n = {1}
        BY <1>3
    <2> QED
        BY <1>1, <1>3, <2>1 DEF Prefix, s
<1>4. CASE n = 2
    <2>1. 1..n = {1, 2}
        BY <1>4
    <2>2. Prefix(s, n) = {s[1], s[2]}
        BY <2>1 DEF Prefix
    <2> QED
        BY <1>1, <1>4, <2>2 DEF s
<1> QED
    BY <1>2, <1>3, <1>4

\* The plans there are when no certificate comes near its end.
LEMMA PlannedCommands ==
    ASSUME NEW deleting, NEW scopes, NEW client, NEW content \in Content \cup {Null},
           NEW p, p = Plan(deleting, scopes, client, content, AuthorityUrl, Remaining)
    PROVE  /\ deleting /\ client # Null /\ content # Null
                => p = <<"DeleteSecretContent", "DeleteClientInApi">>
           /\ deleting /\ client # Null /\ content = Null => p = <<"DeleteClientInApi">>
           /\ deleting /\ client = Null /\ content = Null => p = <<>>
           /\ ~deleting /\ client = Null
                => p = <<"CreateClientInApi", "UpdateSecretContent">>
           /\ ~deleting /\ client # Null /\ content = Null
                => p = <<"UpdateClientJwks", "UpdateSecretContent">>
           /\ ~deleting /\ client # Null /\ content # Null
                => p \in {<<>>, <<"UpdateSecretContent">>, <<"UpdateClientScopes">>,
                          <<"UpdateSecretContent", "UpdateClientScopes">>}
<1>1. CASE deleting
    <2> DEFINE S == <<"DeleteSecretContent">>
               C == <<"DeleteClientInApi">>
    <2>1. S \o C = <<"DeleteSecretContent", "DeleteClientInApi">>
        BY PairConcat
    <2>2. C \in Seq({"DeleteClientInApi"}) /\ <<>> \in Seq({"DeleteClientInApi"})
        OBVIOUS
    <2>3. <<>> \o C = C /\ <<>> \o <<>> = <<>>
        BY <2>2, ConcatEmptySeq
    <2>4. p = If(content # Null, S) \o If(client # Null, C)
        BY <1>1 DEF Plan, CleanupCommands
    <2> HIDE DEF S, C
    <2>5. /\ client # Null /\ content # Null => p = S \o C
          /\ client # Null /\ content = Null => p = <<>> \o C
          /\ client = Null /\ content = Null => p = <<>> \o <<>>
        BY <2>4 DEF If
    <2> QED
        BY <1>1, <2>1, <2>3, <2>5 DEF C
<1>2. CASE ~deleting /\ client = Null
    BY <1>2 DEF Plan, CreateCommands
<1>3. CASE ~deleting /\ client # Null /\ content = Null
    BY <1>3 DEF Plan, RecoverCommands
<1>4. CASE ~deleting /\ client # Null /\ content # Null
    <2> DEFINE S == <<"UpdateSecretContent">>
               C == <<"UpdateClientScopes">>
    <2>1. S \o C = <<"UpdateSecretContent", "UpdateClientScopes">>
        BY PairConcat
    <2>2. /\ S \in Seq(CommandName) /\ C \in Seq(CommandName) /\ <<>> \in Seq(CommandName)
        BY DEF CommandName
    <2>3. /\ S \o <<>> = S /\ <<>> \o C = C /\ <<>> \o <<>> = <<>>
        BY <2>2, ConcatEmptySeq
    <2>4. ~RotationDue(content.jwks, Remaining)
        BY <1>4, NeverDue DEF Content
    <2> DEFINE due == RotationDue(content.jwks, Remaining)
               first == If(AuthorityChanged(content, AuthorityUrl) \/ due, S)
               second == If(due, <<"UpdateClientJwks">>)
               third == If(ScopesChanged(client, scopes), C)
    <2>5. p = (first \o second) \o third
        BY <1>4 DEF Plan, SteadyCommands
    <2>6. second = <<>>
        BY <2>4 DEF If
    <2>7. first \in {S, <<>>} /\ third \in {C, <<>>}
        BY DEF If
    <2> HIDE DEF S, C, first, second, third
    <2>8. first \o <<>> = first
        BY <2>3, <2>7
    <2>9. p \in {S \o C, S \o <<>>, <<>> \o C, <<>> \o <<>>}
        BY <2>5, <2>6, <2>7, <2>8
    <2>10. p \in {<<"UpdateSecretContent", "UpdateClientScopes">>, S, C, <<>>}
        BY <2>1, <2>3, <2>9
    <2> QED
        BY <1>4, <2>10 DEF S, C
<1> QED
    BY <1>1, <1>2, <1>3, <1>4

-----------------------------------------------------------------------------
(* What a call can come to *)

LEMMA ClientFound ==
    ASSUME ManyInv, NEW r \in WellFormed, NEW client \in MatchingClients(r)
    PROVE  /\ client = Null => /\ ContentOf(r) = Null
                               /\ \A c \in clients : c.name # ClientNameOf(r)
           /\ client # Null => /\ client \in clients /\ client.name = ClientNameOf(r)
                               /\ ContentOf(r) # Null => client.id = ContentOf(r).clientId
<1>1. Null \notin clients
    BY NoneAssumption DEF ManyInv, TypeOK
<1> QED
    BY <1>1 DEF ManyInv, OneClientPerName, MatchingClients

Document(r, content) == secrets' = [secrets EXCEPT ![SecretOf(r)].content = content]

Made(r) ==
    /\ \A c \in clients : c.name # ClientNameOf(r)
    /\ ContentOf(r) = Null
    /\ \E new \in NamedClient :
         /\ new.id \in UnusedIds /\ new.name = ClientNameOf(r)
         /\ clients' = clients \cup {new}
         /\ \/ secrets' = secrets
            \/ \E content \in Content :
                 /\ Document(r, content)
                 /\ content.clientId = new.id /\ Range(content.jwks) \subseteq new.keys

Kept(r, client) ==
    /\ client \in clients
    /\ \E new \in NamedClient :
         /\ new.id = client.id /\ new.name = client.name
         /\ clients' = (clients \ {client}) \cup {new}
         /\ \/ secrets' = secrets /\ (new.keys = client.keys \/ ContentOf(r) = Null)
            \/ Document(r, Null) /\ new.keys = client.keys
            \/ \E content \in Content :
                 /\ Document(r, content)
                 /\ content.clientId = client.id
                 /\ \/ Range(content.jwks) \subseteq new.keys
                    \/ /\ new.keys = client.keys
                       /\ ContentOf(r) # Null /\ content.jwks = ContentOf(r).jwks

Gone(r, client) ==
    /\ client \in clients
    /\ clients' = clients \ {client}
    /\ Document(r, Null) \/ (secrets' = secrets /\ ContentOf(r) = Null)

Nothing == UNCHANGED <<clients, secrets>>

LEMMA LoadedType ==
    ASSUME TypeOK, NEW r \in Resource, resources[r] # Null
    PROVE  Loaded(r) \in CustomResource /\ Loaded(r).finalizer
<1>1. resources[r] \in CustomResource
    BY DEF TypeOK
<1> QED
    BY <1>1, ManyResourcesAssumption DEF CustomResource, Loaded, Omitted

LEMMA WrittenShape ==
    ASSUME TypeOK, NEW r \in Resource, resources[r] # Null, NEW client \in clients,
           NEW executed, NEW jwks,
           "UpdateClientJwks" \in executed => jwks \in JwksType
    PROVE  /\ Written(r, client, executed, jwks) \in NamedClient
           /\ Written(r, client, executed, jwks).id = client.id
           /\ Written(r, client, executed, jwks).name = client.name
           /\ Written(r, client, executed, jwks).keys
                = IF "UpdateClientJwks" \in executed THEN ToPublic(jwks) ELSE client.keys
<1>1. client \in NamedClient
    BY DEF TypeOK
<1>2. Answered(Loaded(r).scopes) \in Scopes
    BY LoadedType, ManyResourcesAssumption DEF CustomResource, Answered
<1>3. "UpdateClientJwks" \in executed => ToPublic(jwks) \in SUBSET Key
    BY DEF ToPublic, JwksType, Range
<1> QED
    BY <1>1, <1>2, <1>3 DEF NamedClient, Written

LEMMA Outcomes ==
    ASSUME ManyInv, NEW r \in WellFormed, resources[r] # Null,
           NEW client \in MatchingClients(r),
           NEW commands, commands = Commands(r, client),
           NEW jwks, jwks = PlannedJwks(client, ContentOf(r), Remaining, NewKey),
           NEW id, id = IF client = Null THEN NewId ELSE client.id,
           NeedsKey(Loaded(r).deleting, client, ContentOf(r), Remaining) => UnusedKeys # {},
           client = Null => UnusedIds # {},
           NEW n \in 0..Len(commands), NEW registered \in {{}, ToPublic(jwks)},
           registered # ToPublic(jwks) => n = 1,
           Execute(r, client, id, Prefix(commands, n), jwks, registered)
    PROVE  /\ Made(r) \/ Kept(r, client) \/ Gone(r, client) \/ Nothing
           /\ Loaded(r).deleting /\ commands # <<>> /\ n = Len(commands) => Gone(r, client)
<1> DEFINE executed == Prefix(commands, n)
           deleting == Loaded(r).deleting
           content == ContentOf(r)
<1>1. r \in Resource /\ SecretOf(r) \in Slot /\ ClientNameOf(r) \in ClientName
    BY DEF WellFormed, Slot, ClientName
<1>2. content \in Content \cup {Null}
    BY <1>1 DEF ManyInv, TypeOK, Secret, ContentOf
<1>3. Null \notin clients
    BY NoneAssumption DEF ManyInv, TypeOK
<1>4. commands = Plan(deleting, Loaded(r).scopes, client, content, AuthorityUrl, Remaining)
    BY DEF Commands
<1>5. /\ deleting /\ client # Null /\ content # Null
           => commands = <<"DeleteSecretContent", "DeleteClientInApi">>
      /\ deleting /\ client # Null /\ content = Null => commands = <<"DeleteClientInApi">>
      /\ deleting /\ client = Null /\ content = Null => commands = <<>>
      /\ ~deleting /\ client = Null
           => commands = <<"CreateClientInApi", "UpdateSecretContent">>
      /\ ~deleting /\ client # Null /\ content = Null
           => commands = <<"UpdateClientJwks", "UpdateSecretContent">>
      /\ ~deleting /\ client # Null /\ content # Null
           => commands \in {<<>>, <<"UpdateSecretContent">>, <<"UpdateClientScopes">>,
                     <<"UpdateSecretContent", "UpdateClientScopes">>}
    <2> HIDE DEF deleting, content
    <2> QED
        BY <1>2, <1>4, PlannedCommands
<1>6. /\ client = Null => content = Null /\ \A c \in clients : c.name # ClientNameOf(r)
      /\ client # Null => client \in clients
    BY ClientFound
<1>7. ~deleting /\ (client = Null \/ content = Null) => jwks = <<NewKey>> /\ jwks \in JwksType
    <2>1. ~deleting /\ (client = Null \/ content = Null) => NewKey \in Key
        BY DEF NeedsKey, NewKey, UnusedKeys
    <2> QED
        BY <2>1 DEF PlannedJwks, CreateJwks, JwksType
<1>8. client # Null /\ content # Null => jwks = content.jwks /\ jwks \in JwksType
    <2>1. content # Null => content.jwks \in JwksType
        BY <1>2 DEF Content
    <2> QED
        BY <2>1, NeverDue DEF PlannedJwks
<1>9. /\ clients' = (clients \ {client}) \cup
           IF "CreateClientInApi" \in executed
           THEN {[id |-> id, name |-> ClientNameOf(r),
                  scopes |-> Answered(Loaded(r).scopes), keys |-> registered]}
           ELSE IF client = Null \/ "DeleteClientInApi" \in executed THEN {}
           ELSE {Written(r, client, executed, jwks)}
      /\ "UpdateSecretContent" \in executed
           => Document(r, [clientId |-> id, authority |-> AuthorityUrl, jwks |-> jwks])
      /\ "UpdateSecretContent" \notin executed /\ "DeleteSecretContent" \in executed
           => Document(r, Null)
      /\ "UpdateSecretContent" \notin executed /\ "DeleteSecretContent" \notin executed
           => secrets' = secrets
    BY DEF Execute, Document
<1> HIDE DEF deleting, content
<1>10. CASE client = Null /\ deleting
    <2>1. commands = <<>> /\ n = 0
        BY <1>5, <1>6, <1>10
    <2>2. executed = {}
        BY <2>1, PrefixOfNone
    <2>3. clients' = clients /\ secrets' = secrets
        BY <1>3, <1>9, <1>10, <2>2
    <2> QED
        BY <2>1, <2>3 DEF Nothing
<1>11. CASE client = Null /\ ~deleting
    <2>1. commands = <<"CreateClientInApi", "UpdateSecretContent">> /\ n \in 0..2
        BY <1>5, <1>11
    <2>2. /\ n = 0 => executed = {}
          /\ n = 1 => executed = {"CreateClientInApi"}
          /\ n = 2 => executed = {"CreateClientInApi", "UpdateSecretContent"}
        BY <2>1, PrefixOfTwo
    <2>3. id \in UnusedIds /\ id \in ClientId
        BY <1>11 DEF NewId, UnusedIds
    <2>4. jwks \in JwksType
        BY <1>7, <1>11
    <2> DEFINE new == [id |-> id, name |-> ClientNameOf(r),
                       scopes |-> Answered(Loaded(r).scopes), keys |-> registered]
               doc == [clientId |-> id, authority |-> AuthorityUrl, jwks |-> jwks]
    <2>5. new \in NamedClient
        <3>1. Answered(Loaded(r).scopes) \in Scopes
            BY <1>1, LoadedType, ManyResourcesAssumption DEF ManyInv, CustomResource, Answered
        <3>2. registered \in SUBSET Key
            BY <2>4 DEF ToPublic, JwksType, Range
        <3> QED
            BY <1>1, <2>3, <3>1, <3>2 DEF NamedClient
    <2>6. doc \in Content
        BY <2>3, <2>4, ManyResourcesAssumption DEF Content
    <2>7. CASE n = 0
        BY <1>3, <1>9, <1>11, <2>2, <2>7 DEF Nothing
    <2>8. CASE n = 1
        <3>1. clients' = clients \cup {new} /\ secrets' = secrets
            BY <1>3, <1>9, <1>11, <2>2, <2>8
        <3> QED
            BY <1>6, <1>11, <2>3, <2>5, <3>1 DEF Made, content, deleting
    <2>9. CASE n = 2
        <3>1. clients' = clients \cup {new} /\ Document(r, doc)
            BY <1>3, <1>9, <1>11, <2>2, <2>9
        <3>2. doc.clientId = new.id /\ Range(doc.jwks) \subseteq new.keys
            BY <2>9 DEF ToPublic
        <3> HIDE DEF doc, new
        <3>3. new.id \in UnusedIds /\ new.name = ClientNameOf(r)
            BY <2>3 DEF new
        <3> QED
            BY <1>6, <1>11, <2>5, <2>6, <3>1, <3>2, <3>3 DEF Made, content, deleting
    <2> QED
        BY <1>11, <2>1, <2>7, <2>8, <2>9 DEF deleting
<1>12. CASE client # Null /\ deleting
    <2>1. CASE content = Null
        <3>1. commands = <<"DeleteClientInApi">> /\ n \in 0..1 /\ Len(commands) = 1
            BY <1>5, <1>12, <2>1
        <3>2. CASE n = 0
            <4>1. executed = {}
                BY <3>2 DEF Prefix
            <4>2. clients' = (clients \ {client}) \cup {Written(r, client, {}, jwks)}
                  /\ secrets' = secrets
                BY <1>9, <1>12, <4>1
            <4> QED
                BY <1>1, <1>6, <1>12, <3>1, <3>2, <4>2, WrittenShape DEF Kept, ManyInv
        <3>3. CASE n = 1
            <4>1. executed = {"DeleteClientInApi"}
                BY <3>1, <3>3, PrefixOfOne
            <4> QED
                BY <1>6, <1>9, <1>12, <2>1, <4>1 DEF Gone, content
        <3> QED
            BY <3>1, <3>2, <3>3
    <2>2. CASE content # Null
        <3>1. commands = <<"DeleteSecretContent", "DeleteClientInApi">> /\ n \in 0..2
              /\ Len(commands) = 2
            BY <1>5, <1>12, <2>2
        <3>2. /\ n = 0 => executed = {}
              /\ n = 1 => executed = {"DeleteSecretContent"}
              /\ n = 2 => executed = {"DeleteSecretContent", "DeleteClientInApi"}
            BY <3>1, PrefixOfTwo
        <3>3. CASE n \in {0, 1}
            <4>1. clients' = (clients \ {client}) \cup {Written(r, client, executed, jwks)}
                  /\ (secrets' = secrets \/ Document(r, Null))
                BY <1>9, <1>12, <3>2, <3>3
            <4>2. "UpdateClientJwks" \notin executed
                BY <3>2, <3>3
            <4> HIDE DEF executed
            <4> QED
                BY <1>1, <1>6, <1>12, <3>1, <3>3, <4>1, <4>2, WrittenShape DEF Kept, ManyInv
        <3>4. CASE n = 2
            BY <1>6, <1>9, <1>12, <3>2, <3>4 DEF Gone
        <3> QED
            BY <3>1, <3>3, <3>4
    <2> QED
        BY <2>1, <2>2
<1>13. CASE client # Null /\ ~deleting
    <2> DEFINE doc == [clientId |-> client.id, authority |-> AuthorityUrl, jwks |-> jwks]
               new == Written(r, client, executed, jwks)
    <2>1. jwks \in JwksType
        BY <1>7, <1>8, <1>13
    <2>2. new \in NamedClient /\ new.id = client.id /\ new.name = client.name
          /\ new.keys = IF "UpdateClientJwks" \in executed THEN ToPublic(jwks) ELSE client.keys
        BY <1>1, <1>6, <1>13, <2>1, WrittenShape DEF ManyInv
    <2>3. doc \in Content /\ doc.clientId = client.id /\ doc.jwks = jwks
        <3>1. client.id \in ClientId
            BY <1>6, <1>13 DEF ManyInv, TypeOK, NamedClient
        <3> QED
            BY <2>1, <3>1, ManyResourcesAssumption DEF Content
    <2>4. "CreateClientInApi" \notin executed /\ "DeleteClientInApi" \notin executed
          /\ "DeleteSecretContent" \notin executed
          /\ (content = Null => /\ commands = <<"UpdateClientJwks", "UpdateSecretContent">>
                                /\ "UpdateSecretContent" \in executed
                                      => "UpdateClientJwks" \in executed)
          /\ (content # Null => "UpdateClientJwks" \notin executed)
        <3>1. CASE content = Null
            <4>1. commands = <<"UpdateClientJwks", "UpdateSecretContent">> /\ n \in 0..2
                BY <1>5, <1>13, <3>1
            <4> QED
                BY <3>1, <4>1, PrefixOfTwo
        <3>2. CASE content # Null
            <4>1. commands \in {<<>>, <<"UpdateSecretContent">>, <<"UpdateClientScopes">>,
                                <<"UpdateSecretContent", "UpdateClientScopes">>}
                BY <1>5, <1>13, <3>2
            <4>2. executed \subseteq {"UpdateSecretContent", "UpdateClientScopes"}
                <5>1. CASE commands = <<>>
                    BY <5>1, PrefixOfNone
                <5>2. CASE commands = <<"UpdateSecretContent">>
                    <6>1. n \in 0..1
                        BY <5>2
                    <6> QED
                        BY <5>2, <6>1, PrefixOfOne
                <5>3. CASE commands = <<"UpdateClientScopes">>
                    <6>1. n \in 0..1
                        BY <5>3
                    <6> QED
                        BY <5>3, <6>1, PrefixOfOne
                <5>4. CASE commands = <<"UpdateSecretContent", "UpdateClientScopes">>
                    <6>1. n \in 0..2
                        BY <5>4
                    <6> QED
                        BY <5>4, <6>1, PrefixOfTwo
                <5> QED
                    BY <4>1, <5>1, <5>2, <5>3, <5>4
            <4> QED
                BY <3>2, <4>2
        <3> QED
            BY <3>1, <3>2
    <2>5. clients' = (clients \ {client}) \cup {new}
        BY <1>9, <1>13, <2>4
    <2>6. secrets' = secrets \/ ("UpdateSecretContent" \in executed /\ Document(r, doc))
        BY <1>9, <1>13, <2>4
    <2>7. content # Null => jwks = content.jwks /\ new.keys = client.keys
        BY <1>8, <1>13, <2>2, <2>4
    <2>8. content = Null /\ "UpdateSecretContent" \in executed => new.keys = ToPublic(jwks)
        BY <2>2, <2>4
    <2> HIDE DEF executed, new, doc
    <2>9. CASE secrets' = secrets
        BY <1>6, <1>13, <2>2, <2>5, <2>7, <2>9 DEF Kept, content, deleting
    <2>10. CASE "UpdateSecretContent" \in executed /\ Document(r, doc)
        <3>1. Range(doc.jwks) \subseteq new.keys
              \/ (new.keys = client.keys /\ content # Null /\ doc.jwks = content.jwks)
            BY <2>3, <2>7, <2>8, <2>10 DEF ToPublic
        <3> QED
            BY <1>6, <1>13, <2>2, <2>3, <2>5, <2>10, <3>1 DEF Kept, content, deleting
    <2> QED
        BY <1>13, <2>6, <2>9, <2>10 DEF deleting
<1> QED
    BY <1>10, <1>11, <1>12, <1>13

\* Reconcile writes the resource, and comes to one of the outcomes.
LEMMA ReconcileOutcome ==
    ASSUME ManyInv, NEW r \in Resource, Reconcile(r)
    PROVE  /\ r \in WellFormed /\ resources[r] # Null
           /\ edits' = edits /\ faults' \in 0..MaxFaults /\ settled' \subseteq WellFormed
           /\ \E client \in MatchingClients(r) :
                /\ Made(r) \/ Kept(r, client) \/ Gone(r, client) \/ Nothing
                /\ \/ resources' = [resources EXCEPT ![r] = Loaded(r)]
                   \/ Gone(r, client) /\ resources' = [resources EXCEPT ![r] = Null]
<1>1. r \in WellFormed /\ resources[r] # Null /\ edits' = edits
    BY DEF Reconcile
<1>2. PICK client \in MatchingClients(r) :
        LET commands == Commands(r, client)
            jwks == PlannedJwks(client, ContentOf(r), Remaining, NewKey)
            id == IF client = Null THEN NewId ELSE client.id
        IN /\ NeedsKey(Loaded(r).deleting, client, ContentOf(r), Remaining) => UnusedKeys # {}
           /\ client = Null => UnusedIds # {}
           /\ \/ /\ Completed(r, commands)
                 /\ Execute(r, client, id, Prefix(commands, Len(commands)), jwks, ToPublic(jwks))
              \/ /\ Broken(r)
                 /\ \E n \in 0..Len(commands), registered \in {{}, ToPublic(jwks)} :
                      /\ registered = {} => n = 1
                      /\ Execute(r, client, id, Prefix(commands, n), jwks, registered)
    BY DEF Reconcile
<1> DEFINE commands == Commands(r, client)
           jwks == PlannedJwks(client, ContentOf(r), Remaining, NewKey)
           id == IF client = Null THEN NewId ELSE client.id
<1>3. /\ NeedsKey(Loaded(r).deleting, client, ContentOf(r), Remaining) => UnusedKeys # {}
      /\ client = Null => UnusedIds # {}
    BY <1>2
<1>4. CASE /\ Completed(r, commands)
           /\ Execute(r, client, id, Prefix(commands, Len(commands)), jwks, ToPublic(jwks))
    <2>1. Len(commands) \in 0..Len(commands)
        <3>1. ContentOf(r) \in Content \cup {Null}
            BY <1>1 DEF ManyInv, TypeOK, Secret, ContentOf, Slot
        <3>2. client = Null => ContentOf(r) = Null
            BY <1>1, ClientFound
        <3>3. commands \in {<<>>, <<"DeleteClientInApi">>,
                            <<"DeleteSecretContent", "DeleteClientInApi">>,
                            <<"CreateClientInApi", "UpdateSecretContent">>,
                            <<"UpdateClientJwks", "UpdateSecretContent">>,
                            <<"UpdateSecretContent">>, <<"UpdateClientScopes">>,
                            <<"UpdateSecretContent", "UpdateClientScopes">>}
            BY <3>1, <3>2, PlannedCommands DEF Commands
        <3>4. Len(commands) \in Nat
            <4> HIDE DEF commands
            <4> QED
                BY <3>3
        <3> QED
            BY <3>4
    <2> HIDE DEF jwks, id, commands
    <2>2. /\ Made(r) \/ Kept(r, client) \/ Gone(r, client) \/ Nothing
          /\ Loaded(r).deleting /\ commands # <<>> => Gone(r, client)
        BY <1>1, <1>3, <1>4, <2>1, Outcomes DEF jwks, id, commands
    <2>3. /\ faults' \in 0..MaxFaults /\ settled' \subseteq WellFormed
          /\ resources' = [resources EXCEPT
               ![r] = IF Loaded(r).deleting /\ commands # <<>> THEN Null ELSE Loaded(r)]
        BY <1>1, <1>4 DEF Completed, ManyInv, TypeOK
    <2> QED
        BY <1>1, <2>2, <2>3
<1>5. CASE /\ Broken(r)
           /\ \E n \in 0..Len(commands), registered \in {{}, ToPublic(jwks)} :
                /\ registered = {} => n = 1
                /\ Execute(r, client, id, Prefix(commands, n), jwks, registered)
    <2>1. PICK n \in 0..Len(commands), registered \in {{}, ToPublic(jwks)} :
            /\ registered = {} => n = 1
            /\ Execute(r, client, id, Prefix(commands, n), jwks, registered)
        BY <1>5
    <2> HIDE DEF jwks, id, commands
    <2>2. Made(r) \/ Kept(r, client) \/ Gone(r, client) \/ Nothing
        <3>1. registered # ToPublic(jwks) => n = 1
            BY <2>1
        <3> QED
            BY <1>1, <1>3, <2>1, <3>1, Outcomes DEF jwks, id, commands
    <2>3. /\ faults' \in 0..MaxFaults /\ settled' \subseteq WellFormed
          /\ resources' = [resources EXCEPT ![r] = Loaded(r)]
        BY <1>5, ManyResourcesAssumption DEF Broken, ManyInv, TypeOK
    <2> QED
        BY <1>1, <2>2, <2>3
<1> QED
    BY <1>2, <1>4, <1>5

-----------------------------------------------------------------------------
(* Names and slots *)

\* Who shares a secret shares the client name, who shares that shares the app id.
LEMMA NamesAgree ==
    ASSUME NEW q, NEW r
    PROVE  /\ SecretOf(q) = SecretOf(r) => ClientNameOf(q) = ClientNameOf(r)
           /\ ClientNameOf(q) = ClientNameOf(r) => AppId(q) = AppId(r)
<1>1. SecretOf(q) = SecretOf(r) => AppLabel(AppId(q)) = AppLabel(AppId(r))
    BY DEF SecretOf
<1>2. AppLabel(AppId(q)) = AppLabel(AppId(r)) => AppId(q) = AppId(r)
    BY DEF AppLabel
<1>3. AppId(q) = AppId(r) => ClientNameOf(q) = ClientNameOf(r)
    BY DEF ClientNameOf
<1>4. ClientNameOf(q) = ClientNameOf(r) => AppId(q) = AppId(r)
    BY DEF ClientNameOf, GetClientName
<1> QED
    BY <1>1, <1>2, <1>3, <1>4

\* A document is written for those who share the secret.
LEMMA DocumentWritten ==
    ASSUME TypeOK, NEW r \in WellFormed, NEW content \in Content \cup {Null},
           Document(r, content)
    PROVE  /\ secrets' \in [Slot -> Secret]
           /\ \A q \in WellFormed :
                ContentOf(q)' = IF SecretOf(q) = SecretOf(r) THEN content ELSE ContentOf(q)
<1>1. SecretOf(r) \in Slot /\ \A q \in WellFormed : SecretOf(q) \in Slot
    BY DEF Slot
<1>2. secrets \in [Slot -> Secret]
    BY DEF TypeOK
<1>3. secrets'= [secrets EXCEPT ![SecretOf(r)] = [secrets[SecretOf(r)] EXCEPT !.content = content]]
    BY <1>1, <1>2 DEF Document
<1>4. [secrets[SecretOf(r)] EXCEPT !.content = content] \in Secret
      /\ [secrets[SecretOf(r)] EXCEPT !.content = content].content = content
    BY <1>1, <1>2 DEF Secret
<1>5. secrets' \in [Slot -> Secret]
    BY <1>2, <1>3, <1>4
<1>6. ASSUME NEW q \in WellFormed
      PROVE  ContentOf(q)' = IF SecretOf(q) = SecretOf(r) THEN content ELSE ContentOf(q)
    <2>1. ContentOf(q)' = secrets'[SecretOf(q)].content
        BY DEF ContentOf, SecretOf
    <2>2. secrets'[SecretOf(q)] = IF SecretOf(q) = SecretOf(r)
              THEN [secrets[SecretOf(r)] EXCEPT !.content = content] ELSE secrets[SecretOf(q)]
        BY <1>1, <1>2, <1>3
    <2> QED
        BY <1>4, <2>1, <2>2 DEF ContentOf
<1> QED
    BY <1>5, <1>6

-----------------------------------------------------------------------------
(* What the outcomes preserve *)

ClientsGood == IdsUnique /\ OneClientPerName /\ SoleServed

LEMMA MadeKeeps ==
    ASSUME ManyInv, NEW r \in WellFormed, Made(r)
    PROVE  /\ clients' \subseteq NamedClient /\ secrets' \in [Slot -> Secret]
           /\ ClientsGood'
           /\ \A c \in clients' : c \in clients \/ c.name = ClientNameOf(r)
<1>1. PICK new \in NamedClient :
        /\ new.id \in UnusedIds /\ new.name = ClientNameOf(r)
        /\ clients' = clients \cup {new}
        /\ \/ secrets' = secrets
           \/ \E content \in Content :
                /\ Document(r, content)
                /\ content.clientId = new.id /\ Range(content.jwks) \subseteq new.keys
    BY DEF Made
<1>2. \A c \in clients : c.id # new.id /\ c.name # ClientNameOf(r)
    BY <1>1 DEF Made, UnusedIds
<1>3. \A q \in WellFormed : ContentOf(q) # Null => ContentOf(q).clientId # new.id
    <2>1. \A q \in WellFormed : ContentOf(q) # Null => ContentOf(q) \in Contents
        BY DEF ContentOf, Contents, Slot
    <2> QED
        BY <1>1, <2>1 DEF UnusedIds
<1>4. /\ secrets' \in [Slot -> Secret]
      /\ \A q \in WellFormed :
           \/ ContentOf(q)' = ContentOf(q)
           \/ /\ SecretOf(q) = SecretOf(r)
              /\ ContentOf(q)'.clientId = new.id
              /\ Range(ContentOf(q)'.jwks) \subseteq new.keys
    <2>1. CASE secrets' = secrets
        BY <2>1 DEF ManyInv, TypeOK, ContentOf, SecretOf
    <2>2. ASSUME NEW content \in Content, Document(r, content),
                 content.clientId = new.id, Range(content.jwks) \subseteq new.keys
          PROVE  <1>4!1 /\ <1>4!2
        BY <2>2, DocumentWritten DEF ManyInv
    <2> QED
        BY <1>1, <2>1, <2>2
<1>5. IdsUnique'
    BY <1>1, <1>2 DEF ManyInv, IdsUnique
<1>6. ASSUME NEW q \in WellFormed, NEW c \in clients',
             ContentOf(q)' # Null, ContentOf(q)'.clientId = c.id
      PROVE  c.name = ClientNameOf(q)
    <2>1. CASE ContentOf(q)' = ContentOf(q)
        <3>1. c \in clients
            BY <1>1, <1>3, <1>6, <2>1
        <3> QED
            BY <1>6, <2>1, <3>1 DEF ManyInv, OneClientPerName
    <2>2. CASE SecretOf(q) = SecretOf(r) /\ ContentOf(q)'.clientId = new.id
        BY <1>1, <1>2, <1>6, <2>2, NamesAgree
    <2> QED
        BY <1>4, <2>1, <2>2
<1>7. \A c, d \in clients' : c.name = d.name => c = d
    BY <1>1, <1>2 DEF ManyInv, OneClientPerName
<1>8. OneClientPerName'
    BY <1>6, <1>7 DEF OneClientPerName, ClientNameOf
<1>9. ASSUME NEW q \in WellFormed, Sole(q), ContentOf(q)' # Null
      PROVE  \E c \in clients' : /\ c.id = ContentOf(q)'.clientId
                                 /\ Range(ContentOf(q)'.jwks) \subseteq c.keys
    <2>1. CASE ContentOf(q)' = ContentOf(q)
        BY <1>1, <1>9, <2>1 DEF ManyInv, SoleServed
    <2>2. CASE ContentOf(q)'.clientId = new.id /\ Range(ContentOf(q)'.jwks) \subseteq new.keys
        BY <1>1, <2>2
    <2> QED
        BY <1>4, <2>1, <2>2
<1>10. SoleServed'
    BY <1>9 DEF SoleServed, Sole
<1> QED
    BY <1>1, <1>4, <1>5, <1>8, <1>10 DEF ClientsGood, ManyInv, TypeOK

LEMMA KeptKeeps ==
    ASSUME ManyInv, NEW r \in WellFormed, NEW client \in MatchingClients(r), Kept(r, client)
    PROVE  /\ clients' \subseteq NamedClient /\ secrets' \in [Slot -> Secret]
           /\ ClientsGood'
           /\ \A c \in clients' : c \in clients \/ c.name = ClientNameOf(r)
<1>1. PICK new \in NamedClient :
        /\ new.id = client.id /\ new.name = client.name
        /\ clients' = (clients \ {client}) \cup {new}
        /\ \/ secrets' = secrets /\ (new.keys = client.keys \/ ContentOf(r) = Null)
           \/ Document(r, Null) /\ new.keys = client.keys
           \/ \E content \in Content :
                /\ Document(r, content)
                /\ content.clientId = client.id
                /\ \/ Range(content.jwks) \subseteq new.keys
                   \/ /\ new.keys = client.keys
                      /\ ContentOf(r) # Null /\ content.jwks = ContentOf(r).jwks
    BY DEF Kept
<1>2. client \in clients /\ client.name = ClientNameOf(r)
      /\ (ContentOf(r) # Null => client.id = ContentOf(r).clientId)
    <2>1. client \in clients /\ client # Null
        BY NoneAssumption DEF Kept, ManyInv, TypeOK
    <2> QED
        BY <2>1, ClientFound
<1>3. /\ secrets' \in [Slot -> Secret]
      /\ \A q \in WellFormed :
           \/ /\ ContentOf(q)' = ContentOf(q)
              /\ new.keys = client.keys \/ SecretOf(q) # SecretOf(r) \/ ContentOf(r) = Null
           \/ ContentOf(q)' = Null
           \/ /\ SecretOf(q) = SecretOf(r)
              /\ ContentOf(q)'.clientId = client.id
              /\ \/ Range(ContentOf(q)'.jwks) \subseteq new.keys
                 \/ /\ new.keys = client.keys
                    /\ ContentOf(r) # Null /\ ContentOf(q)'.jwks = ContentOf(r).jwks
    <2>1. CASE secrets' = secrets /\ (new.keys = client.keys \/ ContentOf(r) = Null)
        BY <2>1 DEF ManyInv, TypeOK, ContentOf, SecretOf
    <2>2. CASE Document(r, Null) /\ new.keys = client.keys
        BY <2>2, DocumentWritten DEF ManyInv
    <2>3. ASSUME NEW content \in Content, Document(r, content), content.clientId = client.id,
                 \/ Range(content.jwks) \subseteq new.keys
                 \/ /\ new.keys = client.keys
                    /\ ContentOf(r) # Null /\ content.jwks = ContentOf(r).jwks
          PROVE  <1>3!1 /\ <1>3!2
        BY <2>3, DocumentWritten DEF ManyInv
    <2> QED
        BY <1>1, <2>1, <2>2, <2>3
<1>4. IdsUnique'
    BY <1>1, <1>2 DEF ManyInv, IdsUnique
<1>5. ASSUME NEW q \in WellFormed, NEW c \in clients',
             ContentOf(q)' # Null, ContentOf(q)'.clientId = c.id
      PROVE  c.name = ClientNameOf(q)
    <2>1. PICK old \in clients : old.id = c.id /\ old.name = c.name
        BY <1>1, <1>2
    <2>2. CASE ContentOf(q)' = ContentOf(q)
        BY <1>5, <2>1, <2>2 DEF ManyInv, OneClientPerName
    <2>3. CASE SecretOf(q) = SecretOf(r) /\ ContentOf(q)'.clientId = client.id
        <3>1. old = client
            BY <1>2, <1>5, <2>1, <2>3 DEF ManyInv, IdsUnique
        <3> QED
            BY <1>2, <2>1, <2>3, <3>1, NamesAgree
    <2> QED
        BY <1>3, <1>5, <2>2, <2>3
<1>6. \A c, d \in clients' : c.name = d.name => c = d
    BY <1>1, <1>2 DEF ManyInv, OneClientPerName
<1>7. OneClientPerName'
    BY <1>5, <1>6 DEF OneClientPerName, ClientNameOf
<1>8. ASSUME NEW q \in WellFormed, Sole(q), ContentOf(q)' # Null
      PROVE  \E c \in clients' : /\ c.id = ContentOf(q)'.clientId
                                 /\ Range(ContentOf(q)'.jwks) \subseteq c.keys
    <2>1. ASSUME ContentOf(q) # Null
          PROVE  \E c \in clients : /\ c.id = ContentOf(q).clientId /\ c.name = ClientNameOf(q)
                                    /\ Range(ContentOf(q).jwks) \subseteq c.keys
        BY <1>8, <2>1 DEF ManyInv, SoleServed, OneClientPerName
    <2>2. CASE /\ ContentOf(q)' = ContentOf(q)
               /\ new.keys = client.keys \/ SecretOf(q) # SecretOf(r) \/ ContentOf(r) = Null
        <3>1. PICK c \in clients : /\ c.id = ContentOf(q).clientId /\ c.name = ClientNameOf(q)
                                   /\ Range(ContentOf(q).jwks) \subseteq c.keys
            BY <1>8, <2>1, <2>2
        <3>2. CASE c # client
            BY <1>1, <2>2, <3>1, <3>2
        <3>3. CASE c = client
            <4>1. q = r
                <5>1. AppId(q) = AppId(r)
                    BY <1>2, <3>1, <3>3, NamesAgree
                <5> QED
                    BY <1>8, <5>1 DEF Sole
            <4>2. new.keys = client.keys
                BY <1>8, <2>2, <4>1
            <4> QED
                BY <1>1, <2>2, <3>1, <3>3, <4>2
        <3> QED
            BY <3>2, <3>3
    <2>3. CASE /\ SecretOf(q) = SecretOf(r)
               /\ ContentOf(q)'.clientId = client.id
               /\ Range(ContentOf(q)'.jwks) \subseteq new.keys
        BY <1>1, <2>3
    <2>4. CASE /\ SecretOf(q) = SecretOf(r)
               /\ ContentOf(q)'.clientId = client.id
               /\ new.keys = client.keys
               /\ ContentOf(r) # Null /\ ContentOf(q)'.jwks = ContentOf(r).jwks
        <3>1. ContentOf(q) = ContentOf(r)
            BY <2>4 DEF ContentOf
        <3>2. PICK c \in clients : /\ c.id = ContentOf(q).clientId
                                   /\ Range(ContentOf(q).jwks) \subseteq c.keys
            BY <2>1, <2>4, <3>1
        <3>3. c = client
            BY <1>2, <2>4, <3>1, <3>2 DEF ManyInv, IdsUnique
        <3> QED
            BY <1>1, <2>4, <3>1, <3>2, <3>3
    <2> QED
        BY <1>3, <1>8, <2>2, <2>3, <2>4
<1>9. SoleServed'
    BY <1>8 DEF SoleServed, Sole
<1>10. clients' \subseteq NamedClient /\ \A c \in clients' : c \in clients \/ c.name = ClientNameOf(r)
    BY <1>1, <1>2 DEF ManyInv, TypeOK
<1> QED
    BY <1>3, <1>4, <1>7, <1>9, <1>10 DEF ClientsGood

LEMMA GoneKeeps ==
    ASSUME ManyInv, NEW r \in WellFormed, NEW client \in MatchingClients(r), Gone(r, client)
    PROVE  /\ clients' \subseteq NamedClient /\ secrets' \in [Slot -> Secret]
           /\ ClientsGood'
           /\ \A c \in clients' : c \in clients /\ c.name # ClientNameOf(r)
<1>1. client \in clients /\ client.name = ClientNameOf(r)
    <2>1. client \in clients /\ client # Null
        BY NoneAssumption DEF Gone, ManyInv, TypeOK
    <2> QED
        BY <2>1, ClientFound
<1>2. clients' = clients \ {client}
    BY DEF Gone
<1>3. /\ secrets' \in [Slot -> Secret]
      /\ \A q \in WellFormed :
           \/ ContentOf(q)' = Null
           \/ ContentOf(q)' = ContentOf(q) /\ SecretOf(q) # SecretOf(r)
    <2>1. CASE Document(r, Null)
        BY <2>1, DocumentWritten DEF ManyInv
    <2>2. CASE secrets' = secrets /\ ContentOf(r) = Null
        BY <2>2 DEF ManyInv, TypeOK, ContentOf, SecretOf
    <2> QED
        BY <2>1, <2>2 DEF Gone
<1>4. \A q \in WellFormed : ContentOf(q)' # Null => ContentOf(q)' = ContentOf(q) /\ q # r
    BY <1>3
<1>5. IdsUnique'
    BY <1>2 DEF ManyInv, IdsUnique
<1>6. \A q \in WellFormed, c \in clients' :
        ContentOf(q)' # Null /\ ContentOf(q)'.clientId = c.id => c.name = ClientNameOf(q)
    BY <1>2, <1>4 DEF ManyInv, OneClientPerName
<1>7. \A c, d \in clients' : c.name = d.name => c = d
    BY <1>2 DEF ManyInv, OneClientPerName
<1>8. OneClientPerName'
    BY <1>6, <1>7 DEF OneClientPerName, ClientNameOf
<1>9. ASSUME NEW q \in WellFormed, Sole(q), ContentOf(q)' # Null
      PROVE  \E c \in clients' : /\ c.id = ContentOf(q)'.clientId
                                 /\ Range(ContentOf(q)'.jwks) \subseteq c.keys
    <2>1. ContentOf(q)' = ContentOf(q) /\ q # r
        BY <1>4, <1>9
    <2>2. PICK c \in clients : /\ c.id = ContentOf(q).clientId /\ c.name = ClientNameOf(q)
                               /\ Range(ContentOf(q).jwks) \subseteq c.keys
        BY <1>9, <2>1 DEF ManyInv, SoleServed, OneClientPerName
    <2>3. c # client
        BY <1>1, <1>9, <2>1, <2>2, NamesAgree DEF Sole
    <2> QED
        BY <1>2, <2>1, <2>2, <2>3
<1>10. SoleServed'
    BY <1>9 DEF SoleServed, Sole
<1>11. \A c \in clients' : c \in clients /\ c.name # ClientNameOf(r)
    BY <1>1, <1>2 DEF ManyInv, OneClientPerName
<1> QED
    BY <1>2, <1>3, <1>5, <1>8, <1>10, <1>11 DEF ClientsGood, ManyInv, TypeOK

-----------------------------------------------------------------------------
(* The steps *)

LEMMA ReconcileStep ==
    ASSUME ManyInv, NEW r \in Resource, Reconcile(r)
    PROVE  ManyInv'
<1>1. /\ r \in WellFormed /\ resources[r] # Null
      /\ edits' = edits /\ faults' \in 0..MaxFaults /\ settled' \subseteq WellFormed
    BY ReconcileOutcome
<1>2. PICK client \in MatchingClients(r) :
        /\ Made(r) \/ Kept(r, client) \/ Gone(r, client) \/ Nothing
        /\ \/ resources' = [resources EXCEPT ![r] = Loaded(r)]
           \/ Gone(r, client) /\ resources' = [resources EXCEPT ![r] = Null]
    BY ReconcileOutcome
<1>3. /\ clients' \subseteq NamedClient /\ secrets' \in [Slot -> Secret] /\ ClientsGood'
      /\ \A c \in clients' : c \in clients \/ c.name = ClientNameOf(r)
      /\ Gone(r, client) => \A c \in clients' : c \in clients /\ c.name # ClientNameOf(r)
    <2>1. CASE Made(r)
        <3>1. ~Gone(r, client)
            BY <1>1, <2>1, ClientFound, NoneAssumption
               DEF Gone, Made, ManyInv, TypeOK
        <3> QED
            BY <1>1, <2>1, <3>1, MadeKeeps
    <2>2. CASE Gone(r, client)
        BY <1>1, <2>2, GoneKeeps
    <2>3. CASE Kept(r, client) /\ ~Gone(r, client)
        BY <1>1, <2>3, KeptKeeps
    <2>4. CASE Nothing /\ ~Gone(r, client)
        BY <2>4 DEF Nothing, ManyInv, TypeOK, ClientsGood, IdsUnique, OneClientPerName,
                    SoleServed, ContentOf, SecretOf, Sole, ClientNameOf
    <2> QED
        BY <1>2, <2>1, <2>2, <2>3, <2>4
<1>4. resources \in [Resource -> CustomResource \cup {Null}]
    BY DEF ManyInv, TypeOK
<1>5. Loaded(r) \in CustomResource /\ Loaded(r).finalizer /\ Loaded(r) # Null
    BY <1>1, LoadedType, NoneAssumption DEF ManyInv
<1>6. TypeOK'
    BY <1>1, <1>2, <1>3, <1>4, <1>5 DEF TypeOK, ManyInv
<1>7. ASSUME NEW c \in clients'
      PROVE  \E q \in WellFormed : c.name = ClientNameOf(q) /\ Held(q)'
    <2>1. \A q \in WellFormed : q # r => resources'[q] = resources[q]
        BY <1>2, <1>4 DEF WellFormed
    <2>2. CASE Gone(r, client)
        <3>1. PICK q \in WellFormed : c.name = ClientNameOf(q) /\ Held(q)
            BY <1>3, <2>2 DEF ManyInv, NamedClientsHeld
        <3>2. q # r
            BY <1>3, <2>2, <3>1
        <3> QED
            BY <2>1, <3>1, <3>2 DEF Held
    <2>3. CASE ~Gone(r, client)
        <3>1. resources'[r] = Loaded(r)
            BY <1>2, <1>4, <2>3
        <3>2. Held(r)'
            BY <1>5, <3>1 DEF Held
        <3>3. CASE c.name = ClientNameOf(r)
            BY <1>1, <3>2, <3>3
        <3>4. CASE c.name # ClientNameOf(r)
            <4>1. PICK q \in WellFormed : c.name = ClientNameOf(q) /\ Held(q)
                BY <1>3, <3>4 DEF ManyInv, NamedClientsHeld
            <4> QED
                BY <2>1, <3>4, <4>1 DEF Held
        <3> QED
            BY <3>3, <3>4
    <2> QED
        BY <2>2, <2>3
<1>8. NamedClientsHeld'
    BY <1>7 DEF NamedClientsHeld, ClientNameOf, WellFormed
<1> QED
    BY <1>3, <1>6, <1>8 DEF ManyInv, ClientsGood

\* Whoever writes a resource without taking its finalizer disturbs no client.
LEMMA ResourceStep ==
    ASSUME ManyInv, UNCHANGED <<secrets, clients>>,
           NEW r \in Resource, NEW new \in CustomResource \cup {Null},
           resources' = [resources EXCEPT ![r] = new], Held(r) => new # Null /\ new.finalizer,
           settled' \subseteq WellFormed, edits' \in 0..MaxEdits, faults' = faults
    PROVE  ManyInv'
<1>1. resources' \in [Resource -> CustomResource \cup {Null}]
    BY DEF ManyInv, TypeOK
<1>2. TypeOK'
    BY <1>1 DEF ManyInv, TypeOK
<1>3. IdsUnique' /\ OneClientPerName' /\ SoleServed'
    BY DEF ManyInv, IdsUnique, OneClientPerName, SoleServed, ContentOf, SecretOf, Sole,
           ClientNameOf
<1>4. \A q \in WellFormed : Held(q) => Held(q)'
    BY DEF ManyInv, TypeOK, Held, WellFormed
<1>5. NamedClientsHeld'
    BY <1>4 DEF ManyInv, NamedClientsHeld, ClientNameOf
<1> QED
    BY <1>2, <1>3, <1>5 DEF ManyInv

\* An app comes or goes with an empty secret.
LEMMA SecretStep ==
    ASSUME ManyInv, UNCHANGED <<resources, clients, faults>>,
           NEW s \in Slot, NEW new \in Secret, new.content = Null,
           secrets' = [secrets EXCEPT ![s] = new],
           settled' \subseteq WellFormed, edits' \in 0..MaxEdits
    PROVE  ManyInv'
<1>1. TypeOK'
    BY DEF ManyInv, TypeOK
<1>2. \A q \in WellFormed : ContentOf(q)' = Null \/ ContentOf(q)' = ContentOf(q)
    BY DEF ManyInv, TypeOK, ContentOf, SecretOf, Slot
<1>3. IdsUnique'
    BY DEF ManyInv, IdsUnique
<1>4. OneClientPerName'
    BY <1>2 DEF ManyInv, OneClientPerName, ClientNameOf
<1>5. SoleServed'
    BY <1>2 DEF ManyInv, SoleServed, Sole
<1>6. NamedClientsHeld'
    BY DEF ManyInv, NamedClientsHeld, Held, ClientNameOf
<1> QED
    BY <1>1, <1>3, <1>4, <1>5, <1>6 DEF ManyInv

LEMMA InitMany == Init => ManyInv
<1> SUFFICES ASSUME Init PROVE ManyInv
    OBVIOUS
<1>1. NoSecret \in Secret /\ NoSecret.content = Null
    BY DEF NoSecret, Secret
<1>2. TypeOK
    BY <1>1, ManyResourcesAssumption DEF Init, TypeOK
<1>3. \A q \in WellFormed : ContentOf(q) = Null
    BY <1>1 DEF Init, ContentOf, Slot
<1> QED
    BY <1>2, <1>3 DEF Init, ManyInv, IdsUnique, OneClientPerName, NamedClientsHeld, SoleServed

LEMMA NextMany == ManyInv /\ [Next]_vars => ManyInv'
<1> SUFFICES ASSUME ManyInv, [Next]_vars PROVE ManyInv'
    OBVIOUS
<1>0. /\ resources \in [Resource -> CustomResource \cup {Null}]
      /\ settled \subseteq WellFormed /\ edits \in 0..MaxEdits
      /\ Edit => edits' \in 0..MaxEdits
    BY ManyResourcesAssumption DEF ManyInv, TypeOK, Edit
<1>1. ASSUME NEW r \in Resource, NEW scopes \in Scopes, CreateResource(r, scopes) PROVE ManyInv'
    <2> DEFINE new == [scopes |-> scopes, deleting |-> FALSE, finalizer |-> FALSE]
    <2>1. new \in CustomResource /\ ~Held(r)
        BY <1>1 DEF CreateResource, CustomResource, Held
    <2> QED
        BY <1>0, <1>1, <2>1, ResourceStep DEF CreateResource
<1>2. ASSUME NEW r \in Resource, NEW scopes \in Scopes, EditScopes(r, scopes) PROVE ManyInv'
    <2> DEFINE new == [resources[r] EXCEPT !.scopes = scopes]
    <2>1. resources[r] \in CustomResource
        BY <1>0, <1>2 DEF EditScopes
    <2>2. new \in CustomResource /\ new.finalizer = resources[r].finalizer
        BY <2>1 DEF CustomResource
    <2>3. Held(r) => new # Null /\ new.finalizer
        BY <2>2, NoneAssumption DEF Held
    <2>4. resources' = [resources EXCEPT ![r] = new] /\ settled' \subseteq WellFormed
        BY <1>0, <1>2 DEF EditScopes
    <2> HIDE DEF new
    <2> QED
        BY <1>0, <1>2, <2>2, <2>3, <2>4, ResourceStep DEF EditScopes
<1>3. ASSUME NEW r \in Resource, DeleteResource(r) PROVE ManyInv'
    <2> DEFINE new == IF resources[r].finalizer THEN [resources[r] EXCEPT !.deleting = TRUE]
                      ELSE Null
    <2>1. resources[r] \in CustomResource
        BY <1>0, <1>3 DEF DeleteResource
    <2>2. new \in CustomResource \cup {Null} /\ (Held(r) => new # Null /\ new.finalizer)
        BY <2>1, NoneAssumption DEF CustomResource, Held
    <2>3. resources' = [resources EXCEPT ![r] = new] /\ settled' \subseteq WellFormed
        BY <1>0, <1>3 DEF DeleteResource
    <2> HIDE DEF new
    <2> QED
        BY <1>0, <1>3, <2>2, <2>3, ResourceStep DEF DeleteResource
<1>4. ASSUME NEW s \in Slot, DeployApp(s) PROVE ManyInv'
    <2> DEFINE new == [exists |-> TRUE, content |-> Null]
    <2>1. new \in Secret /\ new.content = Null
        BY DEF Secret
    <2> QED
        BY <1>0, <1>4, <2>1, SecretStep DEF DeployApp
<1>5. ASSUME NEW s \in Slot, UndeployApp(s) PROVE ManyInv'
    <2>1. NoSecret \in Secret /\ NoSecret.content = Null
        BY DEF Secret, NoSecret
    <2> QED
        BY <1>0, <1>5, <2>1, SecretStep DEF UndeployApp
<1>6. ASSUME NEW r \in Resource, Reconcile(r) PROVE ManyInv'
    BY <1>6, ReconcileStep
<1>7. ASSUME NEW r \in Resource, FetchFails(r) PROVE ManyInv'
    <2>1. Loaded(r) \in CustomResource /\ Loaded(r).finalizer /\ Loaded(r) # Null
        BY <1>7, LoadedType, NoneAssumption DEF FetchFails, ManyInv
    <2> QED
        BY <1>0, <1>7, <2>1, ResourceStep DEF FetchFails
<1>8. CASE UNCHANGED vars
    BY <1>8 DEF vars, ManyInv, TypeOK, IdsUnique, OneClientPerName, NamedClientsHeld,
                SoleServed, Held, ContentOf, SecretOf, Sole, ClientNameOf
<1> QED
    BY <1>1, <1>2, <1>3, <1>4, <1>5, <1>6, <1>7, <1>8 DEF Next, UserStep

-----------------------------------------------------------------------------
(* A settled resource is left in peace *)

LEMMA AnsweredTwice == ASSUME NEW scopes PROVE Answered(Answered(scopes)) = Answered(scopes)
BY ManyResourcesAssumption DEF Answered, Omitted

\* With client and document there are two questions, each with its command.
LEMMA SteadyPlan ==
    ASSUME NEW scopes, NEW client, client # Null, NEW content \in Content,
           NEW p, p = Plan(FALSE, scopes, client, content, AuthorityUrl, Remaining),
           content # Null
    PROVE  /\ content.authority = AuthorityUrl /\ client.scopes = scopes => p = <<>>
           /\ content.authority # AuthorityUrl /\ client.scopes = scopes
                => p = <<"UpdateSecretContent">>
           /\ content.authority = AuthorityUrl /\ client.scopes # scopes
                => p = <<"UpdateClientScopes">>
           /\ content.authority # AuthorityUrl /\ client.scopes # scopes
                => p = <<"UpdateSecretContent", "UpdateClientScopes">>
<1> DEFINE S == <<"UpdateSecretContent">>
           C == <<"UpdateClientScopes">>
<1>1. S \o C = <<"UpdateSecretContent", "UpdateClientScopes">>
    BY PairConcat
<1>2. S \in Seq(CommandName) /\ C \in Seq(CommandName) /\ <<>> \in Seq(CommandName)
    BY DEF CommandName
<1>3. S \o <<>> = S /\ <<>> \o C = C /\ <<>> \o <<>> = <<>>
    BY <1>2, ConcatEmptySeq
<1>4. ~RotationDue(content.jwks, Remaining)
    BY NeverDue DEF Content
<1>5. p = If(content.authority # AuthorityUrl, S) \o <<>> \o If(client.scopes # scopes, C)
    BY <1>4 DEF Plan, SteadyCommands, AuthorityChanged, ScopesChanged, If
<1> HIDE DEF S, C
<1>6. /\ content.authority = AuthorityUrl /\ client.scopes = scopes => p = <<>>
      /\ content.authority # AuthorityUrl /\ client.scopes = scopes => p = S
      /\ content.authority = AuthorityUrl /\ client.scopes # scopes => p = C
      /\ content.authority # AuthorityUrl /\ client.scopes # scopes => p = S \o C
    BY <1>3, <1>5 DEF If
<1> QED
    BY <1>1, <1>6 DEF S, C

\* What a settled resource finds: its one client, and nothing but its scopes to ask about.
LEMMA EstablishedIsQuiet ==
    ASSUME ManyInv, NEW r \in WellFormed, Established(r), NEW client \in MatchingClients(r)
    PROVE  Commands(r, client) = <<>> <=> resources[r].scopes = Answered(resources[r].scopes)
<1> DEFINE content == ContentOf(r)
           scopes == resources[r].scopes
<1>1. /\ Loaded(r) = resources[r] /\ ~resources[r].deleting
      /\ content # Null /\ content.authority = AuthorityUrl
    BY DEF Established, Held, Loaded
<1>2. client \in clients /\ client.id = content.clientId /\ client # Null
    BY <1>1, NoneAssumption DEF MatchingClients, ManyInv, TypeOK
<1>3. client.scopes = Answered(scopes)
    BY <1>2 DEF Established
<1>4. content \in Content
    BY <1>1 DEF ManyInv, TypeOK, Secret, ContentOf, Slot
<1>5. resources[r].deleting = FALSE
    <2>1. resources[r] \in CustomResource
        BY NoneAssumption DEF Established, Held, ManyInv, TypeOK, WellFormed
    <2> QED
        BY <1>1, <2>1 DEF CustomResource
<1>6. Commands(r, client) = Plan(FALSE, scopes, client, content, AuthorityUrl, Remaining)
    BY <1>1, <1>5 DEF Commands
<1> HIDE DEF content, scopes
<1>7. client.scopes = scopes => Commands(r, client) = <<>>
    BY <1>1, <1>2, <1>4, <1>6, SteadyPlan
<1>8. client.scopes # scopes => Commands(r, client) = <<"UpdateClientScopes">>
    BY <1>1, <1>2, <1>4, <1>6, SteadyPlan
<1>9. <<"UpdateClientScopes">> # <<>>
    OBVIOUS
<1> QED
    BY <1>3, <1>7, <1>8, <1>9 DEF scopes

\* Every client a call writes has scopes that are an answer's, or the ones it had.
LEMMA AnswersKept ==
    ASSUME TypeOK, ScopesAsAnswered, NEW r, NEW client \in clients \cup {Null}, NEW id, NEW executed,
           NEW jwks, NEW registered, Execute(r, client, id, executed, jwks, registered)
    PROVE  ScopesAsAnswered'
<1>1. ASSUME NEW c \in clients'
      PROVE  Answered(c.scopes) = c.scopes
    <2> DEFINE new == [id |-> id, name |-> ClientNameOf(r),
                       scopes |-> Answered(Loaded(r).scopes), keys |-> registered]
               written == Written(r, client, executed, jwks)
    <2>1. c \in clients \/ c = new \/ (c = written /\ client # Null)
        BY <1>1 DEF Execute
    <2>2. new.scopes = Answered(Loaded(r).scopes)
        OBVIOUS
    <2>3. CASE c = new
        BY <2>2, <2>3, AnsweredTwice
    <2>4. CASE c = written /\ client # Null
        BY <2>4, AnsweredTwice DEF ScopesAsAnswered, Written
    <2> QED
        BY <2>1, <2>3, <2>4 DEF ScopesAsAnswered
<1> QED
    BY <1>1 DEF ScopesAsAnswered, Answered

\* The call's own resource: a call that settles it has just compared, or created, all of it.
LEMMA OwnEstablished ==
    ASSUME ManyInv, ManyInv', ScopesAsAnswered, NEW r \in Resource, Reconcile(r),
           r \in settled'
    PROVE  Established(r)'
<1>1. /\ r \in WellFormed /\ resources[r] # Null /\ secrets[SecretOf(r)].exists
      /\ SecretOf(r) \in Slot
    BY DEF Reconcile, Slot
<1>2. PICK client \in MatchingClients(r) :
        LET commands == Commands(r, client)
            jwks == PlannedJwks(client, ContentOf(r), Remaining, NewKey)
            id == IF client = Null THEN NewId ELSE client.id
        IN /\ NeedsKey(Loaded(r).deleting, client, ContentOf(r), Remaining) => UnusedKeys # {}
           /\ client = Null => UnusedIds # {}
           /\ \/ /\ Completed(r, commands)
                 /\ Execute(r, client, id, Prefix(commands, Len(commands)), jwks, ToPublic(jwks))
              \/ Broken(r)
    BY DEF Reconcile
<1> DEFINE commands == Commands(r, client)
           jwks == PlannedJwks(client, ContentOf(r), Remaining, NewKey)
           id == IF client = Null THEN NewId ELSE client.id
           executed == Prefix(commands, Len(commands))
           content == ContentOf(r)
           scopes == Loaded(r).scopes
           written == [clientId |-> id, authority |-> AuthorityUrl, jwks |-> jwks]
           updated == Written(r, client, executed, jwks)
<1>3. ~Broken(r)
    BY DEF Broken
<1>4. Completed(r, commands) /\ Execute(r, client, id, executed, jwks, ToPublic(jwks))
    BY <1>2, <1>3
<1>5. Loaded(r) \in CustomResource /\ Loaded(r).finalizer /\ Loaded(r) # Null
    BY <1>1, LoadedType, NoneAssumption DEF ManyInv
<1>6. Loaded(r).deleting = FALSE /\ commands # RecoverCommands
    BY <1>4, <1>5 DEF Completed, CustomResource
<1>7. resources'[r] = Loaded(r)
    BY <1>1, <1>4, <1>6 DEF Completed, ManyInv, TypeOK
<1>8. content \in Content \cup {Null}
    BY <1>1 DEF ManyInv, TypeOK, Secret, ContentOf
<1>9. /\ client = Null => content = Null
      /\ client # Null => client \in clients /\ (content # Null => client.id = content.clientId)
    BY <1>1, ClientFound
<1>10. commands = Plan(FALSE, scopes, client, content, AuthorityUrl, Remaining)
    BY <1>6 DEF Commands
<1>11. client # Null => content # Null
    BY <1>6, <1>10 DEF Plan
<1>12. /\ secrets'[SecretOf(r)].exists
       /\ "UpdateSecretContent" \in executed => ContentOf(r)' = written
       /\ executed \cap {"UpdateSecretContent", "DeleteSecretContent"} = {}
            => ContentOf(r)' = content
    <2>1. secrets[SecretOf(r)] \in Secret /\ secrets \in [Slot -> Secret]
        BY <1>1 DEF ManyInv, TypeOK
    <2>2. \/ /\ "UpdateSecretContent" \in executed
             /\ secrets' = [secrets EXCEPT ![SecretOf(r)].content = written]
          \/ /\ "UpdateSecretContent" \notin executed
             /\ "DeleteSecretContent" \in executed
             /\ secrets' = [secrets EXCEPT ![SecretOf(r)].content = Null]
          \/ /\ executed \cap {"UpdateSecretContent", "DeleteSecretContent"} = {}
             /\ secrets' = secrets
        BY <1>4 DEF Execute
    <2>3. ContentOf(r)' = secrets'[SecretOf(r)].content
        BY DEF ContentOf, SecretOf
    <2> HIDE DEF written, executed, content
    <2>4. CASE "UpdateSecretContent" \in executed
        BY <1>1, <2>1, <2>2, <2>3, <2>4 DEF Secret
    <2>5. CASE /\ "UpdateSecretContent" \notin executed /\ "DeleteSecretContent" \in executed
        BY <1>1, <2>1, <2>2, <2>3, <2>5 DEF Secret
    <2>6. CASE executed \cap {"UpdateSecretContent", "DeleteSecretContent"} = {}
        BY <1>1, <2>2, <2>3, <2>6 DEF ContentOf, content
    <2> QED
        BY <2>4, <2>5, <2>6
<1>13. /\ "CreateClientInApi" \in executed
            => [id |-> id, name |-> ClientNameOf(r),
                scopes |-> Answered(scopes), keys |-> ToPublic(jwks)] \in clients'
       /\ executed \cap {"CreateClientInApi", "DeleteClientInApi"} = {} /\ client # Null
            => updated \in clients'
    BY <1>4 DEF Execute
<1>14. written # Null
    <2>1. id \in ClientId
        <3>1. client = Null => NewId \in ClientId
            BY <1>2 DEF NewId, UnusedIds
        <3> QED
            BY <1>9, <3>1 DEF ManyInv, TypeOK, NamedClient
    <2>2. jwks \in JwksType
        <3>1. client = Null => NewKey \in Key
            BY <1>2, <1>6 DEF NeedsKey, NewKey, UnusedKeys
        <3>2. Remaining \in Lifetimes
            BY LifetimeAssumption DEF Remaining, Lifetimes
        <3>3. content # Null => ~RotationDue(content.jwks, Remaining)
            BY <1>8, NeverDue DEF Content
        <3> HIDE DEF content
        <3> QED
            BY <1>8, <1>9, <1>11, <3>1, <3>2, <3>3, PlannedJwksType DEF content
    <2> HIDE DEF id, jwks
    <2>3. written \in Content
        BY <2>1, <2>2, ManyResourcesAssumption DEF Content
    <2> QED
        BY <2>3, NullAssumption
<1>15. PICK c \in clients' :
         /\ c.id = ContentOf(r)'.clientId /\ c.scopes = Answered(scopes)
         /\ ContentOf(r)' # Null /\ ContentOf(r)'.authority = AuthorityUrl
    <2> HIDE DEF content, scopes
    <2>1. CASE client = Null
        <3>1. commands = <<"CreateClientInApi", "UpdateSecretContent">>
            BY <1>10, <2>1 DEF Plan, CreateCommands
        <3>2. executed = {"CreateClientInApi", "UpdateSecretContent"}
            <4> HIDE DEF commands
            <4>1. Len(commands) = 2
                BY <3>1
            <4> QED
                BY <3>1, <4>1, PrefixOfTwo
        <3> HIDE DEF executed, jwks, id
        <3>3. ContentOf(r)' = written
            BY <1>12, <3>2
        <3>4. PICK new \in clients' : new.id = id /\ new.scopes = Answered(scopes)
            BY <1>13, <3>2
        <3> QED
            BY <1>14, <3>3, <3>4
    <2>2. CASE client # Null
        <3>1. content \in Content /\ content # Null /\ client \in clients
            BY <1>8, <1>9, <1>11, <2>2
        <3>2. ASSUME "UpdateClientScopes" \in executed \/ client.scopes = scopes,
                     "UpdateSecretContent" \in executed \/ content.authority = AuthorityUrl,
                     executed \subseteq {"UpdateSecretContent", "UpdateClientScopes"}
              PROVE  \E c \in clients' :
                       /\ c.id = ContentOf(r)'.clientId /\ c.scopes = Answered(scopes)
                       /\ ContentOf(r)' # Null /\ ContentOf(r)'.authority = AuthorityUrl
            <4> HIDE DEF executed, jwks
            <4>1. updated \in clients'
                BY <1>13, <2>2, <3>2
            <4>2. updated.id = client.id
                BY <3>1 DEF Written, ManyInv, TypeOK, NamedClient
            <4>3. updated.scopes = Answered(scopes)
                <5>1. client \in NamedClient /\ Answered(client.scopes) = client.scopes
                    BY <3>1 DEF ManyInv, TypeOK, ScopesAsAnswered
                <5> QED
                    BY <3>2, <5>1 DEF Written, NamedClient, scopes
            <4>4. /\ ContentOf(r)'.clientId = client.id /\ ContentOf(r)' # Null
                  /\ ContentOf(r)'.authority = AuthorityUrl
                <5>1. CASE "UpdateSecretContent" \in executed
                    <6>1. ContentOf(r)' = written /\ id = client.id
                        BY <1>12, <2>2, <5>1
                    <6> HIDE DEF id
                    <6> QED
                        BY <1>14, <6>1
                <5>2. CASE "UpdateSecretContent" \notin executed
                    <6>1. ContentOf(r)' = content
                        BY <1>12, <3>2, <5>2
                    <6> QED
                        BY <1>9, <2>2, <3>1, <3>2, <5>2, <6>1
                <5> QED
                    BY <5>1, <5>2
            <4> HIDE DEF updated
            <4> QED
                BY <4>1, <4>2, <4>3, <4>4
        <3>3. /\ content.authority = AuthorityUrl /\ client.scopes = scopes => commands = <<>>
              /\ content.authority # AuthorityUrl /\ client.scopes = scopes
                   => commands = <<"UpdateSecretContent">>
              /\ content.authority = AuthorityUrl /\ client.scopes # scopes
                   => commands = <<"UpdateClientScopes">>
              /\ content.authority # AuthorityUrl /\ client.scopes # scopes
                   => commands = <<"UpdateSecretContent", "UpdateClientScopes">>
            BY <1>10, <2>2, <3>1, SteadyPlan
        <3>4. /\ commands = <<>> => executed = {}
              /\ commands = <<"UpdateSecretContent">> => executed = {"UpdateSecretContent"}
              /\ commands = <<"UpdateClientScopes">> => executed = {"UpdateClientScopes"}
              /\ commands = <<"UpdateSecretContent", "UpdateClientScopes">>
                   => executed = {"UpdateSecretContent", "UpdateClientScopes"}
            <4> HIDE DEF commands
            <4>1. /\ commands = <<>> => Len(commands) = 0
                  /\ commands = <<"UpdateSecretContent">> => Len(commands) = 1
                  /\ commands = <<"UpdateClientScopes">> => Len(commands) = 1
                  /\ commands = <<"UpdateSecretContent", "UpdateClientScopes">>
                       => Len(commands) = 2
                OBVIOUS
            <4>2. CASE commands = <<>>
                BY <4>1, <4>2, PrefixOfNone
            <4>3. CASE commands = <<"UpdateSecretContent">>
                BY <4>1, <4>3, PrefixOfOne
            <4>4. CASE commands = <<"UpdateClientScopes">>
                BY <4>1, <4>4, PrefixOfOne
            <4>5. CASE commands = <<"UpdateSecretContent", "UpdateClientScopes">>
                BY <4>1, <4>5, PrefixOfTwo
            <4> HIDE DEF executed
            <4> QED
                BY <4>2, <4>3, <4>4, <4>5
        <3> HIDE DEF executed, commands
        <3> QED
            BY <3>2, <3>3, <3>4
    <2> QED
        BY <2>1, <2>2
<1>16. \A d \in clients' : d.id = ContentOf(r)'.clientId => d.scopes = Answered(scopes)
    BY <1>15 DEF ManyInv, IdsUnique
<1> QED
    BY <1>5, <1>6, <1>7, <1>12, <1>15, <1>16 DEF Established, Held, Answered, Omitted

-----------------------------------------------------------------------------

\* The state of all resources, secrets and clients is consistent, whatever names and
\* namespaces the resources have and wherever calls of Reconcile break off.
THEOREM ManyInvariance == Spec => []ManyInv
BY InitMany, NextMany, PTL DEF Spec

\* A client exists only while a resource that is to delete it carries the finalizer.
THEOREM NamedClientsAlwaysHeld == Spec => []NamedClientsHeld
<1>1. ManyInv => NamedClientsHeld
    BY DEF ManyInv
<1> QED
    BY <1>1, ManyInvariance, PTL

\* Namesakes make no second client, and no document leads to another name's.
THEOREM OneClientEach == Spec => []OneClientPerName
<1>1. ManyInv => OneClientPerName
    BY DEF ManyInv
<1> QED
    BY <1>1, ManyInvariance, PTL

\* A resource alone with its app id is served whatever the others do.
THEOREM SoleAlwaysServed == Spec => []SoleServed
<1>1. ManyInv => SoleServed
    BY DEF ManyInv
<1> QED
    BY <1>1, ManyInvariance, PTL

LEMMA IsolatedStep ==
    ASSUME ManyInv, NEW r \in Resource, Reconcile(r),
           NEW name \in ClientName \ {ClientNameOf(r)}
    PROVE  {c \in clients' : c.name = name} = {c \in clients : c.name = name}
<1>1. r \in WellFormed
    BY ReconcileOutcome
<1>2. PICK client \in MatchingClients(r) :
        Made(r) \/ Kept(r, client) \/ Gone(r, client) \/ Nothing
    BY ReconcileOutcome
<1>3. client \in clients => client.name = ClientNameOf(r)
    BY <1>1, ClientFound, NoneAssumption DEF ManyInv, TypeOK
<1>4. CASE Made(r)
    BY <1>4 DEF Made
<1>5. CASE Kept(r, client)
    BY <1>3, <1>5 DEF Kept
<1>6. CASE Gone(r, client)
    BY <1>3, <1>6 DEF Gone
<1>7. CASE Nothing
    BY <1>7 DEF Nothing
<1> QED
    BY <1>2, <1>4, <1>5, <1>6, <1>7

\* No call of Reconcile changes a client of another name than its resource's.
THEOREM NamesIsolated == Spec => NameIsolation
<1>1. ManyInv /\ [Next]_vars
        => [\A r \in Resource : Reconcile(r)
              => \A name \in ClientName \ {ClientNameOf(r)} :
                   {c \in clients' : c.name = name} = {c \in clients : c.name = name}]_vars
    BY IsolatedStep
<1> QED
    BY <1>1, ManyInvariance, PTL DEF Spec, NameIsolation

\* The other resources: a call writes under its own client name and secret alone.
LEMMA OthersEstablished ==
    ASSUME ManyInv, ManyInv', NEW r \in Resource, Reconcile(r),
           NEW q \in WellFormed, q # r, Sole(q), Established(q)
    PROVE  Established(q)'
<1>1. r \in WellFormed /\ resources[r] # Null
    BY ReconcileOutcome
<1>2. ClientNameOf(q) # ClientNameOf(r) /\ SecretOf(q) # SecretOf(r)
    BY <1>1, NamesAgree DEF Sole
<1>3. PICK client \in MatchingClients(r) :
        /\ Made(r) \/ Kept(r, client) \/ Gone(r, client) \/ Nothing
        /\ \/ resources' = [resources EXCEPT ![r] = Loaded(r)]
           \/ resources' = [resources EXCEPT ![r] = Null]
    BY ReconcileOutcome
<1>4. resources'[q] = resources[q]
    BY <1>3 DEF ManyInv, TypeOK, WellFormed
<1>5. secrets'[SecretOf(q)] = secrets[SecretOf(q)]
    <2>1. SecretOf(q) \in Slot /\ SecretOf(r) \in Slot
        BY <1>1 DEF Slot
    <2>2. ASSUME NEW content, Document(r, content)
          PROVE  secrets'[SecretOf(q)] = secrets[SecretOf(q)]
        BY <1>2, <2>1, <2>2 DEF Document, ManyInv, TypeOK
    <2> QED
        BY <1>3, <2>2 DEF Made, Kept, Gone, Nothing
<1>6. ContentOf(q)' = ContentOf(q)
    BY <1>5 DEF ContentOf, SecretOf
<1>7. ASSUME NEW c \in clients', c.id = ContentOf(q).clientId
      PROVE  c.scopes = Answered(resources[q].scopes)
    <2>1. c.name = ClientNameOf(q)
        <3>1. ContentOf(q)' # Null /\ ContentOf(q)'.clientId = c.id
            BY <1>6, <1>7 DEF Established
        <3> QED
            BY <3>1 DEF ManyInv, OneClientPerName, ClientNameOf
    <2>2. ClientNameOf(q) \in ClientName \ {ClientNameOf(r)}
        BY <1>2 DEF ClientName
    <2>3. c \in clients
        BY <2>1, <2>2, IsolatedStep
    <2> QED
        BY <1>7, <2>3 DEF Established
<1>8. secrets'[SecretOf(q)].exists /\ ~resources'[q].deleting /\ resources'[q].finalizer
      /\ resources'[q] # Null
    BY <1>4, <1>5 DEF Established, Held
<1> QED
    BY <1>4, <1>6, <1>7, <1>8 DEF Established, Held, Answered, Omitted, SecretOf

\* A step that writes no client, and neither the resource nor the document of a settled one.
LEMMA EstablishedStays ==
    ASSUME NEW q, Established(q), UNCHANGED clients,
           resources'[q] = resources[q], secrets'[SecretOf(q)] = secrets[SecretOf(q)]
    PROVE  Established(q)'
BY DEF Established, Held, ContentOf, SecretOf, Answered, Omitted

LEMMA QuietKept == ManyInv /\ QuietInv /\ [Next]_vars => QuietInv'
<1> SUFFICES ASSUME ManyInv, QuietInv, [Next]_vars PROVE QuietInv'
    OBVIOUS
<1>0. /\ ManyInv'
      /\ resources \in [Resource -> CustomResource \cup {Null}]
      /\ secrets \in [Slot -> Secret] /\ settled \subseteq WellFormed
      /\ \A q \in WellFormed : SecretOf(q) \in Slot /\ q \in Resource
    BY NextMany DEF ManyInv, TypeOK, Slot, WellFormed
<1>1. ASSUME UNCHANGED clients, settled' \subseteq settled,
             \A q \in settled' : Established(q) =>
               /\ resources'[q] = resources[q]
               /\ secrets'[SecretOf(q)] = secrets[SecretOf(q)]
      PROVE  QuietInv'
    <2>1. ScopesAsAnswered'
        BY <1>1 DEF QuietInv, ScopesAsAnswered, Answered, Omitted
    <2>2. \A q \in settled' : Sole(q) => Established(q)'
        BY <1>1, EstablishedStays DEF QuietInv
    <2> QED
        BY <2>1, <2>2 DEF QuietInv, Sole
<1>2. ASSUME NEW r \in Resource, NEW scopes \in Scopes, CreateResource(r, scopes) PROVE QuietInv'
    <2>1. \A q \in settled : Established(q) => q # r
        BY <1>2 DEF CreateResource, Established, Held
    <2> QED
        BY <1>0, <1>1, <1>2, <2>1 DEF CreateResource
<1>3. ASSUME NEW r \in Resource, NEW scopes \in Scopes, EditScopes(r, scopes) PROVE QuietInv'
    BY <1>0, <1>1, <1>3 DEF EditScopes
<1>4. ASSUME NEW r \in Resource, DeleteResource(r) PROVE QuietInv'
    BY <1>0, <1>1, <1>4 DEF DeleteResource
<1>5. ASSUME NEW s \in Slot, DeployApp(s) PROVE QuietInv'
    <2>1. \A q \in settled : Established(q) => SecretOf(q) # s
        BY <1>5 DEF DeployApp, Established
    <2> QED
        BY <1>0, <1>1, <1>5, <2>1 DEF DeployApp
<1>6. ASSUME NEW s \in Slot, UndeployApp(s) PROVE QuietInv'
    <2>1. \A q \in settled' : q \in settled /\ SecretOf(q) # s
        BY <1>6 DEF UndeployApp
    <2> QED
        BY <1>0, <1>1, <1>6, <2>1 DEF UndeployApp
<1>7. ASSUME NEW r \in Resource, FetchFails(r) PROVE QuietInv'
    <2>1. Held(r) => Loaded(r) = resources[r]
        BY DEF Held, Loaded
    <2>2. \A q \in settled : Established(q) => resources'[q] = resources[q]
        BY <1>0, <1>7, <2>1 DEF FetchFails, Established
    <2> QED
        BY <1>1, <1>7, <2>2 DEF FetchFails
<1>8. ASSUME NEW r \in Resource, Reconcile(r) PROVE QuietInv'
    <2>1. ScopesAsAnswered'
        <3>1. PICK client \in MatchingClients(r) :
                \E id, executed, jwks, registered :
                    Execute(r, client, id, executed, jwks, registered)
            BY <1>8 DEF Reconcile
        <3>2. client \in clients \cup {Null}
            BY <3>1 DEF MatchingClients
        <3> QED
            BY <3>1, <3>2, AnswersKept DEF ManyInv, QuietInv
    <2>2. settled' \subseteq settled \cup {r}
        BY <1>8 DEF Reconcile, Completed, Broken
    <2>3. ASSUME NEW q \in settled', Sole(q)
          PROVE  Established(q)'
        <3>1. CASE q = r
            BY <1>0, <1>8, <2>3, <3>1, OwnEstablished DEF QuietInv
        <3>2. CASE q # r
            <4>1. q \in WellFormed /\ Established(q)
                BY <1>0, <2>2, <2>3, <3>2 DEF QuietInv
            <4> QED
                BY <1>0, <1>8, <2>3, <3>2, <4>1, OthersEstablished
        <3> QED
            BY <3>1, <3>2
    <2> QED
        BY <2>1, <2>3 DEF QuietInv, Sole
<1>9. CASE UNCHANGED vars
    BY <1>1, <1>9 DEF vars, Sole
<1> QED
    BY <1>2, <1>3, <1>4, <1>5, <1>6, <1>7, <1>8, <1>9 DEF Next, UserStep

\* What a settled resource alone with its app id established is still there, and every
\* client has its scopes in the form the API answers them: what planCommands reads when the
\* key comes round again (client_state.go).
THEOREM QuietInvariance == Spec => []QuietInv
<1>1. Init => QuietInv
    BY DEF Init, QuietInv, ScopesAsAnswered
<1> QED
    BY <1>1, QuietKept, ManyInvariance, PTL DEF Spec

\* For a settled resource that is alone with its app id the next call of Reconcile plans no
\* command, whatever the other resources' calls have done since, exactly if its list of
\* scopes is one the API answers as it is.
THEOREM SettledLeftInPeace == Spec => []QuietIfAnsweredAlike
<1>1. ManyInv /\ QuietInv => QuietIfAnsweredAlike
    BY EstablishedIsQuiet DEF QuietInv, QuietIfAnsweredAlike, ManyInv, TypeOK
<1> QED
    BY <1>1, QuietInvariance, ManyInvariance, PTL

=============================================================================
