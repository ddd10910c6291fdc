-------------------------- MODULE ClientKeysProofs ---------------------------
(***************************************************************************)
(* Proofs about a service account's keys and secrets, for any names, keys  *)
(* and runs of the tools that stop anywhere.  What concerns the files of   *)
(* the host holds however runs overlap; what concerns the account asks     *)
(* that one operator at a time works on it.                                *)
(***************************************************************************)
EXTENDS ClientKeys, FiniteSetTheorems, TLAPS

Puts(r) == pc[r] \in {"get", "put"}

Creates(r) == pc[r] \in {"create", "grant", "creating"}

KeysAreFew == \A r \in Run : Puts(r) => Cardinality(keys[r]) <= 2

\* A creation has one name; a `new` under way holds the key it wrote under its name.
NamesHold ==
  \A r \in Run :
    /\ Creates(r) => \E n \in Name : names[r] = {n}
    /\ pc[r] \in {"chown", "jwk"} => made[r] \in Key /\ \A n \in names[r] : pem[n] = made[r]
    /\ pc[r] = "jwk" /\ OwnerGiven => names[r] \subseteq owned

HostAgrees == \A n \in Name : jwk[n] # None => jwk[n] = pem[n] /\ (OwnerGiven => n \in owned)

\* The files of the host, and what `new`s under way are going to write, agree.
KeysInv == TypeOK /\ KeysAreFew /\ NamesHold /\ HostAgrees

OneOperates == \A q, r \in Run : Operating(q) /\ Operating(r) => q = r

\* Nobody counts on the account's keys before it exists or while they are changed.
Uninformed ==
  /\ account = "absent" =>
       deployed = None /\ installed = {} /\ \A r \in Run : pc[r] \notin {"put", "regenerate"}
  /\ \A r \in Run : Operating(r) => installed = {}
  /\ \A r \in Run : Creates(r) => deployed = None

Registered(N) == auth = "jwt" /\ \A n \in N : jwk[n] # None /\ jwk[n] \in jwks

\* What operators know to be registered is, and so is what an installation has put;
\* what it is going to put includes the deployable's key.
OperatorsKnow ==
  /\ installed # {} => Registered(installed)
  /\ \A r \in Run : pc[r] = "regenerate" => Registered(names[r])
  /\ \A r \in Run : Puts(r) =>
       /\ keys[r] = {jwk[n] : n \in names[r]} /\ \A n \in names[r] : jwk[n] # None
       /\ deployed # None => deployed \in names[r]

\* The files, the account and what operators know of both.
RotationInv == KeysInv /\ OneOperates /\ Uninformed /\ OperatorsKnow /\ DeployableIsAccepted

\* The secret an installation is going to put back is none that another replaced.
SecretsInv ==
  /\ TypeOK /\ OneOperates /\ ReplacedSecretsStayDead
  /\ \A r \in Run : pc[r] = "put" => seen[r] \notin dead

-----------------------------------------------------------------------------
(* Lemmas. *)

\* One or two files hold one or two keys.
LEMMA PairIsSmall == ASSUME NEW a, NEW b PROVE Cardinality({a, b}) <= 2
<1>1. IsFiniteSet({a}) /\ Cardinality({a}) = 1 /\ {a, b} = {a} \cup {b}
  BY FS_Singleton
<1>2. Cardinality({a} \cup {b}) = IF b \in {a} THEN Cardinality({a}) ELSE Cardinality({a}) + 1
  BY <1>1, FS_AddElement
<1> QED BY <1>1, <1>2

\* A run that ends leaves everything else to the others.
LEMMA EndType ==
  ASSUME TypeOK, NEW r \in Run, End(r), UNCHANGED issued
  PROVE  /\ pc' \in [Run -> PCs] /\ names' \in [Run -> SUBSET Name] /\ made' \in [Run -> Key \cup {None}]
         /\ keys' \in [Run -> SUBSET Key] /\ seen' \in [Run -> 0..issued]
  BY DEF TypeOK, End, PCs

\* A new secret is none there was before.
LEMMA SecretIssued ==
  ASSUME TypeOK, issued < MaxSecrets, secret' = issued + 1, issued' = issued + 1
  PROVE  /\ issued' \in 0..MaxSecrets /\ secret' \in 0..issued' /\ secret' \notin 0..issued
         /\ 0 \in 0..issued' /\ 0..issued \subseteq 0..issued'
  BY ClientKeysAssumption DEF TypeOK

-----------------------------------------------------------------------------
(* The files of the host. *)

LEMMA KeysInvInit == Init => KeysInv
  BY FS_EmptySet, ClientKeysAssumption
     DEF Init, KeysInv, TypeOK, KeysAreFew, NamesHold, HostAgrees, Puts, Creates, PCs

\* An installation has read one or two keys.
LEMMA InstallStep ==
  ASSUME KeysInv, NEW r \in Run, NEW m \in Name, NEW n \in Name, NEW from, from # "get",
         Goto(r, from, "get"), Install(r, {m, n})
  PROVE  KeysInv'
<1> DEFINE K == {jwk[x] : x \in {m, n}}
<1>1. K = {jwk[m], jwk[n]}
  OBVIOUS
<1>2. Cardinality(K) <= 2
  BY <1>1, PairIsSmall
<1>3. K \subseteq Key
  BY DEF KeysInv, TypeOK, Install, Readable
<1>4. /\ pc' = [pc EXCEPT ![r] = "get"] /\ keys' = [keys EXCEPT ![r] = K]
      /\ names' = [names EXCEPT ![r] = {m, n}] /\ installed' = {}
      /\ UNCHANGED <<files, client, deployed, made, seen>>
  BY DEF Install, Goto
<1> HIDE DEF K
<1>5. TypeOK'
  BY <1>3, <1>4 DEF KeysInv, TypeOK, PCs, files, client
<1>6. KeysAreFew' /\ NamesHold'
  BY <1>2, <1>4 DEF KeysInv, TypeOK, KeysAreFew, NamesHold, Puts, Creates, files, client
<1> QED
  BY <1>4, <1>5, <1>6 DEF KeysInv, HostAgrees, files, client

LEMMA KeysInvStep == ASSUME KeysInv, [Next]_vars PROVE KeysInv'
<1> USE ClientKeysAssumption DEF KeysInv, Goto, files, client, moves, run
<1>1. ASSUME NEW r \in Run, NEW n \in Name, NEW k \in Key, WritePEM(r, n, k) PROVE KeysInv'
  <2> USE <1>1 DEF WritePEM
  <2>1. jwk[n] = None
    BY DEF HostAgrees, TypeOK
  <2>2. TypeOK' /\ KeysAreFew'
    BY DEF TypeOK, PCs, KeysAreFew, Puts
  <2>3. NamesHold'
    BY DEF TypeOK, NamesHold, Creates
  <2> QED
    BY <2>1, <2>2, <2>3 DEF TypeOK, HostAgrees
<1>2. ASSUME NEW r \in Run, Chown(r) PROVE KeysInv'
  BY <1>2 DEF Chown, TypeOK, PCs, KeysAreFew, NamesHold, HostAgrees, Puts, Creates
<1>3. ASSUME NEW r \in Run, WriteJWK(r) PROVE KeysInv'
  <2> USE <1>3 DEF WriteJWK
  <2>1. made[r] \in Key /\ (\A n \in names[r] : pem[n] = made[r]) /\ (OwnerGiven => names[r] \subseteq owned)
    BY DEF NamesHold
  <2>2. TypeOK'
    BY <2>1, EndType DEF TypeOK
  <2>3. HostAgrees'
    BY <2>1 DEF TypeOK, HostAgrees
  <2>4. NamesHold'
    BY DEF End, TypeOK, NamesHold, Creates
  <2> QED
    BY <2>2, <2>3, <2>4 DEF End, TypeOK, KeysAreFew, Puts
<1>4. ASSUME NEW n \in Name, DiscardJWK(n) \/ DiscardPEM(n) PROVE KeysInv'
  <2>1. \A r \in Run : n \notin names[r]
    BY <1>4 DEF DiscardJWK, DiscardPEM, Unused
  <2>2. TypeOK' /\ HostAgrees'
    BY <1>4 DEF DiscardJWK, DiscardPEM, TypeOK, HostAgrees
  <2>3. NamesHold'
    BY <1>4, <2>1 DEF DiscardJWK, DiscardPEM, TypeOK, NamesHold, Creates
  <2> QED
    BY <1>4, <2>2, <2>3 DEF DiscardJWK, DiscardPEM, KeysAreFew, Puts
<1>5. ASSUME NEW r \in Run, NEW n \in Name, BeginCreate(r, n) PROVE KeysInv'
  BY <1>5 DEF BeginCreate, TypeOK, PCs, KeysAreFew, NamesHold, HostAgrees, Puts, Creates
<1>6. ASSUME NEW r \in Run, Create(r) PROVE KeysInv'
  <2> USE <1>6 DEF Create
  <2>1. TypeOK'
    <3>1. seen' \in [Run -> 0..issued'] /\ dead' \in SUBSET (0..issued')
      BY SecretIssued DEF TypeOK
    <3>2. pc' \in [Run -> PCs]
      BY DEF TypeOK, PCs
    <3> QED BY <3>1, <3>2, SecretIssued DEF TypeOK
  <2> QED
    BY <2>1 DEF TypeOK, KeysAreFew, NamesHold, HostAgrees, Puts, Creates
<1>7. ASSUME NEW r \in Run, Grant(r) PROVE KeysInv'
  BY <1>7 DEF Grant, TypeOK, PCs, KeysAreFew, NamesHold, HostAgrees, Puts, Creates
<1>8. ASSUME NEW r \in Run, NEW m \in Name, NEW n \in Name, BeginInstall(r, {m, n}) PROVE KeysInv'
  BY <1>8, InstallStep DEF BeginInstall
<1>9. ASSUME NEW r \in Run, CreateInstalls(r) PROVE KeysInv'
  <2>1. PICK n \in Name : names[r] = {n, n}
    BY <1>9 DEF CreateInstalls, NamesHold, Creates
  <2> QED
    BY <1>9, <2>1, InstallStep DEF CreateInstalls
<1>10. ASSUME NEW r \in Run, Get(r) PROVE KeysInv'
  BY <1>10 DEF Get, TypeOK, PCs, KeysAreFew, NamesHold, HostAgrees, Puts, Creates
<1>11. ASSUME NEW r \in Run, Put(r) PROVE KeysInv'
  <2> USE <1>11 DEF Put
  <2>1. Cardinality(keys[r]) <= 2
    BY DEF KeysAreFew, Puts
  <2>2. TypeOK'
    BY <2>1 DEF TypeOK, PCs
  <2> QED
    BY <2>2 DEF TypeOK, KeysAreFew, NamesHold, HostAgrees, Puts, Creates
<1>12. ASSUME NEW r \in Run, Regenerate(r) PROVE KeysInv'
  <2> USE <1>12 DEF Regenerate, End
  <2>1. TypeOK'
    <3>1. seen' \in [Run -> 0..issued']
      BY SecretIssued DEF TypeOK
    <3>2. dead' \in SUBSET (0..issued')
      BY SecretIssued DEF TypeOK
    <3>3. /\ pc' \in [Run -> PCs] /\ names' \in [Run -> SUBSET Name] /\ made' \in [Run -> Key \cup {None}]
          /\ keys' \in [Run -> SUBSET Key] /\ installed' \in SUBSET Name
      BY DEF TypeOK, PCs
    <3> QED BY <3>1, <3>2, <3>3, SecretIssued DEF TypeOK
  <2> QED
    BY <2>1 DEF TypeOK, KeysAreFew, NamesHold, HostAgrees, Puts, Creates
<1>13. ASSUME NEW r \in Run, Stop(r) PROVE KeysInv'
  <2>1. TypeOK'
    BY <1>13, EndType DEF Stop, TypeOK
  <2> QED
    BY <1>13, <2>1 DEF Stop, End, TypeOK, KeysAreFew, NamesHold, HostAgrees, Puts, Creates
<1>14. ASSUME NEW n \in Name, Deploy(n) PROVE KeysInv'
  BY <1>14 DEF Deploy, TypeOK, KeysAreFew, NamesHold, HostAgrees, Puts, Creates
<1>15. ASSUME RegenerateByHand PROVE KeysInv'
  <2>1. TypeOK'
    BY <1>15 DEF RegenerateByHand, TypeOK
  <2> QED
    BY <1>15, <2>1 DEF RegenerateByHand, KeysAreFew, NamesHold, HostAgrees, Puts, Creates
<1>16. CASE UNCHANGED vars
  BY <1>16 DEF vars, TypeOK, KeysAreFew, NamesHold, HostAgrees, Puts, Creates
<1> QED
  BY <1>1, <1>2, <1>3, <1>4, <1>5, <1>6, <1>7, <1>8, <1>9, <1>10, <1>11, <1>12, <1>13, <1>14, <1>15, <1>16 DEF Next

\* Whatever runs stop or overlap, a public key on the host and what each `new` is
\* going to write belong to the private key under the same name.
THEOREM KeysInvHolds == Spec => []KeysInv
<1> QED BY KeysInvInit, KeysInvStep, PTL DEF Spec

\* Every variable keeps its type; no more than two keys are ever registered.
THEOREM ClientKeyTypes == Spec => []TypeOK
<1>1. KeysInv => TypeOK
  BY DEF KeysInv
<1> QED BY <1>1, KeysInvHolds, PTL

\* A public key on the host is that of the private key beside it, which the deployable
\* can read: a `new` that stopped part way leaves none (O_EXCL, the JWK last).
THEOREM HostKeysWork == ASSUME OwnerGiven PROVE Spec => []InstallableKeysWork
<1>1. KeysInv => InstallableKeysWork
  BY DEF KeysInv, HostAgrees, InstallableKeysWork
<1> QED BY <1>1, KeysInvHolds, PTL

-----------------------------------------------------------------------------
(* The rotation. *)

\* Each action either leaves the account and what is known of it to others, or is the
\* only run that works on it.
LEMMA RotationInvStep ==
  ASSUME OwnerGiven, OperatorsWait, RotationInv, KeysInv', [Next]_vars PROVE RotationInv'
<1> USE DEF RotationInv, Goto, files, client, moves, run
<1> DEFINE Rest == OneOperates /\ Uninformed /\ OperatorsKnow /\ DeployableIsAccepted
<1> SUFFICES Rest'
  OBVIOUS
<1>1. ASSUME NEW r \in Run, NEW n \in Name, NEW k \in Key, WritePEM(r, n, k) PROVE Rest'
  <2> USE <1>1 DEF WritePEM
  <2>1. deployed # n
    BY ClientKeysAssumption DEF DeployableIsAccepted, KeysInv, TypeOK
  <2>2. OneOperates' /\ Uninformed'
    BY DEF KeysInv, TypeOK, OneOperates, Uninformed, Operating, Creates
  <2>3. OperatorsKnow'
    BY DEF KeysInv, TypeOK, OperatorsKnow, Registered, Puts
  <2> QED
    BY <2>1, <2>2, <2>3 DEF KeysInv, TypeOK, DeployableIsAccepted
<1>2. ASSUME NEW r \in Run, Chown(r) PROVE Rest'
  BY <1>2 DEF Chown, KeysInv, TypeOK, OneOperates, Uninformed, OperatorsKnow, Registered, DeployableIsAccepted,
     Operating, Creates, Puts
<1>3. ASSUME NEW r \in Run, WriteJWK(r) PROVE Rest'
  <2> USE <1>3 DEF WriteJWK
  <2>1. made[r] \in Key /\ \A n \in names[r] : pem[n] = made[r]
    BY DEF KeysInv, NamesHold
  <2>2. \A n \in Name : jwk[n] # None => jwk'[n] = jwk[n]
    BY <2>1 DEF KeysInv, TypeOK, HostAgrees
  <2>3. /\ \A q \in Run : q # r => pc'[q] = pc[q] /\ names'[q] = names[q] /\ keys'[q] = keys[q]
        /\ pc'[r] = "idle"
    BY DEF End, KeysInv, TypeOK
  <2>4. OneOperates' /\ Uninformed'
    BY <2>3 DEF OneOperates, Uninformed, Operating, Creates
  <2>5. \A N \in SUBSET Name : Registered(N) => Registered(N)'
    BY <2>2, ClientKeysAssumption DEF Registered, KeysInv, TypeOK
  <2>6. ASSUME NEW N \in SUBSET Name, \A n \in N : jwk[n] # None
        PROVE  {jwk'[n] : n \in N} = {jwk[n] : n \in N} /\ \A n \in N : jwk'[n] # None
    BY <2>2, <2>6
  <2>7. installed \in SUBSET Name /\ \A q \in Run : names[q] \in SUBSET Name
    BY DEF KeysInv, TypeOK
  <2>8. OperatorsKnow'
    BY <2>3, <2>5, <2>6, <2>7 DEF OperatorsKnow, Puts
  <2> QED
    BY <2>4, <2>8 DEF DeployableIsAccepted
<1>4. ASSUME NEW n \in Name, DiscardJWK(n) \/ DiscardPEM(n) PROVE Rest'
  <2>1. n # deployed /\ \A r \in Run : n \notin names[r]
    BY <1>4 DEF DiscardJWK, DiscardPEM, Unused
  <2>2. OneOperates' /\ Uninformed'
    BY <1>4 DEF DiscardJWK, DiscardPEM, OneOperates, Uninformed, Operating, Creates
  <2>3. /\ (installed' \subseteq installed /\ n \notin installed') \/ UNCHANGED <<installed, jwk>>
        /\ \A x \in Name : x # n => jwk'[x] = jwk[x]
    BY <1>4 DEF DiscardJWK, DiscardPEM, KeysInv, TypeOK
  <2>4. \A N \in SUBSET Name : n \notin N /\ Registered(N) => Registered(N)'
    BY <1>4, <2>3 DEF DiscardJWK, DiscardPEM, Registered
  <2>5. ASSUME NEW N \in SUBSET Name, n \notin N, \A x \in N : jwk[x] # None
        PROVE  {jwk'[x] : x \in N} = {jwk[x] : x \in N} /\ \A x \in N : jwk'[x] # None
    BY <2>3, <2>5
  <2>6. installed \in SUBSET Name /\ \A q \in Run : names[q] \in SUBSET Name
    BY DEF KeysInv, TypeOK
  <2>7. UNCHANGED <<pc, names, keys, deployed, auth, jwks>>
    BY <1>4 DEF DiscardJWK, DiscardPEM
  <2>8. installed' # {} => Registered(installed)'
    <3>1. \A N \in SUBSET Name : N \subseteq installed /\ installed # {} => Registered(N)
      BY DEF OperatorsKnow, Registered
    <3>2. CASE UNCHANGED <<installed, jwk>>
      BY <2>7, <3>2 DEF OperatorsKnow, Registered
    <3>3. CASE installed' \subseteq installed /\ n \notin installed'
      BY <2>4, <2>6, <3>1, <3>3 DEF Registered
    <3> QED BY <2>3, <3>2, <3>3
  <2>9. OperatorsKnow'
    BY <2>1, <2>4, <2>5, <2>6, <2>7, <2>8 DEF OperatorsKnow, Puts
  <2> QED
    BY <1>4, <2>1, <2>2, <2>9 DEF DiscardJWK, DiscardPEM, KeysInv, TypeOK, DeployableIsAccepted
<1>5. ASSUME NEW r \in Run, NEW n \in Name, BeginCreate(r, n) PROVE Rest'
  <2>1. \A q \in Run : ~Operating(q)
    BY <1>5 DEF BeginCreate, Alone
  <2>2. installed = {}
    BY <1>5 DEF BeginCreate, Uninformed
  <2> QED
    BY <1>5, <2>1, <2>2 DEF BeginCreate, KeysInv, TypeOK, OneOperates, Uninformed, OperatorsKnow, Registered,
       DeployableIsAccepted, Operating, Creates, Puts
<1>6. ASSUME NEW r \in Run, Create(r) PROVE Rest'
  BY <1>6 DEF Create, KeysInv, TypeOK, OneOperates, Uninformed, OperatorsKnow, Registered, DeployableIsAccepted,
     Operating, Creates, Puts
<1>7. ASSUME NEW r \in Run, Grant(r) PROVE Rest'
  BY <1>7 DEF Grant, KeysInv, TypeOK, OneOperates, Uninformed, OperatorsKnow, Registered, DeployableIsAccepted,
     Operating, Creates, Puts
<1>8. ASSUME NEW r \in Run, NEW N, NEW from, Goto(r, from, "get"), Install(r, N),
             deployed # None => deployed \in N, \A q \in Run : q # r => ~Operating(q)
      PROVE  Rest'
  <2> USE <1>8 DEF Install
  <2>1. /\ pc' = [pc EXCEPT ![r] = "get"] /\ names' = [names EXCEPT ![r] = N]
        /\ keys' = [keys EXCEPT ![r] = {jwk[n] : n \in N}] /\ installed' = {}
        /\ UNCHANGED <<jwk, pem, owned, account, auth, jwks, deployed>>
    OBVIOUS
  <2>2. pc'[r] = "get" /\ names'[r] = N /\ keys'[r] = {jwk[n] : n \in N}
    BY <2>1 DEF KeysInv, TypeOK
  <2>3. \A q \in Run : q # r => pc'[q] = pc[q] /\ ~Operating(q)'
    BY <2>1 DEF KeysInv, TypeOK, Operating
  <2>4. OneOperates' /\ Uninformed'
    BY <2>1, <2>2, <2>3 DEF OneOperates, Uninformed, Operating, Creates
  <2>5. OperatorsKnow'
    BY <2>1, <2>2, <2>3 DEF OperatorsKnow, Operating, Puts, Readable
  <2> QED
    BY <2>1, <2>4, <2>5 DEF DeployableIsAccepted
<1>9. ASSUME NEW r \in Run, NEW N, BeginInstall(r, N) PROVE Rest'
  BY <1>8, <1>9 DEF BeginInstall, Alone
<1>10. ASSUME NEW r \in Run, CreateInstalls(r) PROVE Rest'
  <2>1. deployed = None /\ \A q \in Run : q # r => ~Operating(q)
    BY <1>10 DEF CreateInstalls, Uninformed, Creates, OneOperates, Operating
  <2> QED
    BY <1>8, <1>10, <2>1 DEF CreateInstalls
<1>11. ASSUME NEW r \in Run, Get(r) PROVE Rest'
  BY <1>11 DEF Get, KeysInv, TypeOK, OneOperates, Uninformed, OperatorsKnow, Registered, DeployableIsAccepted,
     Operating, Creates, Puts
<1>12. ASSUME NEW r \in Run, Put(r) PROVE Rest'
  <2> USE <1>12 DEF Put
  <2>1. Puts(r) /\ Operating(r) /\ installed = {}
    BY DEF Puts, Operating, Uninformed
  <2>2. \A q \in Run : q # r => pc'[q] = pc[q] /\ ~Operating(q)
    BY <2>1 DEF KeysInv, TypeOK, OneOperates
  <2>3. keys[r] = {jwk[n] : n \in names[r]} /\ \A n \in names[r] : jwk[n] # None
    BY <2>1 DEF OperatorsKnow
  <2>4. Registered(names[r])'
    BY <2>3 DEF Registered
  <2>5. pc'[r] = "regenerate"
    BY DEF KeysInv, TypeOK
  <2>6. OneOperates' /\ Uninformed'
    BY <2>2, <2>5 DEF OneOperates, Uninformed, Operating, Creates
  <2>7. OperatorsKnow'
    BY <2>1, <2>2, <2>4, <2>5 DEF OperatorsKnow, Operating, Puts
  <2>8. deployed # None => pem[deployed] \in keys[r]
    <3>1. deployed # None => deployed \in Name /\ deployed \in names[r]
      BY <2>1 DEF OperatorsKnow, KeysInv, TypeOK
    <3>2. deployed # None => jwk[deployed] = pem[deployed] /\ jwk[deployed] \in keys[r]
      BY <2>3, <3>1 DEF KeysInv, HostAgrees
    <3> QED BY <3>2
  <2> QED
    BY <2>6, <2>7, <2>8 DEF DeployableIsAccepted
<1>13. ASSUME NEW r \in Run, Regenerate(r) PROVE Rest'
  <2> USE <1>13 DEF Regenerate, End
  <2>1. Registered(names[r]) /\ Operating(r)
    BY DEF OperatorsKnow, Operating
  <2>2. \A q \in Run : q # r => pc'[q] = pc[q] /\ ~Operating(q) /\ names'[q] = names[q] /\ keys'[q] = keys[q]
    BY <2>1 DEF KeysInv, TypeOK, OneOperates
  <2>3. pc'[r] = "idle" /\ installed' = names[r]
    BY DEF KeysInv, TypeOK
  <2>4. \A q \in Run : ~Operating(q)'
    BY <2>2, <2>3 DEF Operating
  <2>5. OneOperates' /\ Uninformed'
    BY <2>4 DEF OneOperates, Uninformed, Operating, Creates
  <2>6. OperatorsKnow'
    BY <2>1, <2>3, <2>4 DEF OperatorsKnow, Registered, Operating, Puts
  <2> QED
    BY <2>5, <2>6 DEF DeployableIsAccepted
<1>14. ASSUME NEW r \in Run, Stop(r) PROVE Rest'
  <2> USE <1>14 DEF Stop, End
  <2>1. \A q \in Run : q # r => pc'[q] = pc[q] /\ names'[q] = names[q] /\ keys'[q] = keys[q]
    BY DEF KeysInv, TypeOK
  <2>2. pc'[r] = "idle"
    BY DEF KeysInv, TypeOK
  <2>3. OneOperates' /\ Uninformed'
    BY <2>1, <2>2 DEF OneOperates, Uninformed, Operating, Creates
  <2>4. OperatorsKnow'
    BY <2>1, <2>2 DEF OperatorsKnow, Registered, Puts
  <2> QED
    BY <2>3, <2>4 DEF DeployableIsAccepted
<1>15. ASSUME NEW n \in Name, Deploy(n) PROVE Rest'
  <2> USE <1>15 DEF Deploy
  <2>1. \A q \in Run : ~Operating(q)
    BY DEF Uninformed
  <2>2. auth = "jwt" /\ jwk[n] # None /\ jwk[n] \in jwks
    BY DEF OperatorsKnow, Registered
  <2>3. jwk[n] = pem[n] /\ n \in owned
    BY <2>2 DEF KeysInv, HostAgrees
  <2>4. account # "absent"
    BY DEF Uninformed
  <2>5. OneOperates' /\ Uninformed'
    BY <2>1, <2>4 DEF OneOperates, Uninformed, Operating, Creates
  <2>6. OperatorsKnow'
    BY <2>1 DEF OperatorsKnow, Registered, Operating, Puts
  <2> QED
    BY <2>2, <2>3, <2>5, <2>6 DEF DeployableIsAccepted
<1>16. ASSUME RegenerateByHand \/ UNCHANGED vars PROVE Rest'
  BY <1>16 DEF RegenerateByHand, vars, OneOperates, Uninformed, OperatorsKnow, Registered, DeployableIsAccepted,
     Operating, Creates, Puts
<1> QED
  BY <1>1, <1>2, <1>3, <1>4, <1>5, <1>6, <1>7, <1>9, <1>10, <1>11, <1>12, <1>13, <1>14, <1>15, <1>16 DEF Next

\* If one operator at a time works on the account, the server accepts the key the
\* deployable signs with at every moment of any rotation: whichever runs stop part way,
\* what the last installation reported is what is registered.
THEOREM DeployableStaysAccepted ==
  ASSUME OwnerGiven, OperatorsWait PROVE Spec => []DeployableIsAccepted
<1>1. Init => RotationInv
  <2>1. Init => KeysInv
    BY KeysInvInit
  <2> QED
    BY <2>1 DEF Init, RotationInv, OneOperates, Uninformed, OperatorsKnow, Registered, DeployableIsAccepted,
       Operating, Creates, Puts
<1>2. RotationInv /\ KeysInv' /\ [Next]_vars => RotationInv'
  BY RotationInvStep
<1>3. RotationInv => DeployableIsAccepted
  BY DEF RotationInv
<1> QED BY <1>1, <1>2, <1>3, KeysInvHolds, PTL DEF Spec

-----------------------------------------------------------------------------
(* The secrets. *)

LEMMA SecretsInvStep == ASSUME OperatorsWait, SecretsInv, TypeOK', [Next]_vars PROVE SecretsInv'
<1> USE DEF SecretsInv, Goto, files, client, moves, run
<1>1. ASSUME NEW r \in Run, NEW N, NEW from, Goto(r, from, "get"), Install(r, N),
             \A q \in Run : q # r => ~Operating(q)
      PROVE  SecretsInv'
  BY <1>1 DEF Install, TypeOK, OneOperates, ReplacedSecretsStayDead, Operating
<1>2. ASSUME NEW r \in Run, Create(r) PROVE SecretsInv'
  BY <1>2 DEF Create, TypeOK, OneOperates, ReplacedSecretsStayDead, Operating
<1>3. ASSUME NEW r \in Run, Get(r) PROVE SecretsInv'
  BY <1>3 DEF Get, TypeOK, OneOperates, ReplacedSecretsStayDead, Operating
<1>4. ASSUME NEW r \in Run, Put(r) PROVE SecretsInv'
  BY <1>4 DEF Put, TypeOK, OneOperates, ReplacedSecretsStayDead, Operating
<1>5. ASSUME NEW r \in Run, Regenerate(r) PROVE SecretsInv'
  <2> USE <1>5 DEF Regenerate, End
  <2>1. \A q \in Run : q # r => ~Operating(q) /\ ~Operating(q)'
    BY DEF TypeOK, OneOperates, Operating
  <2>2. ~Operating(r)'
    BY DEF TypeOK, Operating
  <2>3. ReplacedSecretsStayDead'
    BY DEF TypeOK, ReplacedSecretsStayDead
  <2> QED
    BY <2>1, <2>2, <2>3 DEF OneOperates, Operating
<1>6. ASSUME NEW r \in Run, WriteJWK(r) \/ Stop(r) PROVE SecretsInv'
  BY <1>6 DEF WriteJWK, Stop, End, TypeOK, OneOperates, ReplacedSecretsStayDead, Operating
<1>7. ASSUME NEW r \in Run, Chown(r) \/ Grant(r) \/ \E n \in Name, k \in Key : WritePEM(r, n, k)
      PROVE  SecretsInv'
  BY <1>7 DEF Chown, Grant, WritePEM, TypeOK, OneOperates, ReplacedSecretsStayDead, Operating
<1>8. ASSUME (\E n \in Name : DiscardJWK(n) \/ DiscardPEM(n) \/ Deploy(n)) \/ UNCHANGED vars PROVE SecretsInv'
  BY <1>8 DEF DiscardJWK, DiscardPEM, Deploy, vars, TypeOK, OneOperates, ReplacedSecretsStayDead, Operating
<1>9. ASSUME RegenerateByHand PROVE SecretsInv'
  BY <1>9 DEF RegenerateByHand, TypeOK, OneOperates, ReplacedSecretsStayDead, Operating
<1>10. ASSUME NEW r \in Run, NEW n \in Name, BeginCreate(r, n) PROVE SecretsInv'
  BY <1>10 DEF BeginCreate, Alone, TypeOK, OneOperates, ReplacedSecretsStayDead, Operating
<1>11. ASSUME NEW r \in Run, NEW N, BeginInstall(r, N) PROVE SecretsInv'
  BY <1>1, <1>11 DEF BeginInstall, Alone
<1>12. ASSUME NEW r \in Run, CreateInstalls(r) PROVE SecretsInv'
  BY <1>1, <1>12 DEF CreateInstalls, OneOperates, Operating
<1> QED
  BY <1>2, <1>3, <1>4, <1>5, <1>6, <1>7, <1>8, <1>9, <1>10, <1>11, <1>12 DEF Next

\* If one operator at a time works on the account, a secret that a finished installation
\* replaced never works again, also when another stops after it put the client back (the
\* secret regenerated last in install).
THEOREM SecretsStayDead == ASSUME OperatorsWait PROVE Spec => []ReplacedSecretsStayDead
<1>1. Init => SecretsInv
  <2>1. Init => TypeOK
    BY KeysInvInit DEF KeysInv
  <2> QED
    BY <2>1 DEF Init, SecretsInv, OneOperates, ReplacedSecretsStayDead, Operating
<1>2. SecretsInv /\ TypeOK' /\ [Next]_vars => SecretsInv'
  BY SecretsInvStep
<1>3. SecretsInv => ReplacedSecretsStayDead
  BY DEF SecretsInv
<1> QED BY <1>1, <1>2, <1>3, ClientKeyTypes, PTL DEF Spec
=============================================================================
