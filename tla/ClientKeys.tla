------------------------------ MODULE ClientKeys -----------------------------
(***************************************************************************)
(* The key pair a service account authenticates with: made on a host       *)
(* (`client-key new`), its account created (create-apply-client.sh), its   *)
(* public half installed (`client-key install`), the deployable moved to   *)
(* it, and the secret the account held before made useless.                *)
(*                                                                         *)
(* Every file written and every call is a step of its own, and a run stops *)
(* between any two.  What operators see to, and the tools do not, is in    *)
(* BeginInstall (the deployable's key is named until it has moved), Deploy *)
(* (it moves to a key of the last installation, which is known to have     *)
(* finished), Discard* (no key in use, the JWK first) and, with            *)
(* OperatorsWait, in Alone (one of them works on the account at a time).   *)
(*                                                                         *)
(* Simplifications.  A JWK is its key, formats and sizes left out, and a   *)
(* file cut short is as none: install refuses it.  There is one account    *)
(* and one deployable, which reads its PEM when it signs.                  *)
(***************************************************************************)
EXTENDS Naturals, FiniteSets, Functions

CONSTANTS
  Name,          \* the names keys are kept under on the host
  Key,           \* the keys `new` can make
  Run,           \* runs of the tools
  OwnerGiven,    \* whether `new` is told the container's user, as new-client-key.sh tells it
  OperatorsWait, \* whether work on the account waits for other work on it to end
  None,          \* no file, no key, no name
  MaxSecrets     \* bound: secrets in a behaviour

ASSUME ClientKeysAssumption ==
  /\ None \notin Key \cup Name /\ MaxSecrets \in Nat
  /\ OwnerGiven \in BOOLEAN /\ OperatorsWait \in BOOLEAN

VARIABLES
  pem,       \* the private key under each name
  jwk,       \* the public key beside it
  owned,     \* the names whose PEM belongs to the container's user
  account,   \* how far the account has come
  auth,      \* how it authenticates
  jwks,      \* the keys it is registered with
  secret,    \* its secret, the number of those there were before
  issued,    \* secrets so far
  dead,      \* history: the secrets a finished installation has replaced
  deployed,  \* the name the deployable signs with
  installed, \* what operators know to be registered: the names of the last installation,
             \* none while one is under way or after it stopped
  pc,        \* where each run is
  names,     \* the names each run was given
  made,      \* the key a `new` holds in memory
  keys,      \* the public keys an installation has read
  seen       \* the secret in the representation an installation has read

files  == <<pem, jwk, owned>>
client == <<account, auth, jwks, secret, issued, dead>>
moves  == <<deployed, installed>>
run    == <<pc, names, made, keys, seen>>
vars   == <<files, client, moves, run>>

PCs == {"idle", "chown", "jwk", "create", "grant", "creating", "get", "put", "regenerate"}

TypeOK ==
  /\ pem \in [Name -> Key \cup {None}] /\ jwk \in [Name -> Key \cup {None}]
  /\ owned \in SUBSET Name
  /\ account \in {"absent", "created", "granted"} /\ auth \in {"secret", "jwt"}
  /\ jwks \in SUBSET Key /\ Cardinality(jwks) <= 2
  /\ issued \in 0..MaxSecrets /\ secret \in 0..issued /\ dead \in SUBSET (0..issued)
  /\ deployed \in Name \cup {None} /\ installed \in SUBSET Name
  /\ pc \in [Run -> PCs]
  /\ names \in [Run -> SUBSET Name]
  /\ made \in [Run -> Key \cup {None}]
  /\ keys \in [Run -> SUBSET Key]
  /\ seen \in [Run -> 0..issued]

-----------------------------------------------------------------------------

Goto(r, from, to) == pc[r] = from /\ pc' = [pc EXCEPT ![r] = to]

End(r) ==
  /\ pc'    = [pc    EXCEPT ![r] = "idle"]
  /\ names' = [names EXCEPT ![r] = {}]
  /\ made'  = [made  EXCEPT ![r] = None]
  /\ keys'  = [keys  EXCEPT ![r] = {}]
  /\ seen'  = [seen  EXCEPT ![r] = 0]

\* A refusal, a call that failed or a crash.
Stop(r) ==
  /\ pc[r] # "idle"
  /\ End(r)
  /\ UNCHANGED <<files, client, moves>>

\* A key just made is none of those that are left anywhere.
Fresh == Key \ (Range(pem) \cup Range(jwk) \cup Range(made) \cup jwks \cup UNION Range(keys))

Operating(r) == pc[r] \in {"create", "grant", "creating", "get", "put", "regenerate"}

Alone == OperatorsWait => \A r \in Run : ~Operating(r)

-----------------------------------------------------------------------------
(* client-key new. *)

\* Mutant: a key that exists is overwritten.
WritePEMAgain(r, n, k) ==
  /\ k \in Fresh
  /\ Goto(r, "idle", "chown")
  /\ names' = [names EXCEPT ![r] = {n}] /\ made' = [made EXCEPT ![r] = k]
  /\ pem' = [pem EXCEPT ![n] = k]
  /\ UNCHANGED <<jwk, owned, client, moves, keys, seen>>

\* A key is never overwritten (O_EXCL).
WritePEM(r, n, k) ==
  /\ k \in Fresh /\ pem[n] = None
  /\ Goto(r, "idle", "chown")
  /\ names' = [names EXCEPT ![r] = {n}] /\ made' = [made EXCEPT ![r] = k]
  /\ pem' = [pem EXCEPT ![n] = k]
  /\ UNCHANGED <<jwk, owned, client, moves, keys, seen>>

\* Without an owner the file stays its maker's.
Chown(r) ==
  /\ Goto(r, "chown", "jwk")
  /\ owned' = IF OwnerGiven THEN owned \cup names[r] ELSE owned
  /\ UNCHANGED <<pem, jwk, client, moves, names, made, keys, seen>>

WriteJWK(r) ==
  /\ pc[r] = "jwk"
  /\ jwk' = [n \in Name |-> IF n \in names[r] THEN made[r] ELSE jwk[n]]
  /\ End(r)
  /\ UNCHANGED <<pem, owned, client, moves>>

\* An operator removes what an interrupted `new`, or a finished rotation, left: the JWK
\* and then the PEM, the order in which `rm NAME.*` removes them.
Unused(n) == n # deployed /\ \A r \in Run : n \notin names[r]

DiscardJWK(n) ==
  /\ Unused(n) /\ jwk[n] # None
  /\ jwk' = [jwk EXCEPT ![n] = None]
  /\ installed' = installed \ {n}
  /\ UNCHANGED <<pem, owned, client, deployed, run>>

DiscardPEM(n) ==
  /\ Unused(n) /\ jwk[n] = None /\ pem[n] # None
  /\ pem' = [pem EXCEPT ![n] = None]
  /\ owned' = owned \ {n}
  /\ UNCHANGED <<jwk, client, moves, run>>

-----------------------------------------------------------------------------
(* create-apply-client.sh, which ends in an installation. *)

BeginCreate(r, n) ==
  /\ Alone /\ jwk[n] # None /\ account = "absent"
  /\ Goto(r, "idle", "create")
  /\ names' = [names EXCEPT ![r] = {n}]
  /\ UNCHANGED <<files, client, moves, made, keys, seen>>

\* Keycloak gives the new client a secret, and refuses a second one of the name.
Create(r) ==
  /\ account = "absent" /\ issued < MaxSecrets
  /\ Goto(r, "create", "grant")
  /\ account' = "created" /\ auth' = "jwt"
  /\ secret' = issued + 1 /\ issued' = issued + 1
  /\ UNCHANGED <<files, jwks, dead, moves, names, made, keys, seen>>

Grant(r) ==
  /\ Goto(r, "grant", "creating")
  /\ account' = "granted"
  /\ UNCHANGED <<files, auth, jwks, secret, issued, dead, moves, names, made, keys, seen>>

-----------------------------------------------------------------------------
(* client-key install. *)

\* Mutant: a file that is not there is not noticed.
Named(N) == N # {}

\* Every file must hold a public key.
Readable(N) == \A n \in N : jwk[n] # None

\* The keys of the one or two files given.
Install(r, N) ==
  /\ Readable(N)
  /\ names' = [names EXCEPT ![r] = N]
  /\ keys' = [keys EXCEPT ![r] = {jwk[n] : n \in N}]
  /\ installed' = {}
  /\ UNCHANGED <<files, client, deployed, made, seen>>

\* In a rotation the old key and the new, while the deployable moves.
BeginInstall(r, N) ==
  /\ Alone /\ (deployed # None => deployed \in N)
  /\ Goto(r, "idle", "get") /\ Install(r, N)

CreateInstalls(r) == Goto(r, "creating", "get") /\ Install(r, names[r])

Get(r) ==
  /\ account # "absent"
  /\ Goto(r, "get", "put")
  /\ seen' = [seen EXCEPT ![r] = secret]
  /\ UNCHANGED <<files, client, moves, names, made, keys>>

\* Mutant: one of the keys given is installed, the other forgotten.
PutOne(r) ==
  /\ Goto(r, "put", "regenerate")
  /\ auth' = "jwt" /\ jwks' = {CHOOSE k \in keys[r] : TRUE} /\ secret' = seen[r]
  /\ UNCHANGED <<files, account, issued, dead, moves, names, made, keys, seen>>

\* The whole representation is put back, with the secret it was read with.
Put(r) ==
  /\ Goto(r, "put", "regenerate")
  /\ auth' = "jwt" /\ jwks' = keys[r] /\ secret' = seen[r]
  /\ UNCHANGED <<files, account, issued, dead, moves, names, made, keys, seen>>

\* Mutant: the secret stays as it was.
KeepSecret(r) ==
  /\ pc[r] = "regenerate"
  /\ dead' = dead \cup {seen[r]} /\ installed' = names[r]
  /\ End(r)
  /\ UNCHANGED <<files, account, auth, jwks, secret, issued, deployed>>

\* The last call: the tool reports that it is done.
Regenerate(r) ==
  /\ pc[r] = "regenerate" /\ issued < MaxSecrets
  /\ secret' = issued + 1 /\ issued' = issued + 1
  /\ dead' = dead \cup {seen[r]} /\ installed' = names[r]
  /\ End(r)
  /\ UNCHANGED <<files, account, auth, jwks, deployed>>

-----------------------------------------------------------------------------
(* The operators and administrators. *)

\* The deployable is moved to a key of the last installation, which finished.
Deploy(n) ==
  /\ n \in installed /\ n # deployed
  /\ deployed' = n
  /\ UNCHANGED <<files, client, installed, run>>

\* An administrator asks for another secret at the console.
RegenerateByHand ==
  /\ account # "absent" /\ issued < MaxSecrets
  /\ secret' = issued + 1 /\ issued' = issued + 1
  /\ UNCHANGED <<files, account, auth, jwks, dead, moves, run>>

-----------------------------------------------------------------------------

\* No account, or one that still authenticates with a secret.
Init ==
  /\ pem = [n \in Name |-> None] /\ jwk = [n \in Name |-> None]
  /\ owned = {}
  /\ account \in {"absent", "granted"} /\ auth = "secret"
  /\ jwks = {} /\ secret = 0 /\ issued = 0 /\ dead = {}
  /\ deployed = None /\ installed = {}
  /\ pc = [r \in Run |-> "idle"] /\ names = [r \in Run |-> {}]
  /\ made = [r \in Run |-> None] /\ keys = [r \in Run |-> {}] /\ seen = [r \in Run |-> 0]

Next ==
  \/ \E r \in Run, n \in Name, k \in Key : WritePEM(r, n, k)
  \/ \E r \in Run, n \in Name : BeginCreate(r, n)
  \/ \E r \in Run, m, n \in Name : BeginInstall(r, {m, n})
  \/ \E r \in Run : Chown(r) \/ WriteJWK(r) \/ Create(r) \/ Grant(r) \/ CreateInstalls(r)
  \/ \E r \in Run : Get(r) \/ Put(r) \/ Regenerate(r) \/ Stop(r)
  \/ \E n \in Name : Deploy(n) \/ DiscardJWK(n) \/ DiscardPEM(n)
  \/ RegenerateByHand

Spec == Init /\ [][Next]_vars

-----------------------------------------------------------------------------

\* A public key on the host is that of the private key beside it, which the deployable can
\* read: whatever `new` stopped part way or was run again, installing it locks nobody out
\* (O_EXCL; the JWK written last in newKey).
InstallableKeysWork == \A n \in Name : jwk[n] # None => jwk[n] = pem[n] /\ n \in owned

\* Through any number of rotations the server accepts the key the deployable signs with,
\* whichever installations and `new`s stopped part way, whatever names are used again for
\* other keys, and whether an account was created or found: an operator who goes by what
\* the tools report is never locked out (install changes the keys in one update).
DeployableIsAccepted ==
  deployed # None => auth = "jwt" /\ deployed \in owned /\ pem[deployed] \in jwks

\* A secret the client held before a finished installation never works again, also when a
\* later installation stops after putting the client back (the secret regenerated last).
ReplacedSecretsStayDead == secret \notin dead

=============================================================================
