# identity-kernel: specifications and proofs

identity-kernel is a Keycloak realm kept as code. Its own logic is what surrounds Keycloak: the
tool that converges the realm on a committed definition (`cmd/realm-apply`, `internal/realmdef`),
and the steps by which operators rotate the realm's signing keys (`scripts/signing-key-*.sh`,
`cmd/signing-key`). Both are sequences of calls on systems that share no transaction, run by people
and jobs that take no lock, and both must leave something sound wherever they stop. That is what
these modules are about.

Run everything from this directory: `tlc -workers 2 -config <cfg> <module>`, `tlapm <module>.tla`.
`PROJECT.json` lists the runs, for each property a plausible bug that violates it, and for each
definition the lines of the source it stands for. What only moves a program counter, ends a run or
joins actions (`Goto`, `End`, `Next`, the `Begin` of a command with no more than a command line) stands for no lines.

## Inventory

| Component | State | Operations | What is hard | What makes it correct |
| :-- | :-- | :-- | :-- | :-- |
| Rotation steps: `signing-key-rotation.sh`, `cmd/signing-key`, `signingkey.go` | the registry's state of each key (identity-control), the realm's key providers and their priorities (Keycloak), each key's three files (host) | `stage`, `activate`, `retire`, `abandon`, `revoke` | four systems, no transaction, no lock; reads used several calls later; a run may stop between any two calls and is repeated by hand | there is always exactly one key that signs, it was published and staged before, what was demoted never signs again, and nothing published loses its files |
| Windows: `retirement.go`, `check`'s minimum age | the key's age in the registry, live token lifetimes | `windows`, `check` | lifetimes change while a key is retiring; the age is the registry's, the publication is Keycloak's | no key leaves the key set while tokens it signed are live; none signs before consumers can have fetched it |
| Custody: `signing-keystore.sh`, `signing-key-generate.sh`, `signing-key-ceremony.sh`, `place`, `destroy`, `start.sh` | `keys/new`, each kid's keystore, password, certificate, the ceremony records | the ceremony, `place`, `destroy`, the start check | files move one by one; a ceremony stops part way and somebody clears up | a certificate in custody has its own keystore and password; the kernel can start |
| realm-apply: `cmd/realm-apply`, `plan.go`, `apply.go` | the live realm, the recorded revision and digest, the checkout | plan, refuse over drift, create, write object by object, verify, record | administrators edit the realm, the checkout moves under the run, the run stops between two writes, Keycloak keeps another value than it was sent | what the recorded definition governs is replaced only as it was recorded, without `-adopt`; the digest recorded is of what is live; an adopted realm converges |
| Authentication flows: `flows.go` | Keycloak's flows and the binding of the browser flow | build step by step, bind, delete and rebuild | a sign-in may happen between any two calls; a half-built flow must be told from a bound one | the bound flow is whole and never touched; a half-built one is rebuilt |
| Definition loading and validation: `definition.go`, `headers.go`, `mail.go`, `password.go`, `requiredactions.go` | none | pure checks of a JSON tree | — | each rule refuses what it names |
| Admin client: `internal/admin` | none (a token is fetched per call) | HTTP calls | a call fails, or its answer is lost | it reports the failure |
| Client keys: `cmd/client-key`, `clientkey.go`, `deploy/dev/*client*.sh` | a PEM and a JWK per name, the account's JWKS and secret, the deployable's key | `new`, the account's creation, `install` | a crash between any two files or calls, a rotation interrupted, an account read and put back as a whole | the deployable always holds a key the server accepts; the secret it had before is dead |
| Backup and restore: `deploy/dev/backup.sh`, `restore.sh`, the drill | dumps of globals and database by date, the cluster's roles and database | dump, verify, rename, prune, sweep; check, roles, restore | two files taken, renamed and deleted one after the other; commands that fail half way and say nothing; a database older than the keys directory and the registry | a set whose two files agree restores, the newest holds what was backed up, pruning takes nothing too new, a lost database comes back, and the key that signed signs again |
| Image build and scan, theme checks | none | compare two builds, apply rules to findings | — | — |
| Deployment: compose, Caddy, workflows | — | `docker compose up` starts the kernel and then realm-apply | — | — |

Interactions. An operator's `signing-key-rotation.sh` calls identity-control's registry command and
the kernel's `signing-key` command, which calls Keycloak's Admin API and reads and removes files of
the keys directory; the ceremony writes those. The kernel's `start.sh` checks that directory before
Keycloak starts. `realm-apply` runs on every `docker compose up`; it activates the realm's first key
on an empty realm and then leaves key providers to the rotation steps. Keycloak itself signs with the
active key of the highest priority, and generates a `fallback-PS256` key when none is active.

## Modules

| Module | Models | Extends / instances |
| :-- | :-- | :-- |
| `SigningKeyRotation` | the five rotation steps, the registry, the providers, the keys directory and the signing of tokens, each read and write an action | — |
| `PublishedKeySet` | the abstract specification: what consumers of the key set are promised | instanced by `SigningKeyRotation` as `KeySet` |
| `SigningKeyRotationProofs` | the inductive invariant and the theorems about which key signs | `SigningKeyRotation` |
| `SigningKeyFilesProofs` | the theorems about the keys' files, with and without discipline, and through restores | `SigningKeyRotationProofs`, `SigningKeyRestores` |
| `SigningKeySetProofs` | the proof that `SigningKeyRotation` implements `PublishedKeySet`, and the theorem about the retirement window | `SigningKeyFilesProofs`, `SigningKeyWindows` |
| `SigningKeyRetries` | operators who repeat interrupted steps, with fairness | `SigningKeyRotation` |
| `SigningKeyRestores` | the same with the realm restored from a backup, and repaired by hand | `SigningKeyRetries` |
| `SigningKeyWindows` | time: the cache and retirement windows, token lifetimes, tokens still live | `SigningKeyRotation` |
| `KeyCustody` | generator, ceremony, `place` and `destroy`, file by file | — |
| `KeyCustodyProofs` | the types, and the proof that what is in custody loads | `KeyCustody` |
| `RealmApply` | a realm-apply run, the administrators and the checkout | — |
| `RealmApplyProofs` | what a run knows at each call, and the theorems about what it replaces and records | `RealmApplyRetries` |
| `RealmApplyRetries` | realm-apply repeated after the disturbances end, with fairness | `RealmApply` |
| `Backups` | the backups and restores of the kernel's database | — |
| `KeptSets` | the abstract specification: the sets whoever restores is promised | instanced by `Backups` as `Sets` |
| `BackupsProofs` | what pruning may rely on, the theorems about what is kept, and the refinement of `KeptSets` | `Backups` |
| `AuthenticationFlows` | building, rebuilding and binding of flows by one or two runs | — |
| `AuthenticationFlowsProofs` | how far a build has come, and the theorems about the bound flow | `AuthenticationFlows` |
| `ClientKeys` | a service account's key pairs: made, installed, rotated, by several runs | — |
| `ClientKeysProofs` | what interrupted runs leave, and the theorems about keys and secrets | `ClientKeys` |
| `MC*` | values of the constants for TLC | the module each is named after |

### SigningKeyRotation

State. `registry` is identity-control's state of each kid; `provider` and `priority` are the realm's
key providers as `signingProvider` (`signingkey.go`) reads them, with priorities in hundreds;
`fallback` is the key Keycloak generates when no active key serves; `files` is each kid's keystore,
password and certificate. An operator's run is `pc`, the step and kid of its command line, and what
it has read and not yet used: `state` (the registry's answer in `agree`), `handle` (the providers a
kernel command listed), `custody` (`ReadCustody`), and for an activation the priority it will write
and the keys it will demote.

Actions. The script's lines and the kernel commands are cut at each call that reads or writes another
system: `agree` is two actions, `tool activate` is one read (`Snapshot`), the write of the new key
(`Raise`), one write for each key demoted (`Demote`), and the verification; `tool remove` is `Find`,
`Delete`, `Removed`; `tool destroy` removes one file per action. `Stop` ends a run at any point: a
refusal, a failed call, a verification that fails (recorded as `failed`, which changes no state) and a
crash look alike to the four systems. `Begin` holds the only assumption about the operators:
`TakeTurns` is a set of steps of which one at most is in progress, and `KeysTakeTurns` says whether
one step at most is in progress on one key.

External, modelled from their use. The registry: insert-only, `check` admits a transition from the
right state, completing an activation demotes the previous active key in the same transaction.
Keycloak: refuses to create or write a provider whose keystore it cannot open; a full `PUT` replaces the
provider; signs with the highest active priority. What Keycloak does with a second provider of a name
nothing in the repository shows; `StagePost` assumes of the operators that it is not asked, which only two
stagings of one key at once could do and which no run reaches: the steps on one key take turns
in `rotation`, and `repairs` and `windows` have one operator.

The refinement. `KeySet` maps `published` to the providers present, `signer` to the key that signs,
`past` and `gone` to the registry's records. `ImplementsKeySet` says that every one of the some
twenty actions is a step of `PublishedKeySet`, where the signer changes only to a published key that
never had its turn, only another key than the signer leaves the set, and what is recorded as
destroyed stays out of it.

### SigningKeyRestores

A dump holds the realm's providers; the keys directory and the registry are outside it. `TakeBackup` keeps
the realm of the moment, in the middle of any step; `RestoreRealm` puts it back between steps, so the realm
may lack keys staged since, have active a key the registry has demoted, or publish one whose files are
destroyed. `agree` refuses a step on a key whose two states disagree, and operators then do what the
runbook says (`docs/runbooks/unknown-kid.md`, step 6): the kernel's half of `stage` or `activate`, run by
hand with a kid (`ByHand`), which goes through the same actions of `SigningKeyRotation` and tells the
registry nothing. A token that no key can sign makes Keycloak generate its fallback, as in the rotation.

### SigningKeyWindows

Time passes between any two steps. `age` is the registry's age of a key's state, which `check` compares
with a minimum; `shown` is the age of the key in the key set; `live` is how long the last token a key
signed may still have to be verified: the token's lifetime when it was signed, plus the margin (consumer
cache and clock skew) of the floor. Keycloak is taken to sign at every moment, the worst case. Ages
saturate at the windows; the steps themselves take no time.

### KeyCustody

A file holds the key it belongs to, so files of two ceremonies can be mixed. `keys/new` may exist
empty (after `mkdir`), partly filled (the generator's three `install`s) or partly moved (`place`).
The order of the three files is that of the code. An operator may remove `keys/new` when no ceremony
or place runs, as the generator's refusal tells them. `destroy` may run beside anything.

### RealmApply and RealmApplyRetries

`ReadRecord` reads the recorded revision and takes its definition as the baseline if its digest is the
recorded one; `Plan` refuses over drift and over a realm nobody recorded; `CleanStatus` refuses a checkout with
something uncommitted, and `CleanRevision` reads its commit, two calls and long after the definition was
loaded from it, so that the checkout may move before, between and after them (`moved` remembers a tree that
changed after the load and before the commit was read, which the code does not notice);
`Create` makes a new realm with its own fields, and `Replan` plans the rest against what Keycloak put in
it; the writes follow in plan order; `Verify` compares all again (`ErrNotConverged`); `WriteRecord` and
`ReadBack` close the run. `Kept` is what Keycloak keeps of a value it is sent. Administrators edit any
object, and the checkout's tree and commit move, between any two steps (edits between runs only, with
`EditsWait`).

An object of the realm has one value, declared or not by each revision, with two exceptions. The default
client scopes are two lists, which `applyDefaults` reads again and then changes call by call: `ReadLists`,
one `Remove` per surplus entry, one `Add` per missing one, the default list before the optional one. The
realm's attributes are one map that Keycloak replaces whole: `Write` of the realm's own object lays the
declared attributes over those the plan read, and `WriteRecord` adds the record to those `ReadAttributes`
read; `record` and `other` (an attribute nobody declares) stand for what either could lose.

Left out: the fields a write carries back because the definition does not name them (`overlay`); the
mappers of a client scope; `-dry-run`; that the user profile is one `PUT`; two runs at once.

### Backups

State. `dir` is the backup directory: globals and dumps by date, final and `.partial`; `database` and
`roles` are the cluster. What a database holds is how much was written to it and which roles its owners
and grants name, which is what tells a stale set and an unrestorable one from a good one.

Actions. A run of `backup.sh` takes its date at the start (`Begin`, whatever the database holds), writes the
two partial files, verifies them, renames the globals and then the dump, deletes the complete sets beyond the
newest `Keep`, newest first, two files each, and sweeps what is older than the oldest set kept. A command that
fails ends the run (`CutReported`); one that leaves part of its file and reports success (`CutSilently`) is
found only where `Verified` looks: for the line of the role keycloak in the globals, for a table of contents
in the dump. `Torn` is a file it refuses; roles that end later, and a dump that is cut in its data (`Part`), pass.
`restore.sh` refuses a database that holds anything, drops an empty one, applies the roles (a role
that exists is an error; a `psql` that ends early is none) and restores the dump, whose first error stops it
with a database that is missing, empty or partial.

The surroundings. The kernel writes, roles are created and dropped with what is granted to them, also between
the two dumps of a backup, and a day passes at any step. `Stop` and `StopRestore` end a run anywhere. `Lose` is
the loss of the volume at any moment, `StartOver` the new volume that `restore.sh`'s refusal asks for: both end a
restore, and a backup that still needs the container, while one that renames, prunes or sweeps goes on, on the
host. With no complete set, the kernel starts on the empty database (`StartAnew`).

History. `acked` is what the last dump put in place holds. `agreeing` is whether the files a run has in hand
are uncut, of a database that serves, with no role changed between them; `steady`, which dumps are such and no
older than the last change of a role; `matched`, the dates whose two final files agree. A rename makes a date one
of these, also that of the globals alone: a second run of the day that stops there leaves its roles beside
the earlier dump, and the two agree if no role changed since that dump was taken. `WholeSetsRestore` speaks of `matched`.

The refinement. `Sets` maps the two kinds of final files to one function from dates to complete sets.
`ImplementsKeptSets` says that each call of a backup or a restore leaves these as they are, or adds a set
or changes one that is the newest (the rename of the dump, and that of the globals over an earlier set of the
day), or drops one while as many newer ones stay as are kept (the removal of a set's globals). Whether a
set restores is no part of it.

### AuthenticationFlows

A flow is the list of its steps. Each takes four calls: `AddExecution` adds it disabled, `ListExecutions`
finds it as the last one of the list, `SetRequirement` and `Configure` send it its requirement and its
configuration; a flow is whole when each of its steps has both. `Plan` is what
`NewPlan` sees: missing flows, flows that differ, and the binding, which the later calls rely on.
`rebuildUnbound` refuses to touch a flow the plan saw bound. There is one binding, and a sub-flow's
steps count as steps of the flow.

### ClientKeys

`WritePEM`, `Chown` and `WriteJWK` are `client-key new`: the JWK is written from the key `made` in memory, and
`Chown` leaves the file its maker's when `new` is not told the container's user (`OwnerGiven`, which
`new-client-key.sh` always does). `BeginCreate` to `CreateInstalls` are
`create-apply-client.sh`; `Install`, `Get`, `Put` and `Regenerate` are `client-key install`, which checks
its one or two files and nothing else, puts back the whole representation it read, its secret included, and then
asks for another secret.

What the tools do not check, and the scripts' comments ask of the operator who rotates a key, is in four
actions and said there. An installation by hand names the deployable's key until the deployable has moved
(`BeginInstall`; the one that ends a creation, `CreateInstalls`, names the key of the new account, whatever
the deployable has). The deployable moves to a key of the last installation, once that is known to have finished
and before another begins (`Deploy`, `installed`). A key's files are removed when nothing uses them, the JWK first
and then the PEM (`DiscardJWK`, `DiscardPEM`). With `OperatorsWait` one run at a time works on the account
(`Alone`); `new` runs beside anything. `dead` remembers the secrets that finished installations replaced.

## Runs

| Run | Question | Instance |
| :-- | :-- | :-- |
| `rotation` | is there always one key that signs, and are all promises to consumers kept, with two operators at work | 3 keys, 2 operators, 2 activations; activations take turns, and so do the steps on one key |
| `repairs` | do repeated steps, and steps by hand after a restore, repair what was interrupted, and leave no file behind in the wrong order | 2 keys, 1 operator, 2 interruptions, 1 restore, fairness |
| `windows` | does a retirement ever withdraw a key too early | 2 keys, windows of 1 and 3 ticks, lifetimes 1 to 3, which only rise, emergencies |
| `key_custody` | can a key be in custody without its files | 3 keys, 2 runs |
| `realm_apply` | does a run replace what the recorded definition governs only as it was recorded, keep the attributes and lists whole call by call, record the digest of what is live and the commit it came from, and converge | the realm's fields with 3 values (one normalised), a scope in either list or none, 3 revisions, fairness |
| `backups` | do the files implement the sets of `KeptSets`, does every set of files that agree restore, is the newest one new, does no litter stay, and does a lost database come back | 2 days, 1 set kept, 1 role, 1 fault, 1 loss, fairness |
| `flows` | is the bound flow always whole | 2 flows of 2 steps, 3 definitions, 2 crashes, 1 edit by hand, fairness |
| `client_keys` | can an interrupted rotation lock a deployable out, or leave an old secret alive | 3 names, 4 keys, 2 runs, 5 secrets; one run at a time on the account |
| `abandoned_signed`, `interrupted_removal`, `cache_window`, `flows_overlap` | what a document or comment says and the code does not do (Findings) | as their passing sibling or smaller; two runs of realm-apply in `flows_overlap` |

Bounds. Three keys are the first key, its successor and its successor's successor, or a key abandoned
meanwhile: an activation that demotes, a removal and a staging can all be under way, and a key that was
demoted can meet a second activation. `MaxPriority` 3 lets the raise happen twice. Two operators are
every pair of steps in every interleaving; the theorems below hold for any number. Where only one
operator's mistakes matter (`repairs`, `windows`) there is one, and crashes are bounded by two so that a
repetition can itself be interrupted. Retirement window 3 with margin 1 makes a lifetime of 2 the longest
the window admits and 3 one too long, so the floor's refusal is on both sides of its boundary. Two
objects are enough for a write that happened and one that did not; three revisions, for a definition that
stops governing an object; three values, for an edit that is neither. One scope that the revisions move
between the lists, and out of both, takes every path through the removals and additions. Two days
and one set kept make a midnight during a backup, a set that is pruned and a pruning that stops half way, and a
second backup of a day with a role changed since the first or not; one fault stops any one run or cuts any
one file, one loss puts a new volume under any call of a backup or a restore. A day without a backup between two
that are kept needs a third, and each safety property of this run is proved for any number of days, sets, roles,
faults and losses; only the liveness rests on this instance. `MaxPriority`
5 in `repairs` leaves room for the raises that repeat an activation, by the script and by hand. Two flow steps make a flow empty,
part built, complete but unset, and whole. Three names are a key in use, its successor and one
made meanwhile; four client keys add one still registered after its files were removed; five secrets let
three installations and two regenerations by hand meet. The symmetry sets permute the keys (except the first),
operators and runs; no run with liveness uses symmetry, and the priorities and orders of files do not
depend on the key. `rotation` uses a `VIEW` without the history variable `signed`, which no action's guard and
none of its properties reads.

Fairness. `SigningKeyRetries`: weak fairness on a run's next step and its refusal, strong fairness on
beginning each step on each key. It is an operator who keeps at it, which is what the runbook asks for;
the code has no retry of its own, and nothing is claimed without the operator. `SigningKeyRestores`
adds the operator at the console: what the realm lacks is staged and activated by hand, again until it is
there (strong fairness on `Repair`). `Backups`: a restore that has begun goes on or stops, an operator who
lost the database keeps restoring it, and makes a new volume where the script asks for one. `RealmApplyRetries`: a run
is carried to its end (it has a timeout of five minutes), an operator adopts in the end (`-adopt` is the
documented answer to drift); convergence is claimed once disturbances end in a committed tree of values
Keycloak keeps. `AuthenticationFlows`: runs go on, and realm-apply runs again with each definition
(`docker compose up` runs it every time).

Deadlock is checked in every run. The largest ones have 141,000 (`client_keys`), 289,000 (`realm_apply`) and
294,000 (`backups`) distinct states.

## What is proved

Every safety property that a passing run checks, for every value of the constants: any set of keys, any
number of operators and any bound on priorities; any windows, margin and lifetimes; any objects, revisions
and values, and any normalisation by Keycloak; flows of any length; any number of client keys, days, sets
kept, roles and faults. What is asked of the surroundings differs.

| Asked of operators and administrators | Theorems |
| :-- | :-- |
| nothing: rotation | `TypeCorrect` (`TypeOK`), `RestartsFindPasswords` (`KeystoresHavePasswords`), `RecordsAreTrue` (`RecordedFilesAreGone`), `RestoresKeepFilesAndRecords` (both, through restores), `WindowTypes` (`WindowsTypeOK`) |
| nothing: custody, realm-apply and flows | `CustodyTypes`, `RealmApplyTypes`, `FlowTypes` (each module's `TypeOK`), `BoundFlowAlwaysExists` |
| nothing: client keys | `KeysInvHolds`, `ClientKeyTypes` (`TypeOK`) |
| nothing: backups | `RetentionInvHolds`, `BackupTypes` (`TypeOK`), `NewestSetIsTheLastBackup` (`NewestSetHoldsWhatWasBackedUp`), `GoodSetsStay`, `NoLitterIsLeft` (`FinishedBackupsLeaveNoLitter`), `WholeSetsAlwaysRestore` (`WholeSetsRestore`), `SetsAreKept`: `Spec => ImplementsKeptSets`, the refinement of `KeptSets` |
| `FilesApart`: stagings and removals of one key do not overlap | `ProvidersKeepTheirFiles` (`ProvidersAreBacked`), `RecordedKeysStayGone` (`RecordedKeysAreGone`) |
| `Disciplined`: activations take turns, and no removal of a key overlaps its activation | `InvariantHolds` (`IInv`), `AlwaysAnActiveKey`, `OneKeyAlwaysSigns`, `NoDemotedKeySigns`, `StagedBeforeSigning`, `KernelsRestart` |
| `FilesApart` and `Disciplined` | `KeySetIsKept`: `Spec => ImplementsKeySet`, the refinement of `PublishedKeySet` |
| both, and `~Lowering`: no lifetime is lowered | `RetirementsWaitForTokens` (`RetiredKeysSignedNothingLive`) |
| `CeremoniesTakeTurns`: ceremonies and placements do not overlap | `HeldKeysAlwaysLoad` (`HeldKeysLoad`) |
| `EditsWait`: nobody edits the realm during a run | `RunInvHolds`, `ScopesStayApart`, `AttributesAreKept` (`OthersAttributesStay`), `RecordedDigestsAreLive` (`RecordedDigestIsLive`), `RecordedRevisionsReproduce` (`RecordedRevisionReproduces`), `GovernedStateIsSafe` (`GovernedStateIsReplacedAsRecorded`) |
| `RunsTakeTurns`: one run of realm-apply at a time | `FlowInvHolds`, `BoundFlowStaysWhole`, `BoundFlowIsNotTouched` |
| `OwnerGiven`: `new` is told the container's user | `HostKeysWork` (`InstallableKeysWork`) |
| `OperatorsWait`: one run at a time works on the account | `SecretsStayDead` (`ReplacedSecretsStayDead`) |
| `OwnerGiven` and `OperatorsWait` | `DeployableStaysAccepted` (`DeployableIsAccepted`) |

What operators do in `ClientKeys` whatever its constants (its section above) is an assumption of
`DeployableStaysAccepted` too: without it an operator can remove the deployable's key, or install without it.

- `TypeCorrect`. The priority an activation writes is one more than the highest of the providers it read,
  and to be a number at all that highest must exist: `Capped` bounds every priority by `MaxPriority`, and
  `BoundedSetHasHighest` gets the maximum from the well-foundedness of the numbers below the bound, with
  no induction of its own. `TypesHold` carries `Capped` and `StepsMatch` (which steps each program counter
  belongs to) with the types.
- `AlwaysAnActiveKey`: there is always an active key, so Keycloak never generates `fallback-PS256`;
  `OneKeyAlwaysSigns`: no two active keys have the same priority; `NoDemotedKeySigns`: no key the registry
  has demoted is active; `StagedBeforeSigning`: a key becomes the signing one only when staged in the
  registry and already in the key set.
- `RestartsFindPasswords` rests on `destroy`'s order alone, and holds with any number of destructions
  of one key at once. `RecordsAreTrue` rests on the reading back before the record, and on a kid being placed once.
- `ProvidersKeepTheirFiles`, `RecordedKeysStayGone`: the provider goes before the files, and what is
  past its check stays unpublished. A staging that has looked at custody while a removal of the same key
  proceeds breaks both; hence `FilesApart`.
- `RestoresKeepFilesAndRecords`: a restore writes the realm alone and the two promises do not rest on it;
  the types of what a dump holds (`BackupTyped`) are all that has to be added.
- `RetirementsWaitForTokens`. `Fading`: once a key is demoted, its age and what is left of its tokens add up
  to a floor at most, since each tick moves one to the other; that a lifetime may be raised meanwhile only
  raises the floor. `RetiresSilent`: a retirement past its check is of a key with nothing left to verify,
  which no step lets sign again. The rest is the rotation's invariant.
- `HeldKeysAlwaysLoad` has to hold across a place that stopped between two moves and whatever the operator
  then does with `keys/new`. The files there are of one key (`OneStaged`), a kid's names hold its own files
  only, and a place about to move the certificate has moved the other two (`Moved`). Destructions may overlap
  with anything.
- `RetriesAreRuns`: what is proved of `Spec` holds of realm-apply repeated until it converges (`RetrySpec`).
- `GovernedStateIsSafe`, `RecordedDigestsAreLive`, `AttributesAreKept`, `ScopesStayApart` relate a write to a
  read made several calls before it. `RunInv` says of each call what the run still knows: the attributes are
  as last read (`Knowing`), the lists likewise (`ListsKnown`), what is left to write is as recorded
  (`Guarded`), and what was verified stays so until it is recorded (`Converged`).
  Of what the recorded definition does not govern nothing is proved (Limits).
- `RecordedRevisionsReproduce`. `CommitRead` says what a run whose checkout did not move under it knows: the
  tree is still the one loaded until the commit is read, the commit is that tree's once the status is clean,
  and what was read is what will be recorded, however the checkout moves afterwards.
- `BoundFlowStaysWhole`, `BoundFlowIsNotTouched`. `Partial` says that the flow a run builds is, call by call,
  a prefix of the declaration and one more step of which as much is set as was sent (`With`), in the place the
  run found it in (`added`); `Progress`, that a declared flow the plan no longer has pending is whole;
  `Targets`, that what is pending is not bound. Flows edited by hand are excepted throughout.
- `BoundFlowAlwaysExists` is what is left of that when runs overlap (`OverlapInv`): the bound flow may be
  half built (Findings), but it is always there, because a build's calls delete only what is not bound.
- `DeployableStaysAccepted`. `KeysInv` says, with no assumption, what every stopped run has left: a JWK is of the
  PEM beside it, whose key the `new` under way still holds. `OperatorsKnow` adds what is known of the
  account while one operator works on it: what `installed` says is registered, and an installation that is
  going to put keys has among its names the deployable's, for one by hand because its operator names it,
  for the one of a creation because there is no deployable yet when there is no account (`Uninformed`).
- `SecretsStayDead`: the secret an installation will put back was read by it after the last regeneration.
- `RetentionInv`: the list of sets to prune is computed once and worked off while it gets out of date.
  `PruningOld` says that each set left on it has `Keep` newer ones that stay, because the loop takes the
  newest first; `LoneDumps` and `LitterLoose`, that a dump without globals, or a file to sweep, is older than
  a set that is there; `NewestHolds`, that the newest set is the last one put in place. `LatestIsLatest` and
  `OldestIsOldest` get the ends of a set of dates from well-foundedness, with no induction of their own.
- `WholeSetsAlwaysRestore`. `Served` says that a database that serves names roles of its cluster only, through
  creations, restores and losses; `InHand`, that what a run has in hand fits together as long as
  it is `agreeing`, at each of the moments between its first dump and its last rename; `Steady`, that a dump no
  older than the last change of a role names existing roles only, and that the one last put in place is the
  newest set's: it is what makes new globals fit beside it.
- `SetsAreKept` rests on `RetentionInv` alone: it has a step for each rename and for the removal of globals, and
  stutters elsewhere.

The argument for the rotation under `Disciplined`. None of its theorems is inductive: an activation writes what it read many steps
before, and a removal deletes a provider by what it read about it. `IInv` says what each program counter
still knows. `ActivationsLead`: while an activation runs, its key is still staged, nothing has reached the
priority it is going to write or has written, and those it will demote are as it read them. `RemovalsLag`:
a removal's key is still not active. `TopIsActive`: no passive key outranks all active ones, so that the
highest priority plus one is the highest of the active ones. `HandlesExist`: what a command listed is still
there or is known to be gone. Each rests on `Turns`, what the operators' discipline keeps apart, and
`Turns` is used for nothing else. The proof has a lemma for each part; lemmas on the four actions that
write to the realm (`RealmWrites`, `RaiseEffect`, `DemoteEffect`, ...) keep each to the actions that can
disturb it. `SigningKeyFilesProofs` adds what a removal has taken away by each of its program counters, and
`SigningKeySetProofs` needs both invariants to show that the few actions that change the key set, the
signer or the records are steps of `PublishedKeySet` and the rest stutter. The run `rotation` checks `IInv` itself.

The discipline is necessary. With no turns between activations and removals of one key, TLC finds that a
removal which has read its key as passive deletes it after an activation has raised it: the comment "so no
moment has no active key" (`signingkey.go:381`) holds of one command, not of two. No document asks
operators to take turns, and the script takes no lock.

Model-checked only: liveness, which is out of the prover's reach with the fairness and `ENABLED` it rests on
(`InterruptedActivationHeals`, `UnpublishedStagedKeysComeBack`, `RegistrysKeySignsAgain`,
`RestoredDemotedKeysStop`, `AdoptedRealmConverges`, `HalfBuiltFlowsAreRebuilt`, `LostDatabasesComeBack`), and
the counterexamples below.

## Findings

- `abandoned_signed`. `abandon` takes "a staged key that never signed" (`signing-key-rotation.sh:25`), by
  the registry's state. A key whose activation stopped before its record has signed and is still staged;
  the next activation demotes it, and `abandon`, which has no window, removes it.
- `interrupted_removal`. "A provider already removed is not an error, so an interrupted step can run
  again" (`signingkey.go:424`), but `agree` refuses the pair retiring and absent, so the step cannot, and
  the key's files stay. For a staged key the run `repairs` shows the way out: it can be staged again.
- `cache_window`. The wait before an activation is measured from the registry's record, which precedes
  the provider: a stage finished later leaves the key in the key set for less than the window.
- `flows_overlap`. With two runs of realm-apply at once, one deletes as half-built the flow the other has
  just finished and is about to bind, and "no sign-in ever runs through a half-built flow"
  (TDD-identity-kernel-001) fails. With one run at a time it holds (`flows`).

## Limits

- `rotation` needs its discipline; the table under "What is proved" says what holds without it.
- A set older than a key's destruction publishes, restored, a provider whose files are gone. If that key was
  the active one, nothing serves until the registry's key is staged and activated by hand, and Keycloak
  meanwhile may generate `fallback-PS256` (TDD-identity-kernel-002, Compromise and Recovery); the kernel's
  verifications then fail until somebody removes the dead provider by hand. `RegistrysKeySignsAgain` holds
  all the same; `RestoredDemotedKeysStop` excepts keys without their files.
- `-adopt` is "the one way to overwrite a change nobody recorded" (`apply.go:29-31`), but drift is judged only on
  what the recorded definition declares. A value an administrator set where it declares nothing is overwritten,
  without `-adopt`, by the first commit that governs it. The model does it; `GovernedStateIsReplacedAsRecorded`
  claims nothing of such objects.
- The checkout is checked because otherwise "the recorded revision would not reproduce what was applied"
  (`main.go:236-238`), but the definition is loaded first, and status and commit are read in two later calls. A tree that
  changes in between and is committed has its new commit recorded beside the digest of the old definition, and
  the next run refuses the record or needs `-adopt`. The model does it; `RecordedRevisionReproduces` excepts it
  (`moved`), and `RecordedDigestIsLive` holds all the same.
- `WholeSetsRestore` is about sets of files uncut, of a database that serves, with no role changed between the
  moments the two were taken. `backup.sh` puts others in place as well, and cannot tell: a file cut
  and reported as success after the line or the table of contents it looks for; a dump that names a role made, or a
  roles file with one dropped, between the two dumps, or between two runs of the day the second of which stopped
  between its renames, although "a failed run never leaves a file that looks like a backup" (`backup.sh:12-13`);
  the day's cron backup of a database that is empty or half restored, which replaces that day's good set. All of them
  happen in the run, and the other properties (retention, the newest set, `KeptSets`) hold of them as of any set.
- Of the errors of the roles file "any other stops here" (`restore.sh:16-17`), but `psql`'s exit status is discarded and
  only its error lines are looked for: one that ends early without such a line leaves roles out, and a dump that
  names none of them is restored and reported as restored. The model does it, and no property demands those roles.
- Two backups of one day at the same time would write the same `.partial` files; one run at a time is assumed.
- `LostDatabasesComeBack` is claimed where, from some moment on, one of the sets restores.
- `RetiredKeysSignedNothingLive` needs lifetimes that only rise while keys retire: the floor is read from
  the lifetimes of the moment, so a lifetime raised above the window and lowered again hides the tokens
  signed in between (`Lowering = TRUE` finds it).
- `GovernedStateIsReplacedAsRecorded` needs administrators who leave the realm alone during a run: `Apply` does
  not read again before it writes (`EditsWait = FALSE` finds a value overwritten that was set between plan
  and write).
- Two runs of realm-apply at once are not modelled for the record: the one whose realm write follows the
  other's record lays the attributes it read earlier over it, and puts the old revision back.
- With edits during a run (`EditsWait = FALSE`) the attribute maps and the default lists lose what was set
  between a read and its write; within one run, `OthersAttributesStay` and `NoScopeInBothLists` hold. A
  client created between the removals and the additions takes its scopes from lists that are not yet whole.
- A run of realm-apply that stops between its first write and its record (`ErrNotConverged` too) leaves
  writes that the next run compares with the old record and reports as "made outside the tool"
  (`console-drift.md:45`); nothing in the code tells the two apart. `AdoptedRealmConverges` says
  `-adopt` gets out of it.
- `DeployableIsAccepted` and `ReplacedSecretsStayDead` need one run at a time on the account (`OperatorsWait`).
  With `FALSE`, TLC finds the second `PUT` of two bringing back the secret it read before the first regenerated it,
  which takes Keycloak to keep the secret of the representation it is put, as its partial updates do.
  A regeneration by hand that a running installation undoes is not counted among the replaced secrets.
- `DeployableIsAccepted` needs the operator's rules in `BeginInstall`, `Deploy` and `DiscardJWK`: `client-key
  install` replaces every key of the account and knows of no deployable. `InstallableKeysWork` needs
  `OwnerGiven`.
- `StagePost` leaves out two providers of one name (see SigningKeyRotation).
- `create-apply-client.sh` stopped between the client's creation and its role leaves an account without
  the role, and refuses to run again because the account exists; an operator has to add the role.
- `HeldKeysLoad` needs ceremonies and places that do not overlap: the test for `keys/new` and its
  creation are two calls (`TakeTurns = {}` finds two ceremonies that mix their files).
- A place that stopped part way cannot be repeated ("a kid is placed once"). Removing `keys/new`, which the
  refusal offers, then leaves a keystore with no password, and the start check fails; `HeldKeysLoad` still
  holds, as no certificate is in place.
- In the `windows` run a step takes no time: a clock that runs between `check` and `remove` only makes
  the key older.
- A verification that fails changes nothing, so the two calls of `VerifySigningKey`, between which the
  realm may change, are one step.

## Not modelled

Definition validation, the theme and image checks are pure functions of files with no state and no steps;
unit tests cover each rule. The admin client keeps nothing between two calls (a token is fetched for each);
what it means to its callers is a call that fails before or after it took effect, and that is `Stop` before
or after each action. The deployment files are declarative. The restore drill and its fingerprints test
`backup.sh` and `restore.sh` on one machine in CI; they are evidence for `Backups`' external parts, not
part of it. Client assertions, and the content of a JWK, are left to unit tests. The paging of the client
list (`retirement.go`), a client scope's mappers and `-dry-run` are not modelled yet.

## Plan

Order: the rotation first (the system's hardest promise), then custody, realm-apply, flows, client keys
and backups, each with its properties checked and its safety proved; all of these are done. Next:

1. Proofs: which of the rotation's promises survive restores and repairs by hand, and an abstract
   specification of custody for the rotation to rely on.
2. `RealmApply`: two overlapping runs and the record one of them puts back; a client scope's mappers.
3. `SigningKeyWindows`: the paging of the client list.
4. `KeyCustody`: runs for overlapping ceremonies and for the interrupted place, and its composition with
   the rotation.
