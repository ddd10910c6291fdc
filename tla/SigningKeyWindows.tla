-------------------------- MODULE SigningKeyWindows -------------------------
(***************************************************************************)
(* The rotation steps in time.  An activation waits the consumers' cache   *)
(* window and a retirement the retirement window, each measured by the     *)
(* registry from when the key entered its state; both commands first       *)
(* compute the retirement floor from the live token lifetimes and refuse a *)
(* floor above the window (internal/realmdef/retirement.go).               *)
(*                                                                         *)
(* Time passes between any two steps.  Clocks are ages, which stop counting *)
(* where nothing tells them apart any more.  Keycloak signs with its top   *)
(* key at every moment, the most tokens there can be.                      *)
(***************************************************************************)
EXTENDS SigningKeyRotation

CONSTANTS
  CacheWindow,       \* ConsumerKeySetCache
  RetirementWindow,  \* RetirementWindow
  Margin,            \* the cache and the clock-skew allowance a floor adds
  Lifetimes,         \* the access token lifetimes an administrator may set
  Lowering,          \* whether one may also lower a lifetime again
  Emergency          \* whether an approval may be an emergency's

ASSUME WindowsAssumption ==
  /\ CacheWindow \in Nat /\ RetirementWindow \in Nat /\ Margin \in Nat
  /\ Lifetimes \subseteq Nat /\ \E n \in Lifetimes : \A m \in Lifetimes : m <= n
  /\ Lowering \in BOOLEAN /\ Emergency \in BOOLEAN

VARIABLES
  age,       \* how long each key has been in its registry state
  shown,     \* how long each key has been in the key set
  live,      \* how long tokens a key signed may still have to be verified
  lifespan   \* the longest access token lifetime, live in the realm

clocks     == <<age, shown, live, lifespan>>
windowVars == <<vars, clocks>>

Longest == CHOOSE n \in Lifetimes : \A m \in Lifetimes : m <= n

WindowsTypeOK ==
  /\ TypeOK
  /\ age   \in [Key -> 0..RetirementWindow]
  /\ shown \in [Key -> 0..CacheWindow]
  /\ live  \in [Key -> 0..(Longest + Margin)]
  /\ lifespan \in Lifetimes

\* Mutant: the floor without the cache and the clock-skew allowance.
RetirementFloorBare == lifespan

RetirementFloor == lifespan + Margin

\* What check is asked to wait.  The windows command fails on a floor above the window.
WaitIsOver(o) ==
  LET k == kid[o] IN
  CASE step[o] = "activate" ->
         /\ RetirementFloor <= RetirementWindow
         /\ provider[k] = "active" \/ age[k] >= CacheWindow \/ Emergency
    [] step[o] = "retire" ->
         RetirementFloor <= RetirementWindow /\ age[k] >= RetirementWindow
    [] OTHER -> TRUE

\* A step of the rotation takes no time.  What a key signs lives for a floor.
Clocks ==
  /\ age'   = [k \in Key |-> IF registry'[k] = registry[k] THEN age[k] ELSE 0]
  /\ shown' = [k \in Key |-> IF k \in Present' THEN shown[k] ELSE 0]
  /\ live'  = [k \in Key |-> IF k \in Top' THEN lifespan + Margin ELSE live[k]]
  /\ UNCHANGED lifespan

Tick ==
  /\ age'   = [k \in Key |-> IF age[k] < RetirementWindow THEN age[k] + 1 ELSE age[k]]
  /\ shown' = [k \in Key |-> IF k \in Present /\ shown[k] < CacheWindow THEN shown[k] + 1 ELSE shown[k]]
  /\ live'  = [k \in Key |-> IF k \in Top \/ live[k] = 0 THEN live[k] ELSE live[k] - 1]
  /\ UNCHANGED <<vars, lifespan>>

SetLifespan(n) ==
  /\ n > lifespan \/ Lowering
  /\ lifespan' = n
  /\ live' = [k \in Key |-> IF k \in Top /\ live[k] < n + Margin THEN n + Margin ELSE live[k]]
  /\ UNCHANGED <<vars, age, shown>>

WindowsInit ==
  /\ Init
  /\ lifespan \in Lifetimes
  /\ age   = [k \in Key |-> RetirementWindow]
  /\ shown = [k \in Key |-> IF k = FirstKey THEN CacheWindow ELSE 0]
  /\ live  = [k \in Key |-> IF k = FirstKey THEN lifespan + Margin ELSE 0]

WindowsNext ==
  \/ /\ \/ \E o \in Operator, s \in Steps, k \in Key : Begin(o, s, k)
        \/ \E o \in Operator : Stop(o) \/ (Proceed(o) /\ (pc[o] = "check" => WaitIsOver(o)))
        \/ \E k \in Key : Ceremony(k)
     /\ Clocks
  \/ Tick
  \/ \E n \in Lifetimes : SetLifespan(n)

WindowsSpec == WindowsInit /\ [][WindowsNext]_windowVars

-----------------------------------------------------------------------------

\* A retirement takes no key out of the key set while a token it signed may still have
\* to be verified, whenever in the rotation a step stopped: the window runs from the
\* registry's record, which follows the demotion.
RetiredKeysSignedNothingLive ==
  [][\A o \in Operator :
       step[o] = "retire" /\ kid[o] \in Present \ Present' => live[kid[o]] = 0]_windowVars

\* "It is in JWKS before it begins signing by at least the consumer cache window"
\* (TDD-identity-kernel-002, Testing Strategy, Rotation).
KeysAreCachedBeforeTheySign ==
  [][\A k \in Top' \ Top : shown[k] = CacheWindow]_windowVars
=============================================================================
