--------------------------- MODULE PublishedKeySet --------------------------
(***************************************************************************)
(* What the rotation promises the consumers of the realm's key set,        *)
(* whatever systems the steps are spread over: a published set and the one *)
(* key of it that signs.  The signer changes only to a key that was        *)
(* already published and never had its turn, only another key leaves the   *)
(* set, and a key whose end is recorded never comes back.                  *)
(***************************************************************************)
CONSTANTS Key, FirstKey

VARIABLES
  published,  \* the keys consumers fetch
  signer,     \* the key new tokens are signed with
  past,       \* the keys whose turn to sign is recorded as over
  gone        \* the keys recorded as destroyed

TypeOK == published \in SUBSET Key /\ signer \in Key /\ past \in SUBSET Key /\ gone \in SUBSET Key

Init == published = {FirstKey} /\ signer = FirstKey /\ past = {} /\ gone = {}

Publish(k) ==
  /\ k \notin published \cup gone
  /\ published' = published \cup {k}
  /\ UNCHANGED <<signer, past, gone>>

Switch(k) ==
  /\ k \in published \ past
  /\ signer' = k
  /\ UNCHANGED <<published, past, gone>>

Withdraw(k) ==
  /\ k \in published \ {signer}
  /\ published' = published \ {k}
  /\ UNCHANGED <<signer, past, gone>>

\* The end of a key's turn, recorded once another signs.
Demote(k) ==
  /\ k # signer
  /\ past' = past \cup {k}
  /\ UNCHANGED <<published, signer, gone>>

\* The end of a key, recorded once it is out of the set.
Bury(k) ==
  /\ k \notin published
  /\ past' = past \cup {k} /\ gone' = gone \cup {k}
  /\ UNCHANGED <<published, signer>>

Next == \E k \in Key : Publish(k) \/ Switch(k) \/ Withdraw(k) \/ Demote(k) \/ Bury(k)

Spec == Init /\ [][Next]_<<published, signer, past, gone>>
=============================================================================
