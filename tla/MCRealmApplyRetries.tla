------------------------ MODULE MCRealmApplyRetries -------------------------
(* RealmApplyRetries on the objects and revisions of MCRealmApply. *)
EXTENDS RealmApplyRetries, MCRealmApply
=============================================================================
