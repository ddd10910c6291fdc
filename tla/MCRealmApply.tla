--------------------------- MODULE MCRealmApply -----------------------------
(* RealmApply on the realm's own fields, the default scopes and three revisions. *)
EXTENDS RealmApply

CONSTANTS a, b, c

MCObject == 1..2

MCList(default, optional) ==
  [s \in Scope |-> {l \in List : s \in IF l = "default" THEN default ELSE optional}]

\* The second revision moves every scope to the other list and sets a value Keycloak may
\* not keep; the third stops governing the realm's fields.
MCDeclares == [r \in Revision |->
  CASE r = "r1" -> <<a, MCList({"s1"}, {})>>
    [] r = "r2" -> <<c, MCList({}, {"s1"})>>
    [] OTHER    -> <<Nothing, MCList({}, {})>>]

MCBuiltin == <<Nothing, MCList({}, {"s1"})>>

\* Keycloak normalises c.
MCNormalised == [v \in Value |-> IF v = c THEN b ELSE v]
=============================================================================
