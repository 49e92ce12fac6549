----------------------------- MODULE MCOcrBudget -----------------------------
EXTENDS OcrBudget, TLC

CONSTANTS u1, u2, i1, i2, i3, i4

\* Two users of tenant 1, one of whom also acts in tenant 2.
TenantsOf == i1 :> 1 @@ i2 :> 1 @@ i3 :> 1 @@ i4 :> 2
ActorsOf == i1 :> u1 @@ i2 :> u1 @@ i3 :> u2 @@ i4 :> u1
PagesOf == [i \in Attempts |-> IF i = i3 THEN 2 ELSE 1]
BytesOf == [i \in Attempts |-> 1]

\* Tokens bind a user, so a refund lets one more call in; pages bind a tenant and
\* bytes everybody.
Limits == [k \in Kinds |-> [s \in Scopes |->
  CASE k = "costUnits" /\ s = "user" -> 3
    [] k = "pages" /\ s = "tenant" -> 3
    [] k = "bytes" /\ s = "global" -> 2
    [] OTHER -> 9]]
=============================================================================
