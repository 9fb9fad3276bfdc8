-------------------------------- MODULE Auth ---------------------------------
(***************************************************************************)
(* The two JWT middlewares (middleware.go): who gets through to a handler, *)
(* as which tenant, and what everybody else is answered.                   *)
(***************************************************************************)

CONSTANT Tenants

\* What the middlewares look at of a request's token.  "verified": jwt.Parse
\* accepts its signature and dates; "client": client_id, or a text aud.
Tokens == [present : BOOLEAN, verified : BOOLEAN, issuer : {"ours", "other"},
           client : Tenants \cup {"none"}, admin : BOOLEAN]

\* Without a code the request goes on to its handler as this tenant.
Pass(tenant) == [code |-> "none", tenant |-> tenant]
Deny(code)   == [code |-> code, tenant |-> "none"]

\* BUG: without keys "authentication is disabled", as InitJWKS logs.
AuthOpenWithoutKeys(keys, issuerSet, t) ==
  CASE ~keys -> Pass(t.client)
    [] ~t.present \/ ~t.verified -> Deny("401")
    [] ~issuerSet -> Deny("500")
    [] t.issuer # "ours" \/ t.client = "none" -> Deny("401")
    [] OTHER -> Pass(t.client)

\* jwks is nil when its fetch at the start failed or was not configured.
AuthMiddleware(keys, issuerSet, t) ==
  CASE ~keys -> Deny("403")
    [] keys /\ (~t.present \/ ~t.verified) -> Deny("401")
    [] keys /\ t.present /\ t.verified /\ ~issuerSet -> Deny("500")
    [] keys /\ t.present /\ t.verified /\ issuerSet ->
         IF t.issuer = "ours" /\ t.client # "none" THEN Pass(t.client) ELSE Deny("401")

\* BUG: the copy of the checks for administrators misses the issuer.
AdminOfAnyIssuer(keys, issuerSet, t) ==
  CASE ~keys -> Deny("404")
    [] keys /\ ~issuerSet -> Deny("500")
    [] keys /\ issuerSet ->
         IF t.present /\ t.verified /\ t.admin /\ t.client # "none"
         THEN Pass(t.client) ELSE Deny("403")

AdminAuthMiddleware(keys, issuerSet, t) ==
  CASE ~keys -> Deny("404")
    [] keys /\ (~t.present \/ ~t.verified) -> Deny("403")
    [] keys /\ t.present /\ t.verified /\ ~issuerSet -> Deny("500")
    [] keys /\ t.present /\ t.verified /\ issuerSet ->
         IF t.issuer = "ours" /\ t.admin /\ t.client # "none"
         THEN Pass(t.client) ELSE Deny("403")
=============================================================================
