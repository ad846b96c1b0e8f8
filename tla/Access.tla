------------------------------- MODULE Access -------------------------------
(***************************************************************************)
(* How a provider can be connected, and with what (access.py,              *)
(* discovery.py): the routes a catalogue entry declares or implies, the    *)
(* profiles the environment supplies, and what state that puts the         *)
(* provider in for a surface (SelectionController._provider_state).        *)
(***************************************************************************)
EXTENDS Catalogue, Integers

DefaultDriver ==
  [api_key |-> "api_key_paste", bearer |-> "api_key_paste",
   credential_bundle |-> "credential_bundle_paste", oauth |-> "oauth_pkce",
   delegated |-> "delegated_import", anonymous |-> None]

\* A posture nobody declared is "unverified", which permits no more than a refusal.
Posture(declared) == Given(declared, "unverified")

NeedsCredential(route) == route.kind # "anonymous"

RouteOfMethod(method) ==
  [id |-> Given(method.route, method.kind), kind |-> method.kind,
   billing |-> IF method.billing = <<>> THEN "unknown" ELSE method.billing[1],
   posture |-> Posture(method.posture), env |-> method.env,
   driver |-> DefaultDriver[method.kind]]

Anonymous ==
  [id |-> "anonymous", kind |-> "anonymous", billing |-> "local",
   posture |-> "unverified", env |-> {}, driver |-> None]

\* What the catalogue declares, or one route per auth method; a provider that
\* declares neither needs no credential.
AccessRoutes(provider) ==
  IF provider.routes # None THEN provider.routes
  ELSE IF provider.methods = <<>> THEN <<Anonymous>>
  ELSE [i \in DOMAIN provider.methods |-> RouteOfMethod(provider.methods[i])]

\* provider_access: with any enabled profile, a provider counts as configured.
CredentialState(provider, profiles) ==
  LET routes == Range(AccessRoutes(provider))
  IN CASE profiles # {} -> "configured"
       [] profiles = {} /\ routes = {} -> "unavailable"
       [] profiles = {} /\ routes # {} /\ \A r \in routes : ~NeedsCredential(r) -> "configured"
       [] OTHER -> "connectable"

RequiresAuth(provider) == \E r \in Range(AccessRoutes(provider)) : NeedsCredential(r)

\* The profile that a complete set of a provider's variables stands for.
EnvironmentProfile(provider) ==
  [id |-> <<"env", provider.id>>, provider |-> provider.id,
   auth |-> IF Cardinality(provider.env) = 1 THEN "api_key" ELSE "credential_bundle",
   billing |-> "api", priority |-> 500, enabled |-> TRUE, probe |-> None]

EnvironmentProfiles(providers, environ) ==
  {EnvironmentProfile(p) : p \in {q \in providers : q.env # {} /\ q.env \subseteq environ}}

-----------------------------------------------------------------------------
(* What was last found out about the profiles.                             *)

ProbeOrder == <<"ready", "unknown", "expired", "policy_denied", "unavailable">>

FailedProbes == {"expired", "unavailable", "policy_denied"}

\* The best outcome any profile achieved; None if none was ever checked.
LastProbe(profiles) ==
  LET found == SelectSeq(ProbeOrder, LAMBDA s : \E p \in profiles : p.probe = s)
  IN IF found = <<>> THEN None ELSE found[1]

\* supported: the provider's models the application can run.
ProviderState(provider, supported, profiles) ==
  CASE supported = {} -> "catalog"
    [] supported # {} /\ LastProbe(profiles) \in FailedProbes -> "connect"
    [] OTHER -> [configured |-> "ready", connectable |-> "connect",
                 unavailable |-> "catalog"][CredentialState(provider, profiles)]
=============================================================================
