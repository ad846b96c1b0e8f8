----------------------------- MODULE MCAccounts -----------------------------
(* Model-checking instance of Accounts: "acme" takes a key, found in the environment,   *)
(* and permits a sign-in of our own; "beta" does not, but its own tool's sign-in can    *)
(* be reused, and the driver its route names is none that is registered.  One process  *)
(* administers, one serves.                                                            *)
EXTENDS Accounts, TLC

Method(kind, billing, env, route, posture) ==
  [kind |-> kind, billing |-> <<billing>>, env |-> env, route |-> route, posture |-> posture]

Provider(id, env, methods) ==
  [id |-> id, env |-> env, methods |-> methods, models |-> Empty, tiers |-> <<>>, routes |-> None]

MCCatalog ==
  [providers |->
     [acme |-> Provider("acme", {"KEY"},
                 <<Method("api_key", "api", {"KEY"}, "key", None),
                   Method("oauth", "subscription", {}, "plan", "third_party_permitted")>>),
      beta |-> [Provider("beta", {}, <<>>) EXCEPT !.routes =
                 <<[id |-> "plan", kind |-> "oauth", billing |-> "marketplace",
                    posture |-> "first_party_only", env |-> {}, driver |-> "vendor_cli"]>>]],
   aliases |-> Empty, roles |-> Empty]

MCCandidates == [beta |-> {"tool"}]

Row(id, p, auth, billing, priority, store, ref) ==
  [id |-> id, provider |-> p, auth |-> auth, billing |-> billing, priority |-> priority,
   enabled |-> TRUE, probe |-> None, store |-> store, ref |-> ref]

\* One profile as it is written now and again: on acme's sign-in, which no driver
\* refreshes for beta, or on acme's key, and then billing otherwise.
MCHandMade ==
  {Row(<<"beta", "work">>, "beta", "oauth", "subscription", 200, None, <<"acme", "plan">>),
   Row(<<"beta", "work">>, "beta", "api_key", "api", 50, "keyring", <<"acme", "key">>)}

MCRank ==
  (<<"acme", "key">> :> 1) @@ (<<"acme", "plan">> :> 2) @@ (<<"beta", "plan">> :> 3) @@
  (<<"beta", "tool">> :> 4) @@ (<<"beta", "work">> :> 5) @@ (<<"env", "acme">> :> 6) @@
  (<<"runtime", "acme">> :> 7) @@ (<<"beta", "delegated">> :> 8)

Asking(p, profile, billing, runtime) ==
  [provider |-> p, profile |-> profile, billing |-> billing, runtime |-> runtime]

MCRequests ==
  {Asking("acme", None, None, None), Asking("beta", None, "api", None),
   Asking("beta", <<"beta", "tool">>, None, None), 
   Asking("acme", None, "api", [auth |-> "oauth", billing |-> "marketplace", age |-> "expired"])}

\* The drivers of this installation; the manual redirect is not offered here.
MCRegistered == {"api_key_paste", "delegated_import", "oauth_pkce", "oauth_device"}

CONSTANTS admin, server

MCProcs == {admin, server}
MCDoes == (admin :> {"sign_in", "promote", "sign_out", "switch", "profile"}) @@ (server :> {"sweep", "lease"})
MCKeyring == {admin, server}
MCNormalForm == Empty
MCScore == [q \in {} |-> Empty]
=============================================================================
