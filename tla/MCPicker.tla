------------------------------ MODULE MCPicker ------------------------------
(* Model-checking instance of Picker: "acme" takes a key or a sign-in and has a model   *)
(* the application cannot run; "local" needs no credential.  As by an overlay, acme's    *)
(* methods are corrected and its model's efforts, and local's model is given an effort   *)
(* although it does not declare reasoning.                                              *)
EXTENDS Picker

Raw(efforts, variants) ==
  [reasoning |-> efforts # <<>>, efforts |-> efforts, variants |-> variants, tiers |-> <<>>,
   offers |-> {}]

MCRaw ==
  [acme |-> [env |-> {"KEY"},
             models |-> (<<"luna">> :> Raw(<<"low", "high">>, <<>>)) @@ (<<"x", "old">> :> Raw(<<>>, <<>>))],
   local |-> [env |-> {}, models |-> (<<"luna">> :> Raw(<<>>, <<"fast", "slow">>))]]

Method(kind, billing) ==
  [kind |-> kind, billing |-> billing, env |-> {}, route |-> None, posture |-> None]

MCCatalog ==
  [providers |->
     [FromRaw(MCRaw) EXCEPT
        !.acme.methods = <<Method("api_key", <<"api">>), Method("oauth", <<"subscription">>)>>,
        !.acme.models = Patched(@, <<"luna">> :> <<"high">>),
        !.local.models = Patched(@, <<"luna">> :> <<"high">>)],
   aliases |-> (<<"moon">> :> <<"acme", "luna">>), roles |-> Empty]

MCProviderOrder == <<"acme", "local">>
MCModelOrder ==
  <<MCCatalog.providers.acme.models[<<"luna">>], MCCatalog.providers.acme.models[<<"x", "old">>],
    MCCatalog.providers.local.models[<<"luna">>]>>
MCSupported == {<<"acme", "luna">>, <<"local", "luna">>}
MCHits == (<<>> :> {}) @@ (<<"l">> :> {<<"local">>, <<"acme", "x", "old">>}) @@ (<<"P">> :> {})
MCDefaults == [variant |-> "fast", effort |-> "high", tier |-> None, profile |-> "b"]

Row(id, p, auth, billing, priority, enabled, probe) ==
  [id |-> id, provider |-> p, auth |-> auth, billing |-> billing, priority |-> priority,
   enabled |-> enabled, probe |-> probe]

MCRows ==
  {Row("a", "acme", "api_key", "api", 100, TRUE, None),
   Row("a", "acme", "api_key", "api", 100, TRUE, "expired"),
   Row("a", "acme", "oauth", "subscription", 100, TRUE, None),
   Row("b", "acme", "oauth", "subscription", 50, TRUE, "ready"),
   Row("b", "acme", "oauth", "subscription", 50, FALSE, None),
   Row("b", "acme", "delegated", "subscription", 50, TRUE, None),
   Row("c", "local", "api_key", "api", 100, TRUE, None)}
MCRank == [a |-> 1, b |-> 2, c |-> 3]
MCNormalForm == Empty
MCScore == [q \in {} |-> Empty]
=============================================================================
