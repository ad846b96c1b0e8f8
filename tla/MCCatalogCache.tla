--------------------------- MODULE MCCatalogCache ---------------------------
(* Model-checking instance of CatalogCache: two processes, and two documents, the        *)
(* second without the provider from which an overlay derives another.  An overlay spells  *)
(* a provider and an alias with a capital, and "ACME" is asked for.                      *)
EXTENDS CatalogCache

Raw(efforts) == [reasoning |-> efforts # <<>>, efforts |-> efforts, variants |-> <<>>, tiers |-> <<>>,
                 offers |-> {}]

MCDocuments ==
  <<[acme |-> [env |-> {"KEY"},
               models |-> (<<"luna">> :> Raw(<<"low">>)) @@ (<<"sol">> :> Raw(<<>>))],
     reseller |-> [env |-> {"A", "B"}, models |-> <<"acme", "luna">> :> Raw(<<>>)]],
    [reseller |-> [env |-> {"A", "B"}, models |-> <<"acme", "luna">> :> Raw(<<>>)]]>>

Entry(id, extends, include, env, models, patches) ==
  [id |-> id, extends |-> extends, include |-> include, models |-> models, patches |-> patches,
   env |-> env, methods |-> None, tiers |-> None, routes |-> None]

MCOverlays ==
  <<[entries |-> <<Entry("codex", "acme", {<<"luna">>}, {}, Empty, <<"luna">> :> <<"low", "high">>),
                   Entry("local", None, None, None, <<"tiny">> :> Raw(<<>>), Empty)>>,
     aliases |-> (<<"Moon">> :> <<"acme", "luna">>), roles |-> [small |-> <<"local", "tiny">>]],
    [entries |-> <<Entry("Mine", "codex", None, None, Empty, Empty)>>,
     aliases |-> Empty, roles |-> [small |-> <<"codex", "luna">>]]>>

MCScore ==
  LET score(a, b, c) ==
        [name \in {<<"acme", "luna">>, <<"acme", "sol">>, <<"codex", "luna">>, <<"Mine", "luna">>,
                   <<"reseller", "acme", "luna">>, <<"local", "tiny">>} |->
           CASE Last(name) = "luna" -> a [] Last(name) = "sol" -> b [] OTHER -> c]
  IN [words |-> score(95, 50, 30), vague |-> score(60, 58, 45)]
MCRank == Empty
MCNormalForm == [Mine |-> "mine", Moon |-> "moon", ACME |-> "acme"]
=============================================================================
