------------------------------ MODULE Selection ------------------------------
(***************************************************************************)
(* Who pays: the choice of a model and of a credential profile.  Selector  *)
(* (selection.py) turns an intent into a plan; CredentialBroker.resolve    *)
(* (broker.py) turns a provider into the credential a request will carry.  *)
(* The two read the same profile table with rules of their own.            *)
(*                                                                         *)
(* An intent asks for a model, a role or words to search, within a provider *)
(* or not, and for modes; `needs` stands for the capabilities, modalities   *)
(* and limits it requires, a model's `offers` for those the model has.      *)
(*                                                                         *)
(* A table is the set of profile rows.  An outcome is a set: empty for an  *)
(* error, else the one result.                                             *)
(***************************************************************************)
EXTENDS Access

CONSTANTS
  ProfileRank,   \* the alphabetical place of a profile id
  Score          \* [query |-> [model's qualified id |-> percent]], its search score

Enabled(table, p) == {x \in table : x.provider = p /\ x.enabled}

\* ORDER BY priority ASC, id ASC
Earlier(x, y) ==
  \/ x.priority < y.priority
  \/ x.priority = y.priority /\ ProfileRank[x.id] < ProfileRank[y.id]

\* The first row of S, as a set.
First(S) == {x \in S : \A y \in S \ {x} : Earlier(x, y)}

Billing(kind, S) == {x \in S : kind = None \/ x.billing = kind}

-----------------------------------------------------------------------------
(* Selector.                                                               *)

\* Catalog.search, then the rule for when its first hit is no guess.
SearchHits(catalog, query, provider) ==
  LET inScope == IF provider = None THEN AllModels(catalog)
                 ELSE {m \in AllModels(catalog) :
                         m.provider \in {p.id : p \in ProvidersNamed(catalog, <<provider>>)}}
      score(m) == Score[query][Qualified(m)]
      hits == {m \in inScope : score(m) >= 44}
      best == {m \in hits : \A n \in hits : score(n) <= score(m)}
      lead(m) == \A n \in hits \ {m} : score(m) >= 78 /\ score(m) - score(n) >= 8
  IN IF \E m \in best : lead(m) THEN {m \in best : lead(m)} ELSE hits

\* _resolve_model: the models the intent may mean.
Meant(catalog, intent) ==
  CASE intent.model # None -> ModelsNamed(catalog, intent.model, intent.provider)
    [] intent.model = None /\ intent.role # None
         -> IF intent.role \in DOMAIN catalog.roles
            THEN ModelsNamed(catalog, catalog.roles[intent.role], intent.provider) ELSE {}
    [] intent.model = None /\ intent.role = None /\ intent.query # None
         -> SearchHits(catalog, intent.query, intent.provider)
    [] OTHER -> {}

\* The elements of seq at the places in I, in their order.
AtPlaces(seq, I) ==
  LET upTo[n \in 0..Len(seq)] ==
        IF n = 0 THEN <<>>
        ELSE IF n \in I THEN Append(upTo[n - 1], seq[n]) ELSE upTo[n - 1]
  IN upTo[Len(seq)]

\* Provider and model tiers, each once, in the order declared.
Tiers(provider, model) ==
  LET declared == provider.tiers \o model.tiers
  IN AtPlaces(declared, {n \in DOMAIN declared : \A i \in 1..(n - 1) : declared[i] # declared[n]})

\* _validate_requirements: capabilities, modalities and limits, each as one thing offered.
MeetsNeeds(model, intent) == intent.needs \subseteq model.offers

\* The requirements and the modes asked for.
Compatible(provider, model, intent) ==
  /\ MeetsNeeds(model, intent)
  /\ intent.variant # None => intent.variant \in Range(model.variants)
  /\ intent.effort # None =>
       model.reasoning /\ (model.efforts # <<>> => intent.effort \in Range(model.efforts))
  /\ intent.tier # None => intent.tier \in Range(Tiers(provider, model))

\* _validate_profile_method: the provider declares such a credential.
Declared(provider, x) ==
  \/ provider.methods = <<>>
  \/ \E m \in Range(provider.methods) :
       m.kind = x.auth /\ (x.billing \in Range(m.billing) \/ "unknown" \in Range(m.billing))

\* Mutant: the profile named is taken whatever it bills as by now.
MutantNamedProfile(provider, table, intent) ==
  {x \in table : /\ x.id = intent.profile /\ x.provider = provider.id /\ x.enabled
                 /\ Declared(provider, x)}

NamedProfile(provider, table, intent) ==
  {x \in table : /\ x.id = intent.profile /\ x.provider = provider.id /\ x.enabled
                 /\ intent.billing # None => x.billing = intent.billing
                 /\ Declared(provider, x)}

\* _resolve_profile, as the set of its possible answers: {None} if no credential is
\* needed to be named, {} if it raises.
ProfileFor(provider, table, intent) ==
  LET enabled == Billing(intent.billing, Enabled(table, provider.id))
  IN CASE intent.profile # None -> NamedProfile(provider, table, intent)
       [] intent.profile = None /\ enabled = {} -> IF intent.billing = None THEN {None} ELSE {}
       [] intent.profile = None /\ enabled # {} /\ Cardinality({x.billing : x \in enabled}) > 1 -> {}
       [] OTHER -> {x \in First(enabled) : Declared(provider, x)}

\* Selector.select: the plan, none if the selector refuses.  The provider of the model
\* found is looked up by its name.
Plans(catalog, table, intent) ==
  LET plan(provider, model, x) ==
        [model |-> <<provider.id>> \o model.id, provider |-> provider.id,
         variant |-> intent.variant, effort |-> intent.effort, tier |-> intent.tier,
         profile |-> IF x = None THEN None ELSE x.id,
         billing |-> IF x = None THEN intent.billing ELSE x.billing]
      found == Meant(catalog, intent)
      planned(provider, model) ==
        IF Compatible(provider, model, intent)
        THEN {plan(provider, model, x) : x \in ProfileFor(provider, table, intent)} ELSE {}
  IN IF Cardinality(found) # 1 THEN {}
     ELSE UNION {UNION {planned(p, m) : p \in ProvidersNamed(catalog, <<m.provider>>)} : m \in found}

-----------------------------------------------------------------------------
(* CredentialBroker.resolve.                                               *)

Resolution(source, S) == {[source |-> source, profile |-> x] : x \in S}

\* Mutant: rows are skipped for their billing kind only, not for being disabled.
MutantStored(table, p, billing) == First(Billing(billing, {x \in table : x.provider = p}))

\* The first stored profile that is not skipped.
Stored(table, p, billing) == First(Billing(billing, Enabled(table, p)))

\* request: [provider, profile, billing, runtime]; runtime is None or what is supplied with
\* the call for the request's own provider: [auth, billing, age], all as the caller says.
RuntimeProfile(request) ==
  [id |-> <<"runtime", request.provider>>, provider |-> request.provider,
   auth |-> request.runtime.auth, billing |-> request.runtime.billing,
   priority |-> 0, enabled |-> TRUE, probe |-> None]

Resolve(catalog, table, environ, request) ==
  LET p == request.provider
      named == {x \in table : x.id = request.profile /\ x.provider = p /\ x.enabled}
      stored == Stored(table, p, request.billing)
      env == Billing(request.billing, EnvironmentProfiles(Range(catalog.providers), environ))
  IN CASE request.runtime # None
            -> Resolution("runtime", {RuntimeProfile(request)})
       [] request.runtime = None /\ request.profile # None -> Resolution("selected", named)
       [] request.runtime = None /\ request.profile = None /\ stored # {}
            -> Resolution("stored", stored)
       [] OTHER -> Resolution("environment", {x \in env : x.provider = p})

-----------------------------------------------------------------------------
(* What holds between the two.                                             *)

Request(p, profile, billing) ==
  [provider |-> p, profile |-> profile, billing |-> billing, runtime |-> None]

\* Whenever the selector names a profile, for one provider and one billing kind, the broker
\* takes that one, asked for it by name or not; the broker never takes a disabled one, or
\* one that bills otherwise than asked; and it falls back to the environment only where
\* the selector names none.  Where the selector refuses - for want of a billing kind
\* among several, or of such a credential among the provider's - the broker may still
\* take a stored profile.
Agree(catalog, table, environ, p, kind) ==
  LET chosen == ProfileFor(catalog.providers[p], table, [profile |-> None, billing |-> kind])
      taken == Resolve(catalog, table, environ, Request(p, None, kind))
  IN /\ \A r \in taken : r.profile.enabled /\ (kind # None => r.profile.billing = kind)
     /\ \A x \in chosen \ {None} :
          /\ taken = {[source |-> "stored", profile |-> x]}
          /\ Resolve(catalog, table, environ, Request(p, x.id, None))
               = {[source |-> "selected", profile |-> x]}
     /\ (\E r \in taken : r.source = "environment") => chosen \subseteq {None}
=============================================================================
