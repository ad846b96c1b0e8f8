------------------------------ MODULE Catalogue ------------------------------
(***************************************************************************)
(* The normalised catalogue (catalog.py): what from_models_dev builds from *)
(* an upstream document and overlays, and how names are looked up in it.   *)
(*                                                                         *)
(* An identifier is the sequence of its "/"-separated segments, so that a  *)
(* model's qualified id is its provider's segment followed by its own; a   *)
(* model id may have several segments ("anthropic/claude" at a reseller).  *)
(* Documents and overlays spell segments as they like; lookups put some of  *)
(* them in lower case, without blanks around them, and others not.         *)
(* Of a model or provider only what selection looks at is kept; labels,    *)
(* prices and URLs are left out.                                           *)
(***************************************************************************)
EXTENDS Sequences, FiniteSets, SequencesExt

CONSTANTS
  None,         \* an optional value that is absent
  NormalForm    \* [segment |-> its normal form], of the segments not in it

\* The part of g outside f's domain is kept: dict.update.
Updated(g, f) == [x \in DOMAIN g \cup DOMAIN f |-> IF x \in DOMAIN f THEN f[x] ELSE g[x]]

ASSUME NormalAssumption ==
  /\ None \notin DOMAIN NormalForm
  /\ \A s \in DOMAIN NormalForm : NormalForm[s] \notin DOMAIN NormalForm

Empty == [x \in {} |-> None]

\* _normalize_identifier, of one segment and of a whole identifier.
Normalized(s) == IF s \in DOMAIN NormalForm THEN NormalForm[s] ELSE s
NormalName(name) == [i \in DOMAIN name |-> Normalized(name[i])]

-----------------------------------------------------------------------------
(* Building.                                                               *)

\* A provider's environment declares one API key, or a bundle of values.
EnvMethods(env) ==
  IF env = {} THEN <<>>
  ELSE <<[kind |-> IF Cardinality(env) = 1 THEN "api_key" ELSE "credential_bundle",
          billing |-> <<"api">>, env |-> env, route |-> None, posture |-> None]>>

\* A model document read for provider p.
ParseModel(p, id, raw) ==
  [provider |-> p, id |-> id, reasoning |-> raw.reasoning, efforts |-> raw.efforts,
   variants |-> raw.variants, tiers |-> raw.tiers, offers |-> raw.offers]

ParseModels(p, raws) == [id \in DOMAIN raws |-> ParseModel(p, id, raws[id])]

FromRaw(raw) ==
  [p \in DOMAIN raw |->
     [id |-> p, env |-> raw[p].env, methods |-> EnvMethods(raw[p].env),
      models |-> ParseModels(p, raw[p].models), tiers |-> <<>>, routes |-> None]]

NoProvider == [env |-> {}, methods |-> <<>>, models |-> Empty, tiers |-> <<>>, routes |-> None]

Given(value, inherited) == IF value = None THEN inherited ELSE value

\* Mutant: models taken over from the base keep the base's provider.
MutantTakenOver(p, base, include) ==
  [id \in {i \in DOMAIN base.models : include = None \/ i \in include} |-> base.models[id]]

\* The models of base that entry p of an overlay takes over as its own.
TakenOver(p, base, include) ==
  [id \in {i \in DOMAIN base.models : include = None \/ i \in include}
     |-> [base.models[id] EXCEPT !.provider = p]]

\* Patches correct models that are there and create none.
Patched(models, patches) ==
  [id \in DOMAIN models |->
     IF id \in DOMAIN patches THEN [models[id] EXCEPT !.efforts = patches[id]] ELSE models[id]]

\* One entry of an overlay.  It corrects the provider it names or derives one from
\* another; if the one it names as its base is not there, it is skipped.
ApplyEntry(providers, entry) ==
  LET baseId == Given(entry.extends, entry.id)
      base == IF baseId \in DOMAIN providers THEN providers[baseId] ELSE NoProvider
      models == Updated(TakenOver(entry.id, base, entry.include),
                        ParseModels(entry.id, entry.models))
      provider == [id |-> entry.id,
                   env |-> Given(entry.env, base.env),
                   methods |-> Given(entry.methods, base.methods),
                   models |-> Patched(models, entry.patches),
                   tiers |-> Given(entry.tiers, base.tiers),
                   routes |-> Given(entry.routes, base.routes)]
  IN IF entry.extends # None /\ baseId \notin DOMAIN providers THEN providers
     ELSE Updated(providers, [p \in {entry.id} |-> provider])

\* The entries of an overlay apply in order, each to what those before it have made.
ApplyEntries(providers, entries) ==
  LET after[n \in 0..Len(entries)] ==
        IF n = 0 THEN providers ELSE ApplyEntry(after[n - 1], entries[n])
  IN after[Len(entries)]

\* Aliases are kept in their normal form, what they stand for as it is spelt; an overlay
\* has one for each.
ByNormalName(aliases) ==
  [name \in {NormalName(a) : a \in DOMAIN aliases} |->
     aliases[CHOOSE a \in DOMAIN aliases : NormalName(a) = name]]

\* Later aliases and roles replace earlier ones.
ApplyOverlay(catalog, overlay) ==
  [providers |-> ApplyEntries(catalog.providers, overlay.entries),
   aliases |-> Updated(catalog.aliases, ByNormalName(overlay.aliases)),
   roles |-> Updated(catalog.roles, overlay.roles)]

FromModelsDev(raw, overlays) ==
  LET after[n \in 0..Len(overlays)] ==
        IF n = 0 THEN [providers |-> FromRaw(raw), aliases |-> Empty, roles |-> Empty]
        ELSE ApplyOverlay(after[n - 1], overlays[n])
  IN after[Len(overlays)]

-----------------------------------------------------------------------------
(* Looking up.  An identifier is unknown (no result), found (one) or       *)
(* ambiguous (several).                                                    *)

Identifier(id) == id \in Seq(Range(id)) /\ id # <<>>

\* An identifier that starts with a provider's.
OfProvider(id) == Identifier(id) /\ Len(id) > 1

Qualified(model) == <<model.provider>> \o model.id

IsAlias(catalog, name) == NormalName(name) \in DOMAIN catalog.aliases

\* What an alias stands for; what is no alias stays as it was spelt.
Aliased(catalog, name) ==
  IF IsAlias(catalog, name) THEN catalog.aliases[NormalName(name)] ELSE name

\* Catalog.provider looks up the normal form, though providers are listed as they are
\* spelt.  An alias may name a model, whose provider is then meant.
ProvidersNamed(catalog, name) ==
  LET key == NormalName(name)
      resolved == Head(IF key \in DOMAIN catalog.aliases THEN catalog.aliases[key] ELSE key)
  IN IF resolved \in DOMAIN catalog.providers THEN {catalog.providers[resolved]} ELSE {}

ModelsUnder(providers, id) ==
  {p.models[id] : p \in {q \in providers : id \in DOMAIN q.models}}

AllModels(catalog) ==
  UNION {{catalog.providers[p].models[id] : id \in DOMAIN catalog.providers[p].models} :
           p \in DOMAIN catalog.providers}

\* Catalog.model: an id with several segments is taken as qualified, whatever the
\* provider asked for; a model's own segments are looked up as they are spelt.
ModelsNamed(catalog, name, provider) ==
  LET requested == Aliased(catalog, name)
  IN CASE Len(requested) > 1
            -> ModelsUnder(ProvidersNamed(catalog, <<Head(requested)>>), Tail(requested))
       [] Len(requested) = 1 /\ provider # None
            -> ModelsUnder(ProvidersNamed(catalog, <<provider>>), requested)
       [] OTHER -> {m \in AllModels(catalog) : m.id = requested}

-----------------------------------------------------------------------------
(* What a catalogue is for: a model can be asked for by its qualified id.   *)

\* Every provider is listed under its id and every model under the provider it says it
\* belongs to, and a model's qualified id finds it again - what the picker and every
\* plan rely on - unless its provider's id is not in normal form, or an alias is spelt
\* like one of the two.
WellFormed(catalog) ==
  \A p \in DOMAIN catalog.providers :
    LET models == catalog.providers[p].models
    IN /\ catalog.providers[p].id = p /\ p # None
       /\ \A id \in DOMAIN models :
            /\ models[id].provider = p /\ models[id].id = id
            /\ Normalized(p) = p /\ ~IsAlias(catalog, Qualified(models[id])) /\ ~IsAlias(catalog, <<p>>)
                 => ModelsNamed(catalog, Qualified(models[id]), None) = {models[id]}
=============================================================================
