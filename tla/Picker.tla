------------------------------- MODULE Picker -------------------------------
(***************************************************************************)
(* The selection controller (controller.py) under the keys of the terminal *)
(* picker (tui.py): browse providers, search, enter one, choose a model,   *)
(* set its modes and its credential profile, confirm.  The picker keeps    *)
(* what it read; meanwhile other processes sign in and out, enable,        *)
(* disable and probe, so the profile table changes under it.               *)
(*                                                                         *)
(* One action per key, and per call of an embedding surface that keys do   *)
(* not make.  Choosing a model or the next profile reads the table twice:  *)
(* once for the profile and once, in Derive, for how it bills.             *)
(* Positions count from 1.                                                 *)
(***************************************************************************)
EXTENDS Selection

CONSTANTS
  Catalog,         \* the catalogue, as FromModelsDev builds it
  ProviderOrder,   \* all providers: recommended, popular, then by name
  ModelOrder,      \* all models: recommended first, then by id
  Supported,       \* qualified ids of the models the application can run
  Letters,         \* what a key can type, besides a space
  Hits,            \* [query |-> the models and providers whose text it is part of]
  Defaults,        \* [variant, effort, tier, profile]: the application's defaults
  Rows,            \* the profile rows that may be in the table
  Limit            \* models listed at most

Controls == {"E", "V", "T", "P"}

Queries == DOMAIN Hits
Providers == DOMAIN Catalog.providers
Models == AllModels(Catalog)

\* Everything can be listed, and what is typed can be taken back.
ASSUME ListsAssumption ==
  /\ Limit \in Nat \ {0}
  /\ ProviderOrder \in Seq(Providers) /\ Range(ProviderOrder) = Providers
  /\ ModelOrder \in Seq(Models) /\ Range(ModelOrder) = Models
  /\ <<>> \in Queries /\ \A q \in Queries : q # <<>> => Front(q) \in Queries

\* The catalogue is as FromModelsDev builds it, its providers' ids are in normal form, and
\* no alias is spelt like a provider or a model: the code looks up by name what it has
\* listed.
ASSUME CatalogAssumption ==
  /\ WellFormed(Catalog)
  /\ \A p \in Providers : /\ Normalized(p) = p /\ ~IsAlias(Catalog, <<p>>)
                          /\ Catalog.providers[p].tiers \in Seq(Range(Catalog.providers[p].tiers))
  /\ None \notin Models
  /\ \A m \in Models : /\ Qualified(m) # None /\ ~IsAlias(Catalog, Qualified(m))
                       /\ m.variants \in Seq(Range(m.variants)) /\ m.efforts \in Seq(Range(m.efforts))
                       /\ m.tiers \in Seq(Range(m.tiers))

\* Profiles are in the order of their priorities and ids.
ASSUME RowsAssumption ==
  /\ None \notin Rows
  /\ \A x \in Rows : x.id # None /\ x.priority \in Int /\ ProfileRank[x.id] \in Int
  /\ \A x, y \in Rows : ProfileRank[x.id] = ProfileRank[y.id] => x.id = y.id

VARIABLES
  table,   \* the profile table
  ui,      \* what is shown: query, active, order, pcur, models, cur, focus, runnable
  pick,    \* what is chosen: model, variant, effort, tier, billing, profile
  error,   \* whether an error is shown
  step,    \* "key" (waiting for one), "derive", or "closed"
  plan     \* the plan handed over, as a set

pickerVars == <<table, ui, pick, error, step, plan>>

NoPick == [model |-> None, variant |-> None, effort |-> None, tier |-> None,
           billing |-> None, profile |-> None]

Position(seq, x) == SelectInSeq(seq, LAMBDA y : y = x)
Among(seq, S) == AtPlaces(seq, {n \in DOMAIN seq : seq[n] \in S})
ProviderModels(p) == Range(Catalog.providers[p].models)

-----------------------------------------------------------------------------
(* What the controller works out from the catalogue and the table.         *)

\* _matching_models: all of a provider's models if the query names the provider.
Matching(p, q) ==
  IF q = <<>> \/ <<p>> \in Hits[q] THEN ProviderModels(p)
  ELSE {m \in ProviderModels(p) : Qualified(m) \in Hits[q]}

Runnable(m) == Qualified(m) \in Supported

StateOf(p, rows) ==
  ProviderState(Catalog.providers[p], {m \in ProviderModels(p) : Runnable(m)}, Enabled(rows, p))

\* _provider_key: providers with matches first, and the ready before the rest.
Sorted(shown, q, rows) ==
  LET place(p) == (IF q = <<>> \/ Matching(p, q) # {} THEN 0 ELSE 3)
                    + [ready |-> 1, connect |-> 2, catalog |-> 3][StateOf(p, rows)]
      at(n) == Among(ProviderOrder, {p \in shown : place(p) = n})
  IN at(1) \o at(2) \o at(3) \o at(4) \o at(5) \o at(6)

\* _profiles_for
Profiles(p) ==
  LET ids == {x.id : x \in Enabled(table, p)}
      row(id) == CHOOSE x \in table : x.id = id
  IN SetToSortSeq(ids, LAMBDA a, b : Earlier(row(a), row(b)))

\* _options: what the chosen model offers.
Options(kind, m) ==
  CASE kind = "variant" -> m.variants
    [] kind = "effort" -> m.efforts
    [] kind = "tier" -> Tiers(Catalog.providers[m.provider], m)

\* Mutant: the application's default is set whether or not the model has it.
MutantDefault(kind, m) == Defaults[kind]

Default(kind, m) ==
  IF Defaults[kind] \in Range(Options(kind, m)) THEN Defaults[kind] ELSE None

\* _cycle
Cycled(current, options) ==
  IF options = <<>> THEN None
  ELSE options[(Position(options, current) % Len(options)) + 1]

-----------------------------------------------------------------------------
(* The helpers that move the view, from a view to a view.                  *)

\* Mutant: the cursor stays where it was when the list changes.
MutantRefreshModels(u, reset) ==
  [u EXCEPT !.models = IF u.active = None THEN <<>>
                       ELSE Among(ModelOrder, Matching(u.active, u.query))]

\* _refresh_models: the model under the cursor stays under it if it is still listed.
RefreshModels(u, reset) ==
  LET listed == Among(ModelOrder, {m \in Matching(u.active, u.query) : u.runnable => Runnable(m)})
      models == IF u.active = None THEN <<>> ELSE SubSeq(listed, 1, Min({Len(listed), Limit}))
      at == IF reset \/ u.models = <<>> THEN 0 ELSE Position(models, u.models[u.cur])
  IN [u EXCEPT !.models = models, !.cur = IF at = 0 THEN 1 ELSE at]

\* _refresh_providers: the active provider stays unless it is no longer shown, or a
\* search prefers one that matches.
RefreshProviders(u, preferFirst, rows) ==
  LET shown == {p \in Providers : u.runnable => StateOf(p, rows) # "catalog"}
      order == Sorted(shown, u.query, rows)
      stays == /\ u.active \in shown
               /\ ~(preferFirst /\ u.query # <<>> /\ Matching(u.active, u.query) = {})
      active == IF stays THEN u.active ELSE order[1]
  IN IF order = <<>> THEN [u EXCEPT !.order = order, !.active = None, !.pcur = 1, !.models = <<>>, !.cur = 1]
     ELSE [u EXCEPT !.order = order, !.active = active, !.pcur = Position(order, active)]

\* _set_active_provider, the view's part ...
SetActive(u, p) ==
  RefreshModels([u EXCEPT !.active = p,
                          !.pcur = IF p \in Range(u.order) THEN Position(u.order, p) ELSE @],
                u.active # p)

\* Mutant: moving to another provider keeps the selection.
MutantKeptPick(u, p) == pick

\* ... and the selection's: a model of another provider is no longer selected.
KeptPick(u, p) ==
  IF u.active # p /\ pick.model # None /\ pick.model.provider # p THEN NoPick ELSE pick

-----------------------------------------------------------------------------
(* The controller's calls.                                                 *)

Show(u, kept, failed) ==
  /\ ui' = u
  /\ pick' = kept
  /\ error' = failed

\* browse(provider, runnable_only), after _refresh_providers; provider None for the whole
\* list.
Browsed(provider, u) ==
  RefreshModels(IF provider = None THEN [u EXCEPT !.focus = "providers"]
                ELSE [SetActive(u, provider) EXCEPT !.focus = "models"], FALSE)

Browse(provider, runnable) ==
  \E u1 \in {RefreshProviders([ui EXCEPT !.query = <<>>, !.runnable = runnable], TRUE, table)} :
    Show(Browsed(provider, u1),
         IF provider = None THEN pick ELSE KeptPick(u1, provider), FALSE)

\* search(query, provider): a new query drops the selection.
Search(q) ==
  \E u1 \in {RefreshProviders([ui EXCEPT !.query = q], q # <<>>, table)} :
  \E u2 \in {RefreshModels(u1, FALSE)} :
    Show(u2, IF q # ui.query THEN NoPick ELSE pick,
         /\ q # <<>>
         /\ \/ \A p \in Providers : Matching(p, q) = {}
            \/ u2.focus = "models" /\ u2.models = <<>>)

SearchIn(q, p) ==
  \E u1 \in {RefreshProviders([ui EXCEPT !.query = q, !.runnable = FALSE], FALSE, table)} :
  \E u2 \in {[SetActive(u1, p) EXCEPT !.focus = "models"]} :
    Show(u2, IF q # ui.query THEN NoPick ELSE KeptPick(u1, p), q # <<>> /\ u2.models = <<>>)

Wrapped(at, delta, n) == ((at - 1 + delta) % n) + 1

MoveProvider(delta) ==
  LET at == Wrapped(ui.pcur, delta, Len(ui.order))
      p == ui.order[at]
  IN IF ui.order = <<>> THEN UNCHANGED <<ui, pick, error>>
     ELSE Show(SetActive([ui EXCEPT !.pcur = at], p), KeptPick(ui, p), FALSE)

MoveModel(delta) ==
  Show(IF ui.models = <<>> THEN ui ELSE [ui EXCEPT !.cur = Wrapped(@, delta, Len(ui.models))],
       pick, FALSE)

ActivateProvider ==
  /\ ui.order # <<>>
  /\ Show([ui EXCEPT !.focus = "models"], pick, ui.models = <<>>)

FocusProviders == Show([ui EXCEPT !.focus = "providers"], pick, FALSE)

\* choose: the modes are the application's defaults where the model has them; the
\* profile is its default, or the only one there is.
Choose(m) ==
  LET ids == Profiles(m.provider)
      profile == CASE Defaults.profile \in Range(ids) -> Defaults.profile
                   [] Defaults.profile \notin Range(ids) /\ Len(ids) = 1 -> ids[1]
                   [] OTHER -> None
  IN /\ pick' = [model |-> m, variant |-> Default("variant", m), effort |-> Default("effort", m),
                 tier |-> Default("tier", m), billing |-> pick.billing, profile |-> profile]
     /\ step' = "derive"

\* _derive_access_route, the second reading of the table.
Derive ==
  /\ step = "derive"
  /\ LET shown == {x \in Enabled(table, pick.model.provider) : x.id = pick.profile}
     IN pick' = [pick EXCEPT !.billing = IF shown = {} THEN None ELSE (CHOOSE x \in shown : TRUE).billing]
  /\ step' = "key"
  /\ UNCHANGED <<table, ui, error, plan>>

Intent ==
  [model |-> Qualified(pick.model), provider |-> None, role |-> None, query |-> None, needs |-> {},
   variant |-> pick.variant, effort |-> pick.effort, tier |-> pick.tier,
   profile |-> pick.profile, billing |-> pick.billing]

\* resolve: the plan, none if the application cannot run the model or the selector
\* refuses it.
Resolved == IF Runnable(pick.model) THEN Plans(Catalog, table, Intent) ELSE {}

-----------------------------------------------------------------------------
(* Keys (handle_key).                                                      *)

Waiting == step = "key"
Nothing == UNCHANGED <<table, step, plan>>

Quit == step' = "closed" /\ UNCHANGED <<table, ui, pick, error, plan>>

CtrlC == Waiting /\ Quit

Arrow(delta) ==
  /\ Waiting
  /\ IF ui.focus = "providers" THEN MoveProvider(delta) ELSE MoveModel(delta)
  /\ Nothing

\* Right, Tab, and Enter on a provider.  With none listed, activate_provider raises a
\* ValueError that nobody catches (neither tui.py nor its cli.py): the picker is gone,
\* without a plan.
Enter ==
  /\ Waiting /\ ui.focus = "providers"
  /\ \/ ActivateProvider /\ Nothing
     \/ ui.order = <<>> /\ Quit

Left == Waiting /\ ui.focus = "models" /\ FocusProviders /\ Nothing

\* _apply_query: within the active provider once it has been entered.
ApplyQuery(q) ==
  IF ui.focus = "models" /\ ui.active # None THEN SearchIn(q, ui.active) ELSE Search(q)

Escape ==
  /\ Waiting
  /\ \/ ui.query # <<>> /\ ApplyQuery(<<>>) /\ Nothing
     \/ ui.query = <<>> /\ ui.focus = "models" /\ FocusProviders /\ Nothing
     \/ ui.query = <<>> /\ ui.focus = "providers" /\ Quit

Backspace == Waiting /\ ui.query # <<>> /\ ApplyQuery(Front(ui.query)) /\ Nothing

\* A character; search strips the query, so a space at its end is gone at once.
Type(key) ==
  /\ Waiting
  /\ key \in Controls => pick.model = None
  /\ LET q == IF key = "space" THEN ui.query ELSE Append(ui.query, key)
     IN q \in Queries /\ ApplyQuery(q)
  /\ Nothing

\* Shift-E, V, T once a model is selected.
CycleMode(kind) ==
  /\ Waiting
  /\ pick.model # None
  /\ pick' = [pick EXCEPT ![kind] = Cycled(@, Options(kind, pick.model))]
  /\ UNCHANGED <<ui, error>> /\ Nothing

\* Shift-P
CycleProfile ==
  /\ Waiting
  /\ pick.model # None
  /\ pick' = [pick EXCEPT !.profile = Cycled(@, Profiles(pick.model.provider))]
  /\ step' = "derive"
  /\ UNCHANGED <<table, ui, error, plan>>

\* Enter on a model selects it ...
EnterModel ==
  /\ Waiting /\ ui.focus = "models" /\ ui.models # <<>>
  /\ pick.model # ui.models[ui.cur]
  /\ Choose(ui.models[ui.cur])
  /\ error' = FALSE
  /\ UNCHANGED <<table, ui, plan>>

\* ... and once more confirms it.
Confirm ==
  /\ Waiting /\ ui.focus = "models" /\ ui.models # <<>>
  /\ pick.model = ui.models[ui.cur]
  /\ plan' = Resolved
  /\ error' = (Resolved = {})
  /\ step' = IF Resolved = {} THEN "key" ELSE "closed"
  /\ UNCHANGED <<table, ui, pick>>

\* A surface of an application's own narrows or resets the list.
Narrow(provider, runnable) == Waiting /\ Browse(provider, runnable) /\ Nothing

-----------------------------------------------------------------------------
(* Other processes.                                                        *)

\* ProfileRegistry.upsert: a sign-in, enable, disable, probe or edit.
Upsert(x) ==
  /\ table' = {y \in table : y.id # x.id} \cup {x}
  /\ UNCHANGED <<ui, pick, error, step, plan>>

Delete(id) ==
  /\ table' = {y \in table : y.id # id}
  /\ UNCHANGED <<ui, pick, error, step, plan>>

Key ==
  \/ CtrlC \/ Enter \/ Left \/ Escape \/ Backspace
  \/ \E delta \in {-1, 1} : Arrow(delta)
  \/ \E key \in Letters \cup {"space"} : Type(key)
  \/ \E kind \in {"variant", "effort", "tier"} : CycleMode(kind)
  \/ CycleProfile \/ EnterModel \/ Confirm

Others ==
  /\ step # "closed"
  /\ \/ \E x \in Rows \ table : Upsert(x)
     \/ \E x \in table : Delete(x.id)

PickerNext ==
  \/ Key \/ Derive \/ Others
  \/ \E provider \in Providers \cup {None}, runnable \in BOOLEAN : Narrow(provider, runnable)

Start ==
  [query |-> <<>>, active |-> None, order |-> <<>>, pcur |-> 1, models |-> <<>>, cur |-> 1,
   focus |-> "providers", runnable |-> FALSE]

\* The id is the table's primary key.
Keyed(S) == IsFiniteSet(S) /\ \A x, y \in S : x.id = y.id => x = y

PickerInit ==
  /\ table \in {S \in SUBSET Rows : Keyed(S)}
  /\ ui = Browsed(None, RefreshProviders(Start, TRUE, table))
  /\ pick = NoPick
  /\ error = FALSE
  /\ step = "key"
  /\ plan = {}

PickerSpec == PickerInit /\ [][PickerNext]_pickerVars

-----------------------------------------------------------------------------
(* What the picker promises.                                               *)

Modes == {"variant", "effort", "tier"}

Views ==
  [query : Queries, active : Providers \cup {None}, order : Seq(Providers), pcur : Nat,
   models : Seq(Models), cur : Nat, focus : {"providers", "models"}, runnable : BOOLEAN]

PickerTypeOK ==
  /\ table \subseteq Rows /\ Keyed(table)
  /\ ui \in Views
  /\ DOMAIN pick = DOMAIN NoPick
  /\ pick.model \in Models \cup {None}
  /\ error \in BOOLEAN
  /\ step \in {"key", "derive", "closed"}
  /\ IsFiniteSet(plan) /\ Cardinality(plan) <= 1

\* The highlighted provider is the active one, unless that is not in the list.
HighlightIsActive ==
  /\ ui.pcur \in 1..Len(ui.order) \/ ui.pcur = 1
  /\ ui.active \in Range(ui.order) => ui.order[ui.pcur] = ui.active

\* The models listed are the active provider's, and match the query.
ListIsActive ==
  /\ ui.cur \in 1..Len(ui.models) \/ ui.cur = 1
  /\ ui.models # <<>> => ui.active # None /\ Range(ui.models) \subseteq Matching(ui.active, ui.query)

ModesOfModel ==
  IF pick.model = None THEN pick = NoPick
  ELSE \A kind \in Modes : pick[kind] \in Range(Options(kind, pick.model)) \cup {None}

\* A mode is derived only for a choice; a choice without a profile names no way to pay,
\* and is listed under its own provider whatever is searched for.
ChoiceSettled ==
  /\ step = "derive" => pick.model # None
  /\ step = "key" /\ pick.profile = None => pick.billing = None
  /\ pick.model # None => pick.model \in Matching(pick.model.provider, ui.query)

\* Whatever keys were pressed in whatever order, and whatever happened to the profile
\* table: both cursors are on something, what is listed belongs to what is
\* highlighted, and only modes the chosen model has are set.
PickerInv == PickerTypeOK /\ HighlightIsActive /\ ListIsActive /\ ModesOfModel /\ ChoiceSettled

\* The choice is of another provider's model than the one shown.
Stray == pick.model # None /\ pick.model.provider # ui.active

\* Moving to another provider never leaves behind, out of sight, the choice of a model
\* of the one before - except that narrowing the list to what the application can run
\* may take the provider, not the choice, away.
ChoiceFollows == [][Stray' => Stray \/ ui'.runnable]_pickerVars

\* A plan is for the model and the modes on the screen and for a model the application
\* can run; it names a profile that is enabled when the plan is made, the one on the
\* screen if there is one; and it bills as the screen said - if the screen named no
\* profile, then there is only one way to be billed.  However often the table changed
\* since the profile was chosen.
PlanAsShown ==
  [][\A x \in plan' \ plan :
       /\ x.model = Qualified(pick.model) /\ x.model \in Supported
       /\ \A kind \in Modes : x[kind] = pick[kind]
       /\ pick.profile # None => x.profile = pick.profile
       /\ pick.billing # None => x.billing = pick.billing
       /\ LET able == Enabled(table, pick.model.provider)
          IN IF x.profile = None THEN able = {}
             ELSE /\ \E y \in able : y.id = x.profile /\ y.billing = x.billing
                  /\ pick.profile = None => \A y \in able : y.billing = x.billing]_pickerVars

\* SelectionView.route_ready
RouteReady ==
  /\ pick.model # None /\ step = "key" /\ ~error
  /\ Runnable(pick.model)
  /\ RequiresAuth(Catalog.providers[pick.model.provider]) => pick.profile # None

\* The table still says of the chosen profile what the screen says, and the provider
\* declares its kind; without a chosen profile, there is one way to be billed.
ShownStillTrue ==
  LET able == Enabled(table, pick.model.provider)
      provider == Catalog.providers[pick.model.provider]
  IN IF pick.profile = None
     THEN Cardinality({x.billing : x \in able}) <= 1 /\ \A x \in able : Declared(provider, x)
     ELSE \E x \in able : x.id = pick.profile /\ x.billing = pick.billing /\ Declared(provider, x)

\* A correction may give efforts to a model that does not declare reasoning: they are
\* offered, and the selector refuses them.
EffortReasoned == pick.effort # None => pick.model.reasoning

\* "Ready" is kept: while the screen says that everything needed is there, and the table
\* has not moved away from what it shows, confirming yields a plan.  The controller
\* and the selector apply rules of their own to modes, profiles and billing.
ReadyResolves == RouteReady /\ ShownStillTrue /\ EffortReasoned => Resolved # {}

-----------------------------------------------------------------------------
(* What holds between the two that choose who pays.                        *)

Kinds == {x.billing : x \in Rows} \cup {None}

\* Whatever else is enabled, for every provider and billing kind, with the provider's
\* environment variables set or not: the profile that the selector names is the one the
\* broker takes.  Where the selector refuses, the broker may still take one (Agree).
SelectorAndBrokerAgree ==
  \A p \in Providers, kind \in Kinds : \A environ \in {{}, Catalog.providers[p].env} :
    Agree(Catalog, table, environ, p, kind)
=============================================================================
