------------------------------- MODULE Accounts -------------------------------
(***************************************************************************)
(* The profile table and the secret stores as several processes use them:  *)
(* signing in by every driver (login.py, oauth_login.py), promoting an     *)
(* environment value, signing out, enabling and disabling, the command     *)
(* line's profile commands (cli.py), and CredentialBroker's lease and      *)
(* refresh sweep (broker.py), down to AuthBroker.lease (auth.py).          *)
(*                                                                         *)
(* A process does one thing at a time and may end anywhere.  The table and *)
(* the keyring are shared; a memory store ends with its process.  Reading  *)
(* a row and its secret is one step, and so is a refresh under its lease:  *)
(* CredentialRefresh takes those apart.                                    *)
(***************************************************************************)
EXTENDS Selection

CONSTANTS
  Catalog,        \* the normalised catalogue
  Procs,          \* processes
  Does,           \* [process |-> the Operations it performs]
  Keyring,        \* the processes that have the keyring registered
  Candidates,     \* [provider |-> sign-ins of other tools that can be reused]
  Environ,        \* the environment variables that are set
  Refreshable,    \* providers with a refresh driver
  HandMade,       \* rows "profile add" writes
  Requests,       \* what a lease is asked for
  Registered,     \* the drivers an application registers, of those there are
  AskedDrivers,   \* the drivers a caller asks for by name
  AskedStores,    \* the stores a caller asks for
  MaxMaterials,   \* bound on the secrets ever stored
  MaxRows         \* bound on the rows of the table

Operations == {"sign_in", "promote", "sign_out", "switch", "profile", "sweep", "lease"}

ASSUME AccountsAssumption ==
  /\ Does \in [Procs -> SUBSET Operations]
  /\ Keyring \subseteq Procs
  /\ MaxMaterials \in Nat \ {0} /\ MaxRows \in Nat \ {0}
  /\ \A x \in HandMade : x.auth \in {"anonymous", "delegated"} \/ x.ref # None

VARIABLES
  table,      \* the rows of credential_profiles
  secrets,    \* what the stores hold: [at, ref, n, age]
  stored,     \* how many secrets were stored; n numbers them
  job         \* job[p]: what p is doing

vars == <<table, secrets, stored, job>>

\* age: "lasting" has no expiry; "due" expires within the broker's skew of 300 seconds,
\* "expired" within the 60 seconds at which AuthBroker.lease refreshes by itself.
\* session: the sign-in begun; row: in hand, to write or to forget; todo: the profiles
\* still to refresh; asked: a lease's request and the row chosen for it; lent: what it
\* handed out; owed: the materials that were due when the sweep began, of profiles nobody
\* wrote to since.
Idle == [pc |-> "idle", session |-> None, row |-> None, todo |-> <<>>,
         asked |-> None, lent |-> None, owed |-> {}]

Init ==
  /\ table = {}
  /\ secrets = {}
  /\ stored = 0
  /\ job = [p \in Procs |-> Idle]

May(p, operation) == operation \in Does[p] /\ job[p] = Idle
At(p, pc) == job[p].pc = pc
Become(p, j) == job' = [job EXCEPT ![p] = j]
Goto(p, pc) == Become(p, [job[p] EXCEPT !.pc = pc])
Done(p) == Become(p, Idle)
Held == <<table, secrets, stored>>

-----------------------------------------------------------------------------
(* The table and the stores.                                               *)

\* p is done, having replaced the row of profile id by rows; a sweep that listed
\* the profile before is no longer answerable for it.
Write(p, id, rows) ==
  /\ table' = {x \in table : x.id # id} \cup rows
  /\ job' = [q \in Procs |->
               IF q = p THEN Idle
               ELSE [job[q] EXCEPT !.owed = {o \in @ : o.id # id}]]

Upsert(p, x) == Write(p, x.id, {x}) /\ Cardinality(table') <= MaxRows

EnabledRow(id) == {x \in table : x.id = id /\ x.enabled}

\* LoginBroker.stores and AuthBroker.stores of process p.
LoginStores(p) == {"memory"} \cup (IF p \in Keyring THEN {"keyring"} ELSE {})
AuthStores(p) == LoginStores(p) \cup {"environment"}

Place(p, store) == IF store = "memory" THEN p ELSE store

\* Setting a secret replaces the one under the same reference.
Kept(place, ref) == {s \in secrets : s.at # place \/ s.ref # ref}

Put(place, ref, age) ==
  /\ stored < MaxMaterials
  /\ stored' = stored + 1
  /\ secrets' = Kept(place, ref) \cup {[at |-> place, ref |-> ref, n |-> stored + 1, age |-> age]}

InEnvironment == {r \in Range(Catalog.providers) : r.env # {} /\ r.env \subseteq Environ}

\* What the store of row x gives p: nothing if the store raises or is not registered.
Material(p, x) ==
  LET store == Given(x.store, "keyring")
  IN CASE store \notin AuthStores(p) -> {}
       [] store = "environment" -> {[n |-> 0, age |-> "lasting"] :
                                    q \in {r \in InEnvironment : EnvironmentProfile(r).id = x.ref}}
       [] OTHER -> {[n |-> s.n, age |-> s.age] :
                      s \in {t \in secrets : t.at = Place(p, store) /\ t.ref = x.ref}}

Due(m) == m.age \in {"due", "expired"}

-----------------------------------------------------------------------------
(* Signing in.                                                             *)

ClientDrivers == {"oauth_pkce", "oauth_device"}
Drivers == ClientDrivers \cup {"api_key_paste", "credential_bundle_paste", "delegated_import"}

Permits(route) == route.posture = "third_party_permitted"

\* A route may declare any driver, also one that is not registered.
PermittedDrivers(route) ==
  IF ~NeedsCredential(route) THEN {}
  ELSE {"delegated_import"} \cup ({route.driver} \ (ClientDrivers \cup {None}))
         \cup (IF Permits(route) THEN ClientDrivers ELSE {})

OfferedDrivers(route) == PermittedDrivers(route) \cap Registered

\* Other tools sign in and out at any time: what may be found of their sign-ins.
Reusable(provider) == IF provider.id \in DOMAIN Candidates THEN Candidates[provider.id] ELSE {}

Findings(provider) == SUBSET Reusable(provider)

Delegated ==
  [id |-> "delegated", kind |-> "delegated", billing |-> "subscription",
   posture |-> "unverified", env |-> {}, driver |-> "delegated_import"]

\* An existing sign-in comes first, unless the catalogue declares such a route itself.
RoutesFor(provider, present) ==
  LET declared == AccessRoutes(provider)
  IN IF present = {} \/ \E r \in Range(declared) : r.kind = "delegated"
     THEN declared ELSE <<Delegated>> \o declared

\* The first of the routes that is meant, as a set.
FirstOf(routes, Meets(_)) ==
  {routes[i] : i \in {j \in DOMAIN routes : /\ Meets(routes[j])
                                           /\ \A k \in DOMAIN routes : k < j => ~Meets(routes[k])}}

\* The route meant: by its id or kind, else the first to need a credential, if one does.
RouteFor(provider, present, wanted) ==
  LET routes == RoutesFor(provider, present)
  IN IF wanted # None THEN FirstOf(routes, LAMBDA r : wanted \in {r.id, r.kind})
     ELSE IF \E r \in Range(routes) : NeedsCredential(r) THEN FirstOf(routes, NeedsCredential)
     ELSE FirstOf(routes, LAMBDA r : TRUE)

\* Mutant: a client driver is used on whatever route it is asked for.
MutantDriverFor(route, requested) == {d \in Registered : d = Given(requested, route.driver)}

DriverFor(route, requested) ==
  {d \in Registered : d = Given(requested, route.driver) /\ (d \in ClientDrivers => Permits(route))}

\* Delegated import begins only if there is something to choose from.
Begin(p) ==
  /\ May(p, "sign_in")
  /\ \E provider \in Range(Catalog.providers) : \E present \in Findings(provider) :
     \E wanted \in {None} \cup {r.id : r \in Range(RoutesFor(provider, present))} :
     \E route \in RouteFor(provider, present, wanted), requested \in {None} \cup AskedDrivers :
     \E driver \in DriverFor(route, requested) :
       LET choices == IF driver = "delegated_import" THEN present ELSE {}
       IN /\ driver = "delegated_import" => choices # {}
          /\ Become(p, [Idle EXCEPT !.pc = "prompt",
                          !.session = [provider |-> provider.id, route |-> route,
                                       driver |-> driver, choices |-> choices]])
  /\ UNCHANGED Held

\* The row of a credential kept in a store, under the reference of its route.
Keyed(provider, route, auth, store) ==
  [id |-> <<provider, route.id>>, provider |-> provider, auth |-> auth,
   billing |-> route.billing, priority |-> 100, enabled |-> TRUE, probe |-> None,
   store |-> store, ref |-> <<provider, route.id>>]

\* The secret is stored; the row is in hand.
Keep(p, x, age) ==
  /\ Put(Place(p, x.store), x.ref, age)
  /\ Become(p, [Idle EXCEPT !.pc = "record", !.row = x])
  /\ UNCHANGED table

\* A pasted key or bundle goes by the route's kind and never expires.
Paste(p, store) ==
  LET s == job[p].session
  IN /\ At(p, "prompt")
     /\ s.driver \in {"api_key_paste", "credential_bundle_paste"}
     /\ Keep(p, Keyed(s.provider, s.route, s.route.kind, store), "lasting")

\* The browser or device sign-in went through.
Approve(p, store) ==
  LET s == job[p].session
  IN /\ At(p, "prompt")
     /\ s.driver \in ClientDrivers
     /\ Keep(p, Keyed(s.provider, s.route, "oauth", store), "fresh")

\* A tool's sign-in is pointed to and not copied.
Choose(p) ==
  LET s == job[p].session
  IN /\ At(p, "prompt")
     /\ \E choice \in s.choices :
          Become(p, [Idle EXCEPT !.pc = "record",
                       !.row = [Keyed(s.provider, s.route, "delegated", None)
                                  EXCEPT !.id = <<s.provider, choice>>, !.ref = None]])
     /\ UNCHANGED Held

\* The response was refused, or the store is not there: the session is given up.
GiveUp(p) == At(p, "prompt") /\ Done(p) /\ UNCHANGED Held

\* The profile of the sign-in, or of a promoted value, is recorded.
Record(p) ==
  /\ At(p, "record")
  /\ Upsert(p, job[p].row)
  /\ UNCHANGED <<secrets, stored>>

\* The first declared route that names variables, if they are all set.
Promote(p, store) ==
  /\ May(p, "promote")
  /\ \E provider \in Range(Catalog.providers) :
       \E route \in FirstOf(AccessRoutes(provider), LAMBDA r : r.env # {}) :
         /\ route.env \subseteq Environ
         /\ Keep(p, Keyed(provider.id, route, route.kind, store), "lasting")

-----------------------------------------------------------------------------
(* Signing out, switching on and off, and the command line's own edits.    *)

ReadRow(p, operation, pc) ==
  /\ May(p, operation)
  /\ \E x \in table : Become(p, [Idle EXCEPT !.pc = pc, !.row = x])
  /\ UNCHANGED Held

\* A store that is not registered, or that raises, does not stop the sign-out.
Forget(p) ==
  LET x == job[p].row
  IN /\ At(p, "forget")
     /\ secrets' \in {secrets} \cup
          (IF x.store \in LoginStores(p) THEN {Kept(Place(p, x.store), x.ref)} ELSE {})
     /\ Goto(p, "erase")
     /\ UNCHANGED <<table, stored>>

Erase(p) ==
  /\ At(p, "erase")
  /\ Write(p, job[p].row.id, {})
  /\ UNCHANGED <<secrets, stored>>

\* _set_enabled writes back the row it read.
SetEnabled(p) ==
  /\ At(p, "set")
  /\ \E on \in BOOLEAN : Upsert(p, [job[p].row EXCEPT !.enabled = on])
  /\ UNCHANGED <<secrets, stored>>

\* "profile discover --save": the row of a provider whose variables are all set; the id
\* stands for the list of variables it refers to.
Discovered ==
  {[id |-> x.id, provider |-> x.provider, auth |-> x.auth, billing |-> x.billing,
    priority |-> x.priority, enabled |-> x.enabled, probe |-> x.probe,
    store |-> "environment", ref |-> x.id] : x \in {EnvironmentProfile(q) : q \in InEnvironment}}

\* "profile add", or one row of "profile discover --save".
AddProfile(p) ==
  /\ May(p, "profile")
  /\ \E x \in HandMade \cup Discovered : Upsert(p, x)
  /\ UNCHANGED <<secrets, stored>>

\* "profile remove" leaves the secret where it is.
RemoveProfile(p) ==
  /\ May(p, "profile")
  /\ \E x \in table : Write(p, x.id, {})
  /\ UNCHANGED <<secrets, stored>>

-----------------------------------------------------------------------------
(* Refreshing: for a lease the one profile chosen, in a sweep every profile *)
(* listed as enabled, in order; the first that raises ends the call.       *)

\* Mutant: the sweep goes on with the next profile when one cannot be refreshed.
MutantRaised(p) ==
  /\ Become(p, IF Len(job[p].todo) = 1 THEN [job[p] EXCEPT !.pc = "swept"]
               ELSE [job[p] EXCEPT !.pc = "refresh", !.todo = Tail(@)])
  /\ UNCHANGED Held

Raised(p) == Done(p) /\ UNCHANGED Held

\* Refreshed, or nothing to refresh.
Passed(p) ==
  Become(p, CASE job[p].asked # None -> [job[p] EXCEPT !.pc = "take"]
              [] job[p].asked = None /\ Len(job[p].todo) > 1
                   -> [job[p] EXCEPT !.pc = "refresh", !.todo = Tail(@)]
              [] OTHER -> [job[p] EXCEPT !.pc = "swept", !.todo = <<>>])

\* What p would refresh of the rows listed.
DueOf(p, listed) ==
  UNION {{[id |-> x.id, n |-> m.n] : m \in {k \in Material(p, x) : Due(k)}} :
           x \in {y \in listed : y.auth = "oauth"}}

BeginSweep(p) ==
  LET listed == {x \in table : x.enabled}
  IN /\ May(p, "sweep")
     /\ \E rows \in SeqOf(listed, MaxRows) :
          /\ Range(rows) = listed
          /\ \A i, j \in DOMAIN rows : i < j => Earlier(rows[i], rows[j])
          /\ Become(p, [Idle EXCEPT !.pc = IF rows = <<>> THEN "swept" ELSE "refresh",
                          !.todo = [i \in DOMAIN rows |-> rows[i].id],
                          !.owed = DueOf(p, listed)])
     /\ UNCHANGED Held

\* The row is read anew.  Only OAuth material that expires within the skew is refreshed.
EnterRefresh(p) ==
  LET rows == EnabledRow(Head(job[p].todo))
  IN /\ At(p, "refresh")
     /\ \/ \E x \in rows :
             /\ x.auth # "oauth" \/ \E m \in Material(p, x) : ~Due(m)
             /\ Passed(p) /\ UNCHANGED Held
        \/ \E x \in rows, m \in UNION {Material(p, y) : y \in rows} :
             /\ x.auth = "oauth" /\ Due(m) /\ x.provider \in Refreshable
             /\ Become(p, [job[p] EXCEPT !.pc = "renew", !.row = x])
             /\ UNCHANGED Held
        \/ /\ \A x \in rows : /\ x.auth = "oauth"
                             /\ \A m \in Material(p, x) : Due(m) /\ x.provider \notin Refreshable
           /\ Raised(p)

\* The secret of row x is replaced by a fresh one.
Replace(p, x) == Put(Place(p, Given(x.store, "keyring")), x.ref, "fresh")

\* Under the lease, whoever held it before may have refreshed already; the provider
\* may refuse, and the lease may not be had in time.
Renew(p) ==
  LET x == job[p].row
  IN /\ At(p, "renew")
     /\ \/ (\E m \in Material(p, x) : ~Due(m)) /\ Passed(p) /\ UNCHANGED Held
        \/ /\ \E m \in Material(p, x) : Due(m)
           /\ Replace(p, x)
           /\ Passed(p)
           /\ UNCHANGED table
        \/ Raised(p)

EndSweep(p) == At(p, "swept") /\ Done(p) /\ UNCHANGED Held

-----------------------------------------------------------------------------
(* Leasing a credential.                                                   *)

Lend(p, x, age) ==
  Become(p, [job[p] EXCEPT !.pc = "using", !.row = None, !.todo = <<>>,
               !.lent = [row |-> x, age |-> age]])

\* What is not in the table is handed out at once: what is supplied with the call however
\* old it is, what is found in the environment has no expiry.
BeginLease(p) ==
  /\ May(p, "lease")
  /\ \E request \in Requests : \E chosen \in Resolve(Catalog, table, Environ, request) :
       LET x == chosen.profile
           age == IF chosen.source = "runtime" THEN request.runtime.age ELSE "lasting"
           asking == [Idle EXCEPT !.asked = [request |-> request, chosen |-> x]]
       IN Become(p, IF chosen.source \in {"runtime", "environment"}
                    THEN [asking EXCEPT !.pc = "using", !.lent = [row |-> x, age |-> age]]
                    ELSE [asking EXCEPT !.pc = "refresh", !.todo = <<x.id>>])
  /\ UNCHANGED Held

\* Mutant: the row is read again but not its flag.
MutantStillEnabled(id) == {x \in table : x.id = id}

StillEnabled(id) == EnabledRow(id)

\* AuthBroker.lease reads the row once more and refreshes what has expired by now.
Take(p) ==
  LET rows == StillEnabled(Head(job[p].todo))
      keyless == {x \in rows : x.auth \in {"anonymous", "delegated"}}
      stale(x, m) == x.auth = "oauth" /\ m.age = "expired"
  IN /\ At(p, "take")
     /\ \/ (\E x \in keyless : Lend(p, x, "lasting")) /\ UNCHANGED Held
        \/ /\ \E x \in rows \ keyless : \E m \in Material(p, x) : ~stale(x, m) /\ Lend(p, x, m.age)
           /\ UNCHANGED Held
        \/ \E x \in rows \ keyless : \E m \in Material(p, x) :
             /\ stale(x, m) /\ x.provider \in Refreshable
             /\ Replace(p, x)
             /\ Lend(p, x, "fresh")
             /\ UNCHANGED table
        \/ /\ \A x \in rows : x \notin keyless /\ \A m \in Material(p, x) : stale(x, m)
           /\ Raised(p)

\* The lease closes: its copy of the material is wiped.
GiveBack(p) == At(p, "using") /\ Done(p) /\ UNCHANGED Held

-----------------------------------------------------------------------------
(* What happens by itself.                                                 *)

\* A process ends, and what was in its memory with it.
Exit(p) ==
  /\ secrets' = {s \in secrets : s.at # p}
  /\ Done(p)
  /\ UNCHANGED <<table, stored>>

\* Time passes for a secret that expires.
Grow ==
  /\ \E s \in secrets :
       /\ s.age \in {"fresh", "due"}
       /\ secrets' = (secrets \ {s}) \cup
            {[s EXCEPT !.age = IF s.age = "fresh" THEN "due" ELSE "expired"]}
  /\ UNCHANGED <<table, stored, job>>

SignIn(p) ==
  \/ Begin(p) \/ Choose(p) \/ GiveUp(p) \/ Record(p)
  \/ \E store \in LoginStores(p) \cap AskedStores :
       Paste(p, store) \/ Approve(p, store) \/ Promote(p, store)

Step(p) ==
  \/ SignIn(p)
  \/ ReadRow(p, "sign_out", "forget") \/ Forget(p) \/ Erase(p)
  \/ ReadRow(p, "switch", "set") \/ SetEnabled(p)
  \/ AddProfile(p) \/ RemoveProfile(p)
  \/ BeginSweep(p) \/ EnterRefresh(p) \/ Renew(p) \/ EndSweep(p)
  \/ BeginLease(p) \/ Take(p) \/ GiveBack(p)
  \/ Exit(p)

Next == (\E p \in Procs : Step(p)) \/ Grow

Spec == Init /\ [][Next]_vars

-----------------------------------------------------------------------------
(* Properties.                                                             *)

Ids == DOMAIN ProfileRank
Ages == {"lasting", "fresh", "due", "expired"}
BillingKinds == {"api", "subscription", "marketplace", "local", "unknown"}

Rows == [id : Ids, provider : DOMAIN Catalog.providers, auth : DOMAIN DefaultDriver,
         billing : BillingKinds, priority : Int, enabled : BOOLEAN,
         probe : {None}, store : {None, "memory", "keyring", "environment"},
         ref : {None} \cup Ids]

\* Profiles that are in no table.
Supplied == {RuntimeProfile(request) : request \in {r \in Requests : r.runtime # None}}
              \cup {EnvironmentProfile(provider) : provider \in InEnvironment}

\* What profiles of a provider are named after.
Names(provider) ==
  {r.id : r \in Range(AccessRoutes(provider))} \cup Reusable(provider)
    \cup (IF Reusable(provider) = {} THEN {} ELSE {Delegated.id})

\* The catalogue lists providers under their ids, which are in normal form and no alias,
\* with routes of the kinds there are; and every profile that can be written has its
\* place in the order of ids.
ASSUME CatalogAssumption ==
  /\ None \notin Drivers /\ Registered \subseteq Drivers
  /\ HandMade \subseteq Rows
  /\ None \notin Ids
  /\ \A id \in Ids : ProfileRank[id] \in Int
  /\ \A request \in Requests : request.runtime # None => request.runtime.age \in Ages
  /\ \A id \in DOMAIN Catalog.providers :
       Catalog.providers[id].id = id /\ Normalized(id) = id /\ ~IsAlias(Catalog, <<id>>)
  /\ \A provider \in InEnvironment : EnvironmentProfile(provider).id \in Ids
  /\ \A provider \in Range(Catalog.providers) :
       /\ \A name \in Names(provider) : <<provider.id, name>> \in Ids
       /\ AccessRoutes(provider) \in Seq(Range(AccessRoutes(provider)))
       /\ \A route \in Range(AccessRoutes(provider)) :
            /\ route.kind \in DOMAIN DefaultDriver
            /\ route.billing \in BillingKinds

Sessions ==
  [provider : DOMAIN Catalog.providers,
   route : {Delegated} \cup UNION {Range(AccessRoutes(q)) : q \in Range(Catalog.providers)},
   driver : Drivers,
   choices : SUBSET UNION {Reusable(q) : q \in Range(Catalog.providers)}]

Jobs ==
  [pc : {"idle", "prompt", "record", "forget", "erase", "set", "refresh", "renew", "swept",
         "take", "using"},
   session : Sessions \cup {None}, row : Rows \cup {None}, todo : Seq(Ids),
   asked : [request : Requests, chosen : Rows \cup Supplied] \cup {None},
   lent : [row : Rows \cup Supplied, age : Ages] \cup {None},
   owed : SUBSET [id : Ids, n : Nat]]

TypeOK ==
  /\ table \subseteq Rows
  /\ stored \in 0..MaxMaterials
  /\ secrets \subseteq [at : {"keyring"} \cup Procs, ref : Ids, n : 1..stored, age : Ages]
  /\ job \in [Procs -> Jobs]

\* The table's key and the stores' references are unique.
Unique ==
  /\ \A x, y \in table : x.id = y.id => x = y
  /\ \A s, t \in secrets : (s.at = t.at /\ s.ref = t.ref) \/ s.n = t.n => s = t

\* Whatever driver is asked for, no sign-in as a client of our own is under way on a
\* route whose terms do not permit it (login.py permits_third_party_client).
ClientsPermitted ==
  \A p \in Procs : At(p, "prompt") /\ job[p].session.driver \in ClientDrivers
                     => job[p].session.route.posture = "third_party_permitted"

\* offered_drivers and begin, which decide apart, agree: whatever drivers routes declare
\* and an application registers, what is offered is accepted.
OfferedAccepted ==
  \A provider \in Range(Catalog.providers) : \A present \in Findings(provider) :
    \A route \in Range(RoutesFor(provider, present)) :
      \A d \in OfferedDrivers(route) : DriverFor(route, d) = {d}

\* What a job has in hand: a profile named after a route or a choice of its provider, a
\* row to write or to forget, a profile still to refresh.
HandsFull ==
  \A p \in Procs :
    /\ At(p, "prompt") => /\ job[p].session \in Sessions
                          /\ \A name \in {job[p].session.route.id} \cup job[p].session.choices :
                               <<job[p].session.provider, name>> \in Ids
    /\ job[p].pc \in {"record", "forget", "erase", "set", "renew"} => job[p].row \in Rows
    /\ job[p].pc \in {"refresh", "renew", "take"} => job[p].todo # <<>>

\* The table and the stores stay well formed, and terms gate every sign-in.
IInv == TypeOK /\ Unique /\ HandsFull /\ ClientsPermitted /\ OfferedAccepted

\* A sweep that returns (CredentialBroker.refresh_due) has dealt with every enabled
\* OAuth profile that was due when it began: the material is no longer in any store,
\* replaced by the sweep or by someone else, unless the profile was written to meanwhile.
\* Where one cannot be refreshed, or was disabled or removed, the sweep raises.
SweepRenewsAll ==
  \A p \in Procs : At(p, "swept") => \A o \in job[p].owed : \A s \in secrets : s.n # o.n

Matches(x, request) ==
  /\ x.provider = request.provider
  /\ request.runtime # None => x = RuntimeProfile(request)
  /\ request.runtime = None /\ request.profile = None /\ request.billing # None
       => x.billing = request.billing
  /\ request.runtime = None /\ request.profile # None => x.id = request.profile

\* What a lease hands out (CredentialBroker.lease, then AuthBroker.lease, which read the
\* row three times in all) is the profile chosen for the request, in service, and not
\* expired when it is handed out unless the caller supplied it so; and if the row is still
\* what it was when it was chosen, it is of the provider, and bills the way, that the call
\* asked for - or is just what the call supplied.
LentAsAsked ==
  \A p \in Procs : At(p, "using") =>
    LET x == job[p].lent.row
        chosen == job[p].asked.chosen
    IN /\ x.id = chosen.id /\ x.enabled
       /\ x.auth = "oauth" /\ job[p].lent.age = "expired" => job[p].asked.request.runtime # None
       /\ x = chosen => Matches(x, job[p].asked.request)

-----------------------------------------------------------------------------
(* The inductive invariants behind the two.                                *)

\* p would find the material that o stands for, if it is still there, where row x says.
Where(p, x, o) ==
  /\ x.id = o.id /\ x.auth = "oauth" /\ Given(x.store, "keyring") \in LoginStores(p)
  /\ \A s \in secrets : s.n = o.n =>
       s.at = Place(p, Given(x.store, "keyring")) /\ s.ref = x.ref /\ Due(s)

\* A material that is owed is gone, or its profile is still to be refreshed and as it
\* was when it was listed; a row in hand is the profile's next in turn.
SweepOwes ==
  \A p \in Procs :
    /\ \A o \in job[p].owed :
         /\ o.n <= stored
         /\ \/ \A s \in secrets : s.n # o.n
            \/ o.id \in Range(job[p].todo) /\ \E x \in table : Where(p, x, o)
    /\ At(p, "swept") => job[p].todo = <<>>
    /\ At(p, "renew") => /\ job[p].row.id = Head(job[p].todo)
                         /\ \A o \in job[p].owed : o.id = job[p].row.id => job[p].row \in table

\* A lease goes for the one profile chosen, which is one that was asked for.
LeaseAsks ==
  \A p \in Procs :
    /\ At(p, "take") => job[p].asked # None
    /\ job[p].asked # None =>
         /\ Matches(job[p].asked.chosen, job[p].asked.request)
         /\ job[p].owed = {}
         /\ job[p].pc \in {"refresh", "renew", "take"} =>
              job[p].todo = <<job[p].asked.chosen.id>>

\* "A subscription credential SHALL NOT be used where a metered API credential was
\* requested, nor the reverse": what a lease hands out bills as the call asked, also when
\* the profile's row was replaced between the choice and the loan.
BillingAsAsked ==
  \A p \in Procs : At(p, "using") => Matches(job[p].lent.row, job[p].asked.request)
=============================================================================
