---------------------------- MODULE AccountsProofs ----------------------------
(***************************************************************************)
(* Accounts for any catalogue, any number of processes, profiles and       *)
(* secrets: terms gate every sign-in, a sweep that returns has dealt with  *)
(* all that was due, and a lease hands out the profile chosen for it.      *)
(***************************************************************************)
EXTENDS Accounts, TLAPS

-----------------------------------------------------------------------------
(* Routes and drivers.                                                     *)

\* A route that is offered for a provider is one of its own or the reuse of another
\* tool's sign-in, and what is kept by it has a name.
LEMMA RouteTyped ==
  ASSUME NEW provider \in Range(Catalog.providers), NEW present \in Findings(provider),
         NEW route \in Range(RoutesFor(provider, present))
  PROVE  /\ route \in {Delegated} \cup Range(AccessRoutes(provider))
         /\ route.kind \in DOMAIN DefaultDriver
         /\ route.billing \in BillingKinds
         /\ <<provider.id, route.id>> \in Ids
<1> DEFINE declared == AccessRoutes(provider)
<1>1. declared \in Seq(Range(declared))
  BY CatalogAssumption
<1>2. CASE route \in Range(declared)
  BY <1>2, CatalogAssumption DEF Names
<1>3. CASE RoutesFor(provider, present) = <<Delegated>> \o declared /\ present # {}
  <2>1. Reusable(provider) # {}
    BY <1>3 DEF Findings
  <2>2. Range(<<Delegated>> \o declared) \subseteq {Delegated} \cup Range(declared)
    <3>1. /\ <<Delegated>> \in Seq({Delegated} \cup Range(declared))
          /\ declared \in Seq({Delegated} \cup Range(declared))
      BY <1>1
    <3>2. <<Delegated>> \o declared \in Seq({Delegated} \cup Range(declared))
      BY <3>1
    <3> QED
      BY <3>2 DEF Range
  <2>3. CASE route = Delegated
    BY <2>1, <2>3, CatalogAssumption DEF Delegated, DefaultDriver, BillingKinds, Names
  <2> QED
    BY <1>2, <1>3, <2>2, <2>3
<1> QED
  BY <1>2, <1>3 DEF RoutesFor

\* A driver accepted for a route is one there is, and a client of our own only where the
\* terms permit it.
LEMMA DriverPermitted ==
  ASSUME NEW route, NEW requested, NEW driver \in DriverFor(route, requested)
  PROVE  driver \in Drivers /\ (driver \in ClientDrivers => Permits(route))
BY CatalogAssumption DEF DriverFor

\* What offered_drivers offers, begin accepts.
LEMMA OfferIsAccepted == OfferedAccepted
<1> SUFFICES ASSUME NEW provider \in Range(Catalog.providers), NEW present \in Findings(provider),
                    NEW route \in Range(RoutesFor(provider, present)),
                    NEW d \in OfferedDrivers(route)
             PROVE  DriverFor(route, d) = {d}
  BY DEF OfferedAccepted
<1>1. d \in Registered /\ (d \in ClientDrivers => Permits(route))
  BY DEF OfferedDrivers, PermittedDrivers, ClientDrivers
<1>2. d # None
  BY <1>1, CatalogAssumption
<1> QED
  BY <1>1, <1>2 DEF DriverFor, Given

-----------------------------------------------------------------------------
(* The choice of a profile.                                                *)

\* What is chosen for a request is of the provider and bills the way it asks, is in
\* service, and is a row of the table unless it was supplied or found in the environment.
LEMMA ResolveRight ==
  ASSUME NEW request \in Requests, NEW chosen \in Resolve(Catalog, table, Environ, request)
  PROVE  /\ Matches(chosen.profile, request)
         /\ chosen.profile.enabled
         /\ chosen.source \in {"runtime", "environment"} => chosen.profile \in Supplied
         /\ chosen.source = "runtime" => request.runtime # None
         /\ chosen.source = "environment" => chosen.profile.auth # "oauth"
         /\ chosen.source \notin {"runtime", "environment"} => chosen.profile \in table
<1> DEFINE env == Billing(request.billing, EnvironmentProfiles(Range(Catalog.providers), Environ))
           named == {x \in table : x.id = request.profile /\ x.provider = request.provider /\ x.enabled}
           stored0 == Stored(table, request.provider, request.billing)
<1>1. CASE request.runtime # None
  <2>1. chosen.source = "runtime" /\ chosen.profile = RuntimeProfile(request)
    BY <1>1 DEF Resolve, Resolution
  <2>2. chosen.profile \in Supplied
    BY <1>1, <2>1 DEF Supplied
  <2>3. chosen.profile.provider = request.provider /\ chosen.profile.enabled
    BY <2>1 DEF RuntimeProfile
  <2> QED
    BY <1>1, <2>1, <2>2, <2>3 DEF Matches
<1>2. CASE request.runtime = None /\ request.profile # None
  <2>1. chosen.source = "selected" /\ chosen.profile \in named
    BY <1>2 DEF Resolve, Resolution
  <2> QED
    BY <1>2, <2>1 DEF Matches
<1>3. CASE request.runtime = None /\ request.profile = None /\ stored0 # {}
  <2>1. chosen.source = "stored" /\ chosen.profile \in stored0
    BY <1>3 DEF Resolve, Resolution
  <2> QED
    BY <1>3, <2>1 DEF Matches, Stored, First, Billing, Enabled
<1>4. CASE request.runtime = None /\ request.profile = None /\ stored0 = {}
  <2>1. chosen.source = "environment" /\ chosen.profile \in {x \in env : x.provider = request.provider}
    BY <1>4 DEF Resolve, Resolution
  <2>2. PICK q \in InEnvironment : chosen.profile = EnvironmentProfile(q)
    BY <2>1 DEF Billing, EnvironmentProfiles, InEnvironment
  <2>3. chosen.profile \in Supplied
    BY <2>2 DEF Supplied
  <2>4. chosen.profile.enabled /\ chosen.profile.auth # "oauth"
    BY <2>2 DEF EnvironmentProfile
  <2> QED
    BY <1>4, <2>1, <2>3, <2>4 DEF Matches, Billing
<1> QED
  BY <1>1, <1>2, <1>3, <1>4

-----------------------------------------------------------------------------
(* The selector and the broker.                                            *)

\* The row that comes first is one row.
LEMMA FirstIsOne ==
  ASSUME NEW S, \A x \in S : x.priority \in Int /\ ProfileRank[x.id] \in Int,
         NEW x \in First(S)
  PROVE  First(S) = {x}
<1> SUFFICES ASSUME NEW y \in First(S), y # x PROVE FALSE
  OBVIOUS
<1>1. Earlier(x, y) /\ Earlier(y, x) /\ x \in S /\ y \in S
  BY DEF First
<1> QED
  BY <1>1 DEF Earlier

\* Over any table whose rows have ids of their own, for any provider, billing kind and
\* environment, the profile that the selector names is the one the broker takes.
LEMMA SelectorAndBroker ==
  ASSUME NEW catalog, NEW rows, NEW environ, NEW p, NEW kind,
         catalog.providers[p].id = p,
         \A x \in rows : x.id # None /\ x.priority \in Int /\ ProfileRank[x.id] \in Int,
         \A x, y \in rows : x.id = y.id => x = y
  PROVE  Agree(catalog, rows, environ, p, kind)
<1> DEFINE provider == catalog.providers[p]
           asks == [profile |-> None, billing |-> kind]
           able == Billing(kind, Enabled(rows, p))
           chosen == ProfileFor(provider, rows, asks)
           taken == Resolve(catalog, rows, environ, Request(p, None, kind))
           env == {x \in Billing(kind, EnvironmentProfiles(Range(catalog.providers), environ)) :
                     x.provider = p}
<1>1. taken = IF First(able) # {} THEN Resolution("stored", First(able))
              ELSE Resolution("environment", env)
  BY DEF Resolve, Request, Stored
<1>2. \A x \in First(able) : x \in rows /\ x.provider = p /\ x.enabled /\ (kind # None => x.billing = kind)
  BY DEF First, Billing, Enabled
<1>3. \A x \in env : x.enabled /\ (kind # None => x.billing = kind)
  BY DEF Billing, EnvironmentProfiles, EnvironmentProfile
<1>4. chosen \ {None} \subseteq First(able)
  BY DEF ProfileFor
<1>5. \A r \in taken : r.profile.enabled /\ (kind # None => r.profile.billing = kind)
  BY <1>1, <1>2, <1>3 DEF Resolution
<1>6. ASSUME NEW x \in chosen \ {None}
      PROVE  /\ taken = {[source |-> "stored", profile |-> x]}
             /\ Resolve(catalog, rows, environ, Request(p, x.id, None))
                  = {[source |-> "selected", profile |-> x]}
  <2>1. x \in First(able)
    BY <1>4
  <2>2. First(able) = {x}
    BY <2>1, FirstIsOne DEF Billing, Enabled
  <2>3. taken = {[source |-> "stored", profile |-> x]}
    BY <1>1, <2>2 DEF Resolution
  <2>4. {y \in rows : y.id = x.id /\ y.provider = p /\ y.enabled} = {x}
    BY <1>2, <2>1
  <2>5. Resolve(catalog, rows, environ, Request(p, x.id, None))
          = Resolution("selected", {y \in rows : y.id = x.id /\ y.provider = p /\ y.enabled})
    BY <1>2, <2>1 DEF Resolve, Request
  <2> QED
    BY <2>3, <2>4, <2>5 DEF Resolution
<1>7. ASSUME NEW r \in taken, r.source = "environment" PROVE chosen \subseteq {None}
  <2>1. First(able) = {}
    BY <1>1, <1>7 DEF Resolution
  <2> QED
    BY <1>4, <2>1
<1> QED
  BY <1>5, <1>6, <1>7 DEF Agree

-----------------------------------------------------------------------------
(* The inductive invariant, job by job.                                    *)

Inv == IInv /\ SweepOwes /\ LeaseAsks /\ LentAsAsked

\* What must be so of one job, as the parts of Inv say it of every job.
HandFull(p) ==
  /\ At(p, "prompt") => /\ job[p].session \in Sessions
                        /\ \A name \in {job[p].session.route.id} \cup job[p].session.choices :
                             <<job[p].session.provider, name>> \in Ids
                        /\ job[p].session.driver \in ClientDrivers => Permits(job[p].session.route)
  /\ job[p].pc \in {"record", "forget", "erase", "set", "renew"} => job[p].row \in Rows
  /\ job[p].pc \in {"refresh", "renew", "take"} => job[p].todo # <<>>

Owes(p) ==
  /\ \A o \in job[p].owed :
       /\ o.n <= stored
       /\ \/ \A s \in secrets : s.n # o.n
          \/ o.id \in Range(job[p].todo) /\ \E x \in table : Where(p, x, o)
  /\ At(p, "swept") => job[p].todo = <<>>
  /\ At(p, "renew") => /\ job[p].row.id = Head(job[p].todo)
                       /\ \A o \in job[p].owed : o.id = job[p].row.id => job[p].row \in table

Asks(p) ==
  /\ At(p, "take") => job[p].asked # None
  /\ job[p].asked # None =>
       /\ Matches(job[p].asked.chosen, job[p].asked.request)
       /\ job[p].owed = {}
       /\ job[p].pc \in {"refresh", "renew", "take"} => job[p].todo = <<job[p].asked.chosen.id>>

Lent(p) ==
  At(p, "using") =>
    /\ job[p].lent.row.id = job[p].asked.chosen.id /\ job[p].lent.row.enabled
    /\ job[p].lent.row.auth = "oauth" /\ job[p].lent.age = "expired"
         => job[p].asked.request.runtime # None
    /\ job[p].lent.row = job[p].asked.chosen => Matches(job[p].lent.row, job[p].asked.request)

JobFine(p) == HandFull(p) /\ Owes(p) /\ Asks(p) /\ Lent(p)

LEMMA JobByJob == Inv <=> TypeOK /\ Unique /\ \A p \in Procs : JobFine(p)
BY OfferIsAccepted DEF Inv, IInv, HandsFull, ClientsPermitted, Permits, SweepOwes, LeaseAsks, LentAsAsked,
   JobFine, HandFull, Owes, Asks, Lent

LEMMA JobByJobNext ==
  ASSUME TypeOK', Unique', \A p \in Procs : JobFine(p)'
  PROVE  Inv'
BY OfferIsAccepted DEF Inv, IInv, HandsFull, ClientsPermitted, Permits, SweepOwes, LeaseAsks, LentAsAsked,
   JobFine, HandFull, Owes, Asks, Lent, At, OfferedAccepted

LEMMA IdleJob ==
  /\ Idle \in Jobs
  /\ Idle.pc = "idle" /\ Idle.todo = <<>> /\ Idle.owed = {} /\ Idle.asked = None
BY DEF Idle, Jobs

\* A process that does nothing has nothing to answer for.
LEMMA IdleFine ==
  ASSUME NEW p \in Procs, job'[p] = Idle
  PROVE  Idle \in Jobs /\ JobFine(p)'
<1>1. /\ job'[p].pc = "idle" /\ job'[p].owed = {} /\ job'[p].asked = None
  BY IdleJob
<1> QED
  BY <1>1, IdleJob DEF JobFine, HandFull, Owes, Asks, Lent, At

-----------------------------------------------------------------------------
(* The secrets.                                                            *)

\* How stores may change: secrets are removed, grow older, or are new and newly numbered.
SecretsLater ==
  /\ stored' \in 0..MaxMaterials /\ stored <= stored'
  /\ secrets' \subseteq [at : {"keyring"} \cup Procs, ref : Ids, n : 1..stored', age : Ages]
  /\ \A s \in secrets' :
       \/ s.n > stored
       \/ \E t \in secrets : s.n = t.n /\ s.at = t.at /\ s.ref = t.ref /\ (Due(t) => Due(s))
  /\ \A s, t \in secrets' : (s.at = t.at /\ s.ref = t.ref) \/ s.n = t.n => s = t

\* A material that is gone stays gone, and one that is still there is where it was.
LEMMA OwedLasts ==
  ASSUME TypeOK, SecretsLater, NEW p \in Procs, NEW o, o.n \in Nat, o.n <= stored
  PROVE  /\ o.n <= stored'
         /\ \A s \in secrets' : s.n = o.n =>
              \E t \in secrets : s.n = t.n /\ s.at = t.at /\ s.ref = t.ref /\ (Due(t) => Due(s))
         /\ (\A s \in secrets : s.n # o.n) => \A s \in secrets' : s.n # o.n
         /\ \A x : Where(p, x, o) => Where(p, x, o)'
<1>1. stored \in Nat /\ stored' \in Nat
  BY AccountsAssumption DEF TypeOK, SecretsLater
<1>2. \A s \in secrets' : s.n = o.n =>
        \E t \in secrets : s.n = t.n /\ s.at = t.at /\ s.ref = t.ref /\ (Due(t) => Due(s))
  BY <1>1 DEF SecretsLater
<1>3. \A x : Where(p, x, o) => Where(p, x, o)'
  BY <1>2 DEF Where
<1> QED
  BY <1>1, <1>2, <1>3 DEF SecretsLater

\* A process that still has the same profiles to refresh owes what it owed.
LEMMA OwesOn ==
  ASSUME TypeOK, SecretsLater, UNCHANGED table, NEW p \in Procs, Owes(p), NEW o \in job[p].owed
  PROVE  /\ o.n <= stored'
         /\ \/ \A s \in secrets' : s.n # o.n
            \/ o.id \in Range(job[p].todo) /\ \E x \in table' : Where(p, x, o)'
<1>1. o.n \in Nat /\ o.n <= stored
  BY DEF Owes, TypeOK, Jobs
<1>2. /\ o.n <= stored'
      /\ (\A s \in secrets : s.n # o.n) => \A s \in secrets' : s.n # o.n
      /\ \A x : Where(p, x, o) => Where(p, x, o)'
  BY <1>1, OwedLasts
<1> QED
  BY <1>2 DEF Owes

\* What a process owes is not lost by what happens to the stores.
LEMMA OwesLasts ==
  ASSUME TypeOK, SecretsLater, UNCHANGED table, NEW p \in Procs, JobFine(p), job'[p] = job[p]
  PROVE  JobFine(p)'
<1>1. HandFull(p)' /\ Asks(p)' /\ Lent(p)'
  BY DEF JobFine, HandFull, Asks, Lent, At
<1>2. \A o \in job[p].owed :
        /\ o.n <= stored'
        /\ \/ \A s \in secrets' : s.n # o.n
           \/ o.id \in Range(job[p].todo) /\ \E x \in table' : Where(p, x, o)'
  BY OwesOn DEF JobFine
<1>3. Owes(p)'
  BY <1>2 DEF JobFine, Owes, At
<1> QED
  BY <1>1, <1>3 DEF JobFine

\* A secret that is set replaces the one under the same reference.
LEMMA PutLater ==
  ASSUME TypeOK, Unique, NEW place \in {"keyring"} \cup Procs, NEW ref \in Ids, NEW age \in Ages,
         Put(place, ref, age)
  PROVE  SecretsLater /\ \A s \in secrets' : s.at = place /\ s.ref = ref => s.n = stored + 1
<1> DEFINE new == [at |-> place, ref |-> ref, n |-> stored + 1, age |-> age]
<1>1. stored \in Nat /\ stored' = stored + 1 /\ stored' \in 0..MaxMaterials
  BY AccountsAssumption DEF TypeOK, Put
<1>2. secrets' = {s \in secrets : s.at # place \/ s.ref # ref} \cup {new}
  BY DEF Put, Kept
<1>3. \A s \in secrets : s.n \in 1..stored /\ s \in [at : {"keyring"} \cup Procs, ref : Ids, n : 1..stored', age : Ages]
  BY <1>1 DEF TypeOK
<1>4. new \in [at : {"keyring"} \cup Procs, ref : Ids, n : 1..stored', age : Ages]
  BY <1>1
<1>5. new.n = stored + 1 /\ new.at = place /\ new.ref = ref
  OBVIOUS
<1>6. \A s, t \in secrets' : (s.at = t.at /\ s.ref = t.ref) \/ s.n = t.n => s = t
  <2> HIDE DEF new
  <2> QED
    BY <1>1, <1>2, <1>3, <1>5 DEF Unique
<1> HIDE DEF new
<1> QED
  BY <1>1, <1>2, <1>3, <1>4, <1>5, <1>6 DEF SecretsLater

\* Removing secrets, or leaving them alone.
LEMMA FewerLater ==
  ASSUME TypeOK, Unique, secrets' \subseteq secrets, stored' = stored
  PROVE  SecretsLater
<1>1. stored \in Nat /\ stored' \in 0..MaxMaterials
  BY AccountsAssumption DEF TypeOK
<1> QED
  BY <1>1 DEF TypeOK, Unique, SecretsLater

\* A secret grows older.
LEMMA GrowLater == ASSUME TypeOK, Unique, Grow PROVE SecretsLater
<1>1. stored \in Nat /\ stored' = stored /\ stored' \in 0..MaxMaterials
  BY AccountsAssumption DEF TypeOK, Grow
<1>2. PICK s \in secrets, age \in {"due", "expired"} :
        secrets' = (secrets \ {s}) \cup {[s EXCEPT !.age = age]}
  BY DEF Grow
<1> DEFINE older == [s EXCEPT !.age = age]
<1>3. s \in [at : {"keyring"} \cup Procs, ref : Ids, n : 1..stored, age : Ages]
  BY DEF TypeOK
<1>4. /\ older.at = s.at /\ older.ref = s.ref /\ older.n = s.n /\ Due(older)
      /\ older \in [at : {"keyring"} \cup Procs, ref : Ids, n : 1..stored, age : Ages]
  BY <1>3 DEF Due, Ages
<1> HIDE DEF older
<1>5. secrets' = (secrets \ {s}) \cup {older}
  BY <1>2 DEF older
<1> QED
  BY <1>1, <1>4, <1>5 DEF TypeOK, Unique, SecretsLater

-----------------------------------------------------------------------------
(* What a step does to the jobs.                                           *)

\* One job moves on, and the table stays as it is.
LEMMA BecomeFine ==
  ASSUME Inv, NEW p \in Procs, NEW j \in Jobs, Become(p, j), UNCHANGED table, SecretsLater,
         JobFine(p)'
  PROVE  Inv'
<1>1. TypeOK /\ Unique /\ \A q \in Procs : JobFine(q)
  BY JobByJob
<1>2. job' \in [Procs -> Jobs] /\ \A q \in Procs \ {p} : job'[q] = job[q]
  BY <1>1 DEF Become, TypeOK
<1>3. TypeOK' /\ Unique'
  BY <1>1, <1>2 DEF TypeOK, Unique, SecretsLater
<1>4. \A q \in Procs \ {p} : JobFine(q)'
  BY <1>1, <1>2, OwesLasts
<1> QED
  BY <1>3, <1>4, JobByJobNext

\* One job moves on, and nothing else happens.
LEMMA MoveFine ==
  ASSUME Inv, NEW p \in Procs, NEW j \in Jobs, Become(p, j), UNCHANGED Held, JobFine(p)'
  PROVE  Inv'
<1>1. TypeOK /\ Unique /\ secrets' = secrets /\ stored' = stored /\ table' = table
  BY JobByJob DEF Held
<1>2. SecretsLater
  BY <1>1, FewerLater
<1> QED
  BY <1>1, <1>2, BecomeFine

\* One job ends, and nothing else happens.
LEMMA DoneFine == ASSUME Inv, NEW p \in Procs, Done(p), UNCHANGED Held PROVE Inv'
<1>1. job'[p] = Idle
  BY JobByJob DEF Done, Become, TypeOK
<1>2. Idle \in Jobs /\ JobFine(p)'
  BY <1>1, IdleFine
<1> QED
  BY <1>2, MoveFine DEF Done

\* A row is written or removed: whoever had the profile to refresh need not any more.
LEMMA WriteFine ==
  ASSUME Inv, NEW p \in Procs, NEW id, NEW rows \in SUBSET Rows,
         \A x, y \in rows : x.id = id /\ x = y,
         Write(p, id, rows), UNCHANGED <<secrets, stored>>
  PROVE  Inv'
<1>1. TypeOK /\ Unique /\ \A q \in Procs : JobFine(q)
  BY JobByJob
<1>2. job'[p] = Idle
  BY DEF Write
<1>3. Idle \in Jobs /\ JobFine(p)'
  BY <1>2, IdleFine
<1>4. ASSUME NEW q \in Procs \ {p}
      PROVE  job'[q] \in Jobs /\ JobFine(q)'
  <2>1. /\ job'[q] = [job[q] EXCEPT !.owed = {o \in job[q].owed : o.id # id}]
        /\ job[q] \in Jobs
    BY <1>1 DEF Write, TypeOK
  <2>2. /\ job'[q].pc = job[q].pc /\ job'[q].session = job[q].session /\ job'[q].row = job[q].row
        /\ job'[q].todo = job[q].todo /\ job'[q].asked = job[q].asked /\ job'[q].lent = job[q].lent
        /\ job'[q].owed = {o \in job[q].owed : o.id # id}
    BY <2>1 DEF Jobs
  <2>3. job'[q] \in Jobs
    <3>1. {o \in job[q].owed : o.id # id} \in SUBSET [id : Ids, n : Nat]
      BY <2>1 DEF Jobs
    <3> QED
      BY <2>1, <3>1 DEF Jobs
  <2>4. HandFull(q)' /\ Asks(q)' /\ Lent(q)'
    BY <1>1, <2>2 DEF JobFine, HandFull, Asks, Lent, At
  <2>5. \A x \in table : x.id # id => x \in table'
    BY DEF Write
  <2>6. ASSUME NEW o \in job'[q].owed
        PROVE  /\ o.n <= stored
               /\ \/ \A s \in secrets : s.n # o.n
                  \/ o.id \in Range(job[q].todo) /\ \E x \in table' : Where(q, x, o)
    <3>1. o \in job[q].owed /\ o.id # id
      BY <2>2
    <3>2. \A x : Where(q, x, o) => x.id = o.id
      BY DEF Where
    <3> QED
      BY <1>1, <2>5, <3>1, <3>2 DEF JobFine, Owes
  <2>7. \A x, o : Where(q, x, o)' <=> Where(q, x, o)
    BY DEF Where
  <2>8. \A o \in job'[q].owed : At(q, "renew") /\ o.id = job[q].row.id => job[q].row \in table'
    BY <1>1, <2>2, <2>5 DEF JobFine, Owes
  <2>9. Owes(q)'
    BY <1>1, <2>2, <2>6, <2>7, <2>8 DEF JobFine, Owes, At
  <2> QED
    BY <2>3, <2>4, <2>9 DEF JobFine
<1>5. job' \in [Procs -> Jobs]
  BY <1>2, <1>3, <1>4 DEF Write
<1>6. TypeOK' /\ Unique'
  BY <1>1, <1>5 DEF TypeOK, Unique, Write
<1> QED
  BY <1>3, <1>4, <1>6, JobByJobNext

\* A row is written under its own id.
LEMMA UpsertFine ==
  ASSUME Inv, NEW p \in Procs, NEW x \in Rows, Upsert(p, x), UNCHANGED <<secrets, stored>>
  PROVE  Inv'
BY WriteFine DEF Upsert

-----------------------------------------------------------------------------
(* Signing in and out, switching, and the command line's edits.            *)

\* A job that starts with a row in hand.
LEMMA InHand ==
  ASSUME NEW p \in Procs, NEW x \in Rows, NEW pc \in {"record", "forget", "set"},
         job'[p] = [Idle EXCEPT !.pc = pc, !.row = x]
  PROVE  [Idle EXCEPT !.pc = pc, !.row = x] \in Jobs /\ JobFine(p)'
<1>1. [Idle EXCEPT !.pc = pc, !.row = x] \in Jobs
  BY IdleJob DEF Jobs
<1>2. /\ job'[p].pc = pc /\ job'[p].row = x /\ job'[p].owed = {} /\ job'[p].asked = None
  BY IdleJob DEF Jobs
<1> QED
  BY <1>1, <1>2 DEF JobFine, HandFull, Owes, Asks, Lent, At

\* The row of a sign-in is one the table can hold.
LEMMA KeyedRow ==
  ASSUME NEW provider \in DOMAIN Catalog.providers, NEW route, <<provider, route.id>> \in Ids,
         route.billing \in BillingKinds,
         NEW auth \in DOMAIN DefaultDriver, NEW store \in {None, "memory", "keyring"}
  PROVE  /\ Keyed(provider, route, auth, store) \in Rows
         /\ Keyed(provider, route, auth, store).store = store
         /\ Keyed(provider, route, auth, store).ref = <<provider, route.id>>
BY DEF Keyed, Rows, BillingKinds

LEMMA KeepFine ==
  ASSUME Inv, NEW p \in Procs, NEW x \in Rows, NEW age \in Ages, Keep(p, x, age),
         x.store \in {"memory", "keyring"}, x.ref \in Ids
  PROVE  Inv'
<1>1. TypeOK /\ Unique
  BY JobByJob
<1>2. Place(p, x.store) \in {"keyring"} \cup Procs
  BY DEF Place
<1>3. SecretsLater
  BY <1>1, <1>2, PutLater DEF Keep
<1>4. job'[p] = [Idle EXCEPT !.pc = "record", !.row = x]
  BY <1>1 DEF Keep, Become, TypeOK
<1>5. [Idle EXCEPT !.pc = "record", !.row = x] \in Jobs /\ JobFine(p)'
  BY <1>4, InHand
<1> QED
  BY <1>3, <1>5, BecomeFine DEF Keep

LEMMA BeginFine == ASSUME Inv, NEW p \in Procs, Begin(p) PROVE Inv'
<1>0. TypeOK
  BY JobByJob
<1> DEFINE Prompted(provider, route, driver, choices) ==
             [Idle EXCEPT !.pc = "prompt",
                !.session = [provider |-> provider.id, route |-> route,
                             driver |-> driver, choices |-> choices]]
<1>a. PICK provider \in Range(Catalog.providers) :
        \E present \in Findings(provider) :
        \E wanted \in {None} \cup {r.id : r \in Range(RoutesFor(provider, present))} :
        \E route \in RouteFor(provider, present, wanted), requested \in {None} \cup AskedDrivers :
        \E driver \in DriverFor(route, requested) : \E choices \in {present, {}} :
          Become(p, Prompted(provider, route, driver, choices))
  BY DEF Begin
<1>b. PICK present \in Findings(provider) :
        \E wanted \in {None} \cup {r.id : r \in Range(RoutesFor(provider, present))} :
        \E route \in RouteFor(provider, present, wanted), requested \in {None} \cup AskedDrivers :
        \E driver \in DriverFor(route, requested) : \E choices \in {present, {}} :
          Become(p, Prompted(provider, route, driver, choices))
  BY <1>a
<1>c. PICK wanted \in {None} \cup {r.id : r \in Range(RoutesFor(provider, present))} :
        \E route \in RouteFor(provider, present, wanted), requested \in {None} \cup AskedDrivers :
        \E driver \in DriverFor(route, requested) : \E choices \in {present, {}} :
          Become(p, Prompted(provider, route, driver, choices))
  BY <1>b
<1>d. PICK route \in RouteFor(provider, present, wanted), requested \in {None} \cup AskedDrivers :
        \E driver \in DriverFor(route, requested) : \E choices \in {present, {}} :
          Become(p, Prompted(provider, route, driver, choices))
  BY <1>c
<1>2. PICK driver \in DriverFor(route, requested), choices \in {present, {}} :
        Become(p, Prompted(provider, route, driver, choices))
  BY <1>d
<1> DEFINE session == [provider |-> provider.id, route |-> route, driver |-> driver, choices |-> choices]
           j == [Idle EXCEPT !.pc = "prompt", !.session = session]
<1>3. route \in Range(RoutesFor(provider, present))
  BY DEF RouteFor, FirstOf, Range
<1>4. /\ route \in {Delegated} \cup Range(AccessRoutes(provider))
      /\ <<provider.id, route.id>> \in Ids
  BY <1>3, RouteTyped
<1>5. driver \in Drivers /\ (driver \in ClientDrivers => Permits(route))
  BY DriverPermitted
<1>6. /\ choices \subseteq Reusable(provider)
      /\ \A name \in choices : <<provider.id, name>> \in Ids
  BY CatalogAssumption DEF Findings, Names
<1>7. provider.id \in DOMAIN Catalog.providers
  BY CatalogAssumption DEF Range
<1>8. session \in Sessions
  <2>1. route \in {Delegated} \cup UNION {Range(AccessRoutes(q)) : q \in Range(Catalog.providers)}
    BY <1>4
  <2>2. choices \in SUBSET UNION {Reusable(q) : q \in Range(Catalog.providers)}
    BY <1>6
  <2> QED
    BY <1>5, <1>7, <2>1, <2>2 DEF Sessions
<1>9. /\ session.provider = provider.id /\ session.route = route
      /\ session.driver = driver /\ session.choices = choices
  OBVIOUS
<1> HIDE DEF session
<1>10. j \in Jobs
  BY <1>8, IdleJob DEF Jobs
<1>11. job'[p] = j /\ j.pc = "prompt" /\ j.session = session /\ j.owed = {} /\ j.asked = None
  BY <1>0, <1>2, IdleJob DEF Become, TypeOK, Jobs, session
<1> HIDE DEF j
<1>12. JobFine(p)'
  BY <1>4, <1>5, <1>6, <1>8, <1>9, <1>11 DEF JobFine, HandFull, Owes, Asks, Lent, At
<1> QED
  BY <1>2, <1>10, <1>12, MoveFine DEF Begin, j, session

LEMMA SignInFine == ASSUME Inv, NEW p \in Procs, SignIn(p) PROVE Inv'
<1>0. TypeOK /\ JobFine(p) /\ job[p] \in Jobs
  BY JobByJob DEF TypeOK
<1> DEFINE s == job[p].session
<1>a. ASSUME At(p, "prompt")
      PROVE  /\ s.provider \in DOMAIN Catalog.providers /\ <<s.provider, s.route.id>> \in Ids
             /\ \A name \in s.choices : <<s.provider, name>> \in Ids
             /\ s.route.kind \in DOMAIN DefaultDriver
             /\ s.route.billing \in BillingKinds
  <2>1. s \in Sessions /\ <<s.provider, s.route.id>> \in Ids
        /\ \A name \in s.choices : <<s.provider, name>> \in Ids
    BY <1>0, <1>a DEF JobFine, HandFull
  <2>2. s.provider \in DOMAIN Catalog.providers
        /\ s.route \in {Delegated} \cup UNION {Range(AccessRoutes(q)) : q \in Range(Catalog.providers)}
    BY <2>1 DEF Sessions
  <2>3. CASE s.route = Delegated
    BY <2>1, <2>2, <2>3 DEF Delegated, DefaultDriver, BillingKinds
  <2>4. CASE s.route # Delegated
    BY <2>1, <2>2, <2>4, CatalogAssumption
  <2> QED
    BY <2>3, <2>4
<1>b. "oauth" \in DOMAIN DefaultDriver /\ "delegated" \in DOMAIN DefaultDriver
  BY DEF DefaultDriver
<1> HIDE DEF s
<1>1. CASE Begin(p)
  BY <1>1, BeginFine
<1>2. CASE Choose(p)
  <2>1. At(p, "prompt")
    BY <1>2 DEF Choose
  <2>2. PICK choice \in s.choices :
          Become(p, [Idle EXCEPT !.pc = "record",
                       !.row = [Keyed(s.provider, s.route, "delegated", None)
                                  EXCEPT !.id = <<s.provider, choice>>, !.ref = None]])
    BY <1>2 DEF Choose, s
  <2> DEFINE x == [Keyed(s.provider, s.route, "delegated", None)
                     EXCEPT !.id = <<s.provider, choice>>, !.ref = None]
  <2>3. x \in Rows
    <3>1. Keyed(s.provider, s.route, "delegated", None) \in Rows
      BY <1>a, <1>b, <2>1, KeyedRow
    <3> QED
      BY <1>a, <2>1, <3>1 DEF Rows
  <2> HIDE DEF x
  <2>4. job'[p] = [Idle EXCEPT !.pc = "record", !.row = x]
    BY <1>0, <2>2 DEF Become, TypeOK, x
  <2>5. [Idle EXCEPT !.pc = "record", !.row = x] \in Jobs /\ JobFine(p)'
    BY <2>3, <2>4, InHand
  <2> QED
    BY <1>2, <2>2, <2>5, MoveFine DEF Choose, x
<1>3. CASE GiveUp(p)
  BY <1>3, DoneFine DEF GiveUp
<1>4. CASE Record(p)
  <2>1. job[p].row \in Rows
    BY <1>0, <1>4 DEF Record, JobFine, HandFull, At
  <2> QED
    BY <1>4, <2>1, UpsertFine DEF Record
<1>5. ASSUME NEW store \in LoginStores(p) \cap AskedStores,
             Paste(p, store) \/ Approve(p, store) \/ Promote(p, store)
      PROVE  Inv'
  <2>0. store \in {"memory", "keyring"} /\ "lasting" \in Ages /\ "fresh" \in Ages
    BY DEF LoginStores, Ages
  <2>1. CASE Paste(p, store)
    <3>1. At(p, "prompt") /\ Keep(p, Keyed(s.provider, s.route, s.route.kind, store), "lasting")
      BY <2>1 DEF Paste, s
    <3> QED
      BY <1>a, <2>0, <3>1, KeyedRow, KeepFine
  <2>2. CASE Approve(p, store)
    <3>1. At(p, "prompt") /\ Keep(p, Keyed(s.provider, s.route, "oauth", store), "fresh")
      BY <2>2 DEF Approve, s
    <3> QED
      BY <1>a, <1>b, <2>0, <3>1, KeyedRow, KeepFine
  <2>3. CASE Promote(p, store)
    <3>1. PICK provider \in Range(Catalog.providers) :
            \E route \in Range(AccessRoutes(provider)) :
              Keep(p, Keyed(provider.id, route, route.kind, store), "lasting")
      BY <2>3 DEF Promote, FirstOf, Range
    <3>2. PICK route \in Range(AccessRoutes(provider)) :
            Keep(p, Keyed(provider.id, route, route.kind, store), "lasting")
      BY <3>1
    <3>3. /\ provider.id \in DOMAIN Catalog.providers /\ <<provider.id, route.id>> \in Ids
          /\ route.kind \in DOMAIN DefaultDriver
          /\ route.billing \in BillingKinds
      BY CatalogAssumption DEF Range, Names
    <3> QED
      BY <2>0, <3>2, <3>3, KeyedRow, KeepFine
  <2> QED
    BY <1>5, <2>1, <2>2, <2>3
<1> QED
  BY <1>1, <1>2, <1>3, <1>4, <1>5 DEF SignIn

\* Reading a row, forgetting its secret and erasing it; writing it back with its flag set.
LEMMA RowFine ==
  ASSUME Inv, NEW p \in Procs,
         \/ ReadRow(p, "sign_out", "forget") \/ Forget(p) \/ Erase(p)
         \/ ReadRow(p, "switch", "set") \/ SetEnabled(p)
         \/ AddProfile(p) \/ RemoveProfile(p)
  PROVE  Inv'
<1>0. TypeOK /\ Unique /\ JobFine(p) /\ job[p] \in Jobs
  BY JobByJob DEF TypeOK
<1>1. ASSUME NEW operation, NEW pc \in {"forget", "set"}, ReadRow(p, operation, pc)
      PROVE  Inv'
  <2>1. PICK x \in table : Become(p, [Idle EXCEPT !.pc = pc, !.row = x])
    BY <1>1 DEF ReadRow
  <2>2. x \in Rows /\ job'[p] = [Idle EXCEPT !.pc = pc, !.row = x]
    BY <1>0, <2>1 DEF Become, TypeOK
  <2>3. [Idle EXCEPT !.pc = pc, !.row = x] \in Jobs /\ JobFine(p)'
    BY <2>2, InHand
  <2> QED
    BY <1>1, <2>1, <2>3, MoveFine DEF ReadRow
<1>2. CASE Forget(p)
  <2>1. SecretsLater
    BY <1>0, <1>2, FewerLater DEF Forget, Kept
  <2> DEFINE j == [job[p] EXCEPT !.pc = "erase"]
  <2>2. j \in Jobs
    BY <1>0 DEF Jobs
  <2>3. /\ job'[p] = j /\ j.pc = "erase" /\ j.row = job[p].row /\ j.owed = job[p].owed
        /\ j.todo = job[p].todo /\ j.asked = job[p].asked
    BY <1>0, <1>2 DEF Forget, Goto, Become, TypeOK, Jobs
  <2>4. \A o \in job[p].owed :
          /\ o.n <= stored'
          /\ \/ \A s \in secrets' : s.n # o.n
             \/ o.id \in Range(job[p].todo) /\ \E x \in table' : Where(p, x, o)'
    BY <1>0, <1>2, <2>1, OwesOn DEF JobFine, Forget
  <2> HIDE DEF j
  <2>5. HandFull(p)' /\ Asks(p)' /\ Lent(p)'
    BY <1>0, <1>2, <2>3 DEF JobFine, HandFull, Asks, Lent, At, Forget
  <2>6. Owes(p)'
    BY <2>3, <2>4 DEF Owes, At
  <2> QED
    BY <1>2, <2>1, <2>2, <2>5, <2>6, BecomeFine DEF Forget, Goto, JobFine, j
<1>3. CASE Erase(p)
  BY <1>3, WriteFine DEF Erase
<1>4. CASE SetEnabled(p)
  <2>1. PICK on \in BOOLEAN : Upsert(p, [job[p].row EXCEPT !.enabled = on])
    BY <1>4 DEF SetEnabled
  <2>2. job[p].row \in Rows
    BY <1>0, <1>4 DEF SetEnabled, JobFine, HandFull, At
  <2>3. [job[p].row EXCEPT !.enabled = on] \in Rows
    BY <2>2 DEF Rows
  <2> QED
    BY <1>4, <2>1, <2>3, UpsertFine DEF SetEnabled
<1>5. CASE AddProfile(p)
  <2>1. PICK x \in HandMade \cup Discovered : Upsert(p, x)
    BY <1>5 DEF AddProfile
  <2>2. ASSUME x \in Discovered
        PROVE  x \in Rows
    <3>1. PICK q \in InEnvironment : x =
            [id |-> EnvironmentProfile(q).id, provider |-> EnvironmentProfile(q).provider,
             auth |-> EnvironmentProfile(q).auth, billing |-> EnvironmentProfile(q).billing,
             priority |-> EnvironmentProfile(q).priority, enabled |-> EnvironmentProfile(q).enabled,
             probe |-> EnvironmentProfile(q).probe,
             store |-> "environment", ref |-> EnvironmentProfile(q).id]
      BY <2>2 DEF Discovered
    <3>2. /\ EnvironmentProfile(q).id \in Ids
          /\ q.id \in DOMAIN Catalog.providers
      BY CatalogAssumption DEF InEnvironment, Range
    <3>3. /\ EnvironmentProfile(q).provider \in DOMAIN Catalog.providers
          /\ EnvironmentProfile(q).auth \in DOMAIN DefaultDriver
          /\ EnvironmentProfile(q).billing = "api" /\ EnvironmentProfile(q).priority \in Int
          /\ EnvironmentProfile(q).enabled \in BOOLEAN /\ EnvironmentProfile(q).probe = None
      BY <3>2 DEF EnvironmentProfile, DefaultDriver
    <3> QED
      BY <3>1, <3>2, <3>3 DEF Rows, BillingKinds
  <2>3. x \in Rows
    BY <2>2, CatalogAssumption
  <2> QED
    BY <1>5, <2>1, <2>3, UpsertFine DEF AddProfile
<1>6. CASE RemoveProfile(p)
  BY <1>6, WriteFine DEF RemoveProfile
<1> QED
  BY <1>1, <1>2, <1>3, <1>4, <1>5, <1>6

-----------------------------------------------------------------------------
(* Refreshing.                                                             *)

\* What a store gives for a row.  What may be due comes from a store and not from the
\* environment, and is what that store holds under the row's reference.
LEMMA MaterialHeld ==
  ASSUME TypeOK, NEW p \in Procs, NEW x, NEW m \in Material(p, x)
  PROVE  /\ m.age \in Ages
         /\ Due(m) =>
              /\ Given(x.store, "keyring") \in LoginStores(p)
              /\ \E s \in secrets : /\ s.at = Place(p, Given(x.store, "keyring")) /\ s.ref = x.ref
                                    /\ s.n = m.n /\ s.age = m.age
<1> DEFINE store == Given(x.store, "keyring")
<1>1. store \in AuthStores(p)
  <2>1. ASSUME store \notin AuthStores(p)
        PROVE  Material(p, x) = {}
    BY <2>1 DEF Material, AuthStores
  <2> QED
    BY <2>1
<1>2. CASE store = "environment"
  BY <1>1, <1>2 DEF Material, Ages, Due
<1>3. CASE store # "environment"
  <2>1. m \in {[n |-> s.n, age |-> s.age] : s \in {t \in secrets : t.at = Place(p, store) /\ t.ref = x.ref}}
    BY <1>1, <1>3 DEF Material
  <2>2. \E s \in secrets : /\ s.at = Place(p, store) /\ s.ref = x.ref /\ s.n = m.n /\ s.age = m.age
    BY <2>1
  <2>3. store \in LoginStores(p)
    BY <1>1, <1>3 DEF AuthStores
  <2> QED
    BY <2>2, <2>3 DEF TypeOK
<1> QED
  BY <1>2, <1>3

\* A material that is owed is gone, or is where the profile's one row says.
LEMMA OwedHere ==
  ASSUME TypeOK, Unique, NEW p \in Procs, Owes(p), NEW x \in table, NEW o \in job[p].owed, o.id = x.id
  PROVE  (\A s \in secrets : s.n # o.n) \/ Where(p, x, o)
<1> SUFFICES ASSUME ~ \A s \in secrets : s.n # o.n
             PROVE  Where(p, x, o)
  OBVIOUS
<1>1. PICK y \in table : Where(p, y, o)
  BY DEF Owes
<1>2. y = x
  BY <1>1 DEF Where, Unique
<1> QED
  BY <1>1, <1>2

\* A profile with nothing due is owed nothing.
LEMMA NothingDue ==
  ASSUME TypeOK, Unique, NEW p \in Procs, Owes(p), NEW x \in table, NEW o \in job[p].owed, o.id = x.id,
         x.auth # "oauth" \/ \E m \in Material(p, x) : ~Due(m)
  PROVE  \A s \in secrets : s.n # o.n
<1> SUFFICES ASSUME NEW s \in secrets, s.n = o.n
             PROVE  FALSE
  OBVIOUS
<1> DEFINE store == Given(x.store, "keyring")
<1>1. /\ x.auth = "oauth" /\ store \in LoginStores(p)
      /\ s.at = Place(p, store) /\ s.ref = x.ref /\ Due(s)
  BY OwedHere DEF Where
<1>2. PICK m \in Material(p, x) : ~Due(m)
  BY <1>1
<1>3. store # "environment" /\ store \in AuthStores(p)
  BY <1>1 DEF LoginStores, AuthStores
<1>4. PICK t \in secrets : t.at = Place(p, store) /\ t.ref = x.ref /\ m = [n |-> t.n, age |-> t.age]
  BY <1>3 DEF Material
<1>5. t = s
  BY <1>1, <1>4 DEF Unique
<1> QED
  BY <1>1, <1>2, <1>4, <1>5 DEF Due

\* The job goes on to the next profile once nothing is owed of this one.
LEMMA PassedFine ==
  ASSUME Inv, NEW p \in Procs, job[p].pc \in {"refresh", "renew"}, Passed(p),
         UNCHANGED table, SecretsLater,
         \A o \in job[p].owed : o.id = Head(job[p].todo) => \A s \in secrets' : s.n # o.n
  PROVE  Inv'
<1> DEFINE todo == job[p].todo
           take == [job[p] EXCEPT !.pc = "take"]
           next == [job[p] EXCEPT !.pc = "refresh", !.todo = Tail(todo)]
           swept == [job[p] EXCEPT !.pc = "swept", !.todo = <<>>]
<1>1. TypeOK /\ Unique /\ JobFine(p) /\ job[p] \in Jobs
  BY JobByJob DEF TypeOK
<1>2. todo \in Seq(Ids) /\ todo # <<>>
  BY <1>1 DEF JobFine, HandFull, Jobs
<1>3. ASSUME NEW o \in job[p].owed
      PROVE  /\ o.n <= stored'
             /\ \/ \A s \in secrets' : s.n # o.n
                \/ /\ o.id \in Range(todo) /\ o.id # Head(todo)
                   /\ \E x \in table' : Where(p, x, o)'
  BY <1>1, OwesOn DEF JobFine
<1>4. \A id \in Range(todo) \ {Head(todo)} : Len(todo) > 1 /\ id \in Range(Tail(todo))
  <2> SUFFICES ASSUME NEW i \in 1..Len(todo), todo[i] # Head(todo)
               PROVE  Len(todo) > 1 /\ todo[i] \in Range(Tail(todo))
    BY <1>2 DEF Range
  <2>1. i > 1 /\ i <= Len(todo) /\ i \in Int
    BY <1>2
  <2>2. i - 1 \in 1..Len(Tail(todo)) /\ Tail(todo)[i - 1] = todo[i]
    BY <1>2, <2>1
  <2>3. i - 1 \in DOMAIN Tail(todo)
    BY <1>2, <2>2
  <2>4. Tail(todo)[i - 1] \in Range(Tail(todo))
    BY <2>3, Zenon DEF Range
  <2> QED
    BY <2>1, <2>2, <2>4
<1> HIDE DEF todo
<1>5. CASE job[p].asked # None
  <2>1. Become(p, take) /\ take \in Jobs
    BY <1>1, <1>5 DEF Passed, Jobs
  <2>2. /\ job'[p].pc = "take" /\ job'[p].todo = todo /\ job'[p].asked = job[p].asked
        /\ job'[p].owed = job[p].owed
    BY <1>1, <2>1 DEF Become, TypeOK, Jobs, todo
  <2>3. job[p].owed = {}
    BY <1>1, <1>5 DEF JobFine, Asks
  <2>4. Asks(p)'
    BY <1>1, <1>5, <2>2 DEF JobFine, Asks, At, todo
  <2>5. HandFull(p)' /\ Owes(p)' /\ Lent(p)'
    BY <1>2, <2>2, <2>3 DEF HandFull, Owes, Lent, At
  <2> QED
    BY <2>1, <2>4, <2>5, BecomeFine DEF JobFine
<1>6. CASE job[p].asked = None /\ Len(todo) > 1
  <2>1. Become(p, next)
    BY <1>6 DEF Passed, todo
  <2>2. Tail(todo) \in Seq(Ids) /\ Tail(todo) # <<>>
    BY <1>2, <1>6
  <2>3. next \in Jobs
    BY <1>1, <2>2 DEF Jobs
  <2>4. /\ job'[p].pc = "refresh" /\ job'[p].todo = Tail(todo) /\ job'[p].asked = None
        /\ job'[p].owed = job[p].owed
    BY <1>1, <1>6, <2>1 DEF Become, TypeOK, Jobs
  <2>5. Owes(p)'
    BY <1>3, <1>4, <2>4 DEF Owes, At
  <2>6. HandFull(p)' /\ Asks(p)' /\ Lent(p)'
    BY <2>2, <2>4 DEF HandFull, Asks, Lent, At
  <2> QED
    BY <2>1, <2>3, <2>5, <2>6, BecomeFine DEF JobFine
<1>7. CASE job[p].asked = None /\ ~(Len(todo) > 1)
  <2>0. <<>> \in Seq(Ids)
    OBVIOUS
  <2>1. Become(p, swept) /\ swept \in Jobs
    BY <1>1, <1>7, <2>0 DEF Passed, Jobs, todo
  <2>2. /\ job'[p].pc = "swept" /\ job'[p].todo = <<>> /\ job'[p].asked = None
        /\ job'[p].owed = job[p].owed
    BY <1>1, <1>7, <2>1 DEF Become, TypeOK, Jobs
  <2>3. Owes(p)'
    BY <1>3, <1>4, <1>7, <2>2 DEF Owes, At
  <2>4. HandFull(p)' /\ Asks(p)' /\ Lent(p)'
    BY <2>2 DEF HandFull, Asks, Lent, At
  <2> QED
    BY <2>1, <2>3, <2>4, BecomeFine DEF JobFine
<1> QED
  BY <1>5, <1>6, <1>7

LEMMA EnterRefreshFine == ASSUME Inv, NEW p \in Procs, EnterRefresh(p) PROVE Inv'
<1> DEFINE id == Head(job[p].todo)
<1>1. /\ TypeOK /\ Unique /\ JobFine(p) /\ job[p] \in Jobs /\ Owes(p)
      /\ job[p].pc = "refresh" /\ job[p].todo # <<>>
  BY JobByJob DEF TypeOK, JobFine, HandFull, EnterRefresh, At
<1>2. CASE Raised(p)
  BY <1>2, DoneFine DEF Raised
<1>3. ASSUME NEW x \in EnabledRow(id), Passed(p), UNCHANGED Held,
             x.auth # "oauth" \/ \E m \in Material(p, x) : ~Due(m)
      PROVE  Inv'
  <2>1. x \in table /\ x.id = id
    BY DEF EnabledRow
  <2>2. \A o \in job[p].owed : o.id = id => \A s \in secrets' : s.n # o.n
    BY <1>1, <1>3, <2>1, NothingDue DEF Held
  <2>3. SecretsLater
    BY <1>1, <1>3, FewerLater DEF Held
  <2> QED
    BY <1>1, <1>3, <2>2, <2>3, PassedFine DEF Held
<1>4. ASSUME NEW x \in EnabledRow(id), UNCHANGED Held,
             Become(p, [job[p] EXCEPT !.pc = "renew", !.row = x])
      PROVE  Inv'
  <2> DEFINE j == [job[p] EXCEPT !.pc = "renew", !.row = x]
  <2>1. x \in table /\ x.id = id /\ x \in Rows
    BY <1>1 DEF EnabledRow, TypeOK
  <2>2. j \in Jobs
    BY <1>1, <2>1 DEF Jobs
  <2>3. /\ job'[p].pc = "renew" /\ job'[p].row = x /\ job'[p].owed = job[p].owed
        /\ job'[p].todo = job[p].todo /\ job'[p].asked = job[p].asked
    BY <1>1, <1>4 DEF Become, TypeOK, Jobs
  <2>4. SecretsLater /\ table' = table
    BY <1>1, <1>4, FewerLater DEF Held
  <2>5. \A o \in job[p].owed :
          /\ o.n <= stored'
          /\ \/ \A s \in secrets' : s.n # o.n
             \/ o.id \in Range(job[p].todo) /\ \E y \in table' : Where(p, y, o)'
    BY <1>1, <2>4, OwesOn
  <2>6. Owes(p)'
    BY <2>1, <2>3, <2>4, <2>5 DEF Owes, At
  <2>7. HandFull(p)' /\ Asks(p)' /\ Lent(p)'
    BY <1>1, <2>1, <2>3 DEF JobFine, HandFull, Asks, Lent, At
  <2> QED
    BY <1>4, <2>2, <2>6, <2>7, MoveFine DEF JobFine
<1> QED
  BY <1>2, <1>3, <1>4 DEF EnterRefresh

\* A refresh replaces the secret it was for.
LEMMA ReplaceLater ==
  ASSUME TypeOK, Unique, NEW p \in Procs, NEW x, NEW m \in Material(p, x), Due(m), Replace(p, x)
  PROVE  /\ SecretsLater
         /\ \A o : o.n \in Nat /\ o.n <= stored /\ Where(p, x, o) => \A s \in secrets' : s.n # o.n
<1> DEFINE place == Place(p, Given(x.store, "keyring"))
<1>1. PICK s \in secrets : s.at = place /\ s.ref = x.ref
  BY MaterialHeld
<1>2. place \in {"keyring"} \cup Procs /\ x.ref \in Ids
  BY <1>1 DEF TypeOK
<1>3. Put(place, x.ref, "fresh") /\ "fresh" \in Ages
  BY DEF Replace, Ages
<1> HIDE DEF place
<1>4. SecretsLater /\ \A t \in secrets' : t.at = place /\ t.ref = x.ref => t.n = stored + 1
  BY <1>2, <1>3, PutLater
<1>5. stored \in Nat
  BY AccountsAssumption DEF TypeOK
<1>6. ASSUME NEW o, o.n \in Nat, o.n <= stored, Where(p, x, o), NEW t \in secrets', t.n = o.n
      PROVE  FALSE
  <2>1. t.at = place /\ t.ref = x.ref
    BY <1>4, <1>6, OwedLasts DEF Where, place
  <2> QED
    BY <1>4, <1>5, <1>6, <2>1
<1> QED
  BY <1>4, <1>6

LEMMA RenewFine == ASSUME Inv, NEW p \in Procs, Renew(p) PROVE Inv'
<1> DEFINE x == job[p].row
<1>1. /\ TypeOK /\ Unique /\ Owes(p) /\ job[p] \in Jobs
      /\ job[p].pc = "renew" /\ x.id = Head(job[p].todo)
      /\ \A o \in job[p].owed : o.id = x.id => x \in table
  BY JobByJob DEF TypeOK, JobFine, Owes, Renew, At
<1> HIDE DEF x
<1>2. CASE Raised(p)
  BY <1>2, DoneFine DEF Raised
<1>3. ASSUME NEW m \in Material(p, x), ~Due(m), Passed(p), UNCHANGED Held
      PROVE  Inv'
  <2>1. \A o \in job[p].owed : o.id = Head(job[p].todo) => \A s \in secrets' : s.n # o.n
    BY <1>1, <1>3, NothingDue DEF Held
  <2>2. SecretsLater
    BY <1>1, <1>3, FewerLater DEF Held
  <2> QED
    BY <1>1, <1>3, <2>1, <2>2, PassedFine DEF Held
<1>4. ASSUME NEW m \in Material(p, x), Due(m), Replace(p, x), Passed(p), UNCHANGED table
      PROVE  Inv'
  <2>1. /\ SecretsLater
        /\ \A o : o.n \in Nat /\ o.n <= stored /\ Where(p, x, o) => \A s \in secrets' : s.n # o.n
    BY <1>1, <1>4, ReplaceLater
  <2>2. ASSUME NEW o \in job[p].owed, o.id = Head(job[p].todo)
        PROVE  \A s \in secrets' : s.n # o.n
    <3>1. x \in table /\ o.id = x.id
      BY <1>1, <2>2
    <3>2. o.n \in Nat /\ o.n <= stored
      BY <1>1 DEF Owes, Jobs
    <3>3. (\A s \in secrets : s.n # o.n) \/ Where(p, x, o)
      BY <1>1, <3>1, OwedHere
    <3> QED
      BY <1>1, <2>1, <3>2, <3>3, OwedLasts
  <2> QED
    BY <1>1, <1>4, <2>1, <2>2, PassedFine
<1> QED
  BY <1>2, <1>3, <1>4 DEF Renew, x

\* Everything that is due is listed when a sweep begins.
LEMMA BeginSweepFine == ASSUME Inv, NEW p \in Procs, BeginSweep(p) PROVE Inv'
<1> DEFINE listed == {x \in table : x.enabled}
<1>1. TypeOK /\ Unique /\ Idle \in Jobs /\ stored \in Nat
  BY JobByJob, IdleJob, AccountsAssumption DEF TypeOK
<1>2. PICK rows \in SeqOf(listed, MaxRows) :
        /\ Range(rows) = listed
        /\ Become(p, [Idle EXCEPT !.pc = IF rows = <<>> THEN "swept" ELSE "refresh",
                        !.todo = [i \in DOMAIN rows |-> rows[i].id],
                        !.owed = DueOf(p, listed)])
  BY DEF BeginSweep
<1> DEFINE todo == [i \in DOMAIN rows |-> rows[i].id]
           pc == IF rows = <<>> THEN "swept" ELSE "refresh"
           owed == DueOf(p, listed)
           j == [Idle EXCEPT !.pc = pc, !.todo = todo, !.owed = owed]
<1>3. PICK n \in Nat : rows \in [1..n -> listed]
  BY DEF SeqOf
<1>4. /\ todo \in Seq(Ids) /\ \A x \in listed : x.id \in Range(todo)
      /\ rows = <<>> => todo = <<>>
      /\ rows # <<>> => todo # <<>>
  <2>1. \A x \in listed : x \in Rows /\ x.id \in Ids
    BY <1>1 DEF TypeOK, Rows
  <2>2. DOMAIN rows = 1..n /\ todo \in [1..n -> Ids]
    BY <1>3, <2>1
  <2>3. \A x \in listed : \E i \in DOMAIN rows : x = rows[i]
    BY <1>2 DEF Range
  <2>4. \A x \in listed : x.id \in Range(todo)
    BY <2>3 DEF Range
  <2> QED
    BY <1>3, <2>2, <2>4
<1>5. ASSUME NEW o \in owed
      PROVE  /\ o \in [id : Ids, n : Nat] /\ o.n <= stored /\ o.id \in Range(todo)
             /\ \E x \in table : Where(p, x, o)
  <2>a. PICK x \in listed :
          x.auth = "oauth" /\ \E m \in Material(p, x) : Due(m) /\ o = [id |-> x.id, n |-> m.n]
    BY DEF DueOf
  <2>1. PICK m \in Material(p, x) :
          x.auth = "oauth" /\ Due(m) /\ o = [id |-> x.id, n |-> m.n]
    BY <2>a
  <2>2. PICK t \in secrets :
          /\ t.at = Place(p, Given(x.store, "keyring")) /\ t.ref = x.ref
          /\ t.n = m.n /\ t.age = m.age
    BY <1>1, <2>1, MaterialHeld
  <2>3. x \in table /\ x.id \in Ids /\ t.n \in 1..stored
    BY <1>1, <2>2 DEF TypeOK, Rows
  <2>4. \A s \in secrets : s.n = o.n => s = t
    BY <1>1, <2>1, <2>2 DEF Unique
  <2>5. Where(p, x, o)
    BY <1>1, <2>1, <2>2, <2>4, MaterialHeld DEF Where, Due
  <2> QED
    BY <1>1, <1>4, <2>1, <2>2, <2>3, <2>5
<1>6. Become(p, j)
  BY <1>2
<1>7. owed = {} \/ rows # <<>>
  BY <1>4, <1>5 DEF Range
<1> HIDE DEF owed, todo
<1>8. j \in Jobs
  <2>1. owed \in SUBSET [id : Ids, n : Nat]
    BY <1>5
  <2> QED
    BY <1>1, <1>4, <2>1 DEF Jobs
<1>9. /\ job'[p].pc = pc /\ job'[p].todo = todo /\ job'[p].owed = owed /\ job'[p].asked = None
  BY <1>1, <1>6, IdleJob DEF Become, TypeOK, Jobs
<1>10. UNCHANGED <<table, secrets, stored>>
  BY DEF BeginSweep, Held
<1>11. \A x, o : Where(p, x, o)' <=> Where(p, x, o)
  BY <1>10 DEF Where
<1>12. Owes(p)'
  BY <1>4, <1>5, <1>9, <1>10, <1>11 DEF Owes, At
<1>13. HandFull(p)' /\ Asks(p)' /\ Lent(p)'
  BY <1>4, <1>9 DEF HandFull, Asks, Lent, At
<1> QED
  BY <1>6, <1>8, <1>10, <1>12, <1>13, MoveFine DEF JobFine, Held

-----------------------------------------------------------------------------
(* Leasing.                                                                *)

LEMMA BeginLeaseFine == ASSUME Inv, NEW p \in Procs, BeginLease(p) PROVE Inv'
<1>1. TypeOK /\ Idle \in Jobs /\ "lasting" \in Ages
  BY JobByJob, IdleJob DEF Ages
<1> DEFINE Age(request, chosen) == IF chosen.source = "runtime" THEN request.runtime.age ELSE "lasting"
           Begun(request, chosen) ==
             LET asking == [Idle EXCEPT !.asked = [request |-> request, chosen |-> chosen.profile]]
             IN IF chosen.source \in {"runtime", "environment"}
                THEN [asking EXCEPT !.pc = "using",
                        !.lent = [row |-> chosen.profile, age |-> Age(request, chosen)]]
                ELSE [asking EXCEPT !.pc = "refresh", !.todo = <<chosen.profile.id>>]
<1>a. PICK request \in Requests :
        \E chosen \in Resolve(Catalog, table, Environ, request) : Become(p, Begun(request, chosen))
  BY DEF BeginLease
<1>2. PICK chosen \in Resolve(Catalog, table, Environ, request) : Become(p, Begun(request, chosen))
  BY <1>a
<1> DEFINE x == chosen.profile
           asked == [request |-> request, chosen |-> x]
           asking == [Idle EXCEPT !.asked = asked]
           age == Age(request, chosen)
           lent == [row |-> x, age |-> age]
           using == [asking EXCEPT !.pc = "using", !.lent = lent]
           refresh == [asking EXCEPT !.pc = "refresh", !.todo = <<x.id>>]
<1>3. Matches(x, request) /\ x.enabled
  BY ResolveRight
<1>4. asked.request = request /\ asked.chosen = x /\ lent.row = x /\ lent.age = age
  OBVIOUS
<1> HIDE DEF Age
<1>5. CASE chosen.source \in {"runtime", "environment"}
  <2>0. /\ age \in Ages
        /\ x.auth = "oauth" /\ age = "expired" => request.runtime # None
    <3>1. CASE chosen.source = "runtime"
      BY <3>1, ResolveRight, CatalogAssumption DEF Age
    <3>2. CASE chosen.source # "runtime"
      BY <1>1, <1>5, <3>2, ResolveRight DEF Age
    <3> QED
      BY <3>1, <3>2
  <2>1. x \in Supplied /\ Become(p, using)
    BY <1>2, <1>5, ResolveRight
  <2>2. /\ asked \in [request : Requests, chosen : Rows \cup Supplied]
        /\ lent \in [row : Rows \cup Supplied, age : Ages]
    BY <1>1, <2>0, <2>1
  <2> HIDE DEF asked, lent, x, age
  <2>3. asking \in Jobs /\ asking.asked = asked /\ asking.owed = {}
    BY <1>1, <2>2, IdleJob DEF Jobs
  <2> HIDE DEF asking
  <2>4. using \in Jobs
    BY <2>2, <2>3 DEF Jobs
  <2>5. /\ job'[p].pc = "using" /\ job'[p].asked = asked /\ job'[p].lent = lent
        /\ job'[p].owed = {}
    BY <1>1, <2>1, <2>3 DEF Become, TypeOK, Jobs
  <2>6. JobFine(p)'
    BY <1>3, <1>4, <2>0, <2>1, <2>5 DEF JobFine, HandFull, Owes, Asks, Lent, At
  <2> QED
    BY <2>1, <2>4, <2>6, MoveFine DEF BeginLease
<1>6. CASE chosen.source \notin {"runtime", "environment"}
  <2>1. x \in table /\ Become(p, refresh)
    BY <1>2, <1>6, ResolveRight
  <2>2. x \in Rows /\ x.id \in Ids
    BY <1>1, <2>1 DEF TypeOK, Rows
  <2>3. asked \in [request : Requests, chosen : Rows \cup Supplied]
    BY <2>2
  <2> HIDE DEF asked, x
  <2>4. asking \in Jobs /\ asking.asked = asked /\ asking.owed = {}
    BY <1>1, <2>3, IdleJob DEF Jobs
  <2>5. <<x.id>> \in Seq(Ids) /\ <<x.id>> # <<>>
    BY <2>2
  <2> HIDE DEF asking
  <2>6. refresh \in Jobs
    BY <2>4, <2>5 DEF Jobs
  <2>7. /\ job'[p].pc = "refresh" /\ job'[p].asked = asked /\ job'[p].todo = <<x.id>>
        /\ job'[p].owed = {}
    BY <1>1, <2>1, <2>4 DEF Become, TypeOK, Jobs
  <2>8. JobFine(p)'
    BY <1>3, <1>4, <2>5, <2>7 DEF JobFine, HandFull, Owes, Asks, Lent, At
  <2> QED
    BY <2>1, <2>6, <2>8, MoveFine DEF BeginLease
<1> QED
  BY <1>5, <1>6

\* The row that is lent is the one chosen, and in service.
LEMMA LendFine ==
  ASSUME Inv, NEW p \in Procs, At(p, "take"), NEW x \in table, x.enabled, x.id = Head(job[p].todo),
         NEW age \in Ages, x.auth = "oauth" => age # "expired",
         Lend(p, x, age), UNCHANGED table, SecretsLater
  PROVE  Inv'
<1> DEFINE lent == [row |-> x, age |-> age]
           j == [job[p] EXCEPT !.pc = "using", !.row = None, !.todo = <<>>, !.lent = lent]
           asked == job[p].asked
<1>1. /\ TypeOK /\ job[p] \in Jobs /\ asked # None /\ Matches(asked.chosen, asked.request)
      /\ job[p].owed = {} /\ job[p].todo = <<asked.chosen.id>>
  BY JobByJob DEF TypeOK, JobFine, Asks, At
<1>2. x.id = asked.chosen.id
  BY <1>1
<1>3. lent \in [row : Rows \cup Supplied, age : Ages] /\ lent.row = x /\ lent.age = age
  BY <1>1 DEF TypeOK
<1>4. <<>> \in Seq(Ids) /\ Become(p, j)
  BY DEF Lend
<1> HIDE DEF lent, asked
<1>5. j \in Jobs
  BY <1>1, <1>3, <1>4 DEF Jobs
<1>6. /\ job'[p].pc = "using" /\ job'[p].lent = lent /\ job'[p].asked = asked
      /\ job'[p].owed = {}
  BY <1>1, <1>4 DEF Become, TypeOK, Jobs, asked
<1>7. JobFine(p)'
  BY <1>1, <1>2, <1>3, <1>6 DEF JobFine, HandFull, Owes, Asks, Lent, At
<1> QED
  BY <1>4, <1>5, <1>7, BecomeFine

LEMMA TakeFine == ASSUME Inv, NEW p \in Procs, Take(p) PROVE Inv'
<1>1. TypeOK /\ Unique /\ At(p, "take")
  BY JobByJob DEF Take
<1>2. \A x \in StillEnabled(Head(job[p].todo)) :
        x \in table /\ x.enabled /\ x.id = Head(job[p].todo)
  BY DEF StillEnabled, EnabledRow
<1>3. "lasting" \in Ages /\ "fresh" \in Ages
  BY DEF Ages
<1>4. CASE Raised(p)
  BY <1>4, DoneFine DEF Raised
<1>5. ASSUME UNCHANGED Held
      PROVE  SecretsLater /\ UNCHANGED table
  BY <1>1, <1>5, FewerLater DEF Held
<1>6. ASSUME NEW x \in StillEnabled(Head(job[p].todo)), x.auth \in {"anonymous", "delegated"},
             Lend(p, x, "lasting"), UNCHANGED Held
      PROVE  Inv'
  BY <1>1, <1>2, <1>3, <1>5, <1>6, LendFine
<1>7. ASSUME NEW x \in StillEnabled(Head(job[p].todo)), NEW m \in Material(p, x),
             ~(x.auth = "oauth" /\ m.age = "expired"), Lend(p, x, m.age), UNCHANGED Held
      PROVE  Inv'
  <2>1. m.age \in Ages
    BY <1>1, MaterialHeld
  <2> QED
    BY <1>1, <1>2, <1>5, <1>7, <2>1, LendFine
<1>8. ASSUME NEW x \in StillEnabled(Head(job[p].todo)), NEW m \in Material(p, x),
             m.age = "expired", Replace(p, x), Lend(p, x, "fresh"), UNCHANGED table
      PROVE  Inv'
  <2>1. SecretsLater
    BY <1>1, <1>8, ReplaceLater DEF Due
  <2> QED
    BY <1>1, <1>2, <1>3, <1>8, <2>1, LendFine
<1> QED
  BY <1>4, <1>6, <1>7, <1>8 DEF Take

-----------------------------------------------------------------------------
(* The whole.                                                              *)

LEMMA ExitFine == ASSUME Inv, NEW p \in Procs, Exit(p) PROVE Inv'
<1>1. TypeOK /\ Unique
  BY JobByJob
<1>2. SecretsLater
  BY <1>1, FewerLater DEF Exit
<1>3. job'[p] = Idle
  BY <1>1 DEF Exit, Done, Become, TypeOK
<1>4. Idle \in Jobs /\ JobFine(p)'
  BY <1>3, IdleFine
<1> QED
  BY <1>2, <1>4, BecomeFine DEF Exit, Done

LEMMA GrowFine == ASSUME Inv, Grow PROVE Inv'
<1>1. TypeOK /\ Unique /\ \A p \in Procs : JobFine(p)
  BY JobByJob
<1>2. SecretsLater /\ UNCHANGED <<table, job>>
  BY <1>1, GrowLater DEF Grow
<1>3. TypeOK' /\ Unique'
  BY <1>1, <1>2 DEF TypeOK, Unique, SecretsLater
<1>4. \A p \in Procs : JobFine(p)'
  BY <1>1, <1>2, OwesLasts
<1> QED
  BY <1>3, <1>4, JobByJobNext

LEMMA InitInv == Init => Inv
<1> SUFFICES ASSUME Init PROVE Inv
  OBVIOUS
<1>1. TypeOK /\ Unique
  BY IdleJob, AccountsAssumption DEF Init, TypeOK, Unique
<1>2. \A p \in Procs : JobFine(p)
  BY IdleJob DEF Init, JobFine, HandFull, Owes, Asks, Lent, At
<1> QED
  BY <1>1, <1>2, JobByJob

LEMMA NextInv == Inv /\ [Next]_vars => Inv'
<1> SUFFICES ASSUME Inv, [Next]_vars PROVE Inv'
  OBVIOUS
<1>1. ASSUME NEW p \in Procs, Step(p)
      PROVE  Inv'
  <2>1. CASE SignIn(p)
    BY <2>1, SignInFine
  <2>2. CASE \/ ReadRow(p, "sign_out", "forget") \/ Forget(p) \/ Erase(p)
             \/ ReadRow(p, "switch", "set") \/ SetEnabled(p)
             \/ AddProfile(p) \/ RemoveProfile(p)
    BY <2>2, RowFine
  <2>3. CASE BeginSweep(p)
    BY <2>3, BeginSweepFine
  <2>4. CASE EnterRefresh(p)
    BY <2>4, EnterRefreshFine
  <2>5. CASE Renew(p)
    BY <2>5, RenewFine
  <2>6. CASE EndSweep(p) \/ GiveBack(p)
    BY <2>6, DoneFine DEF EndSweep, GiveBack
  <2>7. CASE BeginLease(p)
    BY <2>7, BeginLeaseFine
  <2>8. CASE Take(p)
    BY <2>8, TakeFine
  <2>9. CASE Exit(p)
    BY <2>9, ExitFine
  <2> QED
    BY <1>1, <2>1, <2>2, <2>3, <2>4, <2>5, <2>6, <2>7, <2>8, <2>9 DEF Step
<1>2. CASE UNCHANGED vars
  <2>1. TypeOK /\ Unique /\ \A p \in Procs : JobFine(p)
    BY JobByJob
  <2>2. SecretsLater /\ UNCHANGED <<table, job>>
    BY <1>2, <2>1, FewerLater DEF vars
  <2>3. TypeOK' /\ Unique'
    BY <1>2, <2>1 DEF vars, TypeOK, Unique
  <2>4. \A p \in Procs : JobFine(p)'
    BY <2>1, <2>2, OwesLasts
  <2> QED
    BY <2>3, <2>4, JobByJobNext
<1> QED
  BY <1>1, <1>2, GrowFine DEF Next

LEMMA Invariant == Spec => []Inv
BY InitInv, NextInv, PTL DEF Spec

\* The profile table and the secret stores stay well formed whatever the processes do, and
\* no sign-in as a client of our own is ever under way on a route whose terms do not permit
\* it (login.py permits_third_party_client), for any catalogue and any number of processes.
THEOREM AccountsInvariant == Spec => []IInv
<1>1. Inv => IInv
  BY DEF Inv
<1> QED
  BY <1>1, Invariant, PTL

\* A sweep that returns (broker.py refresh_due) leaves no material that was due when it
\* began, whatever other processes sign in, sign out, switch and refresh meanwhile.
THEOREM SweepDealsWithAll == Spec => []SweepRenewsAll
<1>1. Inv => SweepRenewsAll
  <2> SUFFICES ASSUME Inv, NEW p \in Procs, At(p, "swept"), NEW o \in job[p].owed
               PROVE  \A s \in secrets : s.n # o.n
    BY DEF SweepRenewsAll
  <2>1. Owes(p) /\ job[p].todo = <<>>
    BY JobByJob DEF JobFine, Owes
  <2> QED
    BY <2>1 DEF Owes, Range
<1> QED
  BY <1>1, Invariant, PTL

\* What a lease hands out (broker.py lease, auth.py lease) is the profile that was chosen
\* for the request, in service and not expired unless the caller supplied it so, though the
\* row is read three times and may be written in between; if it was not, it is what the call
\* asked for or supplied.
THEOREM LentIsChosen == Spec => []LentAsAsked
<1>1. Inv => LentAsAsked
  BY DEF Inv
<1> QED
  BY <1>1, Invariant, PTL

\* Selector and broker choose alike for every provider of the catalogue, billing kind and
\* environment.
ChosenAlike ==
  \A p \in DOMAIN Catalog.providers : \A kind, environ : Agree(Catalog, table, environ, p, kind)

\* Whatever processes write to the table, whenever the selector (selection.py
\* _resolve_profile) names a profile, the broker (broker.py resolve) takes that one and no
\* other; the broker never takes a disabled one, or one that bills otherwise than asked, and
\* turns to the environment only where the selector names none.  Where the selector refuses
\* - several billing kinds to choose from, or a credential the provider does not declare -
\* the theorem does not say what the broker takes: it may be a stored profile.
THEOREM SelectorMatchesBroker == Spec => []ChosenAlike
<1>1. IInv => ChosenAlike
  <2> SUFFICES ASSUME IInv, NEW p \in DOMAIN Catalog.providers, NEW kind, NEW environ
               PROVE  Agree(Catalog, table, environ, p, kind)
    BY DEF ChosenAlike
  <2>1. Catalog.providers[p].id = p
    BY CatalogAssumption
  <2>2. \A x \in table : x.id # None /\ x.priority \in Int /\ ProfileRank[x.id] \in Int
    BY CatalogAssumption DEF IInv, TypeOK, Rows
  <2>3. \A x, y \in table : x.id = y.id => x = y
    BY DEF IInv, Unique
  <2> QED
    BY <2>1, <2>2, <2>3, SelectorAndBroker
<1> QED
  BY <1>1, AccountsInvariant, PTL
=============================================================================
