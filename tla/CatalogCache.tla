----------------------------- MODULE CatalogCache -----------------------------
(***************************************************************************)
(* The local copy of the models.dev catalogue (ModelsDevSource, catalog.py)*)
(* and the calls that use it: Catalog.from_cache_or_sync, which every      *)
(* command makes, and ModelsDevSource.sync, which "catalog sync" makes.    *)
(* Processes share the file and nothing else: no lock.  The source may be  *)
(* down or answer rubbish, the disk may fail, a process may die anywhere,  *)
(* and the file may be damaged from outside.                               *)
(*                                                                         *)
(* A document is the place in `upstream` where it was published; what a    *)
(* call serves is the catalogue built from it with the overlays.           *)
(***************************************************************************)
EXTENDS Selection

CONSTANTS
  Procs,       \* processes
  Torn,        \* what a file holds that was written in part, or is no envelope
  Garbled,     \* what a file holds that is not UTF-8
  Documents,   \* the raw documents the source publishes, in order
  Overlays,    \* the overlays of the application, the shipped one first
  MaxAge,      \* max_age: how old a cache is good enough
  MaxTime,     \* bound on the clock
  MaxDamages   \* bound on how often the file is damaged

\* What a whole file holds; its date is None if it cannot be read as one.  History:
\* whether the date was changed after the file was written - the digest covers the
\* document only.
Envelopes == [doc : 1..Len(Documents), at : (0..MaxTime) \cup {None},
              digest : (1..Len(Documents)) \cup {None}, redated : BOOLEAN]

ASSUME CacheAssumption ==
  /\ Len(Documents) \in Nat \ {0}
  /\ MaxAge \in Nat /\ MaxTime \in Nat /\ MaxDamages \in Nat
  /\ None \notin Envelopes /\ Torn \notin Envelopes /\ Garbled \notin Envelopes
  /\ None \notin 0..MaxTime /\ None # Garbled /\ Torn \notin {None, Garbled}

\* Providers and models have ids that are not empty, in documents and in overlays.
ASSUME DocumentsAssumption ==
  /\ \A d \in 1..Len(Documents) : \A p \in DOMAIN Documents[d] :
       p # None /\ \A id \in DOMAIN Documents[d][p].models : Identifier(id)
  /\ Len(Overlays) \in Nat
  /\ \A i \in 1..Len(Overlays) :
       LET entries == Overlays[i].entries
       IN /\ Len(entries) \in Nat
          /\ \A j \in 1..Len(entries) :
               entries[j].id # None /\ \A id \in DOMAIN entries[j].models : Identifier(id)

VARIABLES
  now,        \* the clock
  upstream,   \* upstream[d]: when document d was published; the last is current
  cache,      \* the file: None, Torn, Garbled, or an envelope
  temps,      \* temps[p]: p's temporary file: None, Torn, or an envelope
  damages,    \* how often the file was damaged
  call        \* call[p]: [pc, kind, began, down, doc, at, redated]

vars == <<now, upstream, cache, temps, damages, call>>

Idle == [pc |-> "idle", kind |-> None, began |-> 0, down |-> FALSE, doc |-> None, at |-> None,
         redated |-> FALSE]

Envelope(doc, at) == [doc |-> doc, at |-> at, digest |-> doc, redated |-> FALSE]
Current == Len(upstream)

Init ==
  /\ now = 0
  /\ upstream = <<0>>
  /\ cache = None
  /\ temps = [p \in Procs |-> None]
  /\ damages = 0
  /\ call = [p \in Procs |-> Idle]

At(p, pc) == call[p].pc = pc
Goto(p, pc) == call' = [call EXCEPT ![p].pc = pc]
Serve(p, file) == call' = [call EXCEPT ![p].pc = "served", ![p].doc = file.doc, ![p].at = file.at,
                                       ![p].redated = file.redated]
Fail(p) == call' = [call EXCEPT ![p] = [Idle EXCEPT !.pc = "failed"]]
World == <<now, upstream, damages>>

-----------------------------------------------------------------------------
(* A call.                                                                 *)

\* "catalog sync" fetches whatever the cache says; every other command may use it.
Begin(p, kind) ==
  /\ call[p].pc \in {"idle", "served", "failed"}
  /\ call' = [call EXCEPT ![p] = [Idle EXCEPT !.pc = IF kind = "sync" THEN "fetch" ELSE "load",
                                              !.kind = kind, !.began = now]]
  /\ UNCHANGED <<World, cache, temps>>

\* load_cache: no valid cache and a stale one are CatalogUnavailable, which the caller
\* handles; a digest that does not match is a CatalogError, and a file that is not UTF-8 or
\* a date that is none an error of the library: for those there is no fallback.
Usable(file) == file \notin {None, Torn, Garbled}
Matches(file) == file.digest = file.doc

\* Mutant: a cache is good enough whatever its age.
MutantTooOld(file) == FALSE

TooOld(file) == now - file.at > MaxAge

LoadCache(p) ==
  /\ At(p, "load")
  /\ \/ cache \in {None, Torn} /\ Goto(p, "fetch")
     \/ cache = Garbled /\ Fail(p)
     \/ Usable(cache) /\ (~Matches(cache) \/ cache.at = None) /\ Fail(p)
     \/ /\ Usable(cache) /\ Matches(cache) /\ cache.at # None
        /\ IF TooOld(cache) THEN Goto(p, "fetch") ELSE Serve(p, cache)
  /\ UNCHANGED <<World, cache, temps>>

\* The transport's answer: the document then current.
Fetch(p) ==
  /\ At(p, "fetch")
  /\ call' = [call EXCEPT ![p].pc = "stamp", ![p].doc = Current]
  /\ UNCHANGED <<World, cache, temps>>

\* No answer, or one that is not JSON: from_cache_or_sync looks at the cache once more.
SourceDown(p) ==
  /\ At(p, "fetch")
  /\ \/ call[p].kind = "sync" /\ Fail(p)
     \/ call[p].kind = "load" /\ call' = [call EXCEPT ![p].pc = "fallback", ![p].down = TRUE]
  /\ UNCHANGED <<World, cache, temps>>

\* An empty answer is a CatalogError, for which there is no fallback.
EmptyAnswer(p) == At(p, "fetch") /\ Fail(p) /\ UNCHANGED <<World, cache, temps>>

\* Mutant: the cache itself is opened for writing, without a temporary file.
MutantMakeTemp(p) ==
  /\ At(p, "stamp")
  /\ call' = [call EXCEPT ![p].pc = "write", ![p].at = now]
  /\ temps' = [temps EXCEPT ![p] = Torn]
  /\ cache' = Torn
  /\ UNCHANGED World

\* fetched_at is the time after the answer; then mkstemp in the cache's directory.
MakeTemp(p) ==
  /\ At(p, "stamp")
  /\ call' = [call EXCEPT ![p].pc = "write", ![p].at = now]
  /\ temps' = [temps EXCEPT ![p] = Torn]
  /\ UNCHANGED <<World, cache>>

\* json.dump, flush, fsync, chmod.
WriteTemp(p) ==
  /\ At(p, "write")
  /\ temps' = [temps EXCEPT ![p] = Envelope(call[p].doc, call[p].at)]
  /\ Goto(p, "replace")
  /\ UNCHANGED <<World, cache>>

\* os.replace; the caller is given what was fetched, not what the file holds.
Replace(p) ==
  /\ At(p, "replace")
  /\ cache' = temps[p]
  /\ temps' = [temps EXCEPT ![p] = None]
  /\ Goto(p, "served")
  /\ UNCHANGED World

\* Mutant: the temporary file is not unlinked when the disk fails.
MutantDiskFails(p) ==
  /\ call[p].pc \in {"stamp", "write", "replace"}
  /\ Fail(p)
  /\ UNCHANGED <<World, cache, temps>>

\* Any OSError of the disk: the temporary file is unlinked and the error escapes, with
\* the fetched document.
DiskFails(p) ==
  /\ call[p].pc \in {"stamp", "write", "replace"}
  /\ temps' = [temps EXCEPT ![p] = None]
  /\ Fail(p)
  /\ UNCHANGED <<World, cache>>

\* Mutant: without a usable cache, the source is asked again until it answers.
MutantFallback(p) ==
  /\ At(p, "fallback")
  /\ \/ Usable(cache) /\ Matches(cache) /\ Serve(p, cache)
     \/ ~(Usable(cache) /\ Matches(cache)) /\ Goto(p, "fetch")
  /\ UNCHANGED <<World, cache, temps>>

\* load_cache(max_age=None), after the source did not answer: the date is not read.
Fallback(p) ==
  /\ At(p, "fallback")
  /\ \/ Usable(cache) /\ Matches(cache) /\ Serve(p, cache)
     \/ ~(Usable(cache) /\ Matches(cache)) /\ Fail(p)
  /\ UNCHANGED <<World, cache, temps>>

\* A temporary file that is there stays, and nobody ever reads it.
Crash(p) ==
  /\ call[p].pc \in {"load", "fetch", "stamp", "write", "replace", "fallback"}
  /\ call' = [call EXCEPT ![p] = Idle]
  /\ temps' = [temps EXCEPT ![p] = None]
  /\ UNCHANGED <<World, cache>>

-----------------------------------------------------------------------------
(* The world.                                                              *)

Publish ==
  /\ Current < Len(Documents)
  /\ upstream' = Append(upstream, now)
  /\ UNCHANGED <<now, cache, temps, damages, call>>

Tick == now < MaxTime /\ now' = now + 1 /\ UNCHANGED <<upstream, cache, temps, damages, call>>

\* A disk that loses part of the file, a hand that edits the document or its date, or
\* removes the file.
Damage ==
  /\ cache # None
  /\ damages < MaxDamages /\ damages' = damages + 1
  /\ \/ cache' \in {None, Torn, Garbled}
     \/ Usable(cache) /\ cache' = [cache EXCEPT !.digest = None]
     \/ /\ Usable(cache)
        /\ \E at \in (0..MaxTime) \cup {None} : cache' = [cache EXCEPT !.at = at, !.redated = TRUE]
  /\ UNCHANGED <<now, upstream, temps, call>>

Step(p) ==
  \/ LoadCache(p) \/ Fetch(p) \/ SourceDown(p) \/ EmptyAnswer(p)
  \/ MakeTemp(p) \/ WriteTemp(p) \/ Replace(p) \/ DiskFails(p) \/ Fallback(p)

Next ==
  \/ \E p \in Procs : Step(p) \/ Crash(p)
  \/ \E p \in Procs, kind \in {"load", "sync"} : Begin(p, kind)
  \/ Publish \/ Tick \/ Damage

\* A running call goes on: nothing in it waits for another process.
Spec == Init /\ [][Next]_vars /\ \A p \in Procs : WF_vars(Step(p))

-----------------------------------------------------------------------------
(* What the cache promises.                                                *)

Places == {"idle", "load", "fetch", "stamp", "write", "replace", "fallback", "served", "failed"}

Calls == [pc : Places, kind : {None, "load", "sync"}, began : 0..MaxTime, down : BOOLEAN,
          doc : (1..Len(Documents)) \cup {None}, at : (0..MaxTime) \cup {None}, redated : BOOLEAN]

TypeOK ==
  /\ now \in 0..MaxTime
  /\ upstream \in Seq(0..MaxTime) /\ Len(upstream) \in 1..Len(Documents)
  /\ cache \in Envelopes \cup {None, Torn, Garbled}
  /\ temps \in [Procs -> Envelopes \cup {None, Torn}]
  /\ damages \in 0..MaxDamages
  /\ call \in [Procs -> Calls]

\* A document and a date that go together: it was published by then.
Honest(doc, at) == doc \in 1..Current /\ at \in 0..now /\ upstream[doc] <= at

Published == \A d \in 1..Current : upstream[d] <= now

\* The file, whose date is honest unless it was changed, and what is about to be written.
FilesHonest ==
  /\ Usable(cache) => /\ cache.doc \in 1..Current
                      /\ ~cache.redated => Honest(cache.doc, cache.at)
  /\ \A p \in Procs :
       /\ At(p, "stamp") => call[p].doc \in 1..Current
       /\ At(p, "write") \/ At(p, "replace") => Honest(call[p].doc, call[p].at)

\* Only a whole file is renamed, and nobody leaves one behind.
TempsWhole ==
  \A p \in Procs :
    /\ At(p, "replace") => temps[p] = Envelope(call[p].doc, call[p].at)
    /\ temps[p] # None => call[p].pc \in {"write", "replace"}

\* What a call fetched is no older than the call; only a load falls back to the cache.
Dated ==
  \A p \in Procs :
    /\ call[p].began <= now
    /\ At(p, "load") => call[p].kind = "load"
    /\ At(p, "fallback") => call[p].kind = "load" /\ call[p].down
    /\ At(p, "write") \/ At(p, "replace") => call[p].at >= call[p].began
    /\ call[p].redated => At(p, "served") /\ call[p].kind = "load"

\* What a call serves is a document that was published, whatever happened to the file, and
\* its date is honest unless it comes from a file whose date was changed.  By that date
\* it was at most max_age old when the call began, or the call asked the source and it
\* was down; "catalog sync" serves nothing older than itself, and nothing redated.
ServedIsHonest ==
  \A p \in Procs : At(p, "served") =>
    /\ call[p].doc \in 1..Current
    /\ ~call[p].redated => Honest(call[p].doc, call[p].at)
    /\ ~call[p].down => call[p].at # None /\ call[p].began - call[p].at <= MaxAge
    /\ call[p].kind = "sync" => ~call[p].redated /\ call[p].at >= call[p].began

\* Whatever is written, in whichever order processes fetch, write, fail and die, the
\* files that will or may become the cache hold a whole document under its own digest,
\* with a date on which it had been published; the cache does but for what was done to it
\* from outside since; a finished call leaves no file behind.
IInv == TypeOK /\ Published /\ FilesHonest /\ TempsWhole /\ Dated /\ ServedIsHonest

\* No step of a call ever leaves a file that the next reader could not use, or that does
\* not match its digest: only damage from outside does, and until then readers see the
\* file as one writer or another left it.
OnlyWholeReplaced ==
  [][cache' # cache => (Usable(cache') /\ Matches(cache')) \/ Damage]_vars

\* Every call ends, with a catalogue or an error, whatever the source and the disk do.
CallEnds ==
  \A p \in Procs : call[p].pc \in {"load", "fetch"} ~> call[p].pc \in {"served", "failed", "idle"}

\* The catalogue of each document.
Built == [doc \in 1..Len(Documents) |-> FromModelsDev(Documents[doc], Overlays)]

\* Providers as they are listed, or spelt otherwise.
Spellings(catalog) == DOMAIN catalog.providers \cup DOMAIN NormalForm

\* Intents that ask for a provider's model by one segment, or by words to search.
Asked(catalog) ==
  {[model |-> None, provider |-> p, role |-> None, query |-> q] :
      p \in Spellings(catalog), q \in DOMAIN Score}
  \cup {[model |-> <<Last(m.id)>>, provider |-> p, role |-> None, query |-> None] :
      p \in Spellings(catalog), m \in AllModels(catalog)}

\* A request for a provider's model, by a plain id or by a search, finds only models of
\* the provider whose id is what was asked for in normal form, unless what is asked for
\* is an alias; a qualified id is looked up whatever the provider asked for.  An alias
\* or a role that stands for a qualified id finds one model or, if that is not in the
\* document, none.
LookupsStay(catalog) ==
  /\ \A intent \in Asked(catalog) : \A m \in Meant(catalog, intent) :
       (intent.model = None \/ ~IsAlias(catalog, intent.model)) /\ ~IsAlias(catalog, <<intent.provider>>)
         => m.provider = Normalized(intent.provider)
  /\ \A name \in DOMAIN catalog.aliases :
       OfProvider(Aliased(catalog, name)) => Cardinality(ModelsNamed(catalog, name, None)) <= 1
  /\ \A role \in DOMAIN catalog.roles :
       OfProvider(Aliased(catalog, catalog.roles[role])) =>
         Cardinality(Meant(catalog, [model |-> None, provider |-> None, role |-> role,
                                     query |-> None])) <= 1

\* Whether a document makes such a catalogue.
Sound == [doc \in 1..Len(Documents) |-> WellFormed(Built[doc]) /\ LookupsStay(Built[doc])]

\* In every catalogue that is served, whatever the overlays derive, correct or add, each
\* model is listed under its own provider and, if that is spelt in normal form, found by
\* its qualified id; and a plain id or a search stays with the provider asked for.
ServedIsWellFormed == \A p \in Procs : At(p, "served") => Sound[call[p].doc]
=============================================================================
