-------------------------- MODULE CatalogueProofs --------------------------
(***************************************************************************)
(* The catalogue from its file to the screen.                              *)
(*                                                                         *)
(* CatalogCache for every number of processes, every list of documents,    *)
(* every age limit and every clock: the cache file is only ever replaced   *)
(* by a whole one, and what is served was published, by the date it        *)
(* carries unless that was changed in the file, and is well formed.        *)
(*                                                                         *)
(* Picker for every well-formed catalogue, every table of profiles and     *)
(* every order of keys: what is on the screen belongs together, and a plan *)
(* is what the screen showed.                                              *)
(***************************************************************************)
EXTENDS CatalogCache, Picker, SequenceTheorems, FiniteSetTheorems, WellFoundedInduction, TLAPS

-----------------------------------------------------------------------------
(* Files and dates.                                                        *)

\* A file with everything in it is usable, and its digest fits.
LEMMA EnvelopeWhole ==
  ASSUME NEW doc \in 1..Len(Documents), NEW at \in 0..MaxTime
  PROVE  /\ Envelope(doc, at) \in Envelopes
         /\ Usable(Envelope(doc, at)) /\ Matches(Envelope(doc, at))
         /\ Envelope(doc, at).doc = doc /\ Envelope(doc, at).at = at
         /\ ~Envelope(doc, at).redated
<1>1. Envelope(doc, at) \in Envelopes
  BY DEF Envelope, Envelopes
<1> QED
  BY <1>1, CacheAssumption DEF Envelope, Usable, Matches

\* What is usable is a file with everything in it.
LEMMA UsableWhole ==
  ASSUME NEW file \in Envelopes \cup {None, Torn, Garbled}, Usable(file)
  PROVE  /\ file \in Envelopes /\ file.doc \in 1..Len(Documents)
         /\ file.at \in (0..MaxTime) \cup {None} /\ file.redated \in BOOLEAN
BY DEF Usable, Envelopes

\* Neither the passing of time nor a publication makes a date dishonest.
LEMMA HonestLasts ==
  ASSUME TypeOK, Tick \/ Publish, NEW doc, NEW at \in 0..MaxTime, Honest(doc, at)
  PROVE  Honest(doc, at)'
<1>0. MaxTime \in Nat
  BY CacheAssumption
<1>1. CASE Tick
  BY <1>0, <1>1 DEF Tick, Honest, Current, TypeOK
<1>2. CASE Publish
  <2>1. Len(upstream') = Len(upstream) + 1 /\ \A d \in 1..Len(upstream) : upstream'[d] = upstream[d]
    BY <1>2 DEF Publish, TypeOK
  <2> QED
    BY <1>2, <2>1 DEF Publish, Honest, Current, TypeOK
<1> QED
  BY <1>1, <1>2

-----------------------------------------------------------------------------
(* The inductive invariant.                                                *)

LEMMA InitIInv == ASSUME Init PROVE IInv
<1> USE CacheAssumption
<1>1. upstream \in Seq(0..MaxTime) /\ Len(upstream) = 1
  BY DEF Init
<1>2. TypeOK
  BY <1>1 DEF Init, TypeOK, Calls, Places, Idle
<1>3. Published
  BY DEF Init, Published, Current
<1>4. FilesHonest /\ TempsWhole /\ Dated /\ ServedIsHonest
  BY DEF Init, FilesHonest, TempsWhole, Dated, ServedIsHonest, Usable, At, Idle
<1> QED
  BY <1>2, <1>3, <1>4 DEF IInv

\* What must be so of one call and its file, as the parts of IInv say it of every call.
CallFine(p) ==
  /\ At(p, "stamp") => call[p].doc \in 1..Current
  /\ call[p].pc \in {"write", "replace"} => Honest(call[p].doc, call[p].at)
  /\ At(p, "replace") => temps[p] = Envelope(call[p].doc, call[p].at)
  /\ temps[p] # None => call[p].pc \in {"write", "replace"}
  /\ call[p].began <= now
  /\ At(p, "load") => call[p].kind = "load"
  /\ At(p, "fallback") => call[p].kind = "load" /\ call[p].down
  /\ call[p].pc \in {"write", "replace"} => call[p].at >= call[p].began
  /\ call[p].redated => At(p, "served") /\ call[p].kind = "load"
  /\ At(p, "served") =>
       /\ call[p].doc \in 1..Current
       /\ ~call[p].redated => Honest(call[p].doc, call[p].at)
       /\ ~call[p].down => call[p].at # None /\ call[p].began - call[p].at <= MaxAge
       /\ call[p].kind = "sync" => ~call[p].redated /\ call[p].at >= call[p].began

CacheFine ==
  Usable(cache) => /\ cache.doc \in 1..Current
                   /\ ~cache.redated => Honest(cache.doc, cache.at)

\* The inductive invariant, call by call.
LEMMA CallByCall == IInv <=> TypeOK /\ Published /\ CacheFine /\ \A p \in Procs : CallFine(p)
BY DEF IInv, FilesHonest, TempsWhole, Dated, ServedIsHonest, CacheFine, CallFine, At

\* While the clock and the source stand still, a step of call p leaves the others fine.
LEMMA OthersFine ==
  ASSUME IInv, UNCHANGED World, NEW p \in Procs,
         call' \in [Procs -> Calls],
         temps' \in [Procs -> Envelopes \cup {None, Torn}],
         cache' \in Envelopes \cup {None, Torn, Garbled},
         \A q \in Procs \ {p} : call'[q] = call[q] /\ temps'[q] = temps[q],
         CacheFine', CallFine(p)'
  PROVE  IInv'
<1>1. /\ now' = now /\ upstream' = upstream /\ Current' = Current
      /\ \A doc, at : Honest(doc, at)' <=> Honest(doc, at)
  BY DEF World, Honest, Current
<1>2. TypeOK'
  BY <1>1 DEF IInv, TypeOK, World
<1>3. ASSUME NEW q \in Procs \ {p} PROVE CallFine(q)'
  <2>1. CallFine(q)
    BY CallByCall
  <2>2. call'[q] = call[q] /\ temps'[q] = temps[q]
    OBVIOUS
  <2> QED
    BY <1>1, <2>1, <2>2 DEF CallFine, At, Honest, Current
<1>4. (TypeOK /\ Published /\ CacheFine /\ \A q \in Procs : CallFine(q))'
  BY <1>1, <1>2, <1>3 DEF IInv, Published
<1> QED
  BY <1>4 DEF IInv, FilesHonest, TempsWhole, Dated, ServedIsHonest, CacheFine, CallFine, At

\* A call that ends without a catalogue, and leaves no file, is fine.
LEMMA EndIInv ==
  ASSUME IInv, NEW p \in Procs, UNCHANGED <<World, cache>>,
         Fail(p) \/ call' = [call EXCEPT ![p] = Idle],
         (UNCHANGED temps /\ temps[p] = None) \/ temps' = [temps EXCEPT ![p] = None]
  PROVE  IInv'
<1>1. TypeOK /\ CacheFine
  BY CallByCall
<1>2. /\ call' \in [Procs -> Calls]
      /\ \A q \in Procs \ {p} : call'[q] = call[q]
      /\ call'[p].pc \in {"idle", "failed"} /\ call'[p].began = 0 /\ ~call'[p].redated
  <2>1. Idle \in Calls /\ [Idle EXCEPT !.pc = "failed"] \in Calls
    <3>1. Idle \in Calls
      BY CacheAssumption DEF Idle, Calls, Places
    <3>2. \A c \in Calls : [c EXCEPT !.pc = "failed"] \in Calls
      BY DEF Calls, Places
    <3> QED
      BY <3>1, <3>2
  <2>2. \E ended \in {Idle, [Idle EXCEPT !.pc = "failed"]} : call' = [call EXCEPT ![p] = ended]
    BY DEF Fail
  <2>3. call \in [Procs -> Calls]
    BY <1>1 DEF TypeOK
  <2>4. PICK ended \in {Idle, [Idle EXCEPT !.pc = "failed"]} : call' = [call EXCEPT ![p] = ended]
    BY <2>2
  <2>5. ended.pc \in {"idle", "failed"} /\ ended.began = 0 /\ ~ended.redated
    BY DEF Idle
  <2> QED
    BY <2>1, <2>3, <2>4, <2>5
<1>3. /\ temps' \in [Procs -> Envelopes \cup {None, Torn}] /\ temps'[p] = None
      /\ \A q \in Procs \ {p} : temps'[q] = temps[q]
  BY <1>1 DEF TypeOK
<1>4. CacheFine' /\ cache' \in Envelopes \cup {None, Torn, Garbled}
  <2>1. now' = now /\ upstream' = upstream /\ cache' = cache
    BY DEF World
  <2> QED
    BY <1>1, <2>1 DEF CacheFine, Usable, Honest, Current, TypeOK
<1>5. CallFine(p)'
  BY <1>1, <1>2, <1>3, CacheAssumption DEF CallFine, At, World, TypeOK
<1> QED
  BY <1>2, <1>3, <1>4, <1>5, OthersFine

\* One case per step of a call.
LEMMA StepIInv == ASSUME IInv, NEW p \in Procs, Step(p) \/ Crash(p) PROVE IInv'
<1> USE CacheAssumption
<1>0. /\ TypeOK /\ Published /\ CacheFine /\ CallFine(p)
      /\ call[p] \in Calls /\ now \in 0..MaxTime /\ Current \in 1..Len(Documents)
  BY CallByCall DEF TypeOK, Current
\* Serving what is in the cache, when the clock and the files stand still.
<1>a. ASSUME Usable(cache), Serve(p, cache), UNCHANGED <<World, cache, temps>>,
             temps[p] = None, call[p].kind = "load",
             call[p].down \/ (cache.at # None /\ ~TooOld(cache))
      PROVE  IInv'
  <2>1. /\ cache.doc \in 1..Len(Documents) /\ cache.at \in (0..MaxTime) \cup {None}
        /\ cache.redated \in BOOLEAN /\ cache.doc \in 1..Current
        /\ ~cache.redated => Honest(cache.doc, cache.at)
    BY <1>0, <1>a, UsableWhole DEF CacheFine, TypeOK
  <2>2. /\ call' \in [Procs -> Calls]
        /\ \A q \in Procs \ {p} : call'[q] = call[q]
        /\ call'[p] = [call[p] EXCEPT !.pc = "served", !.doc = cache.doc, !.at = cache.at,
                                      !.redated = cache.redated]
    BY <1>0, <1>a, <2>1 DEF Serve, TypeOK, Calls, Places
  <2>3. /\ call'[p].pc = "served" /\ call'[p].kind = "load" /\ call'[p].began = call[p].began
        /\ call'[p].doc = cache.doc /\ call'[p].at = cache.at /\ call'[p].down = call[p].down
        /\ call'[p].redated = cache.redated
        /\ call[p].began \in Nat /\ call[p].began <= now
        /\ cache.doc \in 1..Current' /\ (~cache.redated => Honest(cache.doc, cache.at)')
    BY <1>0, <1>a, <2>1, <2>2 DEF CallFine, World, Honest, Current, Calls
  <2>4. cache.at # None /\ ~TooOld(cache) => call[p].began - cache.at <= MaxAge
    BY <1>0, <2>1, <2>3 DEF TooOld
  <2>5. CallFine(p)'
    BY <1>0, <1>a, <2>1, <2>3, <2>4 DEF CallFine, At, World
  <2> QED
    BY <1>0, <1>a, <2>2, <2>5, OthersFine DEF CacheFine, World, Honest, Current, TypeOK
<1>1. CASE LoadCache(p)
  <2>0. temps[p] = None
    BY <1>0, <1>1 DEF CallFine, At, LoadCache
  <2>1. CASE /\ Usable(cache) /\ Matches(cache) /\ cache.at # None /\ ~TooOld(cache)
             /\ Serve(p, cache)
    BY <1>0, <1>1, <1>a, <2>0, <2>1 DEF CallFine, LoadCache
  <2>2. CASE Goto(p, "fetch")
    <3>1. CallFine(p)'
      BY <1>0, <1>1, <2>2 DEF CallFine, At, LoadCache, Goto, World, Calls, TypeOK
    <3> QED
      BY <1>0, <1>1, <2>2, <3>1, OthersFine
         DEF LoadCache, Goto, Calls, Places, CacheFine, World, Honest, Current, TypeOK
  <2>3. CASE Fail(p)
    BY <1>1, <2>0, <2>3, EndIInv DEF LoadCache
  <2> QED
    BY <1>1, <2>1, <2>2, <2>3 DEF LoadCache
<1>2. CASE Fetch(p)
  <2>1. CallFine(p)'
    BY <1>0, <1>2 DEF CallFine, At, Fetch, World, Calls, Current, TypeOK
  <2> QED
    BY <1>0, <1>2, <2>1, OthersFine
       DEF Fetch, Calls, Places, CacheFine, World, Honest, Current, TypeOK
<1>3. CASE SourceDown(p)
  <2>0. temps[p] = None
    BY <1>0, <1>3 DEF CallFine, At, SourceDown
  <2>1. CASE Fail(p)
    BY <1>3, <2>0, <2>1, EndIInv DEF SourceDown
  <2>2. CASE call[p].kind = "load" /\ call' = [call EXCEPT ![p].pc = "fallback", ![p].down = TRUE]
    <3>1. CallFine(p)'
      BY <1>0, <1>3, <2>0, <2>2 DEF CallFine, At, SourceDown, World, Calls, TypeOK
    <3> QED
      BY <1>0, <1>3, <2>2, <3>1, OthersFine
         DEF SourceDown, Calls, Places, CacheFine, World, Honest, Current, TypeOK
  <2> QED
    BY <1>3, <2>1, <2>2 DEF SourceDown
<1>4. CASE EmptyAnswer(p)
  BY <1>0, <1>4, EndIInv DEF EmptyAnswer, CallFine, At
\* The answer is stamped with the time it came, so it was published by then.
<1>5. CASE MakeTemp(p)
  <2>1. Honest(call[p].doc, now)'
    BY <1>0, <1>5 DEF CallFine, At, MakeTemp, World, Published, Honest, Current, TypeOK
  <2>2. CallFine(p)'
    BY <1>0, <1>5, <2>1 DEF CallFine, At, MakeTemp, World, Calls, TypeOK
  <2> QED
    BY <1>0, <1>5, <2>2, OthersFine
       DEF MakeTemp, Calls, Places, CacheFine, World, Honest, Current, TypeOK
<1>6. CASE WriteTemp(p)
  <2>1. call[p].doc \in 1..Len(Documents) /\ call[p].at \in 0..MaxTime
        /\ Honest(call[p].doc, call[p].at)
    BY <1>0, <1>6 DEF CallFine, At, WriteTemp, Honest, Current, Calls, TypeOK
  <2>2. Envelope(call[p].doc, call[p].at) \in Envelopes
    BY <2>1, EnvelopeWhole
  <2>3. CallFine(p)'
    BY <1>0, <1>6, <2>1
       DEF CallFine, At, WriteTemp, Goto, World, Envelope, Honest, Current, Calls, TypeOK
  <2> QED
    BY <1>0, <1>6, <2>2, <2>3, OthersFine
       DEF WriteTemp, Goto, Calls, Places, CacheFine, World, Honest, Current, TypeOK
\* What replaces the cache is whole, and its date honest; so is what is served.
<1>7. CASE Replace(p)
  <2>1. call[p].doc \in 1..Len(Documents) /\ call[p].at \in 0..MaxTime /\ call[p].began \in Nat
        /\ Honest(call[p].doc, call[p].at) /\ call[p].at >= call[p].began
        /\ temps[p] = Envelope(call[p].doc, call[p].at)
    BY <1>0, <1>7 DEF CallFine, At, Replace, Honest, Current, Calls, TypeOK
  <2>2. cache' \in Envelopes /\ CacheFine'
    BY <1>7, <2>1, EnvelopeWhole DEF Replace, CacheFine, World, Honest, Current
  <2>3. /\ call'[p].pc = "served" /\ call'[p].kind = call[p].kind /\ call'[p].began = call[p].began
        /\ call'[p].doc = call[p].doc /\ call'[p].at = call[p].at /\ temps'[p] = None
        /\ call'[p].redated = call[p].redated
        /\ Honest(call[p].doc, call[p].at)' /\ call[p].doc \in 1..Current'
    BY <1>0, <1>7, <2>1 DEF Replace, Goto, World, Honest, Current, Calls, TypeOK
  <2>4. CallFine(p)'
    BY <1>0, <1>7, <2>1, <2>3 DEF CallFine, At, Replace, World
  <2> QED
    BY <1>0, <1>7, <2>2, <2>4, OthersFine DEF Replace, Goto, Calls, Places, World, TypeOK
<1>8. CASE DiskFails(p)
  BY <1>8, EndIInv DEF DiskFails
<1>9. CASE Fallback(p)
  <2>0. temps[p] = None /\ call[p].kind = "load" /\ call[p].down
    BY <1>0, <1>9 DEF CallFine, At, Fallback
  <2>1. CASE Usable(cache) /\ Matches(cache) /\ Serve(p, cache)
    BY <1>9, <1>a, <2>0, <2>1 DEF Fallback
  <2>2. CASE Fail(p)
    BY <1>9, <2>0, <2>2, EndIInv DEF Fallback
  <2> QED
    BY <1>9, <2>1, <2>2 DEF Fallback
<1>10. CASE Crash(p)
  BY <1>10, EndIInv DEF Crash
<1> QED
  BY <1>1, <1>2, <1>3, <1>4, <1>5, <1>6, <1>7, <1>8, <1>9, <1>10 DEF Step

\* A new call, in the place of one that ended.
LEMMA BeginIInv ==
  ASSUME IInv, NEW p \in Procs, NEW kind \in {"load", "sync"}, Begin(p, kind)
  PROVE  IInv'
<1> USE CacheAssumption
<1>0. /\ TypeOK /\ CacheFine /\ CallFine(p)
      /\ call[p] \in Calls /\ now \in 0..MaxTime
  BY CallByCall DEF TypeOK
<1>1. CallFine(p)'
  BY <1>0 DEF CallFine, At, Begin, Idle, World, Calls, TypeOK
<1> QED
  BY <1>0, <1>1, OthersFine DEF Begin, Idle, Calls, Places, CacheFine, World, Honest, Current, TypeOK

\* What happens outside the calls.
LEMMA WorldIInv == ASSUME IInv, Publish \/ Tick \/ Damage PROVE IInv'
<1> USE CacheAssumption
<1>0. TypeOK /\ Published /\ CacheFine /\ \A p \in Procs : CallFine(p)
  BY CallByCall
<1>1. CASE Damage
  <2>1. TypeOK' /\ Published'
    <3>1. now' = now /\ upstream' = upstream /\ temps' = temps /\ call' = call
      BY <1>1 DEF Damage, World
    <3>2. Usable(cache) =>
            /\ [cache EXCEPT !.digest = None] \in Envelopes
            /\ \A at \in (0..MaxTime) \cup {None} :
                 [cache EXCEPT !.at = at, !.redated = TRUE] \in Envelopes
      BY <1>0, UsableWhole DEF TypeOK, Envelopes
    <3>3. cache' \in Envelopes \cup {None, Torn, Garbled}
      BY <1>1, <3>2 DEF Damage
    <3>4. damages' \in 0..MaxDamages
      <4>1. damages \in 0..MaxDamages
        BY <1>0 DEF TypeOK
      <4>2. damages < MaxDamages /\ damages' = damages + 1
        BY <1>1 DEF Damage
      <4> QED
        BY <4>1, <4>2
    <3> QED
      BY <1>0, <3>1, <3>3, <3>4 DEF Published, Current, TypeOK
  <2>2. CacheFine'
    <3>1. CASE cache' \in {None, Torn, Garbled}
      BY <3>1 DEF CacheFine, Usable
    <3>3. ASSUME NEW at, Usable(cache), cache' = [cache EXCEPT !.at = at, !.redated = TRUE]
          PROVE  CacheFine'
      <4>1. cache \in Envelopes /\ cache'.doc = cache.doc /\ cache'.redated
        BY <1>0, <3>3, UsableWhole DEF TypeOK, Envelopes
      <4> QED
        BY <1>0, <1>1, <3>3, <4>1 DEF CacheFine, Damage, Current
    <3>2. CASE Usable(cache) /\ cache' = [cache EXCEPT !.digest = None]
      <4>1. /\ cache \in Envelopes /\ cache'.doc = cache.doc /\ cache'.at = cache.at
            /\ cache'.redated = cache.redated
        BY <1>0, <3>2, UsableWhole DEF TypeOK, Envelopes
      <4> QED
        BY <1>0, <1>1, <3>2, <4>1 DEF CacheFine, Damage, World, Honest, Current
    <3> QED
      BY <1>1, <3>1, <3>2, <3>3 DEF Damage
  <2>3. ASSUME NEW p \in Procs PROVE CallFine(p)'
    BY <1>0, <1>1 DEF CallFine, At, Damage, World, Honest, Current
  <2> QED
    BY <2>1, <2>2, <2>3
       DEF IInv, FilesHonest, TempsWhole, Dated, ServedIsHonest, CacheFine, CallFine, At
<1>2. CASE Tick \/ Publish
  <2>1. UNCHANGED <<cache, temps, call>> /\ now <= now' /\ now' \in 0..MaxTime
    BY <1>0, <1>2 DEF Tick, Publish, TypeOK
  <2>2. Current <= Current' /\ TypeOK' /\ Published'
    <3>1. CASE Tick
      BY <1>0, <3>1 DEF Tick, Current, TypeOK, Published
    <3>2. CASE Publish
      BY <1>0, <3>2 DEF Publish, Current, TypeOK, Published
    <3> QED
      BY <1>2, <3>1, <3>2
  <2>3. CacheFine'
    <3>1. Usable(cache) /\ ~cache.redated => cache.at \in 0..MaxTime
      BY <1>0 DEF CacheFine, Honest, TypeOK
    <3>2. Current \in Nat /\ Current' \in Nat
      BY <1>0, <2>2 DEF TypeOK, Current
    <3> QED
      BY <1>0, <1>2, <2>1, <2>2, <3>1, <3>2, HonestLasts DEF CacheFine, Usable
  <2>4. ASSUME NEW p \in Procs PROVE CallFine(p)'
    <3>1. call[p] \in Calls /\ now \in Nat /\ Current \in Nat /\ Current' \in Nat
      BY <1>0, <2>2 DEF TypeOK, Current
    <3>2. call[p].pc \in {"write", "replace"} \/ (At(p, "served") /\ ~call[p].redated)
            => Honest(call[p].doc, call[p].at)'
      <4>1. HAVE call[p].pc \in {"write", "replace"} \/ (At(p, "served") /\ ~call[p].redated)
      <4>2. Honest(call[p].doc, call[p].at)
        BY <1>0, <4>1 DEF CallFine
      <4>3. call[p].at \in 0..MaxTime
        BY <1>0, <4>2, CacheAssumption DEF Honest, TypeOK
      <4>4. \A doc : \A at \in 0..MaxTime : Honest(doc, at) => Honest(doc, at)'
        BY <1>0, <1>2, HonestLasts
      <4> QED
        BY <2>1, <4>2, <4>3, <4>4 DEF Honest
    <3> QED
      BY <1>0, <2>1, <2>2, <3>1, <3>2 DEF CallFine, At, Calls
  <2> QED
    BY <2>2, <2>3, <2>4
       DEF IInv, FilesHonest, TempsWhole, Dated, ServedIsHonest, CacheFine, CallFine, At
<1> QED
  BY <1>1, <1>2

LEMMA NextIInv == ASSUME IInv, [Next]_vars PROVE IInv'
<1>1. CASE UNCHANGED vars
  BY <1>1 DEF vars, IInv, TypeOK, Published, FilesHonest, TempsWhole, Dated, ServedIsHonest,
              At, Honest, Current
<1> QED
  BY <1>1, StepIInv, BeginIInv, WorldIInv DEF Next

-----------------------------------------------------------------------------
(* Theorems.                                                               *)

\* Whatever processes, source and disk do, what may become the cache holds a whole document
\* under its own digest with a date on which it had been published; so does the cache, but
\* for what was done to it from outside since it was written
\* (ModelsDevSource._write_cache and load_cache, Catalog.from_cache_or_sync).
THEOREM CacheInvariant == Spec => []IInv
BY InitIInv, NextIInv, PTL DEF Spec

\* A served document was published, and by its date, unless the file it comes from had its
\* date changed; going by that date it is recent, or the source was asked and down; and a
\* sync serves nothing older than itself, whatever the cache says.
THEOREM HonestlyServed == Spec => []ServedIsHonest
<1>1. IInv => ServedIsHonest
  BY DEF IInv
<1> QED
  BY <1>1, CacheInvariant, PTL

\* Only damage from outside ever leaves a file that a reader cannot use.
THEOREM CacheReplacedWhole == Spec => OnlyWholeReplaced
<1> DEFINE Whole == cache' # cache => (Usable(cache') /\ Matches(cache')) \/ Damage
<1>1. ASSUME IInv, [Next]_vars PROVE Whole
  <2>1. ASSUME NEW p \in Procs, Replace(p) PROVE Whole
    <3>1. call[p].doc \in 1..Len(Documents) /\ call[p].at \in 0..MaxTime
          /\ temps[p] = Envelope(call[p].doc, call[p].at)
      BY <1>1, <2>1, CacheAssumption
         DEF Replace, At, IInv, TypeOK, Calls, FilesHonest, TempsWhole, Honest, Current
    <3> QED
      BY <2>1, <3>1, EnvelopeWhole DEF Replace
  <2>2. ASSUME NEW p \in Procs, Step(p) \/ Crash(p), ~Replace(p) PROVE Whole
    BY <2>2 DEF Step, Crash, LoadCache, Fetch, SourceDown, EmptyAnswer, MakeTemp, WriteTemp,
                DiskFails, Fallback
  <2>3. ASSUME NEW p \in Procs, NEW kind, Begin(p, kind) PROVE Whole
    BY <2>3 DEF Begin
  <2>4. CASE Publish \/ Tick \/ UNCHANGED vars
    BY <2>4 DEF Publish, Tick, vars
  <2> QED
    BY <1>1, <2>1, <2>2, <2>3, <2>4 DEF Next
<1> QED
  BY <1>1, CacheInvariant, PTL DEF Spec, OnlyWholeReplaced

-----------------------------------------------------------------------------
(* What one overlay entry makes of the providers (catalog.py _apply_overlay). *)

Fields == {"provider", "id", "reasoning", "efforts", "variants", "tiers", "offers"}

\* m is what provider p lists as id.
ModelOf(m, p, id) == DOMAIN m = Fields /\ m.provider = p /\ m.id = id /\ Identifier(id)

Listed(providers) ==
  \A p \in DOMAIN providers :
    /\ providers[p].id = p /\ p # None
    /\ \A id \in DOMAIN providers[p].models : ModelOf(providers[p].models[id], p, id)

Named(models) == \A id \in DOMAIN models : Identifier(id)

LEMMA ParsedListed ==
  ASSUME NEW p, NEW raws, Named(raws), NEW id \in DOMAIN ParseModels(p, raws)
  PROVE  ModelOf(ParseModels(p, raws)[id], p, id)
BY DEF ParseModels, ParseModel, ModelOf, Fields, Named

\* Models that are taken over change provider, and nothing else.
LEMMA TakenOverListed ==
  ASSUME NEW p, NEW base, NEW q, NEW include,
         \A id \in DOMAIN base.models : ModelOf(base.models[id], q, id),
         NEW id \in DOMAIN TakenOver(p, base, include)
  PROVE  ModelOf(TakenOver(p, base, include)[id], p, id)
<1>1. id \in DOMAIN base.models /\ TakenOver(p, base, include)[id] = [base.models[id] EXCEPT !.provider = p]
  BY DEF TakenOver
<1> QED
  BY <1>1 DEF ModelOf, Fields

LEMMA PatchedListed ==
  ASSUME NEW p, NEW models, NEW patches, \A id \in DOMAIN models : ModelOf(models[id], p, id),
         NEW id \in DOMAIN Patched(models, patches)
  PROVE  ModelOf(Patched(models, patches)[id], p, id)
<1>1. id \in DOMAIN models
  BY DEF Patched
<1>2. CASE id \in DOMAIN patches
  <2>1. Patched(models, patches)[id] = [models[id] EXCEPT !.efforts = patches[id]]
    BY <1>1, <1>2 DEF Patched
  <2> QED
    BY <1>1, <2>1 DEF ModelOf, Fields
<1>3. CASE id \notin DOMAIN patches
  BY <1>1, <1>3 DEF Patched
<1> QED
  BY <1>2, <1>3

\* Whatever an entry derives, corrects or adds, every model stays listed under its own
\* provider and id.
LEMMA EntryListed ==
  ASSUME NEW providers, Listed(providers), NEW entry, entry.id # None, Named(entry.models)
  PROVE  Listed(ApplyEntry(providers, entry))
<1> DEFINE baseId == Given(entry.extends, entry.id)
           base == IF baseId \in DOMAIN providers THEN providers[baseId] ELSE NoProvider
           taken == TakenOver(entry.id, base, entry.include)
           models == Updated(taken, ParseModels(entry.id, entry.models))
           provider == [id |-> entry.id,
                        env |-> Given(entry.env, base.env),
                        methods |-> Given(entry.methods, base.methods),
                        models |-> Patched(models, entry.patches),
                        tiers |-> Given(entry.tiers, base.tiers),
                        routes |-> Given(entry.routes, base.routes)]
           made == Updated(providers, [p \in {entry.id} |-> provider])
<1>1. \E q : \A id \in DOMAIN base.models : ModelOf(base.models[id], q, id)
  BY DEF Listed, NoProvider, Empty
<1>2. \A id \in DOMAIN taken : ModelOf(taken[id], entry.id, id)
  BY <1>1, TakenOverListed
<1>3. \A id \in DOMAIN models : ModelOf(models[id], entry.id, id)
  <2> TAKE id \in DOMAIN models
  <2>1. CASE id \in DOMAIN ParseModels(entry.id, entry.models)
    <3>1. models[id] = ParseModels(entry.id, entry.models)[id]
      BY <2>1 DEF Updated
    <3> QED
      BY <2>1, <3>1, ParsedListed
  <2>2. CASE id \notin DOMAIN ParseModels(entry.id, entry.models)
    <3>1. id \in DOMAIN taken /\ models[id] = taken[id]
      BY <2>2 DEF Updated
    <3> QED
      BY <1>2, <3>1
  <2> QED
    BY <2>1, <2>2
<1>4. \A id \in DOMAIN provider.models : ModelOf(provider.models[id], entry.id, id)
  BY <1>3, PatchedListed
<1>5. Listed(made)
  <2> SUFFICES ASSUME NEW p \in DOMAIN made
               PROVE  /\ made[p].id = p /\ p # None
                      /\ \A id \in DOMAIN made[p].models : ModelOf(made[p].models[id], p, id)
    BY DEF Listed
  <2>1. CASE p = entry.id
    <3>1. made[p] = provider
      BY <2>1 DEF Updated
    <3>2. provider.id = entry.id /\ entry.id # None
      OBVIOUS
    <3> QED
      BY ONLY <1>4, <2>1, <3>1, <3>2
  <2>2. CASE p # entry.id
    <3>1. p \in DOMAIN providers /\ made[p] = providers[p]
      BY <2>2 DEF Updated
    <3> QED
      BY <3>1 DEF Listed
  <2> QED
    BY <2>1, <2>2
<1>6. ApplyEntry(providers, entry) \in {providers, made}
  BY DEF ApplyEntry
<1> QED
  BY <1>5, <1>6

-----------------------------------------------------------------------------
(* Entry after entry, overlay after overlay.                               *)

\* Induction up to N, over a set.
LEMMA UpTo ==
  ASSUME NEW N \in Nat, NEW T, 0 \in T, \A n \in 1..N : n - 1 \in T => n \in T
  PROVE  0..N \subseteq T
<1> DEFINE Bad == {n \in Nat : n <= N /\ n \notin T}
<1> SUFFICES ASSUME Bad # {} PROVE FALSE
  OBVIOUS
<1>1. PICK n \in Bad : \A k \in Bad : ~(<<k, n>> \in OpToRel(<, Nat))
  BY WFMin, NatLessThanWellFounded
<1>2. \A k \in Bad : ~(k < n)
  BY <1>1 DEF OpToRel
<1>3. n \in 1..N /\ n - 1 \in Nat /\ n - 1 \notin Bad
  BY <1>2
<1> QED
  BY <1>3

\* Applying entries in order is defined whatever the entries.
LEMMA EntriesApplied ==
  ASSUME NEW providers, NEW entries, NEW N \in Nat, N = Len(entries)
  PROVE  \E after :
           /\ after = [n \in 0..N |->
                         IF n = 0 THEN providers ELSE ApplyEntry(after[n - 1], entries[n])]
           /\ ApplyEntries(providers, entries) = after[N]
<1> DEFINE To(f, k) == [n \in 0..k |-> IF n = 0 THEN providers ELSE ApplyEntry(f[n - 1], entries[n])]
           T == {k \in 0..N : \E f : f = To(f, k)}
<1>1. 0 \in T
  <2> DEFINE f == [n \in 0..0 |-> providers]
  <2>1. f = To(f, 0)
    OBVIOUS
  <2>2. \E h : h = To(h, 0)
    <3> HIDE DEF To, f
    <3> QED
      BY <2>1
  <2> QED
    BY <2>2
<1>2. ASSUME NEW k \in 1..N, k - 1 \in T PROVE k \in T
  <2>1. PICK f : f = To(f, k - 1)
    BY <1>2
  <2> DEFINE g == [n \in 0..k |-> IF n = k THEN ApplyEntry(f[k - 1], entries[k]) ELSE f[n]]
  <2>2. ASSUME NEW n \in 0..k
        PROVE  g[n] = IF n = 0 THEN providers ELSE ApplyEntry(g[n - 1], entries[n])
    <3>1. CASE n = k
      BY <3>1
    <3>2. CASE n # k
      <4>1. n \in 0..(k - 1) /\ g[n] = f[n] /\ (n # 0 => n - 1 \in 0..(k - 1) /\ g[n - 1] = f[n - 1])
        BY <3>2
      <4>2. f[n] = IF n = 0 THEN providers ELSE ApplyEntry(f[n - 1], entries[n])
        BY <2>1, <4>1
      <4> QED
        BY <4>1, <4>2
    <3> QED
      BY <3>1, <3>2
  <2>3. g = To(g, k)
    BY <2>2
  <2>4. \E h : h = To(h, k)
    <3> HIDE DEF To, g
    <3> QED
      BY <2>3
  <2> QED
    BY <2>4
<1>3. N \in T
  <2> HIDE DEF T
  <2>1. N \in Nat /\ 0 \in T /\ \A n \in 1..N : n - 1 \in T => n \in T
    BY <1>1, <1>2
  <2>2. 0..N \subseteq T
    BY <2>1, UpTo, Zenon
  <2> QED
    BY <2>1, <2>2
<1> DEFINE after == CHOOSE f : f = To(f, N)
<1>4. after = To(after, N)
  BY <1>3
<1>5. ApplyEntries(providers, entries) = after[N]
  BY DEF ApplyEntries
<1> QED
  BY <1>4, <1>5

\* What an overlay makes of listed providers is listed.
LEMMA EntriesListed ==
  ASSUME NEW providers, Listed(providers), NEW entries, Len(entries) \in Nat,
         \A j \in 1..Len(entries) : entries[j].id # None /\ Named(entries[j].models)
  PROVE  Listed(ApplyEntries(providers, entries))
<1> DEFINE N == Len(entries)
<1>1. PICK after :
        /\ after = [n \in 0..N |->
                      IF n = 0 THEN providers ELSE ApplyEntry(after[n - 1], entries[n])]
        /\ ApplyEntries(providers, entries) = after[N]
  BY EntriesApplied
<1> DEFINE T == {n \in 0..N : Listed(after[n])}
<1>2. 0 \in T
  BY <1>1
<1>3. ASSUME NEW n \in 1..N, n - 1 \in T PROVE n \in T
  <2>1. after[n] = ApplyEntry(after[n - 1], entries[n])
    BY <1>1
  <2> QED
    BY <1>3, <2>1, EntryListed
<1>4. N \in T
  <2> HIDE DEF T
  <2>1. N \in Nat /\ 0 \in T /\ \A n \in 1..N : n - 1 \in T => n \in T
    BY <1>2, <1>3
  <2>2. 0..N \subseteq T
    BY <2>1, UpTo, Zenon
  <2> QED
    BY <2>1, <2>2
<1> QED
  BY <1>1, <1>4

\* The catalogue of a document without overlays.
Plain(raw) == [providers |-> FromRaw(raw), aliases |-> Empty, roles |-> Empty]

\* And so is applying overlays in order.
LEMMA OverlaysApplied ==
  ASSUME NEW raw, NEW overlays, NEW N \in Nat, N = Len(overlays)
  PROVE  \E after :
           /\ after = [n \in 0..N |->
                         IF n = 0 THEN Plain(raw) ELSE ApplyOverlay(after[n - 1], overlays[n])]
           /\ FromModelsDev(raw, overlays) = after[N]
<1> DEFINE To(f, k) == [n \in 0..k |-> IF n = 0 THEN Plain(raw) ELSE ApplyOverlay(f[n - 1], overlays[n])]
           T == {k \in 0..N : \E f : f = To(f, k)}
<1>1. 0 \in T
  <2> DEFINE f == [n \in 0..0 |-> Plain(raw)]
  <2>1. f = To(f, 0)
    OBVIOUS
  <2>2. \E h : h = To(h, 0)
    <3> HIDE DEF To, f
    <3> QED
      BY <2>1
  <2> QED
    BY <2>2
<1>2. ASSUME NEW k \in 1..N, k - 1 \in T PROVE k \in T
  <2>1. PICK f : f = To(f, k - 1)
    BY <1>2
  <2> DEFINE g == [n \in 0..k |-> IF n = k THEN ApplyOverlay(f[k - 1], overlays[k]) ELSE f[n]]
  <2>2. ASSUME NEW n \in 0..k
        PROVE  g[n] = IF n = 0 THEN Plain(raw) ELSE ApplyOverlay(g[n - 1], overlays[n])
    <3>1. CASE n = k
      BY <3>1
    <3>2. CASE n # k
      <4>1. n \in 0..(k - 1) /\ g[n] = f[n] /\ (n # 0 => n - 1 \in 0..(k - 1) /\ g[n - 1] = f[n - 1])
        BY <3>2
      <4>2. f[n] = IF n = 0 THEN Plain(raw) ELSE ApplyOverlay(f[n - 1], overlays[n])
        BY <2>1, <4>1
      <4> QED
        BY <4>1, <4>2
    <3> QED
      BY <3>1, <3>2
  <2>3. g = To(g, k)
    BY <2>2
  <2>4. \E h : h = To(h, k)
    <3> HIDE DEF To, g
    <3> QED
      BY <2>3
  <2> QED
    BY <2>4
<1>3. N \in T
  <2> HIDE DEF T
  <2>1. N \in Nat /\ 0 \in T /\ \A n \in 1..N : n - 1 \in T => n \in T
    BY <1>1, <1>2
  <2>2. 0..N \subseteq T
    BY <2>1, UpTo, Zenon
  <2> QED
    BY <2>1, <2>2
<1> DEFINE after == CHOOSE f : f = To(f, N)
<1>4. after = To(after, N)
  BY <1>3
<1>5. FromModelsDev(raw, overlays) = after[N]
  BY DEF FromModelsDev, Plain
<1> QED
  BY <1>4, <1>5

LEMMA RawListed ==
  ASSUME NEW raw, \A p \in DOMAIN raw : p # None /\ Named(raw[p].models)
  PROVE  Listed(FromRaw(raw))
<1> SUFFICES ASSUME NEW p \in DOMAIN raw
             PROVE  /\ FromRaw(raw)[p].id = p /\ p # None
                    /\ \A id \in DOMAIN FromRaw(raw)[p].models : ModelOf(FromRaw(raw)[p].models[id], p, id)
  BY DEF Listed, FromRaw
<1>1. FromRaw(raw)[p].id = p /\ FromRaw(raw)[p].models = ParseModels(p, raw[p].models)
  BY DEF FromRaw
<1> QED
  BY <1>1, ParsedListed

\* In the catalogue of every document every model is listed under its own provider.
LEMMA BuiltListed ==
  ASSUME NEW doc \in 1..Len(Documents)
  PROVE  Listed(Built[doc].providers)
<1> DEFINE N == Len(Overlays)
           raw == Documents[doc]
<1>1. N \in Nat
  BY DocumentsAssumption
<1>2. PICK after :
        /\ after = [n \in 0..N |->
                      IF n = 0 THEN Plain(raw) ELSE ApplyOverlay(after[n - 1], Overlays[n])]
        /\ FromModelsDev(raw, Overlays) = after[N]
  BY <1>1, OverlaysApplied
<1> DEFINE T == {n \in 0..N : Listed(after[n].providers)}
<1>3. 0 \in T
  <2>1. after[0] = Plain(raw)
    BY <1>1, <1>2
  <2>2. Listed(FromRaw(raw))
    BY DocumentsAssumption, RawListed DEF Named
  <2> QED
    BY <1>1, <2>1, <2>2 DEF Plain
<1>4. ASSUME NEW n \in 1..N, n - 1 \in T PROVE n \in T
  <2>1. after[n].providers = ApplyEntries(after[n - 1].providers, Overlays[n].entries)
    BY <1>1, <1>2 DEF ApplyOverlay
  <2>2. /\ Len(Overlays[n].entries) \in Nat
        /\ \A j \in 1..Len(Overlays[n].entries) :
             Overlays[n].entries[j].id # None /\ Named(Overlays[n].entries[j].models)
    BY DocumentsAssumption DEF Named
  <2> QED
    BY <1>4, <2>1, <2>2, EntriesListed
<1>5. N \in T
  <2> HIDE DEF T
  <2>1. N \in Nat /\ 0 \in T /\ \A n \in 1..N : n - 1 \in T => n \in T
    BY <1>1, <1>3, <1>4
  <2>2. 0..N \subseteq T
    BY <2>1, UpTo, Zenon
  <2> QED
    BY <2>1, <2>2
<1> QED
  BY <1>2, <1>5 DEF Built

-----------------------------------------------------------------------------
(* Looking up (catalog.py Catalog.provider, Catalog.model).                *)

LEMMA QualifiedParts ==
  ASSUME NEW p, NEW id, Identifier(id)
  PROVE  Len(<<p>> \o id) > 1 /\ Head(<<p>> \o id) = p /\ Tail(<<p>> \o id) = id
<1> DEFINE S == {p} \cup Range(id)
           q == <<p>> \o id
<1>1. id \in Seq(S) /\ <<p>> \in Seq(S) /\ Len(id) > 0
  BY DEF Identifier
<1>2. /\ q \in Seq(S) /\ Len(q) = 1 + Len(id)
      /\ q[1] = p /\ \A i \in 1..Len(id) : q[i + 1] = id[i]
  BY <1>1
<1>3. /\ Tail(q) \in Seq(S) /\ Len(Tail(q)) = Len(id)
      /\ \A i \in 1..Len(id) : Tail(q)[i] = id[i]
  BY <1>1, <1>2
<1>4. Tail(q) = id
  BY <1>1, <1>3, SeqEqual
<1> QED
  BY <1>1, <1>2, <1>4

\* A provider is looked up by the normal form of what it is asked for as, unless an alias
\* is spelt like that.
LEMMA ProviderFound ==
  ASSUME NEW catalog, NEW p, ~IsAlias(catalog, <<p>>)
  PROVE  ProvidersNamed(catalog, <<p>>)
           = IF Normalized(p) \in DOMAIN catalog.providers
             THEN {catalog.providers[Normalized(p)]} ELSE {}
<1>1. NormalName(<<p>>) = <<Normalized(p)>>
  BY DEF NormalName
<1> QED
  BY <1>1 DEF ProvidersNamed, IsAlias

LEMMA ListedFound ==
  ASSUME NEW catalog, Listed(catalog.providers)
  PROVE  WellFormed(catalog)
<1>0. \A p \in DOMAIN catalog.providers : catalog.providers[p].id = p /\ p # None
  BY DEF Listed
<1> SUFFICES ASSUME NEW p \in DOMAIN catalog.providers, NEW id \in DOMAIN catalog.providers[p].models
             PROVE  LET m == catalog.providers[p].models[id]
                    IN /\ m.provider = p /\ m.id = id
                       /\ (Normalized(p) = p /\ ~IsAlias(catalog, Qualified(m)) /\ ~IsAlias(catalog, <<p>>))
                            => ModelsNamed(catalog, Qualified(m), None) = {m}
  BY <1>0 DEF WellFormed
<1> DEFINE m == catalog.providers[p].models[id]
<1>1. m.provider = p /\ m.id = id /\ Identifier(id)
  BY DEF Listed, ModelOf
<1>2. ASSUME Normalized(p) = p, ~IsAlias(catalog, Qualified(m)), ~IsAlias(catalog, <<p>>)
      PROVE  ModelsNamed(catalog, Qualified(m), None) = {m}
  <2>1. Qualified(m) = <<p>> \o id
    BY <1>1 DEF Qualified
  <2>2. Len(Qualified(m)) > 1 /\ Head(Qualified(m)) = p /\ Tail(Qualified(m)) = id
    BY <1>1, <2>1, QualifiedParts
  <2>3. ModelsNamed(catalog, Qualified(m), None) = ModelsUnder(ProvidersNamed(catalog, <<p>>), id)
    BY <1>2, <2>2 DEF ModelsNamed, Aliased
  <2>4. ProvidersNamed(catalog, <<p>>) = {catalog.providers[p]}
    BY <1>2, ProviderFound
  <2> QED
    BY <2>3, <2>4 DEF ModelsUnder
<1> QED
  BY <1>1, <1>2

\* A name of several segments finds one model at most.
LEMMA OneFound ==
  ASSUME NEW catalog, NEW name, NEW provider, OfProvider(Aliased(catalog, name))
  PROVE  Cardinality(ModelsNamed(catalog, name, provider)) <= 1
<1> DEFINE resolved == Aliased(catalog, name)
           within == ProvidersNamed(catalog, <<Head(resolved)>>)
<1>1. ModelsNamed(catalog, name, provider) = ModelsUnder(within, Tail(resolved))
  <2>1. Len(resolved) \in Nat /\ Len(resolved) > 1
    BY DEF OfProvider, Identifier
  <2>2. ModelsNamed(catalog, name, provider)
          = CASE Len(resolved) > 1 -> ModelsUnder(within, Tail(resolved))
              [] Len(resolved) = 1 /\ provider # None
                   -> ModelsUnder(ProvidersNamed(catalog, <<provider>>), resolved)
              [] OTHER -> {m \in AllModels(catalog) : m.id = resolved}
    BY DEF ModelsNamed
  <2> HIDE DEF resolved, within
  <2>3. Len(resolved) > 1 /\ ~(Len(resolved) = 1 /\ provider # None)
    BY <2>1
  <2> QED
    BY <2>2, <2>3
<1>2. within = {} \/ \E q : within = {q}
  BY DEF ProvidersNamed
<1>3. ModelsUnder(within, Tail(resolved)) = {} \/ \E m : ModelsUnder(within, Tail(resolved)) = {m}
  <2>1. CASE within = {}
    BY <2>1 DEF ModelsUnder
  <2>2. ASSUME NEW q, within = {q}
        PROVE  ModelsUnder(within, Tail(resolved)) \in {{}, {q.models[Tail(resolved)]}}
    BY <2>2 DEF ModelsUnder
  <2> QED
    BY <1>2, <2>1, <2>2
<1>4. Cardinality(ModelsUnder(within, Tail(resolved))) \in {0, 1}
  <2> HIDE DEF within, resolved
  <2> QED
    BY <1>3, FS_EmptySet, FS_Singleton
<1> QED
  BY <1>1, <1>4

LEMMA ListedStays ==
  ASSUME NEW catalog, Listed(catalog.providers)
  PROVE  LookupsStay(catalog)
<1>0. \A p \in Spellings(catalog) : p # None
  BY NormalAssumption DEF Spellings, Listed
<1>1. ASSUME NEW p \in Spellings(catalog), NEW q \in DOMAIN Score, ~IsAlias(catalog, <<p>>),
             NEW m \in Meant(catalog, [model |-> None, provider |-> p, role |-> None, query |-> q])
      PROVE  m.provider = Normalized(p)
  <2>1. m \in SearchHits(catalog, q, p)
    BY DEF Meant
  <2>2. m.provider \in {x.id : x \in ProvidersNamed(catalog, <<p>>)}
    BY <1>0, <2>1 DEF SearchHits
  <2> QED
    BY <1>1, <2>2, ProviderFound DEF Listed
<1>2. ASSUME NEW p \in Spellings(catalog), NEW s, ~IsAlias(catalog, <<p>>),
             <<s>> = None \/ ~IsAlias(catalog, <<s>>),
             NEW m \in Meant(catalog, [model |-> <<s>>, provider |-> p, role |-> None, query |-> None])
      PROVE  m.provider = Normalized(p)
  <2> DEFINE n == Normalized(p)
  <2>0. <<s>> # None
    BY DEF Meant
  <2>1. m \in ModelsNamed(catalog, <<s>>, p)
    BY <2>0 DEF Meant
  <2>2. m \in ModelsUnder(ProvidersNamed(catalog, <<p>>), <<s>>)
    BY <1>0, <1>2, <2>0, <2>1 DEF ModelsNamed, Aliased
  <2>3. n \in DOMAIN catalog.providers /\ m \in ModelsUnder({catalog.providers[n]}, <<s>>)
    BY <1>2, <2>2, ProviderFound DEF ModelsUnder
  <2>4. <<s>> \in DOMAIN catalog.providers[n].models /\ m = catalog.providers[n].models[<<s>>]
    BY <2>3 DEF ModelsUnder
  <2> QED
    BY <2>3, <2>4 DEF Listed, ModelOf
<1>3. ASSUME NEW name \in DOMAIN catalog.aliases, OfProvider(Aliased(catalog, name))
      PROVE  Cardinality(ModelsNamed(catalog, name, None)) <= 1
  BY <1>3, OneFound
<1>4. ASSUME NEW role \in DOMAIN catalog.roles, OfProvider(Aliased(catalog, catalog.roles[role]))
      PROVE  Cardinality(Meant(catalog, [model |-> None, provider |-> None, role |-> role,
                                         query |-> None])) <= 1
  <2>1. Meant(catalog, [model |-> None, provider |-> None, role |-> role, query |-> None])
          \in {{}, ModelsNamed(catalog, catalog.roles[role], None)}
    BY DEF Meant
  <2>2. Cardinality(ModelsNamed(catalog, catalog.roles[role], None)) <= 1
    BY <1>4, OneFound
  <2>3. Cardinality({}) = 0
    BY FS_EmptySet
  <2> QED
    BY <2>1, <2>2, <2>3
<1>5. ASSUME NEW intent \in Asked(catalog), NEW m \in Meant(catalog, intent),
             intent.model = None \/ ~IsAlias(catalog, intent.model),
             ~IsAlias(catalog, <<intent.provider>>)
      PROVE  m.provider = Normalized(intent.provider)
  <2>1. CASE \E p \in Spellings(catalog), q \in DOMAIN Score :
               intent = [model |-> None, provider |-> p, role |-> None, query |-> q]
    BY <1>1, <1>5, <2>1
  <2>2. CASE \E p \in Spellings(catalog), s \in {Last(x.id) : x \in AllModels(catalog)} :
               intent = [model |-> <<s>>, provider |-> p, role |-> None, query |-> None]
    <3>1. PICK p \in Spellings(catalog), s \in {Last(x.id) : x \in AllModels(catalog)} :
                 intent = [model |-> <<s>>, provider |-> p, role |-> None, query |-> None]
      BY <2>2
    <3>2. intent.model = <<s>> /\ intent.provider = p
      BY <3>1
    <3> QED
      BY <1>2, <1>5, <3>1, <3>2
  <2> QED
    BY <2>1, <2>2 DEF Asked
<1> QED
  BY <1>3, <1>4, <1>5 DEF LookupsStay

\* Whatever document is served (Catalog.from_cache_or_sync) and whatever the overlays do to
\* it, each model is listed under its own provider and, if the provider's id is in normal
\* form and no alias is spelt alike, found by its qualified id; and a plain id or a search
\* finds only models of the provider asked for (Catalog.provider, Catalog.model).
THEOREM ServedWellFormed == Spec => []ServedIsWellFormed
<1>1. IInv => ServedIsWellFormed
  <2> SUFFICES ASSUME IInv, NEW p \in Procs, At(p, "served")
               PROVE  Sound[call[p].doc]
    BY DEF ServedIsWellFormed
  <2>1. call[p].doc \in 1..Len(Documents)
    BY CacheAssumption DEF IInv, TypeOK, ServedIsHonest, Current
  <2> QED
    BY <2>1, BuiltListed, ListedFound, ListedStays DEF Sound
<1> QED
  BY <1>1, CacheInvariant, PTL

-----------------------------------------------------------------------------
(* Lists (Selector._declared_tiers, SelectionController._refresh_models,   *)
(* _refresh_providers, _cycle).                                            *)

LEMMA RangeAppended ==
  ASSUME NEW T, NEW seq \in Seq(T), NEW x \in T
  PROVE  Append(seq, x) \in Seq(T) /\ Range(Append(seq, x)) = Range(seq) \cup {x}
<1>1. /\ Append(seq, x) \in Seq(T) /\ Len(Append(seq, x)) = Len(seq) + 1
      /\ DOMAIN Append(seq, x) = 1..(Len(seq) + 1)
      /\ \A i \in 1..Len(seq) : Append(seq, x)[i] = seq[i]
      /\ Append(seq, x)[Len(seq) + 1] = x
  OBVIOUS
<1>2. DOMAIN seq = 1..Len(seq) /\ Len(seq) \in Nat
  OBVIOUS
<1>3. 1..(Len(seq) + 1) = 1..Len(seq) \cup {Len(seq) + 1}
  BY <1>2
<1> QED
  BY <1>1, <1>2, <1>3 DEF Range

\* What is taken of the first k elements, from f, what is taken of fewer.
Taking(f, seq, I, k) ==
  [n \in 0..k |-> IF n = 0 THEN <<>>
                  ELSE IF n \in I THEN Append(f[n - 1], seq[n]) ELSE f[n - 1]]

\* Taking elements of a list by their places is defined for every list and set of places.
LEMMA PlacesTaken ==
  ASSUME NEW seq, NEW I, NEW N \in Nat, N = Len(seq)
  PROVE  \E upTo : upTo = Taking(upTo, seq, I, N) /\ AtPlaces(seq, I) = upTo[N]
<1> DEFINE To(f, k) == Taking(f, seq, I, k)
           T == {k \in 0..N : \E f : f = To(f, k)}
<1>1. 0 \in T
  <2> DEFINE f == [n \in 0..0 |-> <<>>]
  <2>1. f = To(f, 0)
    BY DEF Taking
  <2>2. \E h : h = To(h, 0)
    <3> HIDE DEF To, f
    <3> QED
      BY <2>1
  <2> QED
    BY <2>2
<1>2. ASSUME NEW k \in 1..N, k - 1 \in T PROVE k \in T
  <2>1. PICK f : f = To(f, k - 1)
    BY <1>2
  <2> DEFINE last == IF k \in I THEN Append(f[k - 1], seq[k]) ELSE f[k - 1]
             g == [n \in 0..k |-> IF n = k THEN last ELSE f[n]]
  <2>2. ASSUME NEW n \in 0..k
        PROVE  g[n] = IF n = 0 THEN <<>>
                      ELSE IF n \in I THEN Append(g[n - 1], seq[n]) ELSE g[n - 1]
    <3>1. CASE n = k
      BY <3>1
    <3>2. CASE n # k
      <4>1. n \in 0..(k - 1) /\ g[n] = f[n] /\ (n # 0 => n - 1 \in 0..(k - 1) /\ g[n - 1] = f[n - 1])
        BY <3>2
      <4>2. f[n] = IF n = 0 THEN <<>>
                   ELSE IF n \in I THEN Append(f[n - 1], seq[n]) ELSE f[n - 1]
        BY <2>1, <4>1 DEF Taking
      <4> QED
        BY <4>1, <4>2
    <3> QED
      BY <3>1, <3>2
  <2>3. g = To(g, k)
    <3> HIDE DEF last
    <3> QED
      BY <2>2 DEF Taking
  <2>4. \E h : h = To(h, k)
    <3> HIDE DEF To, g
    <3> QED
      BY <2>3
  <2> QED
    BY <2>4
<1>3. N \in T
  <2> HIDE DEF T
  <2>1. N \in Nat /\ 0 \in T /\ \A n \in 1..N : n - 1 \in T => n \in T
    BY <1>1, <1>2
  <2>2. 0..N \subseteq T
    BY <2>1, UpTo, Zenon
  <2> QED
    BY <2>1, <2>2
<1> DEFINE upTo == CHOOSE f : f = To(f, N)
<1>4. upTo = To(upTo, N)
  BY <1>3
<1>5. AtPlaces(seq, I) = upTo[N]
  BY DEF AtPlaces, Taking
<1> QED
  BY <1>4, <1>5

\* The elements at some places of a list are a list of just those elements.
LEMMA AtPlacesIs ==
  ASSUME NEW T, NEW seq \in Seq(T), NEW I
  PROVE  /\ AtPlaces(seq, I) \in Seq(T)
         /\ Range(AtPlaces(seq, I)) = {seq[i] : i \in I \cap DOMAIN seq}
<1> DEFINE N == Len(seq)
<1>0. N \in Nat /\ DOMAIN seq = 1..N /\ \A i \in 1..N : seq[i] \in T
  OBVIOUS
<1>1. PICK upTo : upTo = Taking(upTo, seq, I, N) /\ AtPlaces(seq, I) = upTo[N]
  BY <1>0, PlacesTaken
<1>a. ASSUME NEW n \in 0..N
      PROVE  upTo[n] = IF n = 0 THEN <<>>
                       ELSE IF n \in I THEN Append(upTo[n - 1], seq[n]) ELSE upTo[n - 1]
  <2> DEFINE value(k) == IF k = 0 THEN <<>>
                         ELSE IF k \in I THEN Append(upTo[k - 1], seq[k]) ELSE upTo[k - 1]
  <2>1. upTo = [k \in 0..N |-> value(k)]
    BY <1>1, Zenon DEF Taking
  <2>2. upTo[n] = value(n)
    <3> HIDE DEF value
    <3> QED
      BY <2>1
  <2> QED
    BY <2>2
<1> DEFINE In(n) == {seq[i] : i \in I \cap 1..n}
           Fine == {n \in 0..N : upTo[n] \in Seq(T) /\ Range(upTo[n]) = In(n)}
<1>2. 0 \in Fine
  <2>1. upTo[0] = <<>>
    BY <1>0, <1>a
  <2>2. <<>> \in Seq(T) /\ Range(<<>>) = {}
    BY DEF Range
  <2>3. In(0) = {}
    OBVIOUS
  <2>4. 0 \in 0..N
    BY <1>0
  <2> QED
    <3> HIDE DEF In, N
    <3> QED
      BY <2>1, <2>2, <2>3, <2>4
<1>3. ASSUME NEW n \in 1..N, n - 1 \in Fine PROVE n \in Fine
  <2>1. n \in 0..N /\ n - 1 \in 0..N /\ 1..n = 1..(n - 1) \cup {n} /\ seq[n] \in T
    BY <1>0
  <2>2. upTo[n] = IF n \in I THEN Append(upTo[n - 1], seq[n]) ELSE upTo[n - 1]
    BY <1>0, <1>a, <2>1
  <2>3. upTo[n - 1] \in Seq(T) /\ Range(upTo[n - 1]) = In(n - 1)
    BY <1>3
  <2>4. CASE n \in I
    <3>1. In(n) = In(n - 1) \cup {seq[n]}
      BY <2>1, <2>4
    <3>2. upTo[n] \in Seq(T) /\ Range(upTo[n]) = Range(upTo[n - 1]) \cup {seq[n]}
      BY <2>1, <2>2, <2>3, <2>4, RangeAppended
    <3> QED
      BY <2>1, <2>3, <3>1, <3>2
  <2>5. CASE n \notin I
    <3>1. In(n) = In(n - 1)
      BY <2>1, <2>5
    <3> QED
      BY <2>1, <2>2, <2>3, <2>5, <3>1
  <2> QED
    BY <2>4, <2>5
<1>4. N \in Fine
  <2> HIDE DEF Fine
  <2>1. N \in Nat /\ 0 \in Fine /\ \A n \in 1..N : n - 1 \in Fine => n \in Fine
    BY <1>0, <1>2, <1>3
  <2>2. 0..N \subseteq Fine
    BY <2>1, UpTo, Zenon
  <2> QED
    BY <2>1, <2>2
<1> QED
  BY <1>0, <1>1, <1>4

\* The members of a list that are in S.
LEMMA AmongIs ==
  ASSUME NEW T, NEW seq \in Seq(T), NEW S
  PROVE  Among(seq, S) \in Seq(T) /\ Range(Among(seq, S)) = Range(seq) \cap S
<1> DEFINE I == {n \in DOMAIN seq : seq[n] \in S}
<1>1. Among(seq, S) \in Seq(T) /\ Range(Among(seq, S)) = {seq[i] : i \in I \cap DOMAIN seq}
  BY AtPlacesIs DEF Among
<1>2. {seq[i] : i \in I \cap DOMAIN seq} = Range(seq) \cap S
  BY DEF Range
<1> QED
  BY <1>1, <1>2

LEMMA LeastIn ==
  ASSUME NEW I \in SUBSET Nat, I # {}
  PROVE  \E n \in I : \A k \in I : n =< k
<1>1. PICK n \in I : \A k \in I : ~(<<k, n>> \in OpToRel(<, Nat))
  BY WFMin, NatLessThanWellFounded
<1>2. \A k \in I : ~(k < n)
  BY <1>1 DEF OpToRel
<1> QED
  BY <1>2

\* Where a member of a list is found is where it is.
LEMMA PositionIs ==
  ASSUME NEW T, NEW seq \in Seq(T), NEW x
  PROVE  /\ Position(seq, x) \in 0..Len(seq)
         /\ Position(seq, x) = 0 <=> x \notin Range(seq)
         /\ x \in Range(seq) => Position(seq, x) \in 1..Len(seq) /\ seq[Position(seq, x)] = x
<1> DEFINE I == {i \in 1..Len(seq) : seq[i] = x}
<1>1. Position(seq, x) = IF I # {} THEN Min(I) ELSE 0
  BY DEF Position, SelectInSeq
<1>2. I # {} <=> x \in Range(seq)
  BY DEF Range
<1>3. ASSUME I # {} PROVE Min(I) \in I
  <2>1. I \in SUBSET Nat /\ I # {}
    BY <1>3
  <2>2. \E n \in I : \A k \in I : n =< k
    <3> HIDE DEF I
    <3> QED
      BY <2>1, LeastIn
  <2> QED
    BY <2>2 DEF Min
<1> QED
  BY <1>1, <1>2, <1>3

-----------------------------------------------------------------------------
(* What the picker lists.                                                  *)

LEMMA ModelsOf ==
  ASSUME NEW p \in Providers, NEW m \in ProviderModels(p)
  PROVE  m \in Models /\ m.provider = p
<1>1. PICK id \in DOMAIN Catalog.providers[p].models : m = Catalog.providers[p].models[id]
  BY DEF ProviderModels, Range
<1>2. m.provider = p
  BY <1>1, CatalogAssumption DEF WellFormed, Providers
<1>3. m \in Models
  BY <1>1 DEF Models, AllModels, Providers
<1> QED
  BY <1>2, <1>3

LEMMA ProviderOf ==
  ASSUME NEW m \in Models
  PROVE  m # None /\ m.provider \in Providers /\ m.provider # None /\ m \in ProviderModels(m.provider)
<1>1. PICK p \in Providers : \E id \in DOMAIN Catalog.providers[p].models : m = Catalog.providers[p].models[id]
  <2> DEFINE all(p) == {Catalog.providers[p].models[id] : id \in DOMAIN Catalog.providers[p].models}
  <2>1. Models = UNION {all(p) : p \in Providers}
    BY DEF Models, AllModels, Providers
  <2>2. PICK p \in Providers : m \in all(p)
    <3> HIDE DEF all
    <3> QED
      BY <2>1
  <2> QED
    BY <2>2
<1>2. m.provider = p /\ p # None
  <2>1. PICK id \in DOMAIN Catalog.providers[p].models : m = Catalog.providers[p].models[id]
    BY <1>1
  <2> QED
    BY <2>1, CatalogAssumption DEF WellFormed, Providers
<1>3. m \in ProviderModels(p)
  BY <1>1 DEF ProviderModels, Range
<1> QED
  BY <1>2, <1>3, CatalogAssumption

LEMMA MatchingOf ==
  ASSUME NEW p \in Providers, NEW q
  PROVE  /\ Matching(p, q) \subseteq ProviderModels(p)
         /\ q = <<>> => Matching(p, q) = ProviderModels(p)
BY DEF Matching

LEMMA StateIs ==
  ASSUME NEW p, NEW rows
  PROVE  StateOf(p, rows) \in {"ready", "connect", "catalog"}
BY DEF StateOf, ProviderState, CredentialState

\* Sorting loses no provider and adds none.
LEMMA SortedIs ==
  ASSUME NEW shown, shown \subseteq Providers, NEW q, NEW rows
  PROVE  Sorted(shown, q, rows) \in Seq(Providers) /\ Range(Sorted(shown, q, rows)) = shown
<1> DEFINE place(p) == (IF q = <<>> \/ Matching(p, q) # {} THEN 0 ELSE 3)
                         + [ready |-> 1, connect |-> 2, catalog |-> 3][StateOf(p, rows)]
           at(n) == Among(ProviderOrder, {p \in shown : place(p) = n})
<1>1. Sorted(shown, q, rows) = at(1) \o at(2) \o at(3) \o at(4) \o at(5) \o at(6)
  BY DEF Sorted
<1>2. ASSUME NEW p \in shown PROVE place(p) \in {1, 2, 3, 4, 5, 6}
  BY StateIs
<1>3. ASSUME NEW n \in 1..6
      PROVE  at(n) \in Seq(Providers) /\ Range(at(n)) = {p \in shown : place(p) = n}
  <2> HIDE DEF place
  <2>1. {p \in shown : place(p) = n} \subseteq Range(ProviderOrder)
    BY ListsAssumption
  <2> QED
    BY <2>1, AmongIs, ListsAssumption
<1> HIDE DEF at, place
<1>4. /\ at(1) \in Seq(Providers) /\ at(2) \in Seq(Providers) /\ at(3) \in Seq(Providers)
      /\ at(4) \in Seq(Providers) /\ at(5) \in Seq(Providers) /\ at(6) \in Seq(Providers)
  BY <1>3
<1>5. ASSUME NEW s \in Seq(Providers), NEW n \in 1..6
      PROVE  s \o at(n) \in Seq(Providers) /\ Range(s \o at(n)) = Range(s) \cup Range(at(n))
  BY <1>3, RangeConcatenation, ConcatProperties
<1> DEFINE s2 == at(1) \o at(2)
           s3 == s2 \o at(3)
           s4 == s3 \o at(4)
           s5 == s4 \o at(5)
<1>6. s2 \in Seq(Providers) /\ Range(s2) = Range(at(1)) \cup Range(at(2))
  BY <1>4, <1>5
<1>7. s3 \in Seq(Providers) /\ Range(s3) = Range(s2) \cup Range(at(3))
  <2> HIDE DEF s2
  <2> QED
    BY <1>5, <1>6
<1>8. s4 \in Seq(Providers) /\ Range(s4) = Range(s3) \cup Range(at(4))
  <2> HIDE DEF s3
  <2> QED
    BY <1>5, <1>7
<1>a. s5 \in Seq(Providers) /\ Range(s5) = Range(s4) \cup Range(at(5))
  <2> HIDE DEF s4
  <2> QED
    BY <1>5, <1>8
<1>9. /\ Sorted(shown, q, rows) \in Seq(Providers)
      /\ Range(Sorted(shown, q, rows)) = Range(s5) \cup Range(at(6))
  <2>1. Sorted(shown, q, rows) = s5 \o at(6)
    BY <1>1
  <2> HIDE DEF s5
  <2> QED
    BY <1>5, <1>a, <2>1
<1> HIDE DEF s2, s3, s4, s5
<1>10. Range(Sorted(shown, q, rows)) = UNION {Range(at(n)) : n \in {1, 2, 3, 4, 5, 6}}
  BY <1>6, <1>7, <1>8, <1>a, <1>9
<1>11. Range(Sorted(shown, q, rows)) = shown
  <2>1. \A n \in {1, 2, 3, 4, 5, 6} : Range(at(n)) = {p \in shown : place(p) = n}
    BY <1>3
  <2>2. \A p : p \in Range(Sorted(shown, q, rows)) <=> \E n \in {1, 2, 3, 4, 5, 6} : p \in Range(at(n))
    BY <1>10
  <2> QED
    BY <1>2, <2>1, <2>2
<1> QED
  BY <1>9, <1>11

-----------------------------------------------------------------------------
(* Moving the view.                                                        *)

\* What PickerInv says of the view, of any view.
OnList(u) == u.pcur \in 1..Len(u.order) \/ u.pcur = 1
OnActive(u) == OnList(u) /\ (u.active \in Range(u.order) => u.order[u.pcur] = u.active)
Listing(u) ==
  /\ u.cur \in 1..Len(u.models) \/ u.cur = 1
  /\ u.models # <<>> => u.active # None /\ Range(u.models) \subseteq Matching(u.active, u.query)

\* _refresh_models: the list is of the active provider's models, and the cursor on it.
LEMMA ModelsRefreshed ==
  ASSUME NEW u \in Views, OnActive(u), NEW reset \in BOOLEAN
  PROVE  LET v == RefreshModels(u, reset)
         IN /\ v \in Views /\ OnActive(v) /\ Listing(v)
            /\ v.active = u.active /\ v.query = u.query /\ v.runnable = u.runnable
            /\ v.focus = u.focus
<1> DEFINE fit == {m \in Matching(u.active, u.query) : u.runnable => Runnable(m)}
           listed == Among(ModelOrder, fit)
           models == IF u.active = None THEN <<>> ELSE SubSeq(listed, 1, Min({Len(listed), Limit}))
           at == IF reset \/ u.models = <<>> THEN 0 ELSE Position(models, u.models[u.cur])
           v == RefreshModels(u, reset)
<1>1. v = [u EXCEPT !.models = models, !.cur = IF at = 0 THEN 1 ELSE at]
  BY DEF RefreshModels
<1>2. listed \in Seq(Models) /\ Range(listed) \subseteq fit
  <2> HIDE DEF fit
  <2> QED
    BY AmongIs, ListsAssumption
<1>3. models \in Seq(Models) /\ (models # <<>> => u.active # None /\ Range(models) \subseteq fit)
  <2>1. Min({Len(listed), Limit}) \in Nat /\ Min({Len(listed), Limit}) =< Len(listed)
    <3> HIDE DEF listed
    <3>0. Len(listed) \in Nat /\ Limit \in Nat
      BY <1>2, ListsAssumption
    <3>1. {Len(listed), Limit} \in SUBSET Nat /\ {Len(listed), Limit} # {}
      BY <3>0
    <3>2. \E n \in {Len(listed), Limit} : \A k \in {Len(listed), Limit} : n =< k
      BY <3>1, LeastIn
    <3>3. Min({Len(listed), Limit}) \in {Len(listed), Limit}
          /\ \A k \in {Len(listed), Limit} : Min({Len(listed), Limit}) =< k
      BY <3>2 DEF Min
    <3> QED
      BY <3>0, <3>3
  <2> DEFINE cut == Min({Len(listed), Limit})
  <2>2. /\ SubSeq(listed, 1, cut) \in Seq(Models)
        /\ \A i \in 1..Len(SubSeq(listed, 1, cut)) :
             SubSeq(listed, 1, cut)[i] = listed[i] /\ i \in DOMAIN listed
    <3> HIDE DEF listed, cut
    <3>1. cut \in Nat /\ cut =< Len(listed)
      BY <2>1 DEF cut
    <3>2. \A i \in 1..cut : listed[i] \in Models /\ i \in DOMAIN listed
      BY <1>2, <3>1
    <3>3. /\ SubSeq(listed, 1, cut) \in Seq(Models)
          /\ Len(SubSeq(listed, 1, cut)) = IF 1 =< cut THEN cut - 1 + 1 ELSE 0
          /\ \A i \in 1..(cut - 1 + 1) : SubSeq(listed, 1, cut)[i] = listed[1 + i - 1]
      BY <3>1, <3>2, SubSeqProperties
    <3> QED
      BY <3>1, <3>2, <3>3
  <2>3. Range(SubSeq(listed, 1, cut)) \subseteq Range(listed)
    <3> HIDE DEF listed, cut
    <3> QED
      BY <2>2 DEF Range
  <2>4. CASE u.active = None
    BY <2>4
  <2>5. CASE u.active # None
    <3>1. models = SubSeq(listed, 1, cut)
      BY <2>5
    <3> HIDE DEF listed, fit, cut, models
    <3> QED
      BY <1>2, <2>2, <2>3, <2>5, <3>1
  <2> QED
    BY <2>4, <2>5
<1>4. at \in 0..Len(models) /\ at \in Nat
  <2> HIDE DEF models
  <2>1. Position(models, u.models[u.cur]) \in 0..Len(models) /\ Len(models) \in Nat
    BY <1>3, PositionIs
  <2> QED
    BY <2>1
<1>5. v \in Views
  <2>1. ASSUME NEW ms \in Seq(Models), NEW c \in Nat
        PROVE  [u EXCEPT !.models = ms, !.cur = c] \in Views
    <3> HIDE DEF models, at, v, listed, fit
    <3> QED
      BY DEF Views
  <2>2. (IF at = 0 THEN 1 ELSE at) \in Nat
    <3> HIDE DEF at
    <3> QED
      BY <1>4
  <2> HIDE DEF models, at, v, listed, fit
  <2> QED
    BY <1>1, <1>3, <2>1, <2>2
<1>6. /\ v.active = u.active /\ v.query = u.query /\ v.runnable = u.runnable
      /\ v.focus = u.focus /\ v.order = u.order /\ v.pcur = u.pcur
      /\ v.models = models /\ v.cur = IF at = 0 THEN 1 ELSE at
  <2> HIDE DEF models, at
  <2> QED
    BY <1>1 DEF Views
<1>7. OnActive(v)
  BY <1>6 DEF OnActive, OnList
<1>8. Listing(v)
  <2>1. fit \subseteq Matching(u.active, u.query)
    OBVIOUS
  <2> HIDE DEF models, at, fit, v
  <2> QED
    BY <1>3, <1>4, <1>6, <2>1 DEF Listing
<1> QED
  BY <1>5, <1>6, <1>7, <1>8

\* _refresh_providers: the active provider is in the list and highlighted; it stays the
\* one it was unless the list is narrowed or a match is preferred.
LEMMA ProvidersRefreshed ==
  ASSUME NEW u \in Views, NEW prefer \in BOOLEAN, NEW rows
  PROVE  LET v == RefreshProviders(u, prefer, rows)
         IN /\ v \in Views /\ OnActive(v)
            /\ v.query = u.query /\ v.runnable = u.runnable /\ v.focus = u.focus
            /\ (/\ ~u.runnable /\ u.active # None
                /\ ~(prefer /\ u.query # <<>> /\ Matching(u.active, u.query) = {}))
                 => v.active = u.active
<1> DEFINE shown == {p \in Providers : u.runnable => StateOf(p, rows) # "catalog"}
           order == Sorted(shown, u.query, rows)
           stays == /\ u.active \in shown
                    /\ ~(prefer /\ u.query # <<>> /\ Matching(u.active, u.query) = {})
           active == IF stays THEN u.active ELSE order[1]
           v == RefreshProviders(u, prefer, rows)
<1>1. v = IF order = <<>>
          THEN [u EXCEPT !.order = order, !.active = None, !.pcur = 1, !.models = <<>>, !.cur = 1]
          ELSE [u EXCEPT !.order = order, !.active = active, !.pcur = Position(order, active)]
  BY DEF RefreshProviders
<1>2. order \in Seq(Providers) /\ Range(order) = shown
  <2>1. shown \subseteq Providers
    OBVIOUS
  <2> HIDE DEF shown
  <2> QED
    BY <2>1, SortedIs
<1>3. None \notin Providers /\ shown \subseteq Providers
  BY CatalogAssumption DEF WellFormed, Providers
<1>4. ASSUME order # <<>>
      PROVE  /\ active \in Providers
             /\ Position(order, active) \in 1..Len(order) /\ order[Position(order, active)] = active
  <2>1. active \in Range(order)
    <3>1. CASE stays
      BY <1>2, <3>1
    <3>2. CASE ~stays
      <4> HIDE DEF order, stays
      <4>1. order[1] \in Range(order)
        BY <1>2, <1>4 DEF Range
      <4> QED
        BY <3>2, <4>1
    <3> QED
      BY <3>1, <3>2
  <2> HIDE DEF order, active, shown
  <2> QED
    BY <1>2, <1>3, <2>1, PositionIs
<1>5. /\ v.query = u.query /\ v.runnable = u.runnable /\ v.focus = u.focus
      /\ v.order = order
      /\ order = <<>> => v.active = None /\ v.pcur = 1
      /\ order # <<>> => v.active = active /\ v.pcur = Position(order, active)
  <2> HIDE DEF order, active
  <2> QED
    BY <1>1 DEF Views
<1>6. v \in Views
  <2> HIDE DEF order, active, shown, v, stays
  <2>0. <<>> \in Seq(Models)
    OBVIOUS
  <2>1. ASSUME NEW ps \in Seq(Providers), NEW a \in Providers \cup {None}, NEW c \in Nat
        PROVE  [u EXCEPT !.order = ps, !.active = a, !.pcur = c] \in Views
    BY DEF Views
  <2>a. ASSUME NEW ps \in Seq(Providers), NEW ms \in Seq(Models)
        PROVE  [u EXCEPT !.order = ps, !.active = None, !.pcur = 1, !.models = ms, !.cur = 1] \in Views
    BY DEF Views
  <2>2. CASE order = <<>>
    BY <1>1, <1>2, <2>0, <2>a, <2>2
  <2>3. CASE order # <<>>
    <3>1. Position(order, active) \in Nat
      BY <1>2, <1>4, <2>3
    <3> QED
      BY <1>1, <1>2, <1>4, <2>1, <2>3, <3>1
  <2> QED
    BY <2>2, <2>3
<1>7. OnActive(v)
  <2> HIDE DEF order, active, shown, v
  <2>1. CASE order = <<>>
    <3>1. Range(<<>>) = {}
      BY DEF Range
    <3> QED
      BY <1>5, <2>1, <3>1 DEF OnActive, OnList
  <2>2. CASE order # <<>>
    BY <1>4, <1>5, <2>2 DEF OnActive, OnList
  <2> QED
    BY <2>1, <2>2
<1>8. ASSUME ~u.runnable, u.active # None,
             ~(prefer /\ u.query # <<>> /\ Matching(u.active, u.query) = {})
      PROVE  v.active = u.active
  <2>1. u.active \in Providers
    BY <1>8 DEF Views
  <2>2. u.active \in shown
    BY <1>8, <2>1
  <2>3. stays /\ active = u.active
    BY <1>8, <2>2
  <2>4. order # <<>>
    <3> HIDE DEF order
    <3> QED
      BY <1>2, <2>2 DEF Range
  <2> HIDE DEF order, active, v, stays
  <2> QED
    BY <1>5, <2>3, <2>4
<1> QED
  BY <1>5, <1>6, <1>7, <1>8

\* _set_active_provider
LEMMA ActiveSet ==
  ASSUME NEW u \in Views, OnList(u), NEW p \in Providers
  PROVE  LET v == SetActive(u, p)
         IN /\ v \in Views /\ OnActive(v) /\ Listing(v)
            /\ v.active = p /\ v.query = u.query /\ v.runnable = u.runnable /\ v.focus = u.focus
<1> DEFINE pcur == IF p \in Range(u.order) THEN Position(u.order, p) ELSE u.pcur
           w == [u EXCEPT !.active = p, !.pcur = pcur]
<1>1. SetActive(u, p) = RefreshModels(w, u.active # p)
  BY DEF SetActive
<1>2. u.order \in Seq(Providers) /\ u.pcur \in Nat
  BY DEF Views
<1>3. /\ pcur \in Nat /\ (pcur \in 1..Len(u.order) \/ pcur = 1)
      /\ p \in Range(u.order) => u.order[pcur] = p
  <2>1. CASE p \in Range(u.order)
    BY <1>2, <2>1, PositionIs
  <2>2. CASE p \notin Range(u.order)
    BY <1>2, <2>2 DEF OnList
  <2> QED
    BY <2>1, <2>2
<1>4. /\ w \in Views
      /\ w.active = p /\ w.query = u.query /\ w.runnable = u.runnable /\ w.focus = u.focus
      /\ w.order = u.order /\ w.pcur = pcur
  <2> HIDE DEF pcur
  <2> QED
    BY <1>3 DEF Views
<1>5. OnActive(w)
  <2> HIDE DEF pcur, w
  <2> QED
    BY <1>3, <1>4 DEF OnActive, OnList
<1> HIDE DEF w
<1> QED
  BY <1>1, <1>4, <1>5, ModelsRefreshed

-----------------------------------------------------------------------------
(* The choice of a profile (Selector._resolve_profile,                     *)
(* CredentialBroker.resolve).                                              *)

\* Rows of the table, each with an id of its own.
Rowed(S) == S \subseteq Rows /\ Keyed(S)

LEMMA SubsetRowed ==
  ASSUME NEW S, Rowed(S), NEW T \in SUBSET S
  PROVE  Rowed(T)
BY FS_Subset DEF Rowed, Keyed

\* The row that comes first is one row.
LEMMA FirstIsOne ==
  ASSUME NEW S, \A x \in S : x.priority \in Int /\ ProfileRank[x.id] \in Int,
         NEW x \in First(S)
  PROVE  First(S) = {x}
<1> SUFFICES ASSUME NEW y \in First(S), y # x PROVE FALSE
  OBVIOUS
<1>1. Earlier(x, y) /\ Earlier(y, x) /\ x \in S /\ y \in S
  BY DEF First
<1> QED
  BY <1>1 DEF Earlier

\* Among rows there are, one comes first.
LEMMA FirstThere ==
  ASSUME NEW S, Rowed(S), S # {}
  PROVE  First(S) # {}
<1> DEFINE N == Cardinality(S)
           T == {n \in 0..N : \A R \in SUBSET S : Cardinality(R) = n /\ R # {} => First(R) # {}}
<1>0. N \in Nat /\ IsFiniteSet(S)
  BY FS_CardinalityType DEF Rowed, Keyed
<1>1. \A R \in SUBSET S : IsFiniteSet(R) /\ (Cardinality(R) = 0 => R = {})
  BY <1>0, FS_Subset, FS_EmptySet
<1>2. 0 \in T
  BY <1>0, <1>1
<1>3. \A x, y \in S : x # y => Earlier(x, y) \/ Earlier(y, x)
  BY RowsAssumption DEF Earlier, Rowed, Keyed
<1>4. \A x, y, z \in S : Earlier(x, y) /\ Earlier(y, z) => Earlier(x, z)
  BY RowsAssumption DEF Earlier, Rowed
<1>5. ASSUME NEW n \in 1..N, n - 1 \in T PROVE n \in T
  <2> SUFFICES ASSUME NEW R \in SUBSET S, Cardinality(R) = n, R # {} PROVE First(R) # {}
    BY <1>0
  <2>1. PICK x \in R : TRUE
    OBVIOUS
  <2>2. Cardinality(R \ {x}) = n - 1 /\ R \ {x} \in SUBSET S
    BY <1>1, <2>1, FS_RemoveElement
  <2>3. CASE R \ {x} = {}
    <3>1. x \in First(R)
      BY <2>1, <2>3 DEF First
    <3> QED
      BY <3>1
  <2>4. CASE R \ {x} # {}
    <3>1. First(R \ {x}) # {}
      BY <1>5, <2>2, <2>4
    <3>2. PICK y \in R \ {x} : \A z \in (R \ {x}) \ {y} : Earlier(y, z)
      BY <3>1 DEF First
    <3>3. CASE Earlier(y, x)
      <4>1. y \in First(R)
        BY <3>2, <3>3 DEF First
      <4> QED
        BY <4>1
    <3>4. CASE Earlier(x, y)
      <4>1. \A z \in R \ {x} : Earlier(x, z)
        BY <1>4, <3>2, <3>4
      <4>2. x \in First(R)
        BY <2>1, <4>1 DEF First
      <4> QED
        BY <4>2
    <3> QED
      BY <1>3, <3>2, <3>3, <3>4
  <2> QED
    BY <2>3, <2>4
<1>6. N \in T
  <2> HIDE DEF T
  <2>1. N \in Nat /\ 0 \in T /\ \A n \in 1..N : n - 1 \in T => n \in T
    BY <1>0, <1>2, <1>5
  <2>2. 0..N \subseteq T
    BY <2>1, UpTo, Zenon
  <2> QED
    BY <2>1, <2>2
<1> QED
  BY <1>6

LEMMA WaysFinite ==
  ASSUME NEW S, IsFiniteSet(S)
  PROVE  IsFiniteSet({x.billing : x \in S}) /\ Cardinality({x.billing : x \in S}) \in Nat
<1> DEFINE ways == {z.billing : z \in S}
           f == [z \in S |-> z.billing]
<1>1. f \in Surjection(S, ways)
  BY DEF Surjection
<1>2. IsFiniteSet(ways) /\ Cardinality(ways) \in Nat
  <2> HIDE DEF ways, f
  <2> QED
    BY <1>1, FS_Surjection, FS_CardinalityType
<1> QED
  BY <1>2

\* Rows that bill in no more than one way bill alike.
LEMMA OneWay ==
  ASSUME NEW S, IsFiniteSet(S), ~(Cardinality({x.billing : x \in S}) > 1),
         NEW x \in S, NEW y \in S
  PROVE  x.billing = y.billing
<1> DEFINE ways == {z.billing : z \in S}
<1>2. IsFiniteSet(ways)
  BY WaysFinite
<1>3. Cardinality(ways) \in Nat /\ x.billing \in ways /\ y.billing \in ways
  BY WaysFinite
<1>4. Cardinality(ways) = 1
  <2> HIDE DEF ways
  <2>1. Cardinality(ways) # 0
    BY <1>2, <1>3, FS_EmptySet
  <2> QED
    BY <1>3, <2>1 DEF ways
<1>5. \E k : ways = {k}
  <2> HIDE DEF ways
  <2> QED
    BY <1>2, <1>4, FS_Singleton
<1> QED
  BY <1>3, <1>5

\* Over any table whose rows have ids of their own, for any provider, billing kind and
\* environment, the selector's profile is the one the broker takes.
LEMMA SelectorAndBroker ==
  ASSUME NEW rows, Rowed(rows), NEW environ, NEW p \in Providers, NEW kind
  PROVE  Agree(Catalog, rows, environ, p, kind)
<1> DEFINE provider == Catalog.providers[p]
           asks == [profile |-> None, billing |-> kind]
           able == Billing(kind, Enabled(rows, p))
           chosen == ProfileFor(provider, rows, asks)
           taken == Resolve(Catalog, rows, environ, Request(p, None, kind))
           env == {x \in Billing(kind, EnvironmentProfiles(Range(Catalog.providers), environ)) :
                     x.provider = p}
<1>0. /\ provider.id = p
      /\ \A x \in rows : x.id # None /\ x.priority \in Int /\ ProfileRank[x.id] \in Int
      /\ \A x, y \in rows : x.id = y.id => x = y
  BY CatalogAssumption, RowsAssumption DEF WellFormed, Providers, Rowed, Keyed
<1>1. taken = IF First(able) # {} THEN Resolution("stored", First(able))
              ELSE Resolution("environment", env)
  BY DEF Resolve, Request, Stored
<1>2. \A x \in First(able) : x \in rows /\ x.provider = p /\ x.enabled /\ (kind # None => x.billing = kind)
  BY DEF First, Billing, Enabled
<1>3. \A x \in env : x.enabled /\ (kind # None => x.billing = kind)
  BY DEF Billing, EnvironmentProfiles, EnvironmentProfile
<1>4. chosen \ {None} \subseteq First(able)
  BY <1>0 DEF ProfileFor
<1>5. \A r \in taken : r.profile.enabled /\ (kind # None => r.profile.billing = kind)
  BY <1>1, <1>2, <1>3 DEF Resolution
<1>6. ASSUME NEW x \in chosen \ {None}
      PROVE  /\ taken = {[source |-> "stored", profile |-> x]}
             /\ Resolve(Catalog, rows, environ, Request(p, x.id, None))
                  = {[source |-> "selected", profile |-> x]}
  <2>1. x \in First(able)
    BY <1>4
  <2>2. First(able) = {x}
    BY <1>0, <2>1, FirstIsOne DEF Billing, Enabled
  <2>3. taken = {[source |-> "stored", profile |-> x]}
    BY <1>1, <2>2 DEF Resolution
  <2>4. {y \in rows : y.id = x.id /\ y.provider = p /\ y.enabled} = {x}
    BY <1>0, <1>2, <2>1
  <2>5. Resolve(Catalog, rows, environ, Request(p, x.id, None))
          = Resolution("selected", {y \in rows : y.id = x.id /\ y.provider = p /\ y.enabled})
    BY <1>0, <1>2, <2>1 DEF Resolve, Request
  <2> QED
    BY <2>3, <2>4, <2>5 DEF Resolution
<1>7. ASSUME NEW r \in taken, r.source = "environment" PROVE chosen \subseteq {None}
  <2>1. First(able) = {}
    BY <1>1, <1>7 DEF Resolution
  <2> QED
    BY <1>4, <2>1
<1> QED
  BY <1>5, <1>6, <1>7 DEF Agree

-----------------------------------------------------------------------------
(* The plan (Selector.select, SelectionController.resolve).                *)

\* The qualified id of the chosen model means that model and no other.
LEMMA MeantIs ==
  ASSUME pick.model \in Models
  PROVE  Meant(Catalog, Intent) = {pick.model}
<1> DEFINE m == pick.model
           p == m.provider
<1>1. p \in Providers /\ m \in ProviderModels(p)
  BY ProviderOf
<1>2. PICK id \in DOMAIN Catalog.providers[p].models : m = Catalog.providers[p].models[id]
  BY <1>1 DEF ProviderModels, Range
<1>3. /\ Qualified(m) # None /\ Normalized(p) = p
      /\ ~IsAlias(Catalog, Qualified(m)) /\ ~IsAlias(Catalog, <<p>>)
  BY <1>1, CatalogAssumption
<1>4. ModelsNamed(Catalog, Qualified(m), None) = {m}
  <2>1. ASSUME NEW q \in Providers, NEW i \in DOMAIN Catalog.providers[q].models, NEW n,
               n = Catalog.providers[q].models[i],
               Normalized(q) = q, ~IsAlias(Catalog, Qualified(n)), ~IsAlias(Catalog, <<q>>)
        PROVE  ModelsNamed(Catalog, Qualified(n), None) = {n}
    BY <2>1, CatalogAssumption DEF WellFormed, Providers
  <2> HIDE DEF m, p
  <2> QED
    BY <1>1, <1>2, <1>3, <2>1
<1>5. Intent.model = Qualified(m) /\ Intent.provider = None
  BY DEF Intent
<1> QED
  BY <1>3, <1>4, <1>5 DEF Meant

\* Who pays for a plan: the profile on the screen, or with none there, the first of those
\* that bill alike, if there are any.
Pays(p, y) ==
  LET able == Enabled(table, p)
  IN IF y = None THEN pick.profile = None /\ able = {}
     ELSE /\ y \in able /\ y.id # None
          /\ pick.profile # None => y.id = pick.profile
          /\ pick.billing # None => y.billing = pick.billing
          /\ pick.profile = None => \A z \in able : z.billing = y.billing

LEMMA Payer ==
  ASSUME Rowed(table), NEW p \in Providers, pick.profile = None => pick.billing = None,
         NEW y \in ProfileFor(Catalog.providers[p], table, Intent)
  PROVE  Pays(p, y) /\ ProfileFor(Catalog.providers[p], table, Intent) = {y}
<1> DEFINE provider == Catalog.providers[p]
           able == Enabled(table, p)
           fit == Billing(pick.billing, able)
           named == NamedProfile(provider, table, Intent)
<1>0. /\ provider.id = p
      /\ \A x \in table : x # None /\ x.id # None /\ x.priority \in Int /\ ProfileRank[x.id] \in Int
      /\ Intent.profile = pick.profile /\ Intent.billing = pick.billing
      /\ IsFiniteSet(table)
  BY CatalogAssumption, RowsAssumption DEF WellFormed, Providers, Rowed, Keyed, Intent
<1>1. ProfileFor(provider, table, Intent) =
        CASE pick.profile # None -> named
          [] pick.profile = None /\ fit = {} -> IF pick.billing = None THEN {None} ELSE {}
          [] pick.profile = None /\ fit # {} /\ Cardinality({x.billing : x \in fit}) > 1 -> {}
          [] OTHER -> {x \in First(fit) : Declared(provider, x)}
  BY <1>0 DEF ProfileFor
<1>2. CASE pick.profile # None
  <2>1. y \in named
    BY <1>1, <1>2
  <2>2. \A z \in named : /\ z \in table /\ z.id = pick.profile /\ z \in able
                         /\ pick.billing # None => z.billing = pick.billing
    BY <1>0 DEF NamedProfile, Enabled
  <2>a. \A x, z \in table : x.id = z.id => x = z
    BY DEF Rowed, Keyed
  <2>3. \A z \in named : z = y
    BY <2>1, <2>2, <2>a
  <2>4. ProfileFor(provider, table, Intent) = named
    BY <1>1, <1>2
  <2>5. y # None /\ y \in able /\ y.id # None /\ y.id = pick.profile
        /\ (pick.billing # None => y.billing = pick.billing)
    BY <1>0, <1>2, <2>1, <2>2
  <2>6. ProfileFor(provider, table, Intent) = {y}
    BY <2>1, <2>3, <2>4, Zenon
  <2>7. Pays(p, y)
    BY <1>2, <2>5 DEF Pays
  <2> QED
    BY <2>6, <2>7
<1>3. CASE pick.profile = None
  <2>1. fit = able /\ able \subseteq table /\ pick.billing = None
    BY <1>3 DEF Billing, Enabled
  <2>2. CASE fit = {}
    <3>1. ProfileFor(provider, table, Intent) = {None}
      BY <1>1, <1>3, <2>1, <2>2
    <3>2. Pays(p, y)
      BY <1>3, <2>1, <2>2, <3>1 DEF Pays
    <3> QED
      BY <3>1, <3>2
  <2>3. CASE fit # {}
    <3>1. /\ ~(Cardinality({x.billing : x \in fit}) > 1)
          /\ ProfileFor(provider, table, Intent) = {x \in First(fit) : Declared(provider, x)}
      <4> DEFINE many == Cardinality({x.billing : x \in fit}) > 1
                 first == {x \in First(fit) : Declared(provider, x)}
      <4>1. ProfileFor(provider, table, Intent) = IF many THEN {} ELSE first
        <5> HIDE DEF fit, named
        <5> QED
          BY <1>1, <1>3, <2>3
      <4> HIDE DEF many, first
      <4>2. ~many /\ ProfileFor(provider, table, Intent) = first
        BY <4>1
      <4> QED
        BY <4>2 DEF many, first
    <3>2. y \in First(fit) /\ y \in fit
      BY <3>1 DEF First
    <3>3. First(fit) = {y}
      BY <1>0, <2>1, <3>2, FirstIsOne
    <3>4. IsFiniteSet(fit)
      BY <1>0, <2>1, FS_Subset
    <3>5. \A z \in fit : z.billing = y.billing
      BY <3>1, <3>2, <3>4, OneWay
    <3>6. ProfileFor(provider, table, Intent) = {y}
      BY <3>1, <3>3, Zenon
    <3>7. y # None /\ y \in able /\ y.id # None /\ \A z \in able : z.billing = y.billing
      <4> HIDE DEF able, fit
      <4>1. fit = able /\ y \in able /\ y \in table
        BY <2>1, <3>2
      <4>2. \A z \in able : z.billing = y.billing
        BY <3>5, <4>1
      <4> QED
        BY <1>0, <4>1, <4>2
    <3>8. Pays(p, y)
      BY <1>3, <2>1, <3>7 DEF Pays
    <3> QED
      BY <3>6, <3>8
  <2> QED
    BY <2>2, <2>3
<1> QED
  BY <1>2, <1>3

\* What is planned, with y to pay.
PlanOf(y) ==
  [model |-> Qualified(pick.model), provider |-> pick.model.provider,
   variant |-> pick.variant, effort |-> pick.effort, tier |-> pick.tier,
   profile |-> IF y = None THEN None ELSE y.id,
   billing |-> IF y = None THEN pick.billing ELSE y.billing]

LEMMA ResolvedIs ==
  ASSUME pick.model \in Models
  PROVE  Resolved =
           IF Runnable(pick.model)
              /\ Compatible(Catalog.providers[pick.model.provider], pick.model, Intent)
           THEN {PlanOf(y) : y \in ProfileFor(Catalog.providers[pick.model.provider], table, Intent)}
           ELSE {}
<1> DEFINE m == pick.model
           provider == Catalog.providers[m.provider]
           payers == ProfileFor(provider, table, Intent)
           plan1(q, mm, x) ==
             [model |-> <<q.id>> \o mm.id, provider |-> q.id,
              variant |-> Intent.variant, effort |-> Intent.effort, tier |-> Intent.tier,
              profile |-> IF x = None THEN None ELSE x.id,
              billing |-> IF x = None THEN Intent.billing ELSE x.billing]
           planned(q, mm) ==
             IF Compatible(q, mm, Intent)
             THEN {plan1(q, mm, x) : x \in ProfileFor(q, table, Intent)} ELSE {}
           near(mm) == ProvidersNamed(Catalog, <<mm.provider>>)
<1>1. Meant(Catalog, Intent) = {m} /\ Cardinality({m}) = 1
  BY MeantIs, FS_Singleton
<1>2. Plans(Catalog, table, Intent) = UNION {UNION {planned(q, mm) : q \in near(mm)} : mm \in {m}}
  BY <1>1 DEF Plans
<1>3. near(m) = {provider} /\ provider.id = m.provider
  <2>1. m.provider \in Providers
    BY ProviderOf
  <2>2. /\ ~IsAlias(Catalog, <<m.provider>>) /\ Normalized(m.provider) = m.provider
        /\ provider.id = m.provider
    BY <2>1, CatalogAssumption DEF WellFormed, Providers
  <2> QED
    BY <2>1, <2>2, ProviderFound DEF Providers
<1>4. Plans(Catalog, table, Intent) = planned(provider, m)
  <2> HIDE DEF planned, near, m, provider
  <2> QED
    BY <1>2, <1>3
<1>5. \A x : plan1(provider, m, x) = PlanOf(x)
  BY <1>3 DEF PlanOf, Intent, Qualified
<1>6. planned(provider, m) = IF Compatible(provider, m, Intent) THEN {PlanOf(y) : y \in payers} ELSE {}
  <2> HIDE DEF plan1, m, provider
  <2> QED
    BY <1>5
<1> HIDE DEF planned, payers
<1> QED
  BY <1>4, <1>6 DEF Resolved, payers

\* There is one plan at most.
LEMMA OnePlan ==
  ASSUME Rowed(table), pick.model \in Models, pick.profile = None => pick.billing = None
  PROVE  IsFiniteSet(Resolved) /\ Cardinality(Resolved) <= 1
<1> DEFINE p == pick.model.provider
           payers == ProfileFor(Catalog.providers[p], table, Intent)
<1>1. p \in Providers
  BY ProviderOf
<1>2. \A y, z \in payers : z = y
  <2>1. \A y \in payers : payers = {y}
    BY <1>1, Payer
  <2> QED
    BY <2>1
<1>3. Resolved \subseteq {PlanOf(y) : y \in payers}
  BY ResolvedIs
<1>4. Resolved = {} \/ \E x : Resolved = {x}
  <2> HIDE DEF payers
  <2>1. \A x, w \in Resolved : x = w
    BY <1>2, <1>3
  <2> QED
    BY <2>1
<1>5. CASE Resolved = {}
  BY <1>5, FS_EmptySet
<1>6. CASE \E x : Resolved = {x}
  <2>1. PICK x : Resolved = {x}
    BY <1>6
  <2>2. IsFiniteSet({x}) /\ Cardinality({x}) = 1
    BY FS_Singleton
  <2> QED
    BY <2>1, <2>2
<1> QED
  BY <1>4, <1>5, <1>6

-----------------------------------------------------------------------------
(* Modes (SelectionController._options, _cycle).                           *)

\* What a model offers of a mode is a list.
LEMMA OptionsAre ==
  ASSUME NEW kind \in Modes, NEW m \in Models
  PROVE  \E T : Options(kind, m) \in Seq(T)
<1>1. CASE kind = "variant"
  BY <1>1, CatalogAssumption DEF Options
<1>2. CASE kind = "effort"
  BY <1>2, CatalogAssumption DEF Options
<1>3. CASE kind = "tier"
  <2> DEFINE own == Catalog.providers[m.provider].tiers
             T == Range(own) \cup Range(m.tiers)
             declared == own \o m.tiers
  <2>1. own \in Seq(Range(own)) /\ m.tiers \in Seq(Range(m.tiers))
    BY ProviderOf, CatalogAssumption
  <2>2. own \in Seq(T) /\ m.tiers \in Seq(T)
    <3> HIDE DEF own
    <3> QED
      BY <2>1
  <2>3. declared \in Seq(T)
    <3> HIDE DEF own, T
    <3> QED
      BY <2>2
  <2>4. Tiers(Catalog.providers[m.provider], m) \in Seq(T)
    <3> HIDE DEF T
    <3> QED
      BY <2>3, AtPlacesIs DEF Tiers
  <2> QED
    BY <1>3, <2>4 DEF Options
<1> QED
  BY <1>1, <1>2, <1>3 DEF Modes

LEMMA WithinTurn ==
  ASSUME NEW a \in Int, NEW n \in Nat \ {0}
  PROVE  (a % n) + 1 \in 1..n
<1>1. a % n \in 0..(n - 1)
  OBVIOUS
<1> QED
  BY <1>1

\* Cycling goes to something on offer, if anything is.
LEMMA CycledIs ==
  ASSUME NEW T, NEW options \in Seq(T), NEW current
  PROVE  Cycled(current, options) \in Range(options) \cup {None}
<1>1. CASE options = <<>>
  BY <1>1 DEF Cycled
<1>2. CASE options # <<>>
  <2> DEFINE n == (Position(options, current) % Len(options)) + 1
  <2>1. Len(options) \in Nat \ {0} /\ Position(options, current) \in Int
    BY <1>2, PositionIs
  <2>2. n \in 1..Len(options)
    BY <2>1, WithinTurn
  <2>3. Cycled(current, options) = options[n]
    BY <1>2 DEF Cycled
  <2> HIDE DEF n
  <2> QED
    BY <2>2, <2>3 DEF Range
<1> QED
  BY <1>1, <1>2

-----------------------------------------------------------------------------
(* The calls that move the view.                                           *)

\* A step leaves no choice behind.
Follows == Stray' => Stray \/ ui'.runnable

LEMMA Focused ==
  ASSUME NEW u \in Views, NEW focus \in {"providers", "models"}
  PROVE  LET v == [u EXCEPT !.focus = focus]
         IN /\ v \in Views
            /\ v.query = u.query /\ v.active = u.active /\ v.runnable = u.runnable
            /\ v.order = u.order /\ v.pcur = u.pcur /\ v.models = u.models /\ v.cur = u.cur
            /\ OnActive(u) => OnActive(v)
            /\ Listing(u) => Listing(v)
<1> DEFINE v == [u EXCEPT !.focus = focus]
<1>1. /\ v \in Views
      /\ v.query = u.query /\ v.active = u.active /\ v.runnable = u.runnable
      /\ v.order = u.order /\ v.pcur = u.pcur /\ v.models = u.models /\ v.cur = u.cur
  BY DEF Views
<1> HIDE DEF v
<1>2. OnActive(u) => OnActive(v)
  BY <1>1 DEF OnActive, OnList
<1>3. Listing(u) => Listing(v)
  BY <1>1 DEF Listing
<1> QED
  BY <1>1, <1>2, <1>3 DEF v

LEMMA BrowsedIs ==
  ASSUME NEW u \in Views, OnActive(u), NEW provider \in Providers \cup {None}
  PROVE  LET v == Browsed(provider, u)
         IN /\ v \in Views /\ OnActive(v) /\ Listing(v)
            /\ v.query = u.query /\ v.runnable = u.runnable
            /\ v.active = IF provider = None THEN u.active ELSE provider
<1>1. CASE provider = None
  <2> DEFINE w == [u EXCEPT !.focus = "providers"]
  <2>1. /\ w \in Views /\ OnActive(w)
        /\ w.query = u.query /\ w.active = u.active /\ w.runnable = u.runnable
    BY Focused
  <2>2. Browsed(provider, u) = RefreshModels(w, FALSE)
    BY <1>1 DEF Browsed
  <2> HIDE DEF w
  <2> QED
    BY <1>1, <2>1, <2>2, ModelsRefreshed
<1>2. CASE provider # None
  <2> DEFINE s == SetActive(u, provider)
             w == [s EXCEPT !.focus = "models"]
  <2>1. /\ s \in Views /\ OnActive(s)
        /\ s.active = provider /\ s.query = u.query /\ s.runnable = u.runnable
    BY <1>2, ActiveSet DEF OnActive
  <2>2. /\ w \in Views /\ OnActive(w)
        /\ w.active = provider /\ w.query = u.query /\ w.runnable = u.runnable
    <3> HIDE DEF s
    <3> QED
      BY <2>1, Focused
  <2>3. Browsed(provider, u) = RefreshModels(w, FALSE)
    BY <1>2 DEF Browsed
  <2> HIDE DEF w
  <2> QED
    BY <1>2, <2>2, <2>3, ModelsRefreshed
<1> QED
  BY <1>1, <1>2

\* Whatever view is shown, if its cursors are right and the choice is kept only while it
\* is listed under its provider, the invariant goes on.
LEMMA Shown ==
  ASSUME PickerInv, step = "key", Nothing,
         NEW u \in Views, OnActive(u), Listing(u), NEW kept, NEW failed \in BOOLEAN,
         kept = NoPick \/ (kept = pick /\ u.query \in {ui.query, <<>>}),
         Show(u, kept, failed)
  PROVE  PickerInv'
<1>1. /\ ui' = u /\ pick' \in {NoPick, pick} /\ error' \in BOOLEAN
      /\ table' = table /\ step' = "key" /\ plan' = plan
  BY DEF Show, Nothing
<1>2. NoPick.model = None /\ NoPick.profile = None /\ NoPick.billing = None
  BY DEF NoPick
<1>3. PickerTypeOK'
  BY <1>1, <1>2 DEF PickerInv, PickerTypeOK
<1>4. HighlightIsActive' /\ ListIsActive'
  BY <1>1 DEF HighlightIsActive, ListIsActive, OnActive, OnList, Listing
<1>5. ModesOfModel'
  BY <1>1, <1>2 DEF PickerInv, ModesOfModel
<1>6. ChoiceSettled'
  <2>1. CASE pick' = NoPick
    BY <1>1, <1>2, <2>1 DEF ChoiceSettled
  <2>2. CASE pick' = pick /\ u.query = ui.query
    BY <1>1, <2>2 DEF ChoiceSettled, PickerInv
  <2>3. CASE pick' = pick /\ u.query = <<>>
    <3>1. ASSUME pick.model # None
          PROVE  pick.model \in Matching(pick.model.provider, <<>>)
      BY <3>1, ProviderOf, MatchingOf DEF PickerInv, PickerTypeOK
    <3> QED
      BY <1>1, <2>3, <3>1 DEF ChoiceSettled, PickerInv
  <2> QED
    BY <2>1, <2>2, <2>3 DEF Show
<1> QED
  BY <1>3, <1>4, <1>5, <1>6 DEF PickerInv

\* browse: narrowing or resetting the list.
LEMMA BrowseKeeps ==
  ASSUME PickerInv, step = "key", Nothing,
         NEW provider \in Providers \cup {None}, NEW runnable \in BOOLEAN, Browse(provider, runnable)
  PROVE  PickerInv' /\ Follows
<1> DEFINE u0 == [ui EXCEPT !.query = <<>>, !.runnable = runnable]
           u1 == RefreshProviders(u0, TRUE, table)
           v == Browsed(provider, u1)
           kept == IF provider = None THEN pick ELSE KeptPick(u1, provider)
<1>1. Show(v, kept, FALSE)
  BY DEF Browse
<1>2. /\ u0 \in Views /\ u0.query = <<>> /\ u0.runnable = runnable /\ u0.active = ui.active
  BY ListsAssumption DEF PickerInv, PickerTypeOK, Views
<1>3. /\ u1 \in Views /\ OnActive(u1) /\ u1.query = <<>> /\ u1.runnable = runnable
      /\ ~runnable /\ ui.active # None => u1.active = ui.active
  <2> HIDE DEF u0
  <2> QED
    BY <1>2, ProvidersRefreshed
<1>4. /\ v \in Views /\ OnActive(v) /\ Listing(v) /\ v.query = <<>> /\ v.runnable = runnable
      /\ v.active = IF provider = None THEN u1.active ELSE provider
  <2> HIDE DEF u1
  <2> QED
    BY <1>3, BrowsedIs
<1>5. kept \in {NoPick, pick}
  BY DEF KeptPick
<1>6. PickerInv'
  <2> HIDE DEF v, kept
  <2> QED
    BY <1>1, <1>4, <1>5, Shown
<1>7. Follows
  <2> SUFFICES ASSUME Stray', ~runnable PROVE Stray
    <3> HIDE DEF v, kept, u1
    <3> QED
      BY <1>1, <1>4 DEF Follows, Show
  <2>1. ui' = v /\ pick' = kept
    BY <1>1 DEF Show
  <2>2. kept = pick /\ pick.model # None /\ pick.model.provider # v.active
    <3> HIDE DEF v, kept
    <3> QED
      BY <1>5, <2>1 DEF Stray, NoPick
  <2>3. pick.model.provider # None
    BY <2>2, ProviderOf DEF PickerInv, PickerTypeOK
  <2>4. CASE ui.active = None
    BY <2>2, <2>3, <2>4 DEF Stray
  <2>5. CASE ui.active # None
    <3>1. u1.active = ui.active
      BY <1>3, <2>5
    <3>2. CASE provider = None
      <4> HIDE DEF v, kept, u1
      <4> QED
        BY <1>4, <2>2, <3>1, <3>2 DEF Stray
    <3>3. CASE provider # None
      <4> HIDE DEF v, u1
      <4>1. v.active = provider
        BY <1>4, <3>3
      <4>2. u1.active = provider
        BY <2>2, <3>3, <4>1 DEF KeptPick, NoPick
      <4> QED
        BY <2>2, <3>1, <4>1, <4>2 DEF Stray
    <3> QED
      BY <3>2, <3>3
  <2> QED
    BY <2>4, <2>5
<1> QED
  BY <1>6, <1>7

\* search over all providers.
LEMMA SearchKeeps ==
  ASSUME PickerInv, step = "key", Nothing, NEW q \in Queries, Search(q)
  PROVE  PickerInv' /\ Follows
<1> DEFINE u0 == [ui EXCEPT !.query = q]
           u1 == RefreshProviders(u0, q # <<>>, table)
           v == RefreshModels(u1, FALSE)
           kept == IF q # ui.query THEN NoPick ELSE pick
           failed == /\ q # <<>>
                     /\ \/ \A p \in Providers : Matching(p, q) = {}
                        \/ v.focus = "models" /\ v.models = <<>>
<1>1. Show(v, kept, failed)
  BY DEF Search
<1>2. u0 \in Views /\ u0.query = q /\ u0.runnable = ui.runnable /\ u0.active = ui.active
  BY DEF PickerInv, PickerTypeOK, Views
<1>3. /\ u1 \in Views /\ OnActive(u1) /\ u1.query = q /\ u1.runnable = ui.runnable
      /\ (/\ ~ui.runnable /\ ui.active # None
          /\ ~(q # <<>> /\ Matching(ui.active, q) = {})) => u1.active = ui.active
  <2> HIDE DEF u0
  <2>1. (q # <<>>) \in BOOLEAN
    OBVIOUS
  <2> QED
    BY <1>2, <2>1, ProvidersRefreshed
<1>4. /\ v \in Views /\ OnActive(v) /\ Listing(v) /\ v.query = q /\ v.runnable = ui.runnable
      /\ v.active = u1.active
  <2> HIDE DEF u1
  <2> QED
    BY <1>3, ModelsRefreshed
<1>5. PickerInv'
  <2>1. kept = NoPick \/ (kept = pick /\ q = ui.query)
    OBVIOUS
  <2>2. failed \in BOOLEAN
    OBVIOUS
  <2> HIDE DEF v, kept, failed
  <2> QED
    BY <1>1, <1>4, <2>1, <2>2, Shown
<1>6. Follows
  <2> SUFFICES ASSUME Stray', ~Stray PROVE ui.runnable
    <3> HIDE DEF v, kept, failed
    <3> QED
      BY <1>1, <1>4 DEF Follows, Show
  <2>1. ui' = v /\ pick' = kept
    BY <1>1 DEF Show
  <2>2. kept = pick /\ q = ui.query /\ pick.model # None /\ pick.model.provider # v.active
    <3> HIDE DEF v
    <3> QED
      BY <2>1 DEF Stray, NoPick
  <2>3. pick.model.provider = ui.active /\ ui.active # None
    BY <2>2, ProviderOf DEF Stray, PickerInv, PickerTypeOK
  <2>4. pick.model \in Matching(ui.active, q)
    BY <2>2, <2>3 DEF PickerInv, ChoiceSettled
  <2>5. ui.runnable \in BOOLEAN
    BY DEF PickerInv, PickerTypeOK, Views
  <2> HIDE DEF v, kept, failed, u1
  <2> QED
    BY <1>3, <1>4, <2>2, <2>3, <2>4, <2>5
<1> QED
  BY <1>5, <1>6

\* search within the provider that has been entered.
LEMMA SearchInKeeps ==
  ASSUME PickerInv, step = "key", Nothing, NEW q \in Queries, ui.active # None,
         SearchIn(q, ui.active)
  PROVE  PickerInv' /\ Follows
<1> DEFINE p == ui.active
           u0 == [ui EXCEPT !.query = q, !.runnable = FALSE]
           u1 == RefreshProviders(u0, FALSE, table)
           s == SetActive(u1, p)
           v == [s EXCEPT !.focus = "models"]
           kept == IF q # ui.query THEN NoPick ELSE KeptPick(u1, p)
           failed == q # <<>> /\ v.models = <<>>
<1>1. Show(v, kept, failed)
  BY DEF SearchIn
<1>2. u0 \in Views /\ u0.query = q
  BY DEF PickerInv, PickerTypeOK, Views
<1>3. u1 \in Views /\ OnList(u1) /\ u1.query = q
  <2> HIDE DEF u0
  <2> QED
    BY <1>2, ProvidersRefreshed DEF OnActive
<1>4. p \in Providers
  BY DEF PickerInv, PickerTypeOK, Views
<1>5. s \in Views /\ OnActive(s) /\ Listing(s) /\ s.query = q /\ s.active = p
  <2> HIDE DEF u1, p
  <2> QED
    BY <1>3, <1>4, ActiveSet
<1>6. v \in Views /\ OnActive(v) /\ Listing(v) /\ v.query = q /\ v.active = p
  <2> HIDE DEF s
  <2> QED
    BY <1>5, Focused
<1>7. kept = NoPick \/ (kept = pick /\ q = ui.query)
  BY DEF KeptPick
<1>8. PickerInv'
  <2>1. failed \in BOOLEAN
    OBVIOUS
  <2> HIDE DEF v, kept, failed
  <2> QED
    BY <1>1, <1>6, <1>7, <2>1, Shown
<1>9. Follows
  <2>1. ui' = v /\ pick' = kept
    BY <1>1 DEF Show
  <2> HIDE DEF v, kept
  <2> QED
    BY <1>6, <1>7, <2>1 DEF Follows, Stray, NoPick
<1> QED
  BY <1>8, <1>9

\* _apply_query
LEMMA QueryKeeps ==
  ASSUME PickerInv, step = "key", Nothing, NEW q \in Queries, ApplyQuery(q)
  PROVE  PickerInv' /\ Follows
BY SearchKeeps, SearchInKeeps DEF ApplyQuery

\* _move_provider
LEMMA ProviderMoved ==
  ASSUME PickerInv, step = "key", Nothing, NEW delta \in {-1, 1}, MoveProvider(delta),
         ui.order # <<>>
  PROVE  PickerInv' /\ Follows
<1> DEFINE at == Wrapped(ui.pcur, delta, Len(ui.order))
           p == ui.order[at]
           u0 == [ui EXCEPT !.pcur = at]
           v == SetActive(u0, p)
<1>1. Show(v, KeptPick(ui, p), FALSE)
  BY DEF MoveProvider
<1>2. at \in 1..Len(ui.order) /\ p \in Providers
  <2>1. Len(ui.order) \in Nat \ {0} /\ ui.pcur - 1 + delta \in Int /\ ui.order \in Seq(Providers)
    BY DEF PickerInv, PickerTypeOK, Views
  <2>2. at \in 1..Len(ui.order)
    BY <2>1, WithinTurn DEF Wrapped
  <2> HIDE DEF at
  <2> QED
    BY <2>1, <2>2
<1>3. u0 \in Views /\ OnList(u0) /\ u0.query = ui.query
  <2> HIDE DEF at
  <2>1. ui \in Views /\ at \in Nat
    BY <1>2 DEF PickerInv, PickerTypeOK
  <2>2. u0 \in Views /\ u0.query = ui.query /\ u0.pcur = at /\ u0.order = ui.order
    BY <2>1 DEF Views
  <2> HIDE DEF u0
  <2> QED
    BY <1>2, <2>2 DEF OnList
<1>4. v \in Views /\ OnActive(v) /\ Listing(v) /\ v.query = ui.query /\ v.active = p
  <2> HIDE DEF u0, p
  <2> QED
    BY <1>2, <1>3, ActiveSet
<1>5. KeptPick(ui, p) \in {NoPick, pick}
  BY DEF KeptPick
<1>6. PickerInv'
  <2> HIDE DEF v, p
  <2> QED
    BY <1>1, <1>4, <1>5, Shown
<1>7. Follows
  <2>1. ui' = v /\ pick' = KeptPick(ui, p)
    BY <1>1 DEF Show
  <2> HIDE DEF v, p
  <2> QED
    BY <1>4, <2>1 DEF Follows, Stray, KeptPick, NoPick
<1> QED
  BY <1>6, <1>7

\* A view like the one shown, but for the model under the cursor or the column in focus,
\* may take its place.
LEMMA SameChoice ==
  ASSUME PickerInv, step = "key", Nothing, NEW u \in Views, OnActive(u), Listing(u),
         u.active = ui.active, u.query = ui.query, NEW failed \in BOOLEAN, Show(u, pick, failed)
  PROVE  PickerInv' /\ Follows
<1>1. PickerInv'
  BY Shown
<1>2. Follows
  BY DEF Follows, Stray, Show
<1> QED
  BY <1>1, <1>2

LEMMA Itself ==
  ASSUME PickerInv
  PROVE  ui \in Views /\ OnActive(ui) /\ Listing(ui)
BY DEF PickerInv, PickerTypeOK, HighlightIsActive, ListIsActive, OnActive, OnList, Listing

\* _move_model
LEMMA ModelMoved ==
  ASSUME PickerInv, step = "key", Nothing, NEW delta \in {-1, 1}, MoveModel(delta)
  PROVE  PickerInv' /\ Follows
<1>1. CASE ui.models = <<>>
  <2>1. Show(ui, pick, FALSE)
    BY <1>1 DEF MoveModel
  <2> QED
    BY <2>1, Itself, SameChoice
<1>2. CASE ui.models # <<>>
  <2> DEFINE at == Wrapped(ui.cur, delta, Len(ui.models))
             v == [ui EXCEPT !.cur = at]
  <2>1. Show(v, pick, FALSE)
    BY <1>2 DEF MoveModel
  <2>2. at \in 1..Len(ui.models) /\ at \in Nat
    <3>1. Len(ui.models) \in Nat \ {0} /\ ui.cur - 1 + delta \in Int
      BY <1>2 DEF PickerInv, PickerTypeOK, Views
    <3> QED
      BY <3>1, WithinTurn DEF Wrapped
  <2>3. /\ v \in Views /\ v.query = ui.query /\ v.active = ui.active /\ v.order = ui.order
        /\ v.pcur = ui.pcur /\ v.models = ui.models /\ v.cur = at
    <3> HIDE DEF at
    <3> QED
      BY <2>2, Itself DEF Views
  <2>4. OnActive(v) /\ Listing(v)
    <3> HIDE DEF v, at
    <3> QED
      BY <2>2, <2>3, Itself DEF OnActive, OnList, Listing
  <2> HIDE DEF v
  <2> QED
    BY <2>1, <2>3, <2>4, SameChoice
<1> QED
  BY <1>1, <1>2

\* activate_provider and focus_providers
LEMMA FocusMoved ==
  ASSUME PickerInv, step = "key", Nothing, ActivateProvider \/ FocusProviders
  PROVE  PickerInv' /\ Follows
<1>1. PICK focus \in {"providers", "models"}, failed \in BOOLEAN :
        Show([ui EXCEPT !.focus = focus], pick, failed)
  BY DEF ActivateProvider, FocusProviders
<1> DEFINE v == [ui EXCEPT !.focus = focus]
<1>2. v \in Views /\ OnActive(v) /\ Listing(v) /\ v.query = ui.query /\ v.active = ui.active
  BY Itself, Focused
<1> HIDE DEF v
<1> QED
  BY <1>1, <1>2, SameChoice DEF v

-----------------------------------------------------------------------------
(* The calls that change the choice, and the other processes.              *)

\* choose, by Enter on a model that is not the chosen one.
LEMMA ModelEntered ==
  ASSUME PickerInv, EnterModel
  PROVE  PickerInv' /\ Follows
<1> DEFINE m == ui.models[ui.cur]
<1>1. /\ m \in Models /\ m # None /\ m.provider = ui.active /\ m \in Matching(m.provider, ui.query)
  <2>1. m \in Range(ui.models) /\ ui.active \in Providers
    BY DEF EnterModel, PickerInv, ListIsActive, PickerTypeOK, Views, Range
  <2>2. m \in Matching(ui.active, ui.query)
    BY <2>1 DEF EnterModel, PickerInv, ListIsActive
  <2>3. m \in ProviderModels(ui.active)
    BY <2>1, <2>2, MatchingOf
  <2> HIDE DEF m
  <2> QED
    BY <2>1, <2>2, <2>3, ModelsOf, ProviderOf
<1>2. PICK profile :
        pick' = [model |-> m, variant |-> Default("variant", m), effort |-> Default("effort", m),
                 tier |-> Default("tier", m), billing |-> pick.billing, profile |-> profile]
  BY DEF EnterModel, Choose
<1>3. step' = "derive" /\ error' = FALSE /\ UNCHANGED <<table, ui, plan>>
  BY DEF EnterModel, Choose
<1> HIDE DEF m
<1>4. PickerTypeOK'
  <2>1. DOMAIN pick' = DOMAIN NoPick /\ pick'.model = m
    BY <1>2 DEF NoPick
  <2> QED
    BY <1>1, <1>3, <2>1 DEF PickerInv, PickerTypeOK
<1>5. ModesOfModel'
  <2>1. ASSUME NEW kind \in Modes PROVE pick'[kind] = Default(kind, m)
    BY <1>2 DEF Modes
  <2>2. \A kind \in Modes : Default(kind, m) \in Range(Options(kind, m)) \cup {None}
    BY DEF Default
  <2>3. pick'.model = m
    BY <1>2
  <2> QED
    BY <1>1, <2>1, <2>2, <2>3 DEF ModesOfModel
<1>6. ChoiceSettled'
  <2>1. pick'.model = m
    BY <1>2
  <2> QED
    BY <1>1, <1>3, <2>1 DEF ChoiceSettled
<1>7. HighlightIsActive' /\ ListIsActive'
  BY <1>3 DEF PickerInv, HighlightIsActive, ListIsActive
<1>8. Follows
  <2>1. pick'.model = m
    BY <1>2
  <2> QED
    BY <1>1, <1>3, <2>1 DEF Follows, Stray
<1> QED
  BY <1>4, <1>5, <1>6, <1>7, <1>8 DEF PickerInv

\* The second reading of the table: no profile, no billing.
LEMMA Derived ==
  ASSUME PickerInv, Derive
  PROVE  PickerInv' /\ Follows
<1>1. PICK billing :
        /\ pick' = [pick EXCEPT !.billing = billing]
        /\ pick.profile = None => billing = None
  <2> DEFINE shown == {x \in Enabled(table, pick.model.provider) : x.id = pick.profile}
             billing == IF shown = {} THEN None ELSE (CHOOSE x \in shown : TRUE).billing
  <2>1. pick' = [pick EXCEPT !.billing = billing]
    BY DEF Derive
  <2>2. pick.profile = None => shown = {}
    BY RowsAssumption DEF PickerInv, PickerTypeOK, Enabled
  <2>3. pick.profile = None => billing = None
    BY <2>2
  <2> HIDE DEF billing
  <2> QED
    BY <2>1, <2>3
<1>2. step' = "key" /\ UNCHANGED <<table, ui, error, plan>> /\ step = "derive"
  BY DEF Derive
<1>3. /\ DOMAIN pick' = DOMAIN pick
      /\ \A f \in DOMAIN pick : f # "billing" => pick'[f] = pick[f]
      /\ pick'["billing"] = billing
      /\ DOMAIN pick = {"model", "variant", "effort", "tier", "billing", "profile"}
  BY <1>1 DEF PickerInv, PickerTypeOK, NoPick
<1>4. PickerTypeOK'
  BY <1>2, <1>3 DEF PickerInv, PickerTypeOK
<1>5. ModesOfModel'
  BY <1>2, <1>3 DEF PickerInv, ModesOfModel, ChoiceSettled, Modes
<1>6. ChoiceSettled'
  BY <1>1, <1>2, <1>3 DEF PickerInv, ChoiceSettled
<1>7. HighlightIsActive' /\ ListIsActive'
  BY <1>2 DEF PickerInv, HighlightIsActive, ListIsActive
<1>8. Follows
  BY <1>2, <1>3 DEF Follows, Stray
<1> QED
  BY <1>4, <1>5, <1>6, <1>7, <1>8 DEF PickerInv

\* cycle_variant, cycle_effort, cycle_tier
LEMMA ModeCycled ==
  ASSUME PickerInv, NEW kind \in Modes, CycleMode(kind)
  PROVE  PickerInv' /\ Follows
<1> DEFINE next == Cycled(pick[kind], Options(kind, pick.model))
<1>1. pick' = [pick EXCEPT ![kind] = next] /\ UNCHANGED <<ui, error, table, step, plan>>
      /\ pick.model # None /\ pick.model \in Models
  BY DEF CycleMode, Nothing, PickerInv, PickerTypeOK
<1>2. next \in Range(Options(kind, pick.model)) \cup {None}
  BY <1>1, OptionsAre, CycledIs
<1> HIDE DEF next
<1>3. /\ DOMAIN pick' = DOMAIN pick
      /\ \A f \in DOMAIN pick : f # kind => pick'[f] = pick[f]
      /\ pick'[kind] = next
      /\ DOMAIN pick = {"model", "variant", "effort", "tier", "billing", "profile"}
      /\ kind \in {"variant", "effort", "tier"}
  BY <1>1 DEF PickerInv, PickerTypeOK, NoPick, Modes
<1>4. pick'.model = pick.model /\ pick'.profile = pick.profile /\ pick'.billing = pick.billing
  BY <1>3
<1>5. PickerTypeOK'
  BY <1>1, <1>3, <1>4 DEF PickerInv, PickerTypeOK
<1>6. ModesOfModel'
  <2>1. ASSUME NEW k \in Modes PROVE pick'[k] \in Range(Options(k, pick.model)) \cup {None}
    <3>1. CASE k = kind
      BY <1>2, <1>3, <3>1
    <3>2. CASE k # kind
      BY <1>1, <1>3, <3>2 DEF PickerInv, ModesOfModel, Modes
    <3> QED
      BY <3>1, <3>2
  <2> QED
    BY <1>1, <1>4, <2>1 DEF ModesOfModel
<1>7. ChoiceSettled' /\ HighlightIsActive' /\ ListIsActive'
  BY <1>1, <1>4 DEF PickerInv, ChoiceSettled, HighlightIsActive, ListIsActive
<1>8. Follows
  BY <1>1, <1>4 DEF Follows, Stray
<1> QED
  BY <1>5, <1>6, <1>7, <1>8 DEF PickerInv

\* cycle_profile
LEMMA ProfileCycled ==
  ASSUME PickerInv, CycleProfile
  PROVE  PickerInv' /\ Follows
<1>1. PICK profile : pick' = [pick EXCEPT !.profile = profile]
  BY DEF CycleProfile
<1>2. step' = "derive" /\ UNCHANGED <<table, ui, error, plan>> /\ pick.model # None
  BY DEF CycleProfile
<1>3. /\ DOMAIN pick' = DOMAIN pick
      /\ \A f \in DOMAIN pick : f # "profile" => pick'[f] = pick[f]
      /\ DOMAIN pick = {"model", "variant", "effort", "tier", "billing", "profile"}
  BY <1>1 DEF PickerInv, PickerTypeOK, NoPick
<1>4. PickerTypeOK'
  BY <1>2, <1>3 DEF PickerInv, PickerTypeOK
<1>5. ModesOfModel'
  BY <1>2, <1>3 DEF PickerInv, ModesOfModel, Modes
<1>6. ChoiceSettled' /\ HighlightIsActive' /\ ListIsActive'
  BY <1>2, <1>3 DEF PickerInv, ChoiceSettled, HighlightIsActive, ListIsActive
<1>7. Follows
  BY <1>2, <1>3 DEF Follows, Stray
<1> QED
  BY <1>4, <1>5, <1>6, <1>7 DEF PickerInv

\* Confirming makes one plan at most; leaving makes none.
LEMMA Confirmed ==
  ASSUME PickerInv, Confirm \/ (Waiting /\ Quit)
  PROVE  PickerInv' /\ Follows
<1>1. /\ UNCHANGED <<table, ui, pick>>
      /\ error' \in BOOLEAN /\ step' \in {"key", "closed"} /\ step = "key"
  <2>1. (Resolved = {}) \in BOOLEAN
    OBVIOUS
  <2> QED
    BY <2>1 DEF Confirm, Waiting, Quit, PickerInv, PickerTypeOK
<1>2. IsFiniteSet(plan') /\ Cardinality(plan') <= 1
  <2>1. CASE Confirm
    <3>1. pick.model \in Models
      <4>1. ui.models[ui.cur] \in Models
        BY <2>1 DEF Confirm, PickerInv, PickerTypeOK, ListIsActive, Views
      <4> QED
        BY <2>1, <4>1 DEF Confirm
    <3>2. Rowed(table) /\ (pick.profile = None => pick.billing = None)
      BY <1>1 DEF PickerInv, PickerTypeOK, Rowed, ChoiceSettled
    <3> QED
      BY <2>1, <3>1, <3>2, OnePlan DEF Confirm
  <2>2. CASE Waiting /\ Quit
    BY <2>2 DEF Quit, PickerInv, PickerTypeOK
  <2> QED
    BY <2>1, <2>2
<1>3. PickerTypeOK'
  BY <1>1, <1>2 DEF PickerInv, PickerTypeOK
<1>4. ModesOfModel' /\ ChoiceSettled' /\ HighlightIsActive' /\ ListIsActive'
  BY <1>1 DEF PickerInv, ModesOfModel, ChoiceSettled, HighlightIsActive, ListIsActive
<1>5. Follows
  BY <1>1 DEF Follows, Stray
<1> QED
  BY <1>3, <1>4, <1>5 DEF PickerInv

\* The table under the picker stays a table: an id, a row.
LEMMA OthersKeep ==
  ASSUME PickerInv, Others
  PROVE  PickerInv' /\ Follows
<1>1. UNCHANGED <<ui, pick, error, step, plan>>
  BY DEF Others, Upsert, Delete
<1>2. table' \subseteq Rows /\ Keyed(table')
  <2>0. Rowed(table)
    BY DEF PickerInv, PickerTypeOK, Rowed
  <2>1. CASE \E x \in Rows \ table : Upsert(x)
    <3>1. PICK x \in Rows : table' = {y \in table : y.id # x.id} \cup {x}
      BY <2>1 DEF Upsert
    <3> DEFINE rest == {y \in table : y.id # x.id}
    <3>2. IsFiniteSet(rest)
      BY <2>0, FS_Subset DEF Rowed, Keyed
    <3>3. IsFiniteSet(rest \cup {x})
      <4> HIDE DEF rest
      <4> QED
        BY <3>2, FS_AddElement
    <3> QED
      BY <2>0, <3>1, <3>3 DEF Rowed, Keyed
  <2>2. CASE \E x \in table : Delete(x.id)
    <3>1. table' \in SUBSET table
      BY <2>2 DEF Delete
    <3> QED
      BY <2>0, <3>1, SubsetRowed DEF Rowed
  <2> QED
    BY <2>1, <2>2 DEF Others
<1>3. PickerTypeOK'
  BY <1>1, <1>2 DEF PickerInv, PickerTypeOK
<1>4. ModesOfModel' /\ ChoiceSettled' /\ HighlightIsActive' /\ ListIsActive'
  BY <1>1 DEF PickerInv, ModesOfModel, ChoiceSettled, HighlightIsActive, ListIsActive
<1>5. Follows
  BY <1>1 DEF Follows, Stray
<1> QED
  BY <1>3, <1>4, <1>5 DEF PickerInv

-----------------------------------------------------------------------------
(* Every step.                                                             *)

LEMMA KeyKeeps ==
  ASSUME PickerInv, Key
  PROVE  PickerInv' /\ Follows
<1>0. ui.query \in Queries
  BY DEF PickerInv, PickerTypeOK, Views
<1>1. CASE CtrlC
  BY <1>1, Confirmed DEF CtrlC
<1>2. CASE Enter
  <2>1. CASE ActivateProvider /\ Nothing
    BY <1>2, <2>1, FocusMoved DEF Enter, Waiting
  <2>2. CASE Waiting /\ Quit
    BY <2>2, Confirmed
  <2> QED
    BY <1>2, <2>1, <2>2 DEF Enter
<1>3. CASE Left
  BY <1>3, FocusMoved DEF Left, Waiting
<1>4. CASE Escape
  <2>1. CASE Waiting /\ ApplyQuery(<<>>) /\ Nothing
    BY <2>1, ListsAssumption, QueryKeeps DEF Waiting
  <2>2. CASE Waiting /\ FocusProviders /\ Nothing
    BY <2>2, FocusMoved DEF Waiting
  <2>3. CASE Waiting /\ Quit
    BY <2>3, Confirmed
  <2> QED
    BY <1>4, <2>1, <2>2, <2>3 DEF Escape
<1>5. CASE Backspace
  <2>1. Front(ui.query) \in Queries
    BY <1>0, <1>5, ListsAssumption DEF Backspace
  <2> QED
    BY <1>5, <2>1, QueryKeeps DEF Backspace, Waiting
<1>6. ASSUME NEW delta \in {-1, 1}, Arrow(delta) PROVE PickerInv' /\ Follows
  <2>1. CASE MoveProvider(delta) /\ ui.order # <<>>
    BY <1>6, <2>1, ProviderMoved DEF Arrow, Waiting
  <2>2. CASE MoveProvider(delta) /\ ui.order = <<>>
    <3>1. UNCHANGED <<table, ui, pick, error, step, plan>>
      BY <1>6, <2>2 DEF Arrow, MoveProvider, Nothing
    <3> QED
      BY <3>1 DEF Follows, Stray, PickerInv, PickerTypeOK, HighlightIsActive, ListIsActive,
                  ModesOfModel, ChoiceSettled
  <2>3. CASE MoveModel(delta)
    BY <1>6, <2>3, ModelMoved DEF Arrow, Waiting
  <2> QED
    BY <1>6, <2>1, <2>2, <2>3 DEF Arrow
<1>7. ASSUME NEW key \in Letters \cup {"space"}, Type(key) PROVE PickerInv' /\ Follows
  <2>1. PICK q \in Queries : ApplyQuery(q)
    BY <1>7 DEF Type
  <2> QED
    BY <1>7, <2>1, QueryKeeps DEF Type, Waiting
<1>8. ASSUME NEW kind \in Modes, CycleMode(kind) PROVE PickerInv' /\ Follows
  BY <1>8, ModeCycled
<1>9. CASE CycleProfile
  BY <1>9, ProfileCycled
<1>10. CASE EnterModel
  BY <1>10, ModelEntered
<1>11. CASE Confirm
  BY <1>11, Confirmed
<1> QED
  BY <1>1, <1>2, <1>3, <1>4, <1>5, <1>6, <1>7, <1>8, <1>9, <1>10, <1>11 DEF Key, Modes

LEMMA NextKeeps ==
  ASSUME PickerInv, [PickerNext]_pickerVars
  PROVE  PickerInv' /\ Follows
<1>1. CASE Key
  BY <1>1, KeyKeeps
<1>2. CASE Derive
  BY <1>2, Derived
<1>3. CASE Others
  BY <1>3, OthersKeep
<1>4. ASSUME NEW provider \in Providers \cup {None}, NEW runnable \in BOOLEAN,
             Narrow(provider, runnable)
      PROVE  PickerInv' /\ Follows
  BY <1>4, BrowseKeeps DEF Narrow, Waiting
<1>5. CASE UNCHANGED pickerVars
  BY <1>5 DEF pickerVars, Follows, Stray, PickerInv, PickerTypeOK, HighlightIsActive, ListIsActive,
              ModesOfModel, ChoiceSettled
<1> QED
  BY <1>1, <1>2, <1>3, <1>4, <1>5 DEF PickerNext

\* The picker opens on the whole list.
LEMMA InitPicker == ASSUME PickerInit PROVE PickerInv
<1> DEFINE u == RefreshProviders(Start, TRUE, table)
<1>1. Start \in Views
  <2>1. <<>> \in Queries /\ <<>> \in Seq(Providers) /\ <<>> \in Seq(Models)
    BY ListsAssumption
  <2> QED
    BY <2>1 DEF Start, Views
<1>2. u \in Views /\ OnActive(u)
  BY <1>1, ProvidersRefreshed
<1>3. ui \in Views /\ OnActive(ui) /\ Listing(ui)
  <2>1. ui = Browsed(None, u)
    BY DEF PickerInit
  <2> HIDE DEF u
  <2> QED
    BY <1>2, <2>1, BrowsedIs
<1>4. table \subseteq Rows /\ Keyed(table) /\ pick = NoPick /\ error = FALSE /\ step = "key" /\ plan = {}
  BY DEF PickerInit
<1>5. NoPick.model = None /\ NoPick.profile = None /\ NoPick.billing = None
  BY DEF NoPick
<1>6. PickerTypeOK
  <2>1. IsFiniteSet(plan) /\ Cardinality(plan) <= 1
    BY <1>4, FS_EmptySet
  <2>2. DOMAIN pick = DOMAIN NoPick /\ pick.model \in Models \cup {None}
    BY <1>4, <1>5
  <2> QED
    BY <1>3, <1>4, <2>1, <2>2 DEF PickerTypeOK
<1>7. ModesOfModel /\ ChoiceSettled
  BY <1>4, <1>5 DEF ModesOfModel, ChoiceSettled
<1> QED
  BY <1>3, <1>6, <1>7 DEF PickerInv, HighlightIsActive, ListIsActive, OnActive, OnList, Listing

-----------------------------------------------------------------------------
(* What the picker promises, for every catalogue, table and order of keys. *)

\* However keys are pressed and whatever happens to the profile table meanwhile, both
\* cursors are on something, what is listed belongs to what is highlighted, and only
\* modes the chosen model has are set (SelectionController).
THEOREM PickerInvariant == PickerSpec => []PickerInv
<1>1. PickerInv /\ [PickerNext]_pickerVars => PickerInv'
  BY NextKeeps
<1> QED
  BY <1>1, InitPicker, PTL DEF PickerSpec

\* No move to another provider leaves a choice behind (_set_active_provider, search), but
\* for the narrowing of the list to what the application can run.
THEOREM ChoiceIsFollowed == PickerSpec => ChoiceFollows
<1>1. PickerInv /\ [PickerNext]_pickerVars => [Stray' => Stray \/ ui'.runnable]_pickerVars
  BY NextKeeps DEF Follows
<1> QED
  BY <1>1, PickerInvariant, PTL DEF PickerSpec, ChoiceFollows

\* For every provider and billing kind, whatever is in the table: when the selector names
\* a profile, the broker takes that one (Selector._resolve_profile,
\* CredentialBroker.resolve); where the selector refuses, nothing is said.
THEOREM SelectorAndBrokerAgreed == PickerSpec => []SelectorAndBrokerAgree
<1>1. PickerInv => SelectorAndBrokerAgree
  BY SelectorAndBroker DEF PickerInv, PickerTypeOK, Rowed, SelectorAndBrokerAgree
<1> QED
  BY <1>1, PickerInvariant, PTL

\* A plan is what the screen showed (SelectionController.resolve after any number of
\* changes to the table since the choice).
THEOREM PlanIsAsShown == PickerSpec => PlanAsShown
<1> DEFINE able == Enabled(table, pick.model.provider)
           Same(x) ==
             /\ x.model = Qualified(pick.model) /\ x.model \in Supported
             /\ \A kind \in Modes : x[kind] = pick[kind]
             /\ pick.profile # None => x.profile = pick.profile
             /\ pick.billing # None => x.billing = pick.billing
             /\ IF x.profile = None THEN able = {}
                ELSE /\ \E y \in able : y.id = x.profile /\ y.billing = x.billing
                     /\ pick.profile = None => \A y \in able : y.billing = x.billing
<1>1. ASSUME PickerInv, Confirm, NEW x \in Resolved PROVE Same(x)
  <2> DEFINE p == pick.model.provider
             payers == ProfileFor(Catalog.providers[p], table, Intent)
  <2>1. pick.model \in Models
    <3>1. ui.models[ui.cur] \in Models
      BY <1>1 DEF Confirm, PickerInv, PickerTypeOK, ListIsActive, Views
    <3> QED
      BY <1>1, <3>1 DEF Confirm
  <2>2. p \in Providers /\ Rowed(table) /\ (pick.profile = None => pick.billing = None)
    BY <1>1, <2>1, ProviderOf DEF Confirm, Waiting, PickerInv, PickerTypeOK, ChoiceSettled, Rowed
  <2>3. Runnable(pick.model) /\ \E y \in payers : x = PlanOf(y)
    BY <1>1, <2>1, ResolvedIs
  <2>4. PICK y \in payers : x = PlanOf(y)
    BY <2>3
  <2>5. Pays(p, y)
    BY <2>2, Payer
  <2>6. /\ x.model = Qualified(pick.model)
        /\ \A kind \in Modes : x[kind] = pick[kind]
        /\ x.profile = IF y = None THEN None ELSE y.id
        /\ x.billing = IF y = None THEN pick.billing ELSE y.billing
    BY <2>4 DEF PlanOf, Modes
  <2>7. x.model \in Supported
    BY <2>3, <2>6 DEF Runnable
  <2>8. CASE y = None
    <3>1. x.profile = None /\ x.billing = pick.billing /\ pick.profile = None /\ able = {}
      BY <2>5, <2>6, <2>8 DEF Pays
    <3> QED
      BY <2>6, <2>7, <3>1
  <2>9. CASE y # None
    <3>1. /\ x.profile = y.id /\ x.billing = y.billing /\ y.id # None /\ y \in able
          /\ pick.profile # None => y.id = pick.profile
          /\ pick.billing # None => y.billing = pick.billing
          /\ pick.profile = None => \A z \in able : z.billing = y.billing
      BY <2>5, <2>6, <2>9 DEF Pays
    <3> HIDE DEF able
    <3> QED
      BY <2>6, <2>7, <3>1
  <2> QED
    BY <2>8, <2>9
<1>2. ASSUME PickerInv, [PickerNext]_pickerVars, NEW x \in plan' \ plan PROVE Same(x)
  <2>1. CASE Confirm
    BY <1>1, <1>2, <2>1 DEF Confirm
  <2>2. CASE ~Confirm
    <3>1. plan' = plan
      BY <1>2, <2>2 DEF PickerNext, Key, CtrlC, Enter, Left, Escape, Backspace, Arrow, Type,
           CycleMode, CycleProfile, EnterModel, Choose, Derive, Others, Upsert, Delete, Narrow,
           Nothing, Quit, pickerVars
    <3> QED
      BY <1>2, <3>1
  <2> QED
    BY <2>1, <2>2
<1>3. PickerInv /\ [PickerNext]_pickerVars => [\A x \in plan' \ plan : Same(x)]_pickerVars
  <2> HIDE DEF Same
  <2> QED
    BY <1>2
<1>4. PickerSpec => [][\A x \in plan' \ plan : Same(x)]_pickerVars
  <2> HIDE DEF Same
  <2> QED
    BY <1>3, PickerInvariant, PTL DEF PickerSpec
<1> QED
  BY <1>4 DEF PlanAsShown

\* While the screen says ready and is still right, confirming yields a plan
\* (SelectionView.route_ready, Selector.select).
THEOREM ReadyIsKept == PickerSpec => []ReadyResolves
<1>1. ASSUME PickerInv, RouteReady, ShownStillTrue, EffortReasoned PROVE Resolved # {}
  <2> DEFINE m == pick.model
             p == m.provider
             provider == Catalog.providers[p]
             able == Enabled(table, p)
             payers == ProfileFor(provider, table, Intent)
  <2>1. m \in Models /\ Rowed(table) /\ (pick.profile = None => pick.billing = None)
    BY <1>1 DEF RouteReady, PickerInv, PickerTypeOK, ChoiceSettled, Rowed
  <2>2. p \in Providers /\ provider.id = p
    BY <2>1, ProviderOf, CatalogAssumption DEF WellFormed, Providers
  <2>3. Compatible(provider, m, Intent)
    <3>1. \A kind \in Modes : pick[kind] \in Range(Options(kind, m)) \cup {None}
      BY <1>1 DEF RouteReady, PickerInv, ModesOfModel
    <3>2. /\ pick.variant \in Range(m.variants) \cup {None}
          /\ pick.effort \in Range(m.efforts) \cup {None}
          /\ pick.tier \in Range(Tiers(provider, m)) \cup {None}
      BY <3>1 DEF Modes, Options
    <3> QED
      BY <1>1, <3>2 DEF Compatible, MeetsNeeds, Intent, EffortReasoned
  <2>4. payers # {}
    <3>0. Intent.profile = pick.profile /\ Intent.billing = pick.billing
      BY DEF Intent
    <3>1. CASE pick.profile # None
      <4>1. PICK x \in able : x.id = pick.profile /\ x.billing = pick.billing /\ Declared(provider, x)
        BY <1>1, <3>1 DEF ShownStillTrue
      <4>2. x \in NamedProfile(provider, table, Intent)
        BY <2>2, <3>0, <4>1 DEF NamedProfile, Enabled
      <4>3. payers = NamedProfile(provider, table, Intent)
        BY <3>0, <3>1 DEF ProfileFor
      <4> QED
        BY <4>2, <4>3
    <3>2. CASE pick.profile = None
      <4> DEFINE fit == Billing(Intent.billing, Enabled(table, provider.id))
                 many == Cardinality({x.billing : x \in fit}) > 1
                 first == {x \in First(fit) : Declared(provider, x)}
      <4>1. fit = able /\ pick.billing = None
        BY <2>1, <2>2, <3>0, <3>2 DEF Billing
      <4>2. payers = IF fit = {} THEN {None} ELSE IF many THEN {} ELSE first
        <5>1. payers = CASE Intent.profile # None -> NamedProfile(provider, table, Intent)
                         [] Intent.profile = None /\ fit = {}
                              -> IF Intent.billing = None THEN {None} ELSE {}
                         [] Intent.profile = None /\ fit # {} /\ many -> {}
                         [] OTHER -> first
          BY DEF ProfileFor
        <5> HIDE DEF fit, many, first, payers
        <5> QED
          BY <3>0, <3>2, <4>1, <5>1
      <4>3. Cardinality({x.billing : x \in able}) <= 1 /\ \A x \in able : Declared(provider, x)
        BY <1>1, <3>2 DEF ShownStillTrue
      <4>4. ASSUME fit # {} PROVE ~many /\ first # {}
        <5>1. Rowed(able)
          BY <2>1, SubsetRowed DEF Enabled
        <5>2. PICK x : x \in First(able)
          BY <4>1, <4>4, <5>1, FirstThere
        <5>3. x \in first
          BY <4>1, <4>3, <5>2 DEF First
        <5>4. ~many
          <6>1. IsFiniteSet(able)
            BY <5>1 DEF Rowed, Keyed
          <6>2. Cardinality({z.billing : z \in able}) \in Nat
            <7> HIDE DEF able
            <7> QED
              BY <6>1, WaysFinite
          <6> QED
            BY <4>1, <4>3, <6>2
        <5> QED
          BY <5>3, <5>4
      <4> HIDE DEF fit, many, first, payers
      <4> QED
        BY <4>2, <4>4
    <3> QED
      BY <3>1, <3>2
  <2>5. PICK y : y \in payers
    BY <2>4
  <2>6. PlanOf(y) \in Resolved
    <3>1. Runnable(m)
      BY <1>1 DEF RouteReady
    <3> QED
      BY <2>1, <2>3, <2>5, <3>1, ResolvedIs
  <2> QED
    BY <2>6
<1>2. PickerInv => ReadyResolves
  BY <1>1 DEF ReadyResolves
<1> QED
  BY <1>2, PickerInvariant, PTL
=============================================================================
