--------------------------- MODULE CatalogueProofs ---------------------------
(***************************************************************************)
(* Proofs about Catalogue for any number of workers, providers, items,     *)
(* products and requests, any history of price lists and any number of     *)
(* crashes: no lock outlives its synchronisation, no worker answers with   *)
(* older prices than it answered before, none replaces prices that it      *)
(* stored by older ones, and a product sold below its cost is one whose    *)
(* price an administrator named, or saved over another.                    *)
(***************************************************************************)
EXTENDS Catalogue, TLAPS

Pairs == Workers \X Providers

-----------------------------------------------------------------------------
(* What the kinds of steps leave alone *)

\* The steps of synchronisations.
Synchronises == \E s \in Syncs : SyncBegin(s) \/ SyncStep(s)

\* The steps of orders and caches that write a product or read one only.
Trades ==
  \/ \E o \in Orders, g \in Goods : OrderBegin(o, g)
  \/ \E u \in updates : AutoUpdate(u)

\* The steps of administrators.
Administers ==
  \/ \E a \in Admins : \/ CreateBegin(a) \/ CreatePlain(a) \/ Create(a) \/ UpdateSave(a)
                       \/ Detach(a) \/ Drop(a) \/ Abandon(a)
                       \/ \E g \in Goods : UpdateBegin(a, g)
                       \/ \E p \in Providers : DeleteBegin(a, p)
  \/ \E g \in Goods : SetGood(g)
  \/ \E p \in Providers : SetProvider(p)

\* The steps that concern a cache.
Caches ==
  \/ \E o \in Orders : OrderLooks(o) \/ OrderConcludes(o)
  \/ \E k \in Pairs : FetchArrives(k) \/ FetchFails(k) \/ Expire(k)

\* Every step is of one of these kinds.
LEMMA Kinds ==
  ASSUME [Next]_vars
  PROVE  \/ Synchronises \/ Trades \/ Administers \/ Caches
         \/ \E p \in Providers : Reprice(p)
         \/ \E w \in Workers : Restart(w)
         \/ UNCHANGED vars
  BY DEF Next, Synchronises, Trades, Administers, Caches, Pairs

\* Synchronisations do not touch what concerns caches.
LEMMA SyncFrame ==
  ASSUME Synchronises
  PROVE  UNCHANGED <<version, cache, flights, served>>
<1>1. PICK s \in Syncs : SyncBegin(s) \/ SyncStep(s)
  BY DEF Synchronises
<1>2. CASE SyncPush(s)
  BY <1>2 DEF SyncPush, memory
<1>3. CASE SyncBegin(s)
  BY <1>3 DEF SyncBegin, Elsewhere
<1>4. CASE \/ SyncLock(s) \/ SyncDone(s) \/ SyncFind(s) \/ SyncFetched(s) \/ SyncFetchFails(s)
           \/ SyncUpsert(s) \/ SyncDeactivate(s) \/ SyncLookup(s) \/ SyncPushed(s)
           \/ SyncEnd(s)
  BY <1>4 DEF SyncLock, SyncDone, SyncFind, SyncFetched, SyncFetchFails, SyncUpsert,
     SyncDeactivate, SyncLookup, SyncPushed, SyncEnd, Elsewhere
<1> QED BY <1>1, <1>2, <1>3, <1>4 DEF SyncStep

\* Trade and administration touch neither that nor synchronisations.
LEMMA OtherFrame ==
  ASSUME Trades \/ Administers
  PROVE  UNCHANGED <<version, raw, locks, running, cache, flights, sync, served>>
<1>1. CASE Trades
  BY <1>1 DEF Trades, OrderBegin, AutoUpdate, memory, ghosts
<1>2. CASE Administers
  BY <1>2 DEF Administers, CreateBegin, CreatePlain, Create, UpdateSave, Detach, Drop,
     Abandon, UpdateBegin, DeleteBegin, SetGood, SetProvider, AdminElsewhere, memory
<1> QED BY <1>1, <1>2

\* Caches do not concern synchronisations.
LEMMA CacheFrame ==
  ASSUME Caches
  PROVE  UNCHANGED <<version, raw, locks, running, sync>>
  BY DEF Caches, OrderLooks, OrderConcludes, FetchArrives, FetchFails, Expire

-----------------------------------------------------------------------------
(* The answers of a worker *)

\* At most one fetch for a worker's cache is under way, for a list that is no
\* older than the last answer, and an entry is the last answer itself.
AdvanceInv ==
  /\ version \in [Providers -> Versions]
  /\ served \in [Pairs -> 0..LastVersion] /\ cache \in [Pairs -> 0..LastVersion]
  /\ flights \in [Pairs -> SUBSET Versions]
  /\ \A k \in Pairs : served[k] <= version[k[2]]
  /\ \A k \in Pairs : cache[k] # 0 => cache[k] = served[k]
  /\ \A k \in Pairs : \A s \in flights[k] : s >= served[k] /\ flights[k] = {s}

LEMMA AdvanceInit == Init => AdvanceInv
<1>1. 1 \in Versions /\ 0 \in 0..LastVersion
  BY VersionAssumption DEF Versions
<1>2. \A k \in Pairs : k[2] \in Providers
  BY DEF Pairs
<1> QED BY <1>1, <1>2 DEF Init, AdvanceInv, Pairs

\* It depends on four variables only.
LEMMA AdvanceSame ==
  ASSUME AdvanceInv, UNCHANGED <<version, cache, flights, served>>
  PROVE  AdvanceInv' /\ \A k \in Pairs : served'[k] >= served[k]
<1>1. AdvanceInv'
  BY DEF AdvanceInv
<1>2. \A k \in Pairs : served[k] \in Int
  BY DEF AdvanceInv
<1> QED BY <1>1, <1>2

\* A step of a cache keeps the invariant, and answers advance.
LEMMA CacheStep ==
  ASSUME AdvanceInv, Caches
  PROVE  AdvanceInv' /\ \A k \in Pairs : served'[k] >= served[k]
<1> USE DEF AdvanceInv
<1>0. \A k \in Pairs : k[2] \in Providers /\ version[k[2]] \in Versions
  BY DEF Pairs
<1>1. version' = version
  BY CacheFrame
<1>2. ASSUME NEW o \in Orders, OrderLooks(o)
      PROVE  AdvanceInv' /\ \A k \in Pairs : served'[k] >= served[k]
  <2> DEFINE j == Key(o)
  <2>1. CASE cache[j] # 0
    <3>1. served' = [served EXCEPT ![j] = cache[j]] /\ UNCHANGED <<flights, cache>>
      BY <1>2, <2>1 DEF OrderLooks
    <3>2. \A k \in Pairs : served'[k] = served[k]
      BY <3>1, <2>1
    <3>3. served' = served
      BY <3>1, <3>2
    <3> QED BY <1>1, <3>1, <3>3, AdvanceSame
  <2>2. CASE cache[j] = 0
    <3>1. /\ UNCHANGED <<served, cache>>
          /\ flights' = IF flights[j] = {} THEN [flights EXCEPT ![j] = {version[j[2]]}]
                                           ELSE flights
      BY <1>2, <2>2 DEF OrderLooks
    <3>2. \A k \in Pairs : flights'[k] = flights[k] \/ flights'[k] = {version[k[2]]}
      BY <3>1
    <3>3. flights' \in [Pairs -> SUBSET Versions]
      <4>1. \A k \in Pairs : flights'[k] \subseteq Versions
        BY <3>2, <1>0
      <4>2. flights' = [k \in Pairs |-> flights'[k]]
        BY <3>1
      <4> QED BY <4>1, <4>2
    <3>4. \A k \in Pairs : \A s \in flights'[k] : s >= served[k] /\ flights'[k] = {s}
      BY <3>2, <1>0 DEF Versions
    <3> QED BY <1>1, <3>1, <3>3, <3>4, <1>0 DEF Versions
  <2> QED BY <2>1, <2>2
<1>3. ASSUME NEW k \in Pairs, FetchArrives(k)
      PROVE  AdvanceInv' /\ \A j \in Pairs : served'[j] >= served[j]
  <2>0. PICK s \in flights[k] : \E v \in s..version[k[2]] :
          /\ cache' = [cache EXCEPT ![k] = v] /\ served' = [served EXCEPT ![k] = v]
          /\ flights' = [flights EXCEPT ![k] = @ \ {s}]
    BY <1>3 DEF FetchArrives
  <2>1. PICK v \in s..version[k[2]] :
          /\ cache' = [cache EXCEPT ![k] = v] /\ served' = [served EXCEPT ![k] = v]
          /\ flights' = [flights EXCEPT ![k] = @ \ {s}]
    BY <2>0
  <2>2. s \in Versions /\ v \in Versions /\ v >= s /\ v <= version[k[2]]
    <3>1. s \in Versions /\ version[k[2]] \in Versions
      BY <1>0
    <3>2. s \in Int /\ version[k[2]] \in Int /\ s >= 1 /\ version[k[2]] <= LastVersion
      BY <3>1, VersionAssumption DEF Versions
    <3>3. v \in Int /\ v >= s /\ v <= version[k[2]]
      BY <2>1, <3>2
    <3> QED BY <3>1, <3>2, <3>3, VersionAssumption DEF Versions
  <2>3. v \in 0..LastVersion /\ v >= served[k] /\ served[k] \in Int
    BY <2>2 DEF Versions
  <2>4. flights'[k] = {}
    BY <2>1
  <2>5. /\ served' \in [Pairs -> 0..LastVersion] /\ cache' \in [Pairs -> 0..LastVersion]
        /\ flights' \in [Pairs -> SUBSET Versions]
    BY <2>1, <2>3
  <2>6. \A j \in Pairs : served'[j] <= version[j[2]] /\ served'[j] >= served[j]
    BY <2>1, <2>2, <2>3, <1>0 DEF Versions
  <2>7. \A j \in Pairs : cache'[j] # 0 => cache'[j] = served'[j]
    BY <2>1
  <2>8. \A j \in Pairs : \A t \in flights'[j] : t >= served'[j] /\ flights'[j] = {t}
    BY <2>1, <2>4
  <2> QED BY <1>1, <2>5, <2>6, <2>7, <2>8
<1>4. ASSUME NEW k \in Pairs, FetchFails(k) \/ Expire(k)
      PROVE  AdvanceInv' /\ \A j \in Pairs : served'[j] >= served[j]
  <2>1. /\ served' = served
        /\ \/ \E s \in flights[k] : flights' = [flights EXCEPT ![k] = @ \ {s}]
           \/ flights' = flights
        /\ cache' = cache \/ cache' = [cache EXCEPT ![k] = 0]
    BY <1>4 DEF FetchFails, Expire, ghosts
  <2>2. /\ flights' \in [Pairs -> SUBSET Versions]
        /\ \A j \in Pairs : flights'[j] \subseteq flights[j]
    BY <2>1
  <2>3. /\ cache' \in [Pairs -> 0..LastVersion]
        /\ \A j \in Pairs : cache'[j] \in {0, cache[j]}
    BY <2>1, VersionAssumption
  <2>4. \A j \in Pairs : \A t \in flights'[j] : t >= served'[j] /\ flights'[j] = {t}
    BY <2>1, <2>2
  <2> QED BY <1>0, <1>1, <2>1, <2>2, <2>3, <2>4 DEF Versions
<1>5. ASSUME NEW o \in Orders, OrderConcludes(o)
      PROVE  AdvanceInv' /\ \A j \in Pairs : served'[j] >= served[j]
  <2>1. /\ served' = served /\ flights' = flights
        /\ cache' = cache \/ cache' = [cache EXCEPT ![Key(o)] = 0]
    BY <1>5 DEF OrderConcludes, ghosts
  <2>2. /\ cache' \in [Pairs -> 0..LastVersion]
        /\ \A j \in Pairs : cache'[j] \in {0, cache[j]}
    BY <2>1, VersionAssumption
  <2> QED BY <1>0, <1>1, <2>1, <2>2 DEF Versions
<1> QED BY <1>2, <1>3, <1>4, <1>5 DEF Caches

LEMMA AdvanceNext ==
  ASSUME AdvanceInv, [Next]_vars
  PROVE  AdvanceInv' /\ \A k \in Pairs : served'[k] >= served[k]
<1>0. \A k \in Pairs : /\ k[2] \in Providers /\ version[k[2]] \in Int
                       /\ served[k] \in Int /\ served[k] >= served[k]
  BY DEF AdvanceInv, Pairs, Versions
<1>1. CASE UNCHANGED <<version, cache, flights, served>>
  BY <1>1, AdvanceSame
<1>2. CASE Caches
  BY <1>2, CacheStep
<1>3. ASSUME NEW p \in Providers, Reprice(p)
      PROVE  AdvanceInv' /\ \A k \in Pairs : served'[k] >= served[k]
  <2>1. /\ version[p] < LastVersion /\ version' = [version EXCEPT ![p] = @ + 1]
        /\ UNCHANGED <<cache, flights, served>>
    BY <1>3 DEF Reprice, memory, ghosts
  <2>2. version' \in [Providers -> Versions] /\ \A q \in Providers : version'[q] >= version[q]
    BY <2>1, VersionAssumption DEF AdvanceInv, Versions
  <2>3. \A k \in Pairs : served'[k] <= version'[k[2]]
    BY <1>0, <2>1, <2>2 DEF AdvanceInv, Versions
  <2> QED BY <1>0, <2>1, <2>2, <2>3 DEF AdvanceInv
<1>4. ASSUME NEW w \in Workers, Restart(w)
      PROVE  AdvanceInv' /\ \A k \in Pairs : served'[k] >= served[k]
  <2>1. /\ UNCHANGED <<version, served>>
        /\ cache' = [k \in DOMAIN cache |-> IF k[1] = w THEN 0 ELSE cache[k]]
        /\ flights' = [k \in DOMAIN flights |-> IF k[1] = w THEN {} ELSE flights[k]]
    BY <1>4 DEF Restart, ghosts
  <2>2. DOMAIN cache = Pairs /\ DOMAIN flights = Pairs
    BY DEF AdvanceInv
  <2>3. cache' \in [Pairs -> 0..LastVersion] /\ flights' \in [Pairs -> SUBSET Versions]
    BY <2>1, <2>2, VersionAssumption DEF AdvanceInv
  <2> QED BY <1>0, <2>1, <2>2, <2>3 DEF AdvanceInv
<1>5. CASE Synchronises
  BY <1>5, <1>1, SyncFrame
<1>6. CASE Trades \/ Administers
  BY <1>6, <1>1, OtherFrame
<1>7. CASE UNCHANGED vars
  BY <1>7, <1>1 DEF vars, memory, ghosts
<1> QED BY <1>2, <1>3, <1>4, <1>5, <1>6, <1>7, Kinds

\* What a worker answers about a provider's prices is never older than what it
\* answered before.
THEOREM AnswersNeverAge == Spec => AnswersAdvance
<1>1. Init => AdvanceInv
  BY AdvanceInit
<1>2. AdvanceInv /\ [Next]_vars => AdvanceInv'
  BY AdvanceNext
<1>3. AdvanceInv /\ [Next]_vars
        => [\A k \in Workers \X Providers : served'[k] >= served[k]]_vars
  BY AdvanceNext DEF Pairs
<1> QED BY <1>1, <1>2, <1>3, PTL DEF Spec, AnswersAdvance

-----------------------------------------------------------------------------
(* The steps of a synchronisation *)

SyncFields == {"pc", "job", "queue", "p", "v", "todo", "seen", "item", "linked"}

\* What a synchronisation remembers has its type, as far as the proofs need it.
Shaped(x) ==
  /\ DOMAIN x = SyncFields /\ x.pc \in SyncPCs /\ x.queue \subseteq Providers
  /\ x.v \in Versions /\ x.todo \subseteq Items /\ x.seen \subseteq Items
  /\ x.pc \notin {"idle", "next", "done"} => x.p \in Providers

ShapeOK ==
  /\ version \in [Providers -> Versions] /\ raw \in [Items -> Raws]
  /\ DOMAIN sync = Syncs /\ \A s \in Syncs : Shaped(sync[s])

\* A step of synchronisation s leaves the others alone.
Alone(s) ==
  /\ DOMAIN sync' = Syncs /\ Shaped(sync'[s])
  /\ \A t \in Syncs \ {s} : sync'[t] = sync[t]

\* What a step of synchronisation s means for locks: it begins, goes on to the
\* next provider, takes its lock, works on it or releases it, or ends.
Starts(s) ==
  /\ sync[s].pc = "idle" /\ sync'[s].pc = "next" /\ UNCHANGED locks
  /\ running' = IF sync'[s].job THEN running \cup {Host[s]} ELSE running

Skips(s) ==
  /\ sync[s].pc = "next" /\ sync'[s].pc = "next" /\ sync'[s].job = sync[s].job
  /\ UNCHANGED <<locks, running>>

Acquires(s) ==
  /\ sync[s].pc = "next" /\ sync'[s].pc = "find" /\ sync'[s].job = sync[s].job
  /\ Lock(s)' \notin locks /\ locks' = locks \cup {Lock(s)'} /\ UNCHANGED running

Works(s) ==
  /\ InSync(s) /\ InSync(s)' /\ sync'[s].p = sync[s].p /\ sync'[s].job = sync[s].job
  /\ UNCHANGED <<locks, running>>

Releases(s) ==
  /\ InSync(s) /\ sync'[s].pc = "next" /\ sync'[s].job = sync[s].job
  /\ locks' = locks \ {Lock(s)} /\ UNCHANGED running

Finishes(s) ==
  /\ sync[s].pc = "next" /\ sync'[s].pc = "done" /\ UNCHANGED locks
  /\ running' = IF sync[s].job THEN running \ {Host[s]} ELSE running

\* What it means for the stored prices: it asks for a list, gets it, writes an
\* item of it, or neither is at writing nor changes a price.
Asks(s) ==
  /\ InSync(s) /\ sync'[s].pc = "fetch" /\ sync'[s].p = sync[s].p
  /\ sync'[s].v = version[sync[s].p] /\ UNCHANGED raw

Gets(s) ==
  /\ sync[s].pc = "fetch" /\ sync'[s].p = sync[s].p
  /\ sync'[s].v >= sync[s].v /\ sync'[s].v <= version[sync[s].p]
  /\ \A i \in sync'[s].todo : Supplier[i] = sync[s].p
  /\ UNCHANGED raw

Writes(s) ==
  /\ sync[s].pc = "upsert" /\ sync'[s].p = sync[s].p /\ sync'[s].v = sync[s].v
  /\ sync'[s].todo \subseteq sync[s].todo
  /\ \A i \in Items : \/ raw'[i].v = raw[i].v /\ raw'[i].by = raw[i].by
                      \/ /\ i \in sync[s].todo
                         /\ raw'[i].v = sync[s].v /\ raw'[i].by = Host[s]

Idles(s) ==
  /\ sync'[s].pc \notin {"fetch", "upsert"}
  /\ \A i \in Items : raw'[i].v = raw[i].v /\ raw'[i].by = raw[i].by

StepKind(s) ==
  /\ Alone(s) /\ raw' \in [Items -> Raws]
  /\ Starts(s) \/ Skips(s) \/ Acquires(s) \/ Works(s) \/ Releases(s) \/ Finishes(s)
  /\ Asks(s) \/ Gets(s) \/ Writes(s) \/ Idles(s)

\* The beginning and the end of a request are well typed.
LEMMA Ends ==
  Shaped(NoSync) /\ Shaped(SyncOver) /\ NoSync.pc = "idle" /\ SyncOver.pc = "done"
  BY VersionAssumption DEF NoSync, SyncOver, Shaped, SyncFields, SyncPCs, Versions

\* A new state of one synchronisation.
LEMMA Replaced ==
  ASSUME ShapeOK, NEW s \in Syncs, NEW x, Shaped(x), sync' = [sync EXCEPT ![s] = x]
  PROVE  Alone(s) /\ sync'[s] = x
  BY DEF ShapeOK, Alone

\* Steps that change nothing but how far a synchronisation is.
LEMMA Moved ==
  ASSUME ShapeOK, NEW s \in Syncs, NEW pc \in SyncPCs, To(s, pc),
         pc = "next" \/ InSync(s)
  PROVE  /\ Alone(s) /\ sync'[s].pc = pc /\ sync'[s].p = sync[s].p
         /\ sync'[s].job = sync[s].job /\ sync'[s].v = sync[s].v
         /\ sync'[s].todo = sync[s].todo
<1> DEFINE x == [sync[s] EXCEPT !.pc = pc]
<1>1. Shaped(sync[s])
  BY DEF ShapeOK
<1>2. sync' = [sync EXCEPT ![s] = x]
  BY DEF To
<1>3. pc \notin {"idle", "next", "done"} => sync[s].p \in Providers
  BY <1>1 DEF Shaped, InSync
<1>4. /\ Shaped(x) /\ x.pc = pc /\ x.p = sync[s].p /\ x.job = sync[s].job
      /\ x.v = sync[s].v /\ x.todo = sync[s].todo
  BY <1>1, <1>3 DEF Shaped, SyncFields
<1> QED BY <1>2, <1>4, Replaced

\* The lists name items of their provider.
LEMMA Listed ==
  ASSUME NEW p, NEW v
  PROVE  Listing(p, v) \subseteq Items /\ \A i \in Listing(p, v) : Supplier[i] = p
  BY DEF Listing

LEMMA StepKinds ==
  ASSUME ShapeOK, NEW s \in Syncs, SyncBegin(s) \/ SyncStep(s)
  PROVE  StepKind(s)
<1> USE DEF StepKind
<1>0. /\ Shaped(sync[s]) /\ sync[s].v \in Versions /\ raw \in [Items -> Raws]
      /\ InSync(s) => sync[s].p \in Providers /\ version[sync[s].p] \in Versions
  BY DEF ShapeOK, Shaped, InSync
<1>1. CASE SyncBegin(s)
  <2>1. PICK j \in BOOLEAN, q \in SUBSET Providers :
          /\ running' = IF j THEN running \cup {Host[s]} ELSE running
          /\ sync' = [sync EXCEPT ![s] = [NoSync EXCEPT !.pc = "next", !.job = j, !.queue = q]]
    BY <1>1 DEF SyncBegin
  <2> DEFINE x == [NoSync EXCEPT !.pc = "next", !.job = j, !.queue = q]
  <2>2. Shaped(x) /\ x.pc = "next" /\ x.job = j
    BY Ends DEF Shaped, SyncFields, SyncPCs
  <2>3. Alone(s) /\ sync'[s] = x
    BY <2>1, <2>2, Replaced
  <2>4. Starts(s) /\ Idles(s)
    BY <1>1, <2>1, <2>2, <2>3 DEF SyncBegin, Starts, Idles
  <2> QED BY <1>0, <1>1, <2>3, <2>4 DEF SyncBegin
<1>2. CASE SyncLock(s)
  <2>1. PICK p \in sync[s].queue :
          LET rest == [NoSync EXCEPT !.pc = "next", !.job = sync[s].job,
                                     !.queue = sync[s].queue \ {p}] IN
          IF <<Host[s], p>> \in locks
          THEN sync' = [sync EXCEPT ![s] = rest] /\ UNCHANGED locks
          ELSE /\ sync' = [sync EXCEPT ![s] = [rest EXCEPT !.pc = "find", !.p = p]]
               /\ locks' = locks \cup {<<Host[s], p>>}
    BY <1>2 DEF SyncLock
  <2> DEFINE rest == [NoSync EXCEPT !.pc = "next", !.job = sync[s].job,
                                    !.queue = sync[s].queue \ {p}]
             x    == [rest EXCEPT !.pc = "find", !.p = p]
  <2>2. p \in Providers /\ sync[s].queue \subseteq Providers
    BY <1>0 DEF Shaped
  <2>3. Shaped(rest) /\ rest.pc = "next" /\ rest.job = sync[s].job
    BY <2>2, Ends DEF Shaped, SyncFields, SyncPCs
  <2>4. Shaped(x) /\ x.pc = "find" /\ x.job = sync[s].job /\ x.p = p
    BY <2>2, <2>3 DEF Shaped, SyncFields, SyncPCs
  <2>5. UNCHANGED <<raw, running>> /\ sync[s].pc = "next"
    BY <1>2 DEF SyncLock
  <2>6. CASE <<Host[s], p>> \in locks
    <3>1. sync' = [sync EXCEPT ![s] = rest] /\ UNCHANGED locks
      BY <2>1, <2>6
    <3>2. Alone(s) /\ sync'[s] = rest
      BY <2>3, <3>1, Replaced
    <3> QED BY <1>0, <2>3, <2>5, <3>1, <3>2 DEF Skips, Idles
  <2>7. CASE <<Host[s], p>> \notin locks
    <3>1. sync' = [sync EXCEPT ![s] = x] /\ locks' = locks \cup {<<Host[s], p>>}
      BY <2>1, <2>7
    <3>2. Alone(s) /\ sync'[s] = x
      BY <2>4, <3>1, Replaced
    <3>3. Lock(s)' = <<Host[s], p>>
      BY <3>2, <2>4 DEF Lock
    <3> QED BY <1>0, <2>4, <2>5, <2>7, <3>1, <3>2, <3>3 DEF Acquires, Idles
  <2> QED BY <2>6, <2>7
<1>3. CASE SyncDone(s)
  <2>1. Alone(s) /\ sync'[s] = SyncOver
    BY <1>3, Ends, Replaced DEF SyncDone
  <2> QED BY <1>0, <1>3, <2>1, Ends DEF SyncDone, Finishes, Idles
<1>4. CASE SyncFind(s) /\ provider[sync[s].p] = "active"
  <2> DEFINE x == [sync[s] EXCEPT !.pc = "fetch", !.v = version[sync[s].p]]
  <2>1. sync' = [sync EXCEPT ![s] = x] /\ UNCHANGED <<locks, running, raw>>
        /\ sync[s].pc = "find"
    BY <1>4 DEF SyncFind
  <2>2. InSync(s)
    BY <2>1 DEF InSync
  <2>3. /\ Shaped(x) /\ x.pc = "fetch" /\ x.p = sync[s].p /\ x.job = sync[s].job
        /\ x.v = version[sync[s].p]
    BY <1>0, <2>2 DEF Shaped, SyncFields, SyncPCs, InSync
  <2>4. Alone(s) /\ sync'[s] = x
    BY <2>1, <2>3, Replaced
  <2>5. InSync(s)'
    BY <2>3, <2>4 DEF InSync
  <2> QED BY <1>0, <2>1, <2>2, <2>3, <2>4, <2>5 DEF Works, Asks
<1>5. CASE \/ SyncFind(s) /\ provider[sync[s].p] # "active"
           \/ SyncFetchFails(s) \/ SyncEnd(s)
  <2>1. Release(s) /\ UNCHANGED <<raw, running>> /\ InSync(s)
    BY <1>5 DEF SyncFind, SyncFetchFails, SyncEnd, InSync
  <2>2. /\ Alone(s) /\ sync'[s].pc = "next" /\ sync'[s].job = sync[s].job
        /\ locks' = locks \ {Lock(s)}
    BY <2>1, Moved DEF Release, SyncPCs
  <2> QED BY <1>0, <2>1, <2>2 DEF Releases, Idles
<1>6. CASE SyncFetched(s)
  <2>1. PICK v \in sync[s].v..version[sync[s].p] :
          sync' = [sync EXCEPT ![s] = [sync[s] EXCEPT !.v = v, !.todo = Listing(sync[s].p, v),
                     !.pc = IF Listing(sync[s].p, v) = {} THEN "push" ELSE "upsert"]]
    BY <1>6 DEF SyncFetched
  <2> DEFINE todo == Listing(sync[s].p, v)
             x == [sync[s] EXCEPT !.v = v, !.todo = todo,
                                  !.pc = IF todo = {} THEN "push" ELSE "upsert"]
  <2>2. InSync(s) /\ sync[s].pc = "fetch" /\ UNCHANGED <<raw, locks, running>>
    BY <1>6 DEF SyncFetched, InSync
  <2>3. v \in Versions /\ v >= sync[s].v /\ v <= version[sync[s].p]
    <3>1. sync[s].v \in Versions /\ version[sync[s].p] \in Versions
      BY <1>0, <2>2
    <3>2. /\ sync[s].v \in Int /\ sync[s].v >= 1
          /\ version[sync[s].p] \in Int /\ version[sync[s].p] <= LastVersion
      BY <3>1, VersionAssumption DEF Versions
    <3>3. v \in Int /\ v >= sync[s].v /\ v <= version[sync[s].p]
      BY <2>1, <3>2
    <3> QED BY <3>2, <3>3, VersionAssumption DEF Versions
  <2>4. todo \subseteq Items /\ \A i \in todo : Supplier[i] = sync[s].p
    BY Listed
  <2> HIDE DEF todo
  <2>5. /\ Shaped(x) /\ x.v = v /\ x.todo = todo /\ x.p = sync[s].p /\ x.job = sync[s].job
        /\ x.pc \in {"push", "upsert"}
    BY <1>0, <2>2, <2>3, <2>4 DEF Shaped, SyncFields, SyncPCs, InSync
  <2>6. Alone(s) /\ sync'[s] = x
    BY <2>1, <2>5, Replaced DEF todo
  <2>7. InSync(s)'
    BY <2>5, <2>6 DEF InSync
  <2>8. Works(s) /\ Gets(s)
    BY <2>2, <2>3, <2>4, <2>5, <2>6, <2>7 DEF Works, Gets
  <2> QED BY <1>0, <2>2, <2>6, <2>8
<1>7. CASE SyncUpsert(s)
  <2>1. PICK i \in sync[s].todo :
          \/ /\ raw' = [raw EXCEPT ![i] = [v |-> sync[s].v, on |-> Offer[i][sync[s].v].on,
                                           by |-> Host[s]]]
             /\ sync' = [sync EXCEPT ![s] = [sync[s] EXCEPT !.todo = @ \ {i}, !.seen = @ \cup {i}]]
          \/ /\ sync' = [sync EXCEPT ![s] = [sync[s] EXCEPT !.todo = @ \ {i}]]
             /\ UNCHANGED raw
    BY <1>7 DEF SyncUpsert
  <2>2. /\ InSync(s) /\ sync[s].pc = "upsert" /\ UNCHANGED <<locks, running>>
        /\ i \in Items /\ sync[s].v \in Versions
    BY <1>0, <1>7 DEF SyncUpsert, InSync, Shaped
  <2>3. raw' \in [Items -> Raws] /\ \A h \in Items :
          \/ raw'[h].v = raw[h].v /\ raw'[h].by = raw[h].by
          \/ h \in sync[s].todo /\ raw'[h].v = sync[s].v /\ raw'[h].by = Host[s]
    <3>1. Offer[i][sync[s].v].on \in BOOLEAN
      BY <2>2, OfferAssumption DEF OfferSet
    <3>2. [v |-> sync[s].v, on |-> Offer[i][sync[s].v].on, by |-> Host[s]] \in Raws
      BY <2>2, <3>1, VersionAssumption, HostAssumption DEF Raws, Versions
    <3> QED BY <1>0, <2>1, <2>2, <3>2
  <2>4. PICK x : /\ sync' = [sync EXCEPT ![s] = x]
                 /\ \/ x = [sync[s] EXCEPT !.todo = @ \ {i}, !.seen = @ \cup {i}]
                    \/ x = [sync[s] EXCEPT !.todo = @ \ {i}]
    BY <2>1
  <2>5. /\ Shaped(x) /\ x.pc = "upsert" /\ x.v = sync[s].v /\ x.p = sync[s].p
        /\ x.job = sync[s].job /\ x.todo \subseteq sync[s].todo
    <3>1. Shaped([sync[s] EXCEPT !.todo = @ \ {i}, !.seen = @ \cup {i}])
      BY <1>0, <2>2 DEF Shaped, SyncFields
    <3>2. Shaped([sync[s] EXCEPT !.todo = @ \ {i}])
      BY <1>0, <2>2 DEF Shaped, SyncFields
    <3>3. Shaped(x)
      BY <2>4, <3>1, <3>2
    <3>4. DOMAIN sync[s] = SyncFields
      BY <1>0 DEF Shaped
    <3> QED BY <2>2, <2>4, <3>3, <3>4 DEF SyncFields
  <2>6. Alone(s) /\ sync'[s] = x
    BY <2>4, <2>5, Replaced
  <2>7. InSync(s)'
    BY <2>5, <2>6 DEF InSync
  <2> QED BY <2>2, <2>3, <2>5, <2>6, <2>7 DEF Works, Writes
<1>8. CASE SyncDeactivate(s)
  <2> DEFINE x == [sync[s] EXCEPT !.pc = "push", !.todo = sync[s].seen]
  <2>1. /\ sync' = [sync EXCEPT ![s] = x] /\ InSync(s) /\ UNCHANGED <<locks, running>>
    BY <1>8 DEF SyncDeactivate, InSync
  <2>2. /\ raw' \in [Items -> Raws] /\ \A i \in Items : raw'[i].v = raw[i].v /\ raw'[i].by = raw[i].by
    <3>1. \A i \in Items : LET d == [raw[i] EXCEPT !.on = FALSE] IN
            d \in Raws /\ d.v = raw[i].v /\ d.by = raw[i].by
      BY <1>0 DEF Raws
    <3>2. \/ raw' = [i \in Items |-> IF Supplier[i] = sync[s].p /\ i \notin sync[s].seen
                                      THEN [raw[i] EXCEPT !.on = FALSE] ELSE raw[i]]
          \/ UNCHANGED raw
      BY <1>8 DEF SyncDeactivate
    <3> QED BY <1>0, <3>1, <3>2
  <2>3. Shaped(x) /\ x.pc = "push" /\ x.p = sync[s].p /\ x.job = sync[s].job
    BY <1>0, <2>1 DEF Shaped, SyncFields, SyncPCs, InSync
  <2>4. Alone(s) /\ sync'[s] = x
    BY <2>1, <2>3, Replaced
  <2>5. InSync(s)'
    BY <2>3, <2>4 DEF InSync
  <2> QED BY <2>1, <2>2, <2>3, <2>4, <2>5 DEF Works, Idles
<1>9. CASE SyncLookup(s) \/ SyncPush(s) \/ SyncPushed(s)
  <2>1. /\ InSync(s) /\ UNCHANGED <<raw, locks, running>>
    BY <1>9 DEF SyncLookup, SyncPush, SyncPushed, InSync, memory
  <2>2. PICK x : /\ sync' = [sync EXCEPT ![s] = x] /\ Shaped(x)
                 /\ x.p = sync[s].p /\ x.job = sync[s].job /\ x.pc \in {"push", "write"}
    <3>1. CASE SyncLookup(s)
      <4>1. PICK i, y :
              \/ sync' = [sync EXCEPT ![s] = [sync[s] EXCEPT !.pc = "write", !.item = i,
                                                !.todo = @ \ {i}, !.linked = y]]
              \/ sync' = [sync EXCEPT ![s] = [sync[s] EXCEPT !.todo = @ \ {i}]]
        BY <3>1 DEF SyncLookup
      <4> DEFINE w == [sync[s] EXCEPT !.pc = "write", !.item = i, !.todo = @ \ {i}, !.linked = y]
                 z == [sync[s] EXCEPT !.todo = @ \ {i}]
      <4>2. sync[s].pc = "push"
        BY <3>1 DEF SyncLookup
      <4>3. Shaped(w) /\ w.p = sync[s].p /\ w.job = sync[s].job /\ w.pc = "write"
        BY <1>0, <2>1 DEF Shaped, SyncFields, SyncPCs, InSync
      <4>4. Shaped(z) /\ z.p = sync[s].p /\ z.job = sync[s].job /\ z.pc = "push"
        BY <1>0, <4>2 DEF Shaped, SyncFields
      <4>5. sync' = [sync EXCEPT ![s] = w] \/ sync' = [sync EXCEPT ![s] = z]
        BY <4>1
      <4> HIDE DEF w, z
      <4> QED BY <4>3, <4>4, <4>5
    <3>2. CASE SyncPush(s)
      <4>1. PICK y : sync' = [sync EXCEPT ![s] = [sync[s] EXCEPT !.linked = y]]
        BY <3>2 DEF SyncPush
      <4> DEFINE w == [sync[s] EXCEPT !.linked = y]
      <4>2. sync[s].pc = "write"
        BY <3>2 DEF SyncPush
      <4>3. Shaped(w) /\ w.p = sync[s].p /\ w.job = sync[s].job /\ w.pc = "write"
        BY <1>0, <4>2 DEF Shaped, SyncFields
      <4> QED BY <4>1, <4>3
    <3>3. CASE SyncPushed(s)
      <4>1. sync' = [sync EXCEPT ![s] = [sync[s] EXCEPT !.pc = "push", !.linked = {}]]
        BY <3>3 DEF SyncPushed
      <4> DEFINE w == [sync[s] EXCEPT !.pc = "push", !.linked = {}]
      <4>2. Shaped(w) /\ w.p = sync[s].p /\ w.job = sync[s].job /\ w.pc = "push"
        BY <1>0, <2>1 DEF Shaped, SyncFields, SyncPCs, InSync
      <4> QED BY <4>1, <4>2
    <3> QED BY <1>9, <3>1, <3>2, <3>3
  <2>3. Alone(s) /\ sync'[s] = x
    BY <2>2, Replaced
  <2>4. InSync(s)'
    BY <2>2, <2>3 DEF InSync
  <2> QED BY <1>0, <2>1, <2>2, <2>3, <2>4 DEF Works, Idles
<1> QED BY <1>1, <1>2, <1>3, <1>4, <1>5, <1>6, <1>7, <1>8, <1>9 DEF SyncStep

\* Every state has its shape.
LEMMA ShapeInit == Init => ShapeOK
<1>1. ASSUME Init
      PROVE  ShapeOK
  <2>1. 1 \in Versions /\ 1 \in 0..LastVersion /\ 0 \in 0..LastVersion
    BY VersionAssumption DEF Versions
  <2>2. raw \in [Items -> Raws]
    <3>1. CASE raw = [i \in Items |-> [v |-> 0, on |-> FALSE, by |-> None]]
      BY <2>1, <3>1 DEF Raws
    <3>2. CASE raw = [i \in Items |-> [v |-> IF Offer[i][1].listed THEN 1 ELSE 0,
                                       on |-> Offer[i][1].on, by |-> None]]
      <4>1. \A i \in Items : Offer[i][1].on \in BOOLEAN
        BY <2>1, OfferAssumption DEF OfferSet
      <4> QED BY <2>1, <3>2, <4>1 DEF Raws
    <3> QED BY <1>1, <3>1, <3>2 DEF Init
  <2>3. sync = [s \in Syncs |-> NoSync]
    BY <1>1 DEF Init
  <2>4. version \in [Providers -> Versions]
    BY <1>1, <2>1 DEF Init
  <2> QED BY <2>2, <2>3, <2>4, Ends DEF ShapeOK
<1> QED BY <1>1

\* What a restart leaves of the synchronisations.
LEMMA Restarted ==
  ASSUME ShapeOK, NEW w \in Workers, Restart(w)
  PROVE  /\ DOMAIN sync' = Syncs
         /\ \A s \in Syncs : \/ sync'[s] = sync[s] /\ (Host[s] # w \/ sync[s].pc = "idle")
                             \/ sync'[s] = SyncOver /\ Host[s] = w
         /\ locks' = {k \in locks : k[1] # w} /\ running' = running \ {w}
         /\ UNCHANGED <<version, raw>>
  BY DEF Restart

LEMMA ShapeNext ==
  ASSUME ShapeOK, [Next]_vars
  PROVE  ShapeOK'
<1>1. CASE UNCHANGED <<version, raw, sync>>
  BY <1>1 DEF ShapeOK, Shaped
<1>2. CASE Synchronises
  <2>1. PICK s \in Syncs : StepKind(s)
    BY <1>2, StepKinds DEF Synchronises
  <2>2. version' = version
    BY <1>2, SyncFrame
  <2> QED BY <2>1, <2>2 DEF StepKind, Alone, ShapeOK
<1>3. ASSUME NEW p \in Providers, Reprice(p)
      PROVE  ShapeOK'
  <2>1. /\ version[p] < LastVersion /\ version' = [version EXCEPT ![p] = @ + 1]
        /\ UNCHANGED <<raw, sync>>
    BY <1>3 DEF Reprice
  <2>2. version' \in [Providers -> Versions]
    BY <2>1, VersionAssumption DEF ShapeOK, Versions
  <2> QED BY <2>1, <2>2 DEF ShapeOK
<1>4. ASSUME NEW w \in Workers, Restart(w)
      PROVE  ShapeOK'
  BY <1>4, Restarted, Ends DEF ShapeOK
<1> QED BY <1>1, <1>2, <1>3, <1>4, Kinds, OtherFrame, CacheFrame DEF vars

-----------------------------------------------------------------------------
(* Locks *)

\* Only a request that began may be the job.
LockInv ==
  /\ ShapeOK /\ LocksHeld
  /\ \A s \in Syncs : sync[s].pc = "idle" => ~sync[s].job

LEMMA LockInit == Init => LockInv
<1>1. ~NoSync.job
  BY DEF NoSync
<1> QED BY <1>1, ShapeInit DEF Init, LockInv, LocksHeld

LEMMA LockNext ==
  ASSUME LockInv, [Next]_vars
  PROVE  LockInv'
<1>0. ShapeOK'
  BY ShapeNext DEF LockInv
<1>1. CASE UNCHANGED <<locks, running, sync>>
  BY <1>0, <1>1 DEF LockInv, LocksHeld, InSync, Lock
<1>2. CASE Synchronises
  <2>1. PICK s \in Syncs : StepKind(s)
    BY <1>2, StepKinds DEF Synchronises, LockInv
  <2>2. \A t \in Syncs \ {s} : sync'[t] = sync[t]
    BY <2>1 DEF StepKind, Alone
  <2>3. sync'[s].pc # "idle"
    BY <2>1 DEF StepKind, Starts, Skips, Acquires, Works, Releases, Finishes, InSync
  <2>4. ASSUME NEW k \in locks'
        PROVE  \E t \in Syncs : InSync(t)' /\ Lock(t)' = k
    <3>1. CASE k \in locks
      <4>1. PICK t \in Syncs : InSync(t) /\ Lock(t) = k
        BY <3>1 DEF LockInv, LocksHeld
      <4>2. CASE t # s
        BY <2>2, <4>1, <4>2 DEF InSync, Lock
      <4>3. CASE t = s
        BY <2>1, <2>4, <4>1, <4>3
           DEF StepKind, Starts, Skips, Acquires, Works, Releases, Finishes, InSync, Lock
      <4> QED BY <4>2, <4>3
    <3>2. CASE k \notin locks
      BY <2>1, <2>4, <3>2
         DEF StepKind, Starts, Skips, Acquires, Works, Releases, Finishes, InSync
    <3> QED BY <3>1, <3>2
  <2>5. ASSUME NEW w \in running'
        PROVE  \E t \in Syncs : sync'[t].job /\ Host[t] = w
    <3>1. CASE w \in running
      <4>1. PICK t \in Syncs : sync[t].job /\ Host[t] = w
        BY <3>1 DEF LockInv, LocksHeld
      <4>2. CASE t # s
        BY <2>2, <4>1, <4>2
      <4>3. CASE t = s
        BY <2>1, <2>5, <4>1, <4>3
           DEF StepKind, Starts, Skips, Acquires, Works, Releases, Finishes, LockInv
      <4> QED BY <4>2, <4>3
    <3>2. CASE w \notin running
      BY <2>1, <2>5, <3>2
         DEF StepKind, Starts, Skips, Acquires, Works, Releases, Finishes
    <3> QED BY <3>1, <3>2
  <2> QED BY <1>0, <2>2, <2>3, <2>4, <2>5 DEF LockInv, LocksHeld
<1>3. ASSUME NEW w \in Workers, Restart(w)
      PROVE  LockInv'
  <2>1. ASSUME NEW k \in locks'
        PROVE  \E t \in Syncs : InSync(t)' /\ Lock(t)' = k
    <3>1. k \in locks /\ k[1] # w
      BY <1>3, <2>1, Restarted DEF LockInv
    <3>2. PICK t \in Syncs : InSync(t) /\ Lock(t) = k
      BY <3>1 DEF LockInv, LocksHeld
    <3>3. Host[t] # w
      BY <3>1, <3>2 DEF Lock
    <3>4. sync'[t] = sync[t]
      BY <1>3, <3>3, Restarted DEF LockInv
    <3> QED BY <3>2, <3>4 DEF InSync, Lock
  <2>2. ASSUME NEW x \in running'
        PROVE  \E t \in Syncs : sync'[t].job /\ Host[t] = x
    <3>1. x \in running /\ x # w
      BY <1>3, <2>2, Restarted DEF LockInv
    <3>2. PICK t \in Syncs : sync[t].job /\ Host[t] = x
      BY <3>1 DEF LockInv, LocksHeld
    <3>3. sync'[t] = sync[t]
      BY <1>3, <3>1, <3>2, Restarted DEF LockInv
    <3> QED BY <3>2, <3>3
  <2>3. \A s \in Syncs : sync'[s].pc = "idle" => ~sync'[s].job
    BY <1>3, Restarted, Ends DEF LockInv
  <2> QED BY <1>0, <2>1, <2>2, <2>3 DEF LockInv, LocksHeld
<1> QED BY <1>1, <1>2, <1>3, Kinds, OtherFrame, CacheFrame DEF vars, memory, Reprice

\* A lock, or the mark that the job runs, never outlives the run it was taken
\* for, whatever fails in it and whatever crashes.
THEOREM NoLockLeaks == Spec => []LocksHeld
<1>1. Init => LockInv
  BY LockInit
<1>2. LockInv /\ [Next]_vars => LockInv'
  BY LockNext
<1>3. LockInv => LocksHeld
  BY DEF LockInv
<1> QED BY <1>1, <1>2, <1>3, PTL DEF Spec

-----------------------------------------------------------------------------
(* Stored prices *)

\* No worker replaces prices that it stored by older ones.
Ahead == \A i \in Items : raw'[i].v >= raw[i].v \/ raw'[i].by # raw[i].by

\* The list a synchronisation asked for or got is as new as the prices that its
\* worker stored for its provider, which no other synchronises in that worker.
StoredInv ==
  /\ ShapeOK
  /\ \A s \in Syncs : InSync(s) => Lock(s) \in locks
  /\ \A s, t \in Syncs : InSync(s) /\ InSync(t) /\ Lock(s) = Lock(t) => s = t
  /\ \A i \in Items : raw[i].v <= version[Supplier[i]]
  /\ \A s \in Syncs : sync[s].pc \in {"fetch", "upsert"} =>
       /\ sync[s].v <= version[sync[s].p]
       /\ \A i \in Items : Supplier[i] = sync[s].p /\ raw[i].by = Host[s] => raw[i].v <= sync[s].v
  /\ \A s \in Syncs : sync[s].pc = "upsert" =>
       \A i \in sync[s].todo : Supplier[i] = sync[s].p

LEMMA StoredInit == Init => StoredInv
<1>1. ASSUME Init
      PROVE  StoredInv
  <2>1. \A i \in Items : raw[i].v <= 1 /\ version[Supplier[i]] = 1
    BY <1>1, SupplierAssumption DEF Init
  <2>2. \A s \in Syncs : sync[s].pc = "idle"
    BY <1>1, Ends DEF Init
  <2>3. \A i \in Items : raw[i].v <= version[Supplier[i]]
    BY <2>1
  <2> QED BY <1>1, <2>2, <2>3, ShapeInit DEF StoredInv, InSync
<1> QED BY <1>1

\* What the comparisons are about are numbers.
LEMMA Numbers ==
  ASSUME ShapeOK
  PROVE  /\ \A i \in Items : /\ raw[i].v \in Int /\ Supplier[i] \in Providers
                             /\ version[Supplier[i]] \in Int
         /\ \A p \in Providers : version[p] \in Int
         /\ \A s \in Syncs : sync[s].v \in Int /\ (InSync(s) => sync[s].p \in Providers)
  BY SupplierAssumption DEF ShapeOK, Shaped, Raws, Versions, InSync

\* Locks through a step of a synchronisation.
LEMMA StoredLocks ==
  ASSUME StoredInv, NEW s \in Syncs, StepKind(s)
  PROVE  /\ \A t \in Syncs : InSync(t)' => Lock(t)' \in locks'
         /\ \A t, u \in Syncs : InSync(t)' /\ InSync(u)' /\ Lock(t)' = Lock(u)' => t = u
<1>1. \A t \in Syncs \ {s} : sync'[t] = sync[t]
  BY DEF StepKind, Alone
<1>2. \A t \in Syncs \ {s} : (InSync(t)' <=> InSync(t)) /\ Lock(t)' = Lock(t)
  BY <1>1 DEF InSync, Lock
<1>3. CASE Acquires(s)
  BY <1>2, <1>3 DEF Acquires, StoredInv
<1>4. CASE Works(s)
  <2>1. Lock(s)' = Lock(s) /\ InSync(s) /\ locks' = locks
    BY <1>4 DEF Works, Lock
  <2> QED BY <1>2, <2>1 DEF StoredInv
<1>5. CASE Releases(s)
  <2>1. InSync(s) /\ ~InSync(s)' /\ locks' = locks \ {Lock(s)}
    BY <1>5 DEF Releases, InSync
  <2> QED BY <1>2, <2>1 DEF StoredInv
<1>6. CASE Starts(s) \/ Skips(s) \/ Finishes(s)
  <2>1. ~InSync(s)' /\ locks' = locks
    BY <1>6 DEF Starts, Skips, Finishes, InSync
  <2> QED BY <1>2, <2>1 DEF StoredInv
<1> QED BY <1>3, <1>4, <1>5, <1>6 DEF StepKind

\* Prices through a step of a synchronisation.
LEMMA StoredPrices ==
  ASSUME StoredInv, ShapeOK', NEW s \in Syncs, StepKind(s), version' = version
  PROVE  StoredInv' /\ Ahead
<1>0. ShapeOK /\ (\A i \in Items : raw[i].v <= version[Supplier[i]])
  BY DEF StoredInv
<1>1. \A t \in Syncs \ {s} : sync'[t] = sync[t]
  BY DEF StepKind, Alone
<1>2. ASSUME NEW t \in Syncs, sync[t].pc \in {"fetch", "upsert"}
      PROVE  /\ InSync(t) /\ sync[t].v <= version[sync[t].p]
             /\ \A i \in Items :
                  Supplier[i] = sync[t].p /\ raw[i].by = Host[t] => raw[i].v <= sync[t].v
             /\ sync[t].pc = "upsert" => \A i \in sync[t].todo : Supplier[i] = sync[t].p
  BY <1>2 DEF StoredInv, InSync
<1>3. ASSUME NEW i \in Items
      PROVE  /\ raw'[i].v >= raw[i].v \/ raw'[i].by # raw[i].by
             /\ raw'[i].v <= version[Supplier[i]]
             /\ \/ raw'[i].v = raw[i].v /\ raw'[i].by = raw[i].by
                \/ /\ sync[s].pc = "upsert" /\ Supplier[i] = sync[s].p
                   /\ raw'[i].v = sync[s].v /\ raw'[i].by = Host[s]
  <2>1. CASE raw'[i].v = raw[i].v /\ raw'[i].by = raw[i].by
    BY <1>0, <2>1, Numbers
  <2>2. CASE raw'[i].v # raw[i].v \/ raw'[i].by # raw[i].by
    <3>1. /\ sync[s].pc = "upsert" /\ i \in sync[s].todo
          /\ raw'[i].v = sync[s].v /\ raw'[i].by = Host[s]
      BY <2>2 DEF StepKind, Asks, Gets, Writes, Idles
    <3>2. /\ Supplier[i] = sync[s].p /\ sync[s].v <= version[sync[s].p]
          /\ raw[i].by = Host[s] => raw[i].v <= sync[s].v
      BY <1>2, <3>1
    <3> QED BY <1>0, <3>1, <3>2, Numbers
  <2> QED BY <2>1, <2>2
<1>4. ASSUME NEW t \in Syncs, sync'[t].pc \in {"fetch", "upsert"}
      PROVE  /\ sync'[t].v <= version[sync'[t].p]
             /\ \A i \in Items :
                  Supplier[i] = sync'[t].p /\ raw'[i].by = Host[t] => raw'[i].v <= sync'[t].v
             /\ sync'[t].pc = "upsert" => \A i \in sync'[t].todo : Supplier[i] = sync'[t].p
  <2>1. CASE t # s
    <3>1. sync'[t] = sync[t]
      BY <1>1, <2>1
    <3>2. ASSUME NEW i \in Items, Supplier[i] = sync[t].p, raw'[i].by = Host[t]
          PROVE  raw'[i].v = raw[i].v /\ raw'[i].by = raw[i].by
      <4>1. ASSUME sync[s].pc = "upsert", Supplier[i] = sync[s].p, raw'[i].by = Host[s]
            PROVE  FALSE
        <5>1. InSync(s) /\ InSync(t)
          BY <1>2, <1>4, <3>1, <4>1
        <5>2. Lock(s) = Lock(t)
          BY <3>2, <4>1 DEF Lock
        <5> QED BY <2>1, <5>1, <5>2 DEF StoredInv
      <4> QED BY <1>3, <4>1
    <3> QED BY <1>2, <1>4, <3>1, <3>2
  <2>2. CASE t = s
    <3>1. CASE Asks(s)
      <4>1. /\ sync'[s].pc = "fetch" /\ sync'[s].p = sync[s].p
            /\ sync'[s].v = version[sync[s].p] /\ raw' = raw /\ InSync(s)
        BY <3>1 DEF Asks
      <4>2. version[sync[s].p] \in Int
        BY <1>0, <4>1, Numbers
      <4> QED BY <1>0, <2>2, <4>1, <4>2
    <3>2. CASE Gets(s)
      <4>1. /\ sync[s].pc = "fetch" /\ sync'[s].p = sync[s].p
            /\ sync'[s].v >= sync[s].v /\ sync'[s].v <= version[sync[s].p]
            /\ raw' = raw /\ \A i \in sync'[s].todo : Supplier[i] = sync[s].p
        BY <3>2 DEF Gets
      <4>2. sync[s].v \in Int /\ sync'[s].v \in Int /\ \A i \in Items : raw[i].v \in Int
        BY <1>0, Numbers DEF ShapeOK, Shaped, Versions
      <4>3. \A i \in Items :
              Supplier[i] = sync[s].p /\ raw[i].by = Host[s] => raw[i].v <= sync[s].v
        BY <1>2, <4>1
      <4> QED BY <2>2, <4>1, <4>2, <4>3
    <3>3. CASE Writes(s)
      <4>1. /\ sync[s].pc = "upsert" /\ sync'[s].p = sync[s].p /\ sync'[s].v = sync[s].v
            /\ sync'[s].todo \subseteq sync[s].todo
        BY <3>3 DEF Writes
      <4>2. \A i \in Items :
              Supplier[i] = sync[s].p /\ raw'[i].by = Host[s] => raw'[i].v <= sync[s].v
        BY <1>0, <1>2, <1>3, <4>1, Numbers
      <4> QED BY <1>2, <2>2, <4>1, <4>2
    <3>4. CASE Idles(s)
      BY <1>4, <2>2, <3>4 DEF Idles
    <3> QED BY <3>1, <3>2, <3>3, <3>4 DEF StepKind
  <2> QED BY <2>1, <2>2
<1> QED BY <1>3, <1>4, StoredLocks DEF StoredInv, Ahead

LEMMA StoredNext ==
  ASSUME StoredInv, [Next]_vars
  PROVE  StoredInv' /\ Ahead
<1>0. ShapeOK /\ ShapeOK'
  BY ShapeNext DEF StoredInv
<1>1. raw' = raw => Ahead
  BY <1>0, Numbers DEF Ahead
<1>2. CASE UNCHANGED <<version, raw, locks, sync>>
  BY <1>0, <1>1, <1>2 DEF StoredInv, InSync, Lock
<1>3. CASE Synchronises
  <2>1. PICK s \in Syncs : StepKind(s)
    BY <1>0, <1>3, StepKinds DEF Synchronises
  <2> QED BY <1>0, <1>3, <2>1, SyncFrame, StoredPrices
<1>4. ASSUME NEW p \in Providers, Reprice(p)
      PROVE  StoredInv' /\ Ahead
  <2>1. /\ version' = [version EXCEPT ![p] = @ + 1] /\ UNCHANGED <<raw, locks, sync>>
    BY <1>4 DEF Reprice, memory
  <2>2. \A q \in Providers : version'[q] >= version[q] /\ version'[q] \in Int
    BY <1>0, <2>1, Numbers DEF ShapeOK
  <2>3. \A i \in Items : raw'[i].v <= version'[Supplier[i]]
    BY <1>0, <2>1, <2>2, Numbers DEF StoredInv
  <2>4. ASSUME NEW s \in Syncs, sync'[s].pc \in {"fetch", "upsert"}
        PROVE  sync'[s].v <= version'[sync'[s].p]
    <3>1. InSync(s) /\ sync[s].v <= version[sync[s].p]
      BY <2>1, <2>4 DEF StoredInv, InSync
    <3> QED BY <1>0, <2>1, <2>2, <3>1, Numbers
  <2> QED BY <1>0, <1>1, <2>1, <2>3, <2>4 DEF StoredInv, InSync, Lock
<1>5. ASSUME NEW w \in Workers, Restart(w)
      PROVE  StoredInv' /\ Ahead
  <2>1. \A s \in Syncs : InSync(s)' => sync'[s] = sync[s] /\ Host[s] # w
    BY <1>0, <1>5, Restarted, Ends DEF InSync
  <2>2. /\ UNCHANGED <<version, raw>> /\ locks' = {k \in locks : k[1] # w}
    BY <1>0, <1>5, Restarted
  <2>3. \A s \in Syncs : InSync(s)' => InSync(s) /\ Lock(s)' = Lock(s) /\ Lock(s)[1] # w
    BY <2>1 DEF InSync, Lock
  <2>4. \A s \in Syncs : sync'[s].pc \in {"fetch", "upsert"} => InSync(s)'
    BY DEF InSync
  <2> QED BY <1>0, <1>1, <2>1, <2>2, <2>3, <2>4 DEF StoredInv
<1> QED BY <1>2, <1>3, <1>4, <1>5, Kinds, OtherFrame, CacheFrame DEF vars, memory

\* No worker ever replaces prices that it stored by older ones, however many
\* synchronisations overlap, fail or are cut off by a crash.
THEOREM StoredPricesNeverAge == Spec => StoredPricesAdvance
<1>1. Init => StoredInv
  BY StoredInit
<1>2. StoredInv /\ [Next]_vars => StoredInv'
  BY StoredNext
<1>3. ASSUME StoredInv, [Next]_vars
      PROVE  \A i \in Items : raw'[i].v < raw[i].v => raw'[i].by # raw[i].by
  <2>1. \A i \in Items : raw[i].v \in Int /\ raw'[i].v \in Int
    BY <1>2, <1>3, Numbers DEF StoredInv, ShapeOK, Raws
  <2> QED BY <1>3, <2>1, StoredNext DEF Ahead
<1> QED BY <1>1, <1>2, <1>3, PTL DEF Spec, StoredPricesAdvance

-----------------------------------------------------------------------------
(* Costs and prices of products *)

Sound(d) == d.cost # None => d.base >= d.cost

\* A product document, whose item the synchronisation has stored.
IsDoc(d) == d \in Docs /\ (d.item # None => raw[d.item].v # 0)

Has(g) == g \in Goods /\ good[g] # None

GoodsOK ==
  /\ DOMAIN good = Goods
  /\ \A g \in Goods : Has(g) => IsDoc(good[g]) /\ (Sound(good[g]) \/ g \in torn \cup asked)

\* What is about to be written in the background is sound ...
UpdatesOK ==
  \A u \in updates : Has(u.g) /\ u.cost \in Nat /\ u.base \in Nat /\ u.base >= u.cost

\* ... or will be computed from a markup in use.
Computes(x) ==
  x.pc = "write" => /\ x.item \in Items
                    /\ \A l \in x.linked : Has(l.g) /\ l.markup \in Markups
LinksOK == \A s \in Syncs : Computes(sync[s])

\* An order is checked against a product that was read.
Checked(x) ==
  /\ DOMAIN x = {"pc", "v", "g", "doc"}
  /\ x.pc \in {"check", "wait", "answered"} =>
       Has(x.g) /\ IsDoc(x.doc) /\ x.doc.item # None /\ x.v \in 0..LastVersion
ChecksOK == DOMAIN order = Orders /\ \A o \in Orders : Checked(order[o])

\* What an administrator is about to save is sound, named, or no change.
Edited(x) ==
  /\ DOMAIN x = {"pc", "p", "g", "doc", "new", "asked"}
  /\ x.pc = "create" => IsDoc(x.new) /\ (x.asked \/ Sound(x.new))
  /\ x.pc = "save" => /\ Has(x.g) /\ IsDoc(x.doc) /\ IsDoc(x.new)
                      /\ x.asked \/ Sound(x.new) \/ SamePrices(x.new, x.doc)
EditsOK == DOMAIN admin = Admins /\ \A a \in Admins : Edited(admin[a])

LossInv == AdvanceInv /\ ShapeOK /\ GoodsOK /\ UpdatesOK /\ LinksOK /\ ChecksOK /\ EditsOK

LEMMA MarkedUp ==
  ASSUME NEW price \in Nat, NEW m \in Markups
  PROVE  MarkUp(price, m) \in Nat /\ MarkUp(price, m) >= price
<1>1. m.value \in Nat
  BY MarkupAssumption
<1>2. price * m.value \in Nat
  BY <1>1
<1>3. (price * m.value) \div 100 \in Nat
  BY <1>2
<1> QED BY <1>1, <1>3 DEF MarkUp

LEMMA Priced ==
  ASSUME NEW i \in Items, NEW v \in Versions
  PROVE  Price(i, v) \in Nat
  BY OfferAssumption DEF Price, OfferSet

LEMMA RawPriced ==
  ASSUME ShapeOK, NEW i \in Items, raw[i].v # 0
  PROVE  RawPrice(i) \in Nat
<1>1. raw[i].v \in Versions
  BY VersionAssumption DEF ShapeOK, Raws, Versions
<1> QED BY <1>1, Priced DEF RawPrice

\* An item that is stored stays stored, so that a document stays one.
LEMMA DocStays ==
  ASSUME ShapeOK, [Next]_vars
  PROVE  \A d : IsDoc(d) => IsDoc(d)'
<1>1. \A i \in Items : raw[i].v # 0 => raw'[i].v # 0
  <2>1. CASE UNCHANGED raw
    BY <2>1
  <2>2. ASSUME NEW s \in Syncs, StepKind(s)
        PROVE  \A i \in Items : raw[i].v # 0 => raw'[i].v # 0
    <3>1. sync[s].v # 0
      BY DEF ShapeOK, Shaped, Versions
    <3> QED BY <2>2, <3>1 DEF StepKind, Asks, Gets, Writes, Idles
  <2>3. CASE Synchronises
    BY <2>2, <2>3, StepKinds DEF Synchronises
  <2>4. ASSUME NEW p \in Providers, Reprice(p)
        PROVE  UNCHANGED raw
    BY <2>4 DEF Reprice
  <2>5. ASSUME NEW w \in Workers, Restart(w)
        PROVE  UNCHANGED raw
    BY <2>5 DEF Restart
  <2> QED BY <2>1, <2>3, <2>4, <2>5, Kinds, OtherFrame, CacheFrame DEF vars
<1> QED BY <1>1 DEF IsDoc, Docs

LEMMA LossInit == Init => LossInv
<1> SUFFICES ASSUME Init PROVE LossInv
  OBVIOUS
<1>1. AdvanceInv /\ ShapeOK
  BY AdvanceInit, ShapeInit
<1>2. 1 \in Versions
  BY VersionAssumption DEF Versions
<1>3. ASSUME NEW i \in Items, Offer[i][1].listed, NEW mode \in Modes, NEW m \in Markups
      PROVE  FirstGood(i, mode, m) \in Docs /\ Sound(FirstGood(i, mode, m))
  <2>1. Price(i, 1) \in Nat
    BY <1>2, Priced
  <2>2. MarkUp(Price(i, 1), m) \in Nat /\ MarkUp(Price(i, 1), m) >= Price(i, 1)
    BY <2>1, MarkedUp
  <2> QED BY <2>1, <2>2 DEF FirstGood, Docs, Sound
<1>4. GoodsOK
  <2>1. CASE good = [g \in Goods |-> None]
    BY <2>1 DEF GoodsOK, Has
  <2>2. CASE good # [g \in Goods |-> None]
    <3>1. /\ raw = [i \in Items |-> [v |-> IF Offer[i][1].listed THEN 1 ELSE 0,
                                     on |-> Offer[i][1].on, by |-> None]]
          /\ good \in [Goods -> {None} \cup {FirstGood(i, mode, m) :
                i \in {j \in Items : Offer[j][1].listed}, mode \in Modes, m \in Markups}]
      BY <2>2 DEF Init
    <3>2. ASSUME NEW g \in Goods, good[g] # None
          PROVE  IsDoc(good[g]) /\ Sound(good[g])
      <4>1. PICK i \in Items, mode \in Modes, m \in Markups :
              Offer[i][1].listed /\ good[g] = FirstGood(i, mode, m)
        BY <3>1, <3>2
      <4>2. FirstGood(i, mode, m).item = i /\ raw[i].v # 0
        BY <3>1, <4>1 DEF FirstGood
      <4> QED BY <1>3, <4>1, <4>2 DEF IsDoc
    <3> QED BY <3>1, <3>2 DEF GoodsOK, Has
  <2> QED BY <2>1, <2>2
<1>5. UpdatesOK /\ LinksOK
  BY Ends DEF Init, UpdatesOK, LinksOK, Computes
<1>6. ChecksOK
  BY DEF Init, ChecksOK, Checked, NoOrder
<1>7. EditsOK
  BY DEF Init, EditsOK, Edited, NoAdmin
<1> QED BY <1>1, <1>4, <1>5, <1>6, <1>7 DEF LossInv

-----------------------------------------------------------------------------
(* The steps that write products *)

\* One product is written; the exemptions of the others stay.
LEMMA Written ==
  ASSUME LossInv, [Next]_vars, NEW g \in Goods, NEW d,
         good' = [good EXCEPT ![g] = d], IsDoc(d)', Sound(d) \/ g \in torn' \cup asked',
         \A h \in Goods \ {g} : h \in torn \cup asked => h \in torn' \cup asked'
  PROVE  GoodsOK' /\ \A h : Has(h) => Has(h)'
<1>1. /\ good'[g] = d /\ DOMAIN good' = Goods
      /\ \A h \in Goods \ {g} : good'[h] = good[h]
  BY DEF LossInv, GoodsOK
<1>2. d # None
  BY NoDocAssumption DEF IsDoc
<1>3. \A h \in Goods \ {g} : Has(h) =>
        IsDoc(good[h])' /\ (Sound(good[h])' \/ h \in torn' \cup asked')
  <2>1. \A h \in Goods \ {g} : Has(h) =>
          IsDoc(good[h]) /\ (Sound(good[h]) \/ h \in torn \cup asked)
    BY DEF LossInv, GoodsOK
  <2>2. ASSUME NEW h \in Goods \ {g}, Has(h)
        PROVE  IsDoc(good[h])'
    <3>1. good'[h] = good[h] /\ IsDoc(good[h])
      BY <1>1, <2>1, <2>2
    <3>2. ASSUME NEW e, e = good[h]
          PROVE  IsDoc(e)'
      BY <3>1, <3>2, DocStays DEF LossInv
    <3> QED BY <3>1, <3>2 DEF IsDoc
  <2> QED BY <1>1, <2>1, <2>2 DEF Sound
<1> QED BY <1>1, <1>2, <1>3 DEF GoodsOK, Has, Sound

\* No product is written.
LEMMA Unwritten ==
  ASSUME LossInv, [Next]_vars, UNCHANGED <<good, torn, asked>>
  PROVE  GoodsOK' /\ \A h : Has(h) => Has(h)'
<1>1. ASSUME NEW h \in Goods, Has(h)
      PROVE  IsDoc(good[h])'
  <2>1. good'[h] = good[h] /\ IsDoc(good[h])
    BY <1>1 DEF LossInv, GoodsOK
  <2>2. ASSUME NEW e, e = good[h]
        PROVE  IsDoc(e)'
    BY <2>1, <2>2, DocStays DEF LossInv
  <2> QED BY <2>1, <2>2 DEF IsDoc
<1> QED BY <1>1 DEF LossInv, GoodsOK, Has, Sound

\* New prices of a document.
LEMMA Repriced ==
  ASSUME NEW d, IsDoc(d), NEW c \in Nat, NEW b \in Nat, b >= c,
         NEW e, e = [d EXCEPT !.cost = c, !.base = b]
  PROVE  IsDoc(e) /\ Sound(e)
<1>1. d = [item |-> d.item, mode |-> d.mode, markup |-> d.markup, adj |-> d.adj,
           cost |-> d.cost, base |-> d.base, on |-> d.on] /\ d \in Docs
  BY DEF IsDoc, Docs
<1>2. e = [item |-> d.item, mode |-> d.mode, markup |-> d.markup, adj |-> d.adj,
           cost |-> c, base |-> b, on |-> d.on]
  BY <1>1
<1>3. e \in Docs /\ e.item = d.item /\ e.cost = c /\ e.base = b
  BY <1>1, <1>2 DEF Docs
<1> QED BY <1>3 DEF IsDoc, Sound

LEMMA PushWrites ==
  ASSUME LossInv, [Next]_vars, NEW s \in Syncs, SyncPush(s)
  PROVE  GoodsOK' /\ \A h : Has(h) => Has(h)'
<1> DEFINE cost == Price(sync[s].item, sync[s].v)
<1>1. PICK x \in sync[s].linked :
        /\ good' = [good EXCEPT ![x.g] = [good[x.g] EXCEPT !.cost = cost,
                                                           !.base = MarkUp(cost, x.markup)]]
        /\ torn' = torn \ {x.g} /\ asked' = asked \ {x.g}
  BY DEF SyncPush
<1>2. /\ sync[s].item \in Items /\ sync[s].v \in Versions /\ Has(x.g) /\ x.markup \in Markups
      /\ IsDoc(good[x.g])
  BY DEF SyncPush, LossInv, LinksOK, Computes, ShapeOK, Shaped, GoodsOK, Has
<1>3. cost \in Nat /\ MarkUp(cost, x.markup) \in Nat /\ MarkUp(cost, x.markup) >= cost
  BY <1>2, Priced, MarkedUp
<1> HIDE DEF cost
<1>4. PICK d : d = [good[x.g] EXCEPT !.cost = cost, !.base = MarkUp(cost, x.markup)]
  OBVIOUS
<1>5. IsDoc(d) /\ Sound(d)
  BY <1>2, <1>3, <1>4, Repriced
<1>6. IsDoc(d)'
  BY <1>5, DocStays DEF LossInv
<1> QED BY <1>1, <1>2, <1>4, <1>5, <1>6, Written DEF Has

LEMMA UpdateWrites ==
  ASSUME LossInv, [Next]_vars, NEW u \in updates, AutoUpdate(u)
  PROVE  GoodsOK' /\ \A h : Has(h) => Has(h)'
<1>1. CASE UNCHANGED <<good, torn, asked>>
  BY <1>1, Unwritten
<1>2. CASE /\ good' = [good EXCEPT ![u.g] = [good[u.g] EXCEPT !.cost = u.cost, !.base = u.base]]
           /\ torn' = torn \ {u.g} /\ asked' = asked \ {u.g}
  <2>1. Has(u.g) /\ IsDoc(good[u.g]) /\ u.cost \in Nat /\ u.base \in Nat /\ u.base >= u.cost
    BY DEF LossInv, UpdatesOK, GoodsOK, Has
  <2>2. PICK d : d = [good[u.g] EXCEPT !.cost = u.cost, !.base = u.base]
    OBVIOUS
  <2>3. IsDoc(d) /\ Sound(d)
    BY <2>1, <2>2, Repriced
  <2>4. IsDoc(d)'
    BY <2>3, DocStays DEF LossInv
  <2> QED BY <1>2, <2>1, <2>2, <2>3, <2>4, Written DEF Has
<1> QED BY <1>1, <1>2 DEF AutoUpdate

LEMMA CreateWrites ==
  ASSUME LossInv, [Next]_vars, NEW a \in Admins, Create(a)
  PROVE  GoodsOK' /\ \A h : Has(h) => Has(h)'
<1>1. PICK g \in Goods :
        /\ good' = [good EXCEPT ![g] = admin[a].new] /\ torn' = torn
        /\ asked' = IF admin[a].asked THEN asked \cup {g} ELSE asked
  BY DEF Create
<1>2. PICK d : d = admin[a].new
  OBVIOUS
<1>3. IsDoc(d) /\ (admin[a].asked \/ Sound(d))
  BY <1>2 DEF Create, LossInv, EditsOK, Edited
<1>4. IsDoc(d)'
  BY <1>3, DocStays DEF LossInv
<1> QED BY <1>1, <1>2, <1>3, <1>4, Written

\* A merged document is one, with the prices of the new or of the present one.
LEMMA Merges ==
  ASSUME NEW now, NEW read, NEW new, IsDoc(now), IsDoc(read), IsDoc(new)
  PROVE  LET d == Merged(now, read, new) IN
         /\ IsDoc(d)
         /\ SamePrices(new, read) => SamePrices(d, now)
         /\ SamePrices(now, read) => SamePrices(d, new)
<1> DEFINE d == Merged(now, read, new)
<1>1. /\ DOMAIN now = {"item", "mode", "markup", "adj", "cost", "base", "on"}
      /\ now \in Docs /\ new \in Docs /\ read \in Docs
  BY DEF IsDoc, Docs
<1>2. d = [f \in {"item", "mode", "markup", "adj", "cost", "base", "on"} |->
             IF new[f] # read[f] THEN new[f] ELSE now[f]]
  BY <1>1 DEF Merged
<1>3. d \in Docs
  <2>1. /\ DOMAIN d = {"item", "mode", "markup", "adj", "cost", "base", "on"}
        /\ d.item \in Items \cup {None} /\ d.mode \in Modes /\ d.markup \in Markups
        /\ d.adj \in Int \cup {Off} /\ d.cost \in Nat \cup {None} /\ d.base \in Int
        /\ d.on \in BOOLEAN
    BY <1>1, <1>2 DEF Docs
  <2>2. d = [item |-> d.item, mode |-> d.mode, markup |-> d.markup, adj |-> d.adj,
             cost |-> d.cost, base |-> d.base, on |-> d.on]
    BY <1>2
  <2> QED BY <2>1, <2>2 DEF Docs
<1>4. /\ d.item = IF new.item # read.item THEN new.item ELSE now.item
      /\ d.cost = IF new.cost # read.cost THEN new.cost ELSE now.cost
      /\ d.base = IF new.base # read.base THEN new.base ELSE now.base
  BY <1>2
<1> QED BY <1>3, <1>4 DEF IsDoc, SamePrices

LEMMA SaveWrites ==
  ASSUME LossInv, [Next]_vars, NEW a \in Admins, UpdateSave(a)
  PROVE  GoodsOK' /\ \A h : Has(h) => Has(h)'
<1> DEFINE g == admin[a].g
           read == admin[a].doc
           new == admin[a].new
<1>1. /\ Has(g) /\ IsDoc(read) /\ IsDoc(new) /\ IsDoc(good[g])
      /\ admin[a].asked \/ Sound(new) \/ SamePrices(new, read)
      /\ Sound(good[g]) \/ g \in torn \cup asked
  BY DEF UpdateSave, LossInv, EditsOK, Edited, GoodsOK, Has
<1>2. /\ good' = [good EXCEPT ![g] = Merged(good[g], read, new)]
      /\ IF SamePrices(new, read) THEN UNCHANGED <<torn, asked>>
         ELSE /\ torn' = IF ~SamePrices(good[g], read) THEN torn \cup {g} ELSE torn \ {g}
              /\ asked' = IF admin[a].asked THEN asked \cup {g}
                          ELSE IF ~SamePrices(good[g], read) THEN asked ELSE asked \ {g}
  BY DEF UpdateSave
<1>3. PICK d : d = Merged(good[g], read, new)
  OBVIOUS
<1>4. /\ IsDoc(d) /\ (SamePrices(new, read) => SamePrices(d, good[g]))
      /\ SamePrices(good[g], read) => SamePrices(d, new)
  BY <1>1, <1>3, Merges
<1>5. IsDoc(d)'
  BY <1>4, DocStays DEF LossInv
<1>6. Sound(d) \/ g \in torn' \cup asked'
  BY <1>1, <1>2, <1>4 DEF SamePrices, Sound
<1>7. \A h \in Goods \ {g} : h \in torn \cup asked => h \in torn' \cup asked'
  BY <1>2
<1>8. g \in Goods
  BY <1>1 DEF Has
<1> HIDE DEF g, read, new
<1> QED BY <1>2, <1>3, <1>5, <1>6, <1>7, <1>8, Written

LEMMA SwitchWrites ==
  ASSUME LossInv, [Next]_vars, NEW g \in Goods, SetGood(g)
  PROVE  GoodsOK' /\ \A h : Has(h) => Has(h)'
<1>1. /\ IsDoc(good[g]) /\ (Sound(good[g]) \/ g \in torn \cup asked)
      /\ good' = [good EXCEPT ![g] = [good[g] EXCEPT !.on = ~@]] /\ UNCHANGED <<torn, asked>>
  BY DEF SetGood, LossInv, GoodsOK, Has
<1>2. PICK d : d = [good[g] EXCEPT !.on = ~@]
  OBVIOUS
<1>3. IsDoc(d) /\ (Sound(good[g]) => Sound(d))
  BY <1>1, <1>2 DEF IsDoc, Docs, Sound
<1>4. IsDoc(d)'
  BY <1>3, DocStays DEF LossInv
<1> QED BY <1>1, <1>2, <1>3, <1>4, Written

LEMMA DetachWrites ==
  ASSUME LossInv, [Next]_vars, NEW a \in Admins, Detach(a)
  PROVE  GoodsOK' /\ \A h : Has(h) => Has(h)'
<1>1. /\ UNCHANGED <<torn, asked, raw>> /\ DOMAIN good' = Goods
      /\ \A g \in Goods : \/ good'[g] = good[g]
                          \/ Has(g) /\ good'[g] = Detached(good[g])
  BY DEF Detach, AdminElsewhere, Has
<1>2. ASSUME NEW g \in Goods, Has(g)
      PROVE  Detached(good[g]) \in Docs /\ Detached(good[g]).item = None
             /\ Sound(Detached(good[g]))
  BY <1>2 DEF LossInv, GoodsOK, IsDoc, Docs, Detached, Sound, Modes
<1>3. \A g \in Goods : Has(g) => IsDoc(good[g])' /\ Has(g)'
  BY <1>1, <1>2, NoDocAssumption DEF LossInv, GoodsOK, Has, IsDoc
<1>4. \A g \in Goods : Has(g)' => Has(g)
  BY <1>1 DEF Has
<1>5. ASSUME NEW g \in Goods, Has(g)'
      PROVE  Sound(good[g])' \/ g \in torn' \cup asked'
  BY <1>1, <1>2, <1>4, <1>5 DEF LossInv, GoodsOK, Sound
<1> QED BY <1>1, <1>3, <1>4, <1>5 DEF GoodsOK, Has

\* Every step, then, leaves products sound or exempt, and removes none.
LEMMA GoodStep ==
  ASSUME LossInv, [Next]_vars
  PROVE  GoodsOK' /\ \A h : Has(h) => Has(h)'
<1>1. CASE UNCHANGED <<good, torn, asked>>
  BY <1>1, Unwritten
<1>2. ASSUME NEW s \in Syncs, SyncBegin(s) \/ SyncStep(s)
      PROVE  SyncPush(s) \/ UNCHANGED <<good, torn, asked>>
  <2>1. CASE SyncBegin(s)
    BY <2>1 DEF SyncBegin, Elsewhere
  <2>2. CASE \/ SyncLock(s) \/ SyncDone(s) \/ SyncFind(s) \/ SyncFetched(s)
             \/ SyncFetchFails(s) \/ SyncUpsert(s) \/ SyncDeactivate(s) \/ SyncLookup(s)
             \/ SyncPushed(s) \/ SyncEnd(s)
    BY <2>2 DEF SyncLock, SyncDone, SyncFind, SyncFetched, SyncFetchFails, SyncUpsert,
       SyncDeactivate, SyncLookup, SyncPushed, SyncEnd, Elsewhere
  <2> QED BY <1>2, <2>1, <2>2 DEF SyncStep
<1>3. CASE Synchronises
  BY <1>1, <1>2, <1>3, PushWrites DEF Synchronises
<1>4. ASSUME NEW o \in Orders, NEW g \in Goods, OrderBegin(o, g)
      PROVE  UNCHANGED <<good, torn, asked>>
  BY <1>4 DEF OrderBegin, ghosts
<1>5. CASE Trades
  BY <1>1, <1>4, <1>5, UpdateWrites DEF Trades
<1>6. ASSUME NEW a \in Admins,
             \/ CreateBegin(a) \/ CreatePlain(a) \/ Drop(a) \/ Abandon(a)
             \/ \E g \in Goods : UpdateBegin(a, g)
             \/ \E p \in Providers : DeleteBegin(a, p)
      PROVE  UNCHANGED <<good, torn, asked>>
  BY <1>6 DEF CreateBegin, CreatePlain, Drop, Abandon, UpdateBegin, DeleteBegin
<1>7. ASSUME NEW p \in Providers, SetProvider(p) \/ Reprice(p)
      PROVE  UNCHANGED <<good, torn, asked>>
  BY <1>7 DEF SetProvider, Reprice, ghosts
<1>8. CASE Administers
  BY <1>1, <1>6, <1>7, <1>8, CreateWrites, SaveWrites, DetachWrites, SwitchWrites
     DEF Administers
<1>9. CASE Caches
  <2>1. UNCHANGED <<good, torn, asked>>
    BY <1>9 DEF Caches, OrderLooks, OrderConcludes, FetchArrives, FetchFails, Expire, ghosts
  <2> QED BY <1>1, <2>1
<1>10. ASSUME NEW w \in Workers, Restart(w)
       PROVE  UNCHANGED <<good, torn, asked>>
  BY <1>10 DEF Restart, ghosts
<1>11. CASE UNCHANGED vars
  BY <1>1, <1>11 DEF vars, ghosts
<1> QED BY <1>1, <1>3, <1>5, <1>7, <1>8, <1>9, <1>10, <1>11, Kinds

-----------------------------------------------------------------------------
(* What is under way towards a product *)

\* What a synchronisation is about to write comes from its lookup.
LEMMA Looked ==
  ASSUME LossInv, NEW s \in Syncs, SyncBegin(s) \/ SyncStep(s)
  PROVE  Computes(sync'[s])
<1> SUFFICES ASSUME sync'[s].pc = "write"
             PROVE  /\ sync'[s].item \in Items
                    /\ \A l \in sync'[s].linked : Has(l.g) /\ l.markup \in Markups
  BY DEF Computes
<1>0. Shaped(sync[s]) /\ DOMAIN sync = Syncs /\ DOMAIN sync[s] = SyncFields
  BY DEF LossInv, ShapeOK, Shaped
<1>1. CASE SyncPush(s)
  <2>1. PICK x \in sync[s].linked :
          sync' = [sync EXCEPT ![s] = [sync[s] EXCEPT !.linked = @ \ {x}]]
    BY <1>1 DEF SyncPush
  <2>2. sync'[s].item = sync[s].item /\ sync'[s].linked \subseteq sync[s].linked
    BY <1>0, <2>1 DEF SyncFields
  <2>3. sync[s].pc = "write"
    BY <1>1 DEF SyncPush
  <2> QED BY <2>2, <2>3 DEF LossInv, LinksOK, Computes
<1>2. CASE SyncLookup(s)
  <2>1. PICK i \in sync[s].todo :
       \/ sync' = [sync EXCEPT ![s] = [sync[s] EXCEPT !.pc = "write", !.item = i, !.todo = @ \ {i},
            !.linked = {[g |-> g, markup |-> good[g].markup] :
                          g \in {h \in Goods : good[h] # None /\ good[h].item = i
                                                              /\ good[h].mode = "sync"}}]]
       \/ sync' = [sync EXCEPT ![s] = [sync[s] EXCEPT !.todo = @ \ {i}]]
    BY <1>2 DEF SyncLookup
  <2>2. i \in Items /\ sync[s].pc = "push"
    BY <1>0, <1>2 DEF Shaped, SyncLookup
  <2> DEFINE L == {[g |-> g, markup |-> good[g].markup] :
                     g \in {h \in Goods : good[h] # None /\ good[h].item = i
                                                         /\ good[h].mode = "sync"}}
  <2>3. \A l \in L : Has(l.g) /\ l.markup \in Markups
    BY DEF LossInv, GoodsOK, Has, IsDoc, Docs
  <2> HIDE DEF L
  <2>4. CASE sync' = [sync EXCEPT ![s] = [sync[s] EXCEPT !.todo = @ \ {i}]]
    BY <1>0, <2>2, <2>4 DEF SyncFields
  <2>5. CASE sync' = [sync EXCEPT ![s] = [sync[s] EXCEPT !.pc = "write", !.item = i,
                        !.todo = @ \ {i}, !.linked = L]]
    <3>1. sync'[s].item = i /\ sync'[s].linked = L
      BY <1>0, <2>5 DEF SyncFields
    <3> QED BY <2>2, <2>3, <3>1
  <2> QED BY <2>1, <2>4, <2>5 DEF L
<1>3. CASE ~SyncPush(s) /\ ~SyncLookup(s)
  <2>1. ASSUME SyncBegin(s) PROVE sync'[s].pc # "write"
    BY <1>0, <2>1, Ends DEF SyncBegin, Shaped, SyncFields
  <2>2. ASSUME SyncLock(s) PROVE sync'[s].pc # "write"
    BY <1>0, <2>2, Ends DEF SyncLock, Shaped, SyncFields
  <2>3. ASSUME SyncDone(s) \/ SyncEnd(s) \/ SyncFetchFails(s) \/ SyncPushed(s)
        PROVE  sync'[s].pc # "write"
    BY <1>0, <2>3, Ends DEF SyncDone, SyncEnd, SyncFetchFails, SyncPushed, Release, To,
       Shaped, SyncFields
  <2>4. ASSUME SyncFind(s) \/ SyncDeactivate(s)
        PROVE  sync'[s].pc # "write"
    BY <1>0, <2>4 DEF SyncFind, SyncDeactivate, Release, To, SyncFields
  <2>5. ASSUME SyncFetched(s) PROVE sync'[s].pc # "write"
    BY <1>0, <2>5 DEF SyncFetched, SyncFields
  <2>6. ASSUME SyncUpsert(s) PROVE sync'[s].pc # "write"
    BY <1>0, <2>6 DEF SyncUpsert, SyncFields
  <2> QED BY <1>3, <2>1, <2>2, <2>3, <2>4, <2>5, <2>6 DEF SyncStep
<1> QED BY <1>1, <1>2, <1>3

LEMMA LinksStep ==
  ASSUME LossInv, [Next]_vars
  PROVE  LinksOK'
<1>1. \A s \in Syncs : Computes(sync'[s])
  <2>1. CASE UNCHANGED sync
    BY <2>1 DEF LossInv, LinksOK
  <2>2. ASSUME NEW s \in Syncs, SyncBegin(s) \/ SyncStep(s)
        PROVE  \A t \in Syncs : Computes(sync'[t])
    <3>1. \A t \in Syncs \ {s} : sync'[t] = sync[t]
      BY <2>2, StepKinds DEF LossInv, StepKind, Alone
    <3> QED BY <2>2, <3>1, Looked DEF LossInv, LinksOK
  <2>3. CASE Synchronises
    BY <2>2, <2>3 DEF Synchronises
  <2>4. ASSUME NEW w \in Workers, Restart(w)
        PROVE  \A t \in Syncs : Computes(sync'[t])
    <3>1. Computes(SyncOver)
      BY Ends DEF Computes
    <3> QED BY <2>4, <3>1, Restarted DEF LossInv, LinksOK
  <2>5. ASSUME NEW p \in Providers, Reprice(p)
        PROVE  UNCHANGED sync
    BY <2>5 DEF Reprice
  <2> QED BY <2>1, <2>3, <2>4, <2>5, Kinds, OtherFrame, CacheFrame DEF vars
<1>2. ASSUME NEW s \in Syncs
      PROVE  Computes(sync[s])'
  <2>1. PICK x : x = sync'[s]
    OBVIOUS
  <2>2. Computes(x)
    BY <1>1, <2>1
  <2>3. Computes(x)'
    BY <2>2, GoodStep DEF Computes
  <2> QED BY <2>1, <2>3 DEF Computes
<1> QED BY <1>2 DEF LinksOK

\* What an order of the worker asks for is in a provider's list.
LEMMA Keys ==
  ASSUME LossInv, NEW o \in Orders, order[o].pc \in {"check", "wait", "answered"}
  PROVE  /\ Key(o) \in Pairs /\ order[o].doc.item \in Items /\ IsDoc(order[o].doc)
         /\ Has(order[o].g) /\ order[o].v \in 0..LastVersion
         /\ DOMAIN order[o] = {"pc", "v", "g", "doc"} /\ order[o].doc.item # None
<1>1. Checked(order[o])
  BY DEF LossInv, ChecksOK
<1>2. order[o].doc.item \in Items
  BY <1>1 DEF Checked, IsDoc, Docs
<1>3. Host[o] \in Workers /\ Supplier[order[o].doc.item] \in Providers
  BY <1>2, HostAssumption, SupplierAssumption
<1> QED BY <1>1, <1>2, <1>3 DEF Checked, Key, Pairs

\* An order that is answered is still checked against the same product.
LEMMA Answered ==
  ASSUME NEW x, Checked(x), x.pc \in {"check", "wait", "answered"},
         NEW v \in 0..LastVersion
  PROVE  Checked([x EXCEPT !.pc = "answered", !.v = v])
  BY DEF Checked

LEMMA Delivers ==
  ASSUME LossInv, NEW k, NEW v \in 0..LastVersion, Deliver(k, v)
  PROVE  DOMAIN order' = Orders /\ \A o \in Orders : Checked(order'[o])
<1>1. DOMAIN order' = Orders
  BY DEF Deliver
<1>2. ASSUME NEW o \in Orders
      PROVE  Checked(order'[o])
  <2>1. \/ order'[o] = order[o]
        \/ order[o].pc = "wait" /\ order'[o] = [order[o] EXCEPT !.pc = "answered", !.v = v]
    BY DEF Deliver
  <2>2. PICK x : x = order[o]
    OBVIOUS
  <2>3. Checked(x)
    BY <2>2 DEF LossInv, ChecksOK
  <2>4. CASE x.pc = "wait" /\ order'[o] = [x EXCEPT !.pc = "answered", !.v = v]
    <3>1. Checked([x EXCEPT !.pc = "answered", !.v = v])
      BY <2>3, <2>4, Answered
    <3> QED BY <2>4, <3>1
  <2> QED BY <2>1, <2>2, <2>3, <2>4
<1> QED BY <1>1, <1>2

LEMMA OrderEnds ==
  ASSUME LossInv
  PROVE  Checked(OrderOver)
  BY DEF Checked, OrderOver, NoOrder

LEMMA ChecksStep ==
  ASSUME LossInv, [Next]_vars
  PROVE  ChecksOK'
<1>0. DOMAIN order = Orders /\ \A o \in Orders : Checked(order[o])
  BY DEF LossInv, ChecksOK
<1>1. DOMAIN order' = Orders /\ \A o \in Orders : Checked(order'[o])
  <2>1. CASE UNCHANGED order
    BY <1>0, <2>1
  <2>2. ASSUME NEW o \in Orders, NEW g \in Goods, OrderBegin(o, g)
        PROVE  DOMAIN order' = Orders /\ \A p \in Orders : Checked(order'[p])
    <3>1. PICK x : x = [NoOrder EXCEPT !.pc = "check", !.g = g, !.doc = good[g]]
      OBVIOUS
    <3>2. Has(g) /\ IsDoc(good[g]) /\ good[g].item # None /\ 0 \in 0..LastVersion
      BY <2>2, VersionAssumption DEF OrderBegin, Has, LossInv, GoodsOK
    <3>3. Checked(x)
      BY <3>1, <3>2 DEF Checked, NoOrder
    <3>4. order' = [order EXCEPT ![o] = x]
      BY <2>2, <3>1 DEF OrderBegin
    <3> QED BY <1>0, <3>3, <3>4
  <2>3. ASSUME NEW o \in Orders, OrderLooks(o)
        PROVE  DOMAIN order' = Orders /\ \A p \in Orders : Checked(order'[p])
    <3>1. PICK x : x = order[o]
      OBVIOUS
    <3>2. Checked(x) /\ x.pc = "check" /\ Key(o) \in Pairs
      BY <1>0, <2>3, <3>1, Keys DEF OrderLooks
    <3>3. cache[Key(o)] \in 0..LastVersion
      BY <3>2 DEF LossInv, AdvanceInv
    <3>4. CASE cache[Key(o)] # 0
      <4>1. PICK y : y = [x EXCEPT !.pc = "answered", !.v = cache[Key(o)]]
        OBVIOUS
      <4>2. PICK v \in 0..LastVersion : v = cache[Key(o)]
        BY <3>3
      <4>3. Checked(y)
        BY <3>2, <4>1, <4>2, Answered
      <4>4. order' = [order EXCEPT ![o] = y]
        BY <2>3, <3>1, <3>4, <4>1 DEF OrderLooks, Answer
      <4> QED BY <1>0, <4>3, <4>4
    <3>5. CASE cache[Key(o)] = 0
      <4>1. PICK y : y = [x EXCEPT !.pc = "wait"]
        OBVIOUS
      <4>2. Checked(y)
        BY <3>2, <4>1 DEF Checked
      <4>3. order' = [order EXCEPT ![o] = y]
        BY <2>3, <3>1, <3>5, <4>1 DEF OrderLooks
      <4> QED BY <1>0, <4>2, <4>3
    <3> QED BY <3>4, <3>5
  <2>4. ASSUME NEW o \in Orders, OrderConcludes(o)
        PROVE  DOMAIN order' = Orders /\ \A p \in Orders : Checked(order'[p])
    BY <1>0, <2>4, OrderEnds DEF OrderConcludes
  <2>5. ASSUME NEW k \in Pairs, FetchArrives(k)
        PROVE  DOMAIN order' = Orders /\ \A p \in Orders : Checked(order'[p])
    <3>1. PICK s \in flights[k] : \E v \in s..version[k[2]] : Deliver(k, v)
      BY <2>5 DEF FetchArrives
    <3>2. PICK v \in s..version[k[2]] : Deliver(k, v)
      BY <3>1
    <3>3. s \in Versions /\ version[k[2]] \in Versions
      BY DEF LossInv, AdvanceInv, Pairs
    <3>4. v \in 0..LastVersion
      BY <3>2, <3>3, VersionAssumption DEF Versions
    <3> QED BY <3>2, <3>4, Delivers
  <2>6. ASSUME NEW k \in Pairs, FetchFails(k)
        PROVE  DOMAIN order' = Orders /\ \A p \in Orders : Checked(order'[p])
    <3>1. 0 \in 0..LastVersion /\ Deliver(k, 0)
      BY <2>6, VersionAssumption DEF FetchFails
    <3> QED BY <3>1, Delivers
  <2>7. ASSUME NEW w \in Workers, Restart(w)
        PROVE  DOMAIN order' = Orders /\ \A p \in Orders : Checked(order'[p])
    <3>1. DOMAIN order' = Orders /\ \A o \in Orders : order'[o] \in {order[o], OrderOver}
      BY <2>7 DEF Restart
    <3> QED BY <1>0, <3>1, OrderEnds
  <2>8. CASE Caches
    <3>1. ASSUME NEW k \in Pairs, Expire(k)
          PROVE  UNCHANGED order
      BY <3>1 DEF Expire
    <3> QED BY <2>1, <2>3, <2>4, <2>5, <2>6, <2>8, <3>1 DEF Caches
  <2>9. CASE Trades
    <3>1. ASSUME NEW u \in updates, AutoUpdate(u)
          PROVE  UNCHANGED order
      BY <3>1 DEF AutoUpdate
    <3> QED BY <2>1, <2>2, <2>9, <3>1 DEF Trades
  <2>10. CASE Synchronises
    <3>1. PICK s \in Syncs : SyncBegin(s) \/ SyncStep(s)
      BY <2>10 DEF Synchronises
    <3>2. UNCHANGED order
      BY <3>1 DEF SyncStep, SyncBegin, SyncPush, SyncLock, SyncDone, SyncFind, SyncFetched,
         SyncFetchFails, SyncUpsert, SyncDeactivate, SyncLookup, SyncPushed, SyncEnd, Elsewhere
    <3> QED BY <2>1, <3>2
  <2>11. CASE Administers
    <3>1. UNCHANGED order
      BY <2>11 DEF Administers, CreateBegin, CreatePlain, Create, UpdateSave, Detach, Drop,
         Abandon, UpdateBegin, DeleteBegin, SetGood, SetProvider, AdminElsewhere
    <3> QED BY <2>1, <3>1
  <2>12. ASSUME NEW p \in Providers, Reprice(p)
         PROVE  UNCHANGED order
    BY <2>12 DEF Reprice
  <2>13. CASE UNCHANGED vars
    BY <2>1, <2>13 DEF vars
  <2> QED BY <2>1, <2>7, <2>8, <2>9, <2>10, <2>11, <2>12, <2>13, Kinds
<1>2. ASSUME NEW o \in Orders
      PROVE  Checked(order[o])'
  <2>1. PICK x : x = order'[o]
    OBVIOUS
  <2>2. Checked(x)
    BY <1>1, <2>1
  <2>3. IsDoc(x.doc) => IsDoc(x.doc)'
    <3>1. PICK d : d = x.doc
      OBVIOUS
    <3>2. IsDoc(d) => IsDoc(d)'
      BY DocStays DEF LossInv
    <3> QED BY <3>1, <3>2
  <2>4. Checked(x)'
    BY <2>2, <2>3, GoodStep DEF Checked
  <2> QED BY <2>1, <2>4 DEF Checked
<1> QED BY <1>1, <1>2 DEF ChecksOK

\* A check adds a write whose price is marked up from the cost it writes.
LEMMA UpdatesStep ==
  ASSUME LossInv, [Next]_vars
  PROVE  UpdatesOK'
<1> DEFINE Fine(u) == Has(u.g) /\ u.cost \in Nat /\ u.base \in Nat /\ u.base >= u.cost
<1>0. \A u \in updates : Fine(u)
  BY DEF LossInv, UpdatesOK
<1>1. \A u \in updates' : Fine(u)
  <2>1. CASE updates' \subseteq updates
    BY <1>0, <2>1
  <2>2. ASSUME NEW o \in Orders, OrderConcludes(o)
        PROVE  \A u \in updates' : Fine(u)
    <3> DEFINE i == order[o].doc.item
               c == Price(i, order[o].v)
               b == MarkUp(c, order[o].doc.markup)
               n == [w |-> Host[o], g |-> order[o].g, cost |-> c, base |-> b]
    <3>1. /\ i \in Items /\ IsDoc(order[o].doc) /\ Has(order[o].g)
          /\ order[o].v \in 0..LastVersion
      BY <2>2, Keys DEF OrderConcludes
    <3>2. UNCHANGED updates \/ (order[o].v # 0 /\ updates' = updates \cup {n})
      BY <2>2 DEF OrderConcludes
    <3>3. ASSUME order[o].v # 0
          PROVE  Fine(n)
      <4>1. order[o].v \in Versions /\ order[o].doc.markup \in Markups
        BY <3>1, <3>3, VersionAssumption DEF Versions, IsDoc, Docs
      <4>2. c \in Nat
        BY <3>1, <4>1, Priced
      <4> HIDE DEF c
      <4>3. b \in Nat /\ b >= c
        BY <4>1, <4>2, MarkedUp
      <4> HIDE DEF b
      <4> QED BY <3>1, <4>2, <4>3
    <3> HIDE DEF n, Fine
    <3> QED BY <1>0, <3>2, <3>3
  <2>3. ASSUME NEW k \in Pairs, FetchArrives(k) \/ FetchFails(k) \/ Expire(k)
        PROVE  UNCHANGED updates
    BY <2>3 DEF FetchArrives, FetchFails, Expire
  <2>4. ASSUME NEW o \in Orders, OrderLooks(o)
        PROVE  UNCHANGED updates
    BY <2>4 DEF OrderLooks
  <2>5. CASE Caches
    BY <2>1, <2>2, <2>3, <2>4, <2>5 DEF Caches
  <2>6. ASSUME NEW w \in Workers, Restart(w)
        PROVE  updates' \subseteq updates
    BY <2>6 DEF Restart
  <2>7. CASE Trades
    <3>1. updates' \subseteq updates
      BY <2>7 DEF Trades, OrderBegin, AutoUpdate, memory
    <3> QED BY <2>1, <3>1
  <2>8. CASE Synchronises
    <3>1. PICK s \in Syncs : SyncBegin(s) \/ SyncStep(s)
      BY <2>8 DEF Synchronises
    <3>2. UNCHANGED updates
      BY <3>1 DEF SyncStep, SyncBegin, SyncPush, SyncLock, SyncDone, SyncFind, SyncFetched,
         SyncFetchFails, SyncUpsert, SyncDeactivate, SyncLookup, SyncPushed, SyncEnd,
         Elsewhere, memory
    <3> QED BY <2>1, <3>2
  <2>9. CASE Administers
    <3>1. UNCHANGED updates
      BY <2>9 DEF Administers, CreateBegin, CreatePlain, Create, UpdateSave, Detach, Drop,
         Abandon, UpdateBegin, DeleteBegin, SetGood, SetProvider, AdminElsewhere, memory
    <3> QED BY <2>1, <3>1
  <2>10. CASE \E p \in Providers : Reprice(p)
    BY <2>1, <2>10 DEF Reprice, memory
  <2>11. CASE UNCHANGED vars
    BY <2>1, <2>11 DEF vars, memory
  <2> QED BY <2>1, <2>5, <2>6, <2>7, <2>8, <2>9, <2>10, <2>11, Kinds
<1>2. \A h : Has(h) => Has(h)'
  BY GoodStep
<1>3. ASSUME NEW u \in updates'
      PROVE  Has(u.g)' /\ u.cost \in Nat /\ u.base \in Nat /\ u.base >= u.cost
  BY <1>1, <1>2, <1>3
<1> QED BY <1>3 DEF UpdatesOK, Has

\* A product that is created from a stored item is a document, and sells at a
\* loss only if its price was named.
LEMMA News ==
  ASSUME ShapeOK, NEW i \in Items, raw[i].v # 0, NEW mode \in Modes, NEW m \in Markups,
         NEW base \in Asked \cup {None}
  PROVE  /\ IsDoc(NewGood(i, mode, m, base))
         /\ Named(i, mode, m, base) \/ Sound(NewGood(i, mode, m, base))
<1> DEFINE n == NewGood(i, mode, m, base)
           cost == RawPrice(i)
           up1 == MarkUp(cost, m)
<1>1. cost \in Nat
  BY RawPriced
<1>2. up1 \in Nat /\ up1 >= cost
  <2> HIDE DEF cost
  <2> QED BY <1>1, MarkedUp
<1>3. Named(i, mode, m, base) => base \in Nat
  BY AskedAssumption DEF Named
<1>4. PICK b : b = n.base
  OBVIOUS
<1>5. b \in Nat /\ (Named(i, mode, m, base) \/ b >= cost)
  <2>1. b = IF Named(i, mode, m, base) THEN base
            ELSE IF mode = "sync" \/ m.value > 0 THEN up1 ELSE cost
    BY <1>4 DEF NewGood
  <2> HIDE DEF up1, cost
  <2> QED BY <1>1, <1>2, <1>3, <2>1
<1>6. n = [item |-> i, mode |-> mode, markup |-> m, adj |-> Off, cost |-> cost, on |-> TRUE,
           base |-> b]
  BY <1>4 DEF NewGood
<1>7. n \in Docs /\ n.item = i /\ n.cost = cost /\ n.base = b
  <2> HIDE DEF n, cost
  <2> QED BY <1>1, <1>5, <1>6 DEF Docs
<1> HIDE DEF n, cost
<1>8. IsDoc(n) /\ (Named(i, mode, m, base) \/ Sound(n))
  BY <1>5, <1>7 DEF IsDoc, Sound
<1> QED BY <1>8 DEF n

\* A product that was changed is a document, and sells at a loss only if its
\* price was named or stayed what it was.
LEMMA Patching ==
  ASSUME ShapeOK, NEW d, IsDoc(d), NEW x \in Patches, x.item # None => raw[x.item].v # 0
  PROVE  /\ IsDoc(Patched(d, x))
         /\ Names(d, x) \/ Sound(Patched(d, x)) \/ SamePrices(Patched(d, x), d)
<1> DEFINE m == IF x.markup = None THEN d.markup ELSE x.markup
           i == IF x.item = None THEN d.item ELSE x.item
           j == IF x.adj = None THEN d.adj ELSE x.adj
           computed == Relinks(d, x) \/ Reprices(d, x) \/ Adjusted(d, x)
           mode == IF x.flag = "keep" \/ x.mode # None THEN ModeOf(d, x)
                   ELSE IF x.flag = "on" THEN "sync" ELSE "manual"
           n == Patched(d, x)
<1>1. /\ d \in Docs /\ (d.item # None => raw[d.item].v # 0)
      /\ x.item \in Items \cup {None} /\ x.mode \in Modes \cup {None}
      /\ x.markup \in Markups \cup {None} /\ x.base \in Asked \cup {None}
      /\ x.adj \in Int \cup {Off, None}
  BY PatchAssumption DEF IsDoc, PatchSet
<1>2. /\ m \in Markups /\ i \in Items \cup {None} /\ j \in Int \cup {Off}
      /\ i # None => raw[i].v # 0
  BY <1>1 DEF Docs
<1>3. mode \in Modes
  BY <1>1 DEF Docs, Modes, ModeOf
<1>4. computed => i \in Items
  BY <1>2 DEF Relinks, Reprices, Adjusted
<1>5. computed => RawPrice(i) \in Nat
  <2> HIDE DEF i, computed
  <2>1. None \notin Items
    BY SupplierAssumption
  <2> QED BY <1>2, <1>4, <2>1, RawPriced
<1>6. computed => MarkUp(RawPrice(i), m) \in Nat /\ MarkUp(RawPrice(i), m) >= RawPrice(i)
  <2> HIDE DEF i, computed, m
  <2> QED BY <1>2, <1>5, MarkedUp
<1>7. Adjusted(d, x) => j \in Int
  BY <1>2 DEF Adjusted
<1>8. x.base # None => x.base \in Nat
  BY <1>1, AskedAssumption
<1>9. PICK c, b : c = n.cost /\ b = n.base
  OBVIOUS
<1>10. /\ c = IF computed THEN RawPrice(i) ELSE d.cost
       /\ b = IF Adjusted(d, x) THEN RawPrice(i) + j
              ELSE IF computed THEN MarkUp(RawPrice(i), m)
              ELSE IF x.base # None THEN x.base ELSE d.base
  BY <1>9 DEF Patched
<1>11. n = [item |-> i, markup |-> m, adj |-> j, on |-> d.on, mode |-> mode,
            cost |-> c, base |-> b]
  BY <1>9 DEF Patched
<1>12. Adjusted(d, x) => computed /\ Names(d, x)
  BY DEF Names
<1>13. ~computed /\ x.base # None => Names(d, x)
  BY DEF Names
<1>14. d.cost \in Nat \cup {None} /\ d.base \in Int /\ d.on \in BOOLEAN
  BY <1>1 DEF Docs
<1> HIDE DEF m, i, j, computed, mode, n
<1>15. c \in Nat \cup {None} /\ b \in Int
  BY <1>5, <1>6, <1>7, <1>8, <1>10, <1>12, <1>14
<1>16. Names(d, x) \/ (c \in Nat /\ b >= c) \/ (c = d.cost /\ b = d.base)
  BY <1>5, <1>6, <1>10, <1>12, <1>13
<1>17. n \in Docs /\ n.item = i /\ n.cost = c /\ n.base = b
  BY <1>2, <1>3, <1>11, <1>14, <1>15 DEF Docs
<1>18. IsDoc(n) /\ (Names(d, x) \/ Sound(n) \/ SamePrices(n, d))
  BY <1>2, <1>16, <1>17 DEF IsDoc, Sound, SamePrices
<1> QED BY <1>18 DEF n

\* What a step of administrator a leaves of the request.
LEMMA Edits ==
  ASSUME LossInv, NEW a \in Admins,
         \/ CreateBegin(a) \/ CreatePlain(a) \/ Create(a) \/ UpdateSave(a)
         \/ Detach(a) \/ Drop(a) \/ Abandon(a)
         \/ \E g \in Goods : UpdateBegin(a, g)
         \/ \E p \in Providers : DeleteBegin(a, p)
  PROVE  \E x : Edited(x) /\ admin' = [admin EXCEPT ![a] = x]
<1>1. Edited(AdminOver)
  BY DEF Edited, AdminOver, NoAdmin
<1>2. CASE Create(a) \/ UpdateSave(a) \/ Drop(a) \/ Abandon(a)
  BY <1>1, <1>2 DEF Create, UpdateSave, Drop, Abandon
<1>3. CASE CreateBegin(a)
  <2>1. PICK i \in Items, mode \in Modes, m \in Markups, base \in Asked \cup {None} :
          /\ raw[i].v # 0
          /\ base = None => /\ provider[Supplier[i]] = "active" /\ raw[i].on
                            /\ \A g \in Goods : good[g] # None => good[g].item # i
          /\ admin' = [admin EXCEPT ![a] = [NoAdmin EXCEPT !.pc = "create",
                         !.new = NewGood(i, mode, m, base), !.asked = Named(i, mode, m, base)]]
    BY <1>3, Zenon DEF CreateBegin
  <2>2. PICK n, q : n = NewGood(i, mode, m, base) /\ q = Named(i, mode, m, base)
    OBVIOUS
  <2>3. IsDoc(n) /\ (q \/ Sound(n))
    BY <2>1, <2>2, News DEF LossInv
  <2>4. Edited([NoAdmin EXCEPT !.pc = "create", !.new = n, !.asked = q])
    BY <2>3 DEF Edited, NoAdmin
  <2> QED BY <2>1, <2>2, <2>4
<1>4. CASE CreatePlain(a)
  <2>1. PICK m \in Markups, base \in Asked :
          admin' = [admin EXCEPT ![a] = [NoAdmin EXCEPT !.pc = "create", !.asked = TRUE,
                      !.new = [item |-> None, mode |-> "manual", markup |-> m, adj |-> Off,
                               cost |-> None, base |-> base, on |-> TRUE]]]
    BY <1>4 DEF CreatePlain
  <2>2. PICK n : n = [item |-> None, mode |-> "manual", markup |-> m, adj |-> Off,
                      cost |-> None, base |-> base, on |-> TRUE]
    OBVIOUS
  <2>3. IsDoc(n)
    BY <2>2, AskedAssumption DEF IsDoc, Docs, Modes
  <2>4. Edited([NoAdmin EXCEPT !.pc = "create", !.asked = TRUE, !.new = n])
    BY <2>3 DEF Edited, NoAdmin
  <2> QED BY <2>1, <2>2, <2>4
<1>5. ASSUME NEW g \in Goods, UpdateBegin(a, g)
      PROVE  \E x : Edited(x) /\ admin' = [admin EXCEPT ![a] = x]
  <2>1. PICK x \in Patches :
          /\ x.item # None => raw[x.item].v # 0
          /\ admin' = [admin EXCEPT ![a] = [NoAdmin EXCEPT !.pc = "save", !.g = g,
                         !.doc = good[g], !.new = Patched(good[g], x),
                         !.asked = Names(good[g], x)]]
    BY <1>5 DEF UpdateBegin
  <2>2. PICK d : d = good[g]
    OBVIOUS
  <2>3. IsDoc(d) /\ Has(g)
    BY <1>5, <2>2 DEF UpdateBegin, Has, LossInv, GoodsOK
  <2>4. PICK n, q : n = Patched(d, x) /\ q = Names(d, x)
    OBVIOUS
  <2>5. IsDoc(n) /\ (q \/ Sound(n) \/ SamePrices(n, d))
    BY <2>1, <2>3, <2>4, Patching DEF LossInv
  <2>6. Edited([NoAdmin EXCEPT !.pc = "save", !.g = g, !.doc = d, !.new = n, !.asked = q])
    BY <2>3, <2>5 DEF Edited, NoAdmin
  <2> QED BY <2>1, <2>2, <2>4, <2>6
<1>6. ASSUME NEW p \in Providers, DeleteBegin(a, p)
      PROVE  \E x : Edited(x) /\ admin' = [admin EXCEPT ![a] = x]
  <2>1. Edited([NoAdmin EXCEPT !.pc = "detach", !.p = p])
    BY DEF Edited, NoAdmin
  <2> QED BY <1>6, <2>1 DEF DeleteBegin
<1>7. CASE Detach(a)
  <2>1. PICK y : y = admin[a]
    OBVIOUS
  <2>2. Edited(y)
    BY <2>1 DEF LossInv, EditsOK
  <2>3. Edited([y EXCEPT !.pc = "drop"])
    BY <2>2 DEF Edited
  <2> QED BY <1>7, <2>1, <2>3 DEF Detach
<1> QED BY <1>2, <1>3, <1>4, <1>5, <1>6, <1>7

LEMMA EditsStep ==
  ASSUME LossInv, [Next]_vars
  PROVE  EditsOK'
<1>0. DOMAIN admin = Admins /\ \A a \in Admins : Edited(admin[a])
  BY DEF LossInv, EditsOK
<1>1. DOMAIN admin' = Admins /\ \A a \in Admins : Edited(admin'[a])
  <2>1. CASE UNCHANGED admin
    BY <1>0, <2>1
  <2>2. ASSUME NEW a \in Admins,
               \/ CreateBegin(a) \/ CreatePlain(a) \/ Create(a) \/ UpdateSave(a)
               \/ Detach(a) \/ Drop(a) \/ Abandon(a)
               \/ \E g \in Goods : UpdateBegin(a, g)
               \/ \E p \in Providers : DeleteBegin(a, p)
        PROVE  DOMAIN admin' = Admins /\ \A b \in Admins : Edited(admin'[b])
    <3>1. PICK x : Edited(x) /\ admin' = [admin EXCEPT ![a] = x]
      BY <2>2, Edits
    <3> QED BY <1>0, <3>1
  <2>3. ASSUME NEW g \in Goods, SetGood(g)
        PROVE  UNCHANGED admin
    BY <2>3 DEF SetGood
  <2>4. ASSUME NEW p \in Providers, SetProvider(p) \/ Reprice(p)
        PROVE  UNCHANGED admin
    BY <2>4 DEF SetProvider, Reprice
  <2>5. CASE Administers
    BY <2>1, <2>2, <2>3, <2>4, <2>5 DEF Administers
  <2>6. CASE Caches \/ Trades
    <3>1. UNCHANGED admin
      BY <2>6 DEF Caches, Trades, OrderBegin, AutoUpdate, OrderLooks, OrderConcludes,
         FetchArrives, FetchFails, Expire
    <3> QED BY <2>1, <3>1
  <2>7. CASE Synchronises
    <3>1. PICK s \in Syncs : SyncBegin(s) \/ SyncStep(s)
      BY <2>7 DEF Synchronises
    <3>2. UNCHANGED admin
      BY <3>1 DEF SyncStep, SyncBegin, SyncPush, SyncLock, SyncDone, SyncFind, SyncFetched,
         SyncFetchFails, SyncUpsert, SyncDeactivate, SyncLookup, SyncPushed, SyncEnd, Elsewhere
    <3> QED BY <2>1, <3>2
  <2>8. ASSUME NEW w \in Workers, Restart(w)
        PROVE  UNCHANGED admin
    BY <2>8 DEF Restart
  <2>9. CASE UNCHANGED vars
    BY <2>1, <2>9 DEF vars
  <2> QED BY <2>1, <2>4, <2>5, <2>6, <2>7, <2>8, <2>9, Kinds
<1>2. ASSUME NEW a \in Admins
      PROVE  Edited(admin[a])'
  <2>1. PICK x, d, n : x = admin'[a] /\ d = x.doc /\ n = x.new
    OBVIOUS
  <2>2. Edited(x)
    BY <1>1, <2>1
  <2>3. (IsDoc(d) => IsDoc(d)') /\ (IsDoc(n) => IsDoc(n)')
    BY DocStays DEF LossInv
  <2>4. Edited(x)'
    BY <2>1, <2>2, <2>3, GoodStep DEF Edited, Sound, SamePrices
  <2> QED BY <2>1, <2>4 DEF Edited
<1> QED BY <1>1, <1>2 DEF EditsOK

LEMMA LossNext ==
  ASSUME LossInv, [Next]_vars
  PROVE  LossInv'
<1>1. AdvanceInv' /\ ShapeOK'
  BY AdvanceNext, ShapeNext DEF LossInv
<1>2. GoodsOK' /\ UpdatesOK' /\ LinksOK' /\ ChecksOK' /\ EditsOK'
  BY GoodStep, UpdatesStep, LinksStep, ChecksStep, EditsStep
<1> QED BY <1>1, <1>2 DEF LossInv

\* No product with a known cost is sold below it, unless an administrator named
\* its price or saved it over one that came in the meantime, whatever
\* synchronisations, price checks and crashes come together.
THEOREM LossExplainedAlways == Spec => []LossIsExplained
<1>1. Init => LossInv
  BY LossInit
<1>2. LossInv /\ [Next]_vars => LossInv'
  BY LossNext
<1>3. LossInv => LossIsExplained
  <2> SUFFICES ASSUME LossInv, NEW g \in Goods, good[g] # None, good[g].cost # None,
                      good[g].base < good[g].cost
               PROVE  g \in torn \cup asked
    BY DEF LossIsExplained
  <2>1. good[g] \in Docs /\ (Sound(good[g]) \/ g \in torn \cup asked)
    BY DEF LossInv, GoodsOK, Has, IsDoc
  <2>2. good[g].cost \in Nat /\ good[g].base \in Int
    BY <2>1 DEF Docs
  <2> QED BY <2>1, <2>2 DEF Sound
<1> QED BY <1>1, <1>2, <1>3, PTL DEF Spec
=============================================================================
