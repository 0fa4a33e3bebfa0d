------------------------------ MODULE Catalogue ------------------------------
(***************************************************************************)
(* The provider catalogue and the prices of the platform's products: the   *)
(* synchronisation of providers, the price check of an order with its      *)
(* in-memory cache, and the administration of providers and products.      *)
(*                                                                         *)
(* A provider's price list goes through versions.  A price that was read   *)
(* from it is represented by its version, the prices of our own products   *)
(* by numbers.  The locks and caches are those of a worker: a process of   *)
(* the server, of which the deployment may start several.                  *)
(***************************************************************************)
EXTENDS Integers, FiniteSets

CONSTANTS
  Workers,      \* the processes of the server
  Providers,    \* the providers
  Items,        \* what providers offer: ProviderProduct documents
  Supplier,     \* the provider of each item
  LastVersion,  \* bound: the versions of a price list are 1..LastVersion
  Offer,        \* what each version of a list says of an item
  Goods,        \* identities of platform products
  Syncs,        \* requests for a synchronisation, and runs of the job
  Orders,       \* orders to be checked
  Admins,       \* administrators' requests
  Host,         \* the worker that serves a synchronisation or an order
  Markups,      \* markups in use
  Patches,      \* updates of a product that administrators send
  Asked,        \* base prices that administrators name
  MaxCrashes,   \* bound: crashes of workers
  Off,          \* no adjustment of a manual price
  None          \* nothing

Versions == 1..LastVersion
Modes    == {"manual", "sync"}

\* A version lists an item or not, at a price, as available or not.
OfferSet == [listed: BOOLEAN, price: Nat, on: BOOLEAN]

ASSUME SupplierAssumption == Supplier \in [Items -> Providers] /\ None \notin Items
ASSUME VersionAssumption  == LastVersion \in Nat \ {0}
ASSUME OfferAssumption    == Offer \in [Items -> [Versions -> OfferSet]]
ASSUME HostAssumption     == Host \in [Syncs \cup Orders -> Workers]
ASSUME MarkupAssumption   == Markups \subseteq [type: {"percentage", "fixed"}, value: Nat]
ASSUME AskedAssumption    == Asked \subseteq Nat \ {0} /\ None \notin Int /\ Off \notin Int /\ Off # None
ASSUME CrashAssumption    == MaxCrashes \in Nat

\* The body of an update: None where a field is absent.  `flag` is
\* syncPriceWithProvider, `adj` the adjustment of a manual price.
PatchSet == [item: Items \cup {None}, mode: Modes \cup {None}, flag: {"keep", "on", "off"},
             markup: Markups \cup {None}, base: Asked \cup {None}, adj: Int \cup {Off, None}]

ASSUME PatchAssumption == Patches \subseteq PatchSet

Price(i, v)  == Offer[i][v].price
Listing(p, v) == {i \in Items : Supplier[i] = p /\ Offer[i][v].listed}

\* A product document.  One with an item is executed automatically, by the
\* item's provider; one that was deleted or switched off is not `on`.
Docs == [item: Items \cup {None}, mode: Modes, markup: Markups, adj: Int \cup {Off},
         cost: Nat \cup {None}, base: Int, on: BOOLEAN]

ASSUME NoDocAssumption == None \notin Docs

\* A price list's item as it is stored; `by` is history: the worker that wrote it.
Raws == [v: 0..LastVersion, on: BOOLEAN, by: Workers \cup {None}]

VARIABLES
  version,   \* the version of each provider's list that its API answers with
  provider,  \* status of the Provider documents
  raw,       \* ProviderProduct documents: the version they hold, 0 without one
  good,      \* Product documents
  up,        \* workers that do not shut down
  crashes,   \* number of crashes so far
  locks,     \* _syncLocks of each worker
  running,   \* workers in which the synchronisation job runs
  cache,     \* _cache of each worker: the version it holds, 0 for none or expired
  flights,   \* fetches for the cache under way: the version when they began
  updates,   \* writes of _autoUpdateProductPrice under way
  sync,      \* state of each synchronisation
  order,     \* state of each order's check
  admin,     \* state of each administrator's request
  served,    \* history: the version last answered from a worker's cache
  torn,      \* history: products saved over a price that came meanwhile
  asked      \* history: products whose price an administrator named

memory  == <<locks, running, cache, flights, updates>>
ghosts  == <<served, torn, asked>>
vars    == <<version, provider, raw, good, up, crashes, memory, sync, order, admin, ghosts>>

SyncPCs == {"idle", "next", "find", "fetch", "upsert", "push", "write", "done"}
Linked  == [g: Goods, markup: Markups]
\* What _autoUpdateProductPrice writes: w is the worker it runs in.
Updates == [w: Workers, g: Goods, cost: Nat, base: Nat]

SyncSet  == [pc: SyncPCs, job: BOOLEAN, queue: SUBSET Providers, p: Providers, v: Versions,
             todo: SUBSET Items, seen: SUBSET Items, item: Items, linked: SUBSET Linked]
OrderSet == [pc: {"idle", "check", "wait", "answered", "done"}, v: 0..LastVersion, g: Goods,
             doc: Docs \cup {None}]
AdminSet == [pc: {"idle", "save", "create", "detach", "drop", "done"}, p: Providers, g: Goods,
             doc: Docs \cup {None}, new: Docs \cup {None}, asked: BOOLEAN]

TypeOK ==
  /\ version \in [Providers -> Versions]
  /\ provider \in [Providers -> {"active", "inactive", "gone"}]
  /\ raw \in [Items -> Raws] /\ good \in [Goods -> Docs \cup {None}]
  /\ up \subseteq Workers /\ crashes \in 0..MaxCrashes
  /\ locks \subseteq Workers \X Providers /\ running \subseteq Workers
  /\ cache \in [Workers \X Providers -> 0..LastVersion]
  /\ flights \in [Workers \X Providers -> SUBSET Versions]
  /\ updates \subseteq Updates
  /\ sync \in [Syncs -> SyncSet] /\ order \in [Orders -> OrderSet]
  /\ admin \in [Admins -> AdminSet]
  /\ served \in [Workers \X Providers -> 0..LastVersion]
  /\ torn \subseteq Goods /\ asked \subseteq Goods

NoSync  == [pc |-> "idle", job |-> FALSE, queue |-> {}, p |-> CHOOSE p \in Providers : TRUE,
            v |-> 1, todo |-> {}, seen |-> {}, item |-> CHOOSE i \in Items : TRUE, linked |-> {}]
NoOrder == [pc |-> "idle", v |-> 0, g |-> CHOOSE g \in Goods : TRUE, doc |-> None]
NoAdmin == [pc |-> "idle", p |-> CHOOSE p \in Providers : TRUE, g |-> CHOOSE g \in Goods : TRUE,
            doc |-> None, new |-> None, asked |-> FALSE]

\* What is left of a request that ended.
SyncOver  == [NoSync EXCEPT !.pc = "done"]
OrderOver == [NoOrder EXCEPT !.pc = "done"]
AdminOver == [NoAdmin EXCEPT !.pc = "done"]

\* computeFinalPrice, and the provider's price itself when that is not
\* positive.  The prices are strings of up to 50 decimals; here they are whole
\* units, of which a percentage rounds down.
MarkUp(price, m) ==
  IF price = 0 THEN 0
  ELSE IF m.type = "fixed" THEN price + m.value
  ELSE price + (price * m.value) \div 100

\* A product that was published when its item was at version 1.
FirstGood(i, mode, m) ==
  [item |-> i, mode |-> mode, markup |-> m, adj |-> Off, cost |-> Price(i, 1), on |-> TRUE,
   base |-> MarkUp(Price(i, 1), m)]

Init ==
  /\ version = [p \in Providers |-> 1]
  /\ provider = [p \in Providers |-> "active"]
  /\ \/ raw = [i \in Items |-> [v |-> 0, on |-> FALSE, by |-> None]] /\ good = [g \in Goods |-> None]
     \/ /\ raw = [i \in Items |-> [v |-> IF Offer[i][1].listed THEN 1 ELSE 0,
                                 on |-> Offer[i][1].on, by |-> None]]
        /\ good \in [Goods -> {None} \cup {FirstGood(i, mode, m) : 
              i \in {j \in Items : Offer[j][1].listed}, mode \in Modes, m \in Markups}]
  /\ up = Workers /\ crashes = 0
  /\ locks = {} /\ running = {} /\ updates = {}
  /\ cache = [k \in Workers \X Providers |-> 0]
  /\ flights = [k \in Workers \X Providers |-> {}]
  /\ sync = [s \in Syncs |-> NoSync] /\ order = [o \in Orders |-> NoOrder]
  /\ admin = [a \in Admins |-> NoAdmin]
  /\ served = [k \in Workers \X Providers |-> 0]
  /\ torn = {} /\ asked = {}

-----------------------------------------------------------------------------
(* Prices.                                                                 *)

\* The price an item's document holds.
RawPrice(i) == Price(i, raw[i].v)

-----------------------------------------------------------------------------
(* Synchronisation of providers.                                           *)

InSync(s)   == sync[s].pc \notin {"idle", "next", "done"}
Lock(s)     == <<Host[s], sync[s].p>>
To(s, pc)   == sync' = [sync EXCEPT ![s].pc = pc]

\* What only a synchronisation does not touch.
Elsewhere == UNCHANGED <<version, provider, up, crashes, cache, flights, updates, order, admin,
                         served, asked>>

\* An administrator synchronises one provider or all, or the job's timer ticks.
SyncBegin(s) ==
  /\ sync[s].pc = "idle" /\ Host[s] \in up
  /\ \E j \in BOOLEAN, q \in SUBSET Providers :
       /\ \/ q \subseteq {p \in Providers : provider[p] = "active"}
          \/ Cardinality(q) = 1 /\ ~j
       /\ j => Host[s] \notin running
       /\ running' = IF j THEN running \cup {Host[s]} ELSE running
       /\ sync' = [sync EXCEPT ![s] = [NoSync EXCEPT !.pc = "next", !.job = j, !.queue = q]]
  /\ UNCHANGED <<raw, good, locks, torn>> /\ Elsewhere

\* Mutant: no lock is looked for.
SyncLockUnguarded(s) ==
  /\ sync[s].pc = "next"
  /\ \E p \in sync[s].queue :
       /\ sync' = [sync EXCEPT ![s] = [NoSync EXCEPT !.pc = "find", !.p = p, !.job = sync[s].job,
                                        !.queue = sync[s].queue \ {p}]]
       /\ locks' = locks \cup {<<Host[s], p>>}
  /\ UNCHANGED <<raw, good, running, torn>> /\ Elsewhere

\* The lock is taken before anything is awaited.  A provider that is being
\* synchronised already is an error of this caller.
SyncLock(s) ==
  /\ sync[s].pc = "next"
  /\ \E p \in sync[s].queue :
       LET rest == [NoSync EXCEPT !.pc = "next", !.job = sync[s].job,
                                  !.queue = sync[s].queue \ {p}] IN
       IF <<Host[s], p>> \in locks
       THEN sync' = [sync EXCEPT ![s] = rest] /\ UNCHANGED locks
       ELSE /\ sync' = [sync EXCEPT ![s] = [rest EXCEPT !.pc = "find", !.p = p]]
            /\ locks' = locks \cup {<<Host[s], p>>}
  /\ UNCHANGED <<raw, good, running, torn>> /\ Elsewhere

\* All providers are done; the job is ready for its next tick.
SyncDone(s) ==
  /\ sync[s].pc = "next" /\ sync[s].queue = {}
  /\ sync' = [sync EXCEPT ![s] = SyncOver]
  /\ running' = IF sync[s].job THEN running \ {Host[s]} ELSE running
  /\ UNCHANGED <<raw, good, locks, torn>> /\ Elsewhere

\* The end of a provider, by the finally clause: done, or an error.
Release(s) ==
  /\ To(s, "next")
  /\ locks' = locks \ {Lock(s)}

\* Mutant: an inactive provider is left without the finally clause.
SyncFindLeaks(s) ==
  /\ sync[s].pc = "find"
  /\ IF provider[sync[s].p] = "active"
     THEN sync' = [sync EXCEPT ![s] = [sync[s] EXCEPT !.pc = "fetch", !.v = version[sync[s].p]]]
     ELSE To(s, "next")
  /\ UNCHANGED <<raw, good, locks, running, torn>> /\ Elsewhere

\* Finds the provider and, if it is active, asks it for its list.
SyncFind(s) ==
  /\ sync[s].pc = "find"
  /\ IF provider[sync[s].p] = "active"
     THEN /\ sync' = [sync EXCEPT ![s] = [sync[s] EXCEPT !.pc = "fetch", !.v = version[sync[s].p]]]
          /\ UNCHANGED locks
     ELSE Release(s)
  /\ UNCHANGED <<raw, good, running, torn>> /\ Elsewhere

\* The list arrives, as it was at some time since it was asked for.  An empty
\* one changes nothing.
SyncFetched(s) ==
  /\ sync[s].pc = "fetch"
  /\ \E v \in sync[s].v..version[sync[s].p] :
       LET todo == Listing(sync[s].p, v) IN
       sync' = [sync EXCEPT ![s] = [sync[s] EXCEPT !.v = v, !.todo = todo,
                                      !.pc = IF todo = {} THEN "push" ELSE "upsert"]]
  /\ UNCHANGED <<raw, good, locks, running, torn>> /\ Elsewhere

\* The provider does not answer, or with a malformed list.
SyncFetchFails(s) ==
  /\ sync[s].pc = "fetch"
  /\ Release(s)
  /\ UNCHANGED <<raw, good, running, torn>> /\ Elsewhere

\* The items are written concurrently; each may fail for itself.
SyncUpsert(s) ==
  /\ sync[s].pc = "upsert"
  /\ \E i \in sync[s].todo :
       \/ /\ raw' = [raw EXCEPT ![i] = [v |-> sync[s].v, on |-> Offer[i][sync[s].v].on,
                                        by |-> Host[s]]]
          /\ sync' = [sync EXCEPT ![s] = [sync[s] EXCEPT !.todo = @ \ {i}, !.seen = @ \cup {i}]]
       \/ /\ sync' = [sync EXCEPT ![s] = [sync[s] EXCEPT !.todo = @ \ {i}]]
          /\ UNCHANGED raw
  /\ UNCHANGED <<good, locks, running, torn>> /\ Elsewhere

\* Items of the provider that were not written are switched off.
SyncDeactivate(s) ==
  /\ sync[s].pc = "upsert" /\ sync[s].todo = {}
  /\ \/ raw' = [i \in Items |-> IF Supplier[i] = sync[s].p /\ i \notin sync[s].seen
                                THEN [raw[i] EXCEPT !.on = FALSE] ELSE raw[i]]
     \/ UNCHANGED raw
  /\ sync' = [sync EXCEPT ![s] = [sync[s] EXCEPT !.pc = "push", !.todo = sync[s].seen]]
  /\ UNCHANGED <<good, locks, running, torn>> /\ Elsewhere

\* Looks up the products in sync mode that are linked to one of the items.
SyncLookup(s) ==
  /\ sync[s].pc = "push"
  /\ \E i \in sync[s].todo :
       \/ sync' = [sync EXCEPT ![s] = [sync[s] EXCEPT !.pc = "write", !.item = i, !.todo = @ \ {i},
            !.linked = {[g |-> g, markup |-> good[g].markup] :
                          g \in {h \in Goods : good[h] # None /\ good[h].item = i
                                                              /\ good[h].mode = "sync"}}]]
       \/ sync' = [sync EXCEPT ![s] = [sync[s] EXCEPT !.todo = @ \ {i}]]
  /\ UNCHANGED <<raw, good, locks, running, torn>> /\ Elsewhere

\* Mutant: the cost is updated without the price.
SyncPushCost(s) ==
  /\ sync[s].pc = "write"
  /\ \E x \in sync[s].linked :
       /\ good' = [good EXCEPT ![x.g] = [good[x.g] EXCEPT !.cost = Price(sync[s].item, sync[s].v)]]
       /\ sync' = [sync EXCEPT ![s] = [sync[s] EXCEPT !.linked = @ \ {x}]]
  /\ UNCHANGED <<version, provider, raw, up, crashes, memory, order, admin, ghosts>>

\* Writes cost and price of one of them, with the markup that was looked up.
SyncPush(s) ==
  /\ sync[s].pc = "write"
  /\ \E x \in sync[s].linked :
       LET cost == Price(sync[s].item, sync[s].v) IN
       /\ good' = [good EXCEPT ![x.g] = [good[x.g] EXCEPT !.cost = cost,
                                                          !.base = MarkUp(cost, x.markup)]]
       /\ torn' = torn \ {x.g} /\ asked' = asked \ {x.g}
       /\ sync' = [sync EXCEPT ![s] = [sync[s] EXCEPT !.linked = @ \ {x}]]
  /\ UNCHANGED <<version, provider, raw, up, crashes, memory, order, admin, served>>

\* All are written, or an error skips the rest of them.
SyncPushed(s) ==
  /\ sync[s].pc = "write"
  /\ sync' = [sync EXCEPT ![s] = [sync[s] EXCEPT !.pc = "push", !.linked = {}]]
  /\ UNCHANGED <<raw, good, locks, running, torn>> /\ Elsewhere

SyncEnd(s) ==
  /\ sync[s].pc = "push" /\ sync[s].todo = {}
  /\ Release(s)
  /\ UNCHANGED <<raw, good, running, torn>> /\ Elsewhere

SyncStep(s) ==
  \/ SyncLock(s) \/ SyncDone(s) \/ SyncFind(s) \/ SyncFetched(s) \/ SyncFetchFails(s)
  \/ SyncUpsert(s) \/ SyncDeactivate(s) \/ SyncLookup(s) \/ SyncPush(s) \/ SyncPushed(s)
  \/ SyncEnd(s)

-----------------------------------------------------------------------------
(* The price check of an order, and the cache of price lists.              *)

Key(o)      == <<Host[o], Supplier[order[o].doc.item]>>
Answer(o, v) == order' = [order EXCEPT ![o] = [order[o] EXCEPT !.pc = "answered", !.v = v]]

\* An order of a product that is executed by an active provider is checked;
\* the others have nothing to do with the catalogue.  (Two consecutive reads
\* of the product are one step.)
OrderBegin(o, g) ==
  /\ order[o].pc = "idle" /\ Host[o] \in up
  /\ good[g] # None
  /\ good[g].on /\ good[g].item # None
  /\ provider[Supplier[good[g].item]] = "active"
  /\ order' = [order EXCEPT ![o] = [NoOrder EXCEPT !.pc = "check", !.g = g, !.doc = good[g]]]
  /\ UNCHANGED <<version, provider, raw, good, up, crashes, memory, sync, admin, ghosts>>

\* Mutant: every order starts a fetch of its own.
OrderLooksEagerly(o) ==
  LET k == Key(o) IN
  /\ order[o].pc = "check"
  /\ IF cache[k] # 0
     THEN Answer(o, cache[k]) /\ served' = [served EXCEPT ![k] = cache[k]] /\ UNCHANGED flights
     ELSE /\ order' = [order EXCEPT ![o] = [order[o] EXCEPT !.pc = "wait"]]
          /\ flights' = [flights EXCEPT ![k] = @ \cup {version[k[2]]}]
          /\ UNCHANGED served
  /\ UNCHANGED <<version, provider, raw, good, up, crashes, locks, running, cache, updates,
                 sync, admin, torn, asked>>

\* getLivePrice: answers from the cache, or waits for a fetch of the list,
\* which it starts unless one is under way.
OrderLooks(o) ==
  LET k == Key(o) IN
  /\ order[o].pc = "check"
  /\ IF cache[k] # 0
     THEN /\ Answer(o, cache[k]) /\ served' = [served EXCEPT ![k] = cache[k]]
          /\ UNCHANGED flights
     ELSE /\ order' = [order EXCEPT ![o] = [order[o] EXCEPT !.pc = "wait"]]
          /\ flights' = IF flights[k] = {} THEN [flights EXCEPT ![k] = {version[k[2]]}] ELSE flights
          /\ UNCHANGED served
  /\ UNCHANGED <<version, provider, raw, good, up, crashes, locks, running, cache, updates,
                 sync, admin, torn, asked>>

\* All who wait for a list at a worker get the answer v.
Deliver(k, v) ==
  order' = [o \in Orders |-> IF order[o].pc = "wait" /\ Key(o) = k
                             THEN [order[o] EXCEPT !.pc = "answered", !.v = v] ELSE order[o]]

\* The list arrives, is cached and answers.
FetchArrives(k) ==
  /\ \E s \in flights[k] : \E v \in s..version[k[2]] :
       /\ cache' = [cache EXCEPT ![k] = v]
       /\ flights' = [flights EXCEPT ![k] = @ \ {s}]
       /\ served' = [served EXCEPT ![k] = v]
       /\ Deliver(k, v)
  /\ UNCHANGED <<version, provider, raw, good, up, crashes, locks, running, updates, sync,
                 admin, torn, asked>>

\* The fetch fails.  Orders go on without an answer, but the promise of the
\* cleanup, which nobody handles, is rejected as well: the server shuts down.
FetchFails(k) ==
  /\ \E s \in flights[k] : flights' = [flights EXCEPT ![k] = @ \ {s}]
  /\ Deliver(k, 0)
  /\ up' = up \ {k[1]}
  /\ UNCHANGED <<version, provider, raw, good, crashes, locks, running, cache, updates, sync,
                 admin, ghosts>>

\* After CACHE_TTL_MS an entry no longer answers.
Expire(k) ==
  /\ cache[k] # 0
  /\ cache' = [cache EXCEPT ![k] = 0]
  /\ UNCHANGED <<version, provider, raw, good, up, crashes, locks, running, flights, updates,
                 sync, order, admin, ghosts>>

\* The order is refused if the answer lists the item at more than the
\* product's cost: the product's prices are written in the background and the
\* cache entry is dropped.  Otherwise the order goes on.
OrderConcludes(o) ==
  LET d == order[o].doc
      v == order[o].v
      increased == /\ v # 0 /\ d.cost # None
                   /\ Offer[d.item][v].listed /\ Price(d.item, v) > d.cost
  IN
  /\ order[o].pc = "answered"
  /\ IF increased
     THEN /\ updates' = updates \cup
               {[w |-> Host[o], g |-> order[o].g, cost |-> Price(d.item, v),
                 base |-> MarkUp(Price(d.item, v), d.markup)]}
          /\ cache' = [cache EXCEPT ![Key(o)] = 0]
     ELSE UNCHANGED <<updates, cache>>
  /\ order' = [order EXCEPT ![o] = OrderOver]
  /\ UNCHANGED <<version, provider, raw, good, up, crashes, locks, running, flights, sync,
                 admin, ghosts>>

\* _autoUpdateProductPrice: the write, which may fail silently.
AutoUpdate(u) ==
  /\ u \in updates
  /\ updates' = updates \ {u}
  /\ \/ /\ good' = [good EXCEPT ![u.g] = [good[u.g] EXCEPT !.cost = u.cost, !.base = u.base]]
        /\ torn' = torn \ {u.g} /\ asked' = asked \ {u.g}
     \/ UNCHANGED <<good, torn, asked>>
  /\ UNCHANGED <<version, provider, raw, up, crashes, locks, running, cache, flights, sync,
                 order, admin, served>>

-----------------------------------------------------------------------------
(* Administration of providers and products.                               *)

AdminElsewhere == UNCHANGED <<version, raw, up, crashes, memory, sync, order, served>>

\* A product of item i, in a mode and with a markup, when base is what the
\* administrator named, or None.
Named(i, mode, m, base) ==
  /\ base # None
  /\ IF mode = "sync" \/ m.value > 0 THEN MarkUp(RawPrice(i), m) = 0 ELSE TRUE
NewGood(i, mode, m, base) ==
  [item |-> i, mode |-> mode, markup |-> m, adj |-> Off, cost |-> RawPrice(i), on |-> TRUE,
   base |-> IF Named(i, mode, m, base) THEN base
            ELSE IF mode = "sync" \/ m.value > 0 THEN MarkUp(RawPrice(i), m)
            ELSE RawPrice(i)]

\* publishFromProviderProduct, and createProduct with an item, which demands a
\* base price but nothing of the item: the reads and checks.
CreateBegin(a) ==
  /\ admin[a].pc = "idle"
  /\ \E i \in Items, mode \in Modes, m \in Markups, base \in Asked \cup {None} :
       /\ raw[i].v # 0
       /\ base = None => /\ provider[Supplier[i]] = "active" /\ raw[i].on
                         /\ \A g \in Goods : good[g] # None => good[g].item # i
       /\ admin' = [admin EXCEPT ![a] = [NoAdmin EXCEPT !.pc = "create",
                      !.new = NewGood(i, mode, m, base), !.asked = Named(i, mode, m, base)]]
  /\ UNCHANGED <<provider, good, torn, asked>> /\ AdminElsewhere

\* createProduct without an item.
CreatePlain(a) ==
  /\ admin[a].pc = "idle"
  /\ \E m \in Markups, base \in Asked :
       admin' = [admin EXCEPT ![a] = [NoAdmin EXCEPT !.pc = "create", !.asked = TRUE,
                   !.new = [item |-> None, mode |-> "manual", markup |-> m, adj |-> Off,
                            cost |-> None, base |-> base, on |-> TRUE]]]
  /\ UNCHANGED <<provider, good, torn, asked>> /\ AdminElsewhere

\* The product is stored.
Create(a) ==
  /\ admin[a].pc = "create"
  /\ \E g \in Goods :
       /\ good[g] = None
       /\ good' = [good EXCEPT ![g] = admin[a].new]
       /\ asked' = IF admin[a].asked THEN asked \cup {g} ELSE asked
  /\ admin' = [admin EXCEPT ![a] = AdminOver]
  /\ UNCHANGED <<provider, torn>> /\ AdminElsewhere

\* updateProduct: what it makes of the product it read.  The mode is taken
\* from syncPriceWithProvider only after the price was computed.
Relinks(d, x)  == x.item # None /\ x.item # d.item
ModeOf(d, x)   == IF x.mode = None THEN d.mode ELSE x.mode
Reprices(d, x) == /\ ~Relinks(d, x) /\ d.item # None
                  /\ \/ x.markup # None
                     \/ x.mode = "sync" /\ d.mode = "manual"
Adjusted(d, x) == /\ ~Relinks(d, x) /\ d.item # None
                  /\ IF x.adj = None THEN d.adj # Off ELSE x.adj # Off
Names(d, x)    == \/ Adjusted(d, x)
                  \/ ~Relinks(d, x) /\ ~Reprices(d, x) /\ x.base # None
Patched(d, x) ==
  LET m == IF x.markup = None THEN d.markup ELSE x.markup
      i == IF x.item = None THEN d.item ELSE x.item
      j == IF x.adj = None THEN d.adj ELSE x.adj
      computed == Relinks(d, x) \/ Reprices(d, x) \/ Adjusted(d, x)
  IN [item |-> i, markup |-> m, adj |-> j, on |-> d.on,
      mode |-> IF x.flag = "keep" \/ x.mode # None THEN ModeOf(d, x)
               ELSE IF x.flag = "on" THEN "sync" ELSE "manual",
      cost |-> IF computed THEN RawPrice(i) ELSE d.cost,
      base |-> IF Adjusted(d, x) THEN RawPrice(i) + j
               ELSE IF computed THEN MarkUp(RawPrice(i), m)
               ELSE IF x.base # None THEN x.base ELSE d.base]

UpdateBegin(a, g) ==
  /\ admin[a].pc = "idle" /\ good[g] # None
  /\ \E x \in Patches :
       LET d == good[g] IN
       /\ x.item # None => raw[x.item].v # 0
       /\ admin' = [admin EXCEPT ![a] = [NoAdmin EXCEPT !.pc = "save", !.g = g, !.doc = d,
                      !.new = Patched(d, x), !.asked = Names(d, x)]]
  /\ UNCHANGED <<provider, good, torn, asked>> /\ AdminElsewhere

\* Mongoose writes the fields that differ from those it read.
Merged(now, read, new) == [f \in DOMAIN now |-> IF new[f] # read[f] THEN new[f] ELSE now[f]]
SamePrices(d, e)       == d.cost = e.cost /\ d.base = e.base

UpdateSave(a) ==
  LET g     == admin[a].g
      read  == admin[a].doc
      new   == admin[a].new
      late == ~SamePrices(good[g], read) IN
  /\ admin[a].pc = "save"
  /\ good' = [good EXCEPT ![g] = Merged(good[g], read, new)]
  /\ IF SamePrices(new, read) THEN UNCHANGED <<torn, asked>>
     ELSE /\ torn' = IF late THEN torn \cup {g} ELSE torn \ {g}
          /\ asked' = IF admin[a].asked THEN asked \cup {g}
                      ELSE IF late THEN asked ELSE asked \ {g}
  /\ admin' = [admin EXCEPT ![a] = AdminOver]
  /\ UNCHANGED provider /\ AdminElsewhere

\* toggleProductStatus, deleteProduct and isActive in an update: concurrent
\* ones may leave it either way.
SetGood(g) ==
  /\ good[g] # None
  /\ good' = [good EXCEPT ![g] = [good[g] EXCEPT !.on = ~@]]
  /\ UNCHANGED <<provider, admin, torn, asked>> /\ AdminElsewhere

\* updateProvider and toggleProvider, likewise.
SetProvider(p) ==
  /\ provider[p] # "gone"
  /\ provider' = [provider EXCEPT ![p] = IF @ = "active" THEN "inactive" ELSE "active"]
  /\ UNCHANGED <<good, admin, torn, asked>> /\ AdminElsewhere

\* deleteProvider: the read, the detachment of its products, the removal.
DeleteBegin(a, p) ==
  /\ admin[a].pc = "idle" /\ provider[p] # "gone"
  /\ admin' = [admin EXCEPT ![a] = [NoAdmin EXCEPT !.pc = "detach", !.p = p]]
  /\ UNCHANGED <<provider, good, torn, asked>> /\ AdminElsewhere

Detached(d) == [item |-> None, mode |-> "manual", markup |-> d.markup, adj |-> Off,
                cost |-> None, base |-> d.base, on |-> d.on]

Detach(a) ==
  /\ admin[a].pc = "detach"
  /\ good' = [g \in Goods |->
       IF good[g] # None /\ good[g].item \in {i \in Items : Supplier[i] = admin[a].p}
       THEN Detached(good[g]) ELSE good[g]]
  /\ admin' = [admin EXCEPT ![a] = [admin[a] EXCEPT !.pc = "drop"]]
  /\ UNCHANGED <<provider, torn, asked>> /\ AdminElsewhere

Drop(a) ==
  /\ admin[a].pc = "drop"
  /\ provider' = [provider EXCEPT ![admin[a].p] = "gone"]
  /\ admin' = [admin EXCEPT ![a] = AdminOver]
  /\ UNCHANGED <<good, torn, asked>> /\ AdminElsewhere

\* A request ends early, with a database error or its process.
Abandon(a) ==
  /\ admin[a].pc \notin {"idle", "done"}
  /\ admin' = [admin EXCEPT ![a] = AdminOver]
  /\ UNCHANGED <<provider, good, torn, asked>> /\ AdminElsewhere

-----------------------------------------------------------------------------
(* The providers and the processes.                                        *)

\* A provider changes its list.
Reprice(p) ==
  /\ version[p] < LastVersion
  /\ version' = [version EXCEPT ![p] = @ + 1]
  /\ UNCHANGED <<provider, raw, good, up, crashes, memory, sync, order, admin, ghosts>>

\* A worker that shut down, or one that crashed, is started again: what it
\* kept in memory is lost, with everything it was doing.
Restart(w) ==
  /\ \/ w \notin up /\ UNCHANGED crashes
     \/ w \in up /\ crashes < MaxCrashes /\ crashes' = crashes + 1
  /\ up' = up \cup {w}
  /\ locks' = {k \in locks : k[1] # w} /\ running' = running \ {w}
  /\ cache' = [k \in DOMAIN cache |-> IF k[1] = w THEN 0 ELSE cache[k]]
  /\ flights' = [k \in DOMAIN flights |-> IF k[1] = w THEN {} ELSE flights[k]]
  /\ updates' = {u \in updates : u.w # w}
  /\ sync' = [s \in Syncs |-> IF Host[s] = w /\ sync[s].pc # "idle"
                                THEN SyncOver ELSE sync[s]]
  /\ order' = [o \in Orders |-> IF Host[o] = w /\ order[o].pc # "idle"
                                  THEN OrderOver ELSE order[o]]
  /\ UNCHANGED <<version, provider, raw, good, admin, ghosts>>

Next ==
  \/ \E s \in Syncs : SyncBegin(s) \/ SyncStep(s)
  \/ \E o \in Orders : (\E g \in Goods : OrderBegin(o, g)) \/ OrderLooks(o) \/ OrderConcludes(o)
  \/ \E k \in Workers \X Providers : FetchArrives(k) \/ FetchFails(k) \/ Expire(k)
  \/ \E u \in updates : AutoUpdate(u)
  \/ \E a \in Admins : \/ CreateBegin(a) \/ CreatePlain(a) \/ Create(a) \/ UpdateSave(a)
                       \/ Detach(a) \/ Drop(a) \/ Abandon(a)
                       \/ \E g \in Goods : UpdateBegin(a, g)
                       \/ \E p \in Providers : DeleteBegin(a, p)
  \/ \E g \in Goods : SetGood(g)
  \/ \E p \in Providers : SetProvider(p) \/ Reprice(p)
  \/ \E w \in Workers : Restart(w)

Spec == Init /\ [][Next]_vars

-----------------------------------------------------------------------------
(* Properties.                                                             *)

\* A worker never replaces prices that it stored by older ones: of two
\* synchronisations that overlap the one that asked first could write last, had
\* the provider no lock.  Two workers may, since each has its own locks.
StoredPricesAdvance ==
  [][\A i \in Items : raw'[i].v < raw[i].v => raw'[i].by # raw[i].by]_vars

\* What a worker answers about a provider's prices is never older than what
\* it answered before, though entries expire, are dropped after an increase,
\* and may be dropped while a fetch is under way.
AnswersAdvance == [][\A k \in Workers \X Providers : served'[k] >= served[k]]_vars

\* A product with a known cost is not sold below it, unless an administrator
\* named the price or saved it over one that came in the meantime.
LossIsExplained ==
  \A g \in Goods : /\ good[g] # None /\ good[g].cost # None
                   /\ good[g].base < good[g].cost
                   => g \in torn \cup asked

\* A lock, or the mark that the job runs, never outlives the run it was taken
\* for, whatever fails in it: nothing but a restart would take it back, and
\* the provider would not be synchronised any more.
LocksHeld ==
  /\ \A k \in locks : \E s \in Syncs : InSync(s) /\ Lock(s) = k
  /\ \A w \in running : \E s \in Syncs : sync[s].job /\ Host[s] = w
=============================================================================
