-------------------------- MODULE CurrenciesProofs --------------------------
(* Theorems about Currencies, for any number of calls, processes,          *)
(* customers and currencies.                                               *)
EXTENDS Currencies, SequenceTheorems, TLAPS

-----------------------------------------------------------------------------
(* Type correctness.                                                       *)

\* A conversion that is under way still needs a rate.
Needy == \A c \in Calls : pc[c] \in {"rate", "fill"} => todo[c] # <<>>

\* A switch that reads rates has read the currency of its user.
Owned == \A c \in Calls : At(c, "switch", "target") \/ At(c, "switch", "source") => own[c] \in Codes

TypeInv == TypeOK /\ Needy /\ Owned

\* What a call was asked to do names a user, a currency and a rate.
LEMMA JobType ==
  ASSUME TypeOK, NEW c \in Calls
  PROVE  Code(c) \in Codes /\ User(c) \in Users /\ job[c].rate \in Rates \cup {1}
BY JobsAssumption DEF TypeOK, JobSet, Code, User

\* A document of the collection, and the documents that are made from it.
LEMMA DocType ==
  ASSUME TypeOK, NEW k \in Codes, currencies[k] # NoDoc,
         NEW r \in Rates \cup {1}, NEW b \in BOOLEAN, NEW c \in Calls
  PROVE  /\ currencies[k] \in Docs
         /\ [id |-> currencies[k].id, rate |-> r, active |-> currencies[k].active] \in Docs
         /\ [id |-> currencies[k].id, rate |-> currencies[k].rate, active |-> b] \in Docs
         /\ [id |-> c, rate |-> r, active |-> b] \in Docs
BY DEF TypeOK, Docs

\* The next rate a conversion needs is that of a currency, and taking it
\* leaves a sequence of currencies.
LEMMA TodoType ==
  ASSUME TypeInv, NEW c \in Calls, pc[c] \in {"rate", "fill"}
  PROVE  /\ Head(todo[c]) \in Codes /\ Tail(todo[c]) \in Seq(Codes)
         /\ Len(todo[c]) # 1 => Tail(todo[c]) # <<>>
<1>1. todo[c] \in Seq(Codes) /\ todo[c] # <<>>
  BY DEF TypeInv, TypeOK, Needy
<1>2. Len(Tail(todo[c])) = Len(todo[c]) - 1 /\ Len(todo[c]) \in Nat \ {0}
  BY <1>1, HeadTailProperties, EmptySeq
<1>3. ASSUME Tail(todo[c]) = <<>> PROVE Len(todo[c]) = 1
  <2>1. Len(<<>>) = 0
    BY EmptySeq
  <2>2. Len(Tail(todo[c])) = 0
    BY <1>3, <2>1, Zenon
  <2> QED
    BY <1>2, <2>2
<1> QED
  BY <1>1, <1>3, HeadTailProperties

\* One call moves on, and either not to the reads of a switch or with the
\* currency of its user known.
LEMMA OwnedStays ==
  ASSUME TypeInv, NEW c \in Calls, NEW step, Go(c, step), UNCHANGED job,
         \A d \in Calls : d # c => own'[d] = own[d],
         step \notin {"target", "source"} \/ own'[c] \in Codes
  PROVE  Owned'
BY DEF Go, At, Owned, TypeInv, TypeOK

\* A rate becomes known.
LEMMA KnownType ==
  ASSUME TypeInv, NEW c \in Calls, pc[c] \in {"rate", "fill"}, Known(c)
  PROVE  todo' \in [Calls -> Seq(Codes)] /\ pc' \in [Calls -> PCs] /\ Needy'
<1>1. /\ todo' = [todo EXCEPT ![c] = Tail(todo[c])]
      /\ pc' = [pc EXCEPT ![c] = IF Len(todo[c]) = 1 THEN "move" ELSE "rate"]
  BY DEF Known, Go, TypeInv, TypeOK
<1>2. todo' \in [Calls -> Seq(Codes)] /\ pc' \in [Calls -> PCs]
  BY <1>1, TodoType DEF TypeInv, TypeOK, PCs
<1>3. ASSUME NEW d \in Calls, pc'[d] \in {"rate", "fill"} PROVE todo'[d] # <<>>
  <2>1. CASE d = c
    BY <1>1, <1>3, <2>1, TodoType DEF TypeInv, TypeOK
  <2>2. CASE d # c
    BY <1>1, <1>3, <2>2 DEF TypeInv, TypeOK, Needy
  <2> QED
    BY <2>1, <2>2
<1> QED
  BY <1>2, <1>3 DEF Needy

\* A step to another place than a conversion.
LEMMA GoType ==
  ASSUME TypeInv, NEW c \in Calls, NEW step \in PCs \ {"rate", "fill"}, Go(c, step),
         UNCHANGED todo
  PROVE  pc' \in [Calls -> PCs] /\ Needy'
BY DEF Go, TypeInv, TypeOK, Needy

\* Money moves.
LEMMA MoveType ==
  ASSUME TypeOK, NEW c \in Calls, NEW u \in Users, NEW in,
         NEW what \in {"charge", "credit", "refund", "adjust"}, MoveMoney(c, u, in, what)
  PROVE  /\ currency' \in [Users -> Codes] /\ touched' \subseteq Calls
         /\ wrong' \subseteq Calls \X {"charge", "credit", "refund", "adjust"}
BY DEF MoveMoney, Touch, TypeOK

\* The steps of a conversion.
LEMMA ConversionType ==
  ASSUME TypeInv, NEW c \in Calls, ReadCurrency(c) \/ CacheHit(c) \/ CacheMiss(c) \/ Fill(c)
  PROVE  TypeInv'
<1> USE DEF TypeInv
<1>1. CASE ReadCurrency(c)
  <2> DEFINE mine == currency[User(c)]
             needs == IF job[c].op = "order" THEN <<mine>>
                      ELSE IF Code(c) = mine THEN <<>> ELSE <<Code(c), mine>>
  <2>1. mine \in Codes /\ Code(c) \in Codes
    BY JobType DEF TypeOK
  <2>2. needs \in Seq(Codes)
    BY <2>1
  <2>3. /\ own' = [own EXCEPT ![c] = mine] /\ todo' = [todo EXCEPT ![c] = needs]
        /\ pc' = [pc EXCEPT ![c] = IF needs = <<>> THEN "move" ELSE "rate"]
        /\ UNCHANGED <<placement, collection, caches, wallets, job, doc, from, debtors, joined>>
    BY <1>1 DEF ReadCurrency, Go
  <2> HIDE DEF mine, needs
  <2>4. Needy'
    BY <2>3 DEF Needy, TypeOK
  <2>5. PICK step \in {"move", "rate"} : Go(c, step)
    BY <2>3 DEF Go
  <2>6. Owned'
    <3>1. \A d \in Calls : d # c => own'[d] = own[d]
      BY <2>3 DEF TypeOK
    <3> QED
      BY <2>3, <2>5, <3>1, OwnedStays
  <2> QED
    BY <2>1, <2>2, <2>3, <2>4, <2>6 DEF TypeOK, PCs, collection, wallets, placement, caches
<1>2. CASE CacheHit(c)
  <2>1. todo' \in [Calls -> Seq(Codes)] /\ pc' \in [Calls -> PCs] /\ Needy'
    BY <1>2, KnownType DEF CacheHit
  <2>2. Owned'
    BY <1>2, OwnedStays DEF CacheHit, Known
  <2> QED
    BY <1>2, <2>1, <2>2 DEF CacheHit, TypeOK, collection, wallets, placement, caches
<1>3. CASE CacheMiss(c)
  <2>1. Head(todo[c]) \in Codes /\ todo[c] # <<>>
    BY <1>3, TodoType DEF CacheMiss, Needy
  <2>2. doc' \in [Calls -> Docs \cup {NoDoc}]
    BY <1>3, <2>1 DEF CacheMiss, TypeOK
  <2>3. pc' \in [Calls -> PCs] /\ Needy'
    BY <1>3, <2>1 DEF CacheMiss, Go, TypeOK, PCs, Needy
  <2>4. Owned'
    BY <1>3, OwnedStays DEF CacheMiss
  <2> QED
    BY <1>3, <2>2, <2>3, <2>4 DEF CacheMiss, TypeOK, collection, wallets, placement, caches
<1>4. CASE Fill(c)
  <2>1. todo' \in [Calls -> Seq(Codes)] /\ pc' \in [Calls -> PCs] /\ Needy'
    BY <1>4, KnownType DEF Fill
  <2>2. /\ cache' \in [Workers \X Codes -> Docs \cup {NoDoc}] /\ late' \subseteq Workers \X Codes
        /\ elsewhere' \subseteq Workers \X Codes
    BY <1>4, TodoType DEF Fill, TypeOK
  <2>3. Owned'
    BY <1>4, OwnedStays DEF Fill, Known
  <2> QED
    BY <1>4, <2>1, <2>2, <2>3 DEF Fill, TypeOK, collection, wallets, placement, caches
<1> QED
  BY <1>1, <1>2, <1>3, <1>4

\* The steps that move money.
LEMMA MoneyType ==
  ASSUME TypeInv, NEW c \in Calls,
         Charge(c) \/ ChargeFails(c) \/ Credit(c) \/ Refund(c)
  PROVE  TypeInv'
<1> USE DEF TypeInv
<1>1. pc' \in [Calls -> PCs] /\ Needy'
  BY GoType DEF Charge, ChargeFails, Credit, Refund, locals, PCs, placement, caches
<1>2. /\ currency' \in [Users -> Codes] /\ touched' \subseteq Calls
      /\ wrong' \subseteq Calls \X {"charge", "credit", "refund", "adjust"}
  BY MoveType, JobType DEF Charge, ChargeFails, Credit, Refund, wallets, TypeOK, placement, caches
<1>3. Owned'
  BY OwnedStays DEF Charge, ChargeFails, Credit, Refund, locals, placement, caches
<1> QED
  BY <1>1, <1>2, <1>3 DEF Charge, ChargeFails, Credit, Refund, collection, locals, wallets, TypeOK, placement, caches

\* The steps of a switch.
LEMMA SwitchType ==
  ASSUME TypeInv, NEW c \in Calls,
         ReadUser(c) \/ ReadTarget(c) \/ ReadSource(c) \/ WriteCurrency(c)
  PROVE  TypeInv'
<1> USE DEF TypeInv
<1>1. pc' \in [Calls -> PCs] /\ Needy'
  <2>1. CASE ReadUser(c)
    BY <2>1, GoType DEF ReadUser, PCs
  <2>2. CASE ReadTarget(c)
    BY <2>2, GoType DEF ReadTarget, PCs
  <2>3. CASE ReadSource(c) \/ WriteCurrency(c)
    BY <2>3, GoType DEF ReadSource, WriteCurrency, locals, PCs, placement, caches
  <2> QED
    BY <2>1, <2>2, <2>3
<1>2. CASE ReadUser(c)
  <2>1. own'[c] \in Codes /\ \A d \in Calls : d # c => own'[d] = own[d]
    BY <1>2, JobType DEF ReadUser, TypeOK
  <2>2. Owned'
    BY <1>2, <2>1, OwnedStays DEF ReadUser
  <2> QED
    BY <1>1, <1>2, <2>2, JobType DEF ReadUser, collection, wallets, TypeOK, placement, caches
<1>3. CASE ReadTarget(c)
  <2>1. own[c] \in Codes
    BY <1>3 DEF ReadTarget, Owned
  <2>2. Owned'
    BY <1>3, <2>1, OwnedStays DEF ReadTarget
  <2> QED
    BY <1>1, <1>3, <2>2, JobType DEF ReadTarget, collection, wallets, TypeOK, placement, caches
<1>4. CASE ReadSource(c)
  <2>1. OldRate(own[c]) \in Rates \cup {1}
    BY <1>4 DEF ReadSource, Owned, OldRate, TypeOK, Docs
  <2>2. Owned'
    BY <1>4, OwnedStays DEF ReadSource
  <2> QED
    BY <1>1, <1>4, <2>1, <2>2 DEF ReadSource, collection, wallets, TypeOK, placement, caches
<1>5. CASE WriteCurrency(c)
  <2>1. joined' \subseteq Calls \X Users
    BY <1>5, JobType DEF WriteCurrency, TypeOK
  <2>2. currency' \in [Users -> Codes] /\ unlisted' \subseteq Users /\ touched' \subseteq Calls
    BY <1>5, JobType DEF WriteCurrency, Touch, TypeOK
  <2>3. Owned'
    BY <1>5, OwnedStays DEF WriteCurrency, locals, placement, caches
  <2> QED
    BY <1>1, <1>5, <2>1, <2>2, <2>3 DEF WriteCurrency, locals, TypeOK, placement, caches
<1> QED
  BY <1>2, <1>3, <1>4, <1>5

\* The steps that change a currency.
LEMMA AdministrationType ==
  ASSUME TypeInv, NEW c \in Calls,
         \/ ReadDocument(c) \/ SaveDocument(c) \/ Invalidate(c) \/ SaveStatus(c)
         \/ Create(c) \/ FindDocument(c) \/ CheckUnused(c) \/ Delete(c)
  PROVE  TypeInv'
<1> USE DEF TypeInv
<1>1. PICK step \in PCs \ {"rate", "fill", "target", "source"} : Go(c, step)
  BY DEF ReadDocument, SaveDocument, Invalidate, AfterAdjustment, SaveStatus, Create,
         FindDocument, CheckUnused, Delete, PCs
<1>2. UNCHANGED <<todo, own, job, from, debtors, joined, wallets, placement>>
  BY DEF ReadDocument, SaveDocument, Invalidate, SaveStatus, Create,
         FindDocument, CheckUnused, Delete, locals, placement, caches
<1>3. pc' \in [Calls -> PCs] /\ Needy' /\ Owned'
  BY <1>1, <1>2, GoType, OwnedStays
<1>4. /\ cache' \in [Workers \X Codes -> Docs \cup {NoDoc}] /\ late' \subseteq Workers \X Codes
      /\ elsewhere' \subseteq Workers \X Codes /\ unlisted' \subseteq Users
  <2>1. Code(c) \in Codes /\ worker[c] \in Workers
    BY JobType DEF TypeOK
  <2>2. CASE ReadDocument(c) \/ Create(c) \/ FindDocument(c) \/ CheckUnused(c)
    BY <2>2 DEF ReadDocument, Create, FindDocument, CheckUnused, collection, TypeOK, placement, caches
  <2>3. CASE SaveDocument(c) \/ SaveStatus(c) \/ Delete(c)
    <3>1. elsewhere' = elsewhere \/ Outdate(c)
      BY <2>3 DEF SaveDocument, SaveStatus, Delete
    <3>2. elsewhere' \subseteq Workers \X Codes
      <4>1. elsewhere \subseteq Workers \X Codes /\ Workers \X {Code(c)} \subseteq Workers \X Codes
        BY <2>1 DEF TypeOK
      <4> QED
        BY <3>1, <4>1 DEF Outdate
    <3>3. cache' = cache /\ unlisted' \subseteq Users
      BY <2>1, <2>3 DEF SaveDocument, SaveStatus, Delete, collection, TypeOK
    <3>4. late' \subseteq Workers \X Codes
      BY <2>1, <2>3 DEF SaveDocument, SaveStatus, Delete, TypeOK
    <3> QED
      BY <3>2, <3>3, <3>4 DEF TypeOK
  <2>4. CASE Invalidate(c)
    BY <2>1, <2>4 DEF Invalidate, Drop, collection, TypeOK, placement, caches
  <2> QED
    BY <2>2, <2>3, <2>4
<1>5. doc' \in [Calls -> Docs \cup {NoDoc}]
  BY JobType DEF ReadDocument, SaveDocument, Invalidate, SaveStatus, Create,
         FindDocument, CheckUnused, Delete, locals, TypeOK, placement, caches
<1>6. currencies' \in [Codes -> Docs \cup {NoDoc}]
  <2> DEFINE k == Code(c)
  <2>1. k \in Codes
    BY JobType
  <2>2. PICK d \in Docs \cup {NoDoc} :
          currencies' = currencies \/ currencies' = [currencies EXCEPT ![k] = d]
    <3>1. CASE UNCHANGED currencies
      BY <3>1
    <3>2. CASE SaveDocument(c) /\ currencies' # currencies
      <4>1. Stored(c) /\ currencies[k] # NoDoc
        BY <3>2 DEF SaveDocument, Stored
      <4>2. \/ currencies' = [currencies EXCEPT ![k] =
                  [id |-> currencies[k].id, rate |-> job[c].rate, active |-> currencies[k].active]]
            \/ currencies' = [currencies EXCEPT ![k] =
                  [id |-> currencies[k].id, rate |-> currencies[k].rate,
                   active |-> job[c].status = "on"]]
        BY <2>1, <3>2, <4>1 DEF SaveDocument, TypeOK
      <4> QED
        BY <2>1, <4>1, <4>2, JobType, DocType
    <3>3. CASE SaveStatus(c) /\ currencies' # currencies
      <4>1. Stored(c) /\ currencies[k] # NoDoc
        BY <3>3 DEF SaveStatus, Stored
      <4>2. currencies' = [currencies EXCEPT ![k] =
              [id |-> currencies[k].id, rate |-> currencies[k].rate,
               active |-> job[c].status = "on"]]
        BY <2>1, <3>3, <4>1 DEF SaveStatus, TypeOK
      <4> QED
        BY <2>1, <4>1, <4>2, JobType, DocType
    <3>4. CASE Create(c) /\ currencies' # currencies
      <4>1. currencies' = [currencies EXCEPT ![k] =
              [id |-> c, rate |-> job[c].rate, active |-> job[c].status # "off"]]
        BY <3>4 DEF Create, collection, placement, caches
      <4>2. [id |-> c, rate |-> job[c].rate, active |-> job[c].status # "off"] \in Docs
        BY JobType DEF Docs
      <4> QED
        BY <4>1, <4>2
    <3>5. CASE Delete(c) /\ currencies' # currencies
      <4>1. currencies' = [currencies EXCEPT ![k] = NoDoc]
        BY <3>5 DEF Delete, collection, placement, caches
      <4> QED
        BY <4>1
    <3>6. CASE ReadDocument(c) \/ Invalidate(c) \/ FindDocument(c) \/ CheckUnused(c)
      BY <3>1, <3>6 DEF ReadDocument, Invalidate, FindDocument, CheckUnused, collection, placement, caches
    <3> QED
      BY <3>1, <3>2, <3>3, <3>4, <3>5, <3>6
  <2> QED
    BY <2>1, <2>2 DEF TypeOK
<1> QED
  BY <1>2, <1>3, <1>4, <1>5, <1>6 DEF wallets, TypeOK, placement, caches

\* The steps of a debt adjustment.
LEMMA AdjustmentType ==
  ASSUME TypeInv, NEW c \in Calls, ReadDebtors(c) \/ AdjustDebt(c) \/ EndAdjustment(c)
  PROVE  TypeInv'
<1> USE DEF TypeInv
<1>1. CASE ReadDebtors(c)
  <2>1. debtors' \in [Calls -> SUBSET Users]
    BY <1>1 DEF ReadDebtors, TypeOK
  <2>2. pc' \in [Calls -> PCs] /\ Needy' /\ Owned'
    BY <1>1, GoType, OwnedStays DEF ReadDebtors, PCs
  <2> QED
    BY <1>1, <2>1, <2>2 DEF ReadDebtors, collection, wallets, TypeOK, placement, caches
<1>2. CASE AdjustDebt(c)
  <2>1. PICK u \in debtors[c] :
          debtors' = [debtors EXCEPT ![c] = @ \ {u}] /\ MoveMoney(c, u, Code(c), "adjust")
    BY <1>2 DEF AdjustDebt
  <2>2. u \in Users /\ debtors' \in [Calls -> SUBSET Users]
    BY <2>1 DEF TypeOK
  <2>3. /\ currency' \in [Users -> Codes] /\ touched' \subseteq Calls
        /\ wrong' \subseteq Calls \X {"charge", "credit", "refund", "adjust"}
    BY <2>1, <2>2, MoveType
  <2> QED
    BY <1>2, <2>2, <2>3 DEF AdjustDebt, collection, TypeOK, Needy, Owned, At, placement, caches
<1>3. CASE EndAdjustment(c)
  <2>1. PICK step \in {"status", "done"} : Go(c, step)
    BY <1>3 DEF EndAdjustment, AfterAdjustment
  <2>2. pc' \in [Calls -> PCs] /\ Needy' /\ Owned'
    BY <1>3, <2>1, GoType, OwnedStays DEF EndAdjustment, locals, PCs, placement, caches
  <2> QED
    BY <1>3, <2>2 DEF EndAdjustment, collection, wallets, locals, TypeOK, placement, caches
<1> QED
  BY <1>1, <1>2, <1>3

\* TypeInv is an invariant.
LEMMA TypeInvariant == Spec => []TypeInv
<1>1. Init => TypeInv
  <2> SUFFICES ASSUME Init PROVE TypeInv
    OBVIOUS
  <2>1. currencies \in [Codes -> Docs \cup {NoDoc}]
    <3>1. Base \in Docs
      BY DEF Docs, Base
    <3>2. [id: {Seed}, rate: Rates, active: BOOLEAN] \subseteq Docs
      BY DEF Docs
    <3> QED
      BY <3>1, <3>2 DEF Init
  <2>2. todo \in [Calls -> Seq(Codes)]
    BY EmptySeq DEF Init
  <2>3. pc \in [Calls -> PCs] /\ Needy /\ Owned
    BY DEF Init, PCs, Needy, Owned, At
  <2> QED
    BY <2>1, <2>2, <2>3 DEF Init, TypeInv, TypeOK
<1>2. ASSUME TypeInv, [Next]_vars PROVE TypeInv'
  <2>1. ASSUME NEW c \in Calls, Step(c) PROVE TypeInv'
    BY <1>2, <2>1, ConversionType, MoneyType, SwitchType, AdministrationType, AdjustmentType
       DEF Step
  <2>2. ASSUME NEW e \in Workers \X Codes, Expire(e) PROVE TypeInv'
    BY <1>2, <2>2 DEF Expire, Drop, TypeInv, TypeOK, Needy, Owned, At, collection, wallets, locals, placement, caches
  <2>3. CASE UNCHANGED vars
    BY <1>2, <2>3 DEF vars, TypeInv, TypeOK, Needy, Owned, At
  <2> QED
    BY <1>2, <2>1, <2>2, <2>3 DEF Next
<1> QED
  BY <1>1, <1>2, PTL DEF Spec
\* Every variable keeps its type: Currencies is well defined however many
\* calls there are.
THEOREM TypeCorrect == Spec => []TypeOK
<1>1. TypeInv => TypeOK
  BY DEF TypeInv
<1> QED
  BY <1>1, TypeInvariant, PTL

-----------------------------------------------------------------------------
(* The cache.                                                              *)

\* The documents of the collection are documents before and after a step of
\* its administration, which replaces at most the one of its code.
LEMMA CollectionSteps ==
  ASSUME TypeInv, NEW c \in Calls, Step(c)
  PROVE  \/ UNCHANGED currencies
         \/ /\ SaveDocument(c) \/ SaveStatus(c) \/ Create(c) \/ Delete(c)
            /\ \A k \in Codes \ {Code(c)} : currencies'[k] = currencies[k]
<1> USE DEF TypeInv, collection, placement, caches
<1>1. CASE SaveDocument(c)
  BY <1>1 DEF SaveDocument, TypeOK
<1>2. CASE SaveStatus(c)
  BY <1>2 DEF SaveStatus, TypeOK
<1>3. CASE Create(c)
  BY <1>3 DEF Create, TypeOK
<1>4. CASE Delete(c)
  BY <1>4 DEF Delete, TypeOK
<1>5. CASE ReadCurrency(c) \/ CacheHit(c) \/ CacheMiss(c) \/ Fill(c)
  BY <1>5 DEF ReadCurrency, CacheHit, CacheMiss, Fill
<1>6. CASE Charge(c) \/ ChargeFails(c) \/ Credit(c) \/ Refund(c)
  BY <1>6 DEF Charge, ChargeFails, Credit, Refund
<1>7. CASE ReadUser(c) \/ ReadTarget(c) \/ ReadSource(c) \/ WriteCurrency(c)
  BY <1>7 DEF ReadUser, ReadTarget, ReadSource, WriteCurrency
<1>8. CASE ReadDocument(c) \/ Invalidate(c) \/ FindDocument(c) \/ CheckUnused(c)
  BY <1>8 DEF ReadDocument, Invalidate, FindDocument, CheckUnused
<1>9. CASE ReadDebtors(c) \/ AdjustDebt(c) \/ EndAdjustment(c)
  BY <1>9 DEF ReadDebtors, AdjustDebt, EndAdjustment
<1> QED
  BY <1>1, <1>2, <1>3, <1>4, <1>5, <1>6, <1>7, <1>8, <1>9 DEF Step

\* What a call is asked to do never changes, nor where the deployment runs,
\* and a step of one call leaves the others where they are.
LEMMA OneCallMoves ==
  ASSUME TypeInv, NEW c \in Calls, Step(c)
  PROVE  /\ UNCHANGED <<job, placement>>
         /\ \A d \in Calls \ {c} : pc'[d] = pc[d] /\ own'[d] = own[d] /\ doc'[d] = doc[d]
<1> USE DEF TypeInv, TypeOK, Go, locals, placement, caches
<1>1. CASE ReadCurrency(c)
  BY <1>1 DEF ReadCurrency
<1>2. CASE CacheHit(c) \/ CacheMiss(c) \/ Fill(c)
  BY <1>2 DEF CacheHit, CacheMiss, Fill, Known
<1>3. CASE Charge(c) \/ ChargeFails(c) \/ Credit(c) \/ Refund(c)
  BY <1>3 DEF Charge, ChargeFails, Credit, Refund
<1>4. CASE ReadUser(c) \/ ReadTarget(c) \/ ReadSource(c) \/ WriteCurrency(c)
  BY <1>4 DEF ReadUser, ReadTarget, ReadSource, WriteCurrency
<1>5. CASE ReadDocument(c) \/ SaveDocument(c) \/ Invalidate(c)
  BY <1>5 DEF ReadDocument, SaveDocument, Invalidate
<1>6. CASE ReadDebtors(c) \/ AdjustDebt(c) \/ EndAdjustment(c) \/ SaveStatus(c)
  BY <1>6 DEF ReadDebtors, AdjustDebt, EndAdjustment, SaveStatus
<1>7. CASE Create(c) \/ FindDocument(c) \/ CheckUnused(c) \/ Delete(c)
  BY <1>7 DEF Create, FindDocument, CheckUnused, Delete
<1> QED
  BY <1>1, <1>2, <1>3, <1>4, <1>5, <1>6, <1>7 DEF Step

\* CacheFollows for one currency in one process.
Follows(w, k) ==
  \/ cache[<<w, k>>] \in {NoDoc, currencies[k]}
  \/ <<w, k>> \in late \cup elsewhere
  \/ \E c \in Calls : worker[c] = w /\ pc[c] = "invalidate" /\ Code(c) = k

\* A cache that a step leaves alone keeps following what did not change.
LEMMA FollowsStays ==
  ASSUME TypeInv, NEW c \in Calls, NEW w \in Workers, NEW k \in Codes, Follows(w, k),
         Step(c), pc[c] # "invalidate" \/ worker[c] # w \/ Code(c) # k,
         cache'[<<w, k>>] = cache[<<w, k>>], currencies'[k] = currencies[k],
         <<w, k>> \in late \cup elsewhere => <<w, k>> \in late' \cup elsewhere'
  PROVE  Follows(w, k)'
BY OneCallMoves DEF Follows, Code, placement

\* A write outdates the entries of other processes, and is known to.
LEMMA OutdateFollows ==
  ASSUME TypeInv, NEW c \in Calls, NEW w \in Workers, NEW k \in Codes, k = Code(c),
         Follows(w, k), Step(c), pc[c] # "invalidate",
         cache' = cache, late \subseteq late', Outdate(c), w # worker[c]
  PROVE  Follows(w, k)'
<1>1. elsewhere \subseteq elsewhere'
  BY DEF Outdate
<1>2. CASE cache[<<w, k>>] \in {NoDoc, currencies[k]}
  <2>1. cache[<<w, k>>] \in {NoDoc, currencies'[k]} \/ <<w, k>> \in elsewhere'
    <3> DEFINE e == <<w, k>>
    <3>1. e \in Workers \X {k} /\ e[1] = w /\ e[2] = k
      OBVIOUS
    <3> HIDE DEF e
    <3>2. cache[e] # NoDoc /\ cache[e] = currencies[k] /\ cache[e] # currencies'[k] => e \in elsewhere'
      BY <3>1 DEF Outdate
    <3> QED
      BY <1>2, <3>2 DEF e
  <2> QED
    BY <2>1 DEF Follows
<1>3. CASE cache[<<w, k>>] \notin {NoDoc, currencies[k]}
  <2>1. <<w, k>> \in late' \cup elsewhere'
        \/ \E d \in Calls : worker[d] = w /\ pc[d] = "invalidate" /\ Code(d) = k
    BY <1>1, <1>3 DEF Follows
  <2>2. /\ UNCHANGED <<job, worker>> /\ \A d \in Calls : Code(d)' = Code(d)
        /\ \A d \in Calls \ {c} : pc'[d] = pc[d]
    BY OneCallMoves DEF Code, placement
  <2> QED
    BY <2>1, <2>2 DEF Follows
<1> QED
  BY <1>2, <1>3

\* A write is followed by an invalidation in its own process, and an answer that
\* arrives too late is known to: the cache follows the collection.
LEMMA CacheStep ==
  ASSUME TypeInv, CacheFollows, NEW c \in Calls, Step(c), NEW w \in Workers, NEW k \in Codes
  PROVE  Follows(w, k)'
<1> USE DEF TypeInv
<1>0. Follows(w, k) /\ \A x \in Workers, y \in Codes : Follows(x, y)
  BY DEF CacheFollows, Follows
<1>1. /\ UNCHANGED <<job, worker>>
      /\ \A d \in Calls \ {c} : pc'[d] = pc[d] /\ Code(d)' = Code(d)
  BY OneCallMoves DEF Code, placement
<1>2. Code(c)' = Code(c) /\ Code(c) \in Codes /\ worker[c] \in Workers
  BY <1>1, JobType DEF Code, TypeOK
<1>3. CASE pc[c] # "invalidate" /\ UNCHANGED <<cache, late, elsewhere>> /\ currencies'[k] = currencies[k]
  BY <1>0, <1>3, FollowsStays
<1>4. CASE SaveDocument(c) \/ Delete(c)
  <2>1. /\ pc[c] # "invalidate" /\ UNCHANGED <<cache, late>> /\ Outdate(c) /\ elsewhere \subseteq elsewhere'
    BY <1>4 DEF SaveDocument, Delete, Outdate, At
  <2>2. currencies'[k] # currencies[k] => k = Code(c) /\ pc'[c] = "invalidate"
    BY <1>4, CollectionSteps DEF SaveDocument, Delete, Go, TypeOK
  <2>3. CASE currencies'[k] = currencies[k]
    BY <1>0, <2>1, <2>3, FollowsStays
  <2>4. CASE currencies'[k] # currencies[k] /\ w = worker[c]
    BY <1>1, <1>2, <2>2, <2>4 DEF Follows
  <2>5. CASE currencies'[k] # currencies[k] /\ w # worker[c]
    BY <1>0, <2>1, <2>2, <2>5, OutdateFollows
  <2> QED
    BY <2>3, <2>4, <2>5
<1>5. CASE SaveStatus(c)
  <2>1. pc[c] # "invalidate" /\ UNCHANGED cache /\ late \subseteq late' /\ elsewhere \subseteq elsewhere'
    BY <1>5 DEF SaveStatus, Outdate, At
  <2>2. CASE currencies'[k] = currencies[k]
    BY <1>0, <2>1, <2>2, FollowsStays
  <2>3. CASE currencies'[k] # currencies[k]
    <3>1. k = Code(c) /\ Outdate(c)
      BY <1>5, <2>3, CollectionSteps DEF SaveStatus
    <3>2. CASE w = worker[c]
      <4>1. cache'[<<w, k>>] = NoDoc \/ <<w, k>> \in late'
        BY <1>5, <2>1, <2>3, <3>1, <3>2 DEF SaveStatus, Cached
      <4> QED
        BY <4>1 DEF Follows
    <3>3. CASE w # worker[c]
      BY <1>0, <2>1, <3>1, <3>3, OutdateFollows
    <3> QED
      BY <3>2, <3>3
  <2> QED
    BY <2>2, <2>3
<1>6. CASE Create(c)
  <2>1. pc[c] # "invalidate" /\ UNCHANGED <<cache, late, elsewhere>>
    BY <1>6 DEF Create, At, caches
  <2>2. CASE currencies'[k] # currencies[k]
    <3>1. k = Code(c)
      BY <2>2, CollectionSteps, <1>6 DEF Create, SaveDocument, SaveStatus, Delete, At
    <3>2. currencies[k] = NoDoc
      BY <1>6, <2>2, <3>1 DEF Create, collection, placement, caches
    <3> QED
      BY <1>0, <1>1, <2>1, <3>2 DEF Follows
  <2> QED
    BY <1>3, <2>1, <2>2
<1>7. CASE Invalidate(c)
  <2> DEFINE e == <<worker[c], Code(c)>>
  <2>1. e \in Workers \X Codes /\ Drop(e) /\ UNCHANGED currencies
    BY <1>2, <1>7 DEF Invalidate, collection, placement, caches
  <2>2. CASE w = worker[c] /\ k = Code(c)
    <3>1. cache'[<<w, k>>] = NoDoc
      BY <2>1, <2>2 DEF Drop, TypeOK
    <3> QED
      BY <3>1 DEF Follows
  <2>3. CASE ~(w = worker[c] /\ k = Code(c))
    <3>1. <<w, k>> # e
      BY <2>3
    <3> HIDE DEF e
    <3>2. cache'[<<w, k>>] = cache[<<w, k>>] /\ (<<w, k>> \in late \cup elsewhere => <<w, k>> \in late' \cup elsewhere')
      BY <2>1, <3>1 DEF Drop, TypeOK
    <3> QED
      BY <1>0, <2>1, <2>3, <3>2, FollowsStays
  <2> QED
    BY <2>2, <2>3
<1>8. CASE Fill(c)
  <2> DEFINE h == Head(todo[c])
             e == <<worker[c], h>>
  <2>1. h \in Codes /\ UNCHANGED currencies /\ pc[c] # "invalidate" /\ e \in Workers \X Codes
    BY <1>2, <1>8, TodoType DEF Fill, collection, placement, caches
  <2>f. /\ cache' = [cache EXCEPT ![e] = doc[c]]
        /\ late' = IF doc[c] = currencies[h] THEN late \ {e} ELSE late \cup {e}
        /\ elsewhere' = elsewhere \ {e}
    BY <1>8 DEF Fill
  <2>2. CASE w = worker[c] /\ k = h
    <3>1. cache'[<<w, k>>] = doc[c] /\ (doc[c] = currencies[k] \/ <<w, k>> \in late')
      BY <2>1, <2>f, <2>2 DEF TypeOK
    <3> QED
      BY <2>1, <3>1 DEF Follows
  <2>3. CASE ~(w = worker[c] /\ k = h)
    <3>1. <<w, k>> # e
      BY <2>3
    <3> HIDE DEF e, h
    <3>2. cache'[<<w, k>>] = cache[<<w, k>>] /\ (<<w, k>> \in late \cup elsewhere => <<w, k>> \in late' \cup elsewhere')
      BY <2>1, <2>f, <3>1 DEF TypeOK
    <3> QED
      BY <1>0, <2>1, <3>2, FollowsStays
  <2> QED
    BY <2>2, <2>3
<1>9. \/ SaveDocument(c) \/ Delete(c) \/ SaveStatus(c) \/ Create(c) \/ Invalidate(c) \/ Fill(c)
      \/ pc[c] # "invalidate" /\ UNCHANGED <<cache, late, elsewhere, currencies>>
  BY DEF Step, ReadCurrency, CacheHit, CacheMiss, Charge, ChargeFails, Credit, Refund, ReadUser,
         ReadTarget, ReadSource, WriteCurrency, ReadDocument, ReadDebtors, AdjustDebt,
         EndAdjustment, FindDocument, CheckUnused, At, caches, collection, placement
<1> QED
  BY <1>3, <1>4, <1>5, <1>6, <1>7, <1>8, <1>9

\* In every process the converter serves what is stored, but between a write of
\* that process and its invalidation, and for entries that were overtaken or
\* that another process outdated.
THEOREM CacheCorrect == Spec => []CacheFollows
<1>1. Init => CacheFollows
  <2> SUFFICES ASSUME Init, NEW w \in Workers, NEW k \in Codes PROVE cache[<<w, k>>] = NoDoc
    BY DEF CacheFollows
  <2>1. <<w, k>> \in Workers \X Codes
    OBVIOUS
  <2> QED
    BY <2>1 DEF Init
<1>2. ASSUME TypeInv, CacheFollows, [Next]_vars PROVE CacheFollows'
  <2>1. ASSUME NEW c \in Calls, Step(c) PROVE CacheFollows'
    <3>1. \A w \in Workers, k \in Codes : Follows(w, k)'
      BY <1>2, <2>1, CacheStep
    <3> QED
      BY <3>1 DEF CacheFollows, Follows
  <2>2. ASSUME NEW x \in Workers \X Codes, Expire(x) PROVE CacheFollows'
    <3>1. UNCHANGED <<currencies, worker, pc, job>>
      BY <2>2 DEF Expire, placement, collection, caches
    <3>2. ASSUME NEW w \in Workers, NEW k \in Codes
          PROVE  \/ cache'[<<w, k>>] = NoDoc
                 \/ /\ cache'[<<w, k>>] = cache[<<w, k>>]
                    /\ <<w, k>> \in late \cup elsewhere => <<w, k>> \in late' \cup elsewhere'
      BY <1>2, <2>2 DEF Expire, Drop, TypeInv, TypeOK
    <3>3. \A w \in Workers, k \in Codes : Follows(w, k)
      BY <1>2 DEF CacheFollows, Follows
    <3>4. ASSUME NEW w \in Workers, NEW k \in Codes PROVE Follows(w, k)'
      <4>1. CASE cache'[<<w, k>>] = NoDoc
        BY <4>1 DEF Follows
      <4>2. CASE cache'[<<w, k>>] # NoDoc
        <5>1. /\ cache'[<<w, k>>] = cache[<<w, k>>]
              /\ <<w, k>> \in late \cup elsewhere => <<w, k>> \in late' \cup elsewhere'
          BY <3>2, <4>2
        <5> QED
          BY <3>1, <3>3, <5>1 DEF Follows, Code
      <4> QED
        BY <4>1, <4>2
    <3> QED
      BY <3>4 DEF CacheFollows, Follows
  <2>3. CASE UNCHANGED vars
    <3>1. \A w \in Workers, k \in Codes : Follows(w, k)
      BY <1>2 DEF CacheFollows, Follows
    <3>2. ASSUME NEW w \in Workers, NEW k \in Codes PROVE Follows(w, k)'
      BY <2>3, <3>1 DEF vars, Follows, Code
    <3> QED
      BY <3>2 DEF CacheFollows, Follows
  <2> QED
    BY <1>2, <2>1, <2>2, <2>3 DEF Next
<1> QED
  BY <1>1, <1>2, TypeInvariant, PTL DEF Spec
-----------------------------------------------------------------------------
(* The currency of a charge.                                               *)

\* A transaction whose user was not written since its snapshot holds the
\* currency that the wallet has.
SnapshotHolds ==
  deployment = "replicaSet" =>
    \A c \in Calls : /\ job[c].op = "order" /\ pc[c] \in {"rate", "fill", "move"}
                     /\ c \notin touched
                     => own[c] = currency[User(c)]

ChargeInv == SnapshotHolds /\ TransactionsChargeInCurrency

\* Steps of other calls either leave the currency of an order's user alone or
\* touch the order.
LEMMA WalletSteps ==
  ASSUME TypeInv, NEW c \in Calls, Step(c), NEW d \in Calls,
         job[d].op = "order", pc[d] \in {"rate", "fill", "move"}
  PROVE  touched \subseteq touched' /\ (currency'[User(d)] = currency[User(d)] \/ d \in touched')
<1> USE DEF TypeInv
<1>1. CASE WriteCurrency(c)
  BY <1>1, JobType DEF WriteCurrency, Touch, TypeOK
<1>2. CASE Charge(c) \/ Credit(c) \/ Refund(c) \/ AdjustDebt(c)
  BY <1>2 DEF Charge, Credit, Refund, AdjustDebt, MoveMoney, Touch
<1>3. CASE ReadCurrency(c) \/ CacheHit(c) \/ CacheMiss(c) \/ Fill(c) \/ ChargeFails(c)
  BY <1>3 DEF ReadCurrency, CacheHit, CacheMiss, Fill, ChargeFails, wallets, placement, caches
<1>4. CASE ReadUser(c) \/ ReadTarget(c) \/ ReadSource(c)
  BY <1>4 DEF ReadUser, ReadTarget, ReadSource, wallets, placement, caches
<1>5. CASE ReadDocument(c) \/ SaveDocument(c) \/ Invalidate(c) \/ ReadDebtors(c)
           \/ EndAdjustment(c) \/ SaveStatus(c)
  BY <1>5 DEF ReadDocument, SaveDocument, Invalidate, ReadDebtors, EndAdjustment, SaveStatus,
              wallets, placement, caches
<1>6. CASE Create(c) \/ FindDocument(c) \/ CheckUnused(c) \/ Delete(c)
  BY <1>6 DEF Create, FindDocument, CheckUnused, Delete, wallets, placement, caches
<1> QED
  BY <1>1, <1>2, <1>3, <1>4, <1>5, <1>6 DEF Step

\* An order enters the transaction by reading the currency, and keeps what it
\* read.
LEMMA OwnSteps ==
  ASSUME TypeInv, NEW c \in Calls, Step(c), job[c].op = "order",
         pc'[c] \in {"rate", "fill", "move"}
  PROVE  \/ own'[c] = currency[User(c)] /\ UNCHANGED currency
         \/ UNCHANGED own /\ pc[c] \in {"rate", "fill", "move"}
<1> USE DEF TypeInv
<1>1. CASE ReadCurrency(c)
  BY <1>1 DEF ReadCurrency, wallets, TypeOK, placement, caches
<1>2. CASE CacheHit(c) \/ CacheMiss(c) \/ Fill(c) \/ ChargeFails(c)
  BY <1>2 DEF CacheHit, CacheMiss, Fill, ChargeFails, At, locals, placement, caches
<1>3. CASE Charge(c) \/ Credit(c) \/ Refund(c)
  BY <1>3 DEF Charge, Credit, Refund, Go, TypeOK
<1>4. CASE ReadUser(c) \/ ReadTarget(c) \/ ReadSource(c) \/ WriteCurrency(c)
  BY <1>4 DEF ReadUser, ReadTarget, ReadSource, WriteCurrency, At
<1>5. CASE ReadDocument(c) \/ SaveDocument(c) \/ ReadDebtors(c) \/ AdjustDebt(c)
           \/ EndAdjustment(c) \/ SaveStatus(c)
  BY <1>5 DEF ReadDocument, SaveDocument, ReadDebtors, AdjustDebt, EndAdjustment, SaveStatus, At
<1>6. CASE Invalidate(c)
  BY <1>6 DEF Invalidate, Go, AfterAdjustment, TypeOK
<1>7. CASE Create(c) \/ FindDocument(c) \/ CheckUnused(c) \/ Delete(c)
  BY <1>7 DEF Create, FindDocument, CheckUnused, Delete, At
<1> QED
  BY <1>1, <1>2, <1>3, <1>4, <1>5, <1>6, <1>7 DEF Step

\* What a charge moves is in the currency of the wallet.
LEMMA ChargeSteps ==
  ASSUME TypeInv, ChargeInv, NEW c \in Calls, Step(c), deployment = "replicaSet", NEW d \in Calls
  PROVE  <<d, "charge">> \notin wrong'
<1> USE DEF TypeInv
<1>0. <<d, "charge">> \notin wrong
  BY DEF ChargeInv, TransactionsChargeInCurrency
<1>1. CASE Charge(c)
  <2>1. own[c] = currency[User(c)]
    BY <1>1 DEF Charge, Conflict, At, ChargeInv, SnapshotHolds
  <2> QED
    BY <1>0, <1>1, <2>1 DEF Charge, MoveMoney
<1>2. CASE Credit(c) \/ Refund(c) \/ AdjustDebt(c)
  BY <1>0, <1>2 DEF Credit, Refund, AdjustDebt, MoveMoney
<1>3. CASE UNCHANGED wrong
  BY <1>0, <1>3
<1>4. \/ Charge(c) \/ Credit(c) \/ Refund(c) \/ AdjustDebt(c) \/ UNCHANGED wrong
  BY DEF Step, ReadCurrency, CacheHit, CacheMiss, Fill, ChargeFails, ReadUser, ReadTarget,
         ReadSource, WriteCurrency, ReadDocument, SaveDocument, Invalidate, ReadDebtors,
         EndAdjustment, SaveStatus, Create, FindDocument, CheckUnused, Delete, wallets, placement, caches
<1> QED
  BY <1>1, <1>2, <1>3, <1>4

\* In a transaction an order is charged in the currency the wallet has: the
\* conflict of the snapshot is what makes reading it early safe.
THEOREM ChargeCorrect == Spec => []TransactionsChargeInCurrency
<1>1. Init => ChargeInv
  BY DEF Init, ChargeInv, SnapshotHolds, TransactionsChargeInCurrency
<1>2. ASSUME TypeInv, ChargeInv, [Next]_vars PROVE ChargeInv'
  <2>1. ASSUME NEW c \in Calls, Step(c) PROVE ChargeInv'
    <3>1. UNCHANGED <<job, placement>> /\ \A d \in Calls \ {c} : pc'[d] = pc[d] /\ own'[d] = own[d]
      BY <1>2, <2>1, OneCallMoves
    <3>2. ASSUME deployment = "replicaSet", NEW d \in Calls, job[d].op = "order",
                 pc'[d] \in {"rate", "fill", "move"}, d \notin touched'
          PROVE  own'[d] = currency'[User(d)]
      <4>1. CASE pc[d] \in {"rate", "fill", "move"} /\ own'[d] = own[d]
        BY <1>2, <2>1, <3>2, <4>1, WalletSteps DEF ChargeInv, SnapshotHolds
      <4>2. CASE ~(pc[d] \in {"rate", "fill", "move"} /\ own'[d] = own[d])
        <5>1. d = c
          BY <3>1, <3>2, <4>2
        <5> QED
          BY <1>2, <2>1, <3>2, <4>2, <5>1, OwnSteps
      <4> QED
        BY <4>1, <4>2
    <3>3. SnapshotHolds'
      BY <3>1, <3>2 DEF SnapshotHolds, User, placement
    <3>4. TransactionsChargeInCurrency'
      BY <1>2, <2>1, <3>1, ChargeSteps DEF TransactionsChargeInCurrency, placement
    <3> QED
      BY <3>3, <3>4 DEF ChargeInv
  <2>2. ASSUME NEW x \in Workers \X Codes, Expire(x) PROVE ChargeInv'
    BY <1>2, <2>2 DEF Expire, ChargeInv, SnapshotHolds, TransactionsChargeInCurrency, User,
                      wallets, locals, placement, caches
  <2>3. CASE UNCHANGED vars
    BY <1>2, <2>3 DEF vars, ChargeInv, SnapshotHolds, TransactionsChargeInCurrency, User
  <2> QED
    BY <1>2, <2>1, <2>2, <2>3 DEF Next
<1>3. ChargeInv => TransactionsChargeInCurrency
  BY DEF ChargeInv
<1> QED
  BY <1>1, <1>2, <1>3, TypeInvariant, PTL DEF Spec
-----------------------------------------------------------------------------
(* The currency of a wallet.                                               *)

\* Of the users whose currency is being deleted, the deletion's check saw none:
\* they joined since.
SeenByCheck ==
  \A c \in Calls, u \in Users :
    At(c, "delete", "delete") /\ currency[u] = Code(c) => <<c, u>> \in joined

\* A switch that goes on has found the currency it switches to.
FoundTarget ==
  \A c \in Calls : At(c, "switch", "source") \/ At(c, "switch", "write") => doc[c] # NoDoc

WalletInv == SeenByCheck /\ FoundTarget /\ WalletCurrencyExists

\* Only a switch changes the currency of a wallet, or forgets nobody's.
LEMMA CurrencySteps ==
  ASSUME TypeInv, NEW c \in Calls, Step(c), ~WriteCurrency(c)
  PROVE  UNCHANGED <<currency, joined>>
BY DEF Step, ReadCurrency, CacheHit, CacheMiss, Fill, Charge, ChargeFails, Credit, Refund,
       ReadUser, ReadTarget, ReadSource, ReadDocument, SaveDocument, Invalidate, ReadDebtors,
       AdjustDebt, EndAdjustment, SaveStatus, Create, FindDocument, CheckUnused, Delete,
       MoveMoney, wallets, placement, caches

\* A deletion goes on when its check has found no user.
LEMMA CheckSteps ==
  ASSUME TypeInv, NEW c \in Calls, Step(c), At(c, "delete", "delete")'
  PROVE  CheckUnused(c) /\ \A u \in Users : currency[u] # Code(c)
<1> USE DEF TypeInv, Go, TypeOK, At
<1>1. job'[c].op = "delete" /\ UNCHANGED job
  BY OneCallMoves
<1>2. CASE CheckUnused(c)
  BY <1>2 DEF CheckUnused
<1>3. CASE ReadCurrency(c) \/ CacheHit(c) \/ CacheMiss(c) \/ Fill(c)
  BY <1>3 DEF ReadCurrency, CacheHit, CacheMiss, Fill, Known
<1>4. CASE Charge(c) \/ ChargeFails(c) \/ Credit(c) \/ Refund(c)
  BY <1>4 DEF Charge, ChargeFails, Credit, Refund
<1>5. CASE ReadUser(c) \/ ReadTarget(c) \/ ReadSource(c) \/ WriteCurrency(c)
  BY <1>5 DEF ReadUser, ReadTarget, ReadSource, WriteCurrency
<1>6. CASE ReadDocument(c) \/ SaveDocument(c) \/ Invalidate(c) \/ SaveStatus(c)
  BY <1>6 DEF ReadDocument, SaveDocument, Invalidate, AfterAdjustment, SaveStatus
<1>7. CASE ReadDebtors(c) \/ AdjustDebt(c) \/ EndAdjustment(c)
  BY <1>1, <1>7 DEF ReadDebtors, AdjustDebt, EndAdjustment, AfterAdjustment
<1>8. CASE Create(c) \/ FindDocument(c) \/ Delete(c)
  BY <1>8 DEF Create, FindDocument, Delete
<1> QED
  BY <1>2, <1>3, <1>4, <1>5, <1>6, <1>7, <1>8 DEF Step

\* A switch that goes on has just found its target, or keeps what it found.
LEMMA TargetSteps ==
  ASSUME TypeInv, NEW c \in Calls, Step(c),
         At(c, "switch", "source")' \/ At(c, "switch", "write")'
  PROVE  \/ ReadTarget(c) /\ doc'[c] # NoDoc
         \/ ReadSource(c) /\ UNCHANGED doc
<1> USE DEF TypeInv, Go, TypeOK, At
<1>1. UNCHANGED job
  BY OneCallMoves
<1>2. CASE ReadTarget(c)
  BY <1>2 DEF ReadTarget
<1>3. CASE ReadSource(c)
  BY <1>3 DEF ReadSource
<1>4. CASE ReadCurrency(c) \/ CacheHit(c) \/ CacheMiss(c) \/ Fill(c)
  BY <1>4 DEF ReadCurrency, CacheHit, CacheMiss, Fill, Known
<1>5. CASE Charge(c) \/ ChargeFails(c) \/ Credit(c) \/ Refund(c)
  BY <1>5 DEF Charge, ChargeFails, Credit, Refund
<1>6. CASE ReadUser(c) \/ WriteCurrency(c)
  BY <1>6 DEF ReadUser, WriteCurrency
<1>7. CASE ReadDocument(c) \/ SaveDocument(c) \/ Invalidate(c) \/ SaveStatus(c)
  BY <1>7 DEF ReadDocument, SaveDocument, Invalidate, AfterAdjustment, SaveStatus
<1>8. CASE ReadDebtors(c) \/ AdjustDebt(c) \/ EndAdjustment(c)
  BY <1>1, <1>8 DEF ReadDebtors, AdjustDebt, EndAdjustment, AfterAdjustment
<1>9. CASE Create(c) \/ FindDocument(c) \/ CheckUnused(c) \/ Delete(c)
  BY <1>9 DEF Create, FindDocument, CheckUnused, Delete
<1> QED
  BY <1>2, <1>3, <1>4, <1>5, <1>6, <1>7, <1>8, <1>9 DEF Step

\* Whoever joined since the check of a deletion is known to have.
LEMMA SeenByCheckStep ==
  ASSUME TypeInv, SeenByCheck, NEW c \in Calls, Step(c)
  PROVE  SeenByCheck'
<1> SUFFICES ASSUME NEW d \in Calls, NEW u \in Users, At(d, "delete", "delete")',
                    currency'[u] = Code(d)'
             PROVE  <<d, u>> \in joined'
  BY DEF SeenByCheck
<1>1. UNCHANGED job /\ Code(d)' = Code(d)
  BY OneCallMoves DEF Code
<1>2. CASE WriteCurrency(c)
  <2>1. At(d, "delete", "delete")
    BY <1>1, <1>2 DEF WriteCurrency, Go, At, TypeInv, TypeOK
  <2>2. CASE u = User(c)
    BY <1>1, <1>2, <2>1, <2>2 DEF WriteCurrency, TypeInv, TypeOK
  <2>3. CASE u # User(c)
    BY <1>1, <1>2, <2>1, <2>3 DEF WriteCurrency, SeenByCheck, TypeInv, TypeOK
  <2> QED
    BY <2>2, <2>3
<1>3. CASE ~WriteCurrency(c)
  <2>1. UNCHANGED <<currency, joined>>
    BY <1>3, CurrencySteps
  <2>2. CASE d = c
    BY <1>1, <2>1, <2>2, CheckSteps
  <2>3. CASE d # c
    BY <1>1, <2>1, <2>3, OneCallMoves DEF SeenByCheck, At
  <2> QED
    BY <2>2, <2>3
<1> QED
  BY <1>2, <1>3

\* A currency keeps its document until it is deleted.
LEMMA DocumentStays ==
  ASSUME TypeInv, NEW c \in Calls, Step(c), ~Delete(c), NEW k \in Codes, currencies[k] # NoDoc
  PROVE  currencies'[k] # NoDoc
<1> USE DEF TypeInv
<1>1. CASE currencies'[k] = currencies[k]
  BY <1>1
<1>2. CASE currencies'[k] # currencies[k]
  <2>1. k = Code(c) /\ (SaveDocument(c) \/ SaveStatus(c) \/ Create(c))
    BY <1>2, CollectionSteps
  <2>2. ~Create(c)
    BY <1>2, <2>1 DEF Create, collection, placement, caches
  <2>3. CASE SaveDocument(c)
    <3>1. \/ currencies'[k] = [id |-> currencies[k].id, rate |-> job[c].rate,
                               active |-> currencies[k].active]
          \/ currencies'[k] = [id |-> currencies[k].id, rate |-> currencies[k].rate,
                               active |-> job[c].status = "on"]
      BY <1>2, <2>1, <2>3 DEF SaveDocument, TypeOK
    <3> QED
      BY <3>1, DocType, JobType, NoDocAssumption
  <2>4. CASE SaveStatus(c)
    <3>1. currencies'[k] = [id |-> currencies[k].id, rate |-> currencies[k].rate,
                            active |-> job[c].status = "on"]
      BY <1>2, <2>1, <2>4 DEF SaveStatus, TypeOK
    <3> QED
      BY <3>1, DocType, JobType, NoDocAssumption
  <2> QED
    BY <2>1, <2>2, <2>3, <2>4
<1> QED
  BY <1>1, <1>2

\* A user is no longer listed as one without a currency when a switch or a new
\* document gives the user one.
LEMMA UnlistedStep ==
  ASSUME TypeInv, WalletInv, NEW c \in Calls, Step(c), NEW u \in Users
  PROVE  currencies'[currency'[u]] # NoDoc \/ u \in unlisted'
<1> USE DEF TypeInv
<1>0. /\ currencies[currency[u]] # NoDoc \/ u \in unlisted
      /\ currency[u] \in Codes /\ Code(c) \in Codes
  BY JobType DEF WalletInv, WalletCurrencyExists, TypeOK
<1>1. CASE WriteCurrency(c)
  <2>1. UNCHANGED currencies /\ doc[c] # NoDoc
    BY <1>1 DEF WriteCurrency, WalletInv, FoundTarget
  <2>2. CASE u = User(c)
    BY <1>1, <2>1, <2>2 DEF WriteCurrency, TypeOK
  <2>3. CASE u # User(c)
    BY <1>0, <1>1, <2>1, <2>3 DEF WriteCurrency, TypeOK
  <2> QED
    BY <2>2, <2>3
<1>2. CASE Delete(c)
  <2>1. currency' = currency
    BY <1>2 DEF Delete, wallets, placement, caches
  <2>2. CASE currency[u] = Code(c)
    <3>1. <<c, u>> \in joined
      BY <1>2, <2>2 DEF Delete, WalletInv, SeenByCheck
    <3> QED
      BY <1>0, <1>2, <2>1, <2>2, <3>1 DEF Delete, collection, placement, caches
  <2>3. CASE currency[u] # Code(c)
    <3>1. unlisted \subseteq unlisted'
      BY <1>2 DEF Delete, collection, placement, caches
    <3> QED
      BY <1>0, <2>1, <2>3, <3>1, CollectionSteps
  <2> QED
    BY <2>2, <2>3
<1>3. CASE Create(c)
  <2>1. currency' = currency
    BY <1>3 DEF Create, wallets, placement, caches
  <2>2. CASE currencies[currency[u]] # NoDoc
    BY <1>0, <1>3, <2>1, <2>2, DocumentStays DEF Create, Delete, At
  <2>3. CASE currencies[currency[u]] = NoDoc
    <3>1. CASE currency[u] # Code(c)
      BY <1>0, <1>3, <2>1, <2>3, <3>1 DEF Create, collection, placement, caches
    <3>2. CASE currency[u] = Code(c)
      <4>1. currencies'[Code(c)] = [id |-> c, rate |-> job[c].rate,
                                    active |-> job[c].status # "off"]
        BY <1>0, <1>3, <2>3, <3>2 DEF Create, TypeOK
      <4>2. currencies'[Code(c)] \in Docs
        BY <4>1, JobType DEF Docs
      <4> QED
        BY <2>1, <3>2, <4>2, NoDocAssumption
    <3> QED
      BY <3>1, <3>2
  <2> QED
    BY <2>2, <2>3
<1>4. CASE ~WriteCurrency(c) /\ ~Delete(c) /\ ~Create(c)
  <2>1. currency' = currency
    BY <1>4, CurrencySteps
  <2>2. unlisted' = unlisted
    BY <1>4 DEF Step, ReadCurrency, CacheHit, CacheMiss, Fill, Charge, ChargeFails, Credit,
                Refund, ReadUser, ReadTarget, ReadSource, ReadDocument, SaveDocument, Invalidate,
                ReadDebtors, AdjustDebt, EndAdjustment, SaveStatus, FindDocument, CheckUnused,
                collection, placement, caches
  <2>3. currencies[currency[u]] # NoDoc => currencies'[currency[u]] # NoDoc
    BY <1>0, <1>4, DocumentStays
  <2> QED
    BY <1>0, <2>1, <2>2, <2>3
<1> QED
  BY <1>1, <1>2, <1>3, <1>4

\* The three parts of the invariant are kept by a step.
LEMMA WalletStep ==
  ASSUME TypeInv, WalletInv, NEW c \in Calls, Step(c)
  PROVE  WalletInv'
<1>1. SeenByCheck'
  BY SeenByCheckStep DEF WalletInv
<1>2. FoundTarget'
  <2>1. ASSUME NEW d \in Calls, At(d, "switch", "source")' \/ At(d, "switch", "write")'
        PROVE  doc'[d] # NoDoc
    <3>1. CASE d = c
      BY <2>1, <3>1, TargetSteps DEF WalletInv, FoundTarget, ReadSource
    <3>2. CASE d # c
      BY <2>1, <3>2, OneCallMoves DEF WalletInv, FoundTarget, At
    <3> QED
      BY <3>1, <3>2
  <2> QED
    BY <2>1 DEF FoundTarget
<1>3. WalletCurrencyExists'
  BY UnlistedStep DEF WalletCurrencyExists
<1> QED
  BY <1>1, <1>2, <1>3 DEF WalletInv

\* WalletInv is an invariant.
LEMMA WalletInvariant == Spec => []WalletInv
<1>1. Init => WalletInv
  BY DEF Init, WalletInv, SeenByCheck, FoundTarget, WalletCurrencyExists, At
<1>2. ASSUME TypeInv, WalletInv, [Next]_vars PROVE WalletInv'
  <2>1. ASSUME NEW x \in Workers \X Codes, Expire(x) PROVE WalletInv'
    BY <1>2, <2>1 DEF Expire, WalletInv, SeenByCheck, FoundTarget, WalletCurrencyExists, At,
                      Code, wallets, locals, collection, placement, caches
  <2>2. CASE UNCHANGED vars
    BY <1>2, <2>2 DEF vars, WalletInv, SeenByCheck, FoundTarget, WalletCurrencyExists, At, Code
  <2> QED
    BY <1>2, <2>1, <2>2, WalletStep DEF Next
<1> QED
  BY <1>1, <1>2, TypeInvariant, PTL DEF Spec

\* The currency of a wallet has a document, unless the customer registered
\* without one or a switch and a deletion overtook each other's checks.
THEOREM WalletCurrencyCorrect == Spec => []WalletCurrencyExists
<1>1. WalletInv => WalletCurrencyExists
  BY DEF WalletInv
<1> QED
  BY <1>1, WalletInvariant, PTL

-----------------------------------------------------------------------------
(* The rate of a switch.                                                   *)

\* The rate 1 is the base currency's alone.
OnesAreBase ==
  \A k \in Codes \ {USD} : currencies[k] # NoDoc => currencies[k].rate \in Rates

\* Neither a new document nor a new rate brings the rate 1 to a currency.
LEMMA OnesStep ==
  ASSUME TypeInv, OnesAreBase, NEW c \in Calls, Step(c)
  PROVE  OnesAreBase'
<1> USE DEF TypeInv
<1> SUFFICES ASSUME NEW k \in Codes \ {USD}, currencies'[k] # NoDoc
             PROVE  currencies'[k].rate \in Rates
  BY DEF OnesAreBase
<1>1. CASE currencies'[k] = currencies[k]
  BY <1>1 DEF OnesAreBase
<1>2. CASE currencies'[k] # currencies[k]
  <2>1. k = Code(c) /\ (SaveDocument(c) \/ SaveStatus(c) \/ Create(c) \/ Delete(c))
    BY <1>2, CollectionSteps
  <2>2. job[c].op \in {"setRate", "create"} => job[c].rate \in Rates
    BY <2>1, OnesAssumption DEF Code, TypeOK
  <2>3. CASE SaveDocument(c)
    <3>1. \/ /\ job[c].op = "setRate"
             /\ currencies'[k] = [id |-> currencies[k].id, rate |-> job[c].rate,
                                  active |-> currencies[k].active]
          \/ /\ currencies[k] # NoDoc
             /\ currencies'[k] = [id |-> currencies[k].id, rate |-> currencies[k].rate,
                                  active |-> job[c].status = "on"]
      BY <1>2, <2>1, <2>3 DEF SaveDocument, Stored, TypeOK
    <3> QED
      BY <2>2, <3>1 DEF OnesAreBase
  <2>4. CASE SaveStatus(c)
    <3>1. /\ currencies[k] # NoDoc
          /\ currencies'[k] = [id |-> currencies[k].id, rate |-> currencies[k].rate,
                               active |-> job[c].status = "on"]
      BY <1>2, <2>1, <2>4 DEF SaveStatus, Stored, TypeOK
    <3> QED
      BY <3>1 DEF OnesAreBase
  <2>5. CASE Create(c)
    <3>1. /\ job[c].op = "create"
          /\ currencies'[k] = [id |-> c, rate |-> job[c].rate, active |-> job[c].status # "off"]
      BY <1>2, <2>1, <2>5 DEF Create, At, collection, TypeOK, placement, caches
    <3> QED
      BY <2>2, <3>1
  <2>6. CASE Delete(c)
    BY <1>2, <2>1, <2>6 DEF Delete, collection, TypeOK, placement, caches
  <2> QED
    BY <2>1, <2>3, <2>4, <2>5, <2>6
<1> QED
  BY <1>1, <1>2

\* OnesAreBase is an invariant.
LEMMA OnesInvariant == Spec => []OnesAreBase
<1>1. Init => OnesAreBase
  <2> SUFFICES ASSUME Init, NEW k \in Codes \ {USD}, currencies[k] # NoDoc
               PROVE  currencies[k].rate \in Rates
    BY DEF OnesAreBase
  <2>1. currencies[k] \in [id: {Seed}, rate: Rates, active: BOOLEAN]
    BY DEF Init
  <2> QED
    BY <2>1
<1>2. ASSUME TypeInv, OnesAreBase, [Next]_vars PROVE OnesAreBase'
  <2>1. ASSUME NEW x \in Workers \X Codes, Expire(x) PROVE OnesAreBase'
    BY <1>2, <2>1 DEF Expire, OnesAreBase, collection, placement, caches
  <2>2. CASE UNCHANGED vars
    BY <1>2, <2>2 DEF vars, OnesAreBase
  <2> QED
    BY <1>2, <2>1, <2>2, OnesStep DEF Next
<1> QED
  BY <1>1, <1>2, TypeInvariant, PTL DEF Spec

\* A switch divides by 1 what is not in the base currency only for a customer
\* whose currency has no document, or has another currency by now.
THEOREM SwitchCorrect == Spec => ConvertsAtKnownRate
<1>1. ASSUME TypeInv, WalletInv, OnesAreBase, [Next]_vars
      PROVE  [\A c \in Calls :
                At(c, "switch", "source") /\ pc'[c] = "write" /\ own[c] # USD /\ from'[c] = 1
                  => User(c) \in unlisted \/ currency[User(c)] # own[c]]_vars
  <2> SUFFICES ASSUME NEW c \in Calls, At(c, "switch", "source"), pc'[c] = "write",
                      own[c] # USD, from'[c] = 1, User(c) \notin unlisted, Next
               PROVE  currency[User(c)] # own[c]
    BY <1>1
  <2>1. Step(c)
    <3>1. ASSUME NEW d \in Calls, Step(d) PROVE d = c
      BY <1>1, <3>1, OneCallMoves DEF At
    <3>2. ASSUME NEW x \in Workers \X Codes, Expire(x) PROVE FALSE
      BY <3>2 DEF Expire, At
    <3> QED
      BY <3>1, <3>2 DEF Next
  <2>2. At(c, "switch", "write")'
    BY <1>1, <2>1, OneCallMoves DEF At
  <2>3. ReadSource(c)
    BY <1>1, <2>1, <2>2, TargetSteps DEF ReadTarget, At
  <2>4. OldRate(own[c]) = 1 /\ own[c] \in Codes
    BY <1>1, <2>3 DEF ReadSource, TypeInv, TypeOK, Owned
  <2>5. currencies[own[c]] = NoDoc
    BY <1>1, <2>4, RatesAssumption DEF OldRate, OnesAreBase
  <2>6. currencies[currency[User(c)]] # NoDoc
    BY <1>1, JobType DEF WalletInv, WalletCurrencyExists, TypeInv
  <2> QED
    BY <2>5, <2>6
<1> QED
  BY <1>1, TypeInvariant, WalletInvariant, OnesInvariant, PTL DEF Spec, ConvertsAtKnownRate

\* The two together.
THEOREM SwitchAlwaysSound == Spec => SwitchIsSound
BY WalletCurrencyCorrect, SwitchCorrect, PTL DEF SwitchIsSound
=============================================================================
