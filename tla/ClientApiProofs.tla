--------------------------- MODULE ClientApiProofs ---------------------------
(***************************************************************************)
(* Proofs about ClientApi for any number of products, orders and requests, *)
(* any bounds and any forms: what clients were told stays true, the        *)
(* counter never falls behind, and orders are stored with what fits.       *)
(*                                                                         *)
(* The argument is about what requests under way may still write: a number *)
(* goes only to a product that has none, or to one that is about to be     *)
(* inserted, which nobody can have been told about.                        *)
(***************************************************************************)
EXTENDS ClientApi, WellFoundedInduction, TLAPS

USE DEF orders

Positive == Nat \ {0}

\* Of a request under way, as far as the proofs need it: what it is for, what
\* it is on, and the number it brings.
ReqOK(r) ==
  LET t == req[r] IN
  /\ DOMAIN t = {"step", "for", "on", "mine", "left"}
  /\ t.for = "insert" => t.on \in Products \ stored
  /\ t.step \in {"find", "create", "increment"} =>
       t.for = "insert" \/ t.on \in Products \cap stored
  /\ t.step = "insert" => t.for = "insert" /\ t.mine \in Positive
  /\ t.step = "assign" => t.on \in Products \cap stored /\ t.mine \in Positive
  /\ t.step = "reread" => t.on \in Products \cap stored /\ number[t.on] # 0
  /\ t.step = "sync" => t.mine \in Nat
  /\ t.step = "code" => t.on \in Orders \cap placed
  /\ t.step = "reread code" => t.on \in Orders \cap placed /\ code[t.on] # None

\* No two insertions are on the same product.
Apart ==
  \A q, r \in Requests :
    req[q].for = "insert" /\ req[r].for = "insert" /\ req[q].on = req[r].on => q = r

\* Numbers and codes belong to records that are there, to one each.
IdsOK ==
  /\ number \in [Products -> Nat] /\ stored \subseteq Products
  /\ counter \in Nat
  /\ code \in [Orders -> Codes \cup {None}] /\ placed \subseteq Orders
  /\ \A x \in Products : number[x] # 0 => x \in stored
  /\ \A x, y \in Products : number[x] # 0 /\ number[x] = number[y] => x = y
  /\ \A o \in Orders : code[o] # None => o \in placed
  /\ \A o, q \in Orders : code[o] # None /\ code[o] = code[q] => o = q

ToldOK ==
  \A p \in told : \/ \E x \in Products : p = <<x, number[x]>> /\ number[x] # 0
                  \/ \E o \in Orders : p = <<o, code[o]>> /\ code[o] # None

IInv ==
  /\ DOMAIN req = Requests /\ \A r \in Requests : ReqOK(r)
  /\ Apart /\ IdsOK /\ ToldOK

\* What was told is true now, and no number or code names two records.
LEMMA Truths == ASSUME IInv PROVE AnswersStand
<1> USE IdsAreDistinct DEF IInv, ToldOK, IdsOK
<1>1. ASSUME NEW a \in told
      PROVE  a[2] = IF a[1] \in Products THEN number[a[1]] ELSE code[a[1]]
  BY <1>1
<1>2. ASSUME NEW a \in told, NEW b \in told, b[2] = a[2]
      PROVE  b[1] = a[1]
  <2>1. ASSUME NEW x \in Products, NEW o \in Orders, number[x] = code[o], code[o] # None
        PROVE  FALSE
    BY <2>1
  <2> QED BY <1>2, <2>1
<1> QED BY <1>1, <1>2 DEF AnswersStand

-----------------------------------------------------------------------------
(* What a step leaves true *)

\* Records stay, with the numbers and codes they have.
Grows ==
  /\ stored \subseteq stored' /\ placed \subseteq placed'
  /\ \A x \in Products : number[x] # 0 => number'[x] = number[x]
  /\ \A o \in Orders : code[o] # None => code'[o] = code[o]

\* A step of request r leaves the others alone.
Alone(r) == DOMAIN req' = Requests /\ \A q \in Requests \ {r} : req'[q] = req[q]

Same == UNCHANGED <<number, stored, code, placed>>

LEMMA TaskFields ==
  ASSUME NEW step, NEW for, NEW x, NEW m
  PROVE  LET t == Task(step, for, x)
             u == [Task(step, for, x) EXCEPT !.mine = m]
         IN /\ DOMAIN t = {"step", "for", "on", "mine", "left"}
            /\ t.step = step /\ t.for = for /\ t.on = x
            /\ DOMAIN u = {"step", "for", "on", "mine", "left"}
            /\ u.step = step /\ u.for = for /\ u.on = x /\ u.mine = m
  BY DEF Task, Idle

\* What is needed of the state after a step of request r.
LEMMA RestKept ==
  ASSUME IInv, NEW r \in Requests, Alone(r), ReqOK(r)', Grows, IdsOK', ToldOK',
         req'[r].for = "insert" =>
           \A q \in Requests \ {r} : req[q].for = "insert" => req[q].on # req'[r].on,
         \A q \in Requests \ {r} : req[q].for = "insert" => req[q].on \notin stored'
  PROVE  IInv'
<1>1. ASSUME NEW q \in Requests \ {r}
      PROVE  ReqOK(q)'
  <2>1. req'[q] = req[q] /\ ReqOK(q)
    BY DEF Alone, IInv
  <2> QED BY <2>1 DEF ReqOK, Grows
<1>2. ASSUME NEW q \in Requests, NEW p \in Requests, req'[q].for = "insert",
             req'[q].on = req'[p].on, req'[p].for = "insert"
      PROVE  q = p
  <2>1. CASE q # r /\ p # r
    BY <1>2, <2>1 DEF Alone, IInv, Apart
  <2>2. CASE q = r /\ p # r
    BY <1>2, <2>2 DEF Alone
  <2>3. CASE p = r /\ q # r
    BY <1>2, <2>3 DEF Alone
  <2> QED BY <2>1, <2>2, <2>3
<1> QED BY <1>1, <1>2 DEF IInv, Alone, Apart

\* Answers stay true while records stay; new ones have to be.
LEMMA ToldKept ==
  ASSUME IInv, Grows,
         \A p \in told' \ told : \/ \E x \in Products : p = <<x, number'[x]>> /\ number'[x] # 0
                                 \/ \E o \in Orders : p = <<o, code'[o]>> /\ code'[o] # None
  PROVE  ToldOK'
  BY DEF IInv, ToldOK, Grows

LEMMA SameKept ==
  ASSUME IInv, Same, counter' \in Nat
  PROVE  /\ Grows /\ IdsOK' /\ (told' = told => ToldOK')
         /\ \A q \in Requests : req[q].for = "insert" => req[q].on \notin stored'
<1>1. Grows
  BY DEF Same, Grows
<1>2. IdsOK'
  BY DEF Same, IInv, IdsOK
<1>3. \A q \in Requests : req[q].for = "insert" => req[q].on \notin stored'
  BY DEF Same, IInv, ReqOK
<1> QED BY <1>1, <1>2, <1>3, ToldKept

\* A request that only moves on.
LEMMA Moves ==
  ASSUME IInv, NEW r \in Requests, Same, counter' \in Nat, told' = told, Alone(r), ReqOK(r)',
         req'[r].for = "insert" =>
           \A q \in Requests \ {r} : req[q].for = "insert" => req[q].on # req'[r].on
  PROVE  IInv'
  BY SameKept, RestKept

\* A request that moves on and stays what it is.
LEMMA MovesOn ==
  ASSUME IInv, NEW r \in Requests, Same, counter' \in Nat, told' = told, Alone(r), ReqOK(r)',
         req'[r].for = req[r].for, req'[r].on = req[r].on
  PROVE  IInv'
<1>1. \A q \in Requests \ {r} :
        req[r].for = "insert" /\ req[q].for = "insert" => req[q].on # req[r].on
  BY DEF IInv, Apart
<1> QED BY <1>1, Moves

\* A request that begins, unless it is an insertion.
LEMMA Begins ==
  ASSUME IInv, NEW r \in Requests, NEW x, Begin(r, x), Same, counter' = counter, told' = told,
         DOMAIN x = {"step", "for", "on", "mine", "left"}, x.for # "insert",
         \/ x.step = "find" /\ x.on \in Products \cap stored
         \/ x.step = "code" /\ x.on \in Orders \cap placed
         \/ x.step = "sync" /\ x.mine \in Nat
         \/ x.step \in {"scan", "create order"}
  PROVE  IInv'
<1>1. Alone(r) /\ req'[r] = x
  BY DEF Begin, IInv, Alone
<1>2. ReqOK(r)'
  BY <1>1 DEF ReqOK, Same
<1>3. counter' \in Nat
  BY DEF IInv, IdsOK
<1> QED BY <1>1, <1>2, <1>3, Moves

\* The end of a request.
LEMMA EndsWell ==
  ASSUME IInv, NEW r \in Requests, Ends(r)
  PROVE  Alone(r) /\ ReqOK(r)' /\ req'[r].for = "nothing"
<1>1. Alone(r) /\ req'[r] = Idle
  BY DEF Ends, IInv, Alone
<1> QED BY <1>1 DEF ReqOK, Idle

LEMMA Ended ==
  ASSUME IInv, NEW r \in Requests, Ends(r), Same, counter' = counter, told' = told
  PROVE  IInv'
<1>1. counter' \in Nat
  BY DEF IInv, IdsOK
<1> QED BY <1>1, EndsWell, Moves

\* A new answer at the end of a request, or without one.
LEMMA Answered ==
  ASSUME IInv, NEW r \in Requests, Ends(r) \/ req' = req, Same, counter' = counter,
         NEW p, told' = told \cup {p},
         \/ \E x \in Products : p = <<x, number[x]>> /\ number[x] # 0
         \/ \E o \in Orders : p = <<o, code[o]>> /\ code[o] # None
  PROVE  IInv'
<1>1. counter' \in Nat
  BY DEF IInv, IdsOK
<1>2. ToldOK'
  BY <1>1, SameKept, ToldKept DEF Same
<1>3. CASE Ends(r)
  BY <1>1, <1>2, <1>3, EndsWell, SameKept, RestKept
<1>4. CASE req' = req
  <2>1. Alone(r) /\ ReqOK(r)'
    BY <1>4 DEF IInv, Alone, ReqOK, Same
  <2>2. \A q \in Requests \ {r} :
          req[r].for = "insert" /\ req[q].for = "insert" => req[q].on # req[r].on
    BY DEF IInv, Apart
  <2> QED BY <1>1, <1>2, <1>4, <2>1, <2>2, SameKept, RestKept
<1> QED BY <1>3, <1>4

\* A further attempt or an error.
LEMMA Retried ==
  ASSUME IInv, NEW r \in Requests, NEW step, TryAgain(r, step), Same, counter' = counter,
         told' = told,
         \/ step = "find" /\ req[r].step = "assign"
         \/ step = "code" /\ req[r].step = "code"
  PROVE  IInv'
<1>0. counter' \in Nat
  BY DEF IInv, IdsOK
<1>1. CASE Ends(r)
  BY <1>1, Ended
<1>2. CASE req' = [req EXCEPT ![r].step = step, ![r].left = @ - 1, ![r].mine = None]
  <2>1. /\ Alone(r) /\ req'[r].step = step /\ req'[r].for = req[r].for
        /\ req'[r].on = req[r].on /\ DOMAIN req'[r] = DOMAIN req[r]
    BY <1>2 DEF IInv, Alone, ReqOK
  <2>2. ReqOK(r)
    BY DEF IInv
  <2>3. ReqOK(r)'
    BY <2>1, <2>2 DEF ReqOK, Same
  <2> QED BY <1>0, <2>1, <2>3, MovesOn
<1> QED BY <1>1, <1>2 DEF TryAgain

-----------------------------------------------------------------------------
(* The steps *)

LEMMA InvInit == Init => IInv
<1>1. ASSUME Init
      PROVE  IInv
  <2>1. \A r \in Requests : ReqOK(r)
    BY <1>1 DEF Init, ReqOK, Idle
  <2>2. Apart
    BY <1>1 DEF Init, Apart, Idle
  <2>3. IdsOK
    BY <1>1, NumbersAreNatural DEF Init, IdsOK
  <2>4. ToldOK
    BY <1>1 DEF Init, ToldOK
  <2> QED BY <1>1, <2>1, <2>2, <2>3, <2>4 DEF Init, IInv
<1> QED BY <1>1

LEMMA ShowKeeps ==
  ASSUME IInv, NEW r \in Requests, NEW x \in Products, Show(r, x)
  PROVE  IInv'
<1>1. Same /\ counter' = counter /\ x \in stored
  BY DEF Show, Same
<1>2. CASE number[x] # 0
  <2>1. req' = req /\ told' = told \cup {<<x, number[x]>>}
    BY <1>2 DEF Show
  <2> QED BY <1>1, <1>2, <2>1, Answered
<1>3. CASE number[x] = 0
  <2> DEFINE t == Task("find", "client", x)
  <2>1. Begin(r, t) /\ told' = told
    BY <1>3 DEF Show
  <2>2. /\ DOMAIN t = {"step", "for", "on", "mine", "left"}
        /\ t.step = "find" /\ t.for = "client" /\ t.on = x
    BY TaskFields
  <2> HIDE DEF t
  <2> QED BY <1>1, <2>1, <2>2, Begins
<1> QED BY <1>2, <1>3

LEMMA AddKeeps ==
  ASSUME IInv, NEW r \in Requests, NEW x \in Products, AddProduct(r, x)
  PROVE  IInv'
<1> DEFINE t == Task("find", "insert", x)
<1>1. /\ Same /\ counter' = counter /\ told' = told /\ x \notin stored /\ Begin(r, t)
      /\ \A q \in Requests : req[q].on # x
  BY DEF AddProduct, Same
<1>2. /\ DOMAIN t = {"step", "for", "on", "mine", "left"}
      /\ t.step = "find" /\ t.for = "insert" /\ t.on = x
  BY TaskFields
<1> HIDE DEF t
<1>3. Alone(r) /\ req'[r] = t
  BY <1>1 DEF Begin, IInv, Alone
<1>4. ReqOK(r)' /\ counter' \in Nat
  BY <1>1, <1>2, <1>3 DEF ReqOK, Same, IInv, IdsOK
<1> QED BY <1>1, <1>2, <1>3, <1>4, Moves

LEMMA BackfillKeeps ==
  ASSUME IInv, NEW r \in Requests, BackfillStart(r) \/ BackfillSync(r) \/ BackfillNext(r)
  PROVE  IInv'
<1>0. Same /\ told' = told /\ counter \in Nat
  BY DEF BackfillStart, BackfillSync, BackfillNext, Same, IInv, IdsOK
<1>1. CASE BackfillStart(r)
  <2>1. PICK top \in {number[x] : x \in stored} \cup {StartAt} :
          Begin(r, [Task("sync", "script", None) EXCEPT !.mine = top])
    BY <1>1 DEF BackfillStart
  <2> DEFINE t == [Task("sync", "script", None) EXCEPT !.mine = top]
  <2>2. top \in Nat
    BY <2>1, NumbersAreNatural DEF IInv, IdsOK
  <2>3. /\ DOMAIN t = {"step", "for", "on", "mine", "left"}
        /\ t.step = "sync" /\ t.for = "script" /\ t.mine = top
    BY TaskFields
  <2>4. Begin(r, t) /\ counter' = counter
    BY <1>1, <2>1 DEF BackfillStart
  <2> HIDE DEF t
  <2> QED BY <1>0, <2>2, <2>3, <2>4, Begins
<1>2. CASE BackfillSync(r)
  <2>1. /\ req' = [req EXCEPT ![r].step = "scan", ![r].mine = None]
        /\ counter' = Raised(counter, req[r].mine) /\ req[r].step = "sync"
    BY <1>2 DEF BackfillSync
  <2>2. counter' \in Nat
    BY <1>0, <2>1 DEF Raised, IInv, ReqOK
  <2>3. /\ Alone(r) /\ req'[r].step = "scan" /\ req'[r].for = req[r].for
        /\ req'[r].on = req[r].on /\ DOMAIN req'[r] = DOMAIN req[r]
    BY <2>1 DEF IInv, Alone, ReqOK
  <2>4. ReqOK(r)'
    BY <1>0, <2>3 DEF IInv, ReqOK, Same
  <2> QED BY <1>0, <2>2, <2>3, <2>4, MovesOn
<1>3. CASE BackfillNext(r)
  <2>1. counter' = counter
    BY <1>3 DEF BackfillNext
  <2>2. CASE Ends(r)
    BY <1>0, <2>1, <2>2, Ended
  <2>3. ASSUME NEW x \in stored, req' = [req EXCEPT ![r] = Task("find", "script", x)]
        PROVE  IInv'
    <3> DEFINE t == Task("find", "script", x)
    <3>1. /\ DOMAIN t = {"step", "for", "on", "mine", "left"}
          /\ t.step = "find" /\ t.for = "script" /\ t.on = x
      BY TaskFields
    <3>2. req' = [req EXCEPT ![r] = t]
      BY <2>3
    <3> HIDE DEF t
    <3>3. Alone(r) /\ req'[r] = t /\ x \in Products
      BY <2>3, <3>2 DEF IInv, Alone, IdsOK
    <3>4. x \in stored'
      BY <1>0 DEF Same
    <3>5. ReqOK(r)'
      BY <3>1, <3>3, <3>4 DEF ReqOK
    <3> QED BY <1>0, <2>1, <3>1, <3>3, <3>5, Moves
  <2> QED BY <1>3, <2>2, <2>3 DEF BackfillNext
<1> QED BY <1>1, <1>2, <1>3

LEMMA CounterKeeps ==
  ASSUME IInv, NEW r \in Requests, FindCounter(r) \/ CreateCounter(r) \/ Increment(r)
  PROVE  IInv'
<1>0. Same /\ told' = told /\ counter \in Nat /\ ReqOK(r)
  BY DEF FindCounter, CreateCounter, Increment, Same, IInv, IdsOK
<1>1. CASE FindCounter(r) \/ CreateCounter(r)
  <2>1. /\ counter' \in Nat
        /\ \E step \in {"create", "increment"} : Goes(r, step)
        /\ req[r].step \in {"find", "create"}
    BY <1>0, <1>1, NumbersAreNatural DEF FindCounter, CreateCounter
  <2>2. /\ Alone(r) /\ req'[r].step \in {"create", "increment"} /\ req'[r].for = req[r].for
        /\ req'[r].on = req[r].on /\ DOMAIN req'[r] = DOMAIN req[r]
    BY <1>0, <2>1 DEF IInv, Alone, ReqOK, Goes
  <2>3. ReqOK(r)'
    BY <1>0, <2>1, <2>2 DEF ReqOK, Same
  <2> QED BY <1>0, <2>1, <2>2, <2>3, MovesOn
<1>2. CASE Increment(r)
  <2>1. /\ req[r].step = "increment" /\ counter' = counter + 1
        /\ req' = [req EXCEPT ![r].step = IF req[r].for = "insert" THEN "insert" ELSE "assign",
                              ![r].mine = counter + 1]
    BY <1>2 DEF Increment
  <2>2. /\ Alone(r) /\ req'[r].step = (IF req[r].for = "insert" THEN "insert" ELSE "assign")
        /\ req'[r].mine = counter + 1 /\ req'[r].for = req[r].for
        /\ req'[r].on = req[r].on /\ DOMAIN req'[r] = DOMAIN req[r]
    BY <1>0, <2>1 DEF IInv, Alone, ReqOK
  <2>3. counter + 1 \in Positive /\ counter' \in Nat
    BY <1>0, <2>1 DEF Positive
  <2>4. ReqOK(r)'
    <3>1. CASE req[r].for = "insert"
      <4>1. req[r].on \in Products \ stored /\ req'[r].step = "insert"
        BY <1>0, <2>2, <3>1 DEF ReqOK
      <4> QED BY <1>0, <2>2, <2>3, <3>1, <4>1 DEF ReqOK, Same
    <3>2. CASE req[r].for # "insert"
      <4>1. req[r].on \in Products \cap stored /\ req'[r].step = "assign"
        BY <1>0, <2>1, <2>2, <3>2 DEF ReqOK
      <4> QED BY <1>0, <2>2, <2>3, <3>2, <4>1 DEF ReqOK, Same
    <3> QED BY <3>1, <3>2
  <2> QED BY <1>0, <2>2, <2>3, <2>4, MovesOn
<1> QED BY <1>1, <1>2

\* A product gets a number that no other has.
LEMMA Numbered ==
  ASSUME IInv, NEW x \in Products, NEW n \in Positive, number[x] = 0, ~Taken(n),
         number' = [number EXCEPT ![x] = n], counter' = counter,
         stored' = stored \cup {x}, UNCHANGED <<code, placed>>
  PROVE  Grows /\ IdsOK'
<1>1. \A y \in Products : number[y] # n
  BY DEF Taken, IInv, IdsOK, Positive
<1>2. Grows
  BY DEF Grows, IInv, IdsOK
<1>3. IdsOK'
  BY <1>1 DEF IInv, IdsOK, Positive
<1> QED BY <1>2, <1>3

LEMMA AssignKeeps ==
  ASSUME IInv, NEW r \in Requests, Assign(r)
  PROVE  IInv'
<1> DEFINE t == req[r]
<1>0. /\ t.step = "assign" /\ UNCHANGED <<stored, counter, code, placed>> /\ counter \in Nat
      /\ ReqOK(r) /\ t.on \in Products \cap stored /\ t.mine \in Positive
  BY DEF Assign, IInv, IdsOK, ReqOK
<1>a. t.for # "insert"
  BY <1>0 DEF ReqOK
<1>1. CASE /\ Unnumbered(t.on) /\ ~Taken(t.mine) /\ number' = [number EXCEPT ![t.on] = t.mine]
           /\ \/ told' = told \cup {<<t.on, t.mine>>} /\ Ends(r)
              \/ told' = told /\ Goes(r, "scan")
  <2>1. stored' = stored \cup {t.on}
    BY <1>0
  <2>2. Grows /\ IdsOK'
    BY <1>0, <1>1, <2>1, Numbered DEF Unnumbered
  <2>3. number'[t.on] = t.mine /\ t.mine # 0
    BY <1>0, <1>1 DEF IInv, IdsOK, Positive
  <2>4. ToldOK'
    BY <1>0, <1>1, <2>2, <2>3, ToldKept
  <2>5. \A q \in Requests \ {r} : req[q].for = "insert" => req[q].on \notin stored'
    BY <1>0 DEF IInv, ReqOK
  <2>6. Alone(r) /\ ReqOK(r)' /\ req'[r].for # "insert"
    <3>1. CASE Ends(r)
      BY <3>1, EndsWell
    <3>2. CASE Goes(r, "scan")
      <4>1. /\ Alone(r) /\ req'[r].step = "scan" /\ req'[r].for = req[r].for
            /\ DOMAIN req'[r] = DOMAIN req[r]
        BY <1>0, <3>2 DEF IInv, Alone, ReqOK, Goes
      <4> QED BY <1>0, <1>a, <4>1 DEF ReqOK
    <3> QED BY <1>1, <3>1, <3>2
  <2> QED BY <2>2, <2>4, <2>5, <2>6, RestKept
<1>2. CASE Unnumbered(t.on) /\ Taken(t.mine) /\ TryAgain(r, "find") /\ UNCHANGED <<number, told>>
  BY <1>0, <1>2, Retried DEF Same
<1>3. CASE /\ ~Unnumbered(t.on) /\ UNCHANGED <<number, told>>
           /\ Goes(r, IF t.for = "client" THEN "reread" ELSE "scan")
  <2>1. Same /\ number[t.on] # 0 /\ counter' \in Nat
    BY <1>0, <1>3 DEF Same, Unnumbered
  <2>2. /\ Alone(r) /\ req'[r].step \in {"reread", "scan"} /\ req'[r].for = req[r].for
        /\ req'[r].on = req[r].on /\ DOMAIN req'[r] = DOMAIN req[r]
    BY <1>0, <1>3 DEF IInv, Alone, ReqOK, Goes
  <2>3. ReqOK(r)'
    BY <1>0, <2>1, <2>2 DEF ReqOK, Same
  <2> QED BY <1>3, <2>1, <2>2, <2>3, MovesOn
<1> QED BY <1>1, <1>2, <1>3 DEF Assign

LEMMA InsertKeeps ==
  ASSUME IInv, NEW r \in Requests, Insert(r)
  PROVE  IInv'
<1> DEFINE t == req[r]
<1>0. /\ Ends(r) /\ UNCHANGED <<counter, code, placed, told>>
      /\ t.for = "insert" /\ t.on \in Products \ stored /\ t.mine \in Positive
  BY DEF Insert, IInv, ReqOK
<1>1. CASE Taken(t.mine)
  BY <1>0, <1>1, Ended DEF Insert, Same
<1>2. CASE ~Taken(t.mine)
  <2>1. stored' = stored \cup {t.on} /\ number' = [number EXCEPT ![t.on] = t.mine]
    BY <1>2 DEF Insert
  <2>2. number[t.on] = 0
    BY <1>0 DEF IInv, IdsOK
  <2>3. Grows /\ IdsOK'
    BY <1>0, <1>2, <2>1, <2>2, Numbered
  <2>4. ToldOK'
    BY <1>0, <2>3, ToldKept
  <2>5. \A q \in Requests \ {r} : req[q].for = "insert" => req[q].on \notin stored'
    BY <1>0, <2>1 DEF IInv, ReqOK, Apart
  <2> QED BY <1>0, <2>3, <2>4, <2>5, EndsWell, RestKept
<1> QED BY <1>1, <1>2

LEMMA RereadKeeps ==
  ASSUME IInv, NEW r \in Requests, Reread(r) \/ RereadCode(r)
  PROVE  IInv'
<1>1. CASE Reread(r)
  <2>1. req[r].on \in Products /\ number[req[r].on] # 0
    BY <1>1 DEF Reread, IInv, ReqOK
  <2> QED BY <1>1, <2>1, Answered DEF Reread, Same
<1>2. CASE RereadCode(r)
  <2>1. req[r].on \in Orders /\ code[req[r].on] # None
    BY <1>2 DEF RereadCode, IInv, ReqOK
  <2> QED BY <1>2, <2>1, Answered DEF RereadCode, Same
<1> QED BY <1>1, <1>2

\* The beginning of an order.
LEMMA PlaceKeeps ==
  ASSUME IInv, NEW r \in Requests, NEW for \in {"compat", "direct"}, NEW mine, Place(r, for, mine)
  PROVE  IInv'
<1> DEFINE t == [Task("create order", for, None) EXCEPT !.mine = mine]
<1>1. /\ DOMAIN t = {"step", "for", "on", "mine", "left"}
      /\ t.step = "create order" /\ t.for = for
  BY DEF Task, Idle
<1>2. Begin(r, t) /\ Same /\ counter' = counter /\ told' = told
  BY DEF Place, Same
<1> HIDE DEF t
<1> QED BY <1>1, <1>2, Begins

\* An order that goes from one of its steps to another.
LEMMA OrderMoves ==
  ASSUME IInv, NEW r \in Requests, Same, counter' = counter, told' = told, NEW x,
         NEW step \in {"create order", "store order"},
         req' = [req EXCEPT ![r].step = step, ![r].mine = x]
  PROVE  IInv'
<1>1. /\ Alone(r) /\ req'[r].step = step /\ req'[r].for = req[r].for
      /\ req'[r].on = req[r].on /\ DOMAIN req'[r] = DOMAIN req[r]
  BY DEF IInv, Alone, ReqOK
<1>2. ReqOK(r) /\ counter' \in Nat
  BY DEF IInv, IdsOK
<1>3. ReqOK(r)'
  BY <1>1, <1>2 DEF ReqOK, Same
<1> QED BY <1>1, <1>2, <1>3, MovesOn

LEMMA ValidateKeeps ==
  ASSUME IInv, NEW r \in Requests, ValidateOrder(r)
  PROVE  IInv'
<1>1. Same /\ counter' = counter /\ told' = told
  BY DEF ValidateOrder, Same
<1>2. CASE Ends(r)
  BY <1>1, <1>2, Ended
<1>3. ASSUME NEW x, req' = [req EXCEPT ![r].step = "store order", ![r].mine = x]
      PROVE  IInv'
  BY <1>1, <1>3, OrderMoves
<1> QED BY <1>2, <1>3 DEF ValidateOrder

LEMMA StoreKeeps ==
  ASSUME IInv, NEW r \in Requests, StoreOrder(r)
  PROVE  IInv'
<1>0. UNCHANGED <<number, stored, counter, code, told>>
  BY DEF StoreOrder
<1>1. CASE Ends(r) /\ UNCHANGED placed
  BY <1>0, <1>1, Ended DEF Same
<1>2. CASE req' = [req EXCEPT ![r].step = "create order", ![r].mine.input = None] /\ UNCHANGED placed
  <2>1. req' = [req EXCEPT ![r].step = "create order", ![r].mine = [req[r].mine EXCEPT !.input = None]]
    BY <1>2
  <2> QED BY <1>0, <1>2, <2>1, OrderMoves DEF Same
<1>3. ASSUME NEW o \in Orders \ placed, placed' = placed \cup {o},
             \/ req' = [req EXCEPT ![r] = Task("code", "compat", o)]
             \/ Ends(r)
      PROVE  IInv'
  <2>1. Grows
    BY <1>0, <1>3 DEF Grows
  <2>2. IdsOK'
    BY <1>0, <1>3 DEF IInv, IdsOK
  <2>3. ToldOK'
    BY <1>0, <2>1, ToldKept
  <2>4. \A q \in Requests : req[q].for = "insert" => req[q].on \notin stored'
    BY <1>0 DEF IInv, ReqOK
  <2>5. Alone(r) /\ ReqOK(r)' /\ req'[r].for # "insert"
    <3>1. CASE Ends(r)
      BY <3>1, EndsWell
    <3>2. CASE req' = [req EXCEPT ![r] = Task("code", "compat", o)]
      <4> DEFINE t == Task("code", "compat", o)
      <4>1. /\ DOMAIN t = {"step", "for", "on", "mine", "left"}
            /\ t.step = "code" /\ t.for = "compat" /\ t.on = o
        BY TaskFields
      <4>2. req' = [req EXCEPT ![r] = t]
        BY <3>2
      <4> HIDE DEF t
      <4>3. Alone(r) /\ req'[r] = t
        BY <4>2 DEF IInv, Alone
      <4> QED BY <1>3, <4>1, <4>3 DEF ReqOK
    <3> QED BY <1>3, <3>1, <3>2
  <2> QED BY <2>1, <2>2, <2>3, <2>4, <2>5, RestKept
<1> QED BY <1>1, <1>2, <1>3 DEF StoreOrder

LEMMA CheckKeeps ==
  ASSUME IInv, NEW r \in Requests, NEW o \in Orders, CheckOrder(r, o)
  PROVE  IInv'
<1>1. Same /\ counter' = counter /\ o \in placed
  BY DEF CheckOrder, Same
<1>2. CASE code[o] # None
  <2>1. req' = req /\ told' = told \cup {<<o, code[o]>>}
    BY <1>2 DEF CheckOrder
  <2> QED BY <1>1, <1>2, <2>1, Answered
<1>3. CASE code[o] = None
  <2> DEFINE t == Task("code", "client", o)
  <2>1. Begin(r, t) /\ told' = told
    BY <1>3 DEF CheckOrder
  <2>2. /\ DOMAIN t = {"step", "for", "on", "mine", "left"}
        /\ t.step = "code" /\ t.for = "client" /\ t.on = o
    BY TaskFields
  <2> HIDE DEF t
  <2> QED BY <1>1, <2>1, <2>2, Begins
<1> QED BY <1>2, <1>3

LEMMA AssignCodeKeeps ==
  ASSUME IInv, NEW r \in Requests, AssignCode(r)
  PROVE  IInv'
<1> DEFINE t == req[r]
<1>0. /\ t.step = "code" /\ UNCHANGED <<number, stored, counter, placed>> /\ counter' \in Nat
      /\ ReqOK(r) /\ t.on \in Orders \cap placed
  BY DEF AssignCode, IInv, IdsOK, ReqOK
<1>1. ASSUME NEW c \in Codes, code[t.on] = None, \A o \in Orders : code[o] # c,
             code' = [code EXCEPT ![t.on] = c], told' = told \cup {<<t.on, c>>}, Ends(r)
      PROVE  IInv'
  <2>1. Grows
    BY <1>0, <1>1 DEF Grows, IInv, IdsOK
  <2>2. IdsOK'
    BY <1>0, <1>1 DEF IInv, IdsOK
  <2>3. code'[t.on] = c /\ c # None
    BY <1>0, <1>1, IdsAreDistinct DEF IInv, IdsOK
  <2>4. ToldOK'
    BY <1>0, <1>1, <2>1, <2>3, ToldKept
  <2>5. \A q \in Requests : req[q].for = "insert" => req[q].on \notin stored'
    BY <1>0 DEF IInv, ReqOK
  <2> QED BY <1>1, <2>1, <2>2, <2>4, <2>5, EndsWell, RestKept
<1>2. CASE TryAgain(r, "code") /\ UNCHANGED <<code, told>>
  BY <1>0, <1>2, Retried DEF Same
<1>3. CASE code[t.on] # None /\ Goes(r, "reread code") /\ UNCHANGED <<code, told>>
  <2>1. Same
    BY <1>0, <1>3 DEF Same
  <2>2. /\ Alone(r) /\ req'[r].step = "reread code" /\ req'[r].for = req[r].for
        /\ req'[r].on = req[r].on /\ DOMAIN req'[r] = DOMAIN req[r]
    BY <1>0, <1>3 DEF IInv, Alone, ReqOK, Goes
  <2>3. ReqOK(r)'
    BY <1>0, <1>3, <2>1, <2>2 DEF ReqOK, Same
  <2> QED BY <1>0, <1>3, <2>1, <2>2, <2>3, MovesOn
<1> QED BY <1>1, <1>2, <1>3 DEF AssignCode

LEMMA InvNext ==
  ASSUME IInv, [Next]_vars
  PROVE  IInv'
<1>1. ASSUME NEW r \in Requests, Numbering(r)
      PROVE  IInv'
  BY <1>1, ShowKeeps, AddKeeps, BackfillKeeps, CounterKeeps, AssignKeeps, RereadKeeps,
     InsertKeeps DEF Numbering
<1>2. ASSUME NEW r \in Requests, Ordering(r)
      PROVE  IInv'
  <2>1. ASSUME NEW entry \in Entries, PlaceCompat(r, entry)
        PROVE  IInv'
    BY <2>1, PlaceKeeps DEF PlaceCompat
  <2>2. ASSUME NEW entry \in Entries, PlaceReseller(r, entry)
        PROVE  IInv'
    BY <2>2, PlaceKeeps DEF PlaceReseller
  <2>3. ASSUME NEW first \in Lists, NEW second \in Lists,
               PlaceOwn(r, first, second) \/ PlaceOrder(r, first, second)
        PROVE  IInv'
    BY <2>3, PlaceKeeps DEF PlaceOwn, PlaceOrder
  <2> QED BY <1>2, <2>1, <2>2, <2>3, ValidateKeeps, StoreKeeps, CheckKeeps, AssignCodeKeeps, RereadKeeps
          DEF Ordering
<1>3. ASSUME NEW r \in Requests, Abandon(r)
      PROVE  IInv'
  BY <1>3, Ended DEF Abandon, Same
<1>4. CASE UNCHANGED <<number, stored, counter, code, placed, saved, req, told>>
  BY <1>4 DEF IInv, ReqOK, Apart, IdsOK, ToldOK
<1> QED BY <1>1, <1>2, <1>3, <1>4 DEF Next, EditForm, vars

\* What clients were told stays true, however many requests assign numbers and
\* codes at once.
THEOREM AnswersAlwaysStand == Spec => []AnswersStand
<1>1. Init => IInv
  BY InvInit
<1>2. IInv /\ [Next]_vars => IInv'
  BY InvNext
<1>3. IInv => AnswersStand
  BY Truths
<1> QED BY <1>1, <1>2, <1>3, PTL DEF Spec

\* No step takes the counter back.
LEMMA CounterStep ==
  ASSUME IInv, [Next]_vars
  PROVE  counter' >= counter
<1>0. counter \in Nat
  BY DEF IInv, IdsOK
<1>1. CASE counter' = counter
  BY <1>0, <1>1
<1>2. ASSUME NEW r \in Requests, BackfillSync(r) \/ CreateCounter(r) \/ Increment(r)
      PROVE  counter' >= counter
  <2>1. CASE BackfillSync(r)
    <3>1. req[r].mine \in Nat /\ counter' = Raised(counter, req[r].mine)
      BY <2>1 DEF BackfillSync, IInv, ReqOK
    <3> QED BY <1>0, <3>1 DEF Raised
  <2>2. CASE CreateCounter(r) \/ Increment(r)
    BY <1>0, <2>2, NumbersAreNatural DEF CreateCounter, Increment
  <2> QED BY <1>2, <2>1, <2>2
<1>3. ASSUME NEW r \in Requests, Numbering(r)
      PROVE  counter' >= counter
  BY <1>1, <1>2, <1>3 DEF Numbering, Show, AddProduct, BackfillStart, BackfillNext,
     FindCounter, Assign, Reread, Insert
<1>4. ASSUME NEW r \in Requests, Ordering(r) \/ Abandon(r)
      PROVE  counter' = counter
  BY <1>4 DEF Ordering, PlaceCompat, PlaceReseller, PlaceOwn, PlaceOrder, Place, ValidateOrder,
     StoreOrder, CheckOrder, AssignCode, RereadCode, Abandon
<1> QED BY <1>1, <1>3, <1>4 DEF Next, EditForm, vars

\* The counter of numeric ids never goes back, so that it gives none out twice,
\* whichever requests and backfill scripts overlap.
THEOREM CounterNeverFalls == Spec => CounterAdvances
<1>1. Init => IInv
  BY InvInit
<1>2. IInv /\ [Next]_vars => IInv'
  BY InvNext
<1>3. IInv /\ [Next]_vars => [counter' >= counter]_vars
  BY CounterStep
<1> QED BY <1>1, <1>2, <1>3, PTL DEF Spec, CounterAdvances

-----------------------------------------------------------------------------
(* The fields of an order. What is validated went through the table of     *)
(* names of the very form it is validated against, so that it is enough to *)
(* look at one form and one entry; what is stored is what was validated.   *)

\* A set of numbers has a smallest one, which the first match of a search is.
LEMMA SmallestNumber ==
  ASSUME NEW S, S \subseteq Nat, S # {}
  PROVE  Min(S) \in S
<1>1. PICK x \in S : \A y \in S : ~(<<y, x>> \in OpToRel(<, Nat))
  BY NatLessThanWellFounded, WFMin
<1>2. \A y \in S : ~(y < x)
  BY <1>1 DEF OpToRel
<1>3. \A y \in S : x <= y
  BY <1>2
<1> QED
  BY <1>3 DEF Min

\* And a bounded one has a largest.
LEMMA LargestNumber ==
  ASSUME NEW S, S \subseteq Nat, S # {}, NEW n \in Nat, \A y \in S : y <= n
  PROVE  Max(S) \in S /\ \A y \in S : y <= Max(S)
<1> DEFINE U == {u \in Nat : \A y \in S : y <= u}
<1>1. PICK u \in U : \A y \in U : ~(<<y, u>> \in OpToRel(<, Nat))
  BY NatLessThanWellFounded, WFMin
<1>2. \A y \in U : ~(y < u)
  BY <1>1 DEF OpToRel
<1>3. u \in S
  <2>1. SUFFICES ASSUME u \notin S PROVE FALSE
    OBVIOUS
  <2>2. \A y \in S : y < u
    BY <2>1
  <2>3. u \in Nat /\ u # 0 /\ u - 1 \in Nat
    <3>1. PICK y \in S : y < u
      BY <2>2
    <3> QED BY <3>1
  <2>4. u - 1 \in U
    <3>1. ASSUME NEW y \in S PROVE y <= u - 1
      BY <2>2, <2>3, <3>1
    <3> QED BY <2>3, <3>1
  <2> QED BY <1>2, <2>3, <2>4
<1>4. \A y \in S : y <= u
  OBVIOUS
<1> QED BY <1>3, <1>4 DEF Max

\* What the first field with a name is, when there is one.
LEMMA OwnerIs ==
  ASSUME NEW fm, fm \in Seq(Range(fm)), NEW fields, NEW fold, NEW n,
         Owner(fm, fields, fold, n) # 0
  PROVE  /\ Owner(fm, fields, fold, n) \in DOMAIN fm
         /\ fold[n] \in NamesOf(fm[Owner(fm, fields, fold, n)], fold)
<1> DEFINE I == {i \in 1..Len(fm) : fm[i] \in fields /\ fold[n] \in NamesOf(fm[i], fold)}
<1>1. Owner(fm, fields, fold, n) = IF I # {} THEN Min(I) ELSE 0
  BY DEF Owner, SelectInSeq
<1>2. I \subseteq Nat /\ DOMAIN fm = 1..Len(fm)
  OBVIOUS
<1>3. Min(I) \in I
  <2> HIDE DEF I
  <2> QED
    BY <1>1, <1>2, SmallestNumber
<1> QED
  BY <1>1, <1>2, <1>3

\* The fields with one key, of which there is a first and a last.
LEMMA FieldsFound ==
  ASSUME NEW fm, fm \in Seq(Range(fm)), NEW k, k \in KeysOf(ActiveOf(fm))
  PROVE  /\ FieldsOf(fm, k) # {} /\ FieldsOf(fm, k) \subseteq Nat
         /\ Min(FieldsOf(fm, k)) \in FieldsOf(fm, k)
         /\ Max(FieldsOf(fm, k)) \in FieldsOf(fm, k)
<1>1. PICK f \in ActiveOf(fm) : f.key = k
  BY DEF KeysOf
<1>2. PICK i \in DOMAIN fm : fm[i] = f /\ f.active
  BY DEF ActiveOf, Range
<1>3. i \in FieldsOf(fm, k)
  BY <1>1, <1>2 DEF FieldsOf
<1>4. FieldsOf(fm, k) \subseteq Nat /\ \A j \in FieldsOf(fm, k) : j <= Len(fm)
  BY DEF FieldsOf
<1> QED BY <1>3, <1>4, SmallestNumber, LargestNumber

\* The smallest of the fields has none before it.
LEMMA FirstIsFirst ==
  ASSUME NEW S, S \subseteq Nat, S # {}
  PROVE  {j \in S : j < Min(S)} = {}
<1>1. PICK x \in S : \A y \in S : ~(<<y, x>> \in OpToRel(<, Nat))
  BY NatLessThanWellFounded, WFMin
<1>2. \A y \in S : ~(y < x)
  BY <1>1 DEF OpToRel
<1>3. \A y \in S : x <= y
  BY <1>2
<1>4. Min(S) \in S /\ \A y \in S : Min(S) <= y
  BY <1>3 DEF Min
<1>5. PICK m : m = Min(S)
  OBVIOUS
<1>6. m \in S /\ \A y \in S : m <= y
  BY <1>4, <1>5
<1>7. ASSUME NEW j \in S, j < m PROVE FALSE
  BY <1>6, <1>7
<1> QED BY <1>5, <1>7

\* What a value is converted to, as far as its first and its last field tell.
LEMMA ConvertedFits ==
  ASSUME NEW fm, fm \in Seq(Range(fm)), NEW k, k \in KeysOf(ActiveOf(fm)), NEW raw,
         NEW v \in Converted(fm, k, raw)
  PROVE  LET first == Min(FieldsOf(fm, k))
             last  == Max(FieldsOf(fm, k))
         IN /\ raw \in DOMAIN fm[first].accepts
            /\ v \in Range(fm[last].accepts)
            /\ (fm[last].formal \/ first = last => v = fm[last].accepts[raw])
<1> DEFINE I == FieldsOf(fm, k)
           first == Min(I)
           last  == Max(I)
           Earlier(i)   == {j \in I : j < i}
           Before(c, i) == IF fm[i].formal \/ Earlier(i) = {} THEN raw ELSE c[Max(Earlier(i))]
<1>1. I # {} /\ I \subseteq Nat /\ first \in I /\ last \in I /\ Earlier(first) = {}
  BY FieldsFound, FirstIsFirst
<1>2. PICK c \in [I -> Values(fm)] :
        /\ v = c[last]
        /\ \A i \in I : /\ Before(c, i) \in DOMAIN fm[i].accepts
                        /\ c[i] = fm[i].accepts[Before(c, i)]
  BY DEF Converted
<1>3. Before(c, first) = raw /\ (fm[last].formal \/ first = last => Before(c, last) = raw)
  BY <1>1
<1> HIDE DEF Before, first, last, I
<1>4. raw \in DOMAIN fm[first].accepts
  BY <1>1, <1>2, <1>3
<1>5. v \in Range(fm[last].accepts)
  BY <1>1, <1>2 DEF Range
<1>6. fm[last].formal \/ first = last => v = fm[last].accepts[raw]
  BY <1>1, <1>2, <1>3
<1> QED BY <1>4, <1>5, <1>6 DEF first, last, I

\* The validation of a value that got its name from the form it is checked against.
LEMMA ValidFits ==
  ASSUME NEW fm \in Forms, fm # <<>>, NEW entry, NEW input \in Inputs(fm, entry)
  PROVE  Fits(fm, entry, input)
<1> DEFINE name == [n \in DOMAIN entry |-> FieldName(fm, n)]
<1>1. PICK sent \in Renamed(entry, name) : Valid(fm, sent) /\ input \in Accepted(fm, sent)
  BY DEF Inputs
<1>2. fm \in Seq(Range(fm))
  BY FormsAreLegal
<1>3. DOMAIN input = DOMAIN sent
  BY <1>1 DEF Accepted
<1>4. ASSUME NEW f \in ActiveOf(fm), f.required PROVE f.key \in DOMAIN input
  BY <1>1, <1>3, <1>4 DEF Valid, Missing
<1>5. ASSUME NEW k \in DOMAIN input
      PROVE  /\ FieldsOf(fm, k) # {}
             /\ LET first == Min(FieldsOf(fm, k))
                    last  == Max(FieldsOf(fm, k))
                IN \E f \in Range(fm), n \in DOMAIN entry :
                     /\ f.key = k /\ Lower[n] \in NamesOf(f, Lower)
                     /\ entry[n] \in DOMAIN fm[first].accepts
                     /\ input[k] \in Range(fm[last].accepts)
                     /\ (fm[last].formal \/ first = last => input[k] = fm[last].accepts[entry[n]])
  <2>1. k \in KeysOf(ActiveOf(fm))
    BY <1>1, <1>3, <1>5 DEF Valid, Unknown
  <2>2. input[k] \in Converted(fm, k, sent[k])
    BY <1>1, <1>3, <1>5 DEF Accepted
  <2>3. PICK n \in DOMAIN entry : name[n] = k /\ sent[k] = entry[n]
    <3> HIDE DEF name
    <3> QED
      BY <1>1, <1>3, <1>5 DEF Renamed
  <2>4. PICK f \in Range(fm) : f.key = k /\ Lower[n] \in NamesOf(f, Lower)
    <3>1. CASE Owner(fm, Range(fm), Lower, n) = 0
      <4>1. n = k
        BY <2>3, <3>1 DEF FieldName
      <4>2. PICK g \in ActiveOf(fm) : g.key = k
        BY <2>1 DEF KeysOf
      <4> QED
        BY <4>1, <4>2 DEF NamesOf, ActiveOf
    <3>2. CASE Owner(fm, Range(fm), Lower, n) # 0
      <4>1. PICK i \in DOMAIN fm : Lower[n] \in NamesOf(fm[i], Lower) /\ fm[i].key = k
        BY <1>2, <2>3, <3>2, OwnerIs DEF FieldName
      <4> QED
        BY <4>1 DEF Range
    <3> QED
      BY <3>1, <3>2
  <2> QED
    BY <1>2, <2>1, <2>2, <2>3, <2>4, FieldsFound, ConvertedFits
<1> QED
  BY <1>4, <1>5 DEF Fits

\* What is set aside for an order, and what it is stored with, was validated.
Checked(mine) ==
  /\ DOMAIN mine = {"sent", "form", "input"}
  /\ mine.form # <<>> => Fits(mine.form, mine.sent, mine.input)

InputInv ==
  /\ form \in Forms
  /\ \A r \in Requests :
       /\ req[r].step = "create order" => DOMAIN req[r].mine = {"sent", "form", "input"}
       /\ req[r].step = "store order" => Checked(req[r].mine)
  /\ DOMAIN saved = Orders
  /\ \A o \in Orders : saved[o] # None => Checked(saved[o])

\* A step of a request that has nothing to do with the fields of an order.
LEMMA NotOrdering ==
  ASSUME InputInv, UNCHANGED <<form, saved>>, NEW r \in Requests, Alone(r),
         req'[r].step \notin {"create order", "store order"}
  PROVE  InputInv'
  BY DEF InputInv, Alone, Checked

LEMMA InputEnds ==
  ASSUME IInv, InputInv, UNCHANGED <<form, saved>>, NEW r \in Requests, Ends(r)
  PROVE  InputInv'
<1>1. Alone(r) /\ req'[r].step = "idle"
  BY DEF IInv, Ends, Alone, Idle
<1> QED BY <1>1, NotOrdering

LEMMA InputGoes ==
  ASSUME IInv, InputInv, UNCHANGED <<form, saved>>, NEW r \in Requests,
         NEW step, step \notin {"create order", "store order"},
         Goes(r, step) \/ TryAgain(r, step)
  PROVE  InputInv'
<1>0. DOMAIN req = Requests /\ DOMAIN req[r] = {"step", "for", "on", "mine", "left"}
  BY DEF IInv, ReqOK
<1>1. CASE Goes(r, step)
  BY <1>0, <1>1, NotOrdering DEF Goes, Alone
<1>2. CASE req' = [req EXCEPT ![r].step = step, ![r].left = @ - 1, ![r].mine = None]
  BY <1>0, <1>2, NotOrdering DEF Alone
<1> QED BY <1>1, <1>2, InputEnds DEF TryAgain

LEMMA InputBegins ==
  ASSUME IInv, InputInv, UNCHANGED <<form, saved>>, NEW r \in Requests,
         NEW step, step \notin {"create order", "store order"}, NEW for, NEW x,
         req' = [req EXCEPT ![r] = Task(step, for, x)]
  PROVE  InputInv'
<1>1. Alone(r) /\ req'[r] = Task(step, for, x)
  BY DEF IInv, Alone
<1>2. Task(step, for, x).step = step
  BY DEF Task, Idle
<1> QED BY <1>1, <1>2, NotOrdering

LEMMA InputNumbering ==
  ASSUME IInv, InputInv, NEW r \in Requests, Numbering(r)
  PROVE  InputInv'
<1>0. DOMAIN req = Requests /\ DOMAIN req[r] = {"step", "for", "on", "mine", "left"}
  BY DEF IInv, ReqOK
<1>1. ASSUME NEW x \in Products, Show(r, x)
      PROVE  InputInv'
  <2>1. CASE number[x] # 0
    BY <1>1, <2>1 DEF Show, InputInv, Checked
  <2>2. CASE number[x] = 0
    BY <1>1, <2>2, InputBegins DEF Show, Begin
  <2> QED BY <2>1, <2>2
<1>2. ASSUME NEW x \in Products, AddProduct(r, x)
      PROVE  InputInv'
  BY <1>2, InputBegins DEF AddProduct, Begin
<1>3. CASE BackfillStart(r)
  <2>1. PICK top : Begin(r, [Task("sync", "script", None) EXCEPT !.mine = top])
    BY <1>3 DEF BackfillStart
  <2> QED BY <1>0, <1>3, <2>1, NotOrdering DEF BackfillStart, Begin, Task, Idle, Alone
<1>4. CASE BackfillSync(r)
  BY <1>0, <1>4, NotOrdering DEF BackfillSync, Alone
<1>5. CASE BackfillNext(r)
  <2>1. CASE Ends(r)
    BY <1>5, <2>1, InputEnds DEF BackfillNext
  <2>2. ASSUME NEW x, req' = [req EXCEPT ![r] = Task("find", "script", x)]
        PROVE  InputInv'
    BY <1>5, <2>2, InputBegins DEF BackfillNext
  <2> QED BY <1>5, <2>1, <2>2 DEF BackfillNext
<1>6. CASE Increment(r)
  <2>1. req'[r].step \in {"insert", "assign"} /\ Alone(r) /\ UNCHANGED <<form, saved>>
    BY <1>0, <1>6 DEF Increment, Alone
  <2> QED BY <2>1, NotOrdering
<1>7. CASE FindCounter(r) \/ CreateCounter(r) \/ Reread(r) \/ Insert(r)
  <2>1. CASE FindCounter(r)
    <3>1. PICK step \in {"create", "increment"} : Goes(r, step) /\ UNCHANGED <<form, saved>>
      BY <2>1 DEF FindCounter
    <3> QED BY <3>1, InputGoes
  <2>2. CASE CreateCounter(r)
    <3>1. PICK step \in {"increment"} : Goes(r, step) /\ UNCHANGED <<form, saved>>
      BY <2>2 DEF CreateCounter
    <3> QED BY <3>1, InputGoes
  <2>3. CASE Reread(r) \/ Insert(r)
    BY <2>3, InputEnds DEF Reread, Insert
  <2> QED BY <1>7, <2>1, <2>2, <2>3
<1>8. CASE Assign(r)
  <2>1. UNCHANGED <<form, saved>>
    BY <1>8 DEF Assign
  <2>2. \/ Ends(r)
        \/ \E step \in {"scan", "reread", "find"} : Goes(r, step) \/ TryAgain(r, step)
    BY <1>8 DEF Assign
  <2> QED BY <2>1, <2>2, InputEnds, InputGoes
<1> QED BY <1>1, <1>2, <1>3, <1>4, <1>5, <1>6, <1>7, <1>8 DEF Numbering

LEMMA InputPlaced ==
  ASSUME IInv, InputInv, NEW r \in Requests, NEW for, NEW sent, NEW fm,
         Place(r, for, Entered(sent, fm))
  PROVE  InputInv'
<1>1. /\ Alone(r) /\ UNCHANGED <<form, saved>> /\ req'[r].step = "create order"
      /\ req'[r].mine = Entered(sent, fm)
  BY DEF Place, Begin, Task, Idle, IInv, Alone
<1>2. DOMAIN Entered(sent, fm) = {"sent", "form", "input"}
  BY DEF Entered
<1> QED BY <1>1, <1>2 DEF InputInv, Alone, Checked

LEMMA InputValidated ==
  ASSUME IInv, InputInv, NEW r \in Requests, ValidateOrder(r)
  PROVE  InputInv'
<1> DEFINE mine == req[r].mine
<1>0. DOMAIN req = Requests /\ DOMAIN req[r] = {"step", "for", "on", "mine", "left"}
  BY DEF IInv, ReqOK
<1>1. UNCHANGED <<form, saved>> /\ DOMAIN mine = {"sent", "form", "input"} /\ form \in Forms
  BY DEF ValidateOrder, InputInv
<1>2. CASE Ends(r)
  BY <1>1, <1>2, InputEnds
<1>3. ASSUME NEW input \in Inputs(form, mine.sent), NEW m, m = [mine EXCEPT !.form = form, !.input = input],
             req' = [req EXCEPT ![r].step = "store order", ![r].mine = m]
      PROVE  InputInv'
  <2>1. /\ DOMAIN m = {"sent", "form", "input"} /\ m.form = form /\ m.sent = mine.sent
        /\ m.input = input
    BY <1>1, <1>3
  <2>2. Checked(m)
    BY <1>1, <1>3, <2>1, ValidFits DEF Checked
  <2>3. Alone(r) /\ req'[r].step = "store order" /\ req'[r].mine = m
    BY <1>0, <1>3 DEF Alone
  <2> QED BY <1>1, <2>2, <2>3 DEF InputInv, Alone, Checked
<1> QED BY <1>2, <1>3 DEF ValidateOrder, FormToFit

LEMMA InputStored ==
  ASSUME IInv, InputInv, NEW r \in Requests, StoreOrder(r)
  PROVE  InputInv'
<1> DEFINE t == req[r]
<1>0. DOMAIN req = Requests /\ DOMAIN req[r] = {"step", "for", "on", "mine", "left"}
  BY DEF IInv, ReqOK
<1>1. form' = form /\ Checked(t.mine)
  BY DEF StoreOrder, InputInv
<1>2. CASE Ends(r) /\ saved' = saved
  BY <1>1, <1>2, InputEnds
<1>3. CASE req' = [req EXCEPT ![r].step = "create order", ![r].mine.input = None] /\ saved' = saved
  <2>1. /\ Alone(r) /\ req'[r].step = "create order"
        /\ req'[r].mine = [t.mine EXCEPT !.input = None]
    BY <1>0, <1>3 DEF Alone
  <2>2. DOMAIN req'[r].mine = {"sent", "form", "input"}
    BY <1>1, <2>1 DEF Checked
  <2>3. \A q \in Requests \ {r} : req'[q] = req[q]
    BY <2>1 DEF Alone
  <2>4. UNCHANGED <<form, saved>>
    BY <1>1, <1>3
  <2> HIDE DEF t
  <2> QED BY <2>1, <2>2, <2>3, <2>4 DEF InputInv, Checked
<1>4. ASSUME NEW o \in Orders, saved' = [saved EXCEPT ![o] = t.mine],
             \/ req' = [req EXCEPT ![r] = Task("code", "compat", o)]
             \/ Ends(r)
      PROVE  InputInv'
  <2>1. Alone(r) /\ req'[r].step \notin {"create order", "store order"}
    <3>1. CASE Ends(r)
      BY <1>0, <3>1 DEF Alone, Ends, Idle
    <3>2. CASE req' = [req EXCEPT ![r] = Task("code", "compat", o)]
      <4>1. Alone(r) /\ req'[r] = Task("code", "compat", o)
        BY <1>0, <3>2 DEF Alone
      <4>2. Task("code", "compat", o).step = "code"
        BY DEF Task, Idle
      <4> QED BY <4>1, <4>2
    <3> QED BY <1>4, <3>1, <3>2
  <2>2. DOMAIN saved' = Orders /\ \A q \in Orders : saved'[q] # None => Checked(saved'[q])
    BY <1>1, <1>4 DEF InputInv
  <2> QED BY <1>1, <2>1, <2>2 DEF InputInv, Alone, Checked
<1> QED BY <1>2, <1>3, <1>4 DEF StoreOrder

LEMMA InputNext ==
  ASSUME IInv, InputInv, [Next]_vars
  PROVE  InputInv'
<1>1. ASSUME NEW r \in Requests, Ordering(r)
      PROVE  InputInv'
  <2>1. ASSUME NEW entry \in Entries, PlaceCompat(r, entry) \/ PlaceReseller(r, entry)
        PROVE  InputInv'
    BY <2>1, InputPlaced DEF PlaceCompat, PlaceReseller
  <2>2. ASSUME NEW first \in Lists, NEW second \in Lists,
               PlaceOwn(r, first, second) \/ PlaceOrder(r, first, second)
        PROVE  InputInv'
    BY <2>2, InputPlaced DEF PlaceOwn, PlaceOrder
  <2>3. ASSUME NEW o \in Orders, CheckOrder(r, o)
        PROVE  InputInv'
    <3>1. CASE code[o] # None
      BY <2>3, <3>1 DEF CheckOrder, InputInv, Checked
    <3>2. CASE code[o] = None
      BY <2>3, <3>2, InputBegins DEF CheckOrder, Begin
    <3> QED BY <3>1, <3>2
  <2>4. CASE AssignCode(r)
    <3>1. /\ UNCHANGED <<form, saved>>
          /\ \/ Ends(r)
             \/ \E step \in {"code", "reread code"} : Goes(r, step) \/ TryAgain(r, step)
      BY <2>4 DEF AssignCode
    <3> QED BY <3>1, InputEnds, InputGoes
  <2>5. CASE RereadCode(r)
    BY <2>5, InputEnds DEF RereadCode
  <2> QED BY <1>1, <2>1, <2>2, <2>3, <2>4, <2>5, InputValidated, InputStored DEF Ordering
<1>2. ASSUME NEW r \in Requests, Abandon(r)
      PROVE  InputInv'
  BY <1>2, InputEnds DEF Abandon
<1>3. CASE EditForm \/ UNCHANGED vars
  BY <1>3 DEF EditForm, vars, InputInv, Checked
<1> QED BY <1>1, <1>2, <1>3, InputNumbering DEF Next

\* For all forms, entries and orders: what is stored with an order is what the
\* form that its last attempt read asks for and accepts, whatever was edited
\* meanwhile and however many requests are under way.
THEOREM InputAlwaysFits == Spec => []InputFitsForm
<1>1. Init => IInv /\ InputInv
  <2>1. Init => /\ form \in Forms /\ saved = [o \in Orders |-> None]
                /\ \A r \in Requests : req[r].step = "idle"
    BY DEF Init, Idle
  <2>2. Init => InputInv
    BY <2>1 DEF InputInv
  <2> QED BY <2>2, InvInit
<1>2. IInv /\ InputInv /\ [Next]_vars => (IInv /\ InputInv)'
  BY InvNext, InputNext
<1>3. InputInv => InputFitsForm
  BY DEF InputInv, Checked, InputFitsForm
<1> QED
  BY <1>1, <1>2, <1>3, PTL DEF Spec
=============================================================================
