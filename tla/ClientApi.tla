------------------------------ MODULE ClientApi ------------------------------
(***************************************************************************)
(* The API for resellers and the compatibility API.                        *)
(*                                                                         *)
(* Records of the database have an ObjectId; clients of the compatibility  *)
(* API know products by numbers and orders by codes, which are assigned on  *)
(* first use: a counter is read, perhaps created, incremented, and the     *)
(* number written if the record has none. Requests, the insertion of new   *)
(* products and the backfill script do so at the same time.                *)
(*                                                                         *)
(* What a client enters for an order passes through up to two tables of    *)
(* names before it is validated against the form of the product, which is  *)
(* read twice and may be edited in between.                                *)
(***************************************************************************)
EXTENDS Naturals, FiniteSets, Sequences, SequencesExt, Functions, TLC

CONSTANTS
  Products,     \* product documents
  Orders,       \* identities of orders
  Requests,     \* handlers and scripts that may be under way
  Codes,        \* the random order codes that may be drawn
  None,         \* no request, code, order or value
  StartAt,      \* what the counter holds when it is created
  MaxNumber,    \* bound: numbers given out
  MaxAttempts,  \* attempts to assign a number or a code
  Names,        \* names under which a client may send a value
  Lower,        \* a name without case and surrounding blanks
  Squashed,     \* a name without case, blanks and punctuation
  Targets,      \* names that mean the account to be topped up
  Ignored,      \* names the compatibility API keeps to itself: prices, tokens
  SnakeCase,    \* names a field of a formal form may have as its key
  Forms,        \* the forms that administrators give a product
  Entries,      \* what clients enter: functions from names to raw values
  Lists,        \* what customers enter: sequences of pairs of the two
  PlayerIds     \* values clients give outside of the fields

ASSUME NumbersAreNatural == StartAt \in Nat /\ MaxNumber \in Nat /\ MaxAttempts \in Nat
\* Products, orders, numbers and codes cannot be taken for each other.
ASSUME IdsAreDistinct ==
  /\ Products \cap Orders = {} /\ None \notin Products \cup Orders \cup Codes
  /\ \A c \in Codes : c \notin Nat

VARIABLES
  number,    \* the number of each product: 0 when it has none
  stored,    \* products that are in the database
  counter,   \* the counter document: 0 when there is none
  code,      \* the code of each order, or None
  placed,    \* the orders that exist
  form,      \* the form of the product that is ordered
  saved,     \* what each order was stored with, or None
  req,       \* the requests under way
  told       \* history: the pairs of a record and its number or code told to clients

vars == <<number, stored, counter, code, placed, form, saved, req, told>>
orders == <<placed, form, saved>>

Idle == [step |-> "idle", for |-> "nothing", on |-> None, mine |-> None, left |-> 0]

-----------------------------------------------------------------------------
(* Names of the fields of a form. A form is a sequence of fields            *)
(* [key, label, required, active, formal, accepts]; "accepts" gives what    *)
(* each raw value of the right type and range is converted to.              *)

\* Product.orderFields: keys are snake_case and fields may be inactive.
OrderField(f) ==
  /\ f.formal /\ f.key \in SnakeCase /\ f.label \in Names
  /\ f.required \in BOOLEAN /\ f.active \in BOOLEAN

\* Product.dynamicFields, used when there are none: any name, always active.
DynamicField(f) ==
  /\ ~f.formal /\ f.key \in Names /\ f.label \in Names
  /\ f.required \in BOOLEAN /\ f.active

\* A form is a list of fields of one kind. Several of them may have one key.
ASSUME FormsAreLegal ==
  \A fm \in Forms :
    /\ fm \in Seq(Range(fm))
    /\ \/ \A i \in DOMAIN fm : OrderField(fm[i])
       \/ \A i \in DOMAIN fm : DynamicField(fm[i])

ActiveOf(fm)   == {f \in Range(fm) : f.active}
KeysOf(fields) == {f.key : f \in fields}

NamesOf(f, fold) == {fold[f.key], fold[f.label]}

\* The first of some fields of a form that a name belongs to; 0 when there is none.
Owner(fm, fields, fold, n) ==
  SelectInSeq(fm, LAMBDA f : f \in fields /\ fold[n] \in NamesOf(f, fold))

\* isTargetAliasKey compares squashed names.
IsTarget(n) == Squashed[n] \in {Squashed[t] : t \in Targets}

\* The field that stands for the account: the only required one with such a
\* name, or else the literal "playerId".
TargetKey(fields) ==
  LET found == KeysOf({f \in fields : f.required /\ (IsTarget(f.key) \/ IsTarget(f.label))})
  IN IF Cardinality(found) = 1 THEN CHOOSE k \in found : TRUE ELSE "playerId"

\* normalizeOrderFieldsForProduct: the name under which the compatibility API
\* passes a value on.
CompatName(fm, n) ==
  LET i == Owner(fm, ActiveOf(fm), Squashed, n)
  IN IF i # 0 THEN fm[i].key ELSE IF IsTarget(n) THEN TargetKey(ActiveOf(fm)) ELSE n

\* remapOrderFieldsInputByAliases: inactive fields keep their names.
FieldName(fm, n) ==
  LET i == Owner(fm, Range(fm), Lower, n) IN IF i # 0 THEN fm[i].key ELSE n

\* The values of an entry under their new names: of two that get one name,
\* the one that comes last.
Renamed(entry, name) ==
  {g \in [{name[n] : n \in DOMAIN entry} -> {entry[n] : n \in DOMAIN entry}] :
     \A k \in DOMAIN g : \E n \in DOMAIN entry : name[n] = k /\ g[k] = entry[n]}

\* extractOrderFieldsFromQuery: what is not meant for the form.
Kept(entry) ==
  Restrict(entry, {n \in DOMAIN entry : Squashed[n] \notin {Squashed[i] : i \in Ignored}})

\* buildOrderFields of the reseller API: the player's id under three names.
Spread(entry, id) ==
  IF id = None THEN entry
  ELSE ("playerId" :> id) @@ entry @@ ("player_id" :> id) @@ ("userId" :> id)

\* A list of values becomes a function: of two under one name, the last.
Collected(list) ==
  [n \in {list[i][1] : i \in DOMAIN list} |->
     list[SelectLastInSeq(list, LAMBDA pair : pair[1] = n)][2]]

\* The customer's order page sends its values in one of several places, of
\* which the first that holds any counts.
FirstFilled(first, second) ==
  IF Collected(first) # <<>> THEN Collected(first) ELSE Collected(second)

\* The other order page may use two places: the second one wins.
Merged(first, second) == Collected(second) @@ Collected(first)

\* A link given beside the fields becomes one of them.
Linked(entry, link) == IF link = None THEN entry ELSE entry @@ ("link" :> link)

-----------------------------------------------------------------------------
(* Validation against the form *)

\* validateOrderFields and validateDynamicFieldsInput: unknown names, missing
\* required values and values of the wrong type or range refuse the order.
Unknown(fm, sent) == DOMAIN sent \ KeysOf(ActiveOf(fm))
Missing(fm, sent) == {f \in ActiveOf(fm) : f.required /\ f.key \notin DOMAIN sent}
Valid(fm, sent)   == Unknown(fm, sent) = {} /\ Missing(fm, sent) = {}

FieldsOf(fm, k) == {i \in DOMAIN fm : fm[i].active /\ fm[i].key = k}
Values(fm)      == UNION {Range(f.accepts) : f \in Range(fm)}

\* What the value of one key becomes when each of its fields, one after another,
\* converts it. A formal field converts what was sent, a dynamic one what the
\* field before it left. The last one counts; nothing, if one refuses.
Converted(fm, k, raw) ==
  LET Earlier(i)   == {j \in FieldsOf(fm, k) : j < i}
      Before(c, i) == IF fm[i].formal \/ Earlier(i) = {} THEN raw ELSE c[Max(Earlier(i))]
  IN {c[Max(FieldsOf(fm, k))] :
        c \in {d \in [FieldsOf(fm, k) -> Values(fm)] :
                 \A i \in FieldsOf(fm, k) : /\ Before(d, i) \in DOMAIN fm[i].accepts
                                            /\ d[i] = fm[i].accepts[Before(d, i)]}}

Accepted(fm, sent) ==
  {a \in [DOMAIN sent -> Values(fm)] : \A k \in DOMAIN sent : a[k] \in Converted(fm, k, sent[k])}

\* What an order may be stored with; a product without a form takes anything.
Inputs(fm, entry) ==
  IF fm = <<>> THEN {entry}
  ELSE UNION {Accepted(fm, sent) :
          sent \in {s \in Renamed(entry, [n \in DOMAIN entry |-> FieldName(fm, n)]) : Valid(fm, s)}}

-----------------------------------------------------------------------------
(* Requests *)

Begin(r, task) == req[r] = Idle /\ req' = [req EXCEPT ![r] = task]
Task(step, for, x) ==
  [Idle EXCEPT !.step = step, !.for = for, !.on = x, !.left = MaxAttempts]
Goes(r, step)  == req' = [req EXCEPT ![r].step = step]
Ends(r)        == req' = [req EXCEPT ![r] = Idle]

\* A further attempt, or an error after the last one.
TryAgain(r, step) ==
  IF req[r].left > 1
  THEN req' = [req EXCEPT ![r].step = step, ![r].left = @ - 1, ![r].mine = None]
  ELSE Ends(r)

\* listProducts and getContent find a product: its number is known, or assigned.
Show(r, x) ==
  /\ x \in stored
  /\ IF number[x] # 0
     THEN /\ req[r] = Idle
          /\ told' = told \cup {<<x, number[x]>>}
          /\ UNCHANGED req
     ELSE Begin(r, Task("find", "client", x)) /\ UNCHANGED told
  /\ UNCHANGED <<number, stored, counter, code, orders>>

\* The pre-save hook of a new product.
AddProduct(r, x) ==
  /\ x \notin stored
  /\ \A q \in Requests : req[q].on # x
  /\ Begin(r, Task("find", "insert", x))
  /\ UNCHANGED <<number, stored, counter, code, orders, told>>

\* The backfill script reads the highest number in use, at least StartAt...
BackfillStart(r) ==
  /\ LET used == {number[x] : x \in stored} \cup {StartAt} IN
     \E top \in used : /\ \A n \in used : n <= top
                      /\ Begin(r, [Task("sync", "script", None) EXCEPT !.mine = top])
  /\ UNCHANGED <<number, stored, counter, code, orders, told>>

\* ... raises the counter to it ($max, upsert) ...
RaisedBlindly(seq, to) == to
Raised(seq, to) == IF seq < to THEN to ELSE seq

BackfillSync(r) ==
  /\ req[r].step = "sync"
  /\ counter' = Raised(counter, req[r].mine)
  /\ req' = [req EXCEPT ![r].step = "scan", ![r].mine = None]
  /\ UNCHANGED <<number, stored, code, orders, told>>

\* ... and takes one product without a number after another.
BackfillNext(r) ==
  /\ req[r].step = "scan"
  /\ \/ \E x \in stored : number[x] = 0 /\ req' = [req EXCEPT ![r] = Task("find", "script", x)]
     \/ Ends(r)
  /\ UNCHANGED <<number, stored, counter, code, orders, told>>

-----------------------------------------------------------------------------
(* getNextSequence and the assignment of a number *)

FindCounter(r) ==
  /\ req[r].step = "find"
  /\ Goes(r, IF counter = 0 THEN "create" ELSE "increment")
  /\ UNCHANGED <<number, stored, counter, code, orders, told>>

\* Counter.create; a duplicate key means that another request was first.
CreateCounter(r) ==
  /\ req[r].step = "create"
  /\ counter' = IF counter = 0 THEN StartAt ELSE counter
  /\ Goes(r, "increment")
  /\ UNCHANGED <<number, stored, code, orders, told>>

Increment(r) ==
  /\ req[r].step = "increment"
  /\ counter < MaxNumber
  /\ counter' = counter + 1
  /\ req' = [req EXCEPT ![r].step = IF req[r].for = "insert" THEN "insert" ELSE "assign",
                        ![r].mine = counter + 1]
  /\ UNCHANGED <<number, stored, code, orders, told>>

Taken(n) == \E x \in stored : number[x] = n

\* The filter of the update: the product has no number yet.
UnnumberedAlways(x) == TRUE
Unnumbered(x) == number[x] = 0

\* findOneAndUpdate: it assigns, finds the product numbered, or runs into the
\* unique index and tries again. The script does not read the product again.
Assign(r) ==
  LET t == req[r] IN
  /\ t.step = "assign"
  /\ \/ /\ Unnumbered(t.on) /\ ~Taken(t.mine)
        /\ number' = [number EXCEPT ![t.on] = t.mine]
        /\ IF t.for = "client"
           THEN told' = told \cup {<<t.on, t.mine>>} /\ Ends(r)
           ELSE UNCHANGED told /\ Goes(r, "scan")
     \/ /\ Unnumbered(t.on) /\ Taken(t.mine)
        /\ TryAgain(r, "find")
        /\ UNCHANGED <<number, told>>
     \/ /\ ~Unnumbered(t.on)
        /\ Goes(r, IF t.for = "client" THEN "reread" ELSE "scan")
        /\ UNCHANGED <<number, told>>
  /\ UNCHANGED <<stored, counter, code, orders>>

Reread(r) ==
  /\ req[r].step = "reread"
  /\ told' = told \cup {<<req[r].on, number[req[r].on]>>}
  /\ Ends(r)
  /\ UNCHANGED <<number, stored, counter, code, orders>>

\* The insertion of a new product, which the unique index may refuse.
Insert(r) ==
  LET t == req[r] IN
  /\ t.step = "insert"
  /\ IF Taken(t.mine)
     THEN UNCHANGED <<number, stored>>
     ELSE /\ stored' = stored \cup {t.on}
          /\ number' = [number EXCEPT ![t.on] = t.mine]
  /\ Ends(r)
  /\ UNCHANGED <<counter, code, orders, told>>

-----------------------------------------------------------------------------
(* Orders *)

\* What an order under way has: the values sent, the form its handler has read
\* last (None when it has not), and what it will be stored with.
Entered(sent, fm) == [sent |-> sent, form |-> fm, input |-> None]
Place(r, for, mine) ==
  /\ Begin(r, [Task("create order", for, None) EXCEPT !.mine = mine])
  /\ UNCHANGED <<number, stored, counter, code, orders, told>>

\* placeOrder of the compatibility API: it reads the form and renames.
PlaceCompat(r, entry) ==
  \E sent \in Renamed(Kept(entry), [n \in DOMAIN entry |-> CompatName(form, n)]) :
    Place(r, "compat", Entered(sent, form))

\* createOrder of the reseller API.
PlaceReseller(r, entry) ==
  \E id \in PlayerIds \cup {None} : Place(r, "direct", Entered(Spread(entry, id), None))

\* placeOrder of the customer's own page (me.controller.js) ...
PlaceOwn(r, first, second) ==
  \E link \in PlayerIds \cup {None} :
    Place(r, "direct", Entered(Linked(FirstFilled(first, second), link), None))

\* ... and createOrder of the orders' page (order.controller.js).
PlaceOrder(r, first, second) ==
  \E link \in PlayerIds \cup {None} :
    Place(r, "direct", Entered(Linked(Merged(first, second), link), None))

\* The form to validate against is that of the product read anew; the other
\* one, that the handler has read before, is what a careless attempt would use.
FormReadBefore(mine) == IF mine.form = None THEN form ELSE mine.form
FormToFit(mine) == form

\* _attemptCreateOrder reads the product and validates. The order may be refused
\* for this and for other reasons (see OrderCreation).
ValidateOrder(r) ==
  LET mine == req[r].mine IN
  /\ req[r].step = "create order"
  /\ \/ \E input \in Inputs(FormToFit(mine), mine.sent) :
          req' = [req EXCEPT ![r].step = "store order",
                             ![r].mine = [mine EXCEPT !.form = form, !.input = input]]
     \/ Ends(r)
  /\ UNCHANGED <<number, stored, counter, code, orders, told>>

\* After its reads and the debit it stores what it validated, gives up, or is
\* begun again with what was sent.
StoreOrder(r) ==
  LET t == req[r] IN
  /\ t.step = "store order"
  /\ \/ \E o \in Orders \ placed :
          /\ placed' = placed \cup {o}
          /\ saved' = [saved EXCEPT ![o] = t.mine]
          /\ IF t.for = "compat" THEN req' = [req EXCEPT ![r] = Task("code", "compat", o)]
                                 ELSE Ends(r)
     \/ Ends(r) /\ UNCHANGED <<placed, saved>>
     \/ /\ req' = [req EXCEPT ![r].step = "create order", ![r].mine.input = None]
        /\ UNCHANGED <<placed, saved>>
  /\ UNCHANGED <<number, stored, counter, code, form, told>>

\* listOrders: the code of an order is known, or assigned.
CheckOrder(r, o) ==
  /\ o \in placed
  /\ IF code[o] # None
     THEN req[r] = Idle /\ told' = told \cup {<<o, code[o]>>} /\ UNCHANGED req
     ELSE Begin(r, Task("code", "client", o)) /\ UNCHANGED told
  /\ UNCHANGED <<number, stored, counter, code, orders>>

\* ensureCompatOrderId: a random code, under the same conditions as a number.
AssignCode(r) ==
  LET t == req[r] IN
  /\ t.step = "code"
  /\ \E c \in Codes :
       \/ /\ code[t.on] = None /\ \A o \in Orders : code[o] # c
          /\ code' = [code EXCEPT ![t.on] = c]
          /\ told' = told \cup {<<t.on, c>>}
          /\ Ends(r)
       \/ /\ code[t.on] = None /\ \E o \in Orders : code[o] = c
          /\ TryAgain(r, "code")
          /\ UNCHANGED <<code, told>>
       \/ /\ code[t.on] # None
          /\ Goes(r, "reread code")
          /\ UNCHANGED <<code, told>>
  /\ UNCHANGED <<number, stored, counter, orders>>

RereadCode(r) ==
  /\ req[r].step = "reread code"
  /\ told' = told \cup {<<req[r].on, code[req[r].on]>>}
  /\ Ends(r)
  /\ UNCHANGED <<number, stored, counter, code, orders>>

\* An administrator edits the form of the product.
EditForm ==
  /\ form' \in Forms \ {form}
  /\ UNCHANGED <<number, stored, counter, code, placed, saved, req, told>>

\* The client or the server gives up, the script is stopped.
Abandon(r) ==
  /\ req[r] # Idle
  /\ Ends(r)
  /\ UNCHANGED <<number, stored, counter, code, orders, told>>

-----------------------------------------------------------------------------

\* Some products and orders are there already: products without a number or
\* with one that was imported without its counter, orders with or without code.
Init ==
  /\ stored \in SUBSET Products
  /\ number \in [Products -> {0, StartAt + 1}]
  /\ \A x, y \in Products : number[x] # 0 => x \in stored /\ (number[x] = number[y] => x = y)
  /\ counter = 0
  /\ placed  \in SUBSET Orders
  /\ code    \in [Orders -> Codes \cup {None}]
  /\ \A o, q \in Orders : code[o] # None => o \in placed /\ (code[o] = code[q] => o = q)
  /\ form    \in Forms
  /\ saved   = [o \in Orders |-> None]
  /\ req     = [r \in Requests |-> Idle]
  /\ told    = {}

Numbering(r) ==
  \/ \E x \in Products : Show(r, x) \/ AddProduct(r, x)
  \/ BackfillStart(r) \/ BackfillSync(r) \/ BackfillNext(r)
  \/ FindCounter(r) \/ CreateCounter(r) \/ Increment(r)
  \/ Assign(r) \/ Reread(r) \/ Insert(r)

Ordering(r) ==
  \/ \E entry \in Entries : PlaceCompat(r, entry) \/ PlaceReseller(r, entry)
  \/ \E first, second \in Lists : PlaceOwn(r, first, second) \/ PlaceOrder(r, first, second)
  \/ ValidateOrder(r) \/ StoreOrder(r)
  \/ \E o \in Orders : CheckOrder(r, o)
  \/ AssignCode(r) \/ RereadCode(r)

Next ==
  \/ \E r \in Requests : Numbering(r) \/ Ordering(r) \/ Abandon(r)
  \/ EditForm

Spec == Init /\ [][Next]_vars

-----------------------------------------------------------------------------
(* Properties *)

\* What a client was told stays true: the number of a product and the code of
\* an order are those of every answer that named them, however many requests
\* assigned them at once, and no two records were ever given the same one.
AnswersStand ==
  \A answer \in told :
    /\ answer[2] = IF answer[1] \in Products THEN number[answer[1]] ELSE code[answer[1]]
    /\ \A other \in told : other[2] = answer[2] => other[1] = answer[1]

\* The counter never falls behind what it gave out, although the backfill
\* script moves it to a maximum it read earlier.
CounterAdvances == [][counter' >= counter]_vars

\* What is stored with an order suits the form: every required field has a value,
\* and each value is what was sent under a name of its field, was of the type
\* that its first field takes and is what its last field makes of it.
Fits(fm, sent, input) ==
  /\ \A f \in ActiveOf(fm) : f.required => f.key \in DOMAIN input
  /\ \A k \in DOMAIN input :
       /\ FieldsOf(fm, k) # {}
       /\ LET first == Min(FieldsOf(fm, k))
              last  == Max(FieldsOf(fm, k))
          IN \E f \in Range(fm), n \in DOMAIN sent :
               /\ f.key = k /\ Lower[n] \in NamesOf(f, Lower)
               /\ sent[n] \in DOMAIN fm[first].accepts
               /\ input[k] \in Range(fm[last].accepts)
               /\ (fm[last].formal \/ first = last => input[k] = fm[last].accepts[sent[n]])

\* Every order that was stored has what the form asks for that its last attempt
\* read, whichever API it came through, whatever form that API had renamed the
\* values by, whatever was edited in between and however often the attempt was
\* begun again.
InputFitsForm ==
  \A o \in Orders : saved[o] # None /\ saved[o].form # <<>> =>
    Fits(saved[o].form, saved[o].sent, saved[o].input)
=============================================================================
