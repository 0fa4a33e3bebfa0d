---------------------------- MODULE MCClientApi ----------------------------
(* The client API on small instances.                                        *)
EXTENDS ClientApi, TLC

CONSTANTS p1, p2, o1, o2, r1, r2, c1, c2, v1, v2

MCNames == {"player_id", "playerId", "Player ID", "uid", "userId", "server", "Zone",
            "currency", "link"}
MCLower ==
  [n \in MCNames |-> CASE n = "playerId" -> "playerid" [] n = "Player ID" -> "player id"
                       [] n = "userId" -> "userid" [] n = "Zone" -> "zone" [] OTHER -> n]
MCSquashed ==
  [n \in MCNames |-> IF n \in {"playerId", "player_id", "Player ID"} THEN "playerid"
                     ELSE MCLower[n]]

\* What a field takes: any text, one option only, or numbers, which it rewrites.
Text   == (v1 :> v1) @@ (v2 :> v2)
Select == v2 :> v2
Digits == (v1 :> v2) @@ (v2 :> v2)
Formal(key, label, required, active, accepts) ==
  [key |-> key, label |-> label, required |-> required, active |-> active,
   formal |-> TRUE, accepts |-> accepts]
Dynamic(key, label, required, accepts) ==
  [Formal(key, label, required, TRUE, accepts) EXCEPT !.formal = FALSE]

\* The forms: none; a formal one whose first field is inactive; a dynamic one; and a
\* formal and a dynamic one in which two fields have one key, or one's label is
\* another's key.
MCForms  ==
  {<<>>,
   <<Formal("server", "Zone", TRUE, FALSE, Select), Formal("player_id", "uid", TRUE, TRUE, Text)>>,
   <<Dynamic("playerId", "Player ID", TRUE, Text), Dynamic("server", "Zone", FALSE, Select)>>,
   <<Formal("uid", "server", TRUE, TRUE, Digits), Formal("server", "Zone", FALSE, TRUE, Digits),
     Formal("uid", "Player ID", FALSE, TRUE, Text)>>,
   <<Dynamic("uid", "Player ID", TRUE, Digits), Dynamic("uid", "Zone", FALSE, Select)>>}

OneValue  == {"uid" :> v1, "playerId" :> v1}
MCEntries == {("Player ID" :> v1) @@ ("Zone" :> v2) @@ ("currency" :> v1), "uid" :> v1}
MCLists   == {<<>>, << <<"playerId", v2>>, <<"Zone", v2>> >>, << <<"uid", v1>>, <<"Zone", v2>> >>}

\* Bounds: either requests of any kind meet, and orders are entered with
\* one value at most; or one request enters an order of any kind, while the
\* form is edited.
Plain(mine) == mine.form \in {None, <<>>} /\ mine.sent \in OneValue
Meeting ==
  /\ form = <<>>
  /\ \A o \in Orders : saved[o] # None => Plain(saved[o])
  /\ \A r \in Requests : req[r].step \in {"create order", "store order"} => Plain(req[r].mine)
Entering ==
  /\ stored = {} /\ counter = 0
  /\ \A o \in Orders : code[o] = None /\ (o \in placed => saved[o] # None)
  /\ Cardinality(placed) <= 1
  /\ Cardinality({r \in Requests : req[r] # Idle}) <= 1
Bounds == Meeting \/ Entering

Symmetries == Permutations(Products) \cup Permutations(Orders) \cup Permutations(Codes)
=============================================================================
