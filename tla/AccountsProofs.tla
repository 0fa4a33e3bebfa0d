---------------------------- MODULE AccountsProofs ----------------------------
(***************************************************************************)
(* Proofs about Accounts for any number of accounts, handlers, links and   *)
(* codes: every state is well typed, an account that was shut out stays    *)
(* out, and a one-time code that was used is gone.                         *)
(*                                                                         *)
(* Both safety proofs are about what handlers under way will write. What   *)
(* keeps a banned account out is that no handler but a decision of an      *)
(* administrator carries a status (or creates an account that exists).     *)
(* What keeps a used code away is that a handler carries either no code or *)
(* a fresh one, which nobody has stored, used or carries but itself.       *)
(***************************************************************************)
EXTENDS Accounts, TLAPS

Names == {"exists", "status", "verified", "link", "code", "second", "google",
          "api", "key", "deleted"}

\* The names of the fields.
LEMMA FieldNames == Fields = Names
  BY DEF Fields, Values, Names

\* Zero stands for no link and no code.
LEMMA Zero == 0 \in Links /\ 0 \in Codes
  BY BoundsAreNatural DEF Links, Codes

\* What save() writes of well-typed assignments is well typed.
LEMMA ChangedOK ==
  ASSUME NEW doc, NEW assigned, NEW unselected, PatchOK(assigned)
  PROVE  /\ PatchOK(Changed(doc, assigned, unselected))
         /\ DOMAIN Changed(doc, assigned, unselected) \subseteq DOMAIN assigned
         /\ \A f \in DOMAIN Changed(doc, assigned, unselected) :
              Changed(doc, assigned, unselected)[f] = assigned[f]
  BY DEF PatchOK, Changed

\* A document stays well typed under a well-typed patch.
LEMMA PatchedOK ==
  ASSUME NEW doc, NEW patch, PatchOK(doc), DOMAIN doc = Fields, PatchOK(patch)
  PROVE  PatchOK(Patched(doc, patch)) /\ DOMAIN Patched(doc, patch) = Fields
  BY DEF PatchOK, Patched

\* The patches that handlers assign are well typed.
LEMMA Assignments ==
  ASSUME NEW link \in Links, NEW code \in Codes, NEW b \in BOOLEAN,
         NEW c \in BOOLEAN, NEW s \in Statuses
  PROVE  /\ PatchOK(<<>>)
         /\ PatchOK([verified |-> b, link |-> link]) /\ PatchOK([link |-> link])
         /\ PatchOK([code |-> code]) /\ PatchOK([google |-> b, verified |-> c])
         /\ PatchOK([second |-> b, code |-> code]) /\ PatchOK([key |-> b])
         /\ PatchOK([status |-> s, verified |-> b, link |-> link])
         /\ PatchOK([status |-> s]) /\ PatchOK([verified |-> b]) /\ PatchOK([api |-> b])
         /\ PatchOK([deleted |-> b, status |-> s])
         /\ PatchOK([exists |-> b, status |-> s, link |-> link])
<1>1. PatchOK(<<>>)
  BY DEF PatchOK
<1>2. PatchOK([verified |-> b, link |-> link]) /\ PatchOK([link |-> link])
  BY DEF PatchOK, Fields, Values
<1>3. PatchOK([code |-> code]) /\ PatchOK([google |-> b, verified |-> c])
  BY DEF PatchOK, Fields, Values
<1>4. PatchOK([second |-> b, code |-> code]) /\ PatchOK([key |-> b])
  BY DEF PatchOK, Fields, Values
<1>5. PatchOK([status |-> s, verified |-> b, link |-> link])
  BY DEF PatchOK, Fields, Values, Statuses
<1>6. PatchOK([status |-> s]) /\ PatchOK([verified |-> b]) /\ PatchOK([api |-> b])
  BY DEF PatchOK, Fields, Values, Statuses
<1>7. PatchOK([deleted |-> b, status |-> s])
  BY DEF PatchOK, Fields, Values, Statuses
<1>8. PatchOK([exists |-> b, status |-> s, link |-> link])
  BY DEF PatchOK, Fields, Values, Statuses
<1> QED BY <1>1, <1>2, <1>3, <1>4, <1>5, <1>6, <1>7, <1>8

\* What a well-typed document or patch says of the code is a code.
LEMMA CodeOfPatch ==
  ASSUME NEW patch, PatchOK(patch), "code" \in DOMAIN patch
  PROVE  patch["code"] \in Codes
<1>1. patch["code"] \in Values["code"]
  BY DEF PatchOK
<1>2. Values["code"] = Codes
  BY DEF Values
<1> QED BY <1>1, <1>2

\* The stored codes are codes.
LEMMA CodeTyped ==
  ASSUME TypeOK
  PROVE  \A u \in Users : users[u].code \in Codes
<1>1. "code" \in Fields
  BY FieldNames DEF Names
<1> QED BY <1>1, CodeOfPatch DEF TypeOK

\* A document without anything set is well typed.
LEMMA Blank ==
  ASSUME NEW link \in Links, NEW code \in Codes, NEW s \in Statuses,
         NEW b \in BOOLEAN
  PROVE  LET doc == [exists |-> b, status |-> s, verified |-> b, link |-> link,
                     code |-> code, second |-> b, google |-> b, api |-> b, key |-> b,
                     deleted |-> b]
         IN PatchOK(doc) /\ DOMAIN doc = Fields /\ doc.code = code
  BY DEF PatchOK, Fields, Values, Statuses

\* A new account is well typed; it has no code.
LEMMA NewAccountOK ==
  ASSUME NEW link \in Links
  PROVE  /\ PatchOK(NewAccount(link)) /\ DOMAIN NewAccount(link) = Fields
         /\ NewAccount(link).code = 0 /\ NewAccount(link).exists
<1>1. "PENDING" \in Statuses /\ "ACTIVE" \in Statuses
  BY DEF Statuses
<1>2. PatchOK(NoAccount) /\ DOMAIN NoAccount = Fields /\ NoAccount.code = 0
  BY <1>1, Blank, Zero DEF NoAccount
<1>3. PatchOK([exists |-> TRUE, status |-> "ACTIVE", link |-> link])
  BY <1>1, Assignments, Zero
<1>4. "code" \in Fields /\ "exists" \in Fields
  BY FieldNames DEF Names
<1>5. PatchOK(NewAccount(link)) /\ DOMAIN NewAccount(link) = Fields
  BY <1>2, <1>3, PatchedOK DEF NewAccount
<1>6. NewAccount(link).code = 0 /\ NewAccount(link).exists
  BY <1>2, <1>4 DEF NewAccount, Patched
<1> QED BY <1>5, <1>6

-----------------------------------------------------------------------------
(* What handlers carry *)

\* What administrators decide, the other fields of updateUser included.
Decisions == LetsIn \cup ShutsOut \cup {"update"}

\* Decisions to let in may carry any status, those to shut out carry another
\* than ACTIVE.
Lawful(op, patch) ==
  "status" \in DOMAIN patch =>
    op \in LetsIn \/ (op \in ShutsOut /\ patch["status"] # "ACTIVE")

\* Only administrators' decisions, on accounts that exist, and the creation of
\* an account carry a status; only a creation makes an account exist.
StatusCarried(t) ==
  /\ Lawful(t.op, t.patch) \/ t.op = "create"
  /\ t.op \in Decisions => users[t.on].exists
  /\ "exists" \in DOMAIN t.patch => t.op = "create"

\* The code that a handler will store; 0 when it stores none or unsets it.
Brings(t) == IF "code" \in DOMAIN t.patch THEN t.patch["code"] ELSE 0

\* A handler begins to carry no code, or one generated for it.
CodeCarried(t) ==
  \/ codes' = codes /\ Brings(t) = 0
  \/ codes' = codes + 1 /\ Brings(t) = codes + 1

\* A handler that uses a code found it stored, and will unset it.
CodeUsed(t) ==
  t.uses # 0 => /\ t.op \notin {"idle", "create"}
                /\ "code" \in DOMAIN t.patch /\ Brings(t) = 0
                /\ users[t.on].code = t.uses

\* The step that lets handler r go on with t, and what is known of it.
Begins(r, t) ==
  /\ tasks' = [tasks EXCEPT ![r] = t]
  /\ UNCHANGED <<users, sessions, pending, spent, decided>>
  /\ links' \in Links /\ codes' \in Codes
  /\ TaskOK(t) /\ StatusCarried(t) /\ CodeCarried(t) /\ CodeUsed(t)

\* What all these steps leave alone.
Quiet == UNCHANGED <<users, sessions, pending, spent, decided>> /\ links' \in Links

\* A handler that carries neither a status nor a code.
LEMMA Ordinary ==
  ASSUME TypeOK, NEW r \in Requests, NEW op \in Ops \ (Decisions \cup {"idle", "create"}),
         NEW u \in Users, NEW patch, PatchOK(patch),
         "status" \notin DOMAIN patch, "exists" \notin DOMAIN patch,
         "code" \notin DOMAIN patch,
         NEW gives \in {"nothing", "session", "pending"},
         tasks' = [tasks EXCEPT ![r] = Task(op, u, patch, gives, 0)],
         Quiet, codes' = codes
  PROVE  Begins(r, Task(op, u, patch, gives, 0))
  BY Zero DEF Begins, Quiet, Task, TaskOK, StatusCarried, Lawful, CodeCarried, CodeUsed, Brings, TypeOK

\* A decision of an administrator.
LEMMA Deciding ==
  ASSUME TypeOK, NEW r \in Requests, NEW op \in Decisions,
         NEW u \in Users, users[u].exists, NEW patch, PatchOK(patch), Lawful(op, patch),
         "exists" \notin DOMAIN patch, "code" \notin DOMAIN patch,
         tasks' = [tasks EXCEPT ![r] = Task(op, u, patch, "nothing", 0)],
         Quiet, codes' = codes
  PROVE  Begins(r, Task(op, u, patch, "nothing", 0))
<1>1. op \in Ops /\ op # "create" /\ op # "idle"
  BY DEF Ops, Decisions, LetsIn, ShutsOut
<1> QED BY <1>1, Zero
        DEF Begins, Quiet, Task, TaskOK, StatusCarried, Lawful, CodeCarried, CodeUsed, Brings, TypeOK

\* A handler that generated a code.
LEMMA Coding ==
  ASSUME TypeOK, NEW r \in Requests, NEW op \in {"login", "generate2FA"}, NEW u \in Users,
         codes < MaxCodes, NEW gives \in {"nothing", "pending"},
         tasks' = [tasks EXCEPT ![r] =
                     Task(op, u, Changed(users[u], [code |-> FreshCode], {"code"}), gives, 0)],
         Quiet, codes' = FreshCode
  PROVE  Begins(r, Task(op, u, Changed(users[u], [code |-> FreshCode], {"code"}), gives, 0))
<1> DEFINE patch == Changed(users[u], [code |-> FreshCode], {"code"})
<1>1. FreshCode \in Codes
  BY BoundsAreNatural DEF FreshCode, Codes, TypeOK
<1>2. PatchOK([code |-> FreshCode])
  BY <1>1, Zero, Assignments DEF Statuses
<1>3. PatchOK(patch) /\ DOMAIN patch = {"code"} /\ patch["code"] = FreshCode
  BY <1>2, ChangedOK DEF Changed
<1>4. op \in Ops /\ op \notin Decisions \cup {"idle", "create"}
  BY DEF Ops, Decisions, LetsIn, ShutsOut
<1> HIDE DEF patch
<1>5. TaskOK(Task(op, u, patch, gives, 0))
  BY <1>3, <1>4, Zero DEF Task, TaskOK
<1>6. StatusCarried(Task(op, u, patch, gives, 0))
  BY <1>3, <1>4 DEF Task, StatusCarried, Lawful, Decisions
<1>7. Brings(Task(op, u, patch, gives, 0)) = FreshCode /\ Task(op, u, patch, gives, 0).uses = 0
  BY <1>3 DEF Task, Brings
<1> QED BY <1>1, <1>5, <1>6, <1>7 DEF Begins, Quiet, CodeCarried, CodeUsed, FreshCode, patch

\* A handler that unsets the code, whether it found the one it was sent or not.
LEMMA Unsetting ==
  ASSUME TypeOK, NEW r \in Requests, NEW op \in Ops \ (Decisions \cup {"idle", "create"}),
         NEW u \in Users, NEW patch, PatchOK(patch),
         "status" \notin DOMAIN patch, "exists" \notin DOMAIN patch,
         "code" \in DOMAIN patch => patch["code"] = 0,
         NEW gives \in {"nothing", "session"}, NEW uses \in Codes,
         uses # 0 => uses = users[u].code /\ "code" \in DOMAIN patch,
         tasks' = [tasks EXCEPT ![r] = Task(op, u, patch, gives, uses)],
         Quiet, codes' = codes
  PROVE  Begins(r, Task(op, u, patch, gives, uses))
  BY Zero DEF Begins, Quiet, Task, TaskOK, StatusCarried, Lawful, CodeCarried, CodeUsed, Brings, TypeOK

\* A handler that will create an account.
LEMMA Creating ==
  ASSUME TypeOK, NEW r \in Requests, NEW u \in Users, NEW patch, PatchOK(patch),
         DOMAIN patch = Fields, patch["code"] = 0, NEW gives \in {"nothing", "session"},
         tasks' = [tasks EXCEPT ![r] = Task("create", u, patch, gives, 0)],
         Quiet, codes' = codes
  PROVE  Begins(r, Task("create", u, patch, gives, 0))
<1>1. "create" \in Ops /\ "create" \notin Decisions
  BY DEF Ops, Decisions, LetsIn, ShutsOut
<1> QED BY <1>1, Zero
        DEF Begins, Quiet, Task, TaskOK, StatusCarried, Lawful, CodeCarried, CodeUsed, Brings, TypeOK

-----------------------------------------------------------------------------
(* Every handler begins, and goes on, in one of these ways. *)

\* The operations that carry neither a status nor a code.
LEMMA OrdinarySteps ==
  ASSUME TypeOK, NEW r \in Requests,
         \/ \E u \in Users : \/ VerifyEmail(r, u) \/ ResendVerification(r, u) \/ LogIn(r, u)
                             \/ Admit(r, u) \/ AdminEdit(r, u)
         \/ GenerateKey(r) \/ EditProfile(r)
  PROVE  \E t : Begins(r, t)
<1>1. links \in Links /\ \A q \in Requests : tasks[q].op = "admitted" => tasks[q].on \in Users
  BY DEF TypeOK, TaskOK
<1>2. ASSUME NEW u \in Users, VerifyEmail(r, u) PROVE \E t : Begins(r, t)
  <2> DEFINE patch == Changed(users[u], [verified |-> TRUE, link |-> 0], {})
  <2>1. PatchOK([verified |-> TRUE, link |-> 0])
    BY Zero, Assignments DEF Statuses
  <2>2. PatchOK(patch) /\ DOMAIN patch \subseteq {"verified", "link"}
    BY <2>1, ChangedOK
  <2>3. Quiet /\ codes' = codes /\ "verifyEmail" \in Ops \ (Decisions \cup {"idle", "create"})
    BY <1>1, <1>2 DEF Quiet, VerifyEmail, Ops, Decisions, LetsIn, ShutsOut
  <2>4. tasks' = [tasks EXCEPT ![r] = Task("verifyEmail", u, patch, "nothing", 0)]
    BY <1>2 DEF VerifyEmail, Loads
  <2> HIDE DEF patch
  <2> QED BY <2>2, <2>3, <2>4, Ordinary
<1>3. ASSUME NEW u \in Users, ResendVerification(r, u) PROVE \E t : Begins(r, t)
  <2> DEFINE patch == Changed(users[u], [link |-> FreshLink], {})
  <2>1. FreshLink \in Links
    BY <1>1, <1>3, BoundsAreNatural DEF FreshLink, Links, ResendVerification
  <2>2. PatchOK([link |-> FreshLink])
    BY <2>1, Zero, Assignments DEF Statuses
  <2>3. PatchOK(patch) /\ DOMAIN patch \subseteq {"link"}
    BY <2>2, ChangedOK
  <2>4. Quiet /\ codes' = codes /\ "resend" \in Ops \ (Decisions \cup {"idle", "create"})
    BY <1>3, <2>1 DEF Quiet, ResendVerification, Ops, Decisions, LetsIn, ShutsOut
  <2>5. tasks' = [tasks EXCEPT ![r] = Task("resend", u, patch, "nothing", 0)]
    BY <1>3 DEF ResendVerification, Loads
  <2> HIDE DEF patch
  <2> QED BY <2>3, <2>4, <2>5, Ordinary
<1>4. ASSUME NEW u \in Users, LogIn(r, u) PROVE \E t : Begins(r, t)
  <2>1. Quiet /\ codes' = codes /\ "login" \in Ops \ (Decisions \cup {"idle", "create"})
    BY <1>1, <1>4 DEF Quiet, LogIn, Ops, Decisions, LetsIn, ShutsOut
  <2>2. PatchOK(<<>>) /\ DOMAIN <<>> = {}
    BY DEF PatchOK
  <2>3. tasks' = [tasks EXCEPT ![r] = Task("login", u, <<>>, "session", 0)]
    BY <1>4 DEF LogIn, Loads
  <2> QED BY <2>1, <2>2, <2>3, Ordinary
<1>5. ASSUME NEW u \in Users, Admit(r, u) PROVE \E t : Begins(r, t)
  <2>1. Quiet /\ codes' = codes /\ "admitted" \in Ops \ (Decisions \cup {"idle", "create"})
    BY <1>1, <1>5 DEF Quiet, Admit, Ops, Decisions, LetsIn, ShutsOut
  <2>2. PatchOK(<<>>) /\ DOMAIN <<>> = {}
    BY DEF PatchOK
  <2>3. tasks' = [tasks EXCEPT ![r] = Task("admitted", u, <<>>, "nothing", 0)]
    BY <1>5 DEF Admit, Loads
  <2> QED BY <2>1, <2>2, <2>3, Ordinary
<1>6. ASSUME NEW u \in Users, NEW doc,
             tasks' = [tasks EXCEPT ![r] = Task("edit", u, Changed(doc, <<>>, {}), "nothing", 0)],
             UNCHANGED <<users, links, codes, sessions, pending, spent, decided>>
      PROVE  \E t : Begins(r, t)
  <2>1. Quiet /\ codes' = codes /\ "edit" \in Ops \ (Decisions \cup {"idle", "create"})
    BY <1>1, <1>6 DEF Quiet, Ops, Decisions, LetsIn, ShutsOut
  <2>2. PatchOK(<<>>) /\ DOMAIN <<>> = {}
    BY DEF PatchOK
  <2>3. PatchOK(Changed(doc, <<>>, {})) /\ DOMAIN Changed(doc, <<>>, {}) = {}
    BY <2>2, ChangedOK
  <2> QED BY <1>6, <2>1, <2>3, Ordinary
<1>7. ASSUME GenerateKey(r) PROVE \E t : Begins(r, t)
  <2>1. Quiet /\ codes' = codes /\ "generateKey" \in Ops \ (Decisions \cup {"idle", "create"})
    BY <1>1, <1>7 DEF Quiet, GenerateKey, Ops, Decisions, LetsIn, ShutsOut
  <2>2. PatchOK([key |-> TRUE]) /\ DOMAIN [key |-> TRUE] = {"key"}
    BY Zero, Assignments DEF Statuses
  <2>3. /\ tasks[r].on \in Users
        /\ tasks' = [tasks EXCEPT ![r] =
                       Task("generateKey", tasks[r].on, [key |-> TRUE], "nothing", 0)]
    BY <1>1, <1>7 DEF GenerateKey, Handles
  <2> QED BY <2>1, <2>2, <2>3, Ordinary
<1>8. CASE EditProfile(r)
  BY <1>1, <1>6, <1>8 DEF EditProfile, Handles
<1>9. ASSUME NEW u \in Users, AdminEdit(r, u) PROVE \E t : Begins(r, t)
  BY <1>6, <1>9 DEF AdminEdit, Decides, Loads
<1> QED BY <1>2, <1>3, <1>4, <1>5, <1>7, <1>8, <1>9

\* The decisions of administrators.
LEMMA DecidingSteps ==
  ASSUME TypeOK, NEW r \in Requests, NEW u \in Users,
         \/ ApproveUser(r, u) \/ RejectUser(r, u) \/ UpdateUser(r, u)
         \/ DeleteUser(r, u) \/ RestoreUser(r, u)
  PROVE  \E t : Begins(r, t)
<1>1. ASSUME NEW op \in Decisions, NEW patch, Decides(r, op, u, patch), PatchOK(patch),
             Lawful(op, patch), "exists" \notin DOMAIN patch, "code" \notin DOMAIN patch
      PROVE  \E t : Begins(r, t)
  <2>1. Quiet /\ codes' = codes /\ users[u].exists
    BY <1>1 DEF Quiet, Decides, TypeOK
  <2>2. tasks' = [tasks EXCEPT ![r] = Task(op, u, patch, "nothing", 0)]
    BY <1>1 DEF Decides, Loads
  <2> QED BY <1>1, <2>1, <2>2, Deciding
<1>2. ASSUME NEW op \in Decisions, NEW assigned, NEW unselected, PatchOK(assigned),
             Decides(r, op, u, Changed(users[u], assigned, unselected)),
             Lawful(op, assigned), "exists" \notin DOMAIN assigned, "code" \notin DOMAIN assigned
      PROVE  \E t : Begins(r, t)
  <2> DEFINE patch == Changed(users[u], assigned, unselected)
  <2>1. /\ PatchOK(patch) /\ DOMAIN patch \subseteq DOMAIN assigned
        /\ \A f \in DOMAIN patch : patch[f] = assigned[f]
    BY <1>2, ChangedOK
  <2>2. Decides(r, op, u, patch)
    BY <1>2
  <2> HIDE DEF patch
  <2>3. Lawful(op, patch) /\ "exists" \notin DOMAIN patch /\ "code" \notin DOMAIN patch
    BY <1>2, <2>1 DEF Lawful
  <2> QED BY <1>1, <2>1, <2>2, <2>3
<1>3. /\ {"approve", "admit", "restore"} \subseteq Decisions \cap LetsIn
      /\ {"reject", "suspend", "delete"} \subseteq Decisions \cap ShutsOut
      /\ "update" \in Decisions
  BY DEF Decisions, LetsIn, ShutsOut
<1>4. "ACTIVE" \in Statuses /\ "REJECTED" \in Statuses
  BY DEF Statuses
<1>5. CASE ApproveUser(r, u)
  <2> DEFINE patch == [status |-> "ACTIVE", verified |-> TRUE, link |-> 0]
  <2>1. PatchOK(patch) /\ DOMAIN patch = {"status", "verified", "link"} /\ Lawful("approve", patch)
    BY <1>3, <1>4, Zero, Assignments DEF Lawful
  <2>2. Decides(r, "approve", u, patch)
    BY <1>5 DEF ApproveUser
  <2> HIDE DEF patch
  <2> QED BY <1>1, <1>3, <2>1, <2>2
<1>6. CASE RejectUser(r, u)
  <2> DEFINE patch == [status |-> "REJECTED"]
  <2>1. PatchOK(patch) /\ DOMAIN patch = {"status"} /\ Lawful("reject", patch)
    BY <1>3, <1>4, Zero, Assignments DEF Lawful
  <2>2. Decides(r, "reject", u, Changed(users[u], patch, {}))
    BY <1>6 DEF RejectUser
  <2> HIDE DEF patch
  <2> QED BY <1>2, <1>3, <2>1, <2>2
<1>7. CASE UpdateUser(r, u)
  <2>1. ASSUME Decides(r, "admit", u,
                       Changed(users[u], [status |-> "ACTIVE", verified |-> TRUE, link |-> 0],
                               {"link"}))
        PROVE  \E t : Begins(r, t)
    <3> DEFINE patch == [status |-> "ACTIVE", verified |-> TRUE, link |-> 0]
    <3>1. PatchOK(patch) /\ DOMAIN patch = {"status", "verified", "link"} /\ Lawful("admit", patch)
      BY <1>3, <1>4, Zero, Assignments DEF Lawful
    <3>2. Decides(r, "admit", u, Changed(users[u], patch, {"link"}))
      BY <2>1
    <3> HIDE DEF patch
    <3> QED BY <1>2, <1>3, <3>1, <3>2
  <2>2. ASSUME NEW s \in Statuses \ {"ACTIVE"},
               Decides(r, "suspend", u, Changed(users[u], [status |-> s], {}))
        PROVE  \E t : Begins(r, t)
    <3> DEFINE patch == [status |-> s]
    <3>1. PatchOK(patch) /\ DOMAIN patch = {"status"} /\ Lawful("suspend", patch)
      BY <1>3, Zero, Assignments DEF Lawful
    <3>2. Decides(r, "suspend", u, Changed(users[u], patch, {}))
      BY <2>2
    <3> HIDE DEF patch
    <3> QED BY <1>2, <1>3, <3>1, <3>2
  <2>3. ASSUME NEW v \in BOOLEAN, Decides(r, "update", u, Changed(users[u], [verified |-> v], {}))
        PROVE  \E t : Begins(r, t)
    <3> DEFINE patch == [verified |-> v]
    <3>1. PatchOK(patch) /\ DOMAIN patch = {"verified"} /\ Lawful("update", patch)
      BY <1>3, <1>4, Zero, Assignments DEF Lawful
    <3>2. Decides(r, "update", u, Changed(users[u], patch, {}))
      BY <2>3
    <3> HIDE DEF patch
    <3> QED BY <1>2, <1>3, <3>1, <3>2
  <2>4. ASSUME NEW on \in BOOLEAN, Decides(r, "update", u, Changed(users[u], [api |-> on], {}))
        PROVE  \E t : Begins(r, t)
    <3> DEFINE patch == [api |-> on]
    <3>1. PatchOK(patch) /\ DOMAIN patch = {"api"} /\ Lawful("update", patch)
      BY <1>3, <1>4, Zero, Assignments DEF Lawful
    <3>2. Decides(r, "update", u, Changed(users[u], patch, {}))
      BY <2>4
    <3> HIDE DEF patch
    <3> QED BY <1>2, <1>3, <3>1, <3>2
  <2> QED BY <1>7, <2>1, <2>2, <2>3, <2>4 DEF UpdateUser
<1>8. CASE DeleteUser(r, u)
  <2> DEFINE patch == [deleted |-> TRUE, status |-> "REJECTED"]
  <2>1. PatchOK(patch) /\ DOMAIN patch = {"deleted", "status"} /\ Lawful("delete", patch)
    BY <1>3, <1>4, Zero, Assignments DEF Lawful
  <2>2. Decides(r, "delete", u, Changed(users[u], patch, {}))
    BY <1>8 DEF DeleteUser
  <2> HIDE DEF patch
  <2> QED BY <1>2, <1>3, <2>1, <2>2
<1>9. CASE RestoreUser(r, u)
  <2> DEFINE patch == [deleted |-> FALSE, status |-> "ACTIVE"]
  <2>1. PatchOK(patch) /\ DOMAIN patch = {"deleted", "status"} /\ Lawful("restore", patch)
    BY <1>3, <1>4, Zero, Assignments DEF Lawful
  <2>2. Decides(r, "restore", u, Changed(users[u], patch, {}))
    BY <1>9 DEF RestoreUser
  <2> HIDE DEF patch
  <2> QED BY <1>2, <1>3, <2>1, <2>2
<1> QED BY <1>5, <1>6, <1>7, <1>8, <1>9

\* The operations that generate, use or unset a code.
LEMMA CodeSteps ==
  ASSUME TypeOK, NEW r \in Requests,
         \/ \E u \in Users : LogInSecond(r, u) \/ VerifySecond(r, u)
         \/ GenerateSecond(r) \/ EnableSecond(r) \/ DisableSecond(r)
  PROVE  \E t : Begins(r, t)
<1>1. links \in Links /\ \A q \in Requests : tasks[q].op = "admitted" => tasks[q].on \in Users
  BY DEF TypeOK, TaskOK
<1>2. {"verify2FA", "expired", "enable2FA", "disable2FA"}
        \subseteq Ops \ (Decisions \cup {"idle", "create"})
  BY DEF Ops, Decisions, LetsIn, ShutsOut
<1>3. \A u \in Users : users[u].code \in Codes
  BY CodeTyped
<1>4. ASSUME NEW op \in {"verify2FA", "expired", "enable2FA", "disable2FA"}, NEW u \in Users,
             NEW assigned, NEW unselected, PatchOK(assigned), DOMAIN assigned \subseteq {"second", "code"},
             "code" \in DOMAIN assigned, assigned["code"] = 0,
             NEW gives \in {"nothing", "session"}, NEW uses \in {0, users[u].code},
             tasks' = [tasks EXCEPT ![r] =
                         Task(op, u, Changed(users[u], assigned, unselected), gives, uses)],
             UNCHANGED <<users, links, codes, sessions, pending, spent, decided>>
      PROVE  \E t : Begins(r, t)
  <2> DEFINE patch == Changed(users[u], assigned, unselected)
  <2>1. PatchOK(patch) /\ DOMAIN patch \subseteq {"second", "code"}
    BY <1>4, ChangedOK
  <2>2. "code" \in DOMAIN patch => patch["code"] = 0
    BY <1>4, ChangedOK
  <2>3. users[u].code # 0 => "code" \in DOMAIN patch
    BY <1>4 DEF Changed
  <2>4. Quiet /\ codes' = codes /\ uses \in Codes
    BY <1>1, <1>3, <1>4, Zero DEF Quiet
  <2>5. tasks' = [tasks EXCEPT ![r] = Task(op, u, patch, gives, uses)]
    BY <1>4
  <2> HIDE DEF patch
  <2>6. "status" \notin DOMAIN patch /\ "exists" \notin DOMAIN patch
    BY <2>1
  <2>7. uses # 0 => uses = users[u].code /\ "code" \in DOMAIN patch
    BY <2>3
  <2>8. op \in Ops \ (Decisions \cup {"idle", "create"})
    BY <1>2
  <2> QED BY <1>1, <2>1, <2>2, <2>4, <2>5, <2>6, <2>7, <2>8, Unsetting
<1>5. ASSUME NEW op \in {"login", "generate2FA"}, NEW u \in Users, codes < MaxCodes,
             NEW gives \in {"nothing", "pending"}, codes' = FreshCode,
             tasks' = [tasks EXCEPT ![r] =
                         Task(op, u, Changed(users[u], [code |-> FreshCode], {"code"}), gives, 0)],
             UNCHANGED <<users, links, sessions, pending, spent, decided>>
      PROVE  \E t : Begins(r, t)
  <2>1. Quiet
    BY <1>1, <1>5 DEF Quiet
  <2> QED BY <1>5, <2>1, Coding
<1>6. /\ PatchOK([code |-> 0]) /\ DOMAIN [code |-> 0] = {"code"}
      /\ PatchOK([second |-> FALSE, code |-> 0]) /\ DOMAIN [second |-> FALSE, code |-> 0] = {"second", "code"}
      /\ PatchOK(Confirmed) /\ DOMAIN Confirmed = {"second", "code"} /\ Confirmed["code"] = 0
  BY Zero, Assignments DEF Statuses, Confirmed
<1>7. ASSUME NEW u \in Users, LogInSecond(r, u) PROVE \E t : Begins(r, t)
  BY <1>5, <1>7 DEF LogInSecond, Loads
<1>8. ASSUME NEW u \in Users, VerifySecond(r, u) PROVE \E t : Begins(r, t)
  <2> DEFINE assigned == [code |-> 0]
  <2>1. PatchOK(assigned) /\ DOMAIN assigned = {"code"} /\ assigned["code"] = 0
    BY <1>6
  <2>2. /\ UNCHANGED <<users, links, codes, sessions, pending, spent, decided>>
        /\ \/ tasks' = [tasks EXCEPT ![r] =
                            Task("verify2FA", u, Changed(users[u], assigned, {}), "session",
                                 users[u].code)]
           \/ tasks' = [tasks EXCEPT ![r] =
                            Task("expired", u, Changed(users[u], assigned, {}), "nothing", 0)]
    BY <1>8 DEF VerifySecond, Loads
  <2> HIDE DEF assigned
  <2> QED BY <1>4, <2>1, <2>2
<1>9. CASE GenerateSecond(r)
  <2>1. tasks[r].on \in Users
    BY <1>1, <1>9 DEF GenerateSecond
  <2> QED BY <1>5, <1>9, <2>1 DEF GenerateSecond, Handles
<1>10. CASE EnableSecond(r)
  <2> DEFINE assigned == [code |-> 0]
             u == tasks[r].on
  <2>1. PatchOK(assigned) /\ DOMAIN assigned = {"code"} /\ assigned["code"] = 0
    BY <1>6
  <2>2. u \in Users
    BY <1>1, <1>10 DEF EnableSecond
  <2>3. /\ UNCHANGED <<users, links, codes, sessions, pending, spent, decided>>
        /\ \/ tasks' = [tasks EXCEPT ![r] =
                            Task("enable2FA", u, Changed(users[u], Confirmed, {}), "nothing",
                                 users[u].code)]
           \/ tasks' = [tasks EXCEPT ![r] =
                            Task("expired", u, Changed(users[u], assigned, {}), "nothing", 0)]
    BY <1>10 DEF EnableSecond, Handles
  <2> HIDE DEF assigned, u
  <2>4. ASSUME tasks' = [tasks EXCEPT ![r] =
                            Task("enable2FA", u, Changed(users[u], Confirmed, {}), "nothing",
                                 users[u].code)]
        PROVE  \E t : Begins(r, t)
    BY <1>4, <1>6, <2>2, <2>3, <2>4
  <2>5. ASSUME tasks' = [tasks EXCEPT ![r] =
                            Task("expired", u, Changed(users[u], assigned, {}), "nothing", 0)]
        PROVE  \E t : Begins(r, t)
    BY <1>4, <2>1, <2>2, <2>3, <2>5
  <2> QED BY <2>3, <2>4, <2>5
<1>11. CASE DisableSecond(r)
  <2> DEFINE assigned == [second |-> FALSE, code |-> 0]
             u == tasks[r].on
  <2>1. PatchOK(assigned) /\ DOMAIN assigned = {"second", "code"} /\ assigned["code"] = 0
    BY <1>6
  <2>2. u \in Users
    BY <1>1, <1>11 DEF DisableSecond
  <2>3. /\ UNCHANGED <<users, links, codes, sessions, pending, spent, decided>>
        /\ tasks' = [tasks EXCEPT ![r] =
                       Task("disable2FA", u, Changed(users[u], assigned, {"code"}), "nothing", 0)]
    BY <1>11 DEF DisableSecond, Handles
  <2> HIDE DEF assigned
  <2> QED BY <1>4, <2>1, <2>2, <2>3
<1> QED BY <1>7, <1>8, <1>9, <1>10, <1>11

\* Registration, and sign-in with Google.
LEMMA ArrivalSteps ==
  ASSUME TypeOK, NEW r \in Requests, NEW u \in Users, Register(r, u) \/ Google(r, u)
  PROVE  \E t : Begins(r, t)
<1>1. links \in Links
  BY DEF TypeOK
<1>2. CASE Register(r, u)
  <2>1. FreshLink \in Links
    BY <1>1, <1>2, BoundsAreNatural DEF FreshLink, Links, Register
  <2>2. /\ PatchOK(NewAccount(FreshLink)) /\ DOMAIN NewAccount(FreshLink) = Fields
        /\ NewAccount(FreshLink)["code"] = 0
    BY <2>1, NewAccountOK
  <2>3. Quiet /\ codes' = codes
    BY <1>2, <2>1 DEF Quiet, Register
  <2>4. tasks' = [tasks EXCEPT ![r] = Task("create", u, NewAccount(FreshLink), "nothing", 0)]
    BY <1>2 DEF Register, Loads
  <2> QED BY <2>2, <2>3, <2>4, Creating
<1>3. CASE Google(r, u)
  <2> DEFINE gives  == IF users[u].status = "ACTIVE" THEN "session" ELSE "nothing"
             linked == [google |-> TRUE, verified |-> TRUE]
             joined == Patched(NewAccount(0), linked)
  <2>1. PatchOK(linked) /\ DOMAIN linked = {"google", "verified"}
    BY Zero, Assignments DEF Statuses
  <2>2. /\ PatchOK(NewAccount(0)) /\ DOMAIN NewAccount(0) = Fields
        /\ NewAccount(0)["code"] = 0
    BY Zero, NewAccountOK
  <2>3. Quiet /\ codes' = codes
    BY <1>1, <1>3 DEF Quiet, Google
  <2>4. \/ tasks' = [tasks EXCEPT ![r] = Task("google", u, <<>>, gives, 0)]
        \/ tasks' = [tasks EXCEPT ![r] = Task("google", u, Changed(users[u], linked, {}), gives, 0)]
        \/ tasks' = [tasks EXCEPT ![r] = Task("create", u, joined, "session", 0)]
    BY <1>3 DEF Google, Loads
  <2>5. PatchOK(<<>>) /\ DOMAIN <<>> = {}
    BY DEF PatchOK
  <2>6. /\ PatchOK(Changed(users[u], linked, {}))
        /\ DOMAIN Changed(users[u], linked, {}) \subseteq {"google", "verified"}
    BY <2>1, ChangedOK
  <2>7. PatchOK(joined) /\ DOMAIN joined = Fields
    BY <2>1, <2>2, PatchedOK
  <2>8. joined["code"] = 0
    BY <2>1, <2>2, FieldNames DEF Patched, Names
  <2>9. gives \in {"nothing", "session"}
    OBVIOUS
  <2>10. "google" \in Ops \ (Decisions \cup {"idle", "create"})
    BY DEF Ops, Decisions, LetsIn, ShutsOut
  <2> HIDE DEF gives, linked, joined
  <2>11. CASE tasks' = [tasks EXCEPT ![r] = Task("google", u, <<>>, gives, 0)]
    BY <2>3, <2>5, <2>9, <2>10, <2>11, Ordinary
  <2>12. CASE tasks' = [tasks EXCEPT ![r] = Task("google", u, Changed(users[u], linked, {}), gives, 0)]
    BY <2>3, <2>6, <2>9, <2>10, <2>12, Ordinary
  <2>13. CASE tasks' = [tasks EXCEPT ![r] = Task("create", u, joined, "session", 0)]
    BY <2>3, <2>7, <2>8, <2>13, Creating
  <2> QED BY <2>4, <2>11, <2>12, <2>13
<1> QED BY <1>2, <1>3

\* Every step of a visitor, a customer or an administrator.
LEMMA LoadingSteps ==
  ASSUME TypeOK, NEW r \in Requests, Visitor(r) \/ Customer(r) \/ Administrator(r)
  PROVE  \E t : Begins(r, t)
  BY OrdinarySteps, DecidingSteps, CodeSteps, ArrivalSteps
     DEF Visitor, Customer, Administrator

-----------------------------------------------------------------------------
(* Types *)

\* A handler that is over carries nothing.
LEMMA IdleOK == TaskOK(Idle) /\ StatusCarried(Idle) /\ Brings(Idle) = 0 /\ Idle.uses = 0
<1>1. PatchOK(<<>>) /\ DOMAIN <<>> = {}
  BY DEF PatchOK
<1>2. "idle" \in Ops /\ "idle" \notin Decisions
  BY DEF Ops, Decisions, LetsIn, ShutsOut
<1> QED BY <1>1, <1>2, Zero DEF Idle, TaskOK, StatusCarried, Lawful, Brings

\* Init and every step keep the variables well typed.
LEMMA TypeInit == Init => TypeOK
<1> SUFFICES ASSUME Init PROVE TypeOK
  OBVIOUS
<1>1. "PENDING" \in Statuses
  BY DEF Statuses
<1>2. PatchOK(NoAccount) /\ DOMAIN NoAccount = Fields
  BY <1>1, Blank, Zero DEF NoAccount
<1> QED BY <1>2, IdleOK, Zero DEF Init, TypeOK

LEMMA TypeStep ==
  ASSUME TypeOK, [Next]_vars
  PROVE  TypeOK'
<1>1. ASSUME NEW r \in Requests, NEW t, Begins(r, t) PROVE TypeOK'
  <2>1. \A q \in Requests : TaskOK(tasks'[q])
    BY <1>1 DEF Begins, TypeOK
  <2> QED BY <1>1, <2>1 DEF Begins, decided, TypeOK
<1>2. ASSUME NEW r \in Requests, Insert(r) PROVE TypeOK'
  <2> DEFINE t == tasks[r]
  <2>1. /\ TaskOK(t) /\ t.op = "create" /\ t.on \in Users
        /\ PatchOK(t.patch) /\ DOMAIN t.patch = Fields
    BY <1>2 DEF TypeOK, TaskOK, Insert, Ops
  <2>2. \A q \in Requests : TaskOK(tasks'[q])
    BY <1>2, IdleOK DEF Insert, TypeOK
  <2>3. /\ DOMAIN users' = Users /\ sessions' \subseteq Users
        /\ \A u \in Users : DOMAIN users'[u] = Fields /\ PatchOK(users'[u])
    BY <1>2, <2>1 DEF Insert, TypeOK
  <2> QED BY <1>2, <2>2, <2>3 DEF Insert, decided, TypeOK
<1>3. ASSUME NEW r \in Requests, Save(r) PROVE TypeOK'
  <2> DEFINE t == tasks[r]
  <2>1. TaskOK(t) /\ t.op # "idle"
    BY <1>3 DEF TypeOK, Save
  <2>2. t.on \in Users /\ PatchOK(t.patch) /\ t.uses \in Codes
    BY <2>1 DEF TaskOK
  <2>3. \A q \in Requests : TaskOK(tasks'[q])
    BY <1>3, IdleOK DEF Save, TypeOK
  <2>4. users' = [users EXCEPT ![t.on] = Patched(users[t.on], t.patch)]
    BY <1>3 DEF Save
  <2>5. PatchOK(Patched(users[t.on], t.patch)) /\ DOMAIN Patched(users[t.on], t.patch) = Fields
    BY <2>2, PatchedOK DEF TypeOK
  <2>6. DOMAIN users' = Users /\ \A u \in Users : DOMAIN users'[u] = Fields /\ PatchOK(users'[u])
    BY <2>4, <2>5 DEF TypeOK
  <2>7. spent' \subseteq 1 .. MaxCodes
    <3>1. spent' = spent \/ (t.uses # 0 /\ spent' = spent \cup {t.uses})
      BY <1>3 DEF Save
    <3>2. t.uses # 0 => t.uses \in 1 .. MaxCodes
      BY <2>2, BoundsAreNatural DEF Codes
    <3> HIDE DEF t
    <3> QED BY <3>1, <3>2 DEF TypeOK
  <2>8. sessions' \subseteq Users /\ pending' \subseteq Users
    BY <1>3, <2>2 DEF Save, TypeOK
  <2>9. banned' \subseteq Users /\ unwritten' \subseteq Users
    BY <1>3, <2>2 DEF Save, Shut, LetIn, decided, TypeOK
  <2> QED BY <1>3, <2>3, <2>6, <2>7, <2>8, <2>9 DEF Save, TypeOK
<1>4. ASSUME NEW r \in Requests, Abandon(r) PROVE TypeOK'
  <2>1. \A q \in Requests : TaskOK(tasks'[q])
    BY <1>4, IdleOK DEF Abandon, TypeOK
  <2> QED BY <1>4, <2>1 DEF Abandon, decided, TypeOK
<1>5. CASE UNCHANGED vars
  BY <1>5 DEF vars, TypeOK
<1> QED BY <1>1, <1>2, <1>3, <1>4, <1>5, LoadingSteps DEF Next

\* Whatever requests and administrators overlap, stored documents keep all
\* their fields and every handler writes values of the right types.
THEOREM TypeCorrect == Spec => []TypeOK
<1>1. Init => TypeOK
  BY TypeInit
<1>2. TypeOK /\ [Next]_vars => TypeOK'
  BY TypeStep
<1> QED BY <1>1, <1>2, PTL DEF Spec

-----------------------------------------------------------------------------
(* Accounts that were shut out *)

\* The last decision stands where it was written, and nothing but a decision on
\* an existing account or the creation of one is about to write a status.
BanInv ==
  /\ \A u \in banned : users[u].exists /\ (u \in unwritten \/ users[u].status # "ACTIVE")
  /\ \A r \in Requests : StatusCarried(tasks[r])

LEMMA BanStep ==
  ASSUME TypeOK, BanInv, [Next]_vars
  PROVE  BanInv'
<1>1. ASSUME NEW r \in Requests, NEW t, Begins(r, t) PROVE BanInv'
  <2>1. \A q \in Requests : StatusCarried(tasks[q])'
    BY <1>1 DEF Begins, StatusCarried, Lawful, BanInv, TypeOK
  <2> QED BY <1>1, <2>1 DEF Begins, decided, BanInv
<1>2. ASSUME NEW r \in Requests, Insert(r) PROVE BanInv'
  <2>1. tasks[r].op = "create" /\ tasks[r].on \in Users /\ UNCHANGED decided
    BY <1>2 DEF Insert, TypeOK, TaskOK
  <2>2. tasks' = [tasks EXCEPT ![r] = Idle]
    BY <1>2 DEF Insert
  <2>3. \A u \in Users : users[u].exists => users'[u] = users[u]
    BY <1>2, <2>1 DEF Insert, TypeOK
  <2>4. ASSUME NEW q \in Requests PROVE StatusCarried(tasks[q])'
    <3>1. CASE q = r
      BY <2>2, <3>1, IdleOK DEF StatusCarried, Lawful, Idle, Decisions, LetsIn, ShutsOut, TypeOK
    <3>2. CASE q # r
      <4>1. tasks'[q] = tasks[q] /\ StatusCarried(tasks[q])
        BY <2>2, <3>2 DEF TypeOK, BanInv
      <4>2. tasks[q].op \in Decisions => tasks[q].on \in Users
        BY DEF TypeOK, TaskOK, Decisions, LetsIn, ShutsOut
      <4> QED BY <2>3, <4>1, <4>2 DEF StatusCarried
    <3> QED BY <3>1, <3>2
  <2> QED BY <2>1, <2>3, <2>4 DEF BanInv, decided, TypeOK
<1>3. ASSUME NEW r \in Requests, Save(r) PROVE BanInv'
  <2> DEFINE t == tasks[r]
  <2>1. StatusCarried(t) /\ t.op \notin {"idle", "create"} /\ t.on \in Users
    BY <1>3 DEF Save, BanInv, TypeOK, TaskOK
  <2>2. "exists" \notin DOMAIN t.patch /\ Lawful(t.op, t.patch)
    BY <2>1 DEF StatusCarried
  <2>3. tasks' = [tasks EXCEPT ![r] = Idle]
    BY <1>3 DEF Save
  <2>4. users' = [users EXCEPT ![t.on] = Patched(users[t.on], t.patch)]
    BY <1>3 DEF Save
  <2>5. "exists" \in Fields /\ "status" \in Fields
    BY FieldNames DEF Names
  <2>6. \A u \in Users : users'[u].exists = users[u].exists
    BY <2>1, <2>2, <2>4, <2>5 DEF Patched, TypeOK
  <2>7. \A u \in Users \ {t.on} : users'[u] = users[u]
    BY <2>4 DEF TypeOK
  <2>8. users'[t.on].status = IF "status" \in DOMAIN t.patch THEN t.patch["status"]
                                                             ELSE users[t.on].status
    BY <2>1, <2>4, <2>5 DEF Patched, TypeOK
  <2>9. ASSUME NEW q \in Requests PROVE StatusCarried(tasks[q])'
    <3>1. CASE q = r
      BY <2>3, <3>1, IdleOK DEF StatusCarried, Lawful, Idle, Decisions, LetsIn, ShutsOut, TypeOK
    <3>2. CASE q # r
      <4>1. tasks'[q] = tasks[q] /\ StatusCarried(tasks[q])
        BY <2>3, <3>2 DEF TypeOK, BanInv
      <4>2. tasks[q].op \in Decisions => tasks[q].on \in Users
        BY DEF TypeOK, TaskOK, Decisions, LetsIn, ShutsOut
      <4> QED BY <2>6, <4>1, <4>2 DEF StatusCarried
    <3> QED BY <3>1, <3>2
  <2>10. banned' \subseteq Users
    BY <1>3, <2>1 DEF Save, Shut, LetIn, decided, TypeOK
  <2>11. ASSUME NEW u \in banned'
         PROVE  users'[u].exists /\ (u \in unwritten' \/ users'[u].status # "ACTIVE")
    <3>1. CASE t.op \in ShutsOut
      <4>1. Shut(t, t.on) /\ users[t.on].exists
        BY <1>3, <2>1, <3>1 DEF Save, StatusCarried, Decisions
      <4>2. CASE u = t.on
        <5>1. "status" \in DOMAIN t.patch => t.patch["status"] # "ACTIVE"
          BY <2>2, <3>1 DEF Lawful, LetsIn, ShutsOut
        <5> QED BY <2>1, <2>6, <2>8, <4>1, <4>2, <5>1 DEF Shut
      <4>3. CASE u # t.on
        <5>1. u \in banned /\ u \in Users /\ (u \in unwritten => u \in unwritten')
          BY <2>10, <2>11, <4>1, <4>3 DEF Shut
        <5> QED BY <2>7, <4>3, <5>1 DEF BanInv
      <4> QED BY <4>2, <4>3
    <3>2. CASE t.op \in LetsIn
      <4>1. u \in banned \ {t.on} /\ u \in Users /\ unwritten' = unwritten \ {t.on}
        BY <1>3, <2>10, <2>11, <3>2 DEF Save, LetIn, LetsIn, ShutsOut
      <4> QED BY <2>7, <4>1 DEF BanInv
    <3>3. CASE t.op \notin ShutsOut \cup LetsIn
      <4>1. u \in banned /\ u \in Users /\ unwritten' = unwritten
        BY <1>3, <2>10, <2>11, <3>3 DEF Save, decided
      <4>2. "status" \notin DOMAIN t.patch
        BY <2>2, <3>3 DEF Lawful
      <4>3. users'[u].status = users[u].status
        BY <2>7, <2>8, <4>1, <4>2
      <4> QED BY <2>6, <4>1, <4>3 DEF BanInv
    <3> QED BY <3>1, <3>2, <3>3
  <2> QED BY <2>9, <2>11 DEF BanInv
<1>4. ASSUME NEW r \in Requests, Abandon(r) PROVE BanInv'
  <2>1. \A q \in Requests : StatusCarried(tasks[q])'
    BY <1>4, IdleOK DEF Abandon, StatusCarried, Lawful, Idle, BanInv, TypeOK
  <2> QED BY <1>4, <2>1 DEF Abandon, decided, BanInv
<1>5. CASE UNCHANGED vars
  BY <1>5 DEF vars, BanInv, StatusCarried, Lawful
<1> QED BY <1>1, <1>2, <1>3, <1>4, <1>5, LoadingSteps DEF Next

\* No request that was under way lets an account in again after an
\* administrator rejected, suspended or deleted it, unless the save of that
\* decision had no status to write and came after another's letting in.
THEOREM ShutOutStaysOut == Spec => []BannedStaysOut
<1>1. Init => BanInv
  <2> SUFFICES ASSUME Init PROVE BanInv
    OBVIOUS
  <2>1. \A r \in Requests : StatusCarried(tasks[r])
    BY IdleOK DEF Init
  <2>2. banned = {}
    BY DEF Init
  <2> QED BY <2>1, <2>2 DEF BanInv
<1>2. TypeOK /\ BanInv /\ [Next]_vars => BanInv'
  BY BanStep
<1>3. BanInv => BannedStaysOut
  BY DEF BanInv, BannedStaysOut, MayLogIn, TokenAdmits, KeyAdmits
<1> QED BY <1>1, <1>2, <1>3, TypeCorrect, PTL DEF Spec

-----------------------------------------------------------------------------
(* One-time codes that were used *)

\* A stored code was generated, was never used, and is stored once.
CodesStored ==
  \A u \in Users :
    /\ users[u].code <= codes /\ users[u].code \notin spent
    /\ users[u].code # 0 => \A v \in Users \ {u} : users[v].code # users[u].code

CodesSpent == \A c \in spent : 0 < c /\ c <= codes

\* A code about to be stored is known to nobody but its handler.
CodesCarried ==
  \A r \in Requests : Brings(tasks[r]) # 0 =>
    /\ Brings(tasks[r]) <= codes /\ Brings(tasks[r]) \notin spent
    /\ \A u \in Users : users[u].code # Brings(tasks[r])
    /\ \A q \in Requests : tasks[q].uses # Brings(tasks[r])
    /\ \A q \in Requests \ {r} : Brings(tasks[q]) # Brings(tasks[r])

\* A handler that uses a code will unset it on the only account that has it.
CodesUsed ==
  \A r \in Requests : tasks[r].uses # 0 =>
    /\ tasks[r].uses <= codes
    /\ tasks[r].op # "create" /\ "code" \in DOMAIN tasks[r].patch /\ Brings(tasks[r]) = 0
    /\ \A u \in Users : users[u].code = tasks[r].uses => u = tasks[r].on

CodeInv == CodesStored /\ CodesSpent /\ CodesCarried /\ CodesUsed

\* What the steps below need of the types.
LEMMA CodeTypes ==
  ASSUME TypeOK
  PROVE  /\ codes \in Nat /\ spent \subseteq Nat
         /\ \A u \in Users : users[u].code \in Nat
         /\ \A r \in Requests : tasks[r].uses \in Nat /\ Brings(tasks[r]) \in Nat
<1>1. Codes \subseteq Nat
  BY BoundsAreNatural DEF Codes
<1>2. \A r \in Requests : tasks[r].uses \in Codes /\ Brings(tasks[r]) \in Codes
  BY Zero, CodeOfPatch DEF TypeOK, TaskOK, Brings
<1>3. codes \in Nat /\ spent \subseteq Nat
  BY <1>1, BoundsAreNatural DEF TypeOK
<1> QED BY <1>1, <1>2, <1>3, CodeTyped

\* A handler begins or goes on.
LEMMA CodeBegins ==
  ASSUME TypeOK, CodeInv, NEW r \in Requests, NEW t, Begins(r, t)
  PROVE  CodeInv'
<1>1. /\ users' = users /\ spent' = spent /\ tasks'[r] = t
      /\ \A q \in Requests \ {r} : tasks'[q] = tasks[q]
  BY DEF Begins, TypeOK
<1>2. codes' \in Nat /\ codes <= codes'
  BY CodeTypes DEF Begins, CodeCarried
<1>3. \A q \in Requests \ {r} : Brings(tasks'[q]) = Brings(tasks[q])
  BY <1>1
<1>4. CodesStored' /\ CodesSpent'
  BY <1>1, <1>2, CodeTypes DEF CodeInv, CodesStored, CodesSpent
<1>5. t.uses # 0 => /\ t.op # "create" /\ "code" \in DOMAIN t.patch /\ Brings(t) = 0
                    /\ users[t.on].code = t.uses /\ t.on \in Users
  BY DEF Begins, CodeUsed, TaskOK, Codes
<1>6. Brings(t) # 0 => Brings(t) = codes + 1 /\ codes' = codes + 1
  BY DEF Begins, CodeCarried
<1>7. \A u \in Users : users[u].code <= codes /\ users[u].code \in Nat
  BY CodeTypes DEF CodeInv, CodesStored
<1>8. \A c \in spent : c <= codes
  BY DEF CodeInv, CodesSpent
<1>9. /\ codes \in Nat
      /\ \A q \in Requests : /\ tasks[q].uses <= codes /\ Brings(tasks[q]) <= codes
                             /\ Brings(tasks[q]) \in Nat /\ tasks[q].uses \in Nat
  BY CodeTypes DEF CodeInv, CodesUsed, CodesCarried
<1>10. CodesCarried'
  <2> SUFFICES ASSUME NEW q \in Requests, Brings(tasks'[q]) # 0
               PROVE  /\ Brings(tasks'[q]) <= codes' /\ Brings(tasks'[q]) \notin spent
                      /\ \A u \in Users : users[u].code # Brings(tasks'[q])
                      /\ \A p \in Requests : tasks'[p].uses # Brings(tasks'[q])
                      /\ \A p \in Requests \ {q} : Brings(tasks'[p]) # Brings(tasks'[q])
    BY <1>1 DEF CodesCarried, Brings
  <2>1. CASE q = r
    <3>1. Brings(tasks'[q]) = codes + 1 /\ codes' = codes + 1
      BY <1>1, <1>6, <2>1
    <3>2. t.uses = 0
      BY <1>1, <1>5, <2>1
    <3>3. \A p \in Requests : tasks'[p].uses # codes + 1
      BY <1>1, <1>9, <3>2
    <3>4. \A p \in Requests \ {q} : Brings(tasks'[p]) # codes + 1
      BY <1>3, <1>9, <2>1
    <3> QED BY <1>7, <1>8, <1>9, <3>1, <3>3, <3>4
  <2>2. CASE q # r
    <3> DEFINE c == Brings(tasks[q])
    <3>1. Brings(tasks'[q]) = c /\ c # 0
      BY <1>3, <2>2
    <3>2. /\ c <= codes /\ c \notin spent
          /\ \A u \in Users : users[u].code # c
          /\ \A p \in Requests : tasks[p].uses # c
          /\ \A p \in Requests \ {q} : Brings(tasks[p]) # c
      BY <3>1 DEF CodeInv, CodesCarried
    <3>3. c \in Nat
      BY <1>9
    <3> HIDE DEF c
    <3>4. \A p \in Requests : tasks'[p].uses # c
      BY <1>1, <1>5, <3>1, <3>2
    <3>5. Brings(t) # c
      BY <1>6, <1>9, <3>1, <3>2, <3>3
    <3>6. \A p \in Requests \ {q} : Brings(tasks'[p]) # c
      BY <1>1, <1>3, <3>2, <3>5
    <3> QED BY <1>2, <1>9, <3>1, <3>2, <3>3, <3>4, <3>6
  <2> QED BY <2>1, <2>2
<1>11. CodesUsed'
  <2> SUFFICES ASSUME NEW q \in Requests, tasks'[q].uses # 0
               PROVE  /\ tasks'[q].uses <= codes'
                      /\ tasks'[q].op # "create" /\ "code" \in DOMAIN tasks'[q].patch
                      /\ Brings(tasks'[q]) = 0
                      /\ \A u \in Users : users[u].code = tasks'[q].uses => u = tasks'[q].on
    BY <1>1 DEF CodesUsed, Brings
  <2>1. CASE q = r
    <3>1. /\ t.op # "create" /\ "code" \in DOMAIN t.patch /\ Brings(t) = 0
          /\ users[t.on].code = t.uses /\ t.on \in Users /\ t.uses # 0
      BY <1>1, <1>5, <2>1
    <3>2. t.uses <= codes'
      BY <1>2, <1>7, <1>9, <3>1
    <3>3. \A u \in Users : users[u].code = t.uses => u = t.on
      BY <3>1 DEF CodeInv, CodesStored
    <3> QED BY <1>1, <2>1, <3>1, <3>2, <3>3
  <2>2. CASE q # r
    <3>1. tasks'[q] = tasks[q]
      BY <1>1, <2>2
    <3>2. tasks[q].uses <= codes'
      BY <1>2, <1>9
    <3> QED BY <3>1, <3>2 DEF CodeInv, CodesUsed
  <2> QED BY <2>1, <2>2
<1> QED BY <1>4, <1>10, <1>11 DEF CodeInv

\* A handler ends without a trace.
LEMMA CodeDrops ==
  ASSUME TypeOK, CodeInv, NEW r \in Requests, tasks' = [tasks EXCEPT ![r] = Idle],
         users' = users, codes' = codes, spent' = spent
  PROVE  CodeInv'
<1>1. /\ tasks'[r].uses = 0 /\ Brings(tasks'[r]) = 0
      /\ \A q \in Requests \ {r} : tasks'[q] = tasks[q]
  BY IdleOK DEF TypeOK
<1>2. \A q \in Requests \ {r} : Brings(tasks'[q]) = Brings(tasks[q])
  BY <1>1
<1>3. CodesStored' /\ CodesSpent'
  BY DEF CodeInv, CodesStored, CodesSpent
<1>4. ASSUME NEW q \in Requests, Brings(tasks'[q]) # 0
      PROVE  /\ Brings(tasks'[q]) <= codes /\ Brings(tasks'[q]) \notin spent
             /\ \A u \in Users : users[u].code # Brings(tasks'[q])
             /\ \A p \in Requests : tasks'[p].uses # Brings(tasks'[q])
             /\ \A p \in Requests \ {q} : Brings(tasks'[p]) # Brings(tasks'[q])
  <2>1. q # r /\ Brings(tasks'[q]) = Brings(tasks[q])
    BY <1>1, <1>2, <1>4
  <2> QED BY <1>1, <1>2, <1>4, <2>1 DEF CodeInv, CodesCarried
<1>5. CodesCarried'
  BY <1>4 DEF CodesCarried, Brings
<1>6. CodesUsed'
  BY <1>1, <1>2 DEF CodeInv, CodesUsed, Brings
<1> QED BY <1>3, <1>5, <1>6 DEF CodeInv

\* A handler writes: the account that it is about gets the code it brings, if
\* it brings or unsets one, and the code that it used is spent.
LEMMA CodeStores ==
  ASSUME TypeOK, CodeInv, NEW r \in Requests, NEW on \in Users, on = tasks[r].on,
         tasks' = [tasks EXCEPT ![r] = Idle], codes' = codes,
         \A u \in Users \ {on} : users'[u].code = users[u].code,
         users'[on].code = IF "code" \in DOMAIN tasks[r].patch THEN Brings(tasks[r])
                                                               ELSE users[on].code,
         spent' = IF tasks[r].uses = 0 THEN spent ELSE spent \cup {tasks[r].uses}
  PROVE  CodeInv'
<1> DEFINE b == Brings(tasks[r])
           c == tasks[r].uses
<1>1. /\ tasks'[r].uses = 0 /\ Brings(tasks'[r]) = 0
      /\ \A q \in Requests \ {r} : tasks'[q] = tasks[q]
  BY IdleOK DEF TypeOK
<1>2. \A q \in Requests \ {r} : Brings(tasks'[q]) = Brings(tasks[q])
  BY <1>1
<1>3. /\ codes \in Nat /\ b \in Nat /\ c \in Nat
      /\ \A u \in Users : users[u].code \in Nat
  BY CodeTypes
<1>4. b # 0 => /\ b <= codes /\ b \notin spent /\ c = 0
               /\ \A u \in Users : users[u].code # b
               /\ \A q \in Requests : tasks[q].uses # b
               /\ \A q \in Requests \ {r} : Brings(tasks[q]) # b
  BY DEF CodeInv, CodesCarried, CodesUsed
<1>5. c # 0 => /\ c <= codes /\ "code" \in DOMAIN tasks[r].patch /\ b = 0
               /\ \A u \in Users : users[u].code = c => u = on
               /\ \A q \in Requests : Brings(tasks[q]) # c \/ Brings(tasks[q]) = 0
  BY DEF CodeInv, CodesCarried, CodesUsed
<1>6. spent' = IF c = 0 THEN spent ELSE spent \cup {c}
  OBVIOUS
<1>7. users'[on].code = b \/ (users'[on].code = users[on].code /\ c = 0)
  BY <1>5
<1> HIDE DEF b, c
<1>8. CodesSpent'
  BY <1>3, <1>5, <1>6 DEF CodeInv, CodesSpent
<1>9. 0 \notin spent
  BY DEF CodeInv, CodesSpent
<1>10. ASSUME NEW u \in Users
       PROVE  /\ users'[u].code <= codes /\ users'[u].code \notin spent'
              /\ users'[u].code # 0 => \A v \in Users \ {u} : users'[v].code # users'[u].code
  <2>1. users[u].code <= codes /\ users[u].code \notin spent
    BY DEF CodeInv, CodesStored
  <2>2. users[u].code # 0 => \A v \in Users \ {u} : users[v].code # users[u].code
    BY DEF CodeInv, CodesStored
  <2>3. \A v \in Users : users'[v].code = users[v].code \/ (v = on /\ users'[v].code = b)
    BY <1>7
  <2>4. users'[u].code <= codes
    BY <1>3, <1>4, <2>1, <2>3
  <2>5. users'[u].code \notin spent'
    BY <1>3, <1>4, <1>5, <1>6, <1>7, <1>9, <2>1, <2>3
  <2>6. users'[u].code # 0 => \A v \in Users \ {u} : users'[v].code # users'[u].code
    BY <1>4, <2>2, <2>3
  <2> QED BY <2>4, <2>5, <2>6
<1>11. CodesStored'
  BY <1>10 DEF CodesStored
<1>12. ASSUME NEW q \in Requests, Brings(tasks'[q]) # 0
       PROVE  /\ Brings(tasks'[q]) <= codes /\ Brings(tasks'[q]) \notin spent'
              /\ \A u \in Users : users'[u].code # Brings(tasks'[q])
              /\ \A p \in Requests : tasks'[p].uses # Brings(tasks'[q])
              /\ \A p \in Requests \ {q} : Brings(tasks'[p]) # Brings(tasks'[q])
  <2> DEFINE d == Brings(tasks[q])
  <2>1. q # r /\ Brings(tasks'[q]) = d /\ d # 0
    BY <1>1, <1>2, <1>12
  <2>2. /\ d <= codes /\ d \notin spent
        /\ \A u \in Users : users[u].code # d
        /\ \A p \in Requests : tasks[p].uses # d
        /\ \A p \in Requests \ {q} : Brings(tasks[p]) # d
    BY <2>1 DEF CodeInv, CodesCarried
  <2>3. d # b /\ d # c
    BY <2>1, <2>2 DEF b, c
  <2> HIDE DEF d
  <2>4. d \notin spent'
    BY <1>6, <2>2, <2>3
  <2>5. \A u \in Users : users'[u].code # d
    BY <1>7, <2>2, <2>3
  <2>6. \A p \in Requests : tasks'[p].uses # d
    BY <1>1, <2>1, <2>2
  <2>7. \A p \in Requests \ {q} : Brings(tasks'[p]) # d
    BY <1>1, <1>2, <2>1, <2>2
  <2> QED BY <2>1, <2>2, <2>4, <2>5, <2>6, <2>7
<1>13. CodesCarried'
  BY <1>12 DEF CodesCarried, Brings
<1>14. ASSUME NEW q \in Requests, tasks'[q].uses # 0
       PROVE  /\ tasks'[q].uses <= codes
              /\ tasks'[q].op # "create" /\ "code" \in DOMAIN tasks'[q].patch
              /\ Brings(tasks'[q]) = 0
              /\ \A u \in Users : users'[u].code = tasks'[q].uses => u = tasks'[q].on
  <2>1. q # r /\ tasks'[q] = tasks[q] /\ tasks[q].uses # 0
    BY <1>1, <1>14
  <2>2. /\ tasks[q].uses <= codes
        /\ tasks[q].op # "create" /\ "code" \in DOMAIN tasks[q].patch
        /\ Brings(tasks[q]) = 0
        /\ \A u \in Users : users[u].code = tasks[q].uses => u = tasks[q].on
    BY <2>1 DEF CodeInv, CodesUsed
  <2>3. \A u \in Users : users'[u].code = users[u].code \/ users'[u].code = b
    BY <1>7
  <2>4. b # tasks[q].uses
    BY <1>4, <2>1
  <2> QED BY <1>2, <2>1, <2>2, <2>3, <2>4
<1>15. CodesUsed'
  BY <1>14 DEF CodesUsed, Brings
<1> QED BY <1>8, <1>11, <1>13, <1>15 DEF CodeInv

LEMMA CodeStep ==
  ASSUME TypeOK, CodeInv, [Next]_vars
  PROVE  CodeInv'
<1>1. "code" \in Fields
  BY FieldNames DEF Names
<1>2. ASSUME NEW r \in Requests, Insert(r) PROVE CodeInv'
  <2>1. /\ tasks[r].op = "create" /\ tasks[r].on \in Users /\ DOMAIN tasks[r].patch = Fields
        /\ tasks' = [tasks EXCEPT ![r] = Idle] /\ codes' = codes /\ spent' = spent
    BY <1>2 DEF Insert, TypeOK, TaskOK, Ops
  <2>2. tasks[r].uses = 0
    BY <2>1 DEF CodeInv, CodesUsed
  <2>3. CASE users' = users
    BY <2>1, <2>3, CodeDrops
  <2>4. CASE users' = [users EXCEPT ![tasks[r].on] = tasks[r].patch]
    <3>1. \A u \in Users \ {tasks[r].on} : users'[u].code = users[u].code
      BY <2>4 DEF TypeOK
    <3>2. users'[tasks[r].on].code = Brings(tasks[r]) /\ "code" \in DOMAIN tasks[r].patch
      BY <1>1, <2>1, <2>4 DEF TypeOK, Brings
    <3> QED BY <2>1, <2>2, <3>1, <3>2, CodeStores
  <2> QED BY <1>2, <2>3, <2>4 DEF Insert
<1>3. ASSUME NEW r \in Requests, Save(r) PROVE CodeInv'
  <2>1. tasks[r].op # "idle" /\ TaskOK(tasks[r])
    BY <1>3 DEF Save, TypeOK
  <2>2. tasks[r].on \in Users
    BY <2>1 DEF TaskOK
  <2>3. /\ tasks' = [tasks EXCEPT ![r] = Idle] /\ codes' = codes
        /\ users' = [users EXCEPT ![tasks[r].on] = Patched(users[tasks[r].on], tasks[r].patch)]
        /\ spent' = IF tasks[r].uses = 0 THEN spent ELSE spent \cup {tasks[r].uses}
    BY <1>3 DEF Save
  <2>4. \A u \in Users \ {tasks[r].on} : users'[u].code = users[u].code
    BY <2>3 DEF TypeOK
  <2>5. users'[tasks[r].on] = Patched(users[tasks[r].on], tasks[r].patch)
    BY <2>2, <2>3 DEF TypeOK
  <2>6. users'[tasks[r].on].code = IF "code" \in DOMAIN tasks[r].patch
                                   THEN Brings(tasks[r]) ELSE users[tasks[r].on].code
    BY <1>1, <2>5 DEF Patched, Brings
  <2> QED BY <2>2, <2>3, <2>4, <2>6, CodeStores
<1>4. ASSUME NEW r \in Requests, Abandon(r) PROVE CodeInv'
  BY <1>4, CodeDrops DEF Abandon
<1>5. CASE UNCHANGED vars
  BY <1>5 DEF vars, CodeInv, CodesStored, CodesSpent, CodesCarried, CodesUsed, Brings
<1> QED BY <1>2, <1>3, <1>4, <1>5, LoadingSteps, CodeBegins DEF Next

\* However logins, setups and verifications overlap, a one-time code whose use
\* was saved is never stored again.
THEOREM SpentCodeStaysGone == Spec => []SpentCodeIsGone
<1>1. Init => CodeInv
  <2> SUFFICES ASSUME Init PROVE CodeInv
    OBVIOUS
  <2>1. "PENDING" \in Statuses
    BY DEF Statuses
  <2>2. NoAccount.code = 0
    BY DEF NoAccount
  <2>3. \A u \in Users : users[u].code = 0
    BY <2>2 DEF Init
  <2>4. \A r \in Requests : Brings(tasks[r]) = 0 /\ tasks[r].uses = 0
    BY IdleOK DEF Init
  <2>5. codes = 0 /\ spent = {}
    BY DEF Init
  <2> QED BY <2>3, <2>4, <2>5
          DEF CodeInv, CodesStored, CodesSpent, CodesCarried, CodesUsed
<1>2. TypeOK /\ CodeInv /\ [Next]_vars => CodeInv'
  BY CodeStep
<1>3. CodeInv => SpentCodeIsGone
  BY DEF CodeInv, CodesStored, SpentCodeIsGone
<1> QED BY <1>1, <1>2, <1>3, TypeCorrect, PTL DEF Spec
===============================================================================
