------------------------------ MODULE Accounts ------------------------------
(***************************************************************************)
(* User accounts: registration, verification of the e-mail address, sign-in *)
(* by password, Google and one-time code, the second factor, API access,   *)
(* and the decisions of administrators.                                    *)
(*                                                                         *)
(* A handler loads the account, checks it and saves it later; requests and *)
(* administrators overlap in between. mongoose's save() writes only the    *)
(* paths the handler changed, so what a handler will write is known as     *)
(* soon as it has loaded the document: its patch.                          *)
(***************************************************************************)
EXTENDS Naturals

CONSTANTS
  Users,      \* the accounts, one for each e-mail address
  Requests,   \* handlers that may be under way at the same time
  None,       \* no account
  MaxLinks,   \* bound: verification links ever mailed
  MaxCodes    \* bound: one-time codes ever mailed

ASSUME BoundsAreNatural == MaxLinks \in Nat /\ MaxCodes \in Nat
ASSUME NoneIsNoUser     == None \notin Users

VARIABLES
  users,      \* the user documents
  tasks,      \* the handlers under way
  links,      \* number of verification links generated so far
  codes,      \* number of one-time codes generated so far
  sessions,   \* accounts for which a full token was issued
  pending,    \* accounts for which a "second factor pending" token was issued
  spent,      \* history: one-time codes whose use has been saved
  banned,     \* history: accounts whose last decision was to shut them out
  unwritten   \* history: those of them that were let in, where it wrote no status

vars == <<users, tasks, links, codes, sessions, pending, spent, banned, unwritten>>

decided == <<banned, unwritten>>

Statuses == {"PENDING", "ACTIVE", "REJECTED"}

\* The stored hashes of a mailed link or code, 0 when there is none.
Links == 0 .. MaxLinks
Codes == 0 .. MaxCodes

\* The fields of a user document that decide who gets in, and their values.
Values ==
  [exists |-> BOOLEAN, status |-> Statuses, verified |-> BOOLEAN,
   link |-> Links, code |-> Codes, second |-> BOOLEAN,
   google |-> BOOLEAN, api |-> BOOLEAN, key |-> BOOLEAN, deleted |-> BOOLEAN]

Fields == DOMAIN Values

NoAccount ==
  [exists |-> FALSE, status |-> "PENDING", verified |-> FALSE,
   link |-> 0, code |-> 0, second |-> FALSE, google |-> FALSE, api |-> FALSE,
   key |-> FALSE, deleted |-> FALSE]

Idle == [op |-> "idle", on |-> None, patch |-> <<>>, gives |-> "nothing", uses |-> 0]

-----------------------------------------------------------------------------
(* Saving a document *)

Patched(doc, patch) == [f \in Fields |-> IF f \in DOMAIN patch THEN patch[f] ELSE doc[f]]

\* The mistake of saving the whole loaded document.
ChangedAll(doc, assigned, unselected) == Patched(doc, assigned)

\* What save() writes: the assigned paths whose value differs from the loaded
\* one, and those the query did not select, whose old value it does not know.
Changed(doc, assigned, unselected) ==
  [f \in {g \in DOMAIN assigned : g \in unselected \/ assigned[g] # doc[g]} |-> assigned[f]]

\* A handler has loaded the account and will write "patch".
Task(op, u, patch, gives, uses) ==
  [op |-> op, on |-> u, patch |-> patch, gives |-> gives, uses |-> uses]

\* Generated links and codes are ones nobody holds yet.
FreshLink == links + 1
FreshCode == codes + 1

Loads(r, task) == tasks[r] = Idle /\ tasks' = [tasks EXCEPT ![r] = task]

-----------------------------------------------------------------------------
(* Who gets in *)

\* login: the checks before the password.
MayLogIn(doc) == doc.exists /\ doc.verified /\ doc.status = "ACTIVE"

\* authenticate: the check every request with a full token passes.
TokenAdmits(u) == u \in sessions /\ users[u].exists /\ users[u].status = "ACTIVE"

\* resellerAuth: the check every request with an API key passes.
KeyAdmits(doc) == doc.key /\ doc.api /\ doc.status = "ACTIVE" /\ ~doc.deleted

-----------------------------------------------------------------------------
(* Requests without a token *)

\* A document created without the defaults of the schema.
NewAccountBare(link) == [exists |-> TRUE, status |-> "ACTIVE", link |-> link]

NewAccount(link) ==
  Patched(NoAccount, [exists |-> TRUE, status |-> "ACTIVE", link |-> link])

\* register: nobody has the address; a link is generated; then User.create.
Register(r, u) ==
  /\ ~users[u].exists
  /\ links < MaxLinks
  /\ links' = FreshLink
  /\ Loads(r, Task("create", u, NewAccount(FreshLink), "nothing", 0))
  /\ UNCHANGED <<users, codes, sessions, pending, spent, decided>>

\* A link that opens the account, whatever was decided about it.
VerifyEmailActivates(r, u) ==
  /\ users[u].link # 0
  /\ Loads(r, Task("verifyEmail", u,
                   Changed(users[u], [verified |-> TRUE, link |-> 0, status |-> "ACTIVE"], {}),
                   "nothing", 0))
  /\ UNCHANGED <<users, links, codes, sessions, pending, spent, decided>>

\* verifyEmail: the link is found by its hash and used up.
VerifyEmail(r, u) ==
  /\ users[u].link # 0
  /\ Loads(r, Task("verifyEmail", u,
                   Changed(users[u], [verified |-> TRUE, link |-> 0], {}), "nothing", 0))
  /\ UNCHANGED <<users, links, codes, sessions, pending, spent, decided>>

ResendVerification(r, u) ==
  /\ users[u].exists /\ ~users[u].verified
  /\ links < MaxLinks
  /\ links' = FreshLink
  /\ Loads(r, Task("resend", u, Changed(users[u], [link |-> FreshLink], {}), "nothing", 0))
  /\ UNCHANGED <<users, codes, sessions, pending, spent, decided>>

\* login without the second factor: a token, and nothing to save.
LogIn(r, u) ==
  /\ MayLogIn(users[u]) /\ ~users[u].second
  /\ Loads(r, Task("login", u, <<>>, "session", 0))
  /\ UNCHANGED <<users, links, codes, sessions, pending, spent, decided>>

\* login with it: a code is stored and mailed, and a pending token returned.
LogInSecond(r, u) ==
  /\ MayLogIn(users[u]) /\ users[u].second
  /\ codes < MaxCodes
  /\ codes' = FreshCode
  /\ Loads(r, Task("login", u, Changed(users[u], [code |-> FreshCode], {"code"}),
                   "pending", 0))
  /\ UNCHANGED <<users, links, sessions, pending, spent, decided>>

\* verify2FA with the stored code, or with one that has expired.
VerifySecond(r, u) ==
  /\ u \in pending
  /\ users[u].status = "ACTIVE" /\ users[u].second
  /\ \/ /\ users[u].code # 0
        /\ Loads(r, Task("verify2FA", u, Changed(users[u], [code |-> 0], {}),
                         "session", users[u].code))
     \/ Loads(r, Task("expired", u, Changed(users[u], [code |-> 0], {}), "nothing", 0))
  /\ UNCHANGED <<users, links, codes, sessions, pending, spent, decided>>

\* The Google strategy: known by its Google id, by its address, or new; then
\* loginWithGoogle looks at the document that was loaded.
Google(r, u) ==
  /\ LET doc    == users[u]
         gives  == IF doc.status = "ACTIVE" THEN "session" ELSE "nothing"
         linked == [google |-> TRUE, verified |-> TRUE]
     IN \/ /\ doc.exists /\ doc.google
           /\ Loads(r, Task("google", u, <<>>, gives, 0))
        \/ /\ doc.exists /\ ~doc.google
           /\ Loads(r, Task("google", u, Changed(doc, linked, {}), gives, 0))
        \/ /\ ~doc.exists
           /\ Loads(r, Task("create", u, Patched(NewAccount(0), linked), "session", 0))
  /\ UNCHANGED <<users, links, codes, sessions, pending, spent, decided>>

-----------------------------------------------------------------------------
(* Requests with a token. The gate looks at the account and the handler     *)
(* loads it again: an administrator may decide in between.                  *)

Admit(r, u) ==
  /\ TokenAdmits(u)
  /\ Loads(r, Task("admitted", u, <<>>, "nothing", 0))
  /\ UNCHANGED <<users, links, codes, sessions, pending, spent, decided>>

\* The handler of an admitted request has loaded the account.
Handles(r, op, patch, uses) ==
  /\ tasks[r].op = "admitted"
  /\ tasks' = [tasks EXCEPT ![r] = Task(op, tasks[r].on, patch, "nothing", uses)]

GenerateSecond(r) ==
  LET doc == users[tasks[r].on] IN
  /\ tasks[r].op = "admitted" /\ ~doc.second
  /\ codes < MaxCodes
  /\ codes' = FreshCode
  /\ Handles(r, "generate2FA", Changed(doc, [code |-> FreshCode], {"code"}), 0)
  /\ UNCHANGED <<users, links, sessions, pending, spent, decided>>

\* Activation that leaves the code where it is.
ConfirmedOnly == [second |-> TRUE]

Confirmed == [second |-> TRUE, code |-> 0]

\* enable2FA with the stored code, or with one that has expired.
EnableSecond(r) ==
  LET doc == users[tasks[r].on] IN
  /\ tasks[r].op = "admitted" /\ ~doc.second
  /\ \/ doc.code # 0 /\ Handles(r, "enable2FA", Changed(doc, Confirmed, {}), doc.code)
     \/ Handles(r, "expired", Changed(doc, [code |-> 0], {}), 0)
  /\ UNCHANGED <<users, links, codes, sessions, pending, spent, decided>>

\* disable2FA with the right password; the code was not selected.
DisableSecond(r) ==
  LET doc == users[tasks[r].on] IN
  /\ tasks[r].op = "admitted" /\ doc.second
  /\ Handles(r, "disable2FA", Changed(doc, [second |-> FALSE, code |-> 0], {"code"}), 0)
  /\ UNCHANGED <<users, links, codes, sessions, pending, spent, decided>>

\* generateApiToken: the key replaces the former one.
GenerateKey(r) ==
  LET doc == users[tasks[r].on] IN
  /\ tasks[r].op = "admitted" /\ doc.api
  /\ Handles(r, "generateKey", [key |-> TRUE], 0)
  /\ UNCHANGED <<users, links, codes, sessions, pending, spent, decided>>

\* Changes of name, address, picture, password or API settings: an ordinary
\* load and save that assigns none of the fields above.
EditProfile(r) ==
  LET doc == users[tasks[r].on] IN
  /\ tasks[r].op = "admitted"
  /\ Handles(r, "edit", Changed(doc, <<>>, {}), 0)
  /\ UNCHANGED <<users, links, codes, sessions, pending, spent, decided>>

-----------------------------------------------------------------------------
(* Administrators *)

Decides(r, op, u, patch) ==
  /\ users[u].exists
  /\ Loads(r, Task(op, u, patch, "nothing", 0))
  /\ UNCHANGED <<users, links, codes, sessions, pending, spent, decided>>

\* approveUser: findByIdAndUpdate writes the listed fields whatever they were.
ApproveUser(r, u) ==
  /\ users[u].status # "ACTIVE"
  /\ Decides(r, "approve", u, [status |-> "ACTIVE", verified |-> TRUE, link |-> 0])

RejectUser(r, u) ==
  /\ users[u].status # "REJECTED"
  /\ Decides(r, "reject", u, Changed(users[u], [status |-> "REJECTED"], {}))

\* admin updateUser: one of the status, which admits or suspends the account,
\* the verified flag and API access.
UpdateUser(r, u) ==
  \/ Decides(r, "admit", u,
             Changed(users[u], [status |-> "ACTIVE", verified |-> TRUE, link |-> 0], {"link"}))
  \/ \E s \in Statuses \ {"ACTIVE"} :
       Decides(r, "suspend", u, Changed(users[u], [status |-> s], {}))
  \/ \E v \in BOOLEAN : Decides(r, "update", u, Changed(users[u], [verified |-> v], {}))
  \/ \E on \in BOOLEAN : Decides(r, "update", u, Changed(users[u], [api |-> on], {}))

\* deleteUser; the accounts modelled are not those of administrators, which it
\* refuses.  Of an account that is rejected already only the date is written.
DeleteUser(r, u) ==
  /\ ~users[u].deleted
  /\ Decides(r, "delete", u,
             Changed(users[u], [deleted |-> TRUE, status |-> "REJECTED"], {}))

RestoreUser(r, u) ==
  /\ users[u].deleted
  /\ Decides(r, "restore", u,
             Changed(users[u], [deleted |-> FALSE, status |-> "ACTIVE"], {}))

\* Password, avatar, credit limit and permissions (so too role and group, and
\* updateUser of user.service.js): nothing here depends on what they assign.
AdminEdit(r, u) == Decides(r, "edit", u, Changed(users[u], <<>>, {}))

\* What a decision is about, whatever its save has to write for it.
LetsIn   == {"approve", "admit", "restore"}
ShutsOut == {"reject", "suspend", "delete"}

Shut(t, u) ==
  /\ banned' = banned \cup {u}
  /\ unwritten' = IF "status" \notin DOMAIN t.patch /\ users[u].status = "ACTIVE"
                  THEN unwritten \cup {u} ELSE unwritten \ {u}

LetIn(u) == banned' = banned \ {u} /\ unwritten' = unwritten \ {u}

-----------------------------------------------------------------------------
(* The end of a handler *)

\* User.create: the unique index on the address refuses the second one.
Insert(r) ==
  LET t == tasks[r] IN
  /\ t.op = "create"
  /\ tasks' = [tasks EXCEPT ![r] = Idle]
  /\ IF users[t.on].exists
     THEN UNCHANGED <<users, sessions>>
     ELSE /\ users' = [users EXCEPT ![t.on] = t.patch]
          /\ sessions' = IF t.gives = "session" THEN sessions \cup {t.on} ELSE sessions
  /\ UNCHANGED <<links, codes, pending, spent, decided>>

\* save() or findByIdAndUpdate, and the answer; the code may fail to be mailed,
\* and then the login is answered by an error.
Save(r) ==
  LET t == tasks[r] IN
  /\ t.op \notin {"idle", "create", "admitted"}
  /\ tasks' = [tasks EXCEPT ![r] = Idle]
  /\ users' = [users EXCEPT ![t.on] = Patched(@, t.patch)]
  /\ sessions' = IF t.gives = "session" THEN sessions \cup {t.on} ELSE sessions
  /\ pending' \in {pending, IF t.gives = "pending" THEN pending \cup {t.on} ELSE pending}
  /\ spent' = IF t.uses = 0 THEN spent ELSE spent \cup {t.uses}
  /\ IF t.op \in ShutsOut THEN Shut(t, t.on)
     ELSE IF t.op \in LetsIn THEN LetIn(t.on) ELSE UNCHANGED decided
  /\ UNCHANGED <<links, codes>>

\* The handler refuses the request, the save fails or the server stops.
Abandon(r) ==
  /\ tasks[r] # Idle
  /\ tasks' = [tasks EXCEPT ![r] = Idle]
  /\ UNCHANGED <<users, links, codes, sessions, pending, spent, decided>>

-----------------------------------------------------------------------------

Init ==
  /\ users    = [u \in Users |-> NoAccount]
  /\ tasks    = [r \in Requests |-> Idle]
  /\ links    = 0
  /\ codes    = 0
  /\ sessions = {}
  /\ pending  = {}
  /\ spent    = {}
  /\ banned   = {} /\ unwritten = {}

Visitor(r) ==
  \E u \in Users : \/ Register(r, u) \/ VerifyEmail(r, u) \/ ResendVerification(r, u)
                   \/ LogIn(r, u) \/ LogInSecond(r, u) \/ VerifySecond(r, u)
                   \/ Google(r, u)

Customer(r) ==
  \/ \E u \in Users : Admit(r, u)
  \/ GenerateSecond(r) \/ EnableSecond(r) \/ DisableSecond(r)
  \/ GenerateKey(r) \/ EditProfile(r)

Administrator(r) ==
  \E u \in Users : \/ ApproveUser(r, u) \/ RejectUser(r, u) \/ UpdateUser(r, u)
                   \/ DeleteUser(r, u) \/ RestoreUser(r, u)
                   \/ AdminEdit(r, u)

Next ==
  \E r \in Requests : \/ Visitor(r) \/ Customer(r) \/ Administrator(r)
                      \/ Insert(r) \/ Save(r) \/ Abandon(r)

Spec == Init /\ [][Next]_vars

-----------------------------------------------------------------------------
(* Properties *)

Ops == {"idle", "create", "admitted", "verifyEmail", "resend", "login", "verify2FA",
        "expired", "google", "generate2FA", "enable2FA", "disable2FA", "generateKey",
        "edit", "update"} \cup LetsIn \cup ShutsOut

PatchOK(patch) ==
  DOMAIN patch \subseteq Fields /\ \A f \in DOMAIN patch : patch[f] \in Values[f]

TaskOK(t) ==
  /\ DOMAIN t = {"op", "on", "patch", "gives", "uses"}
  /\ t.op \in Ops
  /\ t.on \in Users \cup {None}
  /\ PatchOK(t.patch)
  /\ t.op # "idle" => t.on \in Users
  /\ t.op = "create" => DOMAIN t.patch = Fields
  /\ t.gives \in {"nothing", "session", "pending"}
  /\ t.uses \in Codes

\* The variables have their types: every stored document has its fields, and
\* every handler will write values of the right types.
TypeOK ==
  /\ DOMAIN users = Users /\ DOMAIN tasks = Requests
  /\ \A u \in Users : DOMAIN users[u] = Fields /\ PatchOK(users[u])
  /\ \A r \in Requests : TaskOK(tasks[r])
  /\ links \in Links /\ codes \in Codes
  /\ sessions \subseteq Users /\ pending \subseteq Users
  /\ spent \subseteq 1 .. MaxCodes
  /\ banned \subseteq Users /\ unwritten \subseteq Users

\* An account that an administrator decided to reject, suspend or delete, and
\* that none has decided to let in again since, opens to no password, token or
\* API key, whatever requests were under way when the decision was saved: no
\* handler that loaded the account earlier writes the old status back.  The one
\* exception is a decision that loaded an account shut out already, so that its
\* save had no status to write, and that another let in before that save.
BannedStaysOut ==
  \A u \in banned \ unwritten :
    ~MayLogIn(users[u]) /\ ~TokenAdmits(u) /\ ~KeyAdmits(users[u])

\* A one-time code whose use has been saved is never the stored code again, so
\* a request that begins later cannot use it: not after a login, a setup and a
\* verification overlapped, and not after the second factor was switched on by
\* the code of its setup.
SpentCodeIsGone == \A u \in Users : users[u].code \notin spent
=============================================================================
