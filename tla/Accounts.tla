------------------------------ MODULE Accounts -----------------------------
(***************************************************************************)
(* Users, their sessions and their reset tokens (server/models/auth.py),   *)
(* as Postgres transactions at READ COMMITTED, statement by statement.  A  *)
(* request holds the rows it has locked (SELECT ... FOR UPDATE) or deleted *)
(* and a key share of the user its inserted row refers to (external: the   *)
(* foreign key's); what it writes becomes visible when it commits.         *)
(* Requests whose input is invalid raise before they read, and a request   *)
(* about an address nobody has only deletes what has expired: no steps.    *)
(***************************************************************************)
EXTENDS Naturals, FiniteSets

CONSTANTS
    Users,        \* ids of users, ordered
    FirstUsers,   \* those that exist at first
    FirstAdmins,  \* and have the admin role
    Places,       \* bound: [{"reset", "session"} -> places of that table]
    MaxExpired,   \* bound: expired rows at one time
    Clients       \* open requests

ASSUME AccountsAssumption ==
    /\ Users \subseteq Nat /\ Places \in [{"reset", "session"} -> SUBSET Nat]
    /\ FirstUsers \subseteq Users
    /\ FirstAdmins \subseteq FirstUsers /\ FirstAdmins # {}
    /\ IsFiniteSet(Clients)

VARIABLES
    fresh,   \* ids that no user has had
    table,   \* rows [kind: "user" | "reset" | "session", place, user]
    admins,  \* the users with the admin role
    old,     \* the rows that have expired
    req      \* [Clients -> request]

vars == <<fresh, table, admins, old, req>>
db   == <<fresh, table, admins, old>>

-----------------------------------------------------------------------------

Row(kind, place, u) == [kind |-> kind, place |-> place, user |-> u]

UserRow(u) == Row("user", u, u)
Exists(u)  == UserRow(u) \in table

(* roles: what becomes of the admin role ("keep": no roles are sent).      *)
(* password: it sets one.  at: its present statement.                      *)
Request(op, u, roles, password, at) ==
    [op |-> op, user |-> u, roles |-> roles, password |-> password, at |-> at,
     todo   |-> {},   \* the rows its present statement has still to take
     found  |-> {},   \* the administrators it has locked
     holds  |-> {},   \* rows: users FOR UPDATE, others deleted
     shared |-> {},   \* users FOR KEY SHARE
     added  |-> {}]   \* the row it has inserted

Idle == Request("none", 0, "keep", FALSE, "none")

Open(c)   == req[c].op # "none"
At(c, statement) == req[c].at = statement

(* The statement after its present one. *)
After(r) ==
    CASE r.at = "admins" -> "user"
      [] r.at = "user" -> IF r.op = "confirm" THEN "resets"
                          ELSE IF r.op = "delete" \/ r.password THEN "sessions"
                          ELSE "commit"
      [] r.at = "sessions" -> IF r.op = "delete" THEN "resets" ELSE "commit"
      [] r.at = "sweep" -> IF r.op = "ask" THEN "resets" ELSE "insert"
      [] r.at = "resets" -> IF r.op = "ask" THEN "insert"
                            ELSE IF r.op = "confirm" THEN "sessions"
                            ELSE "commit"
      [] r.at = "insert" -> "commit"

(* The table of a login, or of a request for a reset.                      *)
Kind(op) == IF op = "login" THEN "session" ELSE "reset"

(* Mutant: no ORDER BY. *)
AnyRow(S) == S

(* ORDER BY id, and the order in which a table is scanned.                 *)
FirstRow(S) == {x \in S : \A y \in S : x.place <= y.place}

(* Nobody else holds what conflicts with FOR UPDATE; if not, c waits.      *)
CanTake(c, row) ==
    \A d \in Clients \ {c} :
        row \notin req[d].holds /\ (row.kind = "user" => row.user \notin req[d].shared)

CanShare(c, u) == \A d \in Clients \ {c} : UserRow(u) \notin req[d].holds

Init ==
    /\ fresh = Users \ FirstUsers
    /\ table = {UserRow(u) : u \in FirstUsers}
    /\ admins = FirstAdmins
    /\ old = {}
    /\ req = [c \in Clients |-> Idle]

Begin(c, request) ==
    /\ ~Open(c)
    /\ req' = [req EXCEPT ![c] = request]
    /\ UNCHANGED db

BeginUpdate(c) ==
    \E u \in Users, roles \in {"keep", "grant", "revoke"}, password \in BOOLEAN :
        Begin(c, Request("update", u, roles, password, IF roles = "keep" THEN "user" ELSE "admins"))

(* The cascade deletes the user's rows table by table.                     *)
BeginDelete(c) ==
    \E u \in Users : Begin(c, Request("delete", u, "keep", FALSE, "admins"))

(* Bound: there is a place for the row it will insert.                     *)
Room(op) ==
    Cardinality({row \in table : row.kind = Kind(op)}) + Cardinality({d \in Clients : req[d].op = op})
        < Cardinality(Places[Kind(op)])

(* request_password_reset and login read the user and do not lock it.      *)
BeginAsk(c) ==
    \E u \in Users :
        Exists(u) /\ Room("ask") /\ Begin(c, Request("ask", u, "keep", FALSE, "sweep"))

BeginLogin(c) ==
    \E u \in Users :
        Exists(u) /\ Room("login") /\ Begin(c, Request("login", u, "keep", FALSE, "sweep"))

(* reset_password locks the row of the token it is given.                  *)
BeginConfirm(c) ==
    \E row \in table \ old :
        /\ row.kind = "reset"
        /\ CanTake(c, row)
        /\ Begin(c, [Request("confirm", row.user, "keep", TRUE, "user")
                        EXCEPT !.holds = {row}])

-----------------------------------------------------------------------------
(* The statements. *)

Goes(c, request) ==
    /\ req' = [req EXCEPT ![c] = request]
    /\ UNCHANGED db

(* The rows a statement finds when it starts: _lock_admins, the deletion   *)
(* of what has expired, and of the user's tokens or sessions.              *)
Snapshot(c) ==
    CASE At(c, "admins")   -> {UserRow(u) : u \in admins}
      [] At(c, "sweep")    -> {row \in old : row.kind = Kind(req[c].op)}
      [] At(c, "resets")   -> {row \in table : row.kind = "reset" /\ row.user = req[c].user}
      [] At(c, "sessions") -> {row \in table : row.kind = "session" /\ row.user = req[c].user}

Start(c) ==
    /\ req[c].at \in {"admins", "sweep", "resets", "sessions"}
    /\ req[c].todo = {}
    /\ IF Snapshot(c) = {}
       THEN Goes(c, [req[c] EXCEPT !.at = After(req[c])])
       ELSE Goes(c, [req[c] EXCEPT !.todo = Snapshot(c)])

(* Mutant: _lock_admins without FOR UPDATE. *)
TakeUnlocked(c) ==
    \E row \in FirstRow(req[c].todo) :
        Goes(c, [req[c] EXCEPT
                !.todo  = @ \ {row},
                !.holds = IF At(c, "admins") THEN @ ELSE @ \cup ({row} \cap table),
                !.found = IF At(c, "admins") THEN @ \cup ({row.user} \cap admins) ELSE @,
                !.at    = IF req[c].todo = {row} THEN After(req[c]) ELSE @])

(* Each row is looked at again when it is taken: it may be gone, and a     *)
(* user may have lost the role.                                            *)
Take(c) ==
    \E row \in FirstRow(req[c].todo) :
        /\ row \in table => CanTake(c, row)
        /\ Goes(c, [req[c] EXCEPT
                !.todo  = @ \ {row},
                !.holds = @ \cup ({row} \cap table),
                !.found = IF At(c, "admins") THEN @ \cup ({row.user} \cap admins) ELSE @,
                !.at    = IF req[c].todo = {row} THEN After(req[c]) ELSE @])

(* The request takes the role, or the row, of its user.                    *)
Demotes(c) == req[c].op = "delete" \/ req[c].roles = "revoke"

(* _last_admin *)
Refused(c) ==
    /\ Demotes(c)
    /\ req[c].user \in admins
    /\ req[c].found \subseteq {req[c].user}

(* Mutant: SELECT without FOR UPDATE. *)
ReadUser(c) ==
    /\ At(c, "user")
    /\ Exists(req[c].user)
    /\ CanTake(c, UserRow(req[c].user))
    /\ ~Refused(c)
    /\ Goes(c, [req[c] EXCEPT !.at = After(req[c])])

LockUser(c) ==
    /\ At(c, "user")
    /\ Exists(req[c].user)
    /\ CanTake(c, UserRow(req[c].user))
    /\ ~Refused(c)
    /\ Goes(c, [req[c] EXCEPT !.holds = @ \cup {UserRow(req[c].user)}, !.at = After(req[c])])

(* A new row goes to a free place, and its foreign key needs the user.     *)
Insert(c) ==
    LET u == req[c].user
        k == Kind(req[c].op)
    IN  /\ At(c, "insert")
        /\ Exists(u)
        /\ CanShare(c, u)
        /\ \E n \in Places[k] :
            /\ \A v \in Users : Row(k, n, v) \notin table \cup UNION {req[d].added : d \in Clients}
            /\ Goes(c, [req[c] EXCEPT !.shared = {u}, !.added = {Row(k, n, u)}, !.at = After(req[c])])

-----------------------------------------------------------------------------
(* The end of a request. *)

Ends(c) == req' = [req EXCEPT ![c] = Idle]

(* What a transaction of c has deleted. *)
Deleted(c) ==
    {row \in req[c].holds : row.kind # "user"}
        \cup {UserRow(u) : u \in {req[c].user} \cap (IF req[c].op = "delete" THEN Users ELSE {})}

Commit(c) ==
    /\ At(c, "commit")
    /\ table' = (table \ Deleted(c)) \cup req[c].added
    /\ old' = old \ Deleted(c)
    /\ admins' = IF req[c].roles = "grant" THEN admins \cup {req[c].user}
                 ELSE IF Demotes(c) THEN admins \ {req[c].user}
                 ELSE admins
    /\ Ends(c)
    /\ UNCHANGED fresh

(* The user is not found, the last administrator would go, or the foreign  *)
(* key fails: the request raises and its transaction is rolled back.       *)
Raise(c) ==
    /\ \/ (At(c, "user") \/ At(c, "insert")) /\ ~Exists(req[c].user)
       \/ At(c, "user") /\ CanTake(c, UserRow(req[c].user)) /\ Refused(c)
    /\ Ends(c)
    /\ UNCHANGED db

(* Its connection is lost, or Postgres ends it to break a deadlock.        *)
Abort(c) ==
    /\ Open(c)
    /\ Ends(c)
    /\ UNCHANGED db

-----------------------------------------------------------------------------
(* Operations of one statement. *)

CreateUser(u) ==
    /\ u \in fresh
    /\ fresh' = fresh \ {u}
    /\ table' = table \cup {UserRow(u)}
    /\ \E roles \in SUBSET {u} : admins' = admins \cup roles
    /\ UNCHANGED <<old, req>>

Logout ==
    /\ \E row \in table :
        /\ row.kind = "session"
        /\ \A d \in Clients : row \notin req[d].holds
        /\ table' = table \ {row}
        /\ old' = old \ {row}
    /\ UNCHANGED <<fresh, admins, req>>

(* The clock passes expires_at. *)
Expire ==
    /\ Cardinality(old) < MaxExpired
    /\ \E row \in table \ old : row.kind # "user" /\ old' = old \cup {row}
    /\ UNCHANGED <<fresh, table, admins, req>>

Statement(c) ==
    Start(c) \/ Take(c) \/ LockUser(c) \/ Insert(c) \/ Commit(c) \/ Raise(c)

Next ==
    \/ \E c \in Clients :
        \/ BeginUpdate(c) \/ BeginDelete(c) \/ BeginAsk(c) \/ BeginLogin(c) \/ BeginConfirm(c)
        \/ Statement(c) \/ Abort(c)
    \/ \E u \in Users : CreateUser(u)
    \/ Logout \/ Expire

Spec == Init /\ [][Next]_vars

-----------------------------------------------------------------------------
(* Waiting. *)

(* c's present statement needs a row that d holds. *)
WaitsFor(c, d) ==
    /\ c # d
    /\ \/ \E row \in FirstRow(req[c].todo) \cap table :
            row \in req[d].holds \/ (row.kind = "user" /\ row.user \in req[d].shared)
       \/ /\ At(c, "user") /\ Exists(req[c].user)
          /\ UserRow(req[c].user) \in req[d].holds \/ req[c].user \in req[d].shared
       \/ At(c, "insert") /\ UserRow(req[c].user) \in req[d].holds

(* Nobody in S goes on before another in S ends. *)
Circle(S) == S # {} /\ \A c \in S : \E d \in S : WaitsFor(c, d)

-----------------------------------------------------------------------------
(* Properties. *)

(* Types; an administrator is a user, and rows belong to users. *)
TypeOK ==
    /\ fresh \subseteq Users
    /\ \A row \in table :
        IF row.kind = "user" THEN row.place = row.user /\ row.user \in Users \ fresh
        ELSE row.place \in Places[row.kind] /\ Exists(row.user)
    /\ old \subseteq table
    /\ \A u \in admins : Exists(u)

(* "At least one admin must remain" (_last_admin, update_user,             *)
(* delete_user): however many administrators demote or delete one another  *)
(* at the same time, one is left, and no row outlives its user.            *)
AdminRemains == TypeOK /\ admins # {}

(* _lock_admins: "ordered by id so concurrent callers never deadlock".     *)
(* The order leaves these circles: a request looked for administrators     *)
(* before its user got the role, or before one of those it then locked     *)
(* lost it; or somebody has taken a token or a session.                    *)
CirclesExplained ==
    \A S \in SUBSET Clients : Circle(S) =>
        \E c \in S :
            \/ \E row \in req[c].holds : row.kind # "user"
            \/ At(c, "user") /\ req[c].user \in admins \ req[c].found
            \/ req[c].at \in {"admins", "user"} /\ \E row \in req[c].holds : row.user \notin req[c].found

(* reset_password: "The token is consumed and every session of the user is *)
(* signed out"; update_user: "Changing the password revokes sessions"; and *)
(* a deleted user leaves nothing.                                          *)
SignsOut ==
    [][\A c \in Clients :
        Commit(c) =>
            \A row \in table' : row.user = req[c].user =>
                /\ req[c].password => row.kind # "session"
                /\ req[c].op = "confirm" => row.kind # "reset"
                /\ req[c].op # "delete"]_vars
=============================================================================
