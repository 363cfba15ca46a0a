--------------------------- MODULE AccountsProofs ---------------------------
(***************************************************************************)
(* Proofs about Accounts, for any users, clients and places.  What a       *)
(* request has locked nobody else takes (Apart), so what it found out      *)
(* under its locks stays true until it ends (Guarded): the administrators  *)
(* it counted are administrators still, and no row of its user comes back. *)
(* Administrators are locked in the order of their ids, before any other   *)
(* row (Lined): who waits among them waits for one who has come further,   *)
(* and over finitely many requests that comes to an end (NoClimb).         *)
(***************************************************************************)
EXTENDS Accounts, DataInduction, FiniteSetTheorems, TLAPS

Rows == [kind : {"user", "reset", "session"}, place : Nat, user : Users]

Requests ==
    [op : {"none", "update", "delete", "ask", "login", "confirm"},
     user : Users \cup {0}, roles : {"keep", "grant", "revoke"}, password : BOOLEAN,
     at : {"none", "admins", "user", "sessions", "resets", "sweep", "insert", "commit"},
     todo : SUBSET Rows, found : SUBSET Users, holds : SUBSET Rows,
     shared : SUBSET Users, added : SUBSET Rows]

Typed ==
    /\ table \subseteq Rows
    /\ admins \subseteq Users
    /\ req \in [Clients -> Requests]

(* The statements of each operation, and what they leave in a request.     *)
Shape(r) ==
    /\ r.op = "none" => r = Idle
    /\ r.op # "none" => r.user \in Users
    /\ r.op = "update" => r.at \in {"admins", "user", "sessions", "commit"}
    /\ r.op = "delete" => /\ r.at \in {"admins", "user", "sessions", "resets", "commit"}
                          /\ r.roles = "keep" /\ ~r.password
    /\ r.op = "confirm" => /\ r.at \in {"user", "resets", "sessions", "commit"}
                           /\ r.roles = "keep"
    /\ r.op \in {"ask", "login"} => /\ r.at \in {"sweep", "resets", "insert", "commit"}
                                    /\ r.roles = "keep" /\ ~r.password
    /\ r.todo # {} => r.at \in {"admins", "sweep", "resets", "sessions"}
    /\ r.at = "admins" => \A row \in r.todo : row = UserRow(row.user)
    /\ r.added # {} =>
        /\ r.op \in {"ask", "login"} /\ r.at = "commit"
        /\ r.shared = {r.user}
        /\ \E n \in Places[Kind(r.op)] : r.added = {Row(Kind(r.op), n, r.user)}

(* r has locked its user. *)
Past(r) == r.op \in {"update", "confirm", "delete"} /\ r.at \in {"sessions", "resets", "commit"}

RowsOf(kind, u) == {row \in table : row.kind = kind /\ row.user = u}

SessionsGone(r) ==
    \/ r.op = "update" /\ r.password /\ r.at = "commit"
    \/ r.op = "confirm" /\ r.at = "commit"
    \/ r.op = "delete" /\ r.at \in {"resets", "commit"}

ResetsGone(r) ==
    \/ r.op = "confirm" /\ r.at \in {"sessions", "commit"}
    \/ r.op = "delete" /\ r.at = "commit"

(* It has every row that its deletions found, or has still to take it.     *)
Swept(r) ==
    /\ SessionsGone(r) => RowsOf("session", r.user) \subseteq r.holds
    /\ ResetsGone(r) => RowsOf("reset", r.user) \subseteq r.holds
    /\ r.at = "sessions" /\ r.todo # {} => RowsOf("session", r.user) \subseteq r.holds \cup r.todo
    /\ r.at = "resets" /\ r.todo # {} => RowsOf("reset", r.user) \subseteq r.holds \cup r.todo

Guarded(r) ==
    /\ r.holds \subseteq table
    /\ r.found \subseteq admins
    /\ \A u \in r.found : UserRow(u) \in r.holds
    /\ \A u \in r.shared : Exists(u)
    /\ Past(r) => UserRow(r.user) \in r.holds
    /\ Past(r) /\ (r.op = "delete" \/ r.roles = "revoke") /\ r.user \in admins =>
        \E v \in r.found : v # r.user
    /\ Past(r) => Swept(r)

(* What r holds, q neither holds nor shares. *)
Clear(r, q) ==
    /\ r.holds \cap q.holds = {}
    /\ \A u \in q.shared : UserRow(u) \notin r.holds

Apart == \A c, d \in Clients : c # d => Clear(req[c], req[d])

Inv ==
    /\ Typed
    /\ AdminRemains
    /\ \A c \in Clients : Shape(req[c]) /\ Guarded(req[c])
    /\ Apart

-----------------------------------------------------------------------------

(* Inv in the words the steps need. *)
LEMMA Facts ==
    ASSUME Inv, NEW c \in Clients
    PROVE  /\ req[c] \in Requests /\ Shape(req[c]) /\ Guarded(req[c])
           /\ \A d \in Clients \ {c} : Clear(req[c], req[d]) /\ Clear(req[d], req[c])
    BY DEF Inv, Typed, Apart

(* A statement that changes nothing but its own request.                   *)
LEMMA Moves ==
    ASSUME Inv, NEW c \in Clients, NEW r \in Requests,
           Shape(r), Guarded(r),
           \A d \in Clients \ {c} : Clear(r, req[d]) /\ Clear(req[d], r),
           req' = [req EXCEPT ![c] = r], UNCHANGED db
    PROVE  Inv'
<1>1. /\ req' \in [Clients -> Requests]
      /\ req'[c] = r /\ \A d \in Clients \ {c} : req'[d] = req[d]
    BY DEF Inv, Typed
<1>2. Typed' /\ AdminRemains'
    BY <1>1 DEF Inv, Typed, AdminRemains, TypeOK, Exists, db
<1>3. ASSUME NEW d \in Clients PROVE Shape(req'[d]) /\ Guarded(req'[d])
    <2>1. CASE d = c  BY <2>1, <1>1
    <2>2. CASE d # c  BY <2>2, <1>1 DEF Inv
    <2> QED BY <2>1, <2>2
<1>4. ASSUME NEW d \in Clients PROVE Guarded(req[d])'
    <2>1. Guarded(req'[d])
        BY <1>3
    <2>2. table' = table /\ admins' = admins
        BY DEF db
    <2> QED BY <2>1, <2>2 DEF Guarded, Exists, Swept, RowsOf
<1>5. Apart'
    <2> SUFFICES ASSUME NEW d \in Clients, NEW e \in Clients, d # e
                 PROVE  Clear(req'[d], req'[e])
        BY DEF Apart, Clear
    <2>1. CASE d = c  BY <2>1, <1>1
    <2>2. CASE e = c  BY <2>2, <1>1
    <2>3. CASE d # c /\ e # c  BY <2>3, <1>1 DEF Inv, Apart
    <2> QED BY <2>1, <2>2, <2>3
<1>6. \A d \in Clients : Shape(req[d])' /\ Guarded(req[d])'
    BY <1>3, <1>4
<1> QED BY <1>2, <1>5, <1>6 DEF Inv

(* A request that begins, or has ended, holds nothing.                     *)
LEMMA Blank ==
    ASSUME NEW r, r.holds = {}, r.found = {}, r.shared = {}, ~Past(r)
    PROVE  Guarded(r) /\ \A q \in Requests : Clear(r, q) /\ Clear(q, r)
    BY DEF Guarded, Clear

-----------------------------------------------------------------------------
(* The beginning of a request. *)

LEMMA BeginUpdateKeeps ==
    ASSUME Inv, NEW c \in Clients, BeginUpdate(c) PROVE Inv'
<1>1. PICK u \in Users, roles \in {"keep", "grant", "revoke"}, password \in BOOLEAN :
        Begin(c, Request("update", u, roles, password, IF roles = "keep" THEN "user" ELSE "admins"))
    BY DEF BeginUpdate
<1> DEFINE r == Request("update", u, roles, password, IF roles = "keep" THEN "user" ELSE "admins")
<1>2. r \in Requests /\ Shape(r) /\ ~Past(r)
    BY DEF Request, Requests, Shape, Past
<1>3. Guarded(r) /\ \A q \in Requests : Clear(r, q) /\ Clear(q, r)
    BY <1>2, Blank DEF Request
<1>4. req' = [req EXCEPT ![c] = r] /\ UNCHANGED db
    BY <1>1 DEF Begin
<1> HIDE DEF r
<1> QED BY <1>2, <1>3, <1>4, Moves DEF Inv, Typed

LEMMA BeginDeleteKeeps ==
    ASSUME Inv, NEW c \in Clients, BeginDelete(c) PROVE Inv'
<1>1. PICK u \in Users : Begin(c, Request("delete", u, "keep", FALSE, "admins"))
    BY DEF BeginDelete
<1> DEFINE r == Request("delete", u, "keep", FALSE, "admins")
<1>2. r \in Requests /\ Shape(r) /\ ~Past(r)
    BY DEF Request, Requests, Shape, Past
<1>3. Guarded(r) /\ \A q \in Requests : Clear(r, q) /\ Clear(q, r)
    BY <1>2, Blank DEF Request
<1>4. req' = [req EXCEPT ![c] = r] /\ UNCHANGED db
    BY <1>1 DEF Begin
<1> HIDE DEF r
<1> QED BY <1>2, <1>3, <1>4, Moves DEF Inv, Typed

LEMMA BeginInsertKeeps ==
    ASSUME Inv, NEW c \in Clients, BeginAsk(c) \/ BeginLogin(c) PROVE Inv'
<1>1. PICK u \in Users, op \in {"ask", "login"} : Begin(c, Request(op, u, "keep", FALSE, "sweep"))
    BY DEF BeginAsk, BeginLogin
<1> DEFINE r == Request(op, u, "keep", FALSE, "sweep")
<1>2. r \in Requests /\ Shape(r) /\ ~Past(r)
    BY DEF Request, Requests, Shape, Past
<1>3. Guarded(r) /\ \A q \in Requests : Clear(r, q) /\ Clear(q, r)
    BY <1>2, Blank DEF Request
<1>4. req' = [req EXCEPT ![c] = r] /\ UNCHANGED db
    BY <1>1 DEF Begin
<1> HIDE DEF r
<1> QED BY <1>2, <1>3, <1>4, Moves DEF Inv, Typed

LEMMA BeginConfirmKeeps ==
    ASSUME Inv, NEW c \in Clients, BeginConfirm(c) PROVE Inv'
<1>1. PICK row \in table \ old :
        /\ row.kind = "reset"
        /\ CanTake(c, row)
        /\ Begin(c, [Request("confirm", row.user, "keep", TRUE, "user") EXCEPT !.holds = {row}])
    BY DEF BeginConfirm
<1> DEFINE r == [Request("confirm", row.user, "keep", TRUE, "user") EXCEPT !.holds = {row}]
<1>2. row \in Rows /\ row \in table
    BY <1>1 DEF Inv, Typed
<1>3. r \in Requests /\ Shape(r) /\ ~Past(r)
    BY <1>2 DEF Request, Requests, Shape, Past, Rows
<1>4. Guarded(r)
    BY <1>2, <1>3 DEF Guarded, Request
<1>5. ASSUME NEW d \in Clients \ {c} PROVE Clear(r, req[d]) /\ Clear(req[d], r)
    BY <1>1, <1>5 DEF Clear, Request, CanTake, UserRow, Row
<1>6. req' = [req EXCEPT ![c] = r] /\ UNCHANGED db
    BY <1>1 DEF Begin
<1> HIDE DEF r
<1> QED BY <1>3, <1>4, <1>5, <1>6, Moves

(* A request that ends leaves nothing behind. *)
LEMMA EndKeeps ==
    ASSUME Inv, NEW c \in Clients, Ends(c), UNCHANGED db PROVE Inv'
<1>1. Idle \in Requests /\ Shape(Idle) /\ ~Past(Idle)
    BY DEF Idle, Request, Requests, Shape, Past
<1>2. Guarded(Idle) /\ \A q \in Requests : Clear(Idle, q) /\ Clear(q, Idle)
    BY <1>1, Blank DEF Idle, Request
<1> QED BY <1>1, <1>2, Moves DEF Ends, Inv, Typed

-----------------------------------------------------------------------------
(* The statements. *)

LEMMA AfterGoesOn ==
    ASSUME NEW r \in Requests, Shape(r),
           r.at \in {"admins", "user", "sessions", "resets", "sweep", "insert"}
    PROVE  /\ After(r) \in {"user", "sessions", "resets", "insert", "commit"}
           /\ r.op = "update" => After(r) \in {"user", "sessions", "commit"}
           /\ r.op = "delete" => After(r) \in {"user", "sessions", "resets", "commit"}
           /\ r.op = "confirm" => After(r) \in {"resets", "sessions", "commit"}
           /\ r.op \in {"ask", "login"} => After(r) \in {"resets", "insert", "commit"}
           /\ r.op # "none"
    BY DEF After, Shape, Requests, Idle, Request

LEMMA StartKeeps ==
    ASSUME Inv, NEW c \in Clients, Start(c) PROVE Inv'
<1> DEFINE p == req[c]
           after == [p EXCEPT !.at = After(p)]
           found == [p EXCEPT !.todo = Snapshot(c)]
<1>1. /\ p \in Requests /\ Shape(p) /\ Guarded(p)
      /\ \A d \in Clients \ {c} : Clear(p, req[d]) /\ Clear(req[d], p)
    BY Facts
<1>2. p.at \in {"admins", "sweep", "resets", "sessions"} /\ p.todo = {}
    BY DEF Start
<1>3. Snapshot(c) \subseteq Rows
    <2>1. table \subseteq Rows /\ old \subseteq Rows /\ {UserRow(u) : u \in admins} \subseteq Rows
        BY DEF Inv, Typed, AdminRemains, TypeOK, Exists
    <2>2. CASE p.at = "admins"  BY <2>1, <2>2 DEF Snapshot, At
    <2>3. CASE p.at = "sweep"  BY <2>1, <2>3 DEF Snapshot, At
    <2>4. CASE p.at = "resets"  BY <2>1, <2>4 DEF Snapshot, At
    <2>5. CASE p.at = "sessions"  BY <2>1, <2>5 DEF Snapshot, At
    <2> QED BY <1>2, <2>2, <2>3, <2>4, <2>5
<1>4. ASSUME Snapshot(c) = {} PROVE after \in Requests /\ Shape(after) /\ Guarded(after)
    <2>1. after \in Requests
        BY <1>1, <1>2 DEF After, Requests
    <2>2. Shape(after)
        <3>1. /\ after.at = After(p) /\ after.todo = {} /\ after.op = p.op /\ after.user = p.user
              /\ after.roles = p.roles /\ after.password = p.password /\ after.added = p.added
            BY <1>1, <1>2 DEF Requests
        <3> HIDE DEF after
        <3> QED BY <1>1, <1>2, <3>1, AfterGoesOn DEF Shape
    <2>3. p.at = "sessions" => RowsOf("session", p.user) = {}
        BY <1>4 DEF Snapshot, At, RowsOf
    <2>4. p.at = "resets" => RowsOf("reset", p.user) = {}
        BY <1>4 DEF Snapshot, At, RowsOf
    <2>5. Past(after) => Past(p)
        BY <1>1, <1>2 DEF After, Requests, Shape, Past
    <2>6. Past(after) => Swept(after)
        BY <1>1, <1>2, <2>3, <2>4, <2>5
        DEF After, Requests, Shape, Past, Guarded, Swept, SessionsGone, ResetsGone
    <2> QED BY <1>1, <2>1, <2>2, <2>5, <2>6 DEF Guarded, Requests
<1>5. found \in Requests /\ Shape(found) /\ Guarded(found)
    <2>1. found \in Requests
        BY <1>1, <1>3 DEF Requests
    <2>2. found.at = "admins" => \A row \in found.todo : row = UserRow(row.user)
        BY <1>1 DEF Snapshot, At, UserRow, Row, Requests
    <2>3. Shape(found)
        BY <1>1, <1>2, <2>2 DEF Shape, Idle, Request, Requests
    <2>4. p.at = "sessions" => RowsOf("session", p.user) = Snapshot(c)
        BY DEF Snapshot, At, RowsOf
    <2>5. p.at = "resets" => RowsOf("reset", p.user) = Snapshot(c)
        BY DEF Snapshot, At, RowsOf
    <2>6. Past(found) => Swept(found)
        BY <1>1, <1>2, <2>4, <2>5
        DEF Requests, Past, Guarded, Swept, SessionsGone, ResetsGone
    <2> QED BY <1>1, <2>1, <2>3, <2>6 DEF Guarded, Requests, Past
<1>6. CASE Snapshot(c) = {}
    <2>1. req' = [req EXCEPT ![c] = after] /\ UNCHANGED db
        BY <1>6 DEF Start, Goes
    <2>2. \A d \in Clients \ {c} : Clear(after, req[d]) /\ Clear(req[d], after)
        BY <1>1 DEF Clear, Requests
    <2> HIDE DEF after
    <2> QED BY <1>4, <1>6, <2>1, <2>2, Moves
<1>7. CASE Snapshot(c) # {}
    <2>1. req' = [req EXCEPT ![c] = found] /\ UNCHANGED db
        BY <1>7 DEF Start, Goes
    <2>2. \A d \in Clients \ {c} : Clear(found, req[d]) /\ Clear(req[d], found)
        BY <1>1 DEF Clear, Requests
    <2> HIDE DEF found
    <2> QED BY <1>5, <2>1, <2>2, Moves
<1> QED BY <1>6, <1>7

LEMMA TakeKeeps ==
    ASSUME Inv, NEW c \in Clients, Take(c) PROVE Inv'
<1> DEFINE p == req[c]
<1>1. /\ p \in Requests /\ Shape(p) /\ Guarded(p)
      /\ \A d \in Clients \ {c} : Clear(p, req[d]) /\ Clear(req[d], p)
    BY Facts
<1>2. PICK row \in p.todo :
        /\ row \in table => CanTake(c, row)
        /\ Goes(c, [p EXCEPT
                !.todo  = @ \ {row},
                !.holds = @ \cup ({row} \cap table),
                !.found = IF At(c, "admins") THEN @ \cup ({row.user} \cap admins) ELSE @,
                !.at    = IF p.todo = {row} THEN After(p) ELSE @])
    BY DEF Take, FirstRow
<1> DEFINE r == [p EXCEPT
                !.todo  = @ \ {row},
                !.holds = @ \cup ({row} \cap table),
                !.found = IF At(c, "admins") THEN @ \cup ({row.user} \cap admins) ELSE @,
                !.at    = IF p.todo = {row} THEN After(p) ELSE @]
<1>3. row \in Rows /\ p.at \in {"admins", "sweep", "resets", "sessions"}
    BY <1>1, <1>2 DEF Requests, Shape
<1>4. r \in Requests
    <2>1. After(p) \in {"user", "sessions", "resets", "insert", "commit"}
        BY <1>1, <1>3, AfterGoesOn
    <2>2. row.user \in Users
        BY <1>3 DEF Rows
    <2> QED BY <1>1, <1>3, <2>1, <2>2 DEF Requests
<1>5. Shape(r)
    <2>1. /\ r.op = p.op /\ r.user = p.user /\ r.roles = p.roles /\ r.password = p.password
          /\ r.added = p.added /\ r.todo = p.todo \ {row}
          /\ IF p.todo = {row} THEN r.at = After(p) ELSE r.at = p.at
        BY <1>1 DEF Requests
    <2> HIDE DEF r
    <2> QED BY <1>1, <1>2, <1>3, <2>1, AfterGoesOn DEF Shape
<1>6. Guarded(r)
    <2>1. r.holds \subseteq table /\ r.found \subseteq admins /\ \A u \in r.shared : Exists(u)
        BY <1>1 DEF Guarded, Requests
    <2>2. ASSUME NEW u \in r.found PROVE UserRow(u) \in r.holds
        <3>1. CASE u \in p.found
            BY <1>1, <3>1 DEF Guarded, Requests
        <3>2. CASE u \notin p.found
            <4>1. At(c, "admins") /\ u = row.user /\ u \in admins
                BY <2>2, <3>2, <1>1 DEF Requests
            <4>2. row = UserRow(u)
                BY <1>1, <1>2, <4>1 DEF Shape, At
            <4>3. row \in table
                BY <4>1, <4>2 DEF Inv, AdminRemains, TypeOK, Exists
            <4> QED BY <1>1, <4>2, <4>3 DEF Requests
        <3> QED BY <3>1, <3>2
    <2>3. Past(r) => Past(p)
        BY <1>1, <1>3 DEF Requests, After, Shape, Past
    <2>4. p.holds \subseteq r.holds /\ p.found \subseteq r.found
        BY <1>1 DEF Requests
    <2>5. RowsOf("session", p.user) \subseteq p.holds \cup p.todo =>
            RowsOf("session", p.user) \subseteq r.holds \cup r.todo
        BY <1>1 DEF Requests, RowsOf
    <2>6. RowsOf("reset", p.user) \subseteq p.holds \cup p.todo =>
            RowsOf("reset", p.user) \subseteq r.holds \cup r.todo
        BY <1>1 DEF Requests, RowsOf
    <2>7. Past(r) => Swept(r)
        <3> SUFFICES ASSUME Past(r) PROVE Swept(r)
            OBVIOUS
        <3>1. Swept(p) /\ Past(p)
            BY <1>1, <2>3 DEF Guarded
        <3>2. CASE p.todo # {row}
            <4>1. r.at = p.at /\ r.op = p.op /\ r.password = p.password /\ r.user = p.user
                BY <1>1, <3>2 DEF Requests
            <4> QED BY <1>2, <2>4, <2>5, <2>6, <3>1, <4>1 DEF Swept, SessionsGone, ResetsGone
        <3>3. CASE p.todo = {row}
            <4>1. /\ r.at = After(p) /\ r.op = p.op /\ r.password = p.password /\ r.user = p.user
                  /\ r.todo = {}
                BY <1>1, <3>3 DEF Requests
            <4> HIDE DEF r
            <4> QED BY <1>1, <1>2, <1>3, <2>4, <2>5, <2>6, <3>1, <4>1
                    DEF Swept, SessionsGone, ResetsGone, After, Past, Shape, Requests
        <3> QED BY <3>2, <3>3
    <2>8. Past(r) => UserRow(r.user) \in r.holds
        BY <1>1, <2>3, <2>4 DEF Guarded, Requests
    <2>9. Past(r) /\ (r.op = "delete" \/ r.roles = "revoke") /\ r.user \in admins =>
            \E v \in r.found : v # r.user
        BY <1>1, <2>3, <2>4 DEF Guarded, Requests
    <2> HIDE DEF r
    <2> QED BY <2>1, <2>2, <2>7, <2>8, <2>9 DEF Guarded
<1>7. ASSUME NEW d \in Clients \ {c} PROVE Clear(r, req[d]) /\ Clear(req[d], r)
    <2>1. row \in table => row \notin req[d].holds /\ (row.kind = "user" => row.user \notin req[d].shared)
        BY <1>2, <1>7 DEF CanTake
    <2>2. Clear(p, req[d]) /\ Clear(req[d], p)
        BY <1>1, <1>7
    <2> QED BY <1>1, <2>1, <2>2 DEF Clear, Requests, UserRow, Row
<1>8. req' = [req EXCEPT ![c] = r] /\ UNCHANGED db
    BY <1>2 DEF Goes
<1> HIDE DEF r
<1> QED BY <1>4, <1>5, <1>6, <1>7, <1>8, Moves

LEMMA LockUserKeeps ==
    ASSUME Inv, NEW c \in Clients, LockUser(c) PROVE Inv'
<1> DEFINE p == req[c]
           r == [p EXCEPT !.holds = @ \cup {UserRow(p.user)}, !.at = After(p)]
<1>1. /\ p \in Requests /\ Shape(p) /\ Guarded(p)
      /\ \A d \in Clients \ {c} : Clear(p, req[d]) /\ Clear(req[d], p)
    BY Facts
<1>2. /\ p.at = "user" /\ Exists(p.user) /\ CanTake(c, UserRow(p.user))
      /\ ~Refused(c)
    BY DEF LockUser, At
<1>3. UserRow(p.user) \in Rows /\ UserRow(p.user) \in table
    BY <1>2 DEF Exists, Inv, Typed
<1>4. r \in Requests
    BY <1>1, <1>2, <1>3 DEF Requests, After
<1>5. Shape(r)
    BY <1>1, <1>2 DEF Requests, After, Shape, Idle, Request
<1>6. Guarded(r)
    <2>1. p.holds \subseteq r.holds /\ UserRow(p.user) \in r.holds /\ r.user = p.user
        BY <1>1 DEF Requests
    <2>2. r.holds \subseteq table
        BY <1>1, <1>3 DEF Guarded, Requests
    <2>3. Past(r) => Swept(r)
        BY <1>1, <1>2 DEF Requests, After, Shape, Past, Swept, SessionsGone, ResetsGone
    <2>4. (r.op = "delete" \/ r.roles = "revoke") /\ r.user \in admins => \E v \in r.found : v # r.user
        BY <1>1, <1>2 DEF Refused, Demotes, Requests
    <2>5. r.found = p.found /\ r.shared = p.shared
        BY <1>1 DEF Requests
    <2> HIDE DEF r
    <2> QED BY <1>1, <2>1, <2>2, <2>3, <2>4, <2>5 DEF Guarded
<1>7. ASSUME NEW d \in Clients \ {c} PROVE Clear(r, req[d]) /\ Clear(req[d], r)
    <2>1. UserRow(p.user) \notin req[d].holds /\ p.user \notin req[d].shared
        BY <1>2, <1>7 DEF CanTake, UserRow, Row
    <2>2. Clear(p, req[d]) /\ Clear(req[d], p)
        BY <1>1, <1>7
    <2> QED BY <1>1, <2>1, <2>2 DEF Clear, Requests, UserRow, Row
<1>8. req' = [req EXCEPT ![c] = r] /\ UNCHANGED db
    BY DEF LockUser, Goes
<1> HIDE DEF r
<1> QED BY <1>4, <1>5, <1>6, <1>7, <1>8, Moves

LEMMA InsertKeeps ==
    ASSUME Inv, NEW c \in Clients, Insert(c) PROVE Inv'
<1> DEFINE p == req[c]
           u == p.user
           k == Kind(p.op)
<1>1. /\ p \in Requests /\ Shape(p) /\ Guarded(p)
      /\ \A d \in Clients \ {c} : Clear(p, req[d]) /\ Clear(req[d], p)
    BY Facts
<1>2. PICK n \in Places[k] :
        Goes(c, [p EXCEPT !.shared = {u}, !.added = {Row(k, n, u)}, !.at = After(p)])
    BY DEF Insert
<1> DEFINE r == [p EXCEPT !.shared = {u}, !.added = {Row(k, n, u)}, !.at = After(p)]
<1>3. p.at = "insert" /\ p.op \in {"ask", "login"} /\ u \in Users /\ Exists(u) /\ CanShare(c, u)
    BY <1>1 DEF Insert, At, Shape, Idle, Request, Requests
<1>4. Row(k, n, u) \in Rows
    BY <1>2, <1>3, AccountsAssumption DEF Row, Rows, Kind
<1>5. r \in Requests
    BY <1>1, <1>3, <1>4 DEF Requests, After
<1>6. Shape(r) /\ ~Past(r)
    BY <1>1, <1>2, <1>3 DEF Requests, After, Shape, Past, Idle, Request
<1>7. Guarded(r)
    BY <1>1, <1>3, <1>6 DEF Guarded, Requests
<1>8. ASSUME NEW d \in Clients \ {c} PROVE Clear(r, req[d]) /\ Clear(req[d], r)
    <2>1. UserRow(u) \notin req[d].holds
        BY <1>3, <1>8 DEF CanShare
    <2>2. Clear(p, req[d]) /\ Clear(req[d], p)
        BY <1>1, <1>8
    <2> QED BY <1>1, <2>1, <2>2 DEF Clear, Requests
<1>9. req' = [req EXCEPT ![c] = r] /\ UNCHANGED db
    BY <1>2 DEF Goes
<1> HIDE DEF r
<1> QED BY <1>5, <1>6, <1>7, <1>8, <1>9, Moves

-----------------------------------------------------------------------------
(* Steps that change the tables. *)

(* What d knows stays true if what it holds stays, and nothing comes to    *)
(* its user.                                                               *)
LEMMA Stays ==
    ASSUME Inv, NEW d \in Clients, req'[d] = req[d],
           req[d].holds \subseteq table', req[d].found \subseteq admins',
           \A u \in req[d].shared : UserRow(u) \in table',
           Past(req[d]) /\ req[d].user \in admins' => req[d].user \in admins,
           Past(req[d]) => \A row \in table' \ table : row.user # req[d].user \/ row.kind = "user"
    PROVE  Shape(req[d])' /\ Guarded(req[d])'
<1> DEFINE r == req[d]
<1>1. Shape(r) /\ Guarded(r)
    BY Facts
<1>2. Shape(req'[d])
    BY <1>1
<1>3. Past(r) => RowsOf("session", r.user)' \subseteq RowsOf("session", r.user)
    BY DEF RowsOf
<1>4. Past(r) => RowsOf("reset", r.user)' \subseteq RowsOf("reset", r.user)
    BY DEF RowsOf
<1>5. Past(req[d])' => Past(r)
    BY DEF Past
<1>6. Past(req[d])' => Swept(req[d])'
    BY <1>1, <1>3, <1>4, <1>5 DEF Guarded, Swept, SessionsGone, ResetsGone, RowsOf
<1>7. Guarded(req[d])'
    BY <1>1, <1>5, <1>6 DEF Guarded, Exists
<1>8. Shape(req[d])'
    BY <1>2
<1> QED BY <1>7, <1>8

LEMMA CreateUserKeeps ==
    ASSUME Inv, NEW u \in Users, CreateUser(u) PROVE Inv'
<1>1. /\ u \in fresh /\ fresh' = fresh \ {u} /\ table' = table \cup {UserRow(u)}
      /\ admins \subseteq admins' /\ admins' \subseteq admins \cup {u}
      /\ old' = old /\ req' = req
    BY DEF CreateUser
<1>2. UserRow(u) \in Rows /\ UserRow(u).kind = "user" /\ UserRow(u).place = u /\ UserRow(u).user = u
    BY AccountsAssumption DEF UserRow, Row, Rows
<1>3. Typed'
    BY <1>1, <1>2 DEF Inv, Typed
<1>4. UserRow(u) \notin table /\ u \notin admins
    BY <1>1, <1>2 DEF Inv, AdminRemains, TypeOK, Exists
<1>5. AdminRemains'
    <2>1. ASSUME NEW row \in table'
          PROVE  IF row.kind = "user" THEN row.place = row.user /\ row.user \in Users \ fresh'
                 ELSE row.place \in Places[row.kind] /\ UserRow(row.user) \in table'
        BY <2>1, <1>1, <1>2 DEF Inv, AdminRemains, TypeOK, Exists
    <2>2. \A v \in admins' : UserRow(v) \in table'
        BY <1>1 DEF Inv, AdminRemains, TypeOK, Exists
    <2>3. fresh' \subseteq Users /\ old' \subseteq table' /\ admins' # {}
        BY <1>1 DEF Inv, AdminRemains, TypeOK
    <2> QED BY <2>1, <2>2, <2>3 DEF AdminRemains, TypeOK, Exists
<1>6. ASSUME NEW d \in Clients PROVE Shape(req[d])' /\ Guarded(req[d])'
    <2>1. Guarded(req[d])
        BY Facts
    <2>2. Past(req[d]) => req[d].user # u
        BY <2>1, <1>4 DEF Guarded
    <2> QED BY <1>1, <1>2, <2>1, <2>2, Stays DEF Guarded, Exists
<1>7. Apart'
    BY <1>1 DEF Inv, Apart, Clear
<1> QED BY <1>3, <1>5, <1>6, <1>7 DEF Inv

LEMMA LogoutKeeps ==
    ASSUME Inv, Logout PROVE Inv'
<1>1. PICK row \in table :
        /\ row.kind = "session"
        /\ \A d \in Clients : row \notin req[d].holds
        /\ table' = table \ {row}
        /\ old' = old \ {row}
    BY DEF Logout
<1>2. fresh' = fresh /\ admins' = admins /\ req' = req
    BY DEF Logout
<1>3. \A u : Exists(u) <=> UserRow(u) \in table'
    BY <1>1 DEF Exists, UserRow, Row
<1>4. Typed' /\ AdminRemains'
    BY <1>1, <1>2, <1>3 DEF Inv, Typed, AdminRemains, TypeOK, Exists
<1>5. ASSUME NEW d \in Clients PROVE Shape(req[d])' /\ Guarded(req[d])'
    <2>1. Guarded(req[d])
        BY Facts
    <2> QED BY <1>1, <1>2, <1>3, <2>1, Stays DEF Guarded
<1>6. Apart'
    BY <1>2 DEF Inv, Apart, Clear
<1> QED BY <1>4, <1>5, <1>6 DEF Inv

LEMMA ExpireKeeps ==
    ASSUME Inv, Expire PROVE Inv'
<1>1. old' \subseteq table /\ fresh' = fresh /\ table' = table /\ admins' = admins /\ req' = req
    BY DEF Expire, Inv, AdminRemains, TypeOK
<1>2. Typed' /\ AdminRemains'
    BY <1>1 DEF Inv, Typed, AdminRemains, TypeOK, Exists
<1>3. ASSUME NEW d \in Clients PROVE Shape(req[d])' /\ Guarded(req[d])'
    <2>1. Guarded(req[d])
        BY Facts
    <2> QED BY <1>1, <2>1, Stays DEF Guarded, Exists
<1>4. Apart'
    BY <1>1 DEF Inv, Apart, Clear
<1> QED BY <1>2, <1>3, <1>4 DEF Inv

(* What c has deleted is its own, and of users only its own user.          *)
LEMMA DeletesItsOwn ==
    ASSUME Inv, NEW c \in Clients, At(c, "commit")
    PROVE  /\ Deleted(c) \subseteq req[c].holds
           /\ req[c].op # "delete" => \A u : UserRow(u) \notin Deleted(c)
           /\ \A u : UserRow(u) \in Deleted(c) => req[c].op = "delete" /\ u = req[c].user
<1> DEFINE r == req[c]
<1>1. r \in Requests /\ Shape(r) /\ Guarded(r)
    BY Facts
<1>2. r.op = "delete" => UserRow(r.user) \in r.holds
    BY <1>1 DEF Guarded, Past, At
<1>3. Deleted(c) \subseteq r.holds
    BY <1>2 DEF Deleted
<1>4. ASSUME NEW u, UserRow(u) \in Deleted(c) PROVE r.op = "delete" /\ u = r.user
    BY <1>4 DEF Deleted, UserRow, Row
<1> QED BY <1>3, <1>4

(* What the end of c's transaction leaves of its user. *)
LEMMA CommitSweeps ==
    ASSUME Inv, NEW c \in Clients, Commit(c)
    PROVE  \A row \in table' : row.user = req[c].user =>
                /\ req[c].password => row.kind # "session"
                /\ req[c].op = "confirm" => row.kind # "reset"
                /\ req[c].op # "delete"
<1> DEFINE r == req[c]
<1>1. r \in Requests /\ Shape(r) /\ Guarded(r) /\ r.at = "commit"
    BY Facts DEF Commit, At
<1>2. SUFFICES ASSUME r.password \/ r.op \in {"confirm", "delete"},
                      NEW row \in table', row.user = r.user
               PROVE  /\ r.password => row.kind # "session"
                      /\ r.op = "confirm" => row.kind # "reset"
                      /\ r.op # "delete"
    OBVIOUS
<1>3. Past(r) /\ Swept(r) /\ r.added = {}
    BY <1>1, <1>2 DEF Shape, Past, Guarded, Requests, Idle, Request
<1>4. row \in table /\ row \notin Deleted(c) /\ row \in Rows
    BY <1>3 DEF Commit, Inv, Typed
<1>5. ASSUME row.kind = "session", r.password \/ r.op \in {"confirm", "delete"} PROVE FALSE
    <2>1. row \in r.holds
        BY <1>1, <1>2, <1>3, <1>4, <1>5
        DEF Swept, SessionsGone, RowsOf, Shape, Requests, Past
    <2> QED BY <1>4, <1>5, <2>1 DEF Deleted
<1>6. ASSUME row.kind = "reset", r.op \in {"confirm", "delete"} PROVE FALSE
    <2>1. row \in r.holds
        BY <1>1, <1>2, <1>3, <1>4, <1>6 DEF Swept, ResetsGone, RowsOf
    <2> QED BY <1>4, <1>6, <2>1 DEF Deleted
<1>7. ASSUME row.kind = "user", r.op = "delete" PROVE FALSE
    <2>1. row = UserRow(r.user)
        BY <1>2, <1>4, <1>7 DEF Inv, AdminRemains, TypeOK, UserRow, Row, Rows
    <2>2. r.user \in Users
        BY <1>1, <1>7 DEF Shape
    <2> QED BY <1>4, <1>7, <2>1, <2>2 DEF Deleted
<1> QED BY <1>4, <1>5, <1>6, <1>7 DEF Rows

LEMMA CommitKeeps ==
    ASSUME Inv, NEW c \in Clients, Commit(c) PROVE Inv'
<1> DEFINE r == req[c]
<1>1. /\ r \in Requests /\ Shape(r) /\ Guarded(r) /\ r.at = "commit"
      /\ \A d \in Clients \ {c} : Clear(r, req[d]) /\ Clear(req[d], r)
    BY Facts DEF Commit, At
<1>2. /\ table' = (table \ Deleted(c)) \cup r.added
      /\ old' = old \ Deleted(c) /\ fresh' = fresh
      /\ admins' = IF r.roles = "grant" THEN admins \cup {r.user}
                   ELSE IF Demotes(c) THEN admins \ {r.user}
                   ELSE admins
      /\ req' = [req EXCEPT ![c] = Idle]
    BY DEF Commit, Ends
<1>3. /\ Deleted(c) \subseteq r.holds
      /\ \A u : UserRow(u) \in Deleted(c) => r.op = "delete" /\ u = r.user
    BY DeletesItsOwn DEF Commit
<1>4. \A row \in r.added : /\ row \in Rows /\ row.kind # "user" /\ row.place \in Places[row.kind]
                           /\ row.user = r.user /\ r.user \in r.shared /\ r.op # "delete"
    BY <1>1 DEF Shape, Requests, Row, Kind
<1>5. \A u \in Users : Exists(u) /\ (r.op # "delete" \/ u # r.user) => UserRow(u) \in table'
    BY <1>2, <1>3 DEF Exists
<1>6. r.op \in {"update", "delete"} => Exists(r.user) /\ UserRow(r.user) \in r.holds /\ Past(r)
    BY <1>1 DEF Guarded, Past, Exists
<1>7. r.user \in Users /\ r.op # "none"
    BY <1>1 DEF Shape, Idle, Request
<1>8. r.roles # "keep" => r.op = "update"
    BY <1>1, <1>7 DEF Shape, Requests
<1>9. admins' # {}
    <2>1. CASE r.roles # "grant" /\ Demotes(c) /\ r.user \in admins
        <3>1. PICK v \in r.found : v # r.user
            BY <1>1, <1>6, <1>8, <2>1 DEF Guarded, Demotes
        <3> QED BY <1>1, <1>2, <2>1, <3>1 DEF Guarded
    <2>2. CASE ~(r.roles # "grant" /\ Demotes(c) /\ r.user \in admins)
        BY <1>2, <2>2 DEF Inv, AdminRemains
    <2> QED BY <2>1, <2>2
<1>10. \A u \in admins' : UserRow(u) \in table'
    <2> SUFFICES ASSUME NEW u \in admins' PROVE UserRow(u) \in table'
        OBVIOUS
    <2>1. u \in Users /\ Exists(u)
        BY <1>2, <1>6, <1>7, <1>8 DEF Inv, Typed, AdminRemains, TypeOK
    <2>2. r.op # "delete" \/ u # r.user
        BY <1>1, <1>2 DEF Demotes, Shape
    <2> QED BY <1>5, <2>1, <2>2
<1>11. ASSUME NEW row \in table'
       PROVE  IF row.kind = "user" THEN row.place = row.user /\ row.user \in Users \ fresh'
              ELSE row.place \in Places[row.kind] /\ UserRow(row.user) \in table'
    <2>1. CASE row \in r.added
        BY <1>1, <1>4, <1>5, <1>7, <2>1 DEF Guarded
    <2>2. CASE row \in table
        <3>1. row \in Rows /\ (r.op # "delete" \/ row.user # r.user)
            BY <2>2, CommitSweeps DEF Inv, Typed
        <3>2. IF row.kind = "user" THEN row.place = row.user /\ row.user \in Users \ fresh
              ELSE row.place \in Places[row.kind] /\ Exists(row.user)
            BY <2>2 DEF Inv, AdminRemains, TypeOK
        <3> QED BY <1>2, <1>5, <3>1, <3>2 DEF Rows
    <2> QED BY <1>2, <2>1, <2>2
<1>12. AdminRemains'
    BY <1>2, <1>9, <1>10, <1>11 DEF Inv, AdminRemains, TypeOK, Exists
<1>13. Idle \in Requests /\ Shape(Idle) /\ ~Past(Idle)
    BY DEF Idle, Request, Requests, Shape, Past
<1>14. /\ req' \in [Clients -> Requests]
       /\ req'[c] = Idle /\ \A d \in Clients \ {c} : req'[d] = req[d]
    BY <1>2, <1>13 DEF Inv, Typed
<1>15. Typed'
    BY <1>2, <1>4, <1>7, <1>14 DEF Inv, Typed
<1>16. ASSUME NEW d \in Clients PROVE Shape(req[d])' /\ Guarded(req[d])'
    <2>1. CASE d = c
        <3>1. req'[d] = Idle /\ Shape(req'[d]) /\ ~Past(req'[d])
            BY <1>13, <1>14, <2>1
        <3>2. req'[d].holds = {} /\ req'[d].found = {} /\ req'[d].shared = {}
            BY <3>1 DEF Idle, Request
        <3> QED BY <3>1, <3>2 DEF Guarded
    <2>2. CASE d # c
        <3>1. Guarded(req[d]) /\ Clear(r, req[d]) /\ Clear(req[d], r) /\ req'[d] = req[d]
            BY <1>1, <1>14, <2>2, Facts
        <3>2. req[d].holds \subseteq table'
            BY <1>2, <1>3, <3>1 DEF Guarded, Clear
        <3>3. \A u \in req[d].shared : UserRow(u) \in table'
            BY <1>2, <1>3, <3>1 DEF Guarded, Clear, Exists
        <3>4. req[d].found \subseteq admins'
            BY <1>2, <1>6, <1>8, <3>1 DEF Guarded, Clear, Demotes
        <3>5. Past(req[d]) => UserRow(req[d].user) \in req[d].holds
            BY <3>1 DEF Guarded
        <3>6. Past(req[d]) /\ req[d].user \in admins' => req[d].user \in admins
            BY <1>2, <1>6, <1>8, <3>1, <3>5 DEF Clear
        <3>7. Past(req[d]) => \A row \in table' \ table : row.user # req[d].user \/ row.kind = "user"
            BY <1>2, <1>4, <3>1, <3>5 DEF Clear
        <3> QED BY <3>1, <3>2, <3>3, <3>4, <3>6, <3>7, Stays
    <2> QED BY <2>1, <2>2
<1>17. Apart'
    <2> SUFFICES ASSUME NEW d \in Clients, NEW e \in Clients, d # e
                 PROVE  Clear(req'[d], req'[e])
        BY DEF Apart, Clear
    <2>1. CASE d = c \/ e = c
        BY <1>14, <2>1 DEF Clear, Idle, Request
    <2>2. CASE d # c /\ e # c  BY <2>2, <1>14 DEF Inv, Apart
    <2> QED BY <2>1, <2>2
<1> QED BY <1>12, <1>15, <1>16, <1>17 DEF Inv

-----------------------------------------------------------------------------
(* The theorems. *)

LEMMA InvInit == Init => Inv
<1> SUFFICES ASSUME Init PROVE Inv
    OBVIOUS
<1>1. Idle \in Requests /\ Shape(Idle) /\ Guarded(Idle) /\ Clear(Idle, Idle)
    BY DEF Idle, Request, Requests, Shape, Guarded, Clear, Past
<1>2. \A c \in Clients : req[c] = Idle
    BY DEF Init
<1>3. \A u : Exists(u) <=> u \in FirstUsers
    BY DEF Init, Exists, UserRow, Row
<1>4. Typed
    <2>1. FirstUsers \subseteq Users /\ FirstAdmins \subseteq Users /\ Users \subseteq Nat
        BY AccountsAssumption
    <2>2. table \subseteq Rows
        BY <2>1 DEF Init, UserRow, Row, Rows
    <2>3. req \in [Clients -> Requests]
        BY <1>1 DEF Init
    <2> QED BY <2>1, <2>2, <2>3 DEF Init, Typed
<1>5. AdminRemains
    BY <1>3, AccountsAssumption DEF Init, AdminRemains, TypeOK, UserRow, Row
<1> QED BY <1>1, <1>2, <1>4, <1>5 DEF Inv, Apart

LEMMA InvNext == Inv /\ [Next]_vars => Inv'
<1> SUFFICES ASSUME Inv, [Next]_vars PROVE Inv'
    OBVIOUS
<1>1. ASSUME NEW c \in Clients,
             \/ BeginUpdate(c) \/ BeginDelete(c) \/ BeginAsk(c) \/ BeginLogin(c) \/ BeginConfirm(c)
      PROVE  Inv'
    BY <1>1, BeginUpdateKeeps, BeginDeleteKeeps, BeginInsertKeeps, BeginConfirmKeeps
<1>2. ASSUME NEW c \in Clients, Statement(c) PROVE Inv'
    <2>1. CASE Raise(c)
        BY <2>1, EndKeeps DEF Raise
    <2> QED BY <1>2, <2>1, StartKeeps, TakeKeeps, LockUserKeeps, InsertKeeps, CommitKeeps DEF Statement
<1>3. ASSUME NEW c \in Clients, Abort(c) PROVE Inv'
    BY <1>3, EndKeeps DEF Abort
<1>4. ASSUME UNCHANGED vars PROVE Inv'
    BY <1>4 DEF vars, Inv, Typed, AdminRemains, TypeOK, Exists, Guarded, Swept, RowsOf, Apart
<1> QED BY <1>1, <1>2, <1>3, <1>4, CreateUserKeeps, LogoutKeeps, ExpireKeeps DEF Next

(* For any number of users and requests, one administrator at least        *)
(* remains, an administrator is a user, and no session or token outlives   *)
(* its user (_lock_admins, _last_admin, update_user, delete_user).         *)
THEOREM OneRemains == Spec => []AdminRemains
<1>1. Inv => AdminRemains
    BY DEF Inv
<1> QED BY <1>1, InvInit, InvNext, PTL DEF Spec

(* When a change of password commits, no session of its user is left; when *)
(* a reset does, no token either (update_user, reset_password).            *)
THEOREM SessionsEnd == Spec => SignsOut
<1>1. Inv /\ [Next]_vars =>
        [\A c \in Clients :
            Commit(c) =>
                \A row \in table' : row.user = req[c].user =>
                    /\ req[c].password => row.kind # "session"
                    /\ req[c].op = "confirm" => row.kind # "reset"
                    /\ req[c].op # "delete"]_vars
    BY CommitSweeps
<1> QED BY <1>1, InvInit, InvNext, PTL DEF Spec, SignsOut

-----------------------------------------------------------------------------
(* Numbers cannot climb for ever over finitely many places. *)

LEMMA FiniteBound ==
    ASSUME NEW C, IsFiniteSet(C), NEW p \in [C -> Nat]
    PROVE  \E b \in Nat : \A c \in C : p[c] <= b
<1>1. PICK n \in Nat : ExistsSurjection(1..n, C)
  BY FS_NatSurjection
<1>2. PICK f : f \in [1..n -> C] /\ \A c \in C : \E i \in 1..n : f[i] = c
  BY <1>1 DEF ExistsSurjection, Surjection
<1>3. PICK q : q = [i \in 1..n |-> p[f[i]]]
  OBVIOUS
<1>4. \A i \in 1..n : q[i] \in Nat /\ q[i] = p[f[i]]
  BY <1>2, <1>3
<1>5. PICK A : A = {i \in 0..n : \E b \in Nat : \A j \in 1..i : q[j] <= b}
  OBVIOUS
<1>6. 0 \in A
  BY <1>1, <1>5
<1>7. \A i \in 0..n : i \in A /\ i < n => i + 1 \in A
  <2> SUFFICES ASSUME NEW i \in 0..n, i \in A, i < n PROVE i + 1 \in A
    OBVIOUS
  <2>1. PICK b \in Nat : \A j \in 1..i : q[j] <= b
    BY <1>5
  <2>2. i + 1 \in 1..n /\ i + 1 \in 0..n
    BY <1>1
  <2>3. PICK v \in Nat : v = q[i + 1]
    BY <1>4, <2>2
  <2>4. PICK m \in Nat : b <= m /\ v <= m
    <3>1. b <= b + v /\ v <= b + v /\ b + v \in Nat
      OBVIOUS
    <3> QED
      BY <3>1
  <2>5. \A j \in 1..(i + 1) : q[j] <= m
    <3> SUFFICES ASSUME NEW j \in 1..(i + 1) PROVE q[j] <= m
      OBVIOUS
    <3>1. CASE j = i + 1
      BY <2>3, <2>4, <3>1
    <3>2. CASE j # i + 1
      <4>1. j \in 1..i /\ j \in 1..n
        BY <1>1, <2>2, <3>2
      <4> QED
        BY <1>4, <2>1, <2>4, <4>1
    <3> QED
      BY <3>1, <3>2
  <2> QED
    BY <1>5, <2>2, <2>5
<1>8. n \in A
  <2>1. \A i \in 0..n : i \in A
    BY <1>1, <1>6, <1>7, IntervalInduction
  <2> QED
    BY <1>1, <2>1
<1>9. PICK b \in Nat : \A j \in 1..n : q[j] <= b
  BY <1>5, <1>8
<1>10. ASSUME NEW c \in C PROVE p[c] <= b
  <2>1. PICK i \in 1..n : f[i] = c
    BY <1>2
  <2> QED
    BY <1>4, <1>9, <2>1
<1> QED
  BY <1>10

LEMMA NoClimb ==
    ASSUME NEW C, IsFiniteSet(C), NEW p \in [C -> Nat], NEW S \in SUBSET C,
           \A c \in S : \E d \in S : p[c] < p[d]
    PROVE  S = {}
<1> SUFFICES ASSUME S # {} PROVE FALSE
  OBVIOUS
<1>1. PICK b \in Nat : \A c \in C : p[c] <= b
  BY FiniteBound
<1>2. PICK T : T = {n \in Nat : \E c \in S : n = b - p[c]}
  OBVIOUS
<1>3. \A c \in S : b - p[c] \in T /\ p[c] \in Nat
  BY <1>1, <1>2
<1>4. T \in SUBSET Nat /\ T # {}
  BY <1>2, <1>3
<1>5. PICK m \in T : \A k \in T : m <= k
  BY <1>4, LeastNumber
<1>6. PICK c \in S : m = b - p[c]
  BY <1>2, <1>5
<1>7. PICK d \in S : p[c] < p[d]
  OBVIOUS
<1>8. m <= b - p[d] /\ p[c] \in Nat /\ p[d] \in Nat
  BY <1>3, <1>5, <1>7
<1> QED
  BY <1>6, <1>7, <1>8

-----------------------------------------------------------------------------
(* How requests wait. *)

(* Administrators are locked in the order of their ids, before anything    *)
(* else; a login or a request for a reset locks no user.                   *)
Lined(r) ==
    /\ r.shared # {} => r.at = "commit"
    /\ r.at \in {"sweep", "resets", "sessions"} => \A row \in r.todo : row.kind # "user"
    /\ r.op \in {"ask", "login"} => \A row \in r.holds : row.kind # "user"
    /\ r.at = "admins" =>
        /\ r.todo = {} => r.holds = {}
        /\ \A row \in r.holds : row = UserRow(row.user) /\ \A next \in r.todo : row.user < next.user

AllLined == \A c \in Clients : Lined(req[c])

LEMMA LinedMoves ==
    ASSUME Inv, AllLined, NEW c \in Clients, NEW r, Lined(r), req' = [req EXCEPT ![c] = r]
    PROVE  AllLined'
<1>1. \A d \in Clients : req'[d] = IF d = c THEN r ELSE req[d]
  BY DEF Inv, Typed
<1>2. ASSUME NEW d \in Clients PROVE Lined(req'[d])
  <2>1. Lined(req[d])
    BY DEF AllLined
  <2>2. req'[d] = r \/ req'[d] = req[d]
    BY <1>1
  <2> QED
    BY <2>1, <2>2
<1>3. ASSUME NEW d \in Clients PROVE Lined(req[d])'
  BY <1>2 DEF Lined, UserRow, Row
<1> QED
  BY <1>3 DEF AllLined

LEMMA LinedBegins ==
    ASSUME NEW r, r.holds = {}, r.shared = {}, r.todo = {}
    PROVE  Lined(r)
BY DEF Lined

LEMMA BeginLined ==
    ASSUME Inv, AllLined, NEW c \in Clients,
           BeginUpdate(c) \/ BeginDelete(c) \/ BeginAsk(c) \/ BeginLogin(c)
    PROVE  AllLined'
<1>1. PICK op, u, roles, password, at : req' = [req EXCEPT ![c] = Request(op, u, roles, password, at)]
  <2>1. \A r : Begin(c, r) => req' = [req EXCEPT ![c] = r]
    BY DEF Begin
  <2>2. BeginUpdate(c) => \E op, u, roles, password, at : Begin(c, Request(op, u, roles, password, at))
    BY Zenon DEF BeginUpdate
  <2>3. BeginDelete(c) => \E op, u, roles, password, at : Begin(c, Request(op, u, roles, password, at))
    BY Zenon DEF BeginDelete
  <2>4. BeginAsk(c) \/ BeginLogin(c) => \E op, u, roles, password, at : Begin(c, Request(op, u, roles, password, at))
    BY Zenon DEF BeginAsk, BeginLogin
  <2>5. \E op, u, roles, password, at : Begin(c, Request(op, u, roles, password, at))
    BY <2>2, <2>3, <2>4, Zenon
  <2> QED
    BY <2>1, <2>5, Zenon
<1>2. PICK r : r = Request(op, u, roles, password, at)
  OBVIOUS
<1>3. r.holds = {} /\ r.shared = {} /\ r.todo = {}
  BY <1>2 DEF Request
<1> QED
  BY <1>1, <1>2, <1>3, LinedBegins, LinedMoves

LEMMA ConfirmLined == ASSUME Inv, AllLined, NEW c \in Clients, BeginConfirm(c) PROVE AllLined'
<1>1. PICK row : req' = [req EXCEPT ![c] = [Request("confirm", row.user, "keep", TRUE, "user") EXCEPT !.holds = {row}]]
  BY DEF BeginConfirm, Begin
<1>2. PICK r : r = [Request("confirm", row.user, "keep", TRUE, "user") EXCEPT !.holds = {row}]
  OBVIOUS
<1>3. r.shared = {} /\ r.at = "user" /\ r.op = "confirm"
  BY <1>2 DEF Request
<1>4. Lined(r)
  BY <1>3 DEF Lined
<1> QED
  BY <1>1, <1>2, <1>4, LinedMoves

LEMMA EndLined == ASSUME Inv, AllLined, NEW c \in Clients, Ends(c) PROVE AllLined'
<1>1. Lined(Idle)
  BY LinedBegins DEF Idle, Request
<1> QED
  BY <1>1, LinedMoves DEF Ends

LEMMA StartLined == ASSUME Inv, AllLined, NEW c \in Clients, Start(c) PROVE AllLined'
<1>1. PICK p : p = req[c]
  OBVIOUS
<1>2. p \in Requests /\ Shape(p) /\ Guarded(p) /\ Lined(p)
  BY <1>1, Facts DEF AllLined
<1>3. p.at \in {"admins", "sweep", "resets", "sessions"} /\ p.todo = {}
  BY <1>1 DEF Start
<1>4. CASE Snapshot(c) = {}
  <2>1. PICK at : at = After(p)
    OBVIOUS
  <2>2. at \in {"user", "sessions", "resets", "insert", "commit"}
    BY <1>2, <1>3, <2>1, AfterGoesOn
  <2>3. PICK r : r = [p EXCEPT !.at = at]
    OBVIOUS
  <2>4. r.at = at /\ r.todo = {} /\ r.shared = p.shared /\ r.holds = p.holds /\ r.op = p.op
    BY <1>2, <1>3, <2>3 DEF Requests
  <2>5. Lined(r)
    BY <1>2, <1>3, <2>2, <2>4 DEF Lined
  <2>6. req' = [req EXCEPT ![c] = r]
    BY <1>1, <1>4, <2>1, <2>3 DEF Start, Goes
  <2> QED
    BY <2>5, <2>6, LinedMoves
<1>5. CASE Snapshot(c) # {}
  <2>1. PICK S : S = Snapshot(c)
    OBVIOUS
  <2>2. p.at = "admins" => \A row \in S : \E u : row = UserRow(u)
    BY <1>1, <2>1 DEF Snapshot, At
  <2>3. p.at \in {"sweep", "resets", "sessions"} => \A row \in S : row.kind # "user"
    <3>1. p.at = "sweep" => \A row \in S : row.kind = Kind(p.op)
      BY <1>1, <2>1 DEF Snapshot, At
    <3>2. p.at = "resets" => \A row \in S : row.kind = "reset"
      BY <1>1, <2>1 DEF Snapshot, At
    <3>3. p.at = "sessions" => \A row \in S : row.kind = "session"
      BY <1>1, <2>1 DEF Snapshot, At
    <3> QED
      BY <3>1, <3>2, <3>3 DEF Kind
  <2>4. PICK r : r = [p EXCEPT !.todo = S]
    OBVIOUS
  <2>5. r.at = p.at /\ r.todo = S /\ r.shared = p.shared /\ r.holds = p.holds /\ r.op = p.op
    BY <1>2, <2>4 DEF Requests
  <2>6. p.at = "admins" => p.holds = {}
    BY <1>2, <1>3 DEF Lined
  <2>7. Lined(r)
    BY <1>2, <2>3, <2>5, <2>6 DEF Lined
  <2>8. req' = [req EXCEPT ![c] = r]
    BY <1>1, <1>5, <2>1, <2>4 DEF Start, Goes
  <2> QED
    BY <2>7, <2>8, LinedMoves
<1> QED
  BY <1>4, <1>5

LEMMA TakeLined == ASSUME Inv, AllLined, NEW c \in Clients, Take(c) PROVE AllLined'
<1>1. PICK p : p = req[c]
  OBVIOUS
<1>2. p \in Requests /\ Shape(p) /\ Guarded(p) /\ Lined(p)
  BY <1>1, Facts DEF AllLined
<1>3. PICK row, found :
        /\ row \in FirstRow(p.todo)
        /\ req' = [req EXCEPT ![c] = [p EXCEPT
                   !.todo  = @ \ {row},
                   !.holds = @ \cup ({row} \cap table),
                   !.found = found,
                   !.at    = IF p.todo = {row} THEN After(p) ELSE @]]
  BY <1>1 DEF Take, Goes
<1>4. row \in p.todo /\ \A next \in p.todo : row.place <= next.place
  BY <1>3 DEF FirstRow
<1>5. p.at \in {"admins", "sweep", "resets", "sessions"}
  BY <1>2, <1>4 DEF Shape
<1>6. PICK at : at = IF p.todo = {row} THEN After(p) ELSE p.at
  OBVIOUS
<1>7. After(p) \in {"user", "sessions", "resets", "insert", "commit"}
  BY <1>2, <1>5, AfterGoesOn
<1>8. PICK todo, holds : todo = p.todo \ {row} /\ holds = p.holds \cup ({row} \cap table)
  OBVIOUS
<1>9. PICK r : r = [p EXCEPT !.todo = todo, !.holds = holds, !.found = found, !.at = at]
  OBVIOUS
<1>10. r.at = at /\ r.todo = todo /\ r.shared = p.shared /\ r.holds = holds /\ r.op = p.op
  BY <1>2, <1>9 DEF Requests
<1>11. req' = [req EXCEPT ![c] = r]
  BY <1>3, <1>6, <1>8, <1>9
<1>12. p.shared = {}
  BY <1>2, <1>5 DEF Lined
<1>13. r.at \in {"sweep", "resets", "sessions"} => \A next \in r.todo : next.kind # "user"
  <2>1. CASE p.todo = {row}
    BY <1>8, <1>10, <2>1
  <2>2. CASE p.todo # {row}
    BY <1>2, <1>6, <1>8, <1>10, <2>2 DEF Lined
  <2> QED
    BY <2>1, <2>2
<1>14. r.op \in {"ask", "login"} => \A held \in r.holds : held.kind # "user"
  <2> SUFFICES ASSUME p.op \in {"ask", "login"} PROVE \A held \in holds : held.kind # "user"
    BY <1>10
  <2>1. p.at \in {"sweep", "resets"}
    BY <1>2, <1>5 DEF Shape
  <2>2. row.kind # "user"
    BY <1>2, <1>4, <2>1 DEF Lined
  <2> QED
    BY <1>2, <1>8, <2>2 DEF Lined
<1>15. ASSUME r.at = "admins"
       PROVE  /\ r.todo # {}
              /\ \A held \in r.holds : held = UserRow(held.user) /\ \A next \in r.todo : held.user < next.user
  <2>1. p.at = "admins" /\ p.todo # {row}
    BY <1>6, <1>7, <1>10, <1>15
  <2>2. \A next \in p.todo : next = UserRow(next.user) /\ next.user \in Nat
    <3>1. \A next \in p.todo : next = UserRow(next.user)
      BY <1>2, <2>1 DEF Shape
    <3>2. \A next \in p.todo : next.user \in Users
      BY <1>2 DEF Requests, Rows
    <3> QED
      BY <3>1, <3>2, AccountsAssumption
  <2>3. \A next \in p.todo : next.place = next.user
    BY <2>2 DEF UserRow, Row
  <2>4. ASSUME NEW next \in todo PROVE row.user < next.user
    <3>1. next \in p.todo /\ next # row
      BY <1>8
    <3>2. next.user # row.user
      BY <1>4, <2>2, <3>1
    <3>3. row.user <= next.user
      BY <1>4, <2>3, <3>1
    <3> QED
      BY <1>4, <2>2, <3>1, <3>2, <3>3
  <2>5. \A held \in p.holds : held = UserRow(held.user) /\ \A next \in p.todo : held.user < next.user
    BY <1>2, <2>1 DEF Lined
  <2>6. todo # {}
    BY <1>4, <1>8, <2>1
  <2> QED
    BY <1>4, <1>8, <1>10, <2>2, <2>4, <2>5, <2>6
<1>16. Lined(r)
  BY <1>10, <1>12, <1>13, <1>14, <1>15 DEF Lined
<1> QED
  BY <1>11, <1>16, LinedMoves

LEMMA LockLined == ASSUME Inv, AllLined, NEW c \in Clients, LockUser(c) \/ Insert(c) PROVE AllLined'
<1>1. PICK p : p = req[c]
  OBVIOUS
<1>2. p \in Requests /\ Shape(p) /\ Guarded(p) /\ Lined(p)
  BY <1>1, Facts DEF AllLined
<1>3. CASE LockUser(c)
  <2>1. p.at = "user" /\ p.todo = {} /\ p.op \in {"update", "delete", "confirm"} /\ p.shared = {}
    <3>1. p.at = "user"
      BY <1>1, <1>3 DEF LockUser, At
    <3>2. p.todo = {} /\ p.shared = {}
      BY <1>2, <3>1 DEF Shape, Lined
    <3>3. p.op \in {"update", "delete", "confirm"}
      BY <1>2, <3>1 DEF Shape, Requests, Idle, Request
    <3> QED
      BY <3>1, <3>2, <3>3
  <2>2. PICK at : at = After(p)
    OBVIOUS
  <2>3. at \in {"sessions", "resets", "commit", "user", "insert"}
    BY <1>2, <2>1, <2>2, AfterGoesOn
  <2>4. PICK holds : holds = p.holds \cup {UserRow(p.user)}
    OBVIOUS
  <2>5. PICK r : r = [p EXCEPT !.holds = holds, !.at = at]
    OBVIOUS
  <2>6. r.at = at /\ r.todo = {} /\ r.shared = {} /\ r.op = p.op
    BY <1>2, <2>1, <2>5 DEF Requests
  <2>7. Lined(r)
    BY <2>1, <2>3, <2>6 DEF Lined
  <2>8. req' = [req EXCEPT ![c] = r]
    BY <1>1, <1>3, <2>2, <2>4, <2>5 DEF LockUser, Goes
  <2> QED
    BY <2>7, <2>8, LinedMoves
<1>4. CASE Insert(c)
  <2>1. p.at = "insert" /\ p.todo = {} /\ p.op \in {"ask", "login"}
    <3>1. p.at = "insert"
      BY <1>1, <1>4 DEF Insert, At
    <3>2. p.todo = {}
      BY <1>2, <3>1 DEF Shape
    <3>3. p.op \in {"ask", "login"}
      BY <1>2, <3>1 DEF Shape, Requests, Idle, Request
    <3> QED
      BY <3>1, <3>2, <3>3
  <2>2. PICK shared, added :
          req' = [req EXCEPT ![c] = [p EXCEPT !.shared = shared, !.added = added, !.at = After(p)]]
    BY <1>1, <1>4 DEF Insert, Goes
  <2>3. After(p) = "commit"
    BY <2>1 DEF After
  <2>4. PICK r : r = [p EXCEPT !.shared = shared, !.added = added, !.at = After(p)]
    OBVIOUS
  <2>5. r.at = "commit" /\ r.todo = {} /\ r.op = p.op /\ r.holds = p.holds
    BY <1>2, <2>1, <2>3, <2>4 DEF Requests
  <2>6. Lined(r)
    BY <1>2, <2>5 DEF Lined
  <2> QED
    BY <2>2, <2>4, <2>6, LinedMoves
<1> QED
  BY <1>3, <1>4

LEMMA LinedNext == Inv /\ AllLined /\ [Next]_vars => AllLined'
<1> SUFFICES ASSUME Inv, AllLined, [Next]_vars PROVE AllLined'
  OBVIOUS
<1>1. UNCHANGED req => AllLined'
  BY DEF AllLined, Lined, UserRow, Row
<1>2. UNCHANGED vars => UNCHANGED req
  BY DEF vars
<1>3. (\E u \in Users : CreateUser(u)) \/ Logout \/ Expire => UNCHANGED req
  BY DEF CreateUser, Logout, Expire
<1>4. ASSUME NEW c \in Clients, Commit(c) \/ Raise(c) \/ Abort(c) PROVE AllLined'
  BY <1>4, EndLined DEF Commit, Raise, Abort
<1>5. ASSUME NEW c \in Clients,
             \/ BeginUpdate(c) \/ BeginDelete(c) \/ BeginAsk(c) \/ BeginLogin(c) \/ BeginConfirm(c)
             \/ Start(c) \/ Take(c) \/ LockUser(c) \/ Insert(c)
      PROVE AllLined'
  BY <1>5, BeginLined, ConfirmLined, StartLined, TakeLined, LockLined
<1> QED
  BY <1>1, <1>2, <1>3, <1>4, <1>5 DEF Next, Statement

(* A circle without the reasons given, but for its last step. *)
Unexplained(S) ==
    /\ S \in SUBSET Clients /\ Circle(S)
    /\ \A c \in S :
        /\ \A row \in req[c].holds : row.kind = "user"
        /\ req[c].at = "user" => req[c].user \notin admins \ req[c].found
        /\ req[c].at \in {"admins", "user"} => \A row \in req[c].holds : row.user \in req[c].found

(* Nobody in it has shared a row, and each waits for a user who is locked. *)
LEMMA WaitsForUser ==
    ASSUME Inv, AllLined, NEW S, Unexplained(S), NEW c \in S, NEW d \in S, WaitsFor(c, d)
    PROVE  \/ /\ req[c].at = "admins"
              /\ \E row \in FirstRow(req[c].todo) : row = UserRow(row.user) /\ row \in req[d].holds
           \/ req[c].at = "user" /\ UserRow(req[c].user) \in req[d].holds
           \/ req[c].at = "insert" /\ UserRow(req[c].user) \in req[d].holds
<1>1. \A e \in S : req[e] \in Requests /\ Shape(req[e]) /\ Lined(req[e])
  <2> SUFFICES ASSUME NEW e \in S PROVE req[e] \in Requests /\ Shape(req[e]) /\ Lined(req[e])
    OBVIOUS
  <2>1. e \in Clients
    BY DEF Unexplained
  <2> QED
    BY <2>1, Facts DEF AllLined
<1>2. req[d].shared = {}
  <2>1. PICK e \in S : WaitsFor(d, e)
    BY DEF Unexplained, Circle
  <2>2. req[d].at # "commit"
    <3>1. req[d].todo # {} \/ req[d].at \in {"user", "insert"}
      BY <2>1 DEF WaitsFor, At, FirstRow
    <3> QED
      BY <1>1, <3>1 DEF Shape
  <2> QED
    BY <1>1, <2>2 DEF Lined
<1>3. ASSUME NEW row \in FirstRow(req[c].todo) \cap table, row \in req[d].holds
      PROVE  req[c].at = "admins" /\ row = UserRow(row.user)
  <2>1. row \in req[c].todo
    BY DEF FirstRow
  <2>2. row.kind = "user"
    BY <1>3 DEF Unexplained
  <2>3. req[c].at = "admins"
    BY <1>1, <2>1, <2>2 DEF Shape, Lined
  <2> QED
    BY <1>1, <2>1, <2>3 DEF Shape
<1>4. CASE \E row \in FirstRow(req[c].todo) \cap table : row \in req[d].holds
  BY <1>3, <1>4
<1>5. CASE At(c, "user") /\ UserRow(req[c].user) \in req[d].holds
  BY <1>5 DEF At
<1>6. CASE At(c, "insert") /\ UserRow(req[c].user) \in req[d].holds
  BY <1>6 DEF At
<1> QED
  BY <1>2, <1>4, <1>5, <1>6 DEF WaitsFor

(* Who holds a row in it has locked administrators, and not yet its user. *)
LEMMA HoldsAdmins ==
    ASSUME Inv, AllLined, NEW S, Unexplained(S), NEW d \in S, NEW row \in req[d].holds
    PROVE  req[d].at \in {"admins", "user"} /\ row.user \in admins /\ row.user \in req[d].found
<1>1. d \in Clients
  BY DEF Unexplained
<1>2. req[d] \in Requests /\ Shape(req[d]) /\ Lined(req[d]) /\ Guarded(req[d])
  BY <1>1, Facts DEF AllLined
<1>3. row.kind = "user"
  BY DEF Unexplained
<1>4. PICK e \in S : WaitsFor(d, e)
  BY DEF Unexplained, Circle
<1>5. req[d].at \in {"admins", "user", "insert"}
  BY <1>4, WaitsForUser
<1>6. req[d].at # "insert"
  <2> SUFFICES ASSUME req[d].at = "insert" PROVE FALSE
    OBVIOUS
  <2>1. req[d].op \in {"ask", "login"}
    BY <1>2 DEF Shape, Requests, Idle, Request
  <2> QED
    BY <1>2, <1>3, <2>1 DEF Lined
<1>7. row.user \in req[d].found
  BY <1>5, <1>6 DEF Unexplained
<1> QED
  BY <1>2, <1>5, <1>6, <1>7 DEF Guarded

LEMMA NobodyAtUser ==
    ASSUME Inv, AllLined, NEW S, Unexplained(S), NEW c \in S
    PROVE  req[c].at # "user"
<1> SUFFICES ASSUME req[c].at = "user" PROVE FALSE
  OBVIOUS
<1>1. PICK d \in S : WaitsFor(c, d)
  BY DEF Unexplained, Circle
<1>2. c \in Clients /\ d \in Clients /\ c # d
  BY <1>1 DEF Unexplained, WaitsFor
<1>3. UserRow(req[c].user) \in req[d].holds
  BY <1>1, WaitsForUser
<1>4. UserRow(req[c].user).user = req[c].user
  BY DEF UserRow, Row
<1>5. req[c].user \in admins
  BY <1>3, <1>4, HoldsAdmins
<1>6. req[c].user \in req[c].found
  BY <1>5 DEF Unexplained
<1>7. Guarded(req[c]) /\ Clear(req[c], req[d])
  BY <1>2, Facts
<1>8. UserRow(req[c].user) \in req[c].holds
  BY <1>6, <1>7 DEF Guarded
<1> QED
  BY <1>3, <1>7, <1>8 DEF Clear

LEMMA NoneUnexplained == ASSUME Inv, AllLined, NEW S, Unexplained(S) PROVE FALSE
<1>1. S \in SUBSET Clients
  BY DEF Unexplained
<1>2. PICK C : C = {c \in S : req[c].at = "admins"}
  OBVIOUS
<1>3. ASSUME NEW c \in S, NEW d \in S, WaitsFor(c, d) PROVE d \in C
  <2>1. \E row : row \in req[d].holds
    BY <1>3, WaitsForUser
  <2>2. req[d].at \in {"admins", "user"}
    BY <2>1, HoldsAdmins
  <2> QED
    BY <1>2, <2>2, NobodyAtUser
<1>4. ASSUME NEW c \in C
      PROVE  \E d \in C, row \in FirstRow(req[c].todo) : row = UserRow(row.user) /\ row \in req[d].holds
  <2>1. c \in S /\ req[c].at = "admins"
    BY <1>2
  <2>2. PICK d \in S : WaitsFor(c, d)
    BY <2>1 DEF Unexplained, Circle
  <2>3. d \in C
    BY <1>3, <2>1, <2>2
  <2>4. \E row \in FirstRow(req[c].todo) : row = UserRow(row.user) /\ row \in req[d].holds
    BY <2>1, <2>2, WaitsForUser
  <2> QED
    BY <2>3, <2>4
<1>5. \A c \in C : /\ c \in Clients /\ req[c].at = "admins" /\ Lined(req[c]) /\ Shape(req[c])
                   /\ \A row \in req[c].todo : row.user \in Nat /\ row.place \in Nat /\ row = UserRow(row.user)
  <2> SUFFICES ASSUME NEW c \in C
               PROVE  /\ c \in Clients /\ req[c].at = "admins" /\ Lined(req[c]) /\ Shape(req[c])
                      /\ \A row \in req[c].todo : row.user \in Nat /\ row.place \in Nat /\ row = UserRow(row.user)
    OBVIOUS
  <2>1. c \in Clients /\ req[c].at = "admins"
    BY <1>1, <1>2
  <2>2. req[c] \in Requests /\ Shape(req[c]) /\ Lined(req[c])
    BY <2>1, Facts DEF AllLined
  <2>3. \A row \in req[c].todo : row \in Rows
    BY <2>2 DEF Requests
  <2> QED
    BY <2>1, <2>2, <2>3, AccountsAssumption DEF Rows, Shape
<1>6. PICK p : p = [c \in Clients |->
                      IF c \in C THEN CHOOSE n \in Nat : \E row \in FirstRow(req[c].todo) : row.place = n ELSE 0]
  OBVIOUS
<1>7. ASSUME NEW c \in C PROVE p[c] \in Nat /\ \E row \in FirstRow(req[c].todo) : row.place = p[c]
  <2>1. PICK row \in FirstRow(req[c].todo) : TRUE
    BY <1>4
  <2>2. row.place \in Nat
    BY <1>5, <2>1 DEF FirstRow
  <2>3. \E n \in Nat : \E r \in FirstRow(req[c].todo) : r.place = n
    BY <2>1, <2>2
  <2> QED
    BY <1>5, <1>6, <2>3
<1>8. p \in [Clients -> Nat]
  BY <1>6, <1>7
<1>9. ASSUME NEW c \in C PROVE \E d \in C : p[c] < p[d]
  <2>1. PICK d \in C, row \in FirstRow(req[c].todo) : row = UserRow(row.user) /\ row \in req[d].holds
    BY <1>4
  <2>2. PICK first \in FirstRow(req[c].todo) : first.place = p[c]
    BY <1>7
  <2>3. PICK next \in FirstRow(req[d].todo) : next.place = p[d]
    BY <1>7
  <2>4. first \in req[c].todo /\ row \in req[c].todo /\ next \in req[d].todo
    BY <2>1, <2>2, <2>3 DEF FirstRow
  <2>5. first.place = row.place
    BY <1>5, <2>4, <2>1, <2>2 DEF FirstRow
  <2>6. row.user < next.user
    BY <1>5, <2>1, <2>4 DEF Lined
  <2>7. row.place = row.user /\ next.place = next.user
    BY <1>5, <2>4 DEF UserRow, Row
  <2> QED
    BY <2>2, <2>3, <2>5, <2>6, <2>7
<1>10. C = {}
  <2>1. C \in SUBSET Clients
    BY <1>1, <1>2
  <2> QED
    BY <1>8, <1>9, <2>1, NoClimb, AccountsAssumption
<1>11. PICK c \in S : TRUE
  BY DEF Unexplained, Circle
<1>12. PICK d \in S : WaitsFor(c, d)
  BY DEF Unexplained, Circle
<1> QED
  BY <1>3, <1>10, <1>12

(* Requests wait for one another in a circle only for the reasons that     *)
(* CirclesExplained gives: with those out of the way, locking the          *)
(* administrators in id order keeps them apart (_lock_admins,              *)
(* auth.py:190).                                                           *)
THEOREM CirclesAreExplained == Spec => []CirclesExplained
<1>1. Init => AllLined
  <2>1. Lined(Idle)
    BY LinedBegins DEF Idle, Request
  <2> QED
    BY <2>1 DEF Init, AllLined
<1>2. Inv /\ AllLined => CirclesExplained
  <2> SUFFICES ASSUME Inv, AllLined, NEW S \in SUBSET Clients, Circle(S),
                      ~ \E c \in S :
                            \/ \E row \in req[c].holds : row.kind # "user"
                            \/ At(c, "user") /\ req[c].user \in admins \ req[c].found
                            \/ req[c].at \in {"admins", "user"} /\ \E row \in req[c].holds : row.user \notin req[c].found
               PROVE  FALSE
    BY DEF CirclesExplained
  <2>1. Unexplained(S)
    BY DEF Unexplained, At
  <2> QED
    BY <2>1, NoneUnexplained
<1> QED
  BY <1>1, <1>2, InvInit, InvNext, LinedNext, PTL DEF Spec
=============================================================================
