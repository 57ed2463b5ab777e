---------------------------- MODULE UserAccounts ----------------------------
(***************************************************************************)
(* backend/internal/service/user_service.go: Register, Login,              *)
(* UpdateProfile, ChangePassword and ChangeRole, one action per SQL        *)
(* statement, behind middleware/auth.go and rbac.go, for a set of          *)
(* concurrent requests, with tokens that expire.                           *)
(*                                                                         *)
(* A login reads its row, compares the password hashes, which takes long   *)
(* on purpose, and only then signs a token: the clock of the token is not  *)
(* that of the role it states.                                             *)
(*                                                                         *)
(* Every statement is committed at once.  An account is identified by the  *)
(* request that registers it, or by a member of Seeded.  A password stands *)
(* for its hash.  Nicknames and avatars are left out, and so is status,    *)
(* which nothing ever sets to disabled.                                    *)
(***************************************************************************)
EXTENDS Integers

CONSTANTS
    Names, Emails, Passwords,
    Requests,   \* HTTP requests, each handled by a goroutine
    Seeded,     \* accounts made before the first request, admin among them
    SeedRow,    \* the row of each
    TTL,        \* JWT_EXPIRE_HOURS
    MaxTime,    \* bound: the clock stops there
    None        \* no row, no value, no e-mail address

Ids   == Requests \cup Seeded
Roles == {"user", "admin"}
Row   == [name : Names, hash : Passwords, email : Emails \cup {None}, role : Roles]

\* What a token says; iat and exp are the moment of its signing and TTL after
\* it.  History, read by no action: the moment its role was read.
Token == [id : Ids, role : Roles, read : Nat, iat : Nat, exp : Nat]

\* What a login has read when it goes on to sign.
Claim == [id : Ids, role : Roles, read : Nat]

ASSUME TimeAssumption == TTL \in Nat \ {0} /\ MaxTime \in Nat

ASSUME NoneAssumption == None \notin Emails \cup Row \cup Claim

ASSUME SeedAssumption ==
    /\ Requests \cap Seeded = {}
    /\ SeedRow \in [Seeded -> Row]
    /\ \A i, j \in Seeded : i # j =>
          /\ SeedRow[i].name # SeedRow[j].name
          /\ SeedRow[i].email = SeedRow[j].email => SeedRow[i].email = None

\* The requests' bodies, with the token they carry.
RegisterReq == [op : {"register"}, name : Names, email : Emails \cup {None},
                pw : Passwords]
LoginReq    == [op : {"login"}, name : Names, pw : Passwords]
ProfileReq(ts)  == [op : {"profile"}, token : ts, email : Emails \cup {None}]
PasswordReq(ts) == [op : {"password"}, token : ts, old : Passwords, pw : Passwords]
RoleReq(ts)     == [op : {"role"}, token : ts, target : Ids, role : Roles]

Signed(ts) == ProfileReq(ts) \cup PasswordReq(ts) \cup RoleReq(ts)
Open       == RegisterReq \cup LoginReq

VARIABLES
    users,      \* the row of an account, or None
    tokens,     \* the tokens handed out
    now,        \* the clock, in the unit of TTL
    pc,         \* the statement a request runs next
    tx,         \* its input, the row it has read, and what a token will say
    reply,      \* its response
    lastAdmin   \* history: when an account last had the role admin, -1 if never

vars == << users, tokens, now, pc, tx, reply, lastAdmin >>

Caller(r)   == tx[r].in.token.id
InFlight(r) == pc[r] \notin {"idle", "done"}
IsAdmin(row) == row # None /\ row.role = "admin"
-----------------------------------------------------------------------------
\* The seeded accounts, EnsureBootstrapUser's among them, have just logged in.
Init == /\ users = [i \in Ids |-> IF i \in Seeded THEN SeedRow[i] ELSE None]
        /\ tokens = {[id |-> i, role |-> SeedRow[i].role, read |-> 0, iat |-> 0,
                      exp |-> TTL] : i \in Seeded}
        /\ now = 0
        /\ pc = [r \in Requests |-> "idle"]
        /\ tx = [r \in Requests |-> [in |-> None, seen |-> None, claim |-> None]]
        /\ reply = [r \in Requests |-> "none"]
        /\ lastAdmin = [i \in Ids |-> IF i \in Seeded /\ SeedRow[i].role = "admin"
                                      THEN 0 ELSE -1]

Proceed(r, label) == pc' = [pc EXCEPT ![r] = label] /\ UNCHANGED << tx, reply >>

Answer(r, code) == /\ pc' = [pc EXCEPT ![r] = "done"]
                   /\ reply' = [reply EXCEPT ![r] = code]
                   /\ UNCHANGED tx

\* A request arrives, with any token handed out before or with none.
Receive(r) ==
    /\ pc[r] = "idle"
    /\ \E in \in Open \cup Signed(tokens) :
          /\ tx' = [tx EXCEPT ![r].in = in]
          /\ pc' = [pc EXCEPT ![r] = CASE in.op = "register" -> "countName"
                                       [] in.op = "login"    -> "login"
                                       [] OTHER              -> "auth"]
    /\ UNCHANGED << users, tokens, reply >>

Admitted(r) == Proceed(r, IF tx[r].in.op = "role" THEN "setRole" ELSE "findUser")

\* jwt.Parse refuses a token that has expired; RequireRoles stands before the
\* administrators' routes.  Both look at the token only.
Expired(r) == tx[r].in.token.exp <= now
Allowed(r) == tx[r].in.op = "role" => tx[r].in.token.role = "admin"

\* Mutant: RequireRoles is missing on the route.
Auth_NoRoles(r) ==
    /\ pc[r] = "auth"
    /\ \/ Expired(r) /\ Answer(r, "unauthorized")
       \/ ~Expired(r) /\ Admitted(r)
    /\ UNCHANGED << users, tokens >>

\* Auth, then RequireRoles.
Auth(r) ==
    /\ pc[r] = "auth"
    /\ \/ Expired(r) /\ Answer(r, "unauthorized")
       \/ ~Expired(r) /\ ~Allowed(r) /\ Answer(r, "forbidden")
       \/ ~Expired(r) /\ Allowed(r) /\ Admitted(r)
    /\ UNCHANGED << users, tokens >>

\* The rows with a name, of which there is at most one, or an e-mail address.
Named(name)      == {i \in Ids : users[i] # None /\ users[i].name = name}
WithEmail(email) == {i \in Ids : users[i] # None /\ users[i].email = email}

\* Register: CountByUsername.
CountName(r) ==
    /\ pc[r] = "countName"
    /\ LET taken == Named(tx[r].in.name) # {}
       IN  \/ taken /\ Answer(r, "nameExists")
           \/ ~taken /\ Proceed(r, IF tx[r].in.email = None THEN "insert" ELSE "countEmail")
    /\ UNCHANGED << users, tokens >>

\* Register and UpdateProfile: CountByEmail.
CountEmail(r) ==
    /\ pc[r] = "countEmail"
    /\ LET taken == WithEmail(tx[r].in.email) # {}
       IN  \/ taken /\ Answer(r, "emailExists")
           \/ ~taken /\ Proceed(r, IF tx[r].in.op = "register" THEN "insert" ELSE "save")
    /\ UNCHANGED << users, tokens >>

\* The unique indexes on username and on email, which ignores NULL.
FreeName(i, name)   == \A j \in Ids \ {i} : users[j] # None => users[j].name # name
FreeEmail(i, email) == \A j \in Ids \ {i} :
                          users[j] # None /\ email # None => users[j].email # email

NewRow(r) == [name |-> tx[r].in.name, hash |-> tx[r].in.pw,
              email |-> tx[r].in.email, role |-> "user"]

\* Mutant: there are no unique indexes, only the counts before.
InsertUser_NoIndex(r) ==
    /\ pc[r] = "insert"
    /\ users' = [users EXCEPT ![r] = NewRow(r)]
    /\ Answer(r, "ok")
    /\ UNCHANGED tokens

\* Register: Create; a clash found by an index only is an internal error.
InsertUser(r) ==
    /\ pc[r] = "insert"
    /\ LET free == FreeName(r, tx[r].in.name) /\ FreeEmail(r, tx[r].in.email)
       IN  \/ free /\ users' = [users EXCEPT ![r] = NewRow(r)] /\ Answer(r, "ok")
           \/ ~free /\ Answer(r, "error") /\ UNCHANGED users
    /\ UNCHANGED tokens

\* Login: FindByUsername, the only statement, and CheckPassword on what it read.
FindLogin(r) ==
    /\ pc[r] = "login"
    /\ LET found == {i \in Named(tx[r].in.name) : users[i].hash = tx[r].in.pw}
       IN  \/ \E i \in found :
                 /\ tx' = [tx EXCEPT ![r].claim =
                              [id |-> i, role |-> users[i].role, read |-> now]]
                 /\ pc' = [pc EXCEPT ![r] = "sign"]
                 /\ UNCHANGED reply
           \/ found = {} /\ Answer(r, "wrongPassword")
    /\ UNCHANGED << users, tokens >>

\* Mutant: the token lives a unit of time longer.
SignToken_Longer(r) ==
    /\ pc[r] = "sign"
    /\ LET c == tx[r].claim
       IN  tokens' = tokens \cup {[id |-> c.id, role |-> c.role, read |-> c.read,
                                   iat |-> now, exp |-> now + TTL + 1]}
    /\ Answer(r, "ok")
    /\ UNCHANGED users

\* Login: jwt.Generate, from the row as it was read and the clock as it is now.
SignToken(r) ==
    /\ pc[r] = "sign"
    /\ LET c == tx[r].claim
       IN  tokens' = tokens \cup {[id |-> c.id, role |-> c.role, read |-> c.read,
                                   iat |-> now, exp |-> now + TTL]}
    /\ Answer(r, "ok")
    /\ UNCHANGED users

\* Where UpdateProfile and ChangePassword go with the row they have read.
AfterFind(r, row) ==
    LET in == tx[r].in
    IN  IF in.op = "password" THEN "setPassword"
        ELSE IF in.email \in {None, row.email} THEN "save" ELSE "countEmail"

\* Mutant: ChangePassword does not check the old password.
FindUser_NoCheck(r) ==
    /\ pc[r] = "findUser"
    /\ LET row == users[Caller(r)]
       IN  /\ tx' = [tx EXCEPT ![r].seen = row]
           /\ pc' = [pc EXCEPT ![r] = AfterFind(r, row)]
           /\ UNCHANGED reply
    /\ UNCHANGED << users, tokens >>

\* FindByID; ChangePassword then checks the old password against what it read.
FindUser(r) ==
    /\ pc[r] = "findUser"
    /\ LET row == users[Caller(r)]
           wrong == tx[r].in.op = "password" /\ row.hash # tx[r].in.old
       IN  \/ wrong /\ Answer(r, "wrongPassword")
           \/ /\ ~wrong
              /\ tx' = [tx EXCEPT ![r].seen = row]
              /\ pc' = [pc EXCEPT ![r] = AfterFind(r, row)]
              /\ UNCHANGED reply
    /\ UNCHANGED << users, tokens >>

\* UpdateProfile: Save, every column of the row as it was read but the
\* e-mail address (an empty one is stored as NULL).
SaveProfile(r) ==
    /\ pc[r] = "save"
    /\ \/ /\ FreeEmail(Caller(r), tx[r].in.email)
          /\ users' = [users EXCEPT ![Caller(r)] =
                          [tx[r].seen EXCEPT !.email = tx[r].in.email]]
          /\ Answer(r, "ok")
       \/ /\ ~FreeEmail(Caller(r), tx[r].in.email)
          /\ Answer(r, "error")
          /\ UNCHANGED users
    /\ UNCHANGED tokens

\* Mutant: ChangePassword saves the row it has read.
SetPassword_Save(r) ==
    /\ pc[r] = "setPassword"
    /\ users' = [users EXCEPT ![Caller(r)] = [tx[r].seen EXCEPT !.hash = tx[r].in.pw]]
    /\ Answer(r, "ok")
    /\ UNCHANGED tokens

\* ChangePassword: UpdateFields, the hash only.
SetPassword(r) ==
    /\ pc[r] = "setPassword"
    /\ users' = [users EXCEPT ![Caller(r)].hash = tx[r].in.pw]
    /\ Answer(r, "ok")
    /\ UNCHANGED tokens

\* ChangeRole: UpdateFields, the role only; no row of that id is a success too.
SetRole(r) ==
    /\ pc[r] = "setRole"
    /\ LET i == tx[r].in.target
       IN  users' = IF users[i] = None THEN users
                    ELSE [users EXCEPT ![i].role = tx[r].in.role]
    /\ Answer(r, "ok")
    /\ UNCHANGED tokens

\* A statement fails or the server stops; ChangePassword takes a failed read
\* for a success.
Fail(r) == /\ InFlight(r)
           /\ Answer(r, IF pc[r] = "findUser" /\ tx[r].in.op = "password"
                        THEN "ok" ELSE "error")
           /\ UNCHANGED << users, tokens >>

Step(r) == \/ Receive(r) \/ Auth(r) \/ CountName(r) \/ CountEmail(r)
           \/ InsertUser(r) \/ FindLogin(r) \/ SignToken(r) \/ FindUser(r)
           \/ SaveProfile(r) \/ SetPassword(r) \/ SetRole(r) \/ Fail(r)

Tick == /\ now < MaxTime
        /\ now' = now + 1
        /\ UNCHANGED << users, tokens, pc, tx, reply >>

Observe == lastAdmin' = [i \in Ids |-> IF IsAdmin(users'[i]) THEN now' ELSE lastAdmin[i]]

Next == /\ \/ (\E r \in Requests : Step(r)) /\ UNCHANGED now
           \/ Tick
        /\ Observe

Spec == Init /\ [][Next]_vars
-----------------------------------------------------------------------------
\* The type invariant: rows, tokens, labels and inputs are well formed.
TypeOK ==
    /\ users \in [Ids -> Row \cup {None}]
    /\ \A t \in tokens : t \in Token /\ users[t.id] # None
    /\ now \in Nat
    /\ pc \in [Requests -> {"idle", "auth", "countName", "countEmail", "insert",
                            "login", "sign", "findUser", "save", "setPassword", "setRole",
                            "done"}]
    /\ tx \in [Requests -> [in : Open \cup Signed(tokens) \cup {None},
                            seen : Row \cup {None},
                            claim : Claim \cup {None}]]
    /\ reply \in [Requests -> {"none", "ok", "unauthorized", "forbidden", "nameExists",
                               "emailExists", "wrongPassword", "error"}]
    /\ lastAdmin \in [Ids -> Int]

\* No two accounts have one name or one e-mail address, although Register and
\* UpdateProfile count first and write later: the loser of a race fails.
UniqueAccounts ==
    \A i, j \in Ids : i # j /\ users[i] # None /\ users[j] # None =>
        /\ users[i].name # users[j].name
        /\ users[i].email = users[j].email => users[i].email = None

\* The role a request acts with may be stale, by less than the life of its token
\* and the time the login took between reading the role and signing: who is let
\* through to change roles was an administrator that recently.
AdminWithinTTL ==
    [][\A r \in Requests :
          pc[r] = "auth" /\ pc'[r] = "setRole" =>
             LET t == tx[r].in.token
             IN  lastAdmin[t.id] + (t.iat - t.read) + TTL > now]_vars

\* Nobody becomes an administrator who was none before, unless an account that
\* is or has been one says so.
GrantedByAdmin ==
    [][\A i \in Ids :
          lastAdmin[i] < 0 /\ lastAdmin'[i] >= 0 =>
             \E r \in Requests : /\ pc[r] = "setRole" /\ pc'[r] = "done"
                                 /\ tx[r].in.target = i
                                 /\ lastAdmin[Caller(r)] >= 0]_vars

\* A profile request that is about to write an account back as it was before a
\* change of its role or password.
Stale(r, i) == /\ pc[r] = "save" /\ pc'[r] = "done" /\ Caller(r) = i
               /\ \/ tx[r].seen.role # users[i].role
                  \/ tx[r].seen.hash # users[i].hash

\* A role changes by ChangeRole and a password by its owner's ChangePassword:
\* only a profile request that overlaps such a change, by undoing it, is worse.
OnlyByChange ==
    [][\A i \in Ids :
          users[i] # None =>
             /\ users'[i].role # users[i].role =>
                   \E r \in Requests : \/ pc[r] = "setRole" /\ tx[r].in.target = i
                                       \/ Stale(r, i)
             /\ users'[i].hash # users[i].hash =>
                   \E r \in Requests : \/ pc[r] = "setPassword" /\ Caller(r) = i
                                       \/ Stale(r, i)]_vars

\* A password change that is answered with success has compared the old
\* password with the stored one and stores the new one, unless it could not
\* read the account: then it answers the same and stores nothing.
PasswordAnswer ==
    [][\A r \in Requests :
          pc[r] # "done" /\ reply'[r] = "ok" /\ tx[r].in.op = "password" =>
             \/ pc[r] = "findUser" /\ users' = users
             \/ /\ tx[r].seen.hash = tx[r].in.old
                /\ users'[Caller(r)].hash = tx[r].in.pw]_vars
=============================================================================
