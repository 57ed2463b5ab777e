------------------------ MODULE UserAccounts_proofs ------------------------
(***************************************************************************)
(* For any accounts, requests and token life: rows are well formed, names  *)
(* and e-mail addresses stay unique, a role outlives its row by less than  *)
(* the life of a token and the length of a login, and roles and passwords  *)
(* change only by request.                                                 *)
(***************************************************************************)
EXTENDS UserAccounts, TLAPS

\* What a request holds at each of its statements; a row read by a profile
\* request still has the name of the account, and a role its account has had,
\* and one read by a password request has passed the check.  Who is about to be
\* given a token was what it will say when it was read.
Held(r) ==
    LET in == tx[r].in  seen == tx[r].seen  claim == tx[r].claim
    IN  /\ pc[r] # "idle" => in \in Open \cup Signed(tokens)
        /\ pc[r] # "done" => users[r] = None /\ reply[r] = "none"
        /\ pc[r] \in {"countName", "insert"} => in \in RegisterReq
        /\ pc[r] = "login" => in \in LoginReq
        /\ pc[r] = "auth" => in \in Signed(tokens)
        /\ pc[r] = "findUser" => in \in ProfileReq(tokens) \cup PasswordReq(tokens)
        /\ pc[r] = "setPassword" => in \in PasswordReq(tokens) /\ seen.hash = in.old
        /\ pc[r] = "setRole" => in \in RoleReq(tokens) /\ in.token.role = "admin"
        /\ pc[r] = "countEmail" => in \in RegisterReq \cup ProfileReq(tokens)
        /\ pc[r] = "save" => in \in ProfileReq(tokens)
        /\ pc[r] \in {"countEmail", "save"} /\ in \in ProfileReq(tokens) =>
              /\ seen \in Row
              /\ seen.name = users[in.token.id].name
              /\ seen.role = "admin" => lastAdmin[in.token.id] >= 0
        /\ pc[r] = "sign" =>
              /\ in \in LoginReq /\ claim \in Claim
              /\ users[claim.id] # None /\ claim.read <= now
              /\ claim.role = "admin" => lastAdmin[claim.id] >= claim.read

\* The history of the roles, and what the tokens say against it.
Remembered ==
    \A i \in Ids : /\ lastAdmin[i] <= now
                   /\ IsAdmin(users[i]) => lastAdmin[i] = now

Vouches(t) == /\ t.exp = t.iat + TTL
              /\ t.role = "admin" => lastAdmin[t.id] >= t.read

Vouched == \A t \in tokens : Vouches(t)

IInv == TypeOK /\ UniqueAccounts /\ (\A r \in Requests : Held(r)) /\ Remembered /\ Vouched

\* Rows stay and keep their names.
Kept == \A i \in Ids : users[i] # None => users'[i] # None /\ users'[i].name = users[i].name

RowsOK == users' \in [Ids -> Row \cup {None}] /\ Kept /\ UniqueAccounts'
-----------------------------------------------------------------------------
LEMMA TokenFields ==
    ASSUME NEW ts, NEW in,
           in \in ProfileReq(ts) \cup PasswordReq(ts) \cup RoleReq(ts)
    PROVE  /\ in.token \in ts
           /\ in \in Signed(ts)
           /\ in.op \in {"profile", "password", "role"}
           /\ in.op = "profile" <=> in \in ProfileReq(ts)
           /\ in.op = "password" <=> in \in PasswordReq(ts)
           /\ in.op = "role" <=> in \in RoleReq(ts)
BY DEF ProfileReq, PasswordReq, RoleReq, Signed

LEMMA OpenFields ==
    ASSUME NEW in, in \in Open
    PROVE  /\ in.op \in {"register", "login"}
           /\ in.op = "register" <=> in \in RegisterReq
           /\ in.op = "login" <=> in \in LoginReq
BY DEF Open, RegisterReq, LoginReq

\* Inputs stay inputs when more tokens are handed out.
LEMMA MoreTokens ==
    ASSUME NEW ts, NEW us, ts \subseteq us
    PROVE  /\ ProfileReq(ts) \subseteq ProfileReq(us)
           /\ PasswordReq(ts) \subseteq PasswordReq(us)
           /\ RoleReq(ts) \subseteq RoleReq(us)
           /\ Signed(ts) \subseteq Signed(us)
BY DEF ProfileReq, PasswordReq, RoleReq, Signed

LEMMA SameRows == ASSUME IInv, UNCHANGED users PROVE RowsOK
BY DEF IInv, TypeOK, RowsOK, Kept, UniqueAccounts

\* Registration: the two indexes are what uniqueness needs.
LEMMA InsertRows == ASSUME IInv, NEW r \in Requests, InsertUser(r) PROVE RowsOK
<1>1. CASE UNCHANGED users BY <1>1, SameRows
<1>2. CASE /\ FreeName(r, tx[r].in.name) /\ FreeEmail(r, tx[r].in.email)
           /\ users' = [users EXCEPT ![r] = NewRow(r)]
  <2>1. tx[r].in \in RegisterReq /\ users[r] = None BY DEF InsertUser, IInv, Held
  <2>2. NewRow(r) \in Row /\ NewRow(r).name = tx[r].in.name /\ NewRow(r).email = tx[r].in.email
    BY <2>1 DEF RegisterReq, NewRow, Row, Roles
  <2>3. r \in Ids /\ users \in [Ids -> Row \cup {None}] BY DEF Ids, IInv, TypeOK
  <2>4. users' \in [Ids -> Row \cup {None}] BY <1>2, <2>2, <2>3
  <2>5. Kept BY <1>2, <2>1, <2>3 DEF Kept
  <2>6. UniqueAccounts'
    BY <1>2, <2>2, <2>3, NoneAssumption DEF UniqueAccounts, FreeName, FreeEmail, IInv
  <2> QED BY <2>4, <2>5, <2>6 DEF RowsOK
<1> QED BY <1>1, <1>2 DEF InsertUser

\* A profile save: the name is the account's own, the e-mail address is free.
LEMMA SaveRows == ASSUME IInv, NEW r \in Requests, SaveProfile(r) PROVE RowsOK
<1>1. CASE UNCHANGED users BY <1>1, SameRows
<1>2. CASE /\ FreeEmail(Caller(r), tx[r].in.email)
           /\ users' = [users EXCEPT ![Caller(r)] =
                          [tx[r].seen EXCEPT !.email = tx[r].in.email]]
  <2> DEFINE i == Caller(r)
             row == [tx[r].seen EXCEPT !.email = tx[r].in.email]
  <2>1. /\ tx[r].in \in ProfileReq(tokens)
        /\ tx[r].seen \in Row /\ tx[r].seen.name = users[i].name
    BY DEF SaveProfile, IInv, Held, Caller
  <2>2. i \in Ids /\ users[i] # None /\ users \in [Ids -> Row \cup {None}]
    BY <2>1, TokenFields DEF Caller, IInv, TypeOK, Token
  <2>3. tx[r].in.email \in Emails \cup {None} BY <2>1 DEF ProfileReq
  <2>4. row \in Row /\ row.name = users[i].name /\ row.email = tx[r].in.email
    BY <2>1, <2>3 DEF Row
  <2>5. users' = [users EXCEPT ![i] = row] BY <1>2
  <2> HIDE DEF i, row
  <2>6. users' \in [Ids -> Row \cup {None}] BY <2>2, <2>4, <2>5
  <2>7. Kept BY <2>2, <2>4, <2>5, NoneAssumption DEF Kept
  <2>8. FreeEmail(i, tx[r].in.email) BY <1>2 DEF i
  <2>9. UniqueAccounts'
    BY <2>2, <2>4, <2>5, <2>8, NoneAssumption DEF UniqueAccounts, FreeEmail, IInv
  <2> QED BY <2>6, <2>7, <2>9 DEF RowsOK
<1> QED BY <1>1, <1>2 DEF SaveProfile

LEMMA PasswordRows == ASSUME IInv, NEW r \in Requests, SetPassword(r) PROVE RowsOK
<1> DEFINE i == Caller(r)
<1>1. tx[r].in \in PasswordReq(tokens) BY DEF SetPassword, IInv, Held
<1>2. i \in Ids /\ users[i] \in Row /\ users \in [Ids -> Row \cup {None}]
  BY <1>1, TokenFields DEF Caller, IInv, TypeOK, Token
<1>3. tx[r].in.pw \in Passwords BY <1>1 DEF PasswordReq
<1>4. users' = [users EXCEPT ![i] = [users[i] EXCEPT !.hash = tx[r].in.pw]]
  BY <1>2 DEF SetPassword
<1> HIDE DEF i
<1>5. [users[i] EXCEPT !.hash = tx[r].in.pw] \in Row BY <1>2, <1>3 DEF Row
<1>6. users' \in [Ids -> Row \cup {None}] BY <1>2, <1>4, <1>5
<1>7. /\ users'[i].name = users[i].name /\ users'[i].email = users[i].email
      /\ users'[i] # None
      /\ \A j \in Ids \ {i} : users'[j] = users[j]
  BY <1>2, <1>4, <1>5, NoneAssumption DEF Row
<1>8. Kept BY <1>7 DEF Kept
<1>9. UniqueAccounts' BY <1>2, <1>7, NoneAssumption DEF UniqueAccounts, IInv
<1> QED BY <1>6, <1>8, <1>9 DEF RowsOK

LEMMA RoleRows == ASSUME IInv, NEW r \in Requests, SetRole(r) PROVE RowsOK
<1>1. CASE UNCHANGED users BY <1>1, SameRows
<1>2. CASE users[tx[r].in.target] # None
  <2> DEFINE i == tx[r].in.target
  <2>1. tx[r].in \in RoleReq(tokens) BY DEF SetRole, IInv, Held
  <2>2. i \in Ids /\ tx[r].in.role \in Roles BY <2>1 DEF RoleReq
  <2>3. users \in [Ids -> Row \cup {None}] /\ users[i] \in Row
    BY <1>2, <2>2 DEF IInv, TypeOK
  <2>4. users' = [users EXCEPT ![i] = [users[i] EXCEPT !.role = tx[r].in.role]]
    BY <1>2, <2>3 DEF SetRole
  <2> HIDE DEF i
  <2>5. [users[i] EXCEPT !.role = tx[r].in.role] \in Row BY <2>2, <2>3 DEF Row
  <2>6. users' \in [Ids -> Row \cup {None}] BY <2>2, <2>3, <2>4, <2>5
  <2>7. /\ users'[i].name = users[i].name /\ users'[i].email = users[i].email
        /\ users'[i] # None
        /\ \A j \in Ids \ {i} : users'[j] = users[j]
    BY <2>2, <2>3, <2>4, <2>5, NoneAssumption DEF Row
  <2>8. Kept BY <2>7 DEF Kept
  <2>9. UniqueAccounts' BY <2>2, <2>3, <2>7, NoneAssumption DEF UniqueAccounts, IInv
  <2> QED BY <2>6, <2>8, <2>9 DEF RowsOK
<1> QED BY <1>1, <1>2 DEF SetRole

LEMMA StepRows == ASSUME IInv, NEW r \in Requests, Step(r) PROVE RowsOK
BY InsertRows, SaveRows, PasswordRows, RoleRows, SameRows
   DEF Step, Receive, Auth, CountName, CountEmail, FindLogin, SignToken,
       FindUser, Fail
-----------------------------------------------------------------------------
\* The history only grows, and is right again after every step.
LEMMA History ==
    ASSUME IInv, RowsOK, Observe, now' \in Nat, now <= now'
    PROVE  /\ lastAdmin' \in [Ids -> Int]
           /\ \A i \in Ids : lastAdmin[i] <= lastAdmin'[i]
           /\ Remembered'
<1>1. now \in Nat /\ lastAdmin \in [Ids -> Int] BY DEF IInv, TypeOK
<1>2. \A i \in Ids : lastAdmin[i] <= now BY DEF IInv, Remembered
<1>3. \A i \in Ids : lastAdmin'[i] = IF IsAdmin(users'[i]) THEN now' ELSE lastAdmin[i]
  BY DEF Observe
<1>4. lastAdmin' \in [Ids -> Int] BY <1>1, <1>3 DEF Observe
<1>5. \A i \in Ids : lastAdmin[i] \in Int BY <1>1
<1>6. \A i \in Ids : lastAdmin[i] <= lastAdmin'[i] BY <1>1, <1>2, <1>3, <1>5
<1>7. \A i \in Ids : lastAdmin'[i] <= now' BY <1>1, <1>2, <1>3, <1>5
<1>8. \A i \in Ids : IsAdmin(users'[i]) => lastAdmin'[i] = now' BY <1>3
<1> QED BY <1>4, <1>6, <1>7, <1>8 DEF Remembered

\* A token signed says what was read of the row, for TTL from now on.
LEMMA TokensKept ==
    ASSUME IInv, NEW r \in Requests, Step(r), RowsOK, now' = now, Observe
    PROVE  /\ tokens \subseteq tokens'
           /\ \A t \in tokens' : t \in Token /\ users'[t.id] # None
           /\ Vouched'
<1>1. /\ now \in Nat /\ TTL \in Nat
      /\ \A i \in Ids : lastAdmin[i] \in Int
      /\ \A t \in tokens : t \in Token /\ users[t.id] # None
  BY TimeAssumption DEF IInv, TypeOK
<1>2. /\ \A i \in Ids : lastAdmin[i] <= lastAdmin'[i]
      /\ \A i \in Ids : lastAdmin'[i] \in Int
  BY <1>1, History
<1>3. \A t \in tokens : t \in Token /\ users'[t.id] # None /\ Vouches(t)'
  BY <1>1, <1>2 DEF RowsOK, Kept, Token, IInv, Vouched, Vouches
<1>4. CASE tokens' = tokens BY <1>3, <1>4 DEF Vouched
<1>5. CASE SignToken(r)
  <2>1. PICK c : c = tx[r].claim OBVIOUS
  <2>2. PICK t : t = [id |-> c.id, role |-> c.role, read |-> c.read, iat |-> now,
                      exp |-> now + TTL]
    OBVIOUS
  <2>3. tokens' = tokens \cup {t} BY <1>5, <2>1, <2>2 DEF SignToken
  <2>4. /\ c \in Claim /\ users[c.id] # None
        /\ c.role = "admin" => lastAdmin[c.id] >= c.read
    BY <1>5, <2>1 DEF SignToken, IInv, Held
  <2>5. c.id \in Ids /\ c.role \in Roles /\ c.read \in Nat BY <2>4 DEF Claim
  <2>6. t \in Token /\ t.id = c.id /\ t.role = c.role /\ t.read = c.read
        /\ t.iat = now /\ t.exp = now + TTL
    BY <1>1, <2>2, <2>5 DEF Token
  <2>7. users'[t.id] # None BY <2>4, <2>5, <2>6 DEF RowsOK, Kept
  <2>8. Vouches(t)' BY <1>1, <1>2, <2>4, <2>5, <2>6 DEF Vouches
  <2> QED BY <1>3, <2>3, <2>6, <2>7, <2>8 DEF Vouched
<1> QED BY <1>4, <1>5 DEF Step, Receive, Auth, CountName, CountEmail, InsertUser,
                          FindLogin, FindUser, SaveProfile, SetPassword, SetRole, Fail
-----------------------------------------------------------------------------
\* Only a registration adds a row, its own, and answers with it.
LEMMA NewRows ==
    ASSUME IInv, NEW r \in Requests, Step(r)
    PROVE  /\ \A i \in Ids \ {r} : users[i] = None => users'[i] = None
           /\ pc'[r] # "done" => users' = users
<1>0. pc \in [Requests -> {"idle", "auth", "countName", "countEmail", "insert", "login",
                           "sign", "findUser", "save", "setPassword", "setRole", "done"}]
  BY DEF IInv, TypeOK
<1>1. CASE InsertUser(r) BY <1>0, <1>1 DEF InsertUser, Answer, IInv, TypeOK
<1>2. CASE SaveProfile(r)
  <2>1. tx[r].in \in ProfileReq(tokens) BY <1>2 DEF SaveProfile, IInv, Held
  <2>2. users[Caller(r)] # None BY <2>1, TokenFields DEF Caller, IInv, TypeOK
  <2> QED BY <1>0, <1>2, <2>2 DEF SaveProfile, Answer, IInv, TypeOK
<1>3. CASE SetPassword(r)
  <2>1. tx[r].in \in PasswordReq(tokens) BY <1>3 DEF SetPassword, IInv, Held
  <2>2. users[Caller(r)] # None BY <2>1, TokenFields DEF Caller, IInv, TypeOK
  <2> QED BY <1>0, <1>3, <2>2 DEF SetPassword, Answer, IInv, TypeOK
<1>4. CASE SetRole(r) BY <1>0, <1>4 DEF SetRole, Answer, IInv, TypeOK
<1> QED BY <1>1, <1>2, <1>3, <1>4 DEF Step, Receive, Auth, CountName, CountEmail,
                                      FindLogin, SignToken, FindUser, Fail

\* The requests that do not move hold what they held.
LEMMA OthersHeld ==
    ASSUME IInv, NEW r \in Requests, Step(r), RowsOK, tokens \subseteq tokens',
           \A i \in Ids : lastAdmin[i] <= lastAdmin'[i],
           \A i \in Ids : lastAdmin[i] \in Int /\ lastAdmin'[i] \in Int, now' = now,
           NEW q \in Requests, q # r, pc'[q] = pc[q], tx'[q] = tx[q], reply'[q] = reply[q]
    PROVE  Held(q)'
<1>1. q \in Ids \ {r} BY DEF Ids
<1>2. users[q] = None => users'[q] = None BY <1>1, NewRows
<1>3. Held(q) BY DEF IInv
<1>4. \A ts : \A in \in ProfileReq(ts) : in.token \in ts BY TokenFields
<1>5. tx[q].in \in ProfileReq(tokens) =>
        /\ tx[q].in.token.id \in Ids
        /\ users[tx[q].in.token.id] # None
        /\ users'[tx[q].in.token.id].name = users[tx[q].in.token.id].name
  BY <1>4 DEF IInv, TypeOK, Token, RowsOK, Kept
<1>6. /\ ProfileReq(tokens) \subseteq ProfileReq(tokens')
      /\ PasswordReq(tokens) \subseteq PasswordReq(tokens')
      /\ RoleReq(tokens) \subseteq RoleReq(tokens')
      /\ Signed(tokens) \subseteq Signed(tokens')
  BY MoreTokens
<1>7. tx[q].in \in ProfileReq(tokens') /\ pc[q] \in {"countEmail", "save"} =>
         tx[q].in \in ProfileReq(tokens)
  BY <1>3, OpenFields DEF Held, RegisterReq, ProfileReq
<1>8. tx[q].claim \in Claim =>
        /\ tx[q].claim.id \in Ids /\ tx[q].claim.read \in Nat
        /\ users[tx[q].claim.id] # None => users'[tx[q].claim.id] # None
  BY DEF Claim, RowsOK, Kept
<1> QED BY <1>2, <1>3, <1>5, <1>6, <1>7, <1>8 DEF Held

Labels == {"idle", "auth", "countName", "countEmail", "insert", "login", "sign",
           "findUser", "save", "setPassword", "setRole", "done"}
Codes  == {"none", "ok", "unauthorized", "forbidden", "nameExists", "emailExists",
           "wrongPassword", "error"}
Inputs(ts) == Open \cup Signed(ts)
Txs(ts)    == [in : Inputs(ts) \cup {None}, seen : Row \cup {None},
               claim : Claim \cup {None}]

LEMMA Control == ASSUME IInv
                 PROVE  /\ pc \in [Requests -> Labels] /\ reply \in [Requests -> Codes]
                        /\ tx \in [Requests -> Txs(tokens)]
                        /\ \A r \in Requests : pc[r] # "idle" => tx[r].in \in Inputs(tokens)
BY DEF IInv, TypeOK, Held, Labels, Codes, Txs, Inputs

\* What a step leaves of the control state, with the mover's own claim.
Moved(r) == /\ pc' \in [Requests -> Labels] /\ reply' \in [Requests -> Codes]
            /\ tx' \in [Requests -> Txs(tokens)]
            /\ \A q \in Requests \ {r} :
                  pc'[q] = pc[q] /\ tx'[q] = tx[q] /\ reply'[q] = reply[q]
            /\ Held(r)'

LEMMA AnswerMoved ==
    ASSUME IInv, NEW r \in Requests, NEW code \in Codes, Answer(r, code), pc[r] # "idle",
           tokens \subseteq tokens'
    PROVE  Moved(r)
<1>1. /\ pc \in [Requests -> Labels] /\ reply \in [Requests -> Codes]
      /\ tx \in [Requests -> Txs(tokens)] /\ tx[r].in \in Inputs(tokens)
  BY Control
<1>2. tx' = tx /\ pc' = [pc EXCEPT ![r] = "done"] /\ reply' = [reply EXCEPT ![r] = code]
  BY DEF Answer
<1>3. pc'[r] = "done" BY <1>1, <1>2
<1>4. tx'[r].in \in Inputs(tokens') BY <1>1, <1>2, MoreTokens DEF Inputs
<1>5. Held(r)' BY <1>3, <1>4 DEF Held, Inputs
<1> QED BY <1>1, <1>2, <1>3, <1>5 DEF Moved, Labels

\* Going on to a label with the same input and row.
LEMMA ProceedMoved ==
    ASSUME IInv, NEW r \in Requests, NEW label \in Labels, Proceed(r, label),
           pc'[r] = label => Held(r)'
    PROVE  Moved(r)
<1>1. /\ pc \in [Requests -> Labels] /\ reply \in [Requests -> Codes]
      /\ tx \in [Requests -> Txs(tokens)]
  BY Control
<1>2. tx' = tx /\ pc' = [pc EXCEPT ![r] = label] /\ reply' = reply BY DEF Proceed
<1> QED BY <1>1, <1>2 DEF Moved

LEMMA ReceiveMoved ==
    ASSUME IInv, NEW r \in Requests, Receive(r)
    PROVE  Moved(r)
<1>1. /\ pc \in [Requests -> Labels] /\ reply \in [Requests -> Codes]
      /\ tx \in [Requests -> Txs(tokens)] /\ pc[r] = "idle" /\ users[r] = None
      /\ reply[r] = "none"
  BY Control DEF Receive, IInv, Held
<1>2. PICK in \in Open \cup Signed(tokens) :
        /\ tx' = [tx EXCEPT ![r].in = in]
        /\ pc' = [pc EXCEPT ![r] = CASE in.op = "register" -> "countName"
                                     [] in.op = "login"    -> "login"
                                     [] OTHER              -> "auth"]
  BY DEF Receive
<1>3. tx[r] \in Txs(tokens) BY <1>1
<1>4. tx' = [tx EXCEPT ![r] = [tx[r] EXCEPT !.in = in]] BY <1>2
<1>5. [tx[r] EXCEPT !.in = in] \in Txs(tokens) /\ [tx[r] EXCEPT !.in = in].in = in
  BY <1>2, <1>3 DEF Txs, Inputs
<1>6. tx' \in [Requests -> Txs(tokens)] /\ tx'[r].in = in
      /\ \A q \in Requests \ {r} : tx'[q] = tx[q]
  BY <1>1, <1>4, <1>5
<1>7. CASE in \in RegisterReq
  <2>1. pc' = [pc EXCEPT ![r] = "countName"] BY <1>2, <1>7 DEF RegisterReq
  <2>2. Held(r)' BY <1>1, <1>2, <1>6, <1>7, <2>1 DEF Held, Receive
  <2> QED BY <1>1, <1>6, <2>1, <2>2 DEF Moved, Labels, Receive
<1>8. CASE in \in LoginReq
  <2>1. pc' = [pc EXCEPT ![r] = "login"] BY <1>2, <1>8 DEF LoginReq
  <2>2. Held(r)' BY <1>1, <1>2, <1>6, <1>8, <2>1 DEF Held, Receive
  <2> QED BY <1>1, <1>6, <2>1, <2>2 DEF Moved, Labels, Receive
<1>9. CASE in \in Signed(tokens)
  <2>1. in.op \in {"profile", "password", "role"} BY <1>9, TokenFields DEF Signed
  <2>2. pc' = [pc EXCEPT ![r] = "auth"] BY <1>2, <2>1
  <2>3. Held(r)' BY <1>1, <1>2, <1>6, <1>9, <2>2 DEF Held, Receive
  <2> QED BY <1>1, <1>6, <2>2, <2>3 DEF Moved, Labels, Receive
<1> QED BY <1>2, <1>7, <1>8, <1>9 DEF Open

LEMMA AuthMoved == ASSUME IInv, NEW r \in Requests, Auth(r) PROVE Moved(r)
<1>1. pc[r] = "auth" /\ tx[r].in \in Signed(tokens) /\ users[r] = None /\ reply[r] = "none"
      /\ UNCHANGED << users, tokens >>
  BY DEF Auth, IInv, Held
<1>2. CASE \E code \in {"unauthorized", "forbidden"} : Answer(r, code)
  BY <1>1, <1>2, AnswerMoved DEF Codes
<1>3. CASE Admitted(r) /\ (tx[r].in.op = "role" => tx[r].in.token.role = "admin")
  <2>1. CASE tx[r].in.op = "role"
    <3>1. Proceed(r, "setRole") BY <1>3, <2>1 DEF Admitted
    <3>2. tx[r].in \in RoleReq(tokens) BY <1>1, <2>1, TokenFields DEF Signed
    <3>3. pc'[r] = "setRole" => Held(r)' BY <1>1, <1>3, <2>1, <3>1, <3>2 DEF Held, Proceed
    <3> QED BY <3>1, <3>3, ProceedMoved DEF Labels
  <2>2. CASE tx[r].in.op # "role"
    <3>1. Proceed(r, "findUser") BY <1>3, <2>2 DEF Admitted
    <3>2. tx[r].in \in ProfileReq(tokens) \cup PasswordReq(tokens)
      BY <1>1, <2>2, TokenFields DEF Signed
    <3>3. pc'[r] = "findUser" => Held(r)' BY <1>1, <3>1, <3>2 DEF Held, Proceed
    <3> QED BY <3>1, <3>3, ProceedMoved DEF Labels
  <2> QED BY <2>1, <2>2
<1> QED BY <1>2, <1>3 DEF Auth, Allowed

LEMMA CountNameMoved == ASSUME IInv, NEW r \in Requests, CountName(r) PROVE Moved(r)
<1>1. /\ pc[r] = "countName" /\ tx[r].in \in RegisterReq /\ users[r] = None
      /\ reply[r] = "none" /\ UNCHANGED << users, tokens >>
  BY DEF CountName, IInv, Held
<1>2. tx[r].in \notin ProfileReq(tokens) BY <1>1 DEF RegisterReq, ProfileReq
<1>3. ASSUME NEW label \in {"insert", "countEmail"}, Proceed(r, label) PROVE Moved(r)
  <2>1. pc'[r] = label => Held(r)' BY <1>1, <1>2, <1>3 DEF Held, Proceed, Open
  <2> QED BY <1>3, <2>1, ProceedMoved DEF Labels
<1> QED BY <1>1, <1>3, AnswerMoved DEF CountName, Codes

LEMMA CountEmailMoved == ASSUME IInv, NEW r \in Requests, CountEmail(r), Observe, now' = now
                         PROVE  Moved(r)
<1>1. /\ pc[r] = "countEmail" /\ tx[r].in \in RegisterReq \cup ProfileReq(tokens)
      /\ users[r] = None /\ UNCHANGED << users, tokens >> /\ Held(r)
  BY DEF CountEmail, IInv, Held
<1>2. CASE tx[r].in.op = "register" /\ Proceed(r, "insert")
  <2>1. tx[r].in \in RegisterReq /\ tx[r].in \notin ProfileReq(tokens)
    BY <1>1, <1>2 DEF RegisterReq, ProfileReq
  <2>2. pc'[r] = "insert" => Held(r)' BY <1>1, <1>2, <2>1 DEF Held, Proceed, Open
  <2> QED BY <1>2, <2>2, ProceedMoved DEF Labels
<1>3. CASE tx[r].in.op # "register" /\ Proceed(r, "save")
  <2>1. tx[r].in \in ProfileReq(tokens) BY <1>1, <1>3 DEF RegisterReq
  <2>2. tx[r].in.token.id \in Ids BY <2>1, TokenFields DEF IInv, TypeOK, Token
  <2>3. now \in Nat /\ lastAdmin[tx[r].in.token.id] \in Int /\ RowsOK
    BY <1>1, <2>2, SameRows DEF IInv, TypeOK
  <2>4. /\ lastAdmin[tx[r].in.token.id] <= lastAdmin'[tx[r].in.token.id]
        /\ lastAdmin'[tx[r].in.token.id] \in Int
    BY <2>2, <2>3, History
  <2>5. pc'[r] = "save" => Held(r)'
    BY <1>1, <1>3, <2>1, <2>3, <2>4 DEF Held, Proceed, Signed
  <2> QED BY <1>3, <2>5, ProceedMoved DEF Labels
<1> QED BY <1>1, <1>2, <1>3, AnswerMoved DEF CountEmail, Codes

LEMMA FindUserMoved == ASSUME IInv, NEW r \in Requests, FindUser(r), Observe, now' = now
                       PROVE  Moved(r)
<1>1. /\ pc[r] = "findUser" /\ tx[r].in \in ProfileReq(tokens) \cup PasswordReq(tokens)
      /\ users[r] = None /\ reply[r] = "none" /\ UNCHANGED << users, tokens >>
  BY DEF FindUser, IInv, Held
<1>2. CASE Answer(r, "wrongPassword") BY <1>1, <1>2, AnswerMoved DEF Codes
<1>3. CASE /\ tx' = [tx EXCEPT ![r].seen = users[Caller(r)]]
           /\ pc' = [pc EXCEPT ![r] = AfterFind(r, users[Caller(r)])]
           /\ UNCHANGED reply
           /\ ~(tx[r].in.op = "password" /\ users[Caller(r)].hash # tx[r].in.old)
  <2> DEFINE i == Caller(r)
             in == tx[r].in
             label == AfterFind(r, users[i])
  <2>1. i = in.token.id /\ in.token \in tokens BY <1>1, TokenFields DEF Caller
  <2>2. i \in Ids /\ users[i] \in Row BY <2>1 DEF IInv, TypeOK, Token
  <2>3. /\ pc \in [Requests -> Labels] /\ reply \in [Requests -> Codes]
        /\ tx \in [Requests -> Txs(tokens)] /\ tx[r].in \in Inputs(tokens)
    BY <1>1, Control
  <2>4. tx[r] \in Txs(tokens) BY <2>3
  <2>5. tx' = [tx EXCEPT ![r] = [tx[r] EXCEPT !.seen = users[i]]] BY <1>3
  <2>6. /\ [tx[r] EXCEPT !.seen = users[i]] \in Txs(tokens)
        /\ [tx[r] EXCEPT !.seen = users[i]].in = in
        /\ [tx[r] EXCEPT !.seen = users[i]].seen = users[i]
    BY <2>2, <2>4 DEF Txs
  <2>7. /\ tx' \in [Requests -> Txs(tokens)] /\ tx'[r].in = in /\ tx'[r].seen = users[i]
        /\ \A q \in Requests \ {r} : tx'[q] = tx[q]
    BY <2>3, <2>5, <2>6
  <2>8. /\ label \in {"setPassword", "save", "countEmail"}
        /\ in.op = "password" <=> label = "setPassword"
    BY DEF AfterFind
  <2>9. /\ label = "setPassword" => /\ in \in PasswordReq(tokens) /\ in \notin ProfileReq(tokens)
                                    /\ users[i].hash = in.old
        /\ label # "setPassword" => in \in ProfileReq(tokens)
    BY <1>1, <1>3, <2>8, TokenFields DEF PasswordReq, ProfileReq
  <2>10. pc' = [pc EXCEPT ![r] = label] BY <1>3
  <2> HIDE DEF label
  <2>11. pc' \in [Requests -> Labels] /\ pc'[r] = label
         /\ \A q \in Requests \ {r} : pc'[q] = pc[q]
    BY <2>3, <2>8, <2>10 DEF Labels
  <2>12. now \in Nat /\ RowsOK BY <1>1, SameRows DEF IInv, TypeOK
  <2>13. users[i].role = "admin" => lastAdmin'[i] >= 0
    BY <1>1, <2>2, <2>12, NoneAssumption DEF Observe, IsAdmin
  <2>14. Held(r)'
    BY <1>1, <1>3, <2>1, <2>2, <2>3, <2>7, <2>8, <2>9, <2>11, <2>13 DEF Held, Inputs, IInv
  <2> QED BY <1>3, <2>3, <2>7, <2>11, <2>14 DEF Moved
<1> QED BY <1>1, <1>2, <1>3 DEF FindUser

LEMMA FindLoginMoved == ASSUME IInv, NEW r \in Requests, FindLogin(r), Observe, now' = now
                        PROVE  Moved(r)
<1>1. /\ pc[r] = "login" /\ tx[r].in \in LoginReq /\ users[r] = None
      /\ reply[r] = "none" /\ UNCHANGED << users, tokens >>
  BY DEF FindLogin, IInv, Held
<1>2. CASE Answer(r, "wrongPassword") BY <1>1, <1>2, AnswerMoved DEF Codes
<1>3. ASSUME NEW i \in Ids, users[i] # None,
             tx' = [tx EXCEPT ![r].claim = [id |-> i, role |-> users[i].role, read |-> now]],
             pc' = [pc EXCEPT ![r] = "sign"], UNCHANGED reply
      PROVE  Moved(r)
  <2>1. PICK c : c = [id |-> i, role |-> users[i].role, read |-> now] OBVIOUS
  <2>2. users[i] \in Row /\ now \in Nat BY <1>3 DEF IInv, TypeOK
  <2>3. users[i].role \in Roles BY <2>2 DEF Row
  <2>4. c \in Claim /\ c.id = i /\ c.role = users[i].role /\ c.read = now
    BY <2>1, <2>2, <2>3 DEF Claim
  <2>5. /\ pc \in [Requests -> Labels] /\ reply \in [Requests -> Codes]
        /\ tx \in [Requests -> Txs(tokens)]
    BY Control
  <2>6. tx[r] \in Txs(tokens) BY <2>5
  <2>7. tx' = [tx EXCEPT ![r] = [tx[r] EXCEPT !.claim = c]] BY <1>3, <2>1
  <2>8. /\ [tx[r] EXCEPT !.claim = c] \in Txs(tokens)
        /\ [tx[r] EXCEPT !.claim = c].in = tx[r].in
        /\ [tx[r] EXCEPT !.claim = c].claim = c
    BY <2>4, <2>6 DEF Txs
  <2>9. /\ tx' \in [Requests -> Txs(tokens)] /\ tx'[r].in = tx[r].in /\ tx'[r].claim = c
        /\ \A q \in Requests \ {r} : tx'[q] = tx[q]
    BY <2>5, <2>7, <2>8
  <2>10. /\ pc' \in [Requests -> Labels] /\ pc'[r] = "sign"
         /\ \A q \in Requests \ {r} : pc'[q] = pc[q]
    BY <1>3, <2>5 DEF Labels
  <2>11. c.role = "admin" => lastAdmin'[c.id] >= c.read
    <3>1. ASSUME users[i].role = "admin" PROVE lastAdmin'[i] = now
      BY <1>1, <1>3, <3>1 DEF Observe, IsAdmin
    <3> QED BY <2>2, <2>4, <3>1
  <2>12. Held(r)'
    BY <1>1, <1>3, <2>2, <2>4, <2>9, <2>10, <2>11 DEF Held, Open
  <2> QED BY <1>3, <2>5, <2>9, <2>10, <2>12 DEF Moved
<1> QED BY <1>1, <1>2, <1>3 DEF FindLogin, Named

LEMMA StepMoved == ASSUME IInv, NEW r \in Requests, Step(r), Observe, now' = now,
                          tokens \subseteq tokens'
                   PROVE  Moved(r)
<1>1. CASE Receive(r) BY <1>1, ReceiveMoved
<1>2. CASE Auth(r) BY <1>2, AuthMoved
<1>3. CASE CountName(r) BY <1>3, CountNameMoved
<1>4. CASE CountEmail(r) BY <1>4, CountEmailMoved
<1>5. CASE InsertUser(r) BY <1>5, AnswerMoved DEF InsertUser, Codes
<1>6. CASE FindLogin(r) BY <1>6, FindLoginMoved
<1>12. CASE SignToken(r) BY <1>12, AnswerMoved DEF SignToken, Codes
<1>7. CASE FindUser(r) BY <1>7, FindUserMoved
<1>8. CASE SaveProfile(r) BY <1>8, AnswerMoved DEF SaveProfile, Codes
<1>9. CASE SetPassword(r) BY <1>9, AnswerMoved DEF SetPassword, Codes
<1>10. CASE SetRole(r) BY <1>10, AnswerMoved DEF SetRole, Codes
<1>11. CASE Fail(r) BY <1>11, AnswerMoved DEF Fail, InFlight, Codes
<1> QED BY <1>1, <1>2, <1>3, <1>4, <1>5, <1>6, <1>7, <1>8, <1>9, <1>10, <1>11,
       <1>12 DEF Step
-----------------------------------------------------------------------------
LEMMA InitIInv == Init => IInv
<1> SUFFICES ASSUME Init PROVE IInv OBVIOUS
<1>1. \A i \in Seeded : i \in Ids /\ SeedRow[i] \in Row /\ SeedRow[i].role \in Roles
  BY SeedAssumption DEF Ids, Row
<1>2. \A i \in Ids : users[i] = IF i \in Seeded THEN SeedRow[i] ELSE None BY DEF Init
<1>3. \A i \in Ids : lastAdmin[i] = IF i \in Seeded /\ SeedRow[i].role = "admin" THEN 0 ELSE -1
  BY DEF Init
<1>4. TTL \in Nat BY TimeAssumption
<1>5. /\ users \in [Ids -> Row \cup {None}] /\ lastAdmin \in [Ids -> Int]
      /\ now = 0 /\ pc \in [Requests -> {"idle"}] /\ reply \in [Requests -> {"none"}]
  BY <1>1, <1>2 DEF Init
<1>6. \A t \in tokens : t \in Token /\ users[t.id] # None /\ Vouches(t)
  <2>1. ASSUME NEW i \in Seeded, NEW t,
               t = [id |-> i, role |-> SeedRow[i].role, read |-> 0, iat |-> 0, exp |-> TTL]
        PROVE  t \in Token /\ users[t.id] # None /\ Vouches(t)
    BY <1>1, <1>2, <1>3, <1>4, <2>1, NoneAssumption DEF Token, Vouches
  <2> QED BY <2>1 DEF Init
<1>7. tx \in [Requests -> Txs(tokens)] BY DEF Init, Txs
<1>8. TypeOK BY <1>5, <1>6, <1>7 DEF TypeOK, Txs, Inputs
<1>9. UniqueAccounts BY <1>1, <1>2, SeedAssumption DEF UniqueAccounts
<1>10. \A r \in Requests : Held(r)
  <2> SUFFICES ASSUME NEW r \in Requests PROVE Held(r) OBVIOUS
  <2>1. r \in Ids \ Seeded BY SeedAssumption DEF Ids
  <2> QED BY <1>2, <1>5, <2>1 DEF Held
<1>11. Remembered
  <2>1. \A i \in Ids : IsAdmin(users[i]) => i \in Seeded /\ SeedRow[i].role = "admin"
    BY <1>2 DEF IsAdmin
  <2> QED BY <1>3, <1>5, <2>1 DEF Remembered
<1>12. Vouched BY <1>6 DEF Vouched
<1> QED BY <1>8, <1>9, <1>10, <1>11, <1>12 DEF IInv

LEMMA NextIInv == IInv /\ [Next]_vars => IInv'
<1>1. ASSUME IInv, UNCHANGED vars PROVE IInv'
  BY <1>1 DEF IInv, vars, TypeOK, UniqueAccounts, Held, Remembered, Vouched, Vouches
<1>2. ASSUME IInv, Tick, Observe PROVE IInv'
  <2>1. now \in Nat /\ now' = now + 1 /\ UNCHANGED << users, tokens, pc, tx, reply >> /\ RowsOK
    BY <1>2, SameRows DEF Tick, IInv, TypeOK
  <2>2. /\ lastAdmin' \in [Ids -> Int] /\ Remembered'
        /\ \A i \in Ids : lastAdmin[i] <= lastAdmin'[i]
        /\ \A i \in Ids : lastAdmin[i] \in Int /\ lastAdmin'[i] \in Int
    <3>1. now' \in Nat /\ now <= now' BY <2>1
    <3> QED BY <1>2, <2>1, <3>1, History DEF IInv, TypeOK
  <2>3. TypeOK' BY <1>2, <2>1, <2>2 DEF IInv, TypeOK
  <2>4. UniqueAccounts' BY <2>1 DEF RowsOK
  <2>5. ASSUME NEW r \in Requests PROVE Held(r)'
    <3>1. Held(r) BY <1>2 DEF IInv
    <3>2. tx[r].in \in ProfileReq(tokens) => tx[r].in.token.id \in Ids
      BY <1>2, TokenFields DEF IInv, TypeOK, Token
    <3>3. tx[r].claim \in Claim => tx[r].claim.id \in Ids /\ tx[r].claim.read \in Nat
      BY DEF Claim
    <3> QED BY <2>1, <2>2, <3>1, <3>2, <3>3 DEF Held
  <2>6. Vouched'
    <3>1. \A t \in tokens : t.id \in Ids /\ t.read \in Nat BY <1>2 DEF IInv, TypeOK, Token
    <3> QED BY <1>2, <2>1, <2>2, <3>1 DEF IInv, Vouched, Vouches
  <2> QED BY <2>2, <2>3, <2>4, <2>5, <2>6 DEF IInv
<1>3. ASSUME IInv, NEW r \in Requests, Step(r), now' = now, Observe PROVE IInv'
  <2>1. RowsOK BY <1>3, StepRows
  <2>2. /\ lastAdmin' \in [Ids -> Int] /\ Remembered' /\ now' \in Nat
        /\ \A i \in Ids : lastAdmin[i] <= lastAdmin'[i]
        /\ \A i \in Ids : lastAdmin[i] \in Int /\ lastAdmin'[i] \in Int
    <3>1. now' \in Nat /\ now <= now' BY <1>3 DEF IInv, TypeOK
    <3> QED BY <1>3, <2>1, <3>1, History DEF IInv, TypeOK
  <2>3. /\ tokens \subseteq tokens' /\ Vouched'
        /\ \A t \in tokens' : t \in Token /\ users'[t.id] # None
    BY <1>3, <2>1, TokensKept
  <2>4. Moved(r) BY <1>3, <2>3, StepMoved
  <2>5. \A q \in Requests : Held(q)' BY <1>3, <2>1, <2>2, <2>3, <2>4, OthersHeld DEF Moved
  <2>6. TypeOK'
    <3>1. Txs(tokens) \subseteq Txs(tokens') BY <2>3, MoreTokens DEF Txs, Inputs
    <3>2. tx' \in [Requests -> Txs(tokens')] BY <2>4, <3>1 DEF Moved
    <3> QED BY <2>1, <2>2, <2>3, <2>4, <3>2
            DEF TypeOK, RowsOK, Moved, Labels, Codes, Txs, Inputs
  <2> QED BY <2>1, <2>2, <2>3, <2>5, <2>6 DEF IInv, RowsOK
<1> QED BY <1>1, <1>2, <1>3 DEF Next

\* The state of the accounts and of the requests is well formed at any time.
THEOREM TypeCorrect == Spec => []TypeOK
<1>1. IInv => TypeOK BY DEF IInv
<1> QED BY <1>1, InitIInv, NextIInv, PTL DEF Spec

\* Names and e-mail addresses are unique at any time, for any number of
\* concurrent registrations and profile changes.
THEOREM AccountsAreUnique == Spec => []UniqueAccounts
<1>1. IInv => UniqueAccounts BY DEF IInv
<1> QED BY <1>1, InitIInv, NextIInv, PTL DEF Spec

\* Whoever is let through to change roles has had the role admin less than TTL
\* and the time its login took before, whatever has been done to it since.
THEOREM RoleOutlivesByTTL == Spec => AdminWithinTTL
<1>1. IInv /\ [Next]_vars =>
        [\A r \in Requests : pc[r] = "auth" /\ pc'[r] = "setRole" =>
            LET t == tx[r].in.token
            IN  lastAdmin[t.id] + (t.iat - t.read) + TTL > now]_vars
  <2> SUFFICES ASSUME IInv, Next, NEW r \in Requests, pc[r] = "auth", pc'[r] = "setRole"
               PROVE  LET t == tx[r].in.token
                      IN  lastAdmin[t.id] + (t.iat - t.read) + TTL > now
    BY DEF vars
  <2>1. PICK q \in Requests : Step(q) BY DEF Next, Tick
  <2>2. now' = now /\ Observe BY DEF Next, Tick
  <2>3. Moved(q) BY <2>1, <2>2, StepRows, TokensKept, StepMoved
  <2>4. q = r BY <2>3 DEF Moved
  <2>5. pc \in [Requests -> Labels] BY Control
  <2>6. Auth(r)
    <3>1. ~Receive(r) BY DEF Receive
    <3>2. ~Fail(r) BY <2>5 DEF Fail, Answer
    <3>3. ~CountName(r) /\ ~CountEmail(r) /\ ~InsertUser(r)
      BY DEF CountName, CountEmail, InsertUser
    <3>5. ~FindLogin(r) /\ ~SignToken(r) BY DEF FindLogin, SignToken
    <3>4. ~FindUser(r) /\ ~SaveProfile(r) /\ ~SetPassword(r) /\ ~SetRole(r)
      BY DEF FindUser, SaveProfile, SetPassword, SetRole
    <3> QED BY <2>1, <2>4, <3>1, <3>2, <3>3, <3>4, <3>5 DEF Step
  <2>7. tx[r].in \in Signed(tokens) BY DEF IInv, Held
  <2>8. tx[r].in.token \in tokens BY <2>7, TokenFields DEF Signed
  <2>9. tx[r].in.token \in Token BY <2>8 DEF IInv, TypeOK
  <2>10. now \in Nat /\ tx[r].in.token.exp \in Int BY <2>9 DEF Token, IInv, TypeOK
  <2>11. tx[r].in.token.exp > now /\ Admitted(r)
        /\ (tx[r].in.op = "role" => tx[r].in.token.role = "admin")
    BY <2>5, <2>6, <2>10 DEF Auth, Answer, Expired, Allowed
  <2>12. tx[r].in.op = "role" BY <2>5, <2>11 DEF Admitted, Proceed
  <2>13. PICK t \in tokens : t = tx[r].in.token BY <2>8
  <2>14. t.exp = t.iat + TTL /\ lastAdmin[t.id] >= t.read
    BY <2>11, <2>12, <2>13 DEF IInv, Vouched, Vouches
  <2>15. /\ lastAdmin[t.id] \in Int /\ TTL \in Nat
         /\ t.iat \in Nat /\ t.read \in Nat /\ t.exp \in Nat
    BY <2>9, <2>13, TimeAssumption DEF Token, IInv, TypeOK
  <2>16. lastAdmin[t.id] + (t.iat - t.read) + TTL > now BY <2>10, <2>11, <2>13, <2>14, <2>15
  <2> QED BY <2>13, <2>16
<1> QED BY <1>1, InitIInv, NextIInv, PTL DEF Spec, AdminWithinTTL

\* Nobody becomes an administrator for the first time but by the request of an
\* account that is or has been one: not by registering, not by a profile save.
THEOREM AdminsComeFromAdmins == Spec => GrantedByAdmin
<1>1. IInv /\ [Next]_vars =>
        [\A i \in Ids :
            lastAdmin[i] < 0 /\ lastAdmin'[i] >= 0 =>
               \E r \in Requests : /\ pc[r] = "setRole" /\ pc'[r] = "done"
                                   /\ tx[r].in.target = i
                                   /\ lastAdmin[Caller(r)] >= 0]_vars
  <2> SUFFICES ASSUME IInv, Next, NEW i \in Ids, lastAdmin[i] < 0, lastAdmin'[i] >= 0
               PROVE  \E r \in Requests : /\ pc[r] = "setRole" /\ pc'[r] = "done"
                                          /\ tx[r].in.target = i
                                          /\ lastAdmin[Caller(r)] >= 0
    BY DEF vars
  <2>1. /\ now \in Nat /\ lastAdmin[i] \in Int /\ users \in [Ids -> Row \cup {None}]
        /\ pc \in [Requests -> Labels]
    BY Control DEF IInv, TypeOK
  <2>2. IsAdmin(users'[i]) /\ ~IsAdmin(users[i])
    <3>1. IsAdmin(users'[i]) BY <2>1 DEF Next, Observe
    <3>2. IsAdmin(users[i]) => lastAdmin[i] = now BY DEF IInv, Remembered
    <3> QED BY <2>1, <3>1, <3>2
  <2>3. users'[i] # users[i] BY <2>2
  <2>4. PICK r \in Requests : Step(r) BY <2>3 DEF Next, Tick
  <2>5. CASE InsertUser(r)
    <3>1. NewRow(r).role = "user" BY DEF NewRow
    <3>2. users' = [users EXCEPT ![r] = NewRow(r)] BY <2>3, <2>5 DEF InsertUser
    <3>3. users'[i] \in {users[i], NewRow(r)} BY <2>1, <3>2
    <3> QED BY <2>2, <3>1, <3>3 DEF IsAdmin
  <2>6. CASE SaveProfile(r)
    <3> DEFINE row == [tx[r].seen EXCEPT !.email = tx[r].in.email]
    <3>1. users' = [users EXCEPT ![Caller(r)] = row] BY <2>3, <2>6 DEF SaveProfile
    <3>2. tx[r].seen \in Row
          /\ (tx[r].seen.role = "admin" => lastAdmin[Caller(r)] >= 0)
      BY <2>6 DEF SaveProfile, IInv, Held, Caller
    <3>3. row.role = tx[r].seen.role BY <3>2 DEF Row
    <3> HIDE DEF row
    <3>4. i = Caller(r) /\ users'[i] = row BY <2>1, <2>3, <3>1
    <3> QED BY <2>1, <2>2, <3>2, <3>3, <3>4 DEF IsAdmin
  <2>7. CASE SetPassword(r)
    <3>1. tx[r].in \in PasswordReq(tokens) BY <2>7 DEF SetPassword, IInv, Held
    <3>2. users' = [users EXCEPT ![Caller(r)] =
                       [users[Caller(r)] EXCEPT !.hash = tx[r].in.pw]]
      BY <2>7 DEF SetPassword
    <3>3. i = Caller(r) BY <2>1, <2>3, <3>2
    <3>4. users[i] \in Row BY <3>1, <3>3, <2>1, TokenFields DEF Caller, IInv, TypeOK
    <3>5. users'[i].role = users[i].role BY <2>1, <3>2, <3>3, <3>4 DEF Row
    <3> QED BY <2>2, <3>4, <3>5, NoneAssumption DEF IsAdmin
  <2>8. CASE SetRole(r)
    <3>1. /\ tx[r].in \in RoleReq(tokens) /\ tx[r].in.token.role = "admin"
          /\ pc[r] = "setRole" /\ pc'[r] = "done"
      BY <2>1, <2>8 DEF SetRole, Answer, IInv, Held
    <3>2. tx[r].in.target = i
      BY <2>1, <2>3, <2>8 DEF SetRole
    <3>3. tx[r].in.token \in tokens BY <3>1, TokenFields
    <3>4. tx[r].in.token.read \in Nat /\ tx[r].in.token.id \in Ids
      BY <3>3 DEF IInv, TypeOK, Token
    <3>5. lastAdmin[Caller(r)] >= 0
      BY <3>1, <3>3, <3>4 DEF IInv, TypeOK, Vouched, Vouches, Caller
    <3> QED BY <3>1, <3>2, <3>5
  <2> QED BY <2>3, <2>4, <2>5, <2>6, <2>7, <2>8
          DEF Step, Receive, Auth, CountName, CountEmail, FindLogin, SignToken, FindUser, Fail
<1> QED BY <1>1, InitIInv, NextIInv, PTL DEF Spec, GrantedByAdmin

\* A role is changed by ChangeRole alone and a password by its owner's
\* ChangePassword, but for a profile save that undoes what it overlaps.
THEOREM ChangesAreAsked == Spec => OnlyByChange
<1>1. IInv /\ [Next]_vars =>
        [\A i \in Ids : users[i] # None =>
            /\ users'[i].role # users[i].role =>
                  \E r \in Requests : \/ pc[r] = "setRole" /\ tx[r].in.target = i
                                      \/ Stale(r, i)
            /\ users'[i].hash # users[i].hash =>
                  \E r \in Requests : \/ pc[r] = "setPassword" /\ Caller(r) = i
                                      \/ Stale(r, i)]_vars
  <2> DEFINE RoleAsked(i) == \E r \in Requests : \/ pc[r] = "setRole" /\ tx[r].in.target = i
                                                 \/ Stale(r, i)
             HashAsked(i) == \E r \in Requests : \/ pc[r] = "setPassword" /\ Caller(r) = i
                                                 \/ Stale(r, i)
  <2> SUFFICES ASSUME IInv, Next, NEW i \in Ids, users[i] # None
               PROVE  /\ users'[i].role # users[i].role => RoleAsked(i)
                      /\ users'[i].hash # users[i].hash => HashAsked(i)
    BY DEF vars
  <2>1. /\ users[i] \in Row /\ users \in [Ids -> Row \cup {None}]
        /\ pc \in [Requests -> Labels]
    BY Control DEF IInv, TypeOK
  <2>2. CASE users'[i] = users[i] BY <2>2
  <2>3. CASE users'[i] # users[i]
    <3>1. PICK r \in Requests : Step(r) BY <2>3 DEF Next, Tick
    <3>2. CASE InsertUser(r)
      <4>1. users[r] = None BY <3>2 DEF InsertUser, IInv, Held
      <4> QED BY <2>1, <2>3, <3>2, <4>1 DEF InsertUser
    <3>3. CASE SaveProfile(r)
      <4> DEFINE row == [tx[r].seen EXCEPT !.email = tx[r].in.email]
      <4>1. /\ users' = [users EXCEPT ![Caller(r)] = row]
            /\ pc[r] = "save" /\ pc'[r] = "done"
        BY <2>1, <2>3, <3>3 DEF SaveProfile, Answer
      <4>2. tx[r].seen \in Row BY <3>3 DEF SaveProfile, IInv, Held
      <4>3. row.role = tx[r].seen.role /\ row.hash = tx[r].seen.hash BY <4>2 DEF Row
      <4> HIDE DEF row
      <4>4. i = Caller(r) /\ users'[i] = row BY <2>1, <2>3, <4>1
      <4> QED BY <4>1, <4>3, <4>4 DEF Stale
    <3>4. CASE SetPassword(r)
      <4>1. /\ pc[r] = "setPassword"
            /\ users' = [users EXCEPT ![Caller(r)] =
                            [users[Caller(r)] EXCEPT !.hash = tx[r].in.pw]]
        BY <3>4 DEF SetPassword
      <4>2. i = Caller(r) BY <2>1, <2>3, <4>1
      <4>3. users'[i].role = users[i].role BY <2>1, <4>1, <4>2 DEF Row
      <4> QED BY <4>1, <4>2, <4>3
    <3>5. CASE SetRole(r)
      <4> DEFINE j == tx[r].in.target
      <4>1. pc[r] = "setRole" /\ i = j BY <2>1, <2>3, <3>5 DEF SetRole
      <4>2. users' = [users EXCEPT ![i] = [users[i] EXCEPT !.role = tx[r].in.role]]
        BY <2>1, <3>5, <4>1, NoneAssumption DEF SetRole
      <4>3. users'[i].hash = users[i].hash BY <2>1, <4>2 DEF Row
      <4> QED BY <4>1, <4>3
    <3> QED BY <2>3, <3>1, <3>2, <3>3, <3>4, <3>5
            DEF Step, Receive, Auth, CountName, CountEmail, FindLogin, SignToken, FindUser,
                Fail
  <2> QED BY <2>2, <2>3
<1> QED BY <1>1, InitIInv, NextIInv, PTL DEF Spec, OnlyByChange

\* A password change that answers with success has checked the old password
\* and stores the new one, or could not read the account and stores nothing.
THEOREM PasswordAnswersHold == Spec => PasswordAnswer
<1>1. IInv /\ [Next]_vars =>
        [\A r \in Requests :
            pc[r] # "done" /\ reply'[r] = "ok" /\ tx[r].in.op = "password" =>
               \/ pc[r] = "findUser" /\ users' = users
               \/ /\ tx[r].seen.hash = tx[r].in.old
                  /\ users'[Caller(r)].hash = tx[r].in.pw]_vars
  <2> SUFFICES ASSUME IInv, Next, NEW r \in Requests,
                      pc[r] # "done", reply'[r] = "ok", tx[r].in.op = "password"
               PROVE  \/ pc[r] = "findUser" /\ users' = users
                      \/ /\ tx[r].seen.hash = tx[r].in.old
                         /\ users'[Caller(r)].hash = tx[r].in.pw
    BY DEF vars
  <2>1. reply[r] = "none" /\ reply \in [Requests -> Codes] BY Control DEF IInv, Held
  <2>2. PICK q \in Requests : Step(q) BY <2>1 DEF Next, Tick
  <2>3. now' = now /\ Observe BY <2>1 DEF Next, Tick
  <2>4. q = r BY <2>1, <2>2, <2>3, StepRows, TokensKept, StepMoved DEF Moved
  <2>5. Step(r) BY <2>2, <2>4
  <2>6. CASE SetPassword(r)
    <3>1. tx[r].in \in PasswordReq(tokens) /\ tx[r].seen.hash = tx[r].in.old
      BY <2>6 DEF SetPassword, IInv, Held
    <3>2. Caller(r) \in Ids /\ users[Caller(r)] \in Row /\ users \in [Ids -> Row \cup {None}]
      BY <3>1, TokenFields DEF Caller, IInv, TypeOK, Token
    <3>3. users' = [users EXCEPT ![Caller(r)] =
                       [users[Caller(r)] EXCEPT !.hash = tx[r].in.pw]]
      BY <2>6 DEF SetPassword
    <3>4. users'[Caller(r)].hash = tx[r].in.pw BY <3>2, <3>3 DEF Row
    <3> QED BY <3>1, <3>4
  <2>7. CASE Fail(r) BY <2>1, <2>7 DEF Fail, Answer
  <2>8. ~InsertUser(r) BY DEF InsertUser, IInv, Held, RegisterReq
  <2>9. ~FindLogin(r) /\ ~SignToken(r)
    BY <2>1 DEF FindLogin, SignToken, Answer, IInv, Held, LoginReq
  <2>10. ~SaveProfile(r) BY DEF SaveProfile, IInv, Held, ProfileReq
  <2>11. ~SetRole(r) BY DEF SetRole, IInv, Held, RoleReq
  <2>12. ~Receive(r) BY <2>1 DEF Receive
  <2>13. ~Auth(r) BY <2>1 DEF Auth, Answer, Admitted, Proceed
  <2>14. ~CountName(r) /\ ~CountEmail(r) /\ ~FindUser(r)
    BY <2>1 DEF CountName, CountEmail, FindUser, Answer, Proceed
  <2> QED BY <2>5, <2>6, <2>7, <2>8, <2>9, <2>10, <2>11, <2>12, <2>13, <2>14 DEF Step
<1> QED BY <1>1, InitIInv, NextIInv, PTL DEF Spec, PasswordAnswer
=============================================================================
