------------------------- MODULE GroupService_proofs -------------------------
(***************************************************************************)
(* For any users, groups and requests: rows stay well formed, a creator    *)
(* stays the owner and a member of his group, who has been removed stays   *)
(* out, and every group that was there before implements GroupLifecycle.   *)
(***************************************************************************)
EXTENDS GroupService, TLAPS

Labels == {"idle", "insertGroup", "find", "manage", "save", "archive", "findUser", "exists",
           "insertMember", "findMember", "removeMember", "audit", "done"}
Codes  == {"none", "ok", "notFound", "conflict", "forbidden", "memberExists", "error"}
TxType == [in : Input \cup {None}, seen : Row \cup {None}]

\* What the group tables say of a request that has created or removed.
Created(r) == /\ group[r] # None
              /\ group[r].owner = tx[r].in.caller
              /\ member[r][tx[r].in.caller] = "active"
Removed(r) == /\ tx[r].in.user \in Users
              /\ member[Target(r)][tx[r].in.user] = "archived"

\* What a request knows at each of its statements.
Held(r) ==
    LET in == tx[r].in
    IN  /\ pc[r] = "idle" => group[r] = None
        /\ pc[r] # "done" => reply[r] = "none"
        /\ pc[r] # "idle" => in \in Input /\ (in.op = "create" => in.group = r)
        /\ pc[r] = "insertGroup" => in.op = "create" /\ group[r] = None
        /\ pc[r] \in {"find", "manage", "save", "archive", "findUser", "exists",
                      "findMember", "removeMember"} => in.op # "create"
        /\ pc[r] = "find" => (in.op = "remove" => in.user \in Users)
        /\ pc[r] \in {"manage", "save", "archive", "findUser", "exists",
                      "findMember", "removeMember"} =>
              /\ tx[r].seen \in Row
              /\ group[Target(r)] # None
              /\ group[Target(r)].owner = tx[r].seen.owner
              /\ in.op = "remove" => in.user \in Users
        /\ pc[r] = "save" => in.op = "update"
        /\ pc[r] = "archive" => in.op = "archive"
        /\ pc[r] \in {"findUser", "exists"} => in.op = "invite"
        /\ pc[r] = "exists" => in.user \in Users
        /\ pc[r] = "insertMember" =>
              /\ in.op \in {"create", "invite"} /\ Subject(r) \in Users
              /\ in.op = "create" => group[r] # None /\ group[r].owner = in.caller
        /\ pc[r] \in {"findMember", "removeMember"} =>
              in.op = "remove" /\ in.user # tx[r].seen.owner
        /\ pc[r] = "removeMember" => member[Target(r)][in.user] # "none"
        /\ pc[r] = "audit" \/ reply[r] = "ok" =>
              /\ in.op = "create" => Created(r)
              /\ in.op = "remove" => Removed(r)

\* The groups the other components know: their owner never changes.
Founded == \A g \in Seeded : group[g] # None /\ group[g].owner = SeedOwner[g]

IInv == TypeOK /\ Founded /\ \A r \in Requests : Held(r)

\* What no statement does to the tables: groups stay and keep their owner, who
\* stays a member, and nobody loses his row or comes back.
Kept ==
    /\ \A g \in Groups : group[g] # None => /\ group'[g] # None
                                            /\ group'[g].owner = group[g].owner
    /\ \A g \in Groups, u \in Users :
          /\ member[g][u] # "none" => member'[g][u] # "none"
          /\ member[g][u] = "archived" => member'[g][u] = "archived"
          /\ group[g] # None /\ u = group[g].owner /\ member[g][u] = "active" =>
                member'[g][u] = "active"

\* Only its own request creates a group.
OwnInsert(r) == \A q \in Requests \ {r} : group[q] = None => group'[q] = None

TablesOK(r) == /\ group' \in [Groups -> Row \cup {None}]
               /\ member' \in [Groups -> [Users -> {"none", "active", "archived"}]]
               /\ Kept /\ OwnInsert(r)
-----------------------------------------------------------------------------
LEMMA RequestsAreGroups == Requests \subseteq Groups /\ Seeded \subseteq Groups
BY DEF Groups

LEMMA Unchanged == ASSUME IInv, NEW r, UNCHANGED dbVars PROVE TablesOK(r)
BY DEF IInv, TypeOK, TablesOK, Kept, OwnInsert, dbVars

\* What a step of one request leaves to the others.
LEMMA Alone ==
    ASSUME IInv, NEW r \in Requests, TablesOK(r),
           NEW l \in Labels, pc' = [pc EXCEPT ![r] = l],
           NEW t \in TxType, tx' = [tx EXCEPT ![r] = t],
           NEW c \in Codes, reply' = [reply EXCEPT ![r] = c],
           Held(r)'
    PROVE  IInv'
<1>1. TypeOK' BY DEF IInv, TypeOK, TablesOK, Labels, TxType, Codes
<1>2. Founded' BY RequestsAreGroups DEF IInv, Founded, TablesOK, Kept
<1>3. ASSUME NEW q \in Requests \ {r} PROVE Held(q)'
  <2>1. Held(q) /\ pc'[q] = pc[q] /\ tx'[q] = tx[q] /\ reply'[q] = reply[q]
    BY DEF IInv, TypeOK
  <2>2. Target(q)' = Target(q) /\ Subject(q)' = Subject(q) BY <2>1 DEF Target, Subject
  <2>3. group[q] = None => group'[q] = None BY DEF TablesOK, OwnInsert
  <2>4. pc[q] # "idle" => /\ Target(q) \in Groups /\ q \in Groups
                          /\ tx[q].in.caller \in Users
    BY <2>1, RequestsAreGroups DEF Held, Target, Input
  <2>5. pc[q] # "idle" /\ group[Target(q)] # None =>
           group'[Target(q)] # None /\ group'[Target(q)].owner = group[Target(q)].owner
    BY <2>4 DEF TablesOK, Kept
  <2>6. pc[q] # "idle" /\ group[q] # None =>
           group'[q] # None /\ group'[q].owner = group[q].owner
    BY <2>4 DEF TablesOK, Kept
  <2>7. pc[q] # "idle" /\ Created(q) => Created(q)'
    BY <2>1, <2>4, <2>6 DEF TablesOK, Kept, Created
  <2>8. pc[q] # "idle" /\ Removed(q) => Removed(q)'
    BY <2>1, <2>2, <2>4 DEF TablesOK, Kept, Removed
  <2>9. pc[q] = "removeMember" => member'[Target(q)][tx[q].in.user] # "none"
    BY <2>1, <2>4 DEF Held, TablesOK, Kept
  <2> QED BY <2>1, <2>2, <2>3, <2>5, <2>6, <2>7, <2>8, <2>9 DEF Held
<1> QED BY <1>1, <1>2, <1>3 DEF IInv

LEMMA Initially == Init => IInv
<1> SUFFICES ASSUME Init PROVE IInv OBVIOUS
<1>1. \A g \in Seeded : group[g] = [owner |-> SeedOwner[g], status |-> "active"]
  BY RequestsAreGroups DEF Init
<1>2. ASSUME NEW g \in Seeded PROVE group[g] \in Row /\ group[g].owner = SeedOwner[g]
  <2>1. SeedOwner[g] \in Users BY SeedAssumption
  <2>2. group[g] = [owner |-> SeedOwner[g], status |-> "active"] BY <1>1
  <2> QED BY <2>1, <2>2 DEF Row
<1>3. \A g \in Groups : group[g] \in Row \cup {None} BY <1>2 DEF Init
<1>4. TypeOK BY <1>3 DEF Init, TypeOK, NoTx
<1>5. Founded BY <1>2, NoneAssumption DEF Founded
<1>6. \A r \in Requests : group[r] = None BY RequestsAreGroups, SeedAssumption DEF Init
<1>7. \A r \in Requests : Held(r) BY <1>6 DEF Init, Held
<1> QED BY <1>4, <1>5, <1>7 DEF IInv

\* A handler that answers without success, and one that goes on.
LEMMA Refuses ==
    ASSUME IInv, NEW r \in Requests, InFlight(r), UNCHANGED dbVars,
           NEW c \in Codes \ {"ok", "none"}, Answer(r, c)
    PROVE  IInv'
<1> DEFINE t == [tx[r] EXCEPT !.seen = None]
<1>1. tx[r] \in TxType BY DEF IInv, TypeOK, TxType
<1>2. t \in TxType /\ t.in = tx[r].in BY <1>1 DEF TxType
<1>3. /\ pc' = [pc EXCEPT ![r] = "done"] /\ reply' = [reply EXCEPT ![r] = c]
      /\ tx' = [tx EXCEPT ![r] = t]
  BY DEF Answer, IInv, TypeOK
<1>4. pc'[r] = "done" /\ reply'[r] = c /\ tx'[r].in = tx[r].in
  BY <1>2, <1>3 DEF IInv, TypeOK
<1>5. Held(r)' BY <1>4 DEF IInv, Held, InFlight
<1> QED BY <1>2, <1>3, <1>5, Unchanged, Alone DEF Labels

LEMMA GoesOn ==
    ASSUME IInv, NEW r \in Requests, TablesOK(r), NEW l \in Labels, Proceed(r, l), Held(r)'
    PROVE  IInv'
<1>1. /\ tx[r] \in TxType /\ tx' = [tx EXCEPT ![r] = tx[r]]
      /\ reply[r] \in Codes /\ reply' = [reply EXCEPT ![r] = reply[r]]
      /\ pc' = [pc EXCEPT ![r] = l]
  BY DEF IInv, TypeOK, TxType, Codes, Proceed
<1> QED BY <1>1, Alone

\* What the request of a statement is about.
LEMMA Where ==
    ASSUME IInv, NEW r \in Requests, pc[r] # "idle"
    PROVE  /\ tx[r].in \in Input /\ tx[r] \in TxType
           /\ Target(r) \in Groups /\ r \in Groups
           /\ tx[r].in.op = "create" => Target(r) = r
BY RequestsAreGroups DEF IInv, TypeOK, TxType, Held, Target, Input

LEMMA ReceiveKeeps == ASSUME IInv, NEW r \in Requests, Receive(r) PROVE IInv'
<1>1. PICK in \in Input :
         /\ in.op = "create" => in.group = r
         /\ in.op = "remove" => in.user # None
         /\ tx' = [tx EXCEPT ![r].in = in]
         /\ pc' = [pc EXCEPT ![r] = IF in.op = "create" THEN "insertGroup" ELSE "find"]
  BY DEF Receive
<1>2. pc[r] = "idle" /\ UNCHANGED << dbVars, reply >> BY DEF Receive
<1> DEFINE t == [tx[r] EXCEPT !.in = in]
<1>3. t \in TxType /\ t.in = in BY DEF IInv, TypeOK, TxType
<1>4. tx' = [tx EXCEPT ![r] = t] BY <1>1 DEF IInv, TypeOK
<1> HIDE DEF t
<1>5. /\ pc'[r] = IF in.op = "create" THEN "insertGroup" ELSE "find"
      /\ tx'[r].in = in /\ reply'[r] = "none" /\ group'[r] = None
  BY <1>1, <1>2, <1>3, <1>4 DEF IInv, TypeOK, Held, dbVars
<1>6. Held(r)' BY <1>1, <1>5, NoneAssumption DEF Held, Input
<1>7. reply[r] \in Codes /\ reply' = [reply EXCEPT ![r] = reply[r]]
  BY <1>2 DEF IInv, TypeOK, Codes
<1>8. pc'[r] \in Labels /\ pc' = [pc EXCEPT ![r] = pc'[r]]
  BY <1>1, <1>5 DEF Labels, IInv, TypeOK
<1> QED BY <1>2, <1>3, <1>4, <1>6, <1>7, <1>8, Unchanged, Alone

LEMMA InsertGroupKeeps == ASSUME IInv, NEW r \in Requests, InsertGroup(r) PROVE IInv'
<1> DEFINE row == [owner |-> tx[r].in.caller, status |-> "active"]
<1>1. /\ pc[r] = "insertGroup" /\ group' = [group EXCEPT ![r] = row]
      /\ Proceed(r, "insertMember") /\ UNCHANGED member
  BY DEF InsertGroup
<1>2. /\ tx[r].in \in Input /\ tx[r].in.op = "create" /\ group[r] = None /\ r \in Groups
      /\ Target(r) = r /\ reply[r] = "none" /\ tx[r].in.group = r
  BY <1>1, Where DEF IInv, Held
<1>3. row \in Row /\ row # None /\ row.owner = tx[r].in.caller
  BY <1>2, NoneAssumption DEF Row, Input
<1> HIDE DEF row
<1>4. TablesOK(r) BY <1>1, <1>2, <1>3 DEF IInv, TypeOK, TablesOK, Kept, OwnInsert
<1>5. /\ pc'[r] = "insertMember" /\ tx'[r] = tx[r] /\ reply'[r] = "none"
      /\ group'[r] = row /\ Subject(r)' = tx[r].in.caller
  BY <1>1, <1>2 DEF IInv, TypeOK, Proceed, Subject
<1>6. Held(r)' BY <1>2, <1>3, <1>5 DEF Held, Input
<1> QED BY <1>1, <1>4, <1>6, GoesOn DEF Labels

LEMMA FindGroupKeeps == ASSUME IInv, NEW r \in Requests, FindGroup(r) PROVE IInv'
<1> DEFINE row == group[Target(r)]
<1>1. pc[r] = "find" /\ UNCHANGED dbVars BY DEF FindGroup
<1>2. CASE \E c \in {"notFound", "conflict"} : Answer(r, c)
  BY <1>1, <1>2, Refuses DEF InFlight, Codes
<1>3. CASE /\ row # None
           /\ tx' = [tx EXCEPT ![r].seen = row]
           /\ pc' = [pc EXCEPT ![r] = "manage"]
           /\ UNCHANGED reply
  <2>1. row \in Row BY <1>1, <1>3, Where DEF IInv, TypeOK
  <2> DEFINE t == [tx[r] EXCEPT !.seen = row]
  <2>2. t \in TxType /\ t.in = tx[r].in /\ t.seen = row
    BY <1>1, <2>1, Where DEF TxType
  <2>3. tx' = [tx EXCEPT ![r] = t] BY <1>3 DEF IInv, TypeOK
  <2> HIDE DEF t
  <2>4. /\ pc'[r] = "manage" /\ tx'[r].in = tx[r].in /\ tx'[r].seen = row
        /\ reply'[r] = "none" /\ Target(r)' = Target(r) /\ group' = group
    BY <1>1, <1>3, <2>2, <2>3 DEF IInv, TypeOK, Held, Target, dbVars
  <2>5. Held(r)' BY <1>1, <1>3, <2>1, <2>4 DEF IInv, Held
  <2>6. reply[r] \in Codes /\ reply' = [reply EXCEPT ![r] = reply[r]]
    BY <1>3 DEF IInv, TypeOK, Codes
  <2> QED BY <1>1, <1>3, <2>2, <2>3, <2>5, <2>6, Unchanged, Alone DEF Labels
<1> QED BY <1>2, <1>3 DEF FindGroup

\* A statement that changes nothing and goes on.
LEMMA Reads ==
    ASSUME IInv, NEW r \in Requests, UNCHANGED dbVars, NEW l \in Labels, Proceed(r, l),
           pc[r] \notin {"idle", "done"}, Held(r)'
    PROVE  IInv'
BY Unchanged, GoesOn

LEMMA Local ==
    ASSUME IInv, NEW r \in Requests, NEW l, Proceed(r, l)
    PROVE  /\ pc'[r] = l /\ tx'[r] = tx[r] /\ reply'[r] = reply[r]
           /\ Target(r)' = Target(r) /\ Subject(r)' = Subject(r)
BY DEF IInv, TypeOK, Proceed, Target, Subject

LEMMA CheckManagerKeeps == ASSUME IInv, NEW r \in Requests, CheckManager(r) PROVE IInv'
<1>1. pc[r] = "manage" /\ UNCHANGED dbVars BY DEF CheckManager
<1>2. ASSUME NEW c \in {"conflict", "forbidden"}, Answer(r, c) PROVE IInv'
  BY <1>1, <1>2, Refuses DEF InFlight, Codes
<1>3. ASSUME NEW l \in {"save", "archive", "findUser", "findMember"}, Proceed(r, l),
             l = "save" => tx[r].in.op = "update",
             l = "archive" => tx[r].in.op = "archive",
             l = "findUser" => tx[r].in.op = "invite",
             l = "findMember" => tx[r].in.op = "remove" /\ tx[r].seen.owner # tx[r].in.user
      PROVE  IInv'
  <2>1. Held(r)' BY <1>1, <1>3, Local DEF IInv, Held, dbVars
  <2> QED BY <1>1, <1>3, <2>1, Reads DEF Labels
<1>4. CASE Managed(r) BY <1>2, <1>3, <1>4 DEF Managed
<1> QED BY <1>2, <1>4 DEF CheckManager

LEMMA SaveGroupKeeps == ASSUME IInv, NEW r \in Requests, SaveGroup(r) PROVE IInv'
<1>1. /\ pc[r] = "save" /\ Proceed(r, "audit") /\ UNCHANGED member
      /\ group' = [group EXCEPT ![Target(r)] = tx[r].seen]
  BY DEF SaveGroup
<1>2. /\ tx[r].seen \in Row /\ group[Target(r)] # None /\ Target(r) \in Groups
      /\ group[Target(r)].owner = tx[r].seen.owner /\ tx[r].in.op = "update"
  BY <1>1, Where DEF IInv, Held
<1>3. TablesOK(r)
  BY <1>1, <1>2, NoneAssumption, RequestsAreGroups DEF IInv, TypeOK, TablesOK, Kept, OwnInsert
<1>4. Held(r)' BY <1>1, <1>2, Local DEF IInv, Held
<1> QED BY <1>1, <1>3, <1>4, GoesOn DEF Labels

LEMMA ArchiveGroupKeeps == ASSUME IInv, NEW r \in Requests, ArchiveGroup(r) PROVE IInv'
<1> DEFINE row == [group[Target(r)] EXCEPT !.status = "archived"]
<1>1. /\ pc[r] = "archive" /\ Proceed(r, "audit") /\ UNCHANGED member
  BY DEF ArchiveGroup
<1>2. group[Target(r)] \in Row /\ Target(r) \in Groups /\ tx[r].in.op = "archive"
  BY <1>1, Where DEF IInv, TypeOK, Held
<1>3. group' = [group EXCEPT ![Target(r)] = row] BY <1>2 DEF ArchiveGroup, IInv, TypeOK
<1>4. row \in Row /\ row.owner = group[Target(r)].owner BY <1>2 DEF Row
<1> HIDE DEF row
<1>5. TablesOK(r)
  BY <1>1, <1>2, <1>3, <1>4, NoneAssumption, RequestsAreGroups
     DEF IInv, TypeOK, TablesOK, Kept, OwnInsert
<1>6. Held(r)' BY <1>1, <1>2, Local DEF IInv, Held
<1> QED BY <1>1, <1>5, <1>6, GoesOn DEF Labels

LEMMA FindUserKeeps == ASSUME IInv, NEW r \in Requests, FindUser(r) PROVE IInv'
<1>1. pc[r] = "findUser" /\ UNCHANGED dbVars BY DEF FindUser
<1>2. CASE Answer(r, "notFound") BY <1>1, <1>2, Refuses DEF InFlight, Codes
<1>3. CASE tx[r].in.user # None /\ Proceed(r, "exists")
  <2>1. tx[r].in.user \in Users BY <1>1, <1>3, Where DEF Input
  <2>2. Held(r)' BY <1>1, <1>3, <2>1, Local DEF IInv, Held, dbVars
  <2> QED BY <1>1, <1>3, <2>2, Reads DEF Labels
<1> QED BY <1>2, <1>3 DEF FindUser

LEMMA CheckExistsKeeps == ASSUME IInv, NEW r \in Requests, CheckExists(r) PROVE IInv'
<1>1. pc[r] = "exists" /\ UNCHANGED dbVars BY DEF CheckExists
<1>2. CASE Answer(r, "memberExists") BY <1>1, <1>2, Refuses DEF InFlight, Codes
<1>3. CASE Proceed(r, "insertMember")
  <2>1. tx[r].in.op = "invite" /\ Subject(r) \in Users BY <1>1 DEF IInv, Held, Subject
  <2>2. Held(r)' BY <1>1, <1>3, <2>1, Local DEF IInv, Held, dbVars
  <2> QED BY <1>1, <1>3, <2>2, Reads DEF Labels
<1> QED BY <1>2, <1>3 DEF CheckExists

\* The unique index leaves every row as it was.
LEMMA InsertMemberKeeps == ASSUME IInv, NEW r \in Requests, InsertMember(r) PROVE IInv'
<1> DEFINE g == Target(r)
           u == Subject(r)
<1>1. pc[r] = "insertMember" /\ UNCHANGED group BY DEF InsertMember
<1>2. /\ g \in Groups /\ u \in Users /\ r \in Groups /\ tx[r].in.op \in {"create", "invite"}
      /\ tx[r].in.op = "create" => /\ g = r /\ u = tx[r].in.caller
                                   /\ group[r] # None /\ group[r].owner = tx[r].in.caller
  BY <1>1, Where DEF IInv, Held, Subject
<1>3. CASE Answer(r, "error") /\ UNCHANGED member
  BY <1>1, <1>3, Refuses DEF InFlight, Codes, dbVars
<1>4. CASE /\ member[g][u] = "none" /\ Proceed(r, "audit")
           /\ member' = [member EXCEPT ![g][u] = "active"]
  <2>1. /\ member' \in [Groups -> [Users -> {"none", "active", "archived"}]]
        /\ member'[g][u] = "active"
        /\ \A h \in Groups, v \in Users : h # g \/ v # u => member'[h][v] = member[h][v]
    BY <1>2, <1>4 DEF IInv, TypeOK
  <2> HIDE DEF g, u
  <2>2. TablesOK(r) BY <1>1, <1>4, <2>1 DEF IInv, TypeOK, TablesOK, Kept, OwnInsert
  <2>3. Held(r)' BY <1>1, <1>2, <1>4, <2>1, Local DEF IInv, Held, Created
  <2> QED BY <1>4, <2>2, <2>3, GoesOn DEF Labels
<1> QED BY <1>3, <1>4 DEF InsertMember

LEMMA FindMemberKeeps == ASSUME IInv, NEW r \in Requests, FindMember(r) PROVE IInv'
<1>1. pc[r] = "findMember" /\ UNCHANGED dbVars BY DEF FindMember
<1>2. CASE Answer(r, "notFound") BY <1>1, <1>2, Refuses DEF InFlight, Codes
<1>3. CASE member[Target(r)][tx[r].in.user] # "none" /\ Proceed(r, "removeMember")
  <2>1. Held(r)' BY <1>1, <1>3, Local DEF IInv, Held, dbVars
  <2> QED BY <1>1, <1>3, <2>1, Reads DEF Labels
<1> QED BY <1>2, <1>3 DEF FindMember

LEMMA RemoveRowKeeps == ASSUME IInv, NEW r \in Requests, RemoveRow(r) PROVE IInv'
<1> DEFINE g == Target(r)
           u == tx[r].in.user
<1>1. /\ pc[r] = "removeMember" /\ UNCHANGED group /\ Proceed(r, "audit")
      /\ member' = [member EXCEPT ![g][u] = "archived"]
  BY DEF RemoveRow
<1>2. /\ g \in Groups /\ u \in Users /\ tx[r].in.op = "remove" /\ member[g][u] # "none"
      /\ group[g] # None /\ u # group[g].owner
  BY <1>1, Where DEF IInv, Held
<1>3. /\ member' \in [Groups -> [Users -> {"none", "active", "archived"}]]
      /\ member'[g][u] = "archived"
      /\ \A h \in Groups, v \in Users : h # g \/ v # u => member'[h][v] = member[h][v]
  BY <1>1, <1>2 DEF IInv, TypeOK
<1> HIDE DEF g
<1>4. TablesOK(r) BY <1>1, <1>2, <1>3 DEF IInv, TypeOK, TablesOK, Kept, OwnInsert
<1> USE DEF g
<1>5. Removed(r)' BY <1>1, <1>2, <1>3, Local DEF Removed
<1>6. Held(r)' BY <1>1, <1>2, <1>5, Local DEF IInv, Held
<1> QED BY <1>1, <1>4, <1>6, GoesOn DEF Labels

LEMMA AuditKeeps == ASSUME IInv, NEW r \in Requests, Audit(r) PROVE IInv'
<1> DEFINE t == [tx[r] EXCEPT !.seen = None]
<1>1. pc[r] = "audit" /\ UNCHANGED dbVars /\ Answer(r, "ok") BY DEF Audit
<1>2. t \in TxType /\ t.in = tx[r].in BY <1>1, Where DEF TxType
<1>3. /\ pc' = [pc EXCEPT ![r] = "done"] /\ reply' = [reply EXCEPT ![r] = "ok"]
      /\ tx' = [tx EXCEPT ![r] = t]
  BY <1>1 DEF Answer, IInv, TypeOK
<1> HIDE DEF t
<1>4. /\ pc'[r] = "done" /\ reply'[r] = "ok" /\ tx'[r].in = tx[r].in
      /\ Target(r)' = Target(r)
  BY <1>2, <1>3 DEF IInv, TypeOK, Target
<1>5. Held(r)' BY <1>1, <1>4 DEF IInv, Held, Created, Removed, dbVars
<1> QED BY <1>1, <1>2, <1>3, <1>5, Unchanged, Alone DEF Labels, Codes

LEMMA FailKeeps == ASSUME IInv, NEW r \in Requests, Fail(r) PROVE IInv'
BY Refuses DEF Fail, Codes

LEMMA StutterKeeps == ASSUME IInv, UNCHANGED vars PROVE IInv'
<1>1. TypeOK' /\ Founded' BY DEF IInv, TypeOK, Founded, vars, dbVars
<1>2. \A r \in Requests : Held(r)'
  BY DEF IInv, Held, Created, Removed, Target, Subject, vars, dbVars
<1> QED BY <1>1, <1>2 DEF IInv

LEMMA Keeps == IInv /\ [Next]_vars => IInv'
<1> SUFFICES ASSUME IInv, [Next]_vars PROVE IInv' OBVIOUS
<1>1. ASSUME NEW r \in Requests, Step(r) PROVE IInv'
  BY <1>1, InsertGroupKeeps, FindGroupKeeps, CheckManagerKeeps, SaveGroupKeeps,
     ArchiveGroupKeeps, FindUserKeeps, CheckExistsKeeps, InsertMemberKeeps, FindMemberKeeps,
     RemoveRowKeeps, AuditKeeps
     DEF Step
<1> QED BY <1>1, ReceiveKeeps, FailKeeps, StutterKeeps DEF Next

\* The inductive invariant of the group handlers, for any number of requests.
THEOREM Invariance == Spec => []IInv
BY Initially, Keeps, PTL DEF Spec

\* Rows, labels and inputs stay well formed.
THEOREM TypeCorrect == Spec => []TypeOK
BY Invariance, PTL DEF IInv

\* Who is told that his group exists stays its owner and an active member.
THEOREM CreatorStaysMember == Spec => []CreatorIsMember
<1>1. IInv => CreatorIsMember BY DEF IInv, Held, Created, CreatorIsMember, Answered
<1> QED BY <1>1, Invariance, PTL

\* No interleaving of invitations and removals brings a removed member back.
THEOREM RemovedAreOut == Spec => []RemovedStaysOut
<1>1. IInv => RemovedStaysOut BY DEF IInv, Held, Removed, RemovedStaysOut, Answered
<1> QED BY <1>1, Invariance, PTL
\* What a step shows of a group: nothing, or one step of the life cycle.
Shown(g) == [Lifecycle(g)!Next]_(Lifecycle(g)!lifecycleVars)

LEMMA Hidden == ASSUME IInv, NEW g \in Seeded, group'[g] = group[g], member'[g] = member[g]
                PROVE  Shown(g)
BY DEF Shown, Lifecycle!lifecycleVars

\* A new status is the old one, or the group is closed or reopened.
LEMMA NewStatus ==
    ASSUME IInv, NEW g \in Seeded, UNCHANGED member,
           group'[g].status \in {"active", "archived"}
    PROVE  Shown(g)
<1>1. group[g].status \in {"active", "archived"}
  BY RequestsAreGroups DEF IInv, TypeOK, Founded, Row
<1> QED BY <1>1 DEF Shown, Lifecycle!lifecycleVars, Lifecycle!Next, Lifecycle!Close,
                    Lifecycle!Reopen

LEMMA SaveShown == ASSUME IInv, NEW r \in Requests, SaveGroup(r), NEW g \in Seeded
                   PROVE  Shown(g)
<1>1. /\ pc[r] = "save" /\ UNCHANGED member /\ g \in Groups
      /\ group' = [group EXCEPT ![Target(r)] = tx[r].seen]
  BY RequestsAreGroups DEF SaveGroup
<1>2. tx[r].seen \in Row BY <1>1 DEF IInv, Held
<1>3. group[g] \in Row BY <1>1 DEF IInv, TypeOK, Founded
<1>4. group'[g] \in Row BY <1>1, <1>2, <1>3 DEF IInv, TypeOK
<1> QED BY <1>1, <1>4, NewStatus DEF Row

LEMMA ArchiveShown == ASSUME IInv, NEW r \in Requests, ArchiveGroup(r), NEW g \in Seeded
                      PROVE  Shown(g)
<1>1. /\ UNCHANGED member /\ g \in Groups
      /\ group' = [group EXCEPT ![Target(r)].status = "archived"]
  BY RequestsAreGroups DEF ArchiveGroup
<1>2. group[g] \in Row BY <1>1 DEF IInv, TypeOK, Founded
<1>3. group'[g].status \in {"active", "archived"} BY <1>1, <1>2 DEF IInv, TypeOK, Row
<1> QED BY <1>1, <1>3, NewStatus

LEMMA InsertShown == ASSUME IInv, NEW r \in Requests, InsertMember(r), NEW g \in Seeded
                     PROVE  Shown(g)
<1> DEFINE u == Subject(r)
<1>1. /\ pc[r] = "insertMember" /\ UNCHANGED group /\ g \in Groups
      /\ u \in Users /\ Target(r) \in Groups
  BY RequestsAreGroups, Where DEF InsertMember, IInv, Held
<1>2. CASE member'[g] = member[g] BY <1>1, <1>2, Hidden
<1>3. CASE member'[g] # member[g]
  <2>1. /\ member[Target(r)][u] = "none"
        /\ member' = [member EXCEPT ![Target(r)][u] = "active"]
    BY <1>3 DEF InsertMember
  <2>2. Target(r) = g BY <1>1, <1>3, <2>1 DEF IInv, TypeOK
  <2>3. member[g][u] = "none" /\ member'[g] = [member[g] EXCEPT ![u] = "active"]
    BY <1>1, <2>1, <2>2 DEF IInv, TypeOK
  <2> QED BY <1>1, <2>3 DEF Shown, Lifecycle!Next, Lifecycle!Join
<1> QED BY <1>2, <1>3

LEMMA RemoveShown == ASSUME IInv, NEW r \in Requests, RemoveRow(r), NEW g \in Seeded
                     PROVE  Shown(g)
<1> DEFINE u == tx[r].in.user
<1>1. /\ pc[r] = "removeMember" /\ UNCHANGED group /\ g \in Groups
      /\ member' = [member EXCEPT ![Target(r)][u] = "archived"]
  BY RequestsAreGroups DEF RemoveRow
<1>2. CASE Target(r) # g
  <2>1. member'[g] = member[g] BY <1>1, <1>2 DEF IInv, TypeOK
  <2> QED BY <1>1, <2>1, Hidden
<1>3. CASE Target(r) = g
  <2>1. /\ u \in Users /\ u # group[g].owner /\ member[g][u] # "none"
        /\ group[g].owner = SeedOwner[g]
    BY <1>1, <1>3 DEF IInv, Held, Founded
  <2>2. /\ member'[g] = [member[g] EXCEPT ![u] = "archived"]
        /\ member[g] \in [Users -> {"none", "active", "archived"}]
    BY <1>1, <1>3, <2>1 DEF IInv, TypeOK
  <2>3. CASE member[g][u] = "active"
    BY <1>1, <2>1, <2>2, <2>3 DEF Shown, Lifecycle!Next, Lifecycle!Leave
  <2>4. CASE member[g][u] = "archived"
    <3>1. member'[g] = member[g] BY <2>1, <2>2, <2>4
    <3> QED BY <1>1, <3>1, Hidden
  <2> QED BY <2>1, <2>2, <2>3, <2>4
<1> QED BY <1>2, <1>3

LEMMA AllShown == ASSUME IInv, [Next]_vars, NEW g \in Seeded PROVE Shown(g)
<1>1. CASE UNCHANGED dbVars BY <1>1, Hidden DEF dbVars
<1>2. ASSUME NEW r \in Requests, Step(r), ~UNCHANGED dbVars PROVE Shown(g)
  <2>1. CASE InsertGroup(r)
    <3>1. group'[g] = group[g] /\ member'[g] = member[g]
      BY <2>1, SeedAssumption, RequestsAreGroups DEF InsertGroup, IInv, TypeOK
    <3> QED BY <3>1, Hidden
  <2> QED BY <1>2, <2>1, SaveShown, ArchiveShown, InsertShown, RemoveShown
          DEF Step, FindGroup, CheckManager, FindUser, CheckExists, FindMember, Audit
<1> QED BY <1>1, <1>2 DEF Next, Receive, Fail, vars, dbVars

\* Whatever requests run at once, the groups that were there before go through
\* the life cycle the expense and settlement services take for granted.
THEOREM ImplementsLifecycle == Spec => LifecycleSpec
<1>1. Init => \A g \in Seeded : Lifecycle(g)!Init
  <2> SUFFICES ASSUME Init, NEW g \in Seeded PROVE Lifecycle(g)!Init OBVIOUS
  <2>1. group[g] = [owner |-> SeedOwner[g], status |-> "active"]
    BY RequestsAreGroups DEF Init
  <2>2. member[g] = [u \in Users |-> IF u \in SeedMembers[g] THEN "active" ELSE "none"]
    BY RequestsAreGroups DEF Init
  <2> QED BY <2>1, <2>2 DEF Lifecycle!Init
<1>2. IInv /\ [Next]_vars =>
         [\A g \in Seeded : [Lifecycle(g)!Next]_(Lifecycle(g)!lifecycleVars)]_vars
  BY AllShown DEF Shown
<1> QED BY <1>1, <1>2, Invariance, PTL DEF Spec, LifecycleSpec
=============================================================================
