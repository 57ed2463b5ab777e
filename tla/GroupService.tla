---------------------------- MODULE GroupService ----------------------------
(***************************************************************************)
(* backend/internal/service/group_service.go: Create, Update, Archive,     *)
(* InviteMember and RemoveMember, one action per SQL statement, for a set  *)
(* of concurrent requests.                                                 *)
(*                                                                         *)
(* Every statement is sent on the repositories' own handle r.db and is     *)
(* committed at once, in Create too: its transaction is begun and ended    *)
(* without a statement.  A group is identified by the request that creates *)
(* it, or by a member of Seeded when it was there before.  Names and       *)
(* descriptions are left out.                                              *)
(***************************************************************************)
EXTENDS FiniteSets

CONSTANTS
    Users,      \* registered users
    Requests,   \* HTTP requests, each handled by a goroutine
    Seeded,     \* groups created before the first request
    SeedOwner,  \* the owner of each
    SeedMembers,\* who has joined it by then
    None        \* no row, no value

ASSUME SeedAssumption ==
    /\ Requests \cap Seeded = {}
    /\ SeedOwner \in [Seeded -> Users]
    /\ SeedMembers \in [Seeded -> SUBSET Users]
    /\ \A g \in Seeded : SeedOwner[g] \in SeedMembers[g]

Groups == Requests \cup Seeded
Row    == [owner : Users, status : {"active", "archived"}]

\* The requests: who asks for what, about which group and which user.  None
\* is the username of nobody.
Input == [op : {"create", "update", "archive", "invite", "remove"},
          caller : Users, group : Groups, user : Users \cup {None}]

ASSUME NoneAssumption == None \notin Users \cup Row \cup Input

VARIABLES
    group,    \* groups: the row of an id, or None
    member,   \* group_members.status by group and user, "none" without a row
    pc,       \* the statement a request runs next
    tx,       \* its input and the group row it has read
    reply     \* its response

dbVars == << group, member >>
vars   == << group, member, pc, tx, reply >>

NoTx == [in |-> None, seen |-> None]

Target(r)   == IF tx[r].in.op = "create" THEN r ELSE tx[r].in.group
Subject(r)  == IF tx[r].in.op = "create" THEN tx[r].in.caller ELSE tx[r].in.user
InFlight(r) == pc[r] \notin {"idle", "done"}
-----------------------------------------------------------------------------
Init == /\ group = [g \in Groups |->
                      IF g \in Seeded THEN [owner |-> SeedOwner[g], status |-> "active"]
                                      ELSE None]
        /\ member = [g \in Groups |-> [u \in Users |->
                       IF g \in Seeded /\ u \in SeedMembers[g] THEN "active" ELSE "none"]]
        /\ pc = [r \in Requests |-> "idle"]
        /\ tx = [r \in Requests |-> NoTx]
        /\ reply = [r \in Requests |-> "none"]

Proceed(r, label) == pc' = [pc EXCEPT ![r] = label] /\ UNCHANGED << tx, reply >>

Answer(r, code) == /\ pc' = [pc EXCEPT ![r] = "done"]
                   /\ reply' = [reply EXCEPT ![r] = code]
                   /\ tx' = [tx EXCEPT ![r].seen = None]

\* A request arrives; its parameters are those of a group that exists, or not.
Receive(r) ==
    /\ pc[r] = "idle"
    /\ \E in \in Input :
          /\ in.op \in {"create", "update", "archive"} => in.user = None
          /\ in.op = "create" => in.group = r
          /\ in.op = "remove" => in.user # None
          /\ tx' = [tx EXCEPT ![r].in = in]
          /\ pc' = [pc EXCEPT ![r] = IF in.op = "create" THEN "insertGroup" ELSE "find"]
    /\ UNCHANGED << dbVars, reply >>

\* Create: the group's INSERT.
InsertGroup(r) ==
    /\ pc[r] = "insertGroup"
    /\ group' = [group EXCEPT ![r] = [owner |-> tx[r].in.caller, status |-> "active"]]
    /\ Proceed(r, "insertMember")
    /\ UNCHANGED member

\* After canManage; RemoveMember then looks at the owner it has read.
Managed(r) ==
    LET op == tx[r].in.op
    IN  \/ op = "update"  /\ Proceed(r, "save")
        \/ op = "archive" /\ Proceed(r, "archive")
        \/ op = "invite"  /\ Proceed(r, "findUser")
        \/ op = "remove" /\ tx[r].seen.owner = tx[r].in.user /\ Answer(r, "conflict")
        \/ op = "remove" /\ tx[r].seen.owner # tx[r].in.user /\ Proceed(r, "findMember")

\* FindByID; InviteMember refuses an archived group.
FindGroup(r) ==
    /\ pc[r] = "find"
    /\ LET row == group[Target(r)]
           archived == tx[r].in.op = "invite" /\ row # None /\ row.status # "active"
       IN  \/ row = None /\ Answer(r, "notFound")
           \/ archived /\ Answer(r, "conflict")
           \/ /\ row # None /\ ~archived
              /\ tx' = [tx EXCEPT ![r].seen = row]
              /\ pc' = [pc EXCEPT ![r] = "manage"]
              /\ UNCHANGED reply
    /\ UNCHANGED dbVars

\* canManage: the owner, or a user whose role is admin by now (UserService
\* changes roles at any time, and a failed query counts as no).
CheckManager(r) ==
    /\ pc[r] = "manage"
    /\ \/ Managed(r)
       \/ tx[r].seen.owner # tx[r].in.caller /\ Answer(r, "forbidden")
    /\ UNCHANGED dbVars

\* Update: Save, every column of the row as it was read.
SaveGroup(r) ==
    /\ pc[r] = "save"
    /\ group' = [group EXCEPT ![Target(r)] = tx[r].seen]
    /\ Proceed(r, "audit")
    /\ UNCHANGED member

\* Archive: UpdateFields, the status only.
ArchiveGroup(r) ==
    /\ pc[r] = "archive"
    /\ group' = [group EXCEPT ![Target(r)].status = "archived"]
    /\ Proceed(r, "audit")
    /\ UNCHANGED member

\* InviteMember: FindByUsername.
FindUser(r) ==
    /\ pc[r] = "findUser"
    /\ \/ tx[r].in.user = None /\ Answer(r, "notFound")
       \/ tx[r].in.user # None /\ Proceed(r, "exists")
    /\ UNCHANGED dbVars

\* InviteMember: Exists looks for an active row only.
CheckExists(r) ==
    /\ pc[r] = "exists"
    /\ LET exists == member[Target(r)][tx[r].in.user] = "active"
       IN  \/ exists /\ Answer(r, "memberExists")
           \/ ~exists /\ Proceed(r, "insertMember")
    /\ UNCHANGED dbVars

\* Mutant: an existing row is made active again.
InsertMember_Upsert(r) ==
    /\ pc[r] = "insertMember"
    /\ member' = [member EXCEPT ![Target(r)][Subject(r)] = "active"]
    /\ Proceed(r, "audit")
    /\ UNCHANGED group

\* Mutant: Create ignores that the second insert has failed.
InsertMember_IgnoreError(r) ==
    /\ pc[r] = "insertMember"
    /\ \/ /\ member[Target(r)][Subject(r)] = "none"
          /\ member' = [member EXCEPT ![Target(r)][Subject(r)] = "active"]
       \/ UNCHANGED member
    /\ Proceed(r, "audit")
    /\ UNCHANGED group

\* memberRepo.Create, of the owner by Create and of the invitee by
\* InviteMember: the unique index on (group_id, user_id) refuses a second row.
InsertMember(r) ==
    /\ pc[r] = "insertMember"
    /\ \/ /\ member[Target(r)][Subject(r)] = "none"
          /\ member' = [member EXCEPT ![Target(r)][Subject(r)] = "active"]
          /\ Proceed(r, "audit")
       \/ /\ member[Target(r)][Subject(r)] # "none"
          /\ Answer(r, "error")
          /\ UNCHANGED member
    /\ UNCHANGED group

\* RemoveMember: Find, a row of any status.
FindMember(r) ==
    /\ pc[r] = "findMember"
    /\ \/ member[Target(r)][tx[r].in.user] = "none" /\ Answer(r, "notFound")
       \/ member[Target(r)][tx[r].in.user] # "none" /\ Proceed(r, "removeMember")
    /\ UNCHANGED dbVars

\* Mutant: the row is deleted.
RemoveRow_Hard(r) ==
    /\ pc[r] = "removeMember"
    /\ member' = [member EXCEPT ![Target(r)][tx[r].in.user] = "none"]
    /\ Proceed(r, "audit")
    /\ UNCHANGED group

\* RemoveMember: UPDATE, whatever the status is by now.
RemoveRow(r) ==
    /\ pc[r] = "removeMember"
    /\ member' = [member EXCEPT ![Target(r)][tx[r].in.user] = "archived"]
    /\ Proceed(r, "audit")
    /\ UNCHANGED group

\* auditSvc.Record only logs its failures; then the handler answers.
Audit(r) == /\ pc[r] = "audit"
            /\ Answer(r, "ok")
            /\ UNCHANGED dbVars

\* A statement fails or the server stops: what has run is not undone.
Fail(r) == InFlight(r) /\ Answer(r, "error") /\ UNCHANGED dbVars

Step(r) == \/ InsertGroup(r) \/ FindGroup(r) \/ CheckManager(r)
           \/ SaveGroup(r) \/ ArchiveGroup(r)
           \/ FindUser(r) \/ CheckExists(r) \/ InsertMember(r)
           \/ FindMember(r) \/ RemoveRow(r) \/ Audit(r)

Next == \E r \in Requests : Receive(r) \/ Step(r) \/ Fail(r)

Spec == Init /\ [][Next]_vars
-----------------------------------------------------------------------------
\* The type invariant: rows, labels and inputs are well formed.
TypeOK ==
    /\ group \in [Groups -> Row \cup {None}]
    /\ member \in [Groups -> [Users -> {"none", "active", "archived"}]]
    /\ pc \in [Requests -> {"idle", "insertGroup", "find", "manage", "save",
                            "archive", "findUser", "exists", "insertMember",
                            "findMember", "removeMember", "audit", "done"}]
    /\ tx \in [Requests -> [in : Input \cup {None}, seen : Row \cup {None}]]
    /\ reply \in [Requests -> {"none", "ok", "notFound", "conflict", "forbidden",
                               "memberExists", "error"}]

Answered(r, op) == reply[r] = "ok" /\ tx[r].in.op = op

\* A group whose creator has been told that it exists has him as its owner and
\* as an active member, for good: Create only answers after both inserts, and
\* no removal, invitation or stale save takes him out.
CreatorIsMember ==
    \A r \in Requests :
        Answered(r, "create") => /\ group[r] # None
                                 /\ group[r].owner = tx[r].in.caller
                                 /\ member[r][tx[r].in.caller] = "active"

\* Who has been removed stays out: no concurrent or later invitation brings
\* him back (Exists does not see his row, but the unique index does).
RemovedStaysOut ==
    \A r \in Requests :
        Answered(r, "remove") => member[Target(r)][tx[r].in.user] = "archived"

\* A group seen by the other components behaves as GroupLifecycle says, which
\* is what ExpenseService and SettlementService take for granted.
Lifecycle(g) == INSTANCE GroupLifecycle WITH
    Owner    <- SeedOwner[g],
    Founders <- SeedMembers[g],
    status   <- group[g].status,
    member   <- member[g]

\* Each seeded group implements the abstract life cycle: the conjunction of
\* Lifecycle(g)!Spec, with the quantifier moved inside for TLC.
LifecycleSpec ==
    /\ \A g \in Seeded : Lifecycle(g)!Init
    /\ [][\A g \in Seeded :
             [Lifecycle(g)!Next]_(Lifecycle(g)!lifecycleVars)]_vars
=============================================================================
