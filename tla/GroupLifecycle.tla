--------------------------- MODULE GroupLifecycle ---------------------------
(***************************************************************************)
(* What the group tables do as the other components see them: the status  *)
(* of one group and its membership rows.  This is the environment of the   *)
(* expense and settlement handlers and the abstract specification of       *)
(* GroupService, whose statements change these rows one at a time.         *)
(***************************************************************************)
CONSTANTS Users,    \* registered users
          Owner,    \* the group's owner_id
          Founders  \* who has an active row when the modelled period begins

VARIABLES status,   \* groups.status
          member    \* group_members.status by user, "none" without a row

lifecycleVars == << status, member >>

GroupStatus  == {"active", "archived"}
MemberStatus == {"none", "active", "archived"}

LifecycleTypeOK == /\ status \in GroupStatus
                   /\ member \in [Users -> MemberStatus]

Init == /\ status = "active"
        /\ member = [u \in Users |-> IF u \in Founders THEN "active" ELSE "none"]

\* A membership row is only ever inserted once: (group_id, user_id) is unique.
Join(u) == /\ member[u] = "none"
           /\ member' = [member EXCEPT ![u] = "active"]
           /\ UNCHANGED status

\* A removed member keeps his row; the owner is never removed.
Leave(u) == /\ member[u] = "active" /\ u # Owner
            /\ member' = [member EXCEPT ![u] = "archived"]
            /\ UNCHANGED status

Close == /\ status = "active"
         /\ status' = "archived"
         /\ UNCHANGED member

\* No operation reopens a group, but saving a group read before the archive
\* writes its old status back.
Reopen == /\ status = "archived"
          /\ status' = "active"
          /\ UNCHANGED member

Next == \/ \E u \in Users : Join(u) \/ Leave(u)
        \/ Close
        \/ Reopen

Spec == Init /\ [][Next]_lifecycleVars
=============================================================================
