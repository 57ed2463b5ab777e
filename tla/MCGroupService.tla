-------------------------- MODULE MCGroupService --------------------------
EXTENDS GroupService, TLC

CONSTANTS alice, bob, trip

AlicesTrip == [g \in {trip} |-> alice]

BothMembers == [g \in {trip} |-> {alice, bob}]

AnyOrder == Permutations(Requests)
=============================================================================
