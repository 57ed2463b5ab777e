-------------------------- MODULE MCUserAccounts --------------------------
EXTENDS UserAccounts, TLC

CONSTANTS admin, alice, p1, p2, root

\* The bootstrap administrator, and nobody else; an UpdateProfile has cleared
\* the e-mail address it was made with.
SeedRows == root :> [name |-> admin, hash |-> p1, email |-> None, role |-> "admin"]

AnyOrder == Permutations(Requests)
=============================================================================
