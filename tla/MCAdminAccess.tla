--------------------------- MODULE MCAdminAccess ---------------------------
(* Finite instances of AdminAccess for TLC. *)
EXTENDS AdminAccess, TLC

CONSTANTS u1, u2, u3, g1, g2

SeedGroups == {"admin", "member"}
AllGroups == SeedGroups \cup {"editors"}
AllCodes == {"*", "auth.users.manage", "auth.groups.manage", "catalog.import.submit"}
RetiredCodes == {"catalog.import.submit"}

SeedCodes == [g \in SeedGroups |-> IF g = "admin" THEN {"*"} ELSE {}]

\* Administrator, or member of a group made at run time.
Memberships == {{"admin"}, {"editors"}}

\* A list that manages accounts without the wildcard.
Lists == {{"auth.users.manage", "catalog.import.submit"}}

\* For the runs that look at bans and assignments only.
AdminOrMember == {{"admin"}, {"member"}}
NoLists == {}

\* What registration assigns.
Joining == {{"member"}}

\* Accounts and callers are interchangeable.
Symmetric == Permutations(Users) \cup Permutations(Callers)
=============================================================================
