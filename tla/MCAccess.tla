------------------------------ MODULE MCAccess ------------------------------
(* An administrator who changes the rights of a clerk while the clerk works. *)
EXTENDS Access, TLC

CONSTANTS admin, clerk, novice, administrator, seller

Row(status, rest) == [status |-> status, roles |-> rest]
RoleRow(status, rest) == [status |-> status, permissions |-> rest]

MCFirstUsers ==
    [u \in Users |-> CASE u = admin -> Row("active", {administrator})
                       [] u = clerk -> Row("active", {seller})
                       [] u = novice -> Row("absent", {})]
MCFirstRoles ==
    [r \in Roles |-> CASE r = administrator -> RoleRow("active", Permissions)
                       [] r = seller -> RoleRow("active", Work)
                       [] OTHER -> RoleRow("absent", {})]

MCAsks ==
    [op: {"work"}, needs: Work]
    \cup [op: {"activate", "deactivate"}, user: {clerk}]
    \cup [op: {"updateUser"}, user: {clerk}, roles: {{}, {seller}}]
    \cup [op: {"createUser"}, user: {novice}, roles: {Roles \ {administrator}}]
    \cup [op: {"updateRole"}, role: {seller},
          change: {[status |-> "inactive"], [permissions |-> {}]}]
    \cup [op: {"createRole"}, role: Roles \ {administrator, seller},
          change: {RoleRow("active", Work)}]

Symmetry == Permutations(Calls)
=============================================================================
