SPECIFICATION AccessSpec
CONSTANTS
    admin = admin
    clerk = clerk
    novice = novice
    administrator = administrator
    seller = seller
    Users = {admin, clerk, novice}
    Roles = {administrator, seller, loader}
    Calls = {c1, c2}
    Work = {"sell"}
    Asks <- MCAsks
    Admin = admin
    AdminRole = administrator
    FirstUsers <- MCFirstUsers
    FirstRoles <- MCFirstRoles
SYMMETRY Symmetry
INVARIANTS AccessTypeOK RevocationBinds AnswerTellsEffect
