------------------------------- MODULE Access -------------------------------
(***************************************************************************)
(* How a call reaches its handler: the client calls the gateway, which     *)
(* forwards it and waits for UPSTREAM_TIMEOUT_MS; a guard finds out who    *)
(* calls and what the roles of the caller grant; the handler runs.  Users  *)
(* and roles are rows of ms-users, which also guards ms-autorepuesto: that *)
(* service asks GET /auth/me for every call.                               *)
(*                                                                         *)
(* One action is one statement on the database of ms-users.  The handlers  *)
(* of ms-autorepuesto are one piece of work here: the other modules say    *)
(* what each of them does.                                                 *)
(***************************************************************************)
EXTENDS Naturals, FiniteSets

CONSTANTS
    Users, Roles, Calls,
    Work,               \* permissions of the handlers of ms-autorepuesto
    Asks,               \* what the calls ask for
    Admin, AdminRole,   \* the user and role of the seed script
    FirstUsers, FirstRoles  \* what earlier administration left

Administration == {"users.create", "users.update", "users.activate",
                   "users.deactivate", "roles.manage"}
Permissions == Work \cup Administration

RowStatus == {"absent", "active", "inactive"}
UserRows == [status: RowStatus, roles: SUBSET Roles]
RoleRows == [status: RowStatus, permissions: SUBSET Permissions]

WorkAsks == [op: {"work"}, needs: Work]
UserAsks == [op: {"createUser", "updateUser"}, user: Users, roles: SUBSET Roles]
SwitchAsks == [op: {"activate", "deactivate"}, user: Users]
RoleFields == {"status", "permissions"}
SavedRoles == [status: {"active", "inactive"}, permissions: SUBSET Permissions]
RoleChanges == SavedRoles \cup [status: {"active", "inactive"}]
                          \cup [permissions: SUBSET Permissions]
RoleAsks == [op: {"createRole"}, role: Roles, change: SavedRoles] \cup
            [op: {"updateRole"}, role: Roles, change: RoleChanges]

ASSUME AccessAssumption ==
    /\ Work \cap Administration = {}
    /\ Asks \subseteq WorkAsks \cup UserAsks \cup SwitchAsks \cup RoleAsks
    /\ Admin \in Users /\ AdminRole \in Roles
    /\ FirstUsers \in [Users -> UserRows]
    /\ FirstRoles \in [Roles -> RoleRows]
    /\ \A u \in Users :
           /\ \A r \in FirstUsers[u].roles : FirstRoles[r].status # "absent"
           /\ FirstUsers[u].status = "absent" => FirstUsers[u].roles = {}

VARIABLES
    users,      \* User documents: active, roles
    roles,      \* Role documents: active, permissions
    token,      \* the access token of each user
    calls,      \* the calls, from the gateway to their end
    watched     \* history: what held at some moment while the call ran

accessVars == <<users, roles, token, calls, watched>>

-----------------------------------------------------------------------------
(* Calls *)

Idle == [step |-> "idle", answer |-> "none", result |-> "none", effects |-> 0]

\* the permission a route asks for
Needs(ask) ==
    CASE ask.op = "work" -> ask.needs
      [] ask.op = "createUser" -> "users.create"
      [] ask.op = "updateUser" -> "users.update"
      [] ask.op = "activate" -> "users.activate"
      [] ask.op = "deactivate" -> "users.deactivate"
      [] ask.op \in {"createRole", "updateRole"} -> "roles.manage"

Step(c, step) == calls' = [calls EXCEPT ![c].step = step]
Finish(c, result) ==
    calls' = [calls EXCEPT ![c].step = "over", ![c].result = result]
\* the handler has written, and answers or fails on its way back
Effect(c, result) ==
    calls' = [calls EXCEPT ![c].step = "over", ![c].result = result,
                           ![c].effects = @ + 1]

\* the client calls through the gateway, with the token it has
Send(c, u, ask) ==
    /\ calls[c].step = "idle"
    /\ token[u] # "none"
    /\ calls' = [calls EXCEPT ![c] =
                    [step |-> "sent", answer |-> "none", result |-> "none",
                     effects |-> 0, by |-> u, ask |-> ask, active |-> FALSE,
                     roles |-> {}]]
    /\ UNCHANGED <<users, roles, token>>

\* the service has answered in time, and the gateway passes the answer on
Reply(c) ==
    /\ calls[c].step = "over"
    /\ calls[c].answer = "none"
    /\ calls' = [calls EXCEPT ![c].answer = calls[c].result]
    /\ UNCHANGED <<users, roles, token>>

FaultyTimeout(c) ==
    /\ calls[c].step # "idle"
    /\ calls[c].answer = "none"
    /\ Step(c, "sent")
    /\ UNCHANGED <<users, roles, token>>

\* the gateway answers 502; the service knows nothing of it and goes on
Timeout(c) ==
    /\ calls[c].step # "idle"
    /\ calls[c].answer = "none"
    /\ calls' = [calls EXCEPT ![c].answer = "502"]
    /\ UNCHANGED <<users, roles, token>>

-----------------------------------------------------------------------------
(* The guards *)

\* JwtAuthGuard: the token and the user document
ReadUser(c) ==
    LET user == users[calls[c].by] IN
    /\ calls[c].step = "sent"
    /\ IF token[calls[c].by] = "live" /\ user.status # "absent"
       THEN calls' = [calls EXCEPT ![c].step = "known",
                                   ![c].active = (user.status = "active"),
                                   ![c].roles = user.roles]
       ELSE Finish(c, "401")
    /\ UNCHANGED <<users, roles, token>>

FaultyGranted(ids) == UNION {roles[r].permissions : r \in ids}

\* toAuthUser leaves inactive roles out; PermissionsGuard joins the others
Granted(ids) ==
    UNION {roles[r].permissions :
           r \in {q \in Roles : q \in ids /\ roles[q].status = "active"}}

\* populate reads the roles in a second query; then the guards decide
ReadRoles(c) ==
    /\ calls[c].step = "known"
    /\ \/ ~calls[c].active /\ Finish(c, "401")
       \/ /\ calls[c].active
          /\ Needs(calls[c].ask) \notin Granted(calls[c].roles)
          /\ Finish(c, "403")
       \/ /\ calls[c].active
          /\ Needs(calls[c].ask) \in Granted(calls[c].roles)
          /\ Step(c, "allowed")
    /\ UNCHANGED <<users, roles, token>>

\* any error in the guard of ms-users is a 401; when ms-autorepuesto cannot ask
\* ms-users it answers 503
GuardFails(c) ==
    /\ calls[c].step \in {"sent", "known"}
    /\ \/ Finish(c, "401")
       \/ calls[c].ask.op = "work" /\ Finish(c, "503")
    /\ UNCHANGED <<users, roles, token>>

-----------------------------------------------------------------------------
(* The handlers *)

Outcomes == {"accepted", "500"}
Asked(c, op) == calls[c].step # "idle" /\ calls[c].ask.op = op

\* a handler of ms-autorepuesto commits, and may fail to tell
PerformWork(c) ==
    /\ calls[c].step = "allowed"
    /\ Asked(c, "work")
    /\ \E result \in Outcomes : Effect(c, result)
    /\ UNCHANGED <<users, roles, token>>

\* a handler refuses or fails before it has written
Refuse(c) ==
    /\ calls[c].step \in {"allowed", "checked"}
    /\ \E result \in {"4xx", "500"} : Finish(c, result)
    /\ UNCHANGED <<users, roles, token>>

FaultyValidate(c) ==
    LET ask == calls[c].ask IN
    /\ calls[c].step = "allowed"
    /\ Asked(c, "createUser") \/ Asked(c, "updateUser")
    /\ ask.op = "updateUser" => users[ask.user].status # "absent"
    /\ Step(c, "checked")
    /\ UNCHANGED <<users, roles, token>>

\* findOne and validateRoles: the roles named are counted among the active ones
Validate(c) ==
    LET ask == calls[c].ask IN
    /\ calls[c].step = "allowed"
    /\ Asked(c, "createUser") \/ Asked(c, "updateUser")
    /\ ask.op = "updateUser" => users[ask.user].status # "absent"
    /\ \A r \in ask.roles : roles[r].status = "active"
    /\ Step(c, "checked")
    /\ UNCHANGED <<users, roles, token>>

\* create: the unique email decides between two calls
CreateUser(c) ==
    LET u == calls[c].ask.user IN
    /\ calls[c].step = "checked"
    /\ Asked(c, "createUser")
    /\ users[u].status = "absent"
    /\ users' = [users EXCEPT ![u] = [status |-> "active",
                                      roles |-> calls[c].ask.roles]]
    /\ \E result \in Outcomes : Effect(c, result)
    /\ UNCHANGED <<roles, token>>

\* update: active is not among the fields it takes
UpdateUser(c) ==
    /\ calls[c].step = "checked"
    /\ Asked(c, "updateUser")
    /\ users' = [users EXCEPT ![calls[c].ask.user].roles = calls[c].ask.roles]
    /\ \E result \in Outcomes : Effect(c, result)
    /\ UNCHANGED <<roles, token>>

\* setActive
SetActive(c) ==
    LET u == calls[c].ask.user IN
    /\ calls[c].step = "allowed"
    /\ Asked(c, "activate") \/ Asked(c, "deactivate")
    /\ users[u].status # "absent"
    /\ users' = [users EXCEPT ![u].status =
                    IF Asked(c, "activate") THEN "active" ELSE "inactive"]
    /\ \E result \in Outcomes : Effect(c, result)
    /\ UNCHANGED <<roles, token>>

\* RolesService.create and update; update keeps the fields it is not given
SaveRole(c) ==
    LET ask == calls[c].ask IN
    /\ calls[c].step = "allowed"
    /\ Asked(c, "createRole") \/ Asked(c, "updateRole")
    /\ roles[ask.role].status = "absent" <=> ask.op = "createRole"
    /\ roles' = [roles EXCEPT ![ask.role] =
                    [f \in RoleFields |-> IF f \in DOMAIN ask.change
                                          THEN ask.change[f] ELSE @[f]]]
    /\ \E result \in Outcomes : Effect(c, result)
    /\ UNCHANGED <<users, token>>

-----------------------------------------------------------------------------
(* Outside the calls *)

\* login with the right password; the user is read before the password is
\* verified, but a token says nothing about what its owner may still do
Login(u) ==
    /\ users[u].status = "active"
    /\ token' = [token EXCEPT ![u] = "live"]
    /\ UNCHANGED <<users, roles, calls>>

\* JWT_ACCESS_EXPIRES_IN
Expire(u) ==
    /\ token[u] = "live"
    /\ token' = [token EXCEPT ![u] = "expired"]
    /\ UNCHANGED <<users, roles, calls>>

\* the seed script restores the administrator: first the role, then the user
SeedRole ==
    /\ roles' = [roles EXCEPT ![AdminRole] =
                    [status |-> "active", permissions |-> Permissions]]
    /\ UNCHANGED <<users, token, calls>>

SeedUser ==
    /\ roles[AdminRole].status # "absent"
    /\ users' = [users EXCEPT ![Admin] =
                    [status |-> "active", roles |-> {AdminRole}]]
    /\ UNCHANGED <<roles, token, calls>>

-----------------------------------------------------------------------------

InFlight(c) == calls[c].step \notin {"idle", "over"}

\* the roles the caller holds while active, and the roles that grant what is asked
HeldNow(c) ==
    IF users[calls[c].by].status = "active" THEN users[calls[c].by].roles ELSE {}
GrantingNow(c) ==
    {r \in Roles : /\ roles[r].status = "active"
                   /\ Needs(calls[c].ask) \in roles[r].permissions}

Watch ==
    watched' = [c \in Calls |->
        IF InFlight(c)
        THEN [held |-> watched[c].held \cup HeldNow(c),
              granting |-> watched[c].granting \cup GrantingNow(c)]
        ELSE watched[c]]

AccessInit ==
    /\ users = FirstUsers
    /\ roles = FirstRoles
    /\ token = [u \in Users |-> "none"]
    /\ calls = [c \in Calls |-> Idle]
    /\ watched = [c \in Calls |-> [held |-> {}, granting |-> {}]]

AccessNext ==
    /\ \/ \E c \in Calls :
             \/ \E u \in Users, ask \in Asks : Send(c, u, ask)
             \/ ReadUser(c) \/ ReadRoles(c) \/ GuardFails(c)
             \/ PerformWork(c) \/ Refuse(c) \/ Validate(c)
             \/ CreateUser(c) \/ UpdateUser(c) \/ SetActive(c) \/ SaveRole(c)
             \/ Reply(c) \/ Timeout(c)
       \/ \E u \in Users : Login(u) \/ Expire(u)
       \/ SeedRole \/ SeedUser
    /\ Watch

AccessSpec == AccessInit /\ [][AccessNext]_accessVars

-----------------------------------------------------------------------------
(* Properties *)

Denials == {"401", "403", "4xx", "503"}

\* The documents keep their shape: a role that was assigned exists, and a user
\* that was not created holds nothing.
AccessTypeOK ==
    /\ users \in [Users -> UserRows]
    /\ roles \in [Roles -> RoleRows]
    /\ token \in [Users -> {"none", "live", "expired"}]
    /\ \A u \in Users :
           /\ \A r \in users[u].roles : roles[r].status # "absent"
           /\ users[u].status = "absent" => users[u].roles = {} /\ token[u] = "none"
    /\ \A c \in Calls :
           /\ calls[c].step \in {"idle", "sent", "known", "allowed", "checked", "over"}
           /\ calls[c].answer \in {"none", "accepted", "500", "502"} \cup Denials
           /\ calls[c].effects \in Nat

\* A handler runs only for a caller that, since the call was sent, was active
\* with a role that, since the call was sent, granted the permission: what is
\* revoked before a call is sent is revoked for it, although the token lives on.
RevocationBinds ==
    \A c \in Calls : calls[c].effects > 0 =>
        watched[c].held \cap watched[c].granting # {}

\* What a client may conclude from an answer: accepted means done, a denial means
\* not done and never to be done, and no answer at all means done twice.
AnswerTellsEffect ==
    \A c \in Calls :
        /\ calls[c].effects <= 1
        /\ calls[c].answer = "accepted" => calls[c].effects = 1
        /\ calls[c].answer \in Denials =>
               calls[c].effects = 0 /\ calls[c].step = "over"
=============================================================================
