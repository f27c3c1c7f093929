---------------------------- MODULE AccessProofs ----------------------------
(***************************************************************************)
(* Proofs about Access: no handler runs on revoked rights, what the client *)
(* may conclude from an answer, and that assigned roles exist, for any     *)
(* number of users, roles, calls and permissions.                          *)
(*                                                                         *)
(* RevocationBinds speaks of the end of a call.  The invariant says what   *)
(* each of its steps has established: once the user is read, the roles it  *)
(* read were held; once the roles are read, one of them grants.            *)
(***************************************************************************)
EXTENDS Access, TLAPS

RunningSteps == {"sent", "known", "allowed", "checked"}

Shaped(call) ==
    DOMAIN call = {"step", "answer", "result", "effects", "by", "ask",
                   "active", "roles"}

CallShape ==
    /\ calls = [c \in Calls |-> calls[c]]
    /\ \A c \in Calls :
           \/ calls[c] = Idle
           \/ Shaped(calls[c]) /\ calls[c].step \in RunningSteps \cup {"over"}
    /\ \A c \in Calls :
           watched[c] = [held |-> watched[c].held, granting |-> watched[c].granting]

Entitled(c) == watched[c].held \cap watched[c].granting # {}

\* what the guard has established about the caller so far
GuardSoFar(c) ==
    /\ calls[c].step = "known" /\ calls[c].active =>
           \A r \in Roles : r \in calls[c].roles => r \in watched[c].held
    /\ calls[c].step \in {"allowed", "checked"} => Entitled(c)
    /\ calls[c].effects > 0 => Entitled(c)

\* what is known of the effect before and after the end
EffectSoFar(c) ==
    /\ calls[c].step # "over" =>
           calls[c].effects = 0 /\ calls[c].answer \in {"none", "502"}
    /\ calls[c].effects \in {0, 1}
    /\ calls[c].step = "over" =>
           /\ calls[c].answer \in {"none", "502", calls[c].result}
           /\ calls[c].result \in {"accepted", "500"} \cup Denials
           /\ calls[c].result = "accepted" => calls[c].effects = 1
           /\ calls[c].result \in Denials => calls[c].effects = 0

CallInv(c) == GuardSoFar(c) /\ EffectSoFar(c)

AccessInv ==
    /\ CallShape
    /\ \A c \in Calls : CallInv(c)

-----------------------------------------------------------------------------
(* One call moves, the others stand, and the history only grows *)

\* Watch never forgets a role that was held or that granted.
LEMMA WatchedGrows ==
    ASSUME CallShape, Watch
    PROVE  /\ \A c \in Calls :
                  /\ watched'[c] = [held |-> watched'[c].held,
                                   granting |-> watched'[c].granting]
                  /\ watched[c].held \subseteq watched'[c].held
                  /\ watched[c].granting \subseteq watched'[c].granting
           /\ \A c \in Calls : Entitled(c) => Entitled(c)'
<1>1. ASSUME NEW c \in Calls
      PROVE  /\ watched'[c] = [held |-> watched'[c].held,
                              granting |-> watched'[c].granting]
             /\ watched[c].held \subseteq watched'[c].held
             /\ watched[c].granting \subseteq watched'[c].granting
  BY DEF CallShape, Watch
<1>2. ASSUME NEW c \in Calls, Entitled(c) PROVE Entitled(c)'
  BY <1>1, <1>2 DEF Entitled
<1> QED  BY <1>1, <1>2

\* While a call runs, what holds of its caller now is remembered.
LEMMA WatchedSeesNow ==
    ASSUME CallShape, Watch, NEW c \in Calls, InFlight(c)
    PROVE  HeldNow(c) \subseteq watched'[c].held /\ GrantingNow(c) \subseteq watched'[c].granting
BY DEF CallShape, Watch

\* What is known of a call stays known while the call itself does not change.
LEMMA StandingCall ==
    ASSUME CallShape, Watch, NEW c \in Calls, CallInv(c), calls'[c] = calls[c]
    PROVE  CallInv(c)'
<1>1. EffectSoFar(c)'
  BY DEF CallInv, EffectSoFar
<1>2. GuardSoFar(c)'
  BY WatchedGrows DEF CallInv, GuardSoFar
<1> QED  BY <1>1, <1>2 DEF CallInv

\* A step of one call leaves the invariant to be checked for that call alone.
LEMMA OneCallMoves ==
    ASSUME AccessInv, Watch, NEW c \in Calls, NEW next,
           calls' = [calls EXCEPT ![c] = next],
           Shaped(next), next.step \in RunningSteps \cup {"over"},
           CallInv(c)'
    PROVE  AccessInv'
<1>1. CallShape'
  <2>1. calls' = [d \in Calls |-> calls'[d]]
    BY DEF AccessInv, CallShape
  <2>2. ASSUME NEW d \in Calls
        PROVE  calls'[d] = Idle \/ (Shaped(calls'[d]) /\ calls'[d].step \in RunningSteps \cup {"over"})
    BY DEF AccessInv, CallShape
  <2> QED  BY <2>1, <2>2, WatchedGrows DEF AccessInv, CallShape
<1>2. ASSUME NEW d \in Calls PROVE CallInv(d)'
  <2>1. CASE d = c
    BY <2>1
  <2>2. CASE d # c
    <3>1. calls'[d] = calls[d]
      BY <2>2 DEF AccessInv, CallShape
    <3> QED  BY <3>1, StandingCall DEF AccessInv
  <2> QED  BY <2>1, <2>2
<1> QED  BY <1>1, <1>2 DEF AccessInv

LEMMA NoCallMoves ==
    ASSUME AccessInv, Watch, calls' = calls
    PROVE  AccessInv'
<1>1. CallShape'
  BY WatchedGrows DEF AccessInv, CallShape
<1> QED  BY <1>1, StandingCall DEF AccessInv

-----------------------------------------------------------------------------
(* The three ways a call moves on *)

Running(c) == calls[c].step \in RunningSteps

LEMMA RunningShape ==
    ASSUME AccessInv, NEW c \in Calls, Running(c)
    PROVE  /\ Shaped(calls[c])
           /\ calls[c].effects = 0
           /\ calls[c].answer \in {"none", "502"}
<1>1. calls[c] # Idle
  BY DEF Running, RunningSteps, Idle
<1>2. Shaped(calls[c])
  BY <1>1 DEF AccessInv, CallShape
<1>3. calls[c].step # "over"
  BY DEF Running, RunningSteps
<1> QED  BY <1>2, <1>3 DEF AccessInv, CallInv, EffectSoFar

\* The guard or the handler ends the call before anything was written.
LEMMA FinishKeeps ==
    ASSUME AccessInv, Watch, NEW c \in Calls, Running(c),
           NEW result \in Denials \cup {"500"}, Finish(c, result)
    PROVE  AccessInv'
<1> DEFINE next == [calls[c] EXCEPT !.step = "over", !.result = result]
<1>1. calls' = [calls EXCEPT ![c] = next]
  BY DEF Finish
<1>2. Shaped(next) /\ next.step = "over" /\ next.result = result
      /\ next.effects = 0 /\ next.answer \in {"none", "502"}
  BY RunningShape DEF Shaped
<1>3. calls'[c] = next
  BY <1>1 DEF AccessInv, CallShape
<1>4. CallInv(c)'
  BY <1>2, <1>3 DEF CallInv, GuardSoFar, EffectSoFar, Denials
<1> QED  BY <1>1, <1>2, <1>4, OneCallMoves

\* The handler writes, for a caller who is entitled.
LEMMA EffectKeeps ==
    ASSUME AccessInv, Watch, NEW c \in Calls, calls[c].step \in {"allowed", "checked"},
           NEW result \in Outcomes, Effect(c, result)
    PROVE  AccessInv'
<1> DEFINE next == [calls[c] EXCEPT !.step = "over", !.result = result,
                                    !.effects = @ + 1]
<1>1. calls' = [calls EXCEPT ![c] = next]
  BY DEF Effect
<1>2. Running(c)
  BY DEF Running, RunningSteps
<1>3. Shaped(next) /\ next.step = "over" /\ next.result = result
      /\ next.effects = 1 /\ next.answer \in {"none", "502"}
  BY <1>2, RunningShape DEF Shaped
<1>4. calls'[c] = next
  BY <1>1 DEF AccessInv, CallShape
<1>5. Entitled(c)'
  BY WatchedGrows DEF AccessInv, CallInv, GuardSoFar
<1>6. CallInv(c)'
  BY <1>3, <1>4, <1>5 DEF CallInv, GuardSoFar, EffectSoFar, Denials, Outcomes
<1> QED  BY <1>1, <1>3, <1>6, OneCallMoves

\* The call is let through, or its handler has made its checks.
LEMMA StepKeeps ==
    ASSUME AccessInv, Watch, NEW c \in Calls, Running(c),
           NEW step \in {"allowed", "checked"}, Step(c, step), Entitled(c)'
    PROVE  AccessInv'
<1> DEFINE next == [calls[c] EXCEPT !.step = step]
<1>1. calls' = [calls EXCEPT ![c] = next]
  BY DEF Step
<1>2. Shaped(next) /\ next.step = step
      /\ next.effects = 0 /\ next.answer \in {"none", "502"}
  BY RunningShape DEF Shaped
<1>3. calls'[c] = next
  BY <1>1 DEF AccessInv, CallShape
<1>4. CallInv(c)'
  BY <1>2, <1>3 DEF CallInv, GuardSoFar, EffectSoFar
<1> QED  BY <1>1, <1>2, <1>4, OneCallMoves DEF RunningSteps

-----------------------------------------------------------------------------
(* The actions *)

LEMMA SendKeeps ==
    ASSUME AccessInv, Watch, NEW c \in Calls, NEW u \in Users, NEW ask \in Asks,
           Send(c, u, ask)
    PROVE  AccessInv'
<1> DEFINE next == [step |-> "sent", answer |-> "none", result |-> "none",
                    effects |-> 0, by |-> u, ask |-> ask, active |-> FALSE,
                    roles |-> {}]
<1>1. calls' = [calls EXCEPT ![c] = next]
  BY DEF Send
<1>2. Shaped(next)
  BY DEF Shaped
<1>3. calls'[c] = next
  BY <1>1 DEF AccessInv, CallShape
<1>4. CallInv(c)'
  BY <1>3 DEF CallInv, GuardSoFar, EffectSoFar
<1> QED  BY <1>1, <1>2, <1>4, OneCallMoves DEF RunningSteps

LEMMA AnswerKeeps ==
    ASSUME AccessInv, Watch, NEW c \in Calls, Reply(c) \/ Timeout(c)
    PROVE  AccessInv'
<1> DEFINE given == IF Reply(c) THEN calls[c].result ELSE "502"
           next == [calls[c] EXCEPT !.answer = given]
<1>1. calls' = [calls EXCEPT ![c] = next] /\ calls[c].step # "idle"
      /\ ((given = calls[c].result /\ calls[c].step = "over") \/ given = "502")
  BY DEF Reply, Timeout
<1>2. Shaped(calls[c]) /\ calls[c].step \in RunningSteps \cup {"over"}
  BY <1>1 DEF AccessInv, CallShape, Idle
<1>3. /\ Shaped(next)
      /\ next.step = calls[c].step /\ next.result = calls[c].result
      /\ next.effects = calls[c].effects /\ next.answer = given
      /\ next.active = calls[c].active /\ next.roles = calls[c].roles
  BY <1>2 DEF Shaped
<1>4. calls'[c] = next
  BY <1>1 DEF AccessInv, CallShape
<1> HIDE DEF next, given
<1>5. EffectSoFar(c)'
  BY <1>1, <1>3, <1>4 DEF AccessInv, CallInv, EffectSoFar
<1>6. GuardSoFar(c)'
  BY <1>3, <1>4, WatchedGrows DEF AccessInv, CallInv, GuardSoFar
<1> QED  BY <1>1, <1>2, <1>3, <1>5, <1>6, OneCallMoves DEF CallInv

\* The roles the guard reads with the user are held at that moment.
LEMMA ReadUserKeeps ==
    ASSUME AccessInv, Watch, NEW c \in Calls, ReadUser(c)
    PROVE  AccessInv'
<1>1. Running(c) /\ calls[c].step = "sent"
  BY DEF ReadUser, Running, RunningSteps
<1>2. CASE Finish(c, "401")
  BY <1>1, <1>2, FinishKeeps DEF Denials
<1>3. CASE ~Finish(c, "401")
  <2> DEFINE user == users[calls[c].by]
             next == [calls[c] EXCEPT !.step = "known", !.roles = user.roles,
                                      !.active = (user.status = "active")]
  <2>1. calls' = [calls EXCEPT ![c] = next]
    BY <1>3 DEF ReadUser
  <2>2. /\ Shaped(next) /\ next.step = "known"
        /\ next.effects = 0 /\ next.answer \in {"none", "502"}
        /\ next.roles = user.roles /\ next.active = (user.status = "active")
    BY <1>1, RunningShape DEF Shaped
  <2>3. calls'[c] = next
    BY <2>1 DEF AccessInv, CallShape
  <2>4. user.status = "active" => user.roles \subseteq watched'[c].held
    BY <1>1, WatchedSeesNow DEF AccessInv, InFlight, HeldNow
  <2>5. next.active => \A r \in Roles : r \in next.roles => r \in watched'[c].held
    BY <2>2, <2>4
  <2> HIDE DEF next, user
  <2>6. EffectSoFar(c)'
    BY <2>2, <2>3 DEF EffectSoFar
  <2>7. next.step \notin {"allowed", "checked"} /\ ~(next.effects > 0)
    BY <2>2
  <2>8. GuardSoFar(c)'
    BY <2>3, <2>5, <2>7 DEF GuardSoFar
  <2> QED  BY <2>1, <2>2, <2>6, <2>8, OneCallMoves DEF RunningSteps, CallInv
<1> QED  BY <1>2, <1>3

\* A role that the guard read with the user grants what is asked at the moment
\* the roles are read: it is both held and granting in the history.
LEMMA ReadRolesKeeps ==
    ASSUME AccessInv, Watch, NEW c \in Calls, ReadRoles(c)
    PROVE  AccessInv'
<1>1. Running(c) /\ calls[c].step = "known"
  BY DEF ReadRoles, Running, RunningSteps
<1>2. CASE Finish(c, "401") \/ Finish(c, "403")
  BY <1>1, <1>2, FinishKeeps DEF Denials
<1>3. CASE /\ calls[c].active
           /\ Needs(calls[c].ask) \in Granted(calls[c].roles)
           /\ Step(c, "allowed")
  <2>1. PICK r \in Roles : /\ r \in calls[c].roles /\ roles[r].status = "active"
                           /\ Needs(calls[c].ask) \in roles[r].permissions
    BY <1>3 DEF Granted
  <2>2. r \in watched[c].held
    BY <1>1, <1>3, <2>1 DEF AccessInv, CallInv, GuardSoFar
  <2>3. r \in watched'[c].granting
    BY <1>1, <2>1, WatchedSeesNow DEF AccessInv, InFlight, GrantingNow
  <2>4. Entitled(c)'
    BY <2>2, <2>3, WatchedGrows DEF AccessInv, Entitled
  <2> QED  BY <1>1, <1>3, <2>4, StepKeeps
<1> QED  BY <1>2, <1>3 DEF ReadRoles

LEMMA GuardFailsKeeps ==
    ASSUME AccessInv, Watch, NEW c \in Calls, GuardFails(c)
    PROVE  AccessInv'
<1>1. Running(c)
  BY DEF GuardFails, Running, RunningSteps
<1>2. CASE Finish(c, "401")
  BY <1>1, <1>2, FinishKeeps DEF Denials
<1>3. CASE Finish(c, "503")
  BY <1>1, <1>3, FinishKeeps DEF Denials
<1> QED  BY <1>2, <1>3 DEF GuardFails

\* Every handler acts for a call its guard has let through.
LEMMA HandlersKeep ==
    ASSUME AccessInv, Watch, NEW c \in Calls,
           \/ PerformWork(c) \/ CreateUser(c) \/ UpdateUser(c)
           \/ SetActive(c) \/ SaveRole(c)
    PROVE  AccessInv'
<1>1. calls[c].step \in {"allowed", "checked"}
  BY DEF PerformWork, CreateUser, UpdateUser, SetActive, SaveRole
<1>2. \E result \in Outcomes : Effect(c, result)
  BY DEF PerformWork, CreateUser, UpdateUser, SetActive, SaveRole
<1> QED  BY <1>1, <1>2, EffectKeeps

LEMMA RefuseKeeps ==
    ASSUME AccessInv, Watch, NEW c \in Calls, Refuse(c)
    PROVE  AccessInv'
<1>1. Running(c)
  BY DEF Refuse, Running, RunningSteps
<1>2. PICK result \in {"4xx", "500"} : Finish(c, result)
  BY DEF Refuse
<1> QED  BY <1>1, <1>2, FinishKeeps DEF Denials

LEMMA ValidateKeeps ==
    ASSUME AccessInv, Watch, NEW c \in Calls, Validate(c)
    PROVE  AccessInv'
<1>1. Running(c) /\ calls[c].step = "allowed" /\ Step(c, "checked")
  BY DEF Validate, Running, RunningSteps
<1>2. Entitled(c)'
  BY <1>1, WatchedGrows DEF AccessInv, CallInv, GuardSoFar
<1> QED  BY <1>1, <1>2, StepKeeps

LEMMA ElsewhereKeeps ==
    ASSUME AccessInv, Watch,
           (\E u \in Users : Login(u) \/ Expire(u)) \/ SeedRole \/ SeedUser
    PROVE  AccessInv'
<1>1. calls' = calls
  BY DEF Login, Expire, SeedRole, SeedUser
<1> QED  BY <1>1, NoCallMoves

-----------------------------------------------------------------------------
(* The theorems *)

LEMMA AccessInvInit == AccessInit => AccessInv
BY DEF AccessInit, AccessInv, CallShape, CallInv, GuardSoFar, EffectSoFar, Idle

LEMMA AccessInvStep == AccessInv /\ [AccessNext]_accessVars => AccessInv'
<1> SUFFICES ASSUME AccessInv, [AccessNext]_accessVars PROVE AccessInv'
  OBVIOUS
<1>1. CASE UNCHANGED accessVars
  BY <1>1 DEF accessVars, AccessInv, CallShape, CallInv, GuardSoFar,
              EffectSoFar, Entitled
<1>2. CASE AccessNext
  <2>1. Watch
    BY <1>2 DEF AccessNext
  <2>2. ASSUME NEW c \in Calls, NEW u \in Users, NEW ask \in Asks, Send(c, u, ask)
        PROVE  AccessInv'
    BY <2>1, <2>2, SendKeeps
  <2>3. ASSUME NEW c \in Calls, ReadUser(c) \/ ReadRoles(c) \/ GuardFails(c)
        PROVE  AccessInv'
    BY <2>1, <2>3, ReadUserKeeps, ReadRolesKeeps, GuardFailsKeeps
  <2>4. ASSUME NEW c \in Calls,
               PerformWork(c) \/ CreateUser(c) \/ UpdateUser(c)
               \/ SetActive(c) \/ SaveRole(c)
        PROVE  AccessInv'
    BY <2>1, <2>4, HandlersKeep
  <2>5. ASSUME NEW c \in Calls, Refuse(c) \/ Validate(c)
        PROVE  AccessInv'
    BY <2>1, <2>5, RefuseKeeps, ValidateKeeps
  <2>6. ASSUME NEW c \in Calls, Reply(c) \/ Timeout(c)
        PROVE  AccessInv'
    BY <2>1, <2>6, AnswerKeeps
  <2> QED  BY <1>2, <2>1, <2>2, <2>3, <2>4, <2>5, <2>6, ElsewhereKeeps DEF AccessNext
<1> QED  BY <1>1, <1>2

\* Whatever is revoked before a call is sent binds that call: a handler runs
\* only for a caller who, since then, held a role that, since then, granted it.
THEOREM RevokedNeverActs == AccessSpec => []RevocationBinds
<1>1. AccessInv => RevocationBinds
  BY DEF AccessInv, CallInv, GuardSoFar, Entitled, RevocationBinds
<1> QED  BY <1>1, AccessInvInit, AccessInvStep, PTL DEF AccessSpec

\* A client that is told "done" finds it done, one that is denied finds nothing
\* done, now or later, and no call is carried out twice.
THEOREM AnswersAreTrue == AccessSpec => []AnswerTellsEffect
<1>1. AccessInv => AnswerTellsEffect
  <2> SUFFICES ASSUME AccessInv, NEW c \in Calls
               PROVE  /\ calls[c].effects <= 1
                      /\ calls[c].answer = "accepted" => calls[c].effects = 1
                      /\ calls[c].answer \in Denials =>
                             calls[c].effects = 0 /\ calls[c].step = "over"
    BY DEF AnswerTellsEffect
  <2>1. EffectSoFar(c)
    BY DEF AccessInv, CallInv
  <2> QED  BY <2>1 DEF EffectSoFar, Denials
<1> QED  BY <1>1, AccessInvInit, AccessInvStep, PTL DEF AccessSpec
-----------------------------------------------------------------------------
(* The rows of users and roles *)

\* A role that is assigned exists, and a user who does not exist holds nothing.
RowsFit(us, rs, tk) ==
    /\ us \in [Users -> UserRows]
    /\ rs \in [Roles -> RoleRows]
    /\ tk \in [Users -> {"none", "live", "expired"}]
    /\ \A u \in Users :
           /\ \A r \in us[u].roles : rs[r].status # "absent"
           /\ us[u].status = "absent" => us[u].roles = {} /\ tk[u] = "none"

\* Rows that exist stay.
RowsStay(rows, rows2, ids) ==
    \A x \in ids : rows[x].status # "absent" => rows2[x].status # "absent"

\* Between the check of the roles and the save no role and no user disappears.
AskFits(call, us, rs) ==
    /\ call.step # "idle" => call.ask \in Asks
    /\ call.step = "checked" =>
           /\ call.ask.op \in {"createUser", "updateUser"}
           /\ \A r \in call.ask.roles : rs[r].status # "absent"
           /\ call.ask.op = "updateUser" => us[call.ask.user].status # "absent"

RowsInv ==
    /\ AccessInv
    /\ RowsFit(users, roles, token)
    /\ \A c \in Calls : AskFits(calls[c], users, roles)

LEMMA AskShapes ==
    ASSUME NEW ask \in Asks
    PROVE  /\ ask.op \in {"createUser", "updateUser"} =>
                  ask.user \in Users /\ ask.roles \in SUBSET Roles
           /\ ask.op \in {"activate", "deactivate"} => ask.user \in Users
           /\ ask.op = "createRole" => ask.role \in Roles /\ ask.change \in SavedRoles
           /\ ask.op = "updateRole" => ask.role \in Roles /\ ask.change \in RoleChanges
<1>1. ask \in WorkAsks \/ ask \in UserAsks \/ ask \in SwitchAsks \/ ask \in RoleAsks
  BY AccessAssumption
<1>2. CASE ask \in WorkAsks
  BY <1>2 DEF WorkAsks
<1>3. CASE ask \in UserAsks
  BY <1>3 DEF UserAsks
<1>4. CASE ask \in SwitchAsks
  BY <1>4 DEF SwitchAsks
<1>5. CASE ask \in RoleAsks
  BY <1>5 DEF RoleAsks
<1> QED  BY <1>1, <1>2, <1>3, <1>4, <1>5

LEMMA UserSaved ==
    ASSUME NEW us, NEW rs, NEW tk, RowsFit(us, rs, tk), NEW u \in Users,
           NEW row \in UserRows, row.status # "absent",
           \A r \in row.roles : rs[r].status # "absent"
    PROVE  /\ RowsFit([us EXCEPT ![u] = row], rs, tk)
           /\ RowsStay(us, [us EXCEPT ![u] = row], Users)
<1> DEFINE us2 == [us EXCEPT ![u] = row]
<1>1. us2 \in [Users -> UserRows] /\ us2[u] = row /\ \A v \in Users \ {u} : us2[v] = us[v]
  BY DEF RowsFit
<1> HIDE DEF us2
<1>2. RowsFit(us2, rs, tk) /\ RowsStay(us, us2, Users)
  BY <1>1 DEF RowsFit, RowsStay
<1> QED  BY <1>2 DEF us2

LEMMA RoleSaved ==
    ASSUME NEW us, NEW rs, NEW tk, RowsFit(us, rs, tk), NEW q \in Roles,
           NEW row \in RoleRows, row.status # "absent"
    PROVE  /\ RowsFit(us, [rs EXCEPT ![q] = row], tk)
           /\ RowsStay(rs, [rs EXCEPT ![q] = row], Roles)
<1> DEFINE rs2 == [rs EXCEPT ![q] = row]
<1>1. rs2 \in [Roles -> RoleRows] /\ rs2[q] = row /\ \A v \in Roles \ {q} : rs2[v] = rs[v]
  BY DEF RowsFit
<1>2. \A u \in Users : us[u].roles \in SUBSET Roles
  BY DEF RowsFit, UserRows
<1> HIDE DEF rs2
<1>3. RowsStay(rs, rs2, Roles)
  BY <1>1 DEF RowsStay
<1>4. RowsFit(us, rs2, tk)
  BY <1>1, <1>2, <1>3 DEF RowsFit, RowsStay
<1> QED  BY <1>3, <1>4 DEF rs2

LEMMA TokenSet ==
    ASSUME NEW us, NEW rs, NEW tk, RowsFit(us, rs, tk), NEW u \in Users,
           us[u].status # "absent", NEW x \in {"live", "expired"}
    PROVE  RowsFit(us, rs, [tk EXCEPT ![u] = x])
BY DEF RowsFit

\* A call that stays what it asked stays fitting while rows stay.
LEMMA AskStillFits ==
    ASSUME NEW call, NEW call2, NEW us, NEW us2, NEW rs, NEW rs2,
           AskFits(call, us, rs), RowsStay(us, us2, Users), RowsStay(rs, rs2, Roles),
           call2.step # "idle" => call.step # "idle" /\ call2.ask = call.ask,
           call2.step = "checked" => call.step = "checked"
    PROVE  AskFits(call2, us2, rs2)
<1>1. call2.step # "idle" => call2.ask \in Asks
  BY DEF AskFits
<1>2. ASSUME call2.step = "checked"
      PROVE  /\ call2.ask.op \in {"createUser", "updateUser"}
             /\ \A r \in call2.ask.roles : rs2[r].status # "absent"
             /\ call2.ask.op = "updateUser" => us2[call2.ask.user].status # "absent"
  <2>1. call.step = "checked" /\ call2.ask = call.ask /\ call.ask \in Asks
    BY <1>2 DEF AskFits
  <2>2. call.ask.op \in {"createUser", "updateUser"}
    BY <2>1 DEF AskFits
  <2>3. call.ask.user \in Users /\ call.ask.roles \in SUBSET Roles
    BY <2>1, <2>2, AskShapes
  <2> QED  BY <2>1, <2>2, <2>3 DEF AskFits, RowsStay
<1> QED  BY <1>1, <1>2 DEF AskFits

\* What the steps of a call leave of what was asked.
AsksStay(checked) ==
    \A d \in Calls :
        /\ calls'[d].step # "idle" => calls[d].step # "idle" /\ calls'[d].ask = calls[d].ask
        /\ calls'[d].step = "checked" => calls[d].step = "checked" \/ d \in checked

LEMMA OneAskStays ==
    ASSUME AccessInv, NEW c \in Calls, NEW next, calls' = [calls EXCEPT ![c] = next],
           calls[c].step # "idle", next.ask = calls[c].ask, NEW checked,
           next.step = "checked" => calls[c].step = "checked" \/ c \in checked
    PROVE  AsksStay(checked)
<1>1. calls'[c] = next /\ \A d \in Calls \ {c} : calls'[d] = calls[d]
  BY DEF AccessInv, CallShape
<1> QED  BY <1>1 DEF AsksStay

LEMMA CallKeepsAsk ==
    ASSUME AccessInv, NEW c \in Calls, calls[c].step # "idle",
           \/ ReadUser(c) \/ ReadRoles(c) \/ GuardFails(c) \/ PerformWork(c) \/ Refuse(c)
           \/ Validate(c) \/ CreateUser(c) \/ UpdateUser(c) \/ SetActive(c) \/ SaveRole(c)
           \/ Reply(c) \/ Timeout(c)
    PROVE  AsksStay({d \in {c} : Validate(c)})
<1> DEFINE checked == {d \in {c} : Validate(c)}
<1>1. DOMAIN calls[c] = {"step", "answer", "result", "effects", "by", "ask", "active", "roles"}
  BY DEF AccessInv, CallShape, Shaped, Idle
<1>2. ASSUME NEW result, Finish(c, result) \/ Effect(c, result) PROVE AsksStay(checked)
  <2>1. CASE Finish(c, result)
    <3> DEFINE next == [calls[c] EXCEPT !.step = "over", !.result = result]
    <3>1. next.step = "over" /\ next.ask = calls[c].ask
      BY <1>1
    <3>2. calls' = [calls EXCEPT ![c] = next]
      BY <2>1 DEF Finish
    <3> HIDE DEF next, checked
    <3> QED  BY <3>1, <3>2, OneAskStays
  <2>2. CASE Effect(c, result)
    <3> DEFINE next == [calls[c] EXCEPT !.step = "over", !.result = result, !.effects = @ + 1]
    <3>1. next.step = "over" /\ next.ask = calls[c].ask
      BY <1>1
    <3>2. calls' = [calls EXCEPT ![c] = next]
      BY <2>2 DEF Effect
    <3> HIDE DEF next, checked
    <3> QED  BY <3>1, <3>2, OneAskStays
  <2> QED  BY <1>2, <2>1, <2>2
<1>3. ASSUME Step(c, "allowed") PROVE AsksStay(checked)
  <2> DEFINE next == [calls[c] EXCEPT !.step = "allowed"]
  <2>1. next.step = "allowed" /\ next.ask = calls[c].ask /\ calls' = [calls EXCEPT ![c] = next]
    BY <1>1, <1>3 DEF Step
  <2> HIDE DEF next, checked
  <2> QED  BY <2>1, OneAskStays
<1>4. ASSUME Validate(c) PROVE AsksStay(checked)
  <2> DEFINE next == [calls[c] EXCEPT !.step = "checked"]
  <2>1. next.ask = calls[c].ask /\ calls' = [calls EXCEPT ![c] = next] /\ c \in checked
    BY <1>1, <1>4 DEF Step, Validate
  <2> HIDE DEF next, checked
  <2> QED  BY <2>1, OneAskStays
<1>5. ASSUME ReadUser(c), ~Finish(c, "401") PROVE AsksStay(checked)
  <2> DEFINE user == users[calls[c].by]
             next == [calls[c] EXCEPT !.step = "known", !.roles = user.roles,
                                      !.active = (user.status = "active")]
  <2>1. calls' = [calls EXCEPT ![c] = next]
    BY <1>5 DEF ReadUser
  <2>2. next.step = "known" /\ next.ask = calls[c].ask
    BY <1>1
  <2> HIDE DEF next, checked
  <2> QED  BY <2>1, <2>2, OneAskStays
<1>6. ASSUME Reply(c) \/ Timeout(c) PROVE AsksStay(checked)
  <2> DEFINE given == IF Reply(c) THEN calls[c].result ELSE "502"
             next == [calls[c] EXCEPT !.answer = given]
  <2>1. calls' = [calls EXCEPT ![c] = next]
    BY <1>6 DEF Reply, Timeout
  <2>2. next.step = calls[c].step /\ next.ask = calls[c].ask
    BY <1>1
  <2> HIDE DEF next, checked, given
  <2> QED  BY <2>1, <2>2, OneAskStays
<1> HIDE DEF checked
<1>7. ReadUser(c) \/ ReadRoles(c) \/ GuardFails(c) => AsksStay(checked)
  BY <1>2, <1>3, <1>5 DEF ReadRoles, GuardFails
<1>8. PerformWork(c) \/ Refuse(c) \/ CreateUser(c) \/ UpdateUser(c) \/ SetActive(c)
      \/ SaveRole(c) => AsksStay(checked)
  BY <1>2 DEF PerformWork, Refuse, CreateUser, UpdateUser, SetActive, SaveRole
<1> QED  BY <1>4, <1>6, <1>7, <1>8 DEF checked

\* The handlers of users and roles save rows that fit.
LEMMA HandlersSave ==
    ASSUME RowsInv, NEW c \in Calls,
           CreateUser(c) \/ UpdateUser(c) \/ SetActive(c) \/ SaveRole(c)
    PROVE  /\ RowsFit(users', roles', token')
           /\ RowsStay(users, users', Users) /\ RowsStay(roles, roles', Roles)
<1> DEFINE ask == calls[c].ask
<1>1. calls[c].step \in {"allowed", "checked"} /\ token' = token
  BY DEF CreateUser, UpdateUser, SetActive, SaveRole
<1>2. ask \in Asks /\ RowsFit(users, roles, token)
  BY <1>1 DEF RowsInv, AskFits
<1>3. RowsStay(users, users, Users) /\ RowsStay(roles, roles, Roles)
  BY DEF RowsStay
<1>4. CASE CreateUser(c) \/ UpdateUser(c)
  <2>1. /\ ask.op \in {"createUser", "updateUser"} /\ calls[c].step = "checked"
        /\ roles' = roles
    BY <1>4 DEF CreateUser, UpdateUser, Asked
  <2>2. ask.user \in Users /\ ask.roles \in SUBSET Roles
    BY <1>2, <2>1, AskShapes
  <2>3. \A r \in ask.roles : roles[r].status # "absent"
    BY <2>1 DEF RowsInv, AskFits
  <2>4. PICK row \in UserRows : /\ row.status # "absent" /\ row.roles = ask.roles
                               /\ users' = [users EXCEPT ![ask.user] = row]
    <3>1. CASE CreateUser(c)
      <4> DEFINE row == [status |-> "active", roles |-> ask.roles]
      <4>1. row \in UserRows /\ row.status # "absent" /\ row.roles = ask.roles
        BY <2>2 DEF UserRows, RowStatus
      <4>2. users' = [users EXCEPT ![ask.user] = row]
        BY <3>1 DEF CreateUser
      <4> QED  BY <4>1, <4>2
    <3>2. CASE UpdateUser(c)
      <4> DEFINE row == [users[ask.user] EXCEPT !.roles = ask.roles]
      <4>1. ask.op = "updateUser"
        BY <3>2 DEF UpdateUser, Asked
      <4>2. users[ask.user] \in UserRows /\ users[ask.user].status # "absent"
        BY <2>1, <2>2, <4>1 DEF RowsInv, AskFits, RowsFit
      <4>3. row \in UserRows /\ row.status # "absent" /\ row.roles = ask.roles
        BY <2>2, <4>2 DEF UserRows
      <4>4. users' = [users EXCEPT ![ask.user] = row]
        BY <3>2 DEF UpdateUser
      <4> QED  BY <4>3, <4>4
    <3> QED  BY <1>4, <3>1, <3>2
  <2> HIDE DEF ask
  <2> QED  BY <1>1, <1>2, <1>3, <2>1, <2>2, <2>3, <2>4, UserSaved
<1>5. CASE SetActive(c)
  <2>1. /\ ask.op \in {"activate", "deactivate"} /\ roles' = roles
        /\ users[ask.user].status # "absent"
    BY <1>5 DEF SetActive, Asked
  <2>2. ask.user \in Users
    BY <1>2, <2>1, AskShapes
  <2> DEFINE status == IF Asked(c, "activate") THEN "active" ELSE "inactive"
             row == [users[ask.user] EXCEPT !.status = status]
  <2>3. users[ask.user] \in UserRows /\ \A r \in users[ask.user].roles : roles[r].status # "absent"
    BY <2>2 DEF RowsInv, RowsFit
  <2>4. status \in {"active", "inactive"}
    OBVIOUS
  <2>5. users' = [users EXCEPT ![ask.user] = row]
    BY <1>5 DEF SetActive
  <2> HIDE DEF status
  <2>6. row \in UserRows /\ row.status # "absent" /\ \A r \in row.roles : roles[r].status # "absent"
    BY <2>3, <2>4 DEF UserRows, RowStatus
  <2> HIDE DEF row, ask
  <2> QED  BY <1>1, <1>2, <1>3, <2>1, <2>2, <2>5, <2>6, UserSaved
<1>6. CASE SaveRole(c)
  <2> DEFINE old == roles[ask.role]
             row == [f \in RoleFields |-> IF f \in DOMAIN ask.change THEN ask.change[f] ELSE old[f]]
  <2>1. /\ ask.op \in {"createRole", "updateRole"} /\ users' = users
        /\ old.status = "absent" <=> ask.op = "createRole"
        /\ roles' = [roles EXCEPT ![ask.role] = row]
    BY <1>6 DEF SaveRole, Asked
  <2>2. ask.role \in Roles /\ old \in RoleRows
    BY <1>2, <2>1, AskShapes DEF RowsFit
  <2>3. /\ ask.op = "createRole" => ask.change \in SavedRoles
        /\ ask.op = "updateRole" => ask.change \in RoleChanges
    BY <1>2, AskShapes
  <2> HIDE DEF old, ask
  <2>4. row["status"] \in {"active", "inactive"} /\ row["permissions"] \in SUBSET Permissions
    <3>1. CASE ask.change \in SavedRoles
      BY <3>1 DEF SavedRoles, RoleFields
    <3>2. CASE ask.change \in [status: {"active", "inactive"}]
      BY <2>2, <3>2 DEF RoleFields, RoleRows
    <3>3. CASE ask.change \in [permissions: SUBSET Permissions] /\ old.status # "absent"
      BY <2>2, <3>3 DEF RoleFields, RoleRows, RowStatus
    <3> QED  BY <2>1, <2>3, <3>1, <3>2, <3>3 DEF RoleChanges
  <2>5. row \in RoleRows /\ row.status # "absent"
    <3>1. DOMAIN row = {"status", "permissions"}
      BY DEF RoleFields
    <3>2. row = [f \in {"status", "permissions"} |-> row[f]]
      BY DEF RoleFields
    <3> HIDE DEF row
    <3>3. row = [status |-> row["status"], permissions |-> row["permissions"]]
      BY <3>2
    <3> QED  BY <2>4, <3>3 DEF RoleRows, RowStatus
  <2> HIDE DEF row
  <2> QED  BY <1>1, <1>2, <1>3, <2>1, <2>2, <2>5, RoleSaved
<1> QED  BY <1>4, <1>5, <1>6

LEMMA RowsInvStep ==
    ASSUME RowsInv, [AccessNext]_accessVars PROVE RowsInv'
<1>1. AccessInv'
  BY AccessInvStep DEF RowsInv
<1>2. ASSUME NEW d \in Calls PROVE RowsStay(users, users, Users) /\ RowsStay(roles, roles, Roles)
  BY DEF RowsStay
<1>3. ASSUME RowsFit(users', roles', token'),
             RowsStay(users, users', Users), RowsStay(roles, roles', Roles),
             calls' = calls
      PROVE  RowsInv'
  BY <1>1, <1>3, AskStillFits DEF RowsInv
<1>4. ASSUME NEW c \in Calls, NEW u \in Users, NEW ask \in Asks, Send(c, u, ask) PROVE RowsInv'
  <2>1. users' = users /\ roles' = roles /\ token' = token
    BY <1>4 DEF Send
  <2>2. \A d \in Calls \ {c} : calls'[d] = calls[d]
    BY <1>4 DEF Send, RowsInv, AccessInv, CallShape
  <2>3. calls'[c].step = "sent" /\ calls'[c].ask = ask
    BY <1>4 DEF Send, RowsInv, AccessInv, CallShape
  <2>4. \A d \in Calls : AskFits(calls'[d], users, roles)
    BY <2>2, <2>3 DEF AskFits, RowsInv
  <2> QED  BY <1>1, <2>1, <2>4 DEF RowsInv
<1>5. ASSUME NEW c \in Calls,
             \/ ReadUser(c) \/ ReadRoles(c) \/ GuardFails(c) \/ PerformWork(c) \/ Refuse(c)
             \/ Validate(c) \/ CreateUser(c) \/ UpdateUser(c) \/ SetActive(c) \/ SaveRole(c)
             \/ Reply(c) \/ Timeout(c)
      PROVE  RowsInv'
  <2>1. calls[c].step # "idle"
    BY <1>5 DEF ReadUser, ReadRoles, GuardFails, PerformWork, Refuse, Validate, CreateUser,
               UpdateUser, SetActive, SaveRole, Reply, Timeout
  <2>2. AsksStay({d \in {c} : Validate(c)})
    BY <1>5, <2>1, CallKeepsAsk DEF RowsInv
  <2>3. /\ RowsFit(users', roles', token')
        /\ RowsStay(users, users', Users) /\ RowsStay(roles, roles', Roles)
    <3>1. CASE CreateUser(c) \/ UpdateUser(c) \/ SetActive(c) \/ SaveRole(c)
      BY <3>1, HandlersSave
    <3>2. CASE ~(CreateUser(c) \/ UpdateUser(c) \/ SetActive(c) \/ SaveRole(c))
      <4>1. users' = users /\ roles' = roles /\ token' = token
        BY <1>5, <3>2 DEF ReadUser, ReadRoles, GuardFails, PerformWork, Refuse, Validate,
                          Reply, Timeout
      <4> QED  BY <4>1 DEF RowsInv, RowsStay
    <3> QED  BY <3>1, <3>2
  <2>4. ASSUME NEW d \in Calls PROVE AskFits(calls'[d], users', roles')
    <3>1. CASE d = c /\ Validate(c)
      <4>1. /\ calls[c].step = "allowed"
            /\ Asked(c, "createUser") \/ Asked(c, "updateUser")
            /\ calls[c].ask.op = "updateUser" => users[calls[c].ask.user].status # "absent"
            /\ \A r \in calls[c].ask.roles : roles[r].status = "active"
            /\ users' = users /\ roles' = roles
        BY <3>1 DEF Validate
      <4>2. calls[c].ask \in Asks
        BY <2>1 DEF RowsInv, AskFits
      <4>3. calls'[c].step # "idle" => calls'[c].ask = calls[c].ask
        BY <2>2 DEF AsksStay
      <4>4. calls'[c].step = "checked" => calls'[c].ask = calls[c].ask
        BY <4>3
      <4> QED  BY <3>1, <4>1, <4>2, <4>3, <4>4 DEF AskFits, Asked
    <3>2. CASE ~(d = c /\ Validate(c))
      <4>1. /\ calls'[d].step # "idle" => calls[d].step # "idle" /\ calls'[d].ask = calls[d].ask
            /\ calls'[d].step = "checked" => calls[d].step = "checked"
        BY <2>2, <3>2 DEF AsksStay
      <4>2. AskFits(calls[d], users, roles)
        BY DEF RowsInv
      <4> QED  BY <2>3, <4>1, <4>2, AskStillFits
    <3> QED  BY <3>1, <3>2
  <2> QED  BY <1>1, <2>3, <2>4 DEF RowsInv
<1>6. ASSUME NEW u \in Users, Login(u) \/ Expire(u) PROVE RowsInv'
  <2>1. users' = users /\ roles' = roles /\ calls' = calls
    BY <1>6 DEF Login, Expire
  <2>2. users[u].status # "absent"
    BY <1>6 DEF Login, Expire, RowsInv, RowsFit
  <2>3. PICK x \in {"live", "expired"} : token' = [token EXCEPT ![u] = x]
    BY <1>6 DEF Login, Expire
  <2>4. RowsFit(users, roles, token')
    BY <2>2, <2>3, TokenSet DEF RowsInv
  <2> QED  BY <1>3, <2>1, <2>4 DEF RowsStay
<1>7. ASSUME SeedRole PROVE RowsInv'
  <2> DEFINE row == [status |-> "active", permissions |-> Permissions]
  <2>1. row \in RoleRows /\ row.status # "absent"
    BY DEF RoleRows, RowStatus
  <2>2. /\ users' = users /\ token' = token /\ calls' = calls
        /\ roles' = [roles EXCEPT ![AdminRole] = row]
    BY <1>7 DEF SeedRole
  <2> HIDE DEF row
  <2>3. RowsFit(users, roles', token) /\ RowsStay(roles, roles', Roles)
    BY <2>1, <2>2, RoleSaved, AccessAssumption DEF RowsInv
  <2> QED  BY <1>3, <2>2, <2>3 DEF RowsStay
<1>8. ASSUME SeedUser PROVE RowsInv'
  <2> DEFINE row == [status |-> "active", roles |-> {AdminRole}]
  <2>1. row \in UserRows /\ row.status # "absent" /\ \A r \in row.roles : roles[r].status # "absent"
    BY <1>8, AccessAssumption DEF UserRows, RowStatus, SeedUser
  <2>2. /\ roles' = roles /\ token' = token /\ calls' = calls
        /\ users' = [users EXCEPT ![Admin] = row]
    BY <1>8 DEF SeedUser
  <2> HIDE DEF row
  <2>3. RowsFit(users', roles, token) /\ RowsStay(users, users', Users)
    BY <2>1, <2>2, UserSaved, AccessAssumption DEF RowsInv
  <2> QED  BY <1>3, <2>2, <2>3 DEF RowsStay
<1>9. CASE UNCHANGED accessVars
  BY <1>1, <1>9 DEF accessVars, RowsInv
<1> QED  BY <1>4, <1>5, <1>6, <1>7, <1>8, <1>9 DEF AccessNext

LEMMA RowsInvInit == AccessInit => RowsInv
<1> SUFFICES ASSUME AccessInit PROVE RowsInv
  OBVIOUS
<1>1. AccessInv
  BY AccessInvInit
<1>2. RowsFit(users, roles, token)
  BY AccessAssumption DEF AccessInit, RowsFit
<1>3. \A c \in Calls : AskFits(calls[c], users, roles)
  BY DEF AccessInit, AskFits, Idle
<1> QED  BY <1>1, <1>2, <1>3 DEF RowsInv

\* Users and roles keep their shape: a role that was assigned exists, although the
\* roles of a request are checked in one statement and saved in another, a user
\* that was never created holds nothing, and every call is in one known step.
THEOREM AccessTyped == AccessSpec => []AccessTypeOK
<1>1. ASSUME RowsInv PROVE AccessTypeOK
  <2>1. ASSUME NEW c \in Calls
        PROVE  /\ calls[c].step \in {"idle", "sent", "known", "allowed", "checked", "over"}
               /\ calls[c].answer \in {"none", "accepted", "500", "502"} \cup Denials
               /\ calls[c].effects \in Nat
    <3>1. calls[c].step \in {"idle", "sent", "known", "allowed", "checked", "over"}
      BY <1>1 DEF RowsInv, AccessInv, CallShape, Idle, RunningSteps
    <3>2. EffectSoFar(c)
      BY <1>1 DEF RowsInv, AccessInv, CallInv
    <3> QED  BY <3>1, <3>2 DEF EffectSoFar
  <2> QED  BY <1>1, <2>1 DEF AccessTypeOK, RowsInv, RowsFit
<1>2. RowsInv /\ [AccessNext]_accessVars => RowsInv'
  BY RowsInvStep
<1> QED  BY <1>1, <1>2, RowsInvInit, PTL DEF AccessSpec
=============================================================================
