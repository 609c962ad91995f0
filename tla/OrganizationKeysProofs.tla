----------------------- MODULE OrganizationKeysProofs -----------------------
(***************************************************************************)
(* What OrganizationKeys guarantees for every set of identities, keyrings  *)
(* and handlers.                                                           *)
(*                                                                         *)
(* Its members are those of OrganizationMembers.  Their part of the        *)
(* invariant says what a handler knows of its actor and of its target      *)
(* between its reads and its write; the target's role is the one thing     *)
(* that moves under it, and `promoted' records when that hurts.  The rest  *)
(* follows a rotation and a grant through their statements.                *)
(***************************************************************************)
EXTENDS OrganizationKeys, TLAPS

USE KeysAssumption

----------------------------------------------------------------------------
(* The members.                                                            *)

HandlerInformed(h) ==
  /\ pc[h] \in {"add", "patch", "remove", "invite", "setRole", "update", "setRemoved",
                "write", "join", "rejoin"} => as[h] \in {"owner", "admin"}
  /\ pc[h] \in {"update", "setRemoved", "revoke", "write", "join", "rejoin",
                "ssoInsert", "ssoActivate"} => who[h] \in Identities
  /\ pc[h] \in {"update", "setRemoved", "write", "rejoin", "ssoActivate"} => role[who[h]] # None
  /\ pc[h] \in {"update", "setRemoved"} => Members!CanManage(as[h], seen[h])
  /\ pc[h] \in {"update", "setRemoved"} /\ as[h] = "admin" /\ role[who[h]] = "owner" =>
       who[h] \in promoted

MembersInv == Members!TypeOK /\ \A h \in Handlers : HandlerInformed(h)

LEMMA MembersInit == Members!Init => MembersInv
BY DEF Members!Init, MembersInv, Members!TypeOK, HandlerInformed, Members!Roles, Members!PCs

----------------------------------------------------------------------------

\* An admin manages nobody that it reads as an owner.
LEMMA AdminsSpareOwners == \A r : Members!CanManage("admin", r) => r # "owner"
BY DEF Members!CanManage

\* Local variables after a handler's step: the other handlers keep theirs.
OtherHandlers(h) ==
  \A g \in Handlers \ {h} :
    pc'[g] = pc[g] /\ as'[g] = as[g] /\ who'[g] = who[g] /\ seen'[g] = seen[g]

MemberTypes ==
  /\ pc \in [Handlers -> Members!PCs]
  /\ as \in [Handlers -> {"owner", "admin", None}]
  /\ who \in [Handlers -> Identities \cup {None}]
  /\ seen \in [Handlers -> Members!Roles \cup {None}]

LEMMA MemberFinishes ==
  ASSUME Members!TypeOK, NEW h \in Handlers, Members!Finish(h)
  PROVE  MemberTypes' /\ OtherHandlers(h) /\ pc'[h] = "idle" /\ HandlerInformed(h)'
BY DEF Members!TypeOK, Members!Finish, MemberTypes, OtherHandlers, HandlerInformed, Members!PCs

\* Rows are never deleted, and who becomes an owner under a decision is noted.
RowsMove ==
  /\ \A i \in Identities : role[i] # None => role'[i] # None
  /\ promoted \subseteq promoted'
  /\ \A i \in Identities :
       role[i] # "owner" /\ role'[i] = "owner" /\ Members!AdminDecidesOn(i) => i \in promoted'

LEMMA OthersInformed ==
  ASSUME MembersInv, NEW h \in Handlers, NEW g \in Handlers \ {h}, OtherHandlers(h), RowsMove
  PROVE  HandlerInformed(g)'
<1>1. HandlerInformed(g) /\ pc[g] = pc'[g] /\ as[g] = as'[g] /\ who[g] = who'[g] /\ seen[g] = seen'[g]
  BY DEF MembersInv, OtherHandlers
<1>2. ASSUME pc[g] \in {"update", "setRemoved"}, as[g] = "admin",
             role'[who[g]] = "owner", role[who[g]] # "owner"
      PROVE  who[g] \in promoted'
  <2>1. seen[g] # "owner"
    BY <1>1, <1>2, AdminsSpareOwners DEF HandlerInformed
  <2>2. Members!AdminDecidesOn(who[g])
    BY <1>2, <2>1 DEF Members!AdminDecidesOn, Members!Deciding
  <2> QED
    BY <1>1, <1>2, <2>2 DEF RowsMove, HandlerInformed
<1>3. Members!CanManage(as[g], seen[g])' <=> Members!CanManage(as[g], seen[g])
  BY <1>1 DEF Members!CanManage, Members!Rank
<1> QED
  BY <1>1, <1>2, <1>3 DEF HandlerInformed, RowsMove

LEMMA SetRoleEffect ==
  ASSUME Members!TypeOK, NEW i \in Identities, NEW r \in Members!Roles, Members!SetRole(i, r)
  PROVE  /\ RowsMove /\ promoted' \subseteq Identities
         /\ role' \in [Identities -> Members!Roles \cup {None}]
         /\ role'[i] = r /\ \A j \in Identities \ {i} : role'[j] = role[j]
BY DEF Members!TypeOK, Members!SetRole, RowsMove, Members!Roles

----------------------------------------------------------------------------
(* Every step leaves its handler informed.                                 *)

StepSound(h) == Members!TypeOK' /\ HandlerInformed(h)' /\ OtherHandlers(h) /\ RowsMove

LEMMA ReadsSound ==
  ASSUME MembersInv, NEW h \in Handlers, NEW i \in Identities, UNCHANGED Members!memberVars,
         NEW p \in Members!PCs, Members!GoOn(h, p, i), i \in active => role[i] # None,
         p \in {"update", "setRemoved", "write", "join", "rejoin"} => as[h] \in {"owner", "admin"},
         p \in {"update", "setRemoved", "write", "rejoin", "ssoActivate"} => role[i] # None,
         p \in {"update", "setRemoved"} => Members!CanManage(as[h], role[i]),
         p \notin {"add", "patch", "remove", "invite", "setRole"}
  PROVE  StepSound(h)
<1>0. Members!TypeOK
  BY DEF MembersInv
<1>1. /\ MemberTypes' /\ OtherHandlers(h)
      /\ pc'[h] = p /\ as'[h] = as[h] /\ who'[h] = i /\ seen'[h] = role[i]
  BY <1>0 DEF Members!TypeOK, Members!GoOn, MemberTypes, OtherHandlers
<1> USE DEF MembersInv, Members!memberVars
<1>2. Members!TypeOK'
  BY <1>1 DEF Members!TypeOK, MemberTypes
<1>3. Members!CanManage(as[h], seen[h])' <=> Members!CanManage(as[h], role[i])
  BY <1>1 DEF Members!CanManage
<1>4. Members!CanManage(as[h], role[i]) /\ as[h] = "admin" => role[i] # "owner"
  BY AdminsSpareOwners
<1>5. HandlerInformed(h)'
  BY <1>1, <1>3, <1>4 DEF HandlerInformed
<1> QED
  BY <1>1, <1>2, <1>5 DEF StepSound, RowsMove

LEMMA SetRoleSound ==
  ASSUME MembersInv, NEW h \in Handlers, NEW i \in Identities, NEW r \in Members!Roles,
         Members!SetRole(i, r), Members!Finish(h), active' \in {active, active \cup {i}},
         i \in active' => role[i] # None \/ i \in active \cup {i}
  PROVE  StepSound(h)
<1>1. MemberTypes' /\ OtherHandlers(h) /\ HandlerInformed(h)'
  BY MemberFinishes DEF MembersInv
<1>2. RowsMove /\ promoted' \subseteq Identities /\ role' \in [Identities -> Members!Roles \cup {None}]
      /\ role'[i] = r /\ \A j \in Identities \ {i} : role'[j] = role[j]
  BY SetRoleEffect DEF MembersInv
<1>3. active' \subseteq {j \in Identities : role'[j] # None}
  BY <1>2 DEF MembersInv, Members!TypeOK, Members!Roles
<1> QED
  BY <1>1, <1>2, <1>3 DEF StepSound, Members!TypeOK, MemberTypes

LEMMA QuietSound ==
  ASSUME MembersInv, NEW h \in Handlers, Members!Finish(h), UNCHANGED Members!memberVars
  PROVE  StepSound(h)
<1>1. MemberTypes' /\ OtherHandlers(h) /\ HandlerInformed(h)'
  BY MemberFinishes DEF MembersInv
<1> QED
  BY <1>1 DEF MembersInv, StepSound, Members!TypeOK, MemberTypes, RowsMove, Members!memberVars

LEMMA StatementSound ==
  ASSUME MembersInv, NEW h \in Handlers, Members!Statement(h)
  PROVE  StepSound(h)
<1> USE DEF MembersInv
<1>1. ASSUME NEW i \in Identities, NEW op \in Ops, Members!Begin(h, i, op)
      PROVE  StepSound(h)
  <2>1. pc' = [pc EXCEPT ![h] = op] /\ as' = [as EXCEPT ![h] = role[i]] /\ UNCHANGED <<who, seen>>
    BY <1>1 DEF Members!Begin
  <2>2. op \in Members!PCs /\ role[i] \in {"owner", "admin"}
    BY <1>1 DEF Members!Begin, Members!HasAccess, Members!PCs
  <2>3. Members!TypeOK'
    <3>1. UNCHANGED <<role, active, promoted, who, seen>>
      BY <1>1 DEF Members!Begin, Members!memberVars
    <3>2. pc' \in [Handlers -> Members!PCs] /\ as' \in [Handlers -> {"owner", "admin", None}]
      BY <2>1, <2>2 DEF Members!TypeOK
    <3> QED
      BY <3>1, <3>2 DEF Members!TypeOK
  <2>4. HandlerInformed(h)'
    BY <2>1, <2>2, <1>1 DEF HandlerInformed, Members!TypeOK
  <2>5. OtherHandlers(h) /\ RowsMove
    BY <2>1, <1>1 DEF OtherHandlers, RowsMove, Members!Begin, Members!memberVars, Members!TypeOK
  <2> QED
    BY <2>3, <2>4, <2>5 DEF StepSound
<1>2. ASSUME NEW i \in Identities, NEW r \in Members!Roles, Members!Add(h, i, r)
      PROVE  StepSound(h)
  BY <1>2, SetRoleSound DEF Members!Add
<1>3. ASSUME NEW i \in Identities, Members!ReadToPatch(h, i)
      PROVE  StepSound(h)
  BY <1>3, ReadsSound DEF Members!ReadToPatch, HandlerInformed, Members!PCs
<1>4. ASSUME NEW i \in Identities, Members!ReadToRemove(h, i)
      PROVE  StepSound(h)
  BY <1>4, ReadsSound DEF Members!ReadToRemove, HandlerInformed, Members!PCs
<1>5. ASSUME NEW i \in Identities, Members!ReadToInvite(h, i)
      PROVE  StepSound(h)
  BY <1>5, ReadsSound DEF Members!ReadToInvite, HandlerInformed, Members!PCs
<1>6. ASSUME NEW i \in Identities, Members!ReadToSetRole(h, i)
      PROVE  StepSound(h)
  <2>1. role[i] # None
    BY <1>6 DEF Members!ReadToSetRole, Members!TypeOK
  <2> QED
    BY <1>6, <2>1, ReadsSound DEF Members!ReadToSetRole, HandlerInformed, Members!PCs
<1>7. ASSUME NEW i \in Identities, Members!SsoRead(h, i)
      PROVE  StepSound(h)
  BY <1>7, ReadsSound DEF Members!SsoRead, Members!PCs
<1>8. ASSUME NEW r \in Members!Roles, Members!Update(h, r)
      PROVE  StepSound(h)
  <2>1. who[h] \in Identities
    BY <1>8 DEF Members!Update, HandlerInformed
  <2> QED
    BY <1>8, <2>1, SetRoleSound DEF Members!Update
<1>9. ASSUME NEW r \in Members!Roles, Members!Invite(h, r)
      PROVE  StepSound(h)
  <2>1. who[h] \in Identities
    BY <1>9 DEF Members!Invite, HandlerInformed
  <2> QED
    BY <1>9, <2>1, SetRoleSound DEF Members!Invite
<1>10. ASSUME NEW r \in Members!Roles, Members!WriteRole(h, r)
      PROVE  StepSound(h)
  <2>1. who[h] \in Identities
    BY <1>10 DEF Members!WriteRole, HandlerInformed
  <2> QED
    BY <1>10, <2>1, SetRoleSound DEF Members!WriteRole
<1>11. ASSUME Members!SetRemoved(h)
       PROVE  StepSound(h)
  <2>1. pc[h] = "setRemoved" /\ pc' = [pc EXCEPT ![h] = "revoke"] /\ who[h] \in Identities
    BY <1>11 DEF Members!SetRemoved, HandlerInformed
  <2>2. Members!TypeOK'
    BY <2>1, <1>11 DEF Members!TypeOK, Members!SetRemoved, Members!PCs
  <2>3. HandlerInformed(h)'
    BY <2>1, <1>11 DEF HandlerInformed, Members!SetRemoved, Members!TypeOK
  <2> QED
    BY <2>1, <2>2, <2>3, <1>11 DEF StepSound, OtherHandlers, RowsMove, Members!SetRemoved, Members!TypeOK
<1>12. ASSUME Members!SsoInsert(h)
       PROVE  StepSound(h)
  <2>1. who[h] \in Identities
    BY <1>12 DEF Members!SsoInsert, HandlerInformed
  <2>2. CASE role[who[h]] = None
    <3>1. role' = [role EXCEPT ![who[h]] = "member"] /\ active' = active \cup {who[h]}
          /\ Members!Finish(h) /\ UNCHANGED promoted
      BY <1>12, <2>2 DEF Members!SsoInsert
    <3>2. MemberTypes' /\ OtherHandlers(h) /\ HandlerInformed(h)'
      BY <3>1, MemberFinishes
    <3>3. role' \in [Identities -> Members!Roles \cup {None}] /\ active' \subseteq {i \in Identities : role'[i] # None}
      BY <2>1, <3>1 DEF Members!TypeOK, Members!Roles
    <3>4. Members!TypeOK'
      BY <3>1, <3>2, <3>3 DEF Members!TypeOK, MemberTypes
    <3>5. RowsMove
      BY <2>1, <3>1 DEF RowsMove, Members!TypeOK
    <3> QED
      BY <3>2, <3>4, <3>5 DEF StepSound
  <2>3. CASE role[who[h]] # None /\ who[h] \in active
    BY <1>12, <2>3, QuietSound DEF Members!SsoInsert, Members!memberVars
  <2>4. CASE role[who[h]] # None /\ who[h] \notin active
    BY <1>12, <2>1, <2>4, ReadsSound DEF Members!SsoInsert, Members!memberVars, Members!PCs
  <2> QED
    BY <2>2, <2>3, <2>4
<1>13. ASSUME Members!SsoActivate(h)
       PROVE  StepSound(h)
  <2>1. who[h] \in Identities /\ role[who[h]] # None
    BY <1>13 DEF Members!SsoActivate, HandlerInformed
  <2>2. MemberTypes' /\ OtherHandlers(h) /\ HandlerInformed(h)'
    BY <1>13, MemberFinishes DEF Members!SsoActivate
  <2>3. Members!TypeOK' /\ RowsMove
    BY <2>1, <2>2, <1>13 DEF Members!TypeOK, MemberTypes, RowsMove, Members!SsoActivate
  <2> QED
    BY <2>2, <2>3 DEF StepSound
<1> QED
  BY <1>1, <1>2, <1>3, <1>4, <1>5, <1>6, <1>7, <1>8, <1>9, <1>10, <1>11, <1>12, <1>13 DEF Members!Statement

LEMMA MembersNext == MembersInv /\ [Members!Next]_(Members!vars) => MembersInv'
<1> SUFFICES ASSUME MembersInv, [Members!Next]_(Members!vars) PROVE MembersInv'
  OBVIOUS
<1>1. ASSUME NEW h \in Handlers, StepSound(h)
      PROVE  MembersInv'
  BY <1>1, OthersInformed DEF StepSound, MembersInv
<1>2. ASSUME NEW h \in Handlers, Members!Statement(h) \/ Members!Revoke(h) \/ Members!Abandon(h)
      PROVE  StepSound(h)
  BY <1>2, StatementSound, QuietSound DEF Members!Revoke, Members!Abandon
<1>3. CASE UNCHANGED Members!vars
  BY <1>3 DEF Members!vars, Members!memberVars, Members!handlerVars, MembersInv, Members!TypeOK, HandlerInformed, Members!CanManage, Members!Rank
<1> QED
  BY <1>1, <1>2, <1>3 DEF Members!Next

THEOREM MembersInvariance == Members!Spec => []MembersInv
BY MembersInit, MembersNext, PTL DEF Members!Spec

\* Type correctness: rows keep their shape and only rows are active.
THEOREM MembersTyped == Members!Spec => []Members!TypeOK
<1>1. MembersInv => Members!TypeOK
  BY DEF MembersInv
<1> QED
  BY <1>1, MembersInvariance, PTL

----------------------------------------------------------------------------
(* The rules about owners.                                                 *)

\* A handler's own step changes its pc.
LEMMA FinishMoves ==
  ASSUME Members!TypeOK, NEW h \in Handlers, pc[h] # "idle", Members!Finish(h)
  PROVE  pc'[h] # pc[h]
BY DEF Members!TypeOK, Members!Finish

\* An identity stops being an owner as OwnersYieldToOwners allows.
YieldAllowed(i) ==
  \E h \in Handlers :
    /\ pc'[h] # pc[h] /\ who[h] = i
    /\ \/ as[h] = "owner"
       \/ pc[h] = "write" /\ i # Founder
       \/ pc[h] = "rejoin"
       \/ i \in promoted

LEMMA OwnerYields ==
  ASSUME MembersInv, [Members!Next]_(Members!vars), NEW i \in Identities, Members!IsOwner(i), ~(Members!IsOwner(i))'
  PROVE  YieldAllowed(i)
<1>0. Members!TypeOK /\ i \in active /\ role[i] = "owner" /\ (i \notin active' \/ role'[i] # "owner")
  BY DEF MembersInv, Members!IsOwner
<1>1. PICK h \in Handlers : Members!Statement(h) \/ Members!Revoke(h) \/ Members!Abandon(h)
  BY <1>0 DEF Members!Next, Members!vars, Members!memberVars
<1>2. HandlerInformed(h)
  BY DEF MembersInv
<1>3. ASSUME NEW j \in Identities, NEW r \in Members!Roles, Members!SetRole(j, r), i # j
      PROVE  role'[i] = "owner"
  BY <1>0, <1>3 DEF Members!SetRole, Members!TypeOK
<1>4. ASSUME pc[h] \in {"update", "setRemoved"}, pc'[h] # pc[h], who[h] = i
      PROVE  YieldAllowed(i)
  <2>1. as[h] = "admin" => i \in promoted
    BY <1>0, <1>2, <1>4 DEF HandlerInformed
  <2>2. as[h] \in {"owner", "admin"}
    BY <1>2, <1>4 DEF HandlerInformed
  <2> QED
    BY <1>4, <2>1, <2>2 DEF YieldAllowed
<1>5. ASSUME NEW r \in Members!Roles, Members!Update(h, r)
      PROVE  YieldAllowed(i)
  <2>1. who[h] \in Identities /\ Members!SetRole(who[h], r) /\ active' = active
    BY <1>2, <1>5 DEF Members!Update, HandlerInformed
  <2>2. who[h] = i
    BY <1>0, <1>3, <2>1
  <2>3. pc'[h] # pc[h]
    BY <1>0, <1>5, FinishMoves DEF Members!Update
  <2> QED
    BY <1>4, <1>5, <2>2, <2>3 DEF Members!Update
<1>6. ASSUME Members!SetRemoved(h)
      PROVE  YieldAllowed(i)
  <2>1. who[h] = i
    BY <1>0, <1>6 DEF Members!SetRemoved
  <2>2. pc'[h] # pc[h]
    BY <1>0, <1>6 DEF Members!SetRemoved, Members!TypeOK
  <2> QED
    BY <1>4, <1>6, <2>1, <2>2 DEF Members!SetRemoved
<1>7. ASSUME NEW r \in Members!Roles, Members!Invite(h, r)
      PROVE  YieldAllowed(i)
  <2>1. who[h] \in Identities /\ Members!SetRole(who[h], r) /\ active' = active \cup {who[h]}
    BY <1>2, <1>7 DEF Members!Invite, HandlerInformed
  <2>2. who[h] = i
    BY <1>0, <1>3, <2>1
  <2>3. pc[h] = "rejoin"
    BY <1>0, <1>7, <2>2, KeysAssumption DEF Members!Invite
  <2>4. pc'[h] # pc[h]
    BY <1>0, <1>7, <2>3, FinishMoves DEF Members!Invite
  <2> QED
    BY <2>2, <2>3, <2>4 DEF YieldAllowed
<1>8. ASSUME NEW r \in Members!Roles, Members!WriteRole(h, r)
      PROVE  YieldAllowed(i)
  <2>1. who[h] \in Identities /\ Members!SetRole(who[h], r) /\ active' = active
    BY <1>2, <1>8 DEF Members!WriteRole, HandlerInformed
  <2>2. who[h] = i
    BY <1>0, <1>3, <2>1
  <2>3. i # Founder
    BY <1>0, <1>8, <2>1, <2>2 DEF Members!WriteRole, Members!SetRole, Members!TypeOK
  <2>4. pc'[h] # pc[h]
    BY <1>0, <1>8, FinishMoves DEF Members!WriteRole
  <2> QED
    BY <1>8, <2>2, <2>3, <2>4 DEF YieldAllowed, Members!WriteRole
<1>9. ~(UNCHANGED Members!memberVars)
  BY <1>0 DEF Members!memberVars
<1>10. ~Members!SsoInsert(h) /\ ~Members!SsoActivate(h)
  BY <1>0, KeysAssumption DEF Members!SsoInsert, Members!SsoActivate, Members!TypeOK
<1>11. \A j \in Identities, r \in Members!Roles : ~Members!Add(h, j, r)
  BY <1>0, KeysAssumption DEF Members!Add, Members!SetRole, Members!TypeOK
<1> QED
  BY <1>1, <1>5, <1>6, <1>7, <1>8, <1>9, <1>10, <1>11
     DEF Members!Statement, Members!Revoke, Members!Abandon, Members!Begin, Members!ReadToPatch, Members!ReadToRemove, Members!ReadToInvite,
         Members!ReadToSetRole, Members!SsoRead

\* An owner loses that role at the request of an owner, of an admin that saw it
\* in a lower role, or through the workspace routes, which compare no roles.
THEOREM OwnersAreSafe == Members!Spec => Members!OwnersYieldToOwners
<1>1. MembersInv /\ [Members!Next]_(Members!vars) =>
        [\A i \in Identities :
           Members!IsOwner(i) /\ ~(Members!IsOwner(i))' =>
             \E h \in Handlers :
               /\ pc'[h] # pc[h] /\ who[h] = i
               /\ \/ as[h] = "owner"
                  \/ pc[h] = "write" /\ i # Founder
                  \/ pc[h] = "rejoin"
                  \/ i \in promoted]_(Members!vars)
  BY OwnerYields DEF YieldAllowed
<1> QED
  BY <1>1, MembersInvariance, PTL DEF Members!Spec, Members!OwnersYieldToOwners

LEMMA OwnerIsMade ==
  ASSUME MembersInv, [Members!Next]_(Members!vars), NEW i \in Identities \ {Founder},
         role[i] # "owner", role'[i] = "owner"
  PROVE  \E h \in Handlers : pc'[h] # pc[h] /\ as[h] = "owner"
<1>0. Members!TypeOK
  BY DEF MembersInv
<1>1. PICK h \in Handlers : Members!Statement(h) \/ Members!Revoke(h) \/ Members!Abandon(h)
  BY DEF Members!Next, Members!vars, Members!memberVars
<1>2. HandlerInformed(h)
  BY DEF MembersInv
<1>3. ASSUME NEW j \in Identities, NEW r \in Members!Roles, Members!SetRole(j, r)
      PROVE  i = j /\ r = "owner"
  BY <1>0, <1>3 DEF Members!SetRole, Members!TypeOK
<1>4. ASSUME NEW j \in Identities, NEW r \in Members!Roles, Members!Add(h, j, r)
      PROVE  pc'[h] # pc[h] /\ as[h] = "owner"
  BY <1>0, <1>3, <1>4, FinishMoves DEF Members!Add, Members!CanManage
<1>5. ASSUME NEW r \in Members!Roles, Members!Update(h, r)
      PROVE  pc'[h] # pc[h] /\ as[h] = "owner"
  BY <1>0, <1>2, <1>3, <1>5, FinishMoves DEF Members!Update, Members!CanManage, HandlerInformed
<1>6. \A r \in Members!Roles : ~Members!Invite(h, r) /\ ~Members!WriteRole(h, r)
  BY <1>2, <1>3 DEF Members!Invite, Members!WriteRole, HandlerInformed
<1>7. ~Members!SsoInsert(h)
  BY <1>0 DEF Members!SsoInsert, Members!TypeOK
<1> QED
  BY <1>1, <1>4, <1>5, <1>6, <1>7
     DEF Members!Statement, Members!Revoke, Members!Abandon, Members!Begin, Members!ReadToPatch, Members!ReadToRemove, Members!ReadToInvite,
         Members!ReadToSetRole, Members!SsoRead, Members!SetRemoved, Members!SsoActivate, Members!memberVars

\* An identity other than the founder becomes an owner only by the choice of one
\* who was an owner when the request began.
THEOREM OwnersMakeOwners == Members!Spec => Members!OwnersMadeByOwners
<1>1. MembersInv /\ [Members!Next]_(Members!vars) =>
        [\A i \in Identities \ {Founder} :
           role[i] # "owner" /\ role'[i] = "owner" =>
             \E h \in Handlers : pc'[h] # pc[h] /\ as[h] = "owner"]_(Members!vars)
  BY OwnerIsMade
<1> QED
  BY <1>1, MembersInvariance, PTL DEF Members!Spec, Members!OwnersMadeByOwners

----------------------------------------------------------------------------
(* The invariant of members and keys.                                      *)

KeyTypes ==
  /\ status \in [Keyrings -> {"absent", "active", "rotated"}]
  /\ epoch \in [Keyrings -> Nat]
  /\ from \in [Keyrings -> Keyrings \cup {None}]
  /\ held \in [Keyrings -> SUBSET Identities]
  /\ kpc \in [KeyHandlers -> PCs]
  /\ parent \in [KeyHandlers -> Keyrings \cup {None}]
  /\ key \in [KeyHandlers -> Keyrings \cup {None}]
  /\ targets \in [KeyHandlers -> SUBSET Identities]
  /\ overtaken \subseteq Identities
  /\ unrevoked \subseteq Identities
  /\ unfinished \subseteq Keyrings
  /\ early \subseteq Keyrings

\* A handler's keyrings exist, and what it is about to write is accounted for.
Informed(g) ==
  /\ parent[g] # None => status[parent[g]] # "absent"
  /\ kpc[g] \in {"mark", "revoke"} => parent[g] # None
  /\ kpc[g] = "grant" => key[g] # None /\ status[key[g]] # "absent"
  /\ kpc[g] \in {"revoke", "insert"} /\ parent[g] # None => status[parent[g]] = "rotated"
  /\ kpc[g] = "insert" /\ parent[g] # None /\ held[parent[g]] # {} => parent[g] \in early
  /\ kpc[g] = "grant" /\ status[key[g]] = "rotated" => key[g] \in early
  /\ targets[g] \subseteq active \cup overtaken

IInv ==
  /\ MembersInv /\ KeyTypes
  /\ \A g \in KeyHandlers : Informed(g)
  /\ \A k \in Keyrings : status[k] = "absent" => from[k] = None
  /\ HeldByMembers /\ RotatedHeldByNone /\ LineageSound

----------------------------------------------------------------------------
(* Members beside the keys.                                                *)

\* Every step of the composition is a step of the members or leaves them alone.
LEMMA MembersStep == [Next]_vars => [Members!Next]_(Members!vars)
<1> SUFFICES ASSUME [Next]_vars PROVE [Members!Next]_(Members!vars)
  OBVIOUS
<1>1. ASSUME NEW g \in KeyHandlers, KeyStep(g)
      PROVE  UNCHANGED memberVars
  BY <1>1 DEF KeyStep, Begin, Validate, MarkRotated, RevokeGrants, InsertKeyring, InsertGrants, Abandon
<1>2. UNCHANGED memberVars => UNCHANGED Members!vars
  BY DEF memberVars, Members!vars, Members!memberVars, Members!handlerVars
<1>3. ASSUME NEW h \in Handlers, MemberStatement(h) \/ Revoke(h) \/ MemberAbandon(h)
      PROVE  Members!Next
  BY <1>3 DEF MemberStatement, Revoke, MemberAbandon, Members!Next
<1> QED
  BY <1>1, <1>2, <1>3 DEF Next, vars

\* Members change as OrganizationMembers says, whatever happens to keys.
THEOREM MembersUndisturbed == Spec => Members!Spec
<1>1. Init => Members!Init
  BY DEF Init
<1> QED
  BY <1>1, MembersStep, PTL DEF Spec, Members!Spec

\* The steps of members that matter to keys.
LEMMA MemberEffect ==
  ASSUME MembersInv, NEW h \in Handlers, Members!Statement(h)
  PROVE  /\ pc[h] # "revoke"
         /\ \A f \in Handlers \ {h} : pc'[f] = pc[f] /\ who'[f] = who[f]
         /\ \A i \in active \ active' : pc'[h] = "revoke" /\ who'[h] = i
<1>1. OtherHandlers(h)
  BY StatementSound DEF StepSound
<1>2. pc[h] # "revoke"
  BY DEF Members!Statement, Members!Begin, Members!Add, Members!ReadToPatch, Members!Update,
         Members!ReadToRemove, Members!SetRemoved, Members!ReadToInvite, Members!Invite,
         Members!ReadToSetRole, Members!WriteRole, Members!SsoRead, Members!SsoInsert,
         Members!SsoActivate
<1>3. active \subseteq active' \/ Members!SetRemoved(h)
  BY DEF Members!Statement, Members!Begin, Members!Add, Members!ReadToPatch, Members!Update,
         Members!ReadToRemove, Members!ReadToInvite, Members!Invite,
         Members!ReadToSetRole, Members!WriteRole, Members!SsoRead, Members!SsoInsert,
         Members!SsoActivate, Members!memberVars
<1>4. ASSUME Members!SetRemoved(h), NEW i \in active \ active'
      PROVE  pc'[h] = "revoke" /\ who'[h] = i
  BY <1>4 DEF Members!SetRemoved, MembersInv, Members!TypeOK
<1> QED
  BY <1>1, <1>2, <1>3, <1>4 DEF OtherHandlers

LEMMA FinishEffect ==
  ASSUME MembersInv, NEW h \in Handlers, Members!Finish(h)
  PROVE  \A f \in Handlers \ {h} : pc'[f] = pc[f] /\ who'[f] = who[f]
BY DEF Members!Finish, MembersInv, Members!TypeOK

----------------------------------------------------------------------------
(* The invariant, one lemma per kind of step.                              *)

KeyInv ==
  /\ KeyTypes
  /\ \A g \in KeyHandlers : Informed(g)
  /\ \A k \in Keyrings : status[k] = "absent" => from[k] = None
  /\ HeldByMembers /\ RotatedHeldByNone /\ LineageSound

LEMMA InitInv == Init => IInv
<1>1. Init => MembersInv
  BY MembersInit DEF Init
<1> QED
  BY <1>1 DEF IInv, Init, KeyTypes, Informed, HeldByMembers, RotatedHeldByNone, LineageSound, PCs

\* A handler that ends, or goes on, leaves the others as they are.
LEMMA KeyFinish ==
  ASSUME KeyTypes, NEW g \in KeyHandlers, Finish(g)
  PROVE  /\ kpc' \in [KeyHandlers -> PCs] /\ kpc'[g] = "idle"
         /\ parent' \in [KeyHandlers -> Keyrings \cup {None}] /\ parent'[g] = None
         /\ key' \in [KeyHandlers -> Keyrings \cup {None}]
         /\ targets' \in [KeyHandlers -> SUBSET Identities] /\ targets'[g] = {}
         /\ \A f \in KeyHandlers \ {g} :
              kpc'[f] = kpc[f] /\ parent'[f] = parent[f] /\ key'[f] = key[f] /\ targets'[f] = targets[f]
BY DEF KeyTypes, Finish, PCs

LEMMA KeyGoOn ==
  ASSUME KeyTypes, NEW g \in KeyHandlers, NEW p \in PCs, kpc' = [kpc EXCEPT ![g] = p]
  PROVE  /\ kpc' \in [KeyHandlers -> PCs] /\ kpc'[g] = p
         /\ \A f \in KeyHandlers \ {g} : kpc'[f] = kpc[f]
BY DEF KeyTypes

LEMMA BeginInv ==
  ASSUME IInv, NEW g \in KeyHandlers, NEW k \in Keyrings \cup {None}, Begin(g, k)
  PROVE  KeyInv'
<1>1. /\ kpc' = [kpc EXCEPT ![g] = "validate"] /\ kpc[g] = "idle"
      /\ parent' = [parent EXCEPT ![g] = k] /\ (k # None => status[k] # "absent")
      /\ UNCHANGED <<role, active, promoted, pc, as, who, seen, status, epoch, from, held, key,
                     targets, overtaken, unrevoked, unfinished, early>>
  BY DEF Begin, memberVars, keyVars, troubleVars
<1>2. KeyTypes /\ \A f \in KeyHandlers : Informed(f)
  BY DEF IInv
<1>3. kpc' \in [KeyHandlers -> PCs] /\ kpc'[g] = "validate" /\ \A f \in KeyHandlers \ {g} : kpc'[f] = kpc[f]
  BY <1>1, <1>2, KeyGoOn DEF PCs
<1>4. parent' \in [KeyHandlers -> Keyrings \cup {None}] /\ parent'[g] = k
      /\ \A f \in KeyHandlers \ {g} : parent'[f] = parent[f]
  BY <1>1, <1>2 DEF KeyTypes
<1>5. KeyTypes'
  BY <1>1, <1>2, <1>3, <1>4 DEF KeyTypes
<1>6. \A f \in KeyHandlers : Informed(f)'
  BY <1>1, <1>2, <1>3, <1>4 DEF Informed
<1>7. HeldByMembers'
  BY <1>1 DEF IInv, HeldByMembers
<1>8. RotatedHeldByNone' /\ LineageSound'
  BY <1>1, <1>3, <1>4 DEF IInv, RotatedHeldByNone, LineageSound
<1> QED
  BY <1>1, <1>5, <1>6, <1>7, <1>8 DEF KeyInv, IInv

LEMMA ValidateInv ==
  ASSUME IInv, NEW g \in KeyHandlers, NEW S \in SUBSET Identities, Validate(g, S)
  PROVE  KeyInv'
<1>1. /\ kpc' = [kpc EXCEPT ![g] = IF parent[g] = None THEN "insert" ELSE "mark"]
      /\ kpc[g] = "validate" /\ S \subseteq active
      /\ targets' = [targets EXCEPT ![g] = S]
      /\ UNCHANGED <<role, active, promoted, pc, as, who, seen, status, epoch, from, held, key,
                     parent, overtaken, unrevoked, unfinished, early>>
  BY DEF Validate, ValidTargets, memberVars, keyVars, troubleVars
<1>2. KeyTypes /\ \A f \in KeyHandlers : Informed(f)
  BY DEF IInv
<1>3. /\ kpc' \in [KeyHandlers -> PCs] /\ kpc'[g] = (IF parent[g] = None THEN "insert" ELSE "mark")
      /\ \A f \in KeyHandlers \ {g} : kpc'[f] = kpc[f]
  BY <1>1, <1>2, KeyGoOn DEF PCs
<1>4. targets' \in [KeyHandlers -> SUBSET Identities] /\ targets'[g] = S
      /\ \A f \in KeyHandlers \ {g} : targets'[f] = targets[f]
  BY <1>1, <1>2 DEF KeyTypes
<1>5. KeyTypes'
  BY <1>1, <1>2, <1>3, <1>4 DEF KeyTypes
<1>6. \A f \in KeyHandlers : Informed(f)'
  BY <1>1, <1>2, <1>3, <1>4 DEF Informed
<1>7. HeldByMembers'
  BY <1>1 DEF IInv, HeldByMembers
<1>8. RotatedHeldByNone' /\ LineageSound'
  BY <1>1, <1>3 DEF IInv, RotatedHeldByNone, LineageSound
<1> QED
  BY <1>1, <1>5, <1>6, <1>7, <1>8 DEF KeyInv, IInv

LEMMA MarkRotatedInv ==
  ASSUME IInv, NEW g \in KeyHandlers, MarkRotated(g)
  PROVE  KeyInv'
<1> DEFINE k == parent[g]
<1>1. /\ kpc' = [kpc EXCEPT ![g] = "revoke"] /\ kpc[g] = "mark"
      /\ status' = [status EXCEPT ![k] = "rotated"]
      /\ early' = IF GrantsToCome(k) THEN early \cup {k} ELSE early
      /\ UNCHANGED <<role, active, promoted, pc, as, who, seen, epoch, from, held, key,
                     parent, targets, overtaken, unrevoked, unfinished>>
  BY DEF MarkRotated, GoOn, memberVars
<1>2. KeyTypes /\ \A f \in KeyHandlers : Informed(f)
  BY DEF IInv
<1>3. kpc' \in [KeyHandlers -> PCs] /\ kpc'[g] = "revoke" /\ \A f \in KeyHandlers \ {g} : kpc'[f] = kpc[f]
  BY <1>1, <1>2, KeyGoOn DEF PCs
<1>4. k \in Keyrings /\ status[k] # "absent"
  BY <1>1, <1>2 DEF Informed, KeyTypes
<1>5. /\ status' \in [Keyrings -> {"absent", "active", "rotated"}] /\ status'[k] = "rotated"
      /\ \A n \in Keyrings \ {k} : status'[n] = status[n]
  BY <1>1, <1>2, <1>4 DEF KeyTypes
<1> HIDE DEF k
<1>6. KeyTypes'
  BY <1>1, <1>2, <1>3, <1>4, <1>5 DEF KeyTypes
<1>7. ASSUME NEW f \in KeyHandlers
      PROVE  Informed(f)'
  <2>1. parent[f] # None => status'[parent[f]] # "absent"
    BY <1>2, <1>5 DEF Informed, KeyTypes
  <2>2. kpc[f] = "grant" => key[f] \in Keyrings /\ status'[key[f]] # "absent"
    BY <1>2, <1>5 DEF Informed, KeyTypes
  <2>3. kpc[f] = "grant" /\ status'[key[f]] = "rotated" => key[f] \in early'
    BY <1>1, <1>2, <1>5, <2>2 DEF Informed, GrantsToCome
  <2>4. early \subseteq early'
    BY <1>1
  <2>5. CASE f = g
    BY <1>1, <1>2, <1>3, <1>4, <1>5, <2>5 DEF Informed, k
  <2>6. CASE f # g
    <3>1. kpc'[f] \in {"revoke", "insert"} /\ parent[f] # None => status'[parent[f]] = "rotated"
      BY <1>2, <1>3, <1>5, <2>6 DEF Informed, KeyTypes
    <3>2. kpc'[f] = kpc[f] /\ parent'[f] = parent[f] /\ key'[f] = key[f] /\ targets'[f] = targets[f]
      BY <1>1, <1>3, <2>6
    <3> QED
      BY <1>1, <1>2, <2>1, <2>2, <2>3, <2>4, <3>1, <3>2 DEF Informed
  <2> QED
    BY <2>5, <2>6
<1>8. HeldByMembers'
  BY <1>1 DEF IInv, HeldByMembers
<1>9. RotatedHeldByNone'
  BY <1>1, <1>3, <1>5 DEF IInv, RotatedHeldByNone, k
<1>10. LineageSound'
  BY <1>1, <1>2, <1>3, <1>5 DEF IInv, LineageSound, KeyTypes, k
<1>11. \A n \in Keyrings : status'[n] = "absent" => from'[n] = None
  BY <1>1, <1>5 DEF IInv
<1> QED
  BY <1>6, <1>7, <1>8, <1>9, <1>10, <1>11 DEF KeyInv

LEMMA RevokeGrantsInv ==
  ASSUME IInv, NEW g \in KeyHandlers, RevokeGrants(g)
  PROVE  KeyInv'
<1> DEFINE k == parent[g]
<1>1. /\ kpc' = [kpc EXCEPT ![g] = "insert"] /\ kpc[g] = "revoke"
      /\ held' = [held EXCEPT ![k] = {}]
      /\ early' = {n \in early : n = k => GrantsToCome(n)}
      /\ UNCHANGED <<role, active, promoted, pc, as, who, seen, status, epoch, from, key,
                     parent, targets, overtaken, unrevoked, unfinished>>
  BY DEF RevokeGrants, GoOn, memberVars, keyVars
<1>2. KeyTypes /\ \A f \in KeyHandlers : Informed(f)
  BY DEF IInv
<1>3. kpc' \in [KeyHandlers -> PCs] /\ kpc'[g] = "insert" /\ \A f \in KeyHandlers \ {g} : kpc'[f] = kpc[f]
  BY <1>1, <1>2, KeyGoOn DEF PCs
<1>4. k \in Keyrings /\ status[k] = "rotated"
  BY <1>1, <1>2 DEF Informed, KeyTypes
<1>5. held' \in [Keyrings -> SUBSET Identities] /\ held'[k] = {}
      /\ \A n \in Keyrings \ {k} : held'[n] = held[n]
  BY <1>1, <1>2, <1>4 DEF KeyTypes
<1> HIDE DEF k
<1>6. KeyTypes'
  BY <1>1, <1>2, <1>3, <1>5 DEF KeyTypes
<1>7. ASSUME NEW f \in KeyHandlers
      PROVE  Informed(f)'
  <2>1. kpc'[f] = "grant" /\ status[key[f]] = "rotated" => key[f] \in early'
    BY <1>1, <1>2, <1>3 DEF Informed, GrantsToCome
  <2>2. \A n \in Keyrings : held'[n] # {} /\ n \in early => n \in early'
    BY <1>1, <1>5
  <2>3. \A n \in Keyrings : held'[n] # {} => held[n] # {}
    BY <1>5
  <2>4. kpc'[f] = "insert" /\ parent[f] # None /\ held'[parent[f]] # {} => parent[f] \in early'
    BY <1>2, <1>3, <1>5, <2>2, <2>3 DEF Informed, KeyTypes, k
  <2> QED
    BY <1>1, <1>2, <1>3, <1>4, <2>1, <2>4 DEF Informed, k
<1>8. HeldByMembers'
  BY <1>1, <1>5 DEF IInv, HeldByMembers
<1>9. RotatedHeldByNone'
  BY <1>1, <1>3, <1>5 DEF IInv, RotatedHeldByNone, k
<1>10. LineageSound'
  BY <1>1, <1>3 DEF IInv, LineageSound
<1> QED
  BY <1>1, <1>6, <1>7, <1>8, <1>9, <1>10 DEF KeyInv, IInv


LEMMA InsertKeyringInv ==
  ASSUME IInv, NEW g \in KeyHandlers, NEW n \in Keyrings, InsertKeyring(g, n)
  PROVE  KeyInv'
<1> DEFINE p == parent[g]
<1>1. /\ kpc[g] = "insert" /\ status[n] = "absent"
      /\ status' = [status EXCEPT ![n] = "active"]
      /\ epoch' = [epoch EXCEPT ![n] = NextEpoch(p)]
      /\ from' = [from EXCEPT ![n] = p]
      /\ unfinished' = unfinished \ {p}
      /\ UNCHANGED <<role, active, promoted, pc, as, who, seen, held, overtaken, unrevoked, early>>
  BY DEF InsertKeyring, memberVars
<1>2. KeyTypes /\ \A f \in KeyHandlers : Informed(f)
  BY DEF IInv
<1>3. /\ kpc' \in [KeyHandlers -> PCs] /\ parent' \in [KeyHandlers -> Keyrings \cup {None}]
      /\ key' \in [KeyHandlers -> Keyrings \cup {None}] /\ targets' \in [KeyHandlers -> SUBSET Identities]
      /\ \A f \in KeyHandlers \ {g} :
           kpc'[f] = kpc[f] /\ parent'[f] = parent[f] /\ key'[f] = key[f] /\ targets'[f] = targets[f]
      /\ \/ kpc'[g] = "idle" /\ parent'[g] = None /\ targets'[g] = {}
         \/ kpc'[g] = "grant" /\ parent'[g] = parent[g] /\ key'[g] = n /\ targets'[g] = targets[g]
  <2>1. CASE targets[g] = {}
    BY <1>2, <2>1, KeyFinish DEF InsertKeyring
  <2>2. CASE targets[g] # {}
    BY <1>2, <2>2 DEF InsertKeyring, KeyTypes, PCs
  <2> QED
    BY <2>1, <2>2
<1>4. p \in Keyrings \cup {None} /\ (p # None => status[p] = "rotated" /\ p # n)
  BY <1>1, <1>2 DEF Informed, KeyTypes
<1>5. /\ status' \in [Keyrings -> {"absent", "active", "rotated"}] /\ status'[n] = "active"
      /\ \A m \in Keyrings \ {n} : status'[m] = status[m]
  BY <1>1, <1>2 DEF KeyTypes
<1>6. /\ from' \in [Keyrings -> Keyrings \cup {None}] /\ from'[n] = p
      /\ \A m \in Keyrings \ {n} : from'[m] = from[m]
  BY <1>1, <1>2, <1>4 DEF KeyTypes
<1>7. NextEpoch(p) \in Nat /\ (p # None => NextEpoch(p) = epoch[p] + 1)
  BY <1>2, <1>4 DEF KeyTypes, NextEpoch
<1>8. /\ epoch' \in [Keyrings -> Nat] /\ epoch'[n] = NextEpoch(p)
      /\ \A m \in Keyrings \ {n} : epoch'[m] = epoch[m]
  BY <1>1, <1>2, <1>7 DEF KeyTypes
<1>9. KeyTypes'
  BY <1>1, <1>2, <1>3, <1>5, <1>6, <1>8 DEF KeyTypes
<1>10. ASSUME NEW f \in KeyHandlers
       PROVE  Informed(f)'
  <2>1. CASE f = g
    BY <1>1, <1>2, <1>3, <1>4, <1>5, <2>1 DEF Informed
  <2>2. CASE f # g
    <3>1. parent[f] # None => status'[parent[f]] # "absent"
      BY <1>2, <1>5 DEF Informed, KeyTypes
    <3>2. kpc[f] = "grant" => key[f] \in Keyrings /\ key[f] # n /\ status'[key[f]] = status[key[f]]
      BY <1>1, <1>2, <1>5 DEF Informed, KeyTypes
    <3>3. parent[f] # None => parent[f] # n /\ status'[parent[f]] = status[parent[f]]
      BY <1>1, <1>2, <1>5 DEF Informed, KeyTypes
    <3> QED
      BY SMTT(30), <1>1, <1>2, <1>3, <2>2, <3>1, <3>2, <3>3 DEF Informed
  <2> QED
    BY <2>1, <2>2
<1>11. HeldByMembers'
  BY <1>1 DEF IInv, HeldByMembers
<1>12. p # None /\ held[p] # {} => p \in early
  BY <1>1, <1>2 DEF Informed
<1>13. RotatedHeldByNone'
  <2> SUFFICES ASSUME NEW k \in Keyrings, status'[k] = "rotated", held[k] # {}
               PROVE  \/ \E f \in KeyHandlers : kpc'[f] = "revoke" /\ parent'[f] = k
                      \/ k \in unfinished' \cup early
    BY <1>1 DEF RotatedHeldByNone
  <2>1. status[k] = "rotated"
    BY <1>5
  <2>2. \/ \E f \in KeyHandlers : kpc[f] = "revoke" /\ parent[f] = k
        \/ k \in unfinished \cup early
    BY <2>1 DEF IInv, RotatedHeldByNone
  <2>3. ASSUME NEW f \in KeyHandlers, kpc[f] = "revoke", parent[f] = k
        PROVE  kpc'[f] = "revoke" /\ parent'[f] = k
    BY <1>1, <1>3, <2>3
  <2>4. k \in unfinished => k \in unfinished' \cup early
    BY <1>1, <1>12
  <2> QED
    BY <2>2, <2>3, <2>4
<1>14. LineageSound'
  <2>1. ASSUME NEW k \in Keyrings, status'[k] = "rotated"
        PROVE  \/ \E m \in Keyrings : from'[m] = k
               \/ \E f \in KeyHandlers : kpc'[f] \in {"revoke", "insert"} /\ parent'[f] = k
               \/ k \in unfinished'
    <3>1. status[k] = "rotated"
      BY <1>5, <2>1
    <3>2. \/ \E m \in Keyrings : from[m] = k
          \/ \E f \in KeyHandlers : kpc[f] \in {"revoke", "insert"} /\ parent[f] = k
          \/ k \in unfinished
      BY <3>1 DEF IInv, LineageSound
    <3>3. \A m \in Keyrings : from[m] = k => from'[m] = k
      BY <1>1, <1>6 DEF IInv
    <3>4. k = p => from'[n] = k
      BY <1>6
    <3> QED
      BY <1>1, <1>3, <3>2, <3>3, <3>4
  <2>2. ASSUME NEW k \in Keyrings, from'[k] # None
        PROVE  status'[from'[k]] = "rotated" /\ epoch'[k] = epoch'[from'[k]] + 1
    <3>1. CASE k = n
      BY <1>4, <1>5, <1>6, <1>7, <1>8, <2>2, <3>1
    <3>2. CASE k # n
      <4>1. from'[k] = from[k] /\ from[k] \in Keyrings /\ status[from[k]] = "rotated"
            /\ epoch[k] = epoch[from[k]] + 1
        BY <1>2, <1>6, <2>2, <3>2 DEF IInv, LineageSound, KeyTypes
      <4> QED
        BY <1>1, <1>5, <1>8, <3>2, <4>1
    <3> QED
      BY <3>1, <3>2
  <2> QED
    BY <2>1, <2>2 DEF LineageSound
<1>15. \A k \in Keyrings : status'[k] = "absent" => from'[k] = None
  BY <1>5, <1>6 DEF IInv
<1> QED
  BY <1>9, <1>10, <1>11, <1>13, <1>14, <1>15 DEF KeyInv

LEMMA InsertGrantsInv ==
  ASSUME IInv, NEW g \in KeyHandlers, InsertGrants(g)
  PROVE  KeyInv'
<1> DEFINE k == key[g]
<1>1. /\ kpc[g] = "grant" /\ held' = [held EXCEPT ![k] = held[k] \cup targets[g]]
      /\ Finish(g)
      /\ UNCHANGED <<role, active, promoted, pc, as, who, seen, status, epoch, from,
                     overtaken, unrevoked, unfinished, early>>
  BY DEF InsertGrants, memberVars, keyVars, troubleVars
<1>2. KeyTypes /\ \A f \in KeyHandlers : Informed(f)
  BY DEF IInv
<1>3. /\ kpc' \in [KeyHandlers -> PCs] /\ kpc'[g] = "idle"
      /\ parent' \in [KeyHandlers -> Keyrings \cup {None}] /\ parent'[g] = None
      /\ key' \in [KeyHandlers -> Keyrings \cup {None}]
      /\ targets' \in [KeyHandlers -> SUBSET Identities] /\ targets'[g] = {}
      /\ \A f \in KeyHandlers \ {g} :
           kpc'[f] = kpc[f] /\ parent'[f] = parent[f] /\ key'[f] = key[f] /\ targets'[f] = targets[f]
  BY <1>1, <1>2, KeyFinish
<1>4. k \in Keyrings /\ (status[k] = "rotated" => k \in early) /\ targets[g] \subseteq Identities
      /\ targets[g] \subseteq active \cup overtaken
  BY <1>1, <1>2 DEF Informed, KeyTypes
<1> HIDE DEF k
<1>5. held' \in [Keyrings -> SUBSET Identities] /\ held'[k] = held[k] \cup targets[g]
      /\ \A n \in Keyrings \ {k} : held'[n] = held[n]
  BY <1>1, <1>2, <1>4 DEF KeyTypes
<1>6. KeyTypes'
  BY <1>1, <1>2, <1>3, <1>5 DEF KeyTypes
<1>7. ASSUME NEW f \in KeyHandlers
      PROVE  Informed(f)'
  <2>1. CASE f = g
    BY <1>3, <2>1 DEF Informed
  <2>2. CASE f # g
    <3>1. kpc[f] = "insert" /\ parent[f] # None /\ held'[parent[f]] # {} => parent[f] \in early
      BY <1>2, <1>4, <1>5 DEF Informed, KeyTypes
    <3> QED
      BY <1>1, <1>2, <1>3, <2>2, <3>1 DEF Informed
  <2> QED
    BY <2>1, <2>2
<1>8. HeldByMembers'
  <2>1. \A n \in Keyrings : \A i \in held'[n] \ active : i \in held[n] \/ i \in overtaken
    BY <1>4, <1>5
  <2> QED
    BY <1>1, <2>1 DEF IInv, HeldByMembers
<1>9. RotatedHeldByNone'
  <2>1. \A n \in Keyrings : status[n] = "rotated" /\ held'[n] # {} => held[n] # {} \/ n \in early
    BY <1>4, <1>5
  <2> QED
    BY <1>1, <1>3, <2>1 DEF IInv, RotatedHeldByNone
<1>10. LineageSound'
  BY <1>1, <1>3 DEF IInv, LineageSound
<1> QED
  BY <1>1, <1>6, <1>7, <1>8, <1>9, <1>10 DEF KeyInv, IInv

LEMMA AbandonInv ==
  ASSUME IInv, NEW g \in KeyHandlers, Abandon(g)
  PROVE  KeyInv'
<1>1. /\ Finish(g)
      /\ unfinished' = IF kpc[g] \in {"revoke", "insert"} /\ parent[g] # None
                         THEN unfinished \cup {parent[g]} ELSE unfinished
      /\ UNCHANGED <<role, active, promoted, pc, as, who, seen, status, epoch, from, held,
                     overtaken, unrevoked, early>>
  BY DEF Abandon, memberVars, keyVars
<1>2. KeyTypes /\ \A f \in KeyHandlers : Informed(f)
  BY DEF IInv
<1>3. /\ kpc' \in [KeyHandlers -> PCs] /\ kpc'[g] = "idle"
      /\ parent' \in [KeyHandlers -> Keyrings \cup {None}] /\ parent'[g] = None
      /\ key' \in [KeyHandlers -> Keyrings \cup {None}]
      /\ targets' \in [KeyHandlers -> SUBSET Identities] /\ targets'[g] = {}
      /\ \A f \in KeyHandlers \ {g} :
           kpc'[f] = kpc[f] /\ parent'[f] = parent[f] /\ key'[f] = key[f] /\ targets'[f] = targets[f]
  BY <1>1, <1>2, KeyFinish
<1>4. /\ unfinished' \subseteq Keyrings /\ unfinished \subseteq unfinished'
      /\ kpc[g] \in {"revoke", "insert"} /\ parent[g] # None => parent[g] \in unfinished'
  BY <1>1, <1>2 DEF KeyTypes
<1>5. KeyTypes'
  BY <1>1, <1>2, <1>3, <1>4 DEF KeyTypes
<1>6. \A f \in KeyHandlers : Informed(f)'
  BY <1>1, <1>2, <1>3 DEF Informed
<1>7. HeldByMembers'
  BY <1>1 DEF IInv, HeldByMembers
<1>8. RotatedHeldByNone' /\ LineageSound'
  BY <1>1, <1>3, <1>4 DEF IInv, RotatedHeldByNone, LineageSound
<1> QED
  BY <1>1, <1>5, <1>6, <1>7, <1>8 DEF KeyInv, IInv


LEMMA MemberStatementInv ==
  ASSUME IInv, NEW h \in Handlers, MemberStatement(h), MembersInv'
  PROVE  KeyInv'
<1>1. /\ Members!Statement(h)
      /\ overtaken' = (overtaken \cup {i \in active : Targeted(i)}) \ active'
      /\ unrevoked' = unrevoked \ active'
      /\ UNCHANGED <<status, epoch, from, held, kpc, parent, key, targets, unfinished, early>>
  BY DEF MemberStatement, keyVars, handlerVars
<1>2. /\ pc[h] # "revoke"
      /\ \A f \in Handlers \ {h} : pc'[f] = pc[f] /\ who'[f] = who[f]
      /\ \A i \in active \ active' : pc'[h] = "revoke" /\ who'[h] = i
  BY <1>1, MemberEffect DEF IInv
<1>3. active \subseteq Identities
  BY DEF IInv, MembersInv, Members!TypeOK
<1>4. KeyTypes'
  BY <1>1, <1>3 DEF IInv, KeyTypes
<1>5. ASSUME NEW g \in KeyHandlers
      PROVE  Informed(g)'
  <2>1. Informed(g)
    BY DEF IInv
  <2>2. targets[g] \subseteq active' \cup overtaken'
    BY <1>1, <2>1 DEF Informed, Targeted
  <2> QED
    BY <1>1, <2>1, <2>2 DEF Informed
<1>6. ASSUME NEW k \in Keyrings, NEW i \in held[k] \ active'
      PROVE  \/ \E f \in Handlers : pc'[f] = "revoke" /\ who'[f] = i
             \/ i \in unrevoked' \cup overtaken'
  <2>1. CASE i \in active
    BY <1>2, <1>6, <2>1
  <2>2. CASE i \notin active
    <3>1. \/ \E f \in Handlers : pc[f] = "revoke" /\ who[f] = i
          \/ i \in unrevoked \cup overtaken
      BY <2>2 DEF IInv, HeldByMembers
    <3> QED
      BY <1>1, <1>2, <1>6, <3>1
  <2> QED
    BY <2>1, <2>2
<1>7. HeldByMembers'
  BY <1>1, <1>6 DEF HeldByMembers
<1>8. RotatedHeldByNone' /\ LineageSound'
  BY <1>1 DEF IInv, RotatedHeldByNone, LineageSound
<1> QED
  BY <1>1, <1>4, <1>5, <1>7, <1>8 DEF KeyInv, IInv

LEMMA RevokeInv ==
  ASSUME IInv, NEW h \in Handlers, Revoke(h)
  PROVE  KeyInv'
<1>1. /\ pc[h] = "revoke" /\ Members!Finish(h)
      /\ held' = [k \in Keyrings |-> held[k] \ {who[h]}]
      /\ overtaken' = {i \in overtaken : i = who[h] => Targeted(i)}
      /\ unrevoked' = unrevoked \ {who[h]}
      /\ UNCHANGED <<active, status, epoch, from, kpc, parent, key, targets, unfinished, early>>
  BY DEF Revoke, Members!Revoke, Members!memberVars, keyVars, handlerVars
<1>2. \A f \in Handlers \ {h} : pc'[f] = pc[f] /\ who'[f] = who[f]
  BY <1>1, FinishEffect DEF IInv
<1>3. KeyTypes'
  BY <1>1 DEF IInv, KeyTypes
<1>4. \A k \in Keyrings : held'[k] = held[k] \ {who[h]}
  BY <1>1
<1>5. ASSUME NEW g \in KeyHandlers
      PROVE  Informed(g)'
  <2>1. Informed(g) /\ parent[g] \in Keyrings \cup {None}
    BY DEF IInv, KeyTypes
  <2>2. targets[g] \subseteq active' \cup overtaken'
    BY <1>1, <2>1 DEF Informed, Targeted
  <2>3. parent[g] # None /\ held'[parent[g]] # {} => held[parent[g]] # {}
    BY <1>4, <2>1
  <2> QED
    BY <1>1, <2>1, <2>2, <2>3 DEF Informed
<1>6. HeldByMembers'
  <2> SUFFICES ASSUME NEW k \in Keyrings, NEW i \in held'[k] \ active'
               PROVE  \/ \E f \in Handlers : pc'[f] = "revoke" /\ who'[f] = i
                      \/ i \in unrevoked' \cup overtaken'
    BY DEF HeldByMembers
  <2>1. i \in held[k] \ active /\ i # who[h]
    BY <1>1, <1>4
  <2>2. \/ \E f \in Handlers : pc[f] = "revoke" /\ who[f] = i
        \/ i \in unrevoked \cup overtaken
    BY <2>1 DEF IInv, HeldByMembers
  <2> QED
    BY <1>1, <1>2, <2>1, <2>2
<1>7. RotatedHeldByNone'
  <2>1. \A k \in Keyrings : held'[k] # {} => held[k] # {}
    BY <1>4
  <2> QED
    BY <1>1, <2>1 DEF IInv, RotatedHeldByNone
<1>8. LineageSound'
  BY <1>1 DEF IInv, LineageSound
<1> QED
  BY <1>1, <1>3, <1>5, <1>6, <1>7, <1>8 DEF KeyInv, IInv

LEMMA MemberAbandonInv ==
  ASSUME IInv, NEW h \in Handlers, MemberAbandon(h)
  PROVE  KeyInv'
<1>1. /\ Members!Finish(h)
      /\ unrevoked' = IF pc[h] = "revoke" THEN (unrevoked \cup {who[h]}) \ active ELSE unrevoked
      /\ UNCHANGED <<active, held, status, epoch, from, kpc, parent, key, targets, overtaken,
                     unfinished, early>>
  BY DEF MemberAbandon, Members!Abandon, Members!memberVars, keyVars, handlerVars
<1>2. \A f \in Handlers \ {h} : pc'[f] = pc[f] /\ who'[f] = who[f]
  BY <1>1, FinishEffect DEF IInv
<1>3. pc[h] = "revoke" => who[h] \in Identities
  BY DEF IInv, MembersInv, HandlerInformed
<1>4. KeyTypes'
  BY <1>1, <1>3 DEF IInv, KeyTypes
<1>5. \A g \in KeyHandlers : Informed(g)'
  BY <1>1 DEF IInv, Informed
<1>6. HeldByMembers'
  BY <1>1, <1>2 DEF IInv, HeldByMembers
<1>7. RotatedHeldByNone' /\ LineageSound'
  BY <1>1 DEF IInv, RotatedHeldByNone, LineageSound
<1> QED
  BY <1>1, <1>4, <1>5, <1>6, <1>7 DEF KeyInv, IInv

LEMMA NextInv == IInv /\ [Next]_vars => IInv'
<1> SUFFICES ASSUME IInv, [Next]_vars PROVE IInv'
  OBVIOUS
<1>1. MembersInv'
  <2>1. [Members!Next]_(Members!vars)
    BY MembersStep
  <2>2. MembersInv
    BY DEF IInv
  <2> QED
    BY <2>1, <2>2, MembersNext
<1>2. ASSUME NEW g \in KeyHandlers, KeyStep(g)
      PROVE  KeyInv'
  BY <1>2, BeginInv, ValidateInv, MarkRotatedInv, RevokeGrantsInv, InsertKeyringInv,
     InsertGrantsInv, AbandonInv DEF KeyStep
<1>3. ASSUME NEW h \in Handlers, MemberStatement(h) \/ Revoke(h) \/ MemberAbandon(h)
      PROVE  KeyInv'
  BY <1>1, <1>3, MemberStatementInv, RevokeInv, MemberAbandonInv
<1>4. ASSUME UNCHANGED vars
      PROVE  KeyInv'
  <2>1. UNCHANGED <<active, pc, who, held, status, epoch, from, kpc, parent, key, targets,
                    overtaken, unrevoked, unfinished, early>>
    BY <1>4 DEF vars, memberVars, keyVars, handlerVars, troubleVars
  <2>2. KeyTypes' /\ \A g \in KeyHandlers : Informed(g)'
    BY <2>1 DEF IInv, KeyTypes, Informed
  <2>3. HeldByMembers' /\ RotatedHeldByNone' /\ LineageSound'
    BY <2>1 DEF IInv, HeldByMembers, RotatedHeldByNone, LineageSound
  <2>4. \A k \in Keyrings : status'[k] = "absent" => from'[k] = None
    BY <2>1 DEF IInv
  <2> QED
    BY <2>2, <2>3, <2>4 DEF KeyInv
<1>5. KeyInv'
  BY <1>2, <1>3, <1>4 DEF Next
<1> QED
  BY <1>1, <1>5 DEF KeyInv, IInv

THEOREM Invariance == Spec => []IInv
BY InitInv, NextInv, PTL DEF Spec

----------------------------------------------------------------------------

\* Type correctness, of the members too.
THEOREM TypeCorrect == Spec => []TypeOK
<1>1. IInv => TypeOK
  BY DEF IInv, MembersInv, KeyTypes, TypeOK
<1> QED
  BY <1>1, Invariance, PTL

\* Only members hold keys, but for the traces of races and of unfinished removals.
THEOREM MembersHold == Spec => []HeldByMembers
<1>1. IInv => HeldByMembers
  BY DEF IInv
<1> QED
  BY <1>1, Invariance, PTL

\* Nobody holds a rotated keyring, but for the traces of races and of deaths.
THEOREM RotatedAreFree == Spec => []RotatedHeldByNone
<1>1. IInv => RotatedHeldByNone
  BY DEF IInv
<1> QED
  BY <1>1, Invariance, PTL

\* A rotated keyring has its successor, one epoch later, unless its rotation
\* is under way or died.
THEOREM LineagesSound == Spec => []LineageSound
<1>1. IInv => LineageSound
  BY DEF IInv
<1> QED
  BY <1>1, Invariance, PTL

============================================================================
