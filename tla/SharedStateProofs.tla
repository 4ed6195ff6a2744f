------------------------- MODULE SharedStateProofs -------------------------
(***************************************************************************)
(* Theorems about components whose calls run in several threads or         *)
(* processes and share a row, a cache or a client: for every value of      *)
(* their constants what the runs check follows from the strengthening the  *)
(* module defines.  No theorem is about two of them: what bears one name   *)
(* in several modules is declared once here, and nothing is assumed of it  *)
(* but what the theorem names.                                             *)
(***************************************************************************)
EXTENDS Integers, Sequences, FiniteSets, FiniteSetTheorems, TLAPS

CONSTANTS
    Grants, Revokes, Checks, ActionOf, WildOf, Ends, Modes, Scores, MinTrust,
    MaxFaults, Horizon, None, Calls, Leased, Deployments, Attempts, Keys, First,
    KeyOf, TtlOf, Timeout, ProcessOf, Definitions, Brought, MaxFailures, Changes,
    FactoryOf, Environments, Cooldown, Events, Controls, KindOf, Transmitters,
    MaxFlushes, MaxTrust, StartingTrust, Penalty

VARIABLES
    mode, now, row, nextId, score, pc, found, answer, present, permitted, trusted,
    overtaken, faults, deployment, flushed, holder, edgeLock, attempt, earlier,
    removed, published, goneAt, ttl, cache, came, since, shownAt, def, versions,
    seen, latest, number, override, checked, operated, failures, env, factory,
    client, resolved, retryAfter, lock, got, epoch, began, crossed, failedAt,
    barren, blind, hurried, disabled, tx, stop, w_pc, e_pc, window, taken, posted,
    dropped, flushes, last, overlapped, applied, stale

Role == INSTANCE RoleGrants
Edge == INSTANCE PrincipalEdges
Token == INSTANCE JwksCache
Version == INSTANCE AgentVersions
Client == INSTANCE ValkeyClient
Counter == INSTANCE Telemetry
Trust == INSTANCE PrincipalTrust
-----------------------------------------------------------------------------
(* The grants of a principal.  A revocation that no grant overlapped is    *)
(* about to delete the row that is there, and a check at the trust gate    *)
(* has passed the one before.                                              *)

RolesAssumption == Role!CallsAssumption /\ Role!NumbersAssumption

\* The rows are those of the actions and of their wildcards.
LEMMA ActionRows ==
    ASSUME Role!CallsAssumption
    PROVE  \A c \in Role!Calls :
              ActionOf[c] \in Role!Rows /\ WildOf[ActionOf[c]] \in Role!Rows
BY DEF Role!Rows, Role!Actions

\* What has been observed stays observed.
LEMMA Observed ==
    ASSUME Role!TypeOK, Role!Observe
    PROVE  /\ \A g \in Grants : present[g] \subseteq present'[g]
           /\ permitted \subseteq permitted' /\ trusted \subseteq trusted'
           /\ overtaken \subseteq overtaken'
BY DEF Role!Observe, Role!TypeOK

\* A grant that is under way observes the row of its action and overtakes its revocations.
LEMMA GrantObserves ==
    ASSUME Role!TypeOK, Role!Observe, NEW g \in Grants, Role!Under(g)
    PROVE  /\ Role!Id(ActionOf[g])' # None => Role!Id(ActionOf[g])' \in present'[g]
           /\ \A r \in Revokes : (pc'[r] # "idle" /\ ActionOf[g] = ActionOf[r]) => r \in overtaken'
BY DEF Role!Observe, Role!TypeOK

\* A check that is under way observes the cover and the score.
LEMMA CheckObserves ==
    ASSUME Role!TypeOK, Role!Observe, NEW k \in Checks, Role!Under(k)
    PROVE  /\ Role!Covered(ActionOf[k])' => k \in permitted'
           /\ Role!Trusted' => k \in trusted'
BY DEF Role!Observe

\* The id of an action is that of its row.
LEMMA IdType ==
    ASSUME RolesAssumption, Role!TypeOK
    PROVE  \A a \in Role!Rows :
              /\ Role!Id(a) \in 1..(nextId - 1) \cup {None}
              /\ Role!Id(a) = None <=> row[a] = None
BY DEF RolesAssumption, Role!NumbersAssumption, Role!TypeOK, Role!Id

\* A call is answered when it ends.
LEMMA AnsweredStep ==
    ASSUME RolesAssumption, Role!RolesInv, [Role!Next]_(Role!vars)
    PROVE  Role!AnsweredAtEnd'
<1> USE DEF RolesAssumption, Role!CallsAssumption, Role!NumbersAssumption, Role!RolesInv,
            Role!TypeOK, Role!Calls, Role!table, Role!AnsweredAtEnd
<1>1. ASSUME NEW c \in Role!Calls, Role!Call(c) PROVE Role!AnsweredAtEnd'
  BY <1>1, ActionRows, Observed DEF Role!Call, Role!Continue
<1>2. ASSUME NEW g \in Grants, Role!GrantSelect(g) PROVE Role!AnsweredAtEnd'
  BY <1>2, ActionRows, Observed DEF Role!GrantSelect, Role!Returned, Role!Continue
<1>3. ASSUME NEW g \in Grants, Role!GrantInsert(g) PROVE Role!AnsweredAtEnd'
  BY <1>3, ActionRows, Observed DEF Role!GrantInsert, Role!Returned, Role!Continue
<1>4. ASSUME NEW g \in Grants, Role!GrantAgain(g) PROVE Role!AnsweredAtEnd'
  BY <1>4, ActionRows, Observed DEF Role!GrantAgain, Role!Returned, Role!Return
<1>5. ASSUME NEW g \in Grants, Role!GrantFails(g) PROVE Role!AnsweredAtEnd'
  BY <1>5, ActionRows, Observed DEF Role!GrantFails, Role!Returned, Role!Return
<1>6. ASSUME NEW r \in Revokes, Role!RevokeSelect(r) PROVE Role!AnsweredAtEnd'
  BY <1>6, ActionRows, Observed DEF Role!RevokeSelect, Role!Returned, Role!Return, Role!Continue
<1>7. ASSUME NEW r \in Revokes, Role!RevokeDelete(r) PROVE Role!AnsweredAtEnd'
  BY <1>7, ActionRows, Observed DEF Role!RevokeDelete, Role!Returned, Role!Return
<1>8. ASSUME NEW r \in Revokes, Role!RevokeFails(r) PROVE Role!AnsweredAtEnd'
  BY <1>8, ActionRows, Observed DEF Role!RevokeFails, Role!Returned, Role!Return
<1>9. ASSUME NEW k \in Checks, Role!CheckGrant(k) PROVE Role!AnsweredAtEnd'
  BY <1>9, ActionRows, Observed
     DEF Role!CheckGrant, Role!AfterGrant, Role!Returned, Role!Return, Role!Continue
<1>10. ASSUME NEW k \in Checks, Role!CheckGrantFails(k) PROVE Role!AnsweredAtEnd'
  BY <1>10, ActionRows, Observed
     DEF Role!CheckGrantFails, Role!AfterGrant, Role!Returned, Role!Return, Role!Continue
<1>11. ASSUME NEW k \in Checks, Role!CheckTrust(k) PROVE Role!AnsweredAtEnd'
  BY <1>11, ActionRows, Observed DEF Role!CheckTrust, Role!Returned, Role!Return, Role!YesNo
<1>12. ASSUME NEW k \in Checks, Role!CheckTrustFails(k) PROVE Role!AnsweredAtEnd'
  BY <1>12, ActionRows, Observed DEF Role!CheckTrustFails, Role!Returned, Role!Return
<1>13. CASE Role!Rescore
  BY <1>13, ActionRows, Observed DEF Role!Rescore
<1>14. CASE Role!Tick
  BY <1>14, ActionRows, Observed DEF Role!Tick
<1>15. CASE UNCHANGED Role!vars
  BY <1>15 DEF Role!vars, Role!history
<1>16. QED
  BY <1>1, <1>2, <1>3, <1>4, <1>5, <1>6, <1>7, <1>8, <1>9, <1>10, <1>11, <1>12, <1>13,
     <1>14, <1>15 DEF Role!Next

\* The row that a revocation has read stays, unless a grant overlaps it.
LEMMA DeletesStep ==
    ASSUME RolesAssumption, Role!RolesInv, [Role!Next]_(Role!vars)
    PROVE  Role!DeletesWhatIsThere'
<1> USE DEF RolesAssumption, Role!CallsAssumption, Role!NumbersAssumption, Role!RolesInv,
            Role!TypeOK, Role!Calls, Role!table, Role!DeletesWhatIsThere, Role!Id
<1>1. ASSUME NEW c \in Role!Calls, Role!Call(c) PROVE Role!DeletesWhatIsThere'
  BY <1>1, ActionRows, Observed DEF Role!Call, Role!Continue
<1>2. ASSUME NEW g \in Grants, Role!GrantSelect(g) PROVE Role!DeletesWhatIsThere'
  BY <1>2, ActionRows, Observed DEF Role!GrantSelect, Role!Returned, Role!Continue
<1>3. ASSUME NEW g \in Grants, Role!GrantInsert(g) PROVE Role!DeletesWhatIsThere'
  <2>1. Role!Under(g) /\ Role!Observe
    BY <1>3 DEF Role!GrantInsert, Role!Under, Role!Returned, Role!Continue
  <2>2. ASSUME NEW r \in Revokes, pc'[r] = "delete", r \notin overtaken'
        PROVE  Role!Id(ActionOf[r])' \in {None, found'[r]}
    <3>1. ActionOf[g] # ActionOf[r]
      BY <2>1, <2>2, GrantObserves
    <3>2. pc[r] = "delete" /\ found'[r] = found[r] /\ r \notin overtaken
      BY <1>3, <2>1, <2>2, Observed DEF Role!GrantInsert, Role!Returned, Role!Continue
    <3>3. row'[ActionOf[r]] = row[ActionOf[r]]
      BY <1>3, <3>1, ActionRows DEF Role!GrantInsert
    <3>. QED  BY <3>2, <3>3
  <2>. QED  BY <2>2
<1>4. ASSUME NEW g \in Grants, Role!GrantAgain(g) PROVE Role!DeletesWhatIsThere'
  BY <1>4, ActionRows, Observed DEF Role!GrantAgain, Role!Returned, Role!Return
<1>5. ASSUME NEW g \in Grants, Role!GrantFails(g) PROVE Role!DeletesWhatIsThere'
  BY <1>5, ActionRows, Observed DEF Role!GrantFails, Role!Returned, Role!Return
<1>6. ASSUME NEW r \in Revokes, Role!RevokeSelect(r) PROVE Role!DeletesWhatIsThere'
  BY <1>6, ActionRows, Observed DEF Role!RevokeSelect, Role!Returned, Role!Return, Role!Continue
<1>7. ASSUME NEW r \in Revokes, Role!RevokeDelete(r) PROVE Role!DeletesWhatIsThere'
  BY <1>7, ActionRows, Observed DEF Role!RevokeDelete, Role!Returned, Role!Return
<1>8. ASSUME NEW r \in Revokes, Role!RevokeFails(r) PROVE Role!DeletesWhatIsThere'
  BY <1>8, ActionRows, Observed DEF Role!RevokeFails, Role!Returned, Role!Return
<1>9. ASSUME NEW k \in Checks, Role!CheckGrant(k) PROVE Role!DeletesWhatIsThere'
  BY <1>9, ActionRows, Observed
     DEF Role!CheckGrant, Role!AfterGrant, Role!Returned, Role!Return, Role!Continue
<1>10. ASSUME NEW k \in Checks, Role!CheckGrantFails(k) PROVE Role!DeletesWhatIsThere'
  BY <1>10, ActionRows, Observed
     DEF Role!CheckGrantFails, Role!AfterGrant, Role!Returned, Role!Return, Role!Continue
<1>11. ASSUME NEW k \in Checks, Role!CheckTrust(k) PROVE Role!DeletesWhatIsThere'
  BY <1>11, ActionRows, Observed DEF Role!CheckTrust, Role!Returned, Role!Return, Role!YesNo
<1>12. ASSUME NEW k \in Checks, Role!CheckTrustFails(k) PROVE Role!DeletesWhatIsThere'
  BY <1>12, ActionRows, Observed DEF Role!CheckTrustFails, Role!Returned, Role!Return
<1>13. CASE Role!Rescore
  BY <1>13, ActionRows, Observed DEF Role!Rescore
<1>14. CASE Role!Tick
  BY <1>14, ActionRows, Observed DEF Role!Tick
<1>15. CASE UNCHANGED Role!vars
  BY <1>15 DEF Role!vars, Role!history
<1>16. QED
  BY <1>1, <1>2, <1>3, <1>4, <1>5, <1>6, <1>7, <1>8, <1>9, <1>10, <1>11, <1>12, <1>13,
     <1>14, <1>15 DEF Role!Next

\* The gates come one after the other.
LEMMA GateStep ==
    ASSUME RolesAssumption, Role!RolesInv, [Role!Next]_(Role!vars)
    PROVE  Role!GateBehind'
<1> USE DEF RolesAssumption, Role!CallsAssumption, Role!NumbersAssumption, Role!RolesInv,
            Role!TypeOK, Role!Calls, Role!table, Role!GateBehind
<1>1. ASSUME NEW c \in Role!Calls, Role!Call(c) PROVE Role!GateBehind'
  BY <1>1, ActionRows, Observed DEF Role!Call, Role!Continue
<1>2. ASSUME NEW g \in Grants, Role!GrantSelect(g) PROVE Role!GateBehind'
  BY <1>2, ActionRows, Observed DEF Role!GrantSelect, Role!Returned, Role!Continue
<1>3. ASSUME NEW g \in Grants, Role!GrantInsert(g) PROVE Role!GateBehind'
  BY <1>3, ActionRows, Observed DEF Role!GrantInsert, Role!Returned, Role!Continue
<1>4. ASSUME NEW g \in Grants, Role!GrantAgain(g) PROVE Role!GateBehind'
  BY <1>4, ActionRows, Observed DEF Role!GrantAgain, Role!Returned, Role!Return
<1>5. ASSUME NEW g \in Grants, Role!GrantFails(g) PROVE Role!GateBehind'
  BY <1>5, ActionRows, Observed DEF Role!GrantFails, Role!Returned, Role!Return
<1>6. ASSUME NEW r \in Revokes, Role!RevokeSelect(r) PROVE Role!GateBehind'
  BY <1>6, ActionRows, Observed DEF Role!RevokeSelect, Role!Returned, Role!Return, Role!Continue
<1>7. ASSUME NEW r \in Revokes, Role!RevokeDelete(r) PROVE Role!GateBehind'
  BY <1>7, ActionRows, Observed DEF Role!RevokeDelete, Role!Returned, Role!Return
<1>8. ASSUME NEW r \in Revokes, Role!RevokeFails(r) PROVE Role!GateBehind'
  BY <1>8, ActionRows, Observed DEF Role!RevokeFails, Role!Returned, Role!Return
<1>9. ASSUME NEW k \in Checks, Role!CheckGrant(k) PROVE Role!GateBehind'
  <2>1. Role!Under(k) /\ Role!Observe /\ UNCHANGED Role!table
    BY <1>9
       DEF Role!CheckGrant, Role!AfterGrant, Role!Under, Role!Returned, Role!Return,
           Role!Continue
  <2>2. Role!Covered(ActionOf[k])' <=> Role!Covered(ActionOf[k])
    BY <2>1 DEF Role!Covered, Role!Active
  <2>3. ASSUME NEW j \in Checks, pc'[j] = "trust"
        PROVE  MinTrust # None /\ (mode' = "block" => j \in permitted')
    <3>1. CASE j = k
      <4>1. MinTrust # None /\ (mode = "block" => Role!Covered(ActionOf[k]))
        BY <1>9, <2>3, <3>1
           DEF Role!CheckGrant, Role!AfterGrant, Role!Returned, Role!Return, Role!Continue,
               Role!Covers
      <4>. QED  BY <2>1, <2>2, <3>1, <4>1, CheckObserves
    <3>2. CASE j # k
      <4>1. pc[j] = "trust"
        BY <1>9, <2>3, <3>2
           DEF Role!CheckGrant, Role!AfterGrant, Role!Returned, Role!Return, Role!Continue
      <4>. QED  BY <2>1, <4>1, Observed
    <3>. QED  BY <3>1, <3>2
  <2>. QED  BY <2>3
<1>10. ASSUME NEW k \in Checks, Role!CheckGrantFails(k) PROVE Role!GateBehind'
  BY <1>10, ActionRows, Observed
     DEF Role!CheckGrantFails, Role!AfterGrant, Role!Returned, Role!Return, Role!Continue
<1>11. ASSUME NEW k \in Checks, Role!CheckTrust(k) PROVE Role!GateBehind'
  BY <1>11, ActionRows, Observed DEF Role!CheckTrust, Role!Returned, Role!Return, Role!YesNo
<1>12. ASSUME NEW k \in Checks, Role!CheckTrustFails(k) PROVE Role!GateBehind'
  BY <1>12, ActionRows, Observed DEF Role!CheckTrustFails, Role!Returned, Role!Return
<1>13. CASE Role!Rescore
  BY <1>13, ActionRows, Observed DEF Role!Rescore
<1>14. CASE Role!Tick
  BY <1>14, ActionRows, Observed DEF Role!Tick
<1>15. CASE UNCHANGED Role!vars
  BY <1>15 DEF Role!vars, Role!history
<1>16. QED
  BY <1>1, <1>2, <1>3, <1>4, <1>5, <1>6, <1>7, <1>8, <1>9, <1>10, <1>11, <1>12, <1>13,
     <1>14, <1>15 DEF Role!Next

\* What a grant returns was there.
LEMMA GrantsStep ==
    ASSUME RolesAssumption, Role!RolesInv, [Role!Next]_(Role!vars)
    PROVE  Role!GrantsHonest'
<1> USE DEF RolesAssumption, Role!CallsAssumption, Role!NumbersAssumption, Role!RolesInv,
            Role!TypeOK, Role!Calls, Role!table, Role!AnsweredAtEnd, Role!RolesKept,
            Role!GrantsHonest, Role!Id
<1>1. ASSUME NEW c \in Role!Calls, Role!Call(c) PROVE Role!GrantsHonest'
  BY <1>1, ActionRows, Observed DEF Role!Call, Role!Continue
<1>2. ASSUME NEW g \in Grants, Role!GrantSelect(g) PROVE Role!GrantsHonest'
  <2>1. /\ Role!Under(g) /\ Role!Observe
        /\ answer'[g] = "granted" =>
              found'[g] = Role!Id(ActionOf[g])' /\ Role!Id(ActionOf[g])' # None
    BY <1>2, ActionRows DEF Role!GrantSelect, Role!Under, Role!Returned, Role!Continue
  <2>2. ASSUME NEW h \in Grants, answer'[h] = "granted" PROVE found'[h] \in present'[h]
    <3>1. CASE h = g
      BY <2>1, <2>2, <3>1, GrantObserves
    <3>2. CASE h # g
      <4>1. answer[h] = "granted" /\ found'[h] = found[h]
        BY <1>2, <2>2, <3>2 DEF Role!GrantSelect, Role!Returned, Role!Continue
      <4>. QED  BY <2>1, <4>1, Observed
    <3>. QED  BY <3>1, <3>2
  <2>. QED  BY <2>2
<1>3. ASSUME NEW g \in Grants, Role!GrantInsert(g) PROVE Role!GrantsHonest'
  <2>1. /\ Role!Under(g) /\ Role!Observe
        /\ answer'[g] = "granted" =>
              found'[g] = Role!Id(ActionOf[g])' /\ Role!Id(ActionOf[g])' # None
    <3>1. Role!Under(g) /\ Role!Observe
      BY <1>3 DEF Role!GrantInsert, Role!Under, Role!Returned, Role!Continue
    <3>2. CASE row[ActionOf[g]] = None
      <4>1. PICK until \in Ends :
              row' = [row EXCEPT ![ActionOf[g]] = [id |-> nextId, until |-> until]]
        BY <1>3, <3>2 DEF Role!GrantInsert
      <4>2. row'[ActionOf[g]] = [id |-> nextId, until |-> until] /\ row'[ActionOf[g]] # None
        BY <4>1, ActionRows
      <4>3. found'[g] = nextId /\ nextId # None
        BY <1>3, <3>2 DEF Role!GrantInsert, Role!Returned
      <4>. QED  BY <3>1, <4>2, <4>3
    <3>3. CASE row[ActionOf[g]] # None
      BY <1>3, <3>1, <3>3 DEF Role!GrantInsert, Role!Continue
    <3>. QED  BY <3>2, <3>3
  <2>2. ASSUME NEW h \in Grants, answer'[h] = "granted" PROVE found'[h] \in present'[h]
    <3>1. CASE h = g
      BY <2>1, <2>2, <3>1, GrantObserves
    <3>2. CASE h # g
      <4>1. answer[h] = "granted" /\ found'[h] = found[h]
        BY <1>3, <2>2, <3>2 DEF Role!GrantInsert, Role!Returned, Role!Continue
      <4>. QED  BY <2>1, <4>1, Observed
    <3>. QED  BY <3>1, <3>2
  <2>. QED  BY <2>2
<1>4. ASSUME NEW g \in Grants, Role!GrantAgain(g) PROVE Role!GrantsHonest'
  <2>1. /\ Role!Under(g) /\ Role!Observe
        /\ answer'[g] = "granted" =>
              found'[g] = Role!Id(ActionOf[g])' /\ Role!Id(ActionOf[g])' # None
    BY <1>4, ActionRows DEF Role!GrantAgain, Role!Under, Role!Returned, Role!Return
  <2>2. ASSUME NEW h \in Grants, answer'[h] = "granted" PROVE found'[h] \in present'[h]
    <3>1. CASE h = g
      BY <2>1, <2>2, <3>1, GrantObserves
    <3>2. CASE h # g
      <4>1. answer[h] = "granted" /\ found'[h] = found[h]
        BY <1>4, <2>2, <3>2 DEF Role!GrantAgain, Role!Returned, Role!Return
      <4>. QED  BY <2>1, <4>1, Observed
    <3>. QED  BY <3>1, <3>2
  <2>. QED  BY <2>2
<1>5. ASSUME NEW g \in Grants, Role!GrantFails(g) PROVE Role!GrantsHonest'
  BY <1>5, ActionRows, Observed DEF Role!GrantFails, Role!Returned, Role!Return
<1>6. ASSUME NEW r \in Revokes, Role!RevokeSelect(r) PROVE Role!GrantsHonest'
  BY <1>6, ActionRows, Observed DEF Role!RevokeSelect, Role!Returned, Role!Return, Role!Continue
<1>7. ASSUME NEW r \in Revokes, Role!RevokeDelete(r) PROVE Role!GrantsHonest'
  BY <1>7, ActionRows, Observed DEF Role!RevokeDelete, Role!Returned, Role!Return
<1>8. ASSUME NEW r \in Revokes, Role!RevokeFails(r) PROVE Role!GrantsHonest'
  BY <1>8, ActionRows, Observed DEF Role!RevokeFails, Role!Returned, Role!Return
<1>9. ASSUME NEW k \in Checks, Role!CheckGrant(k) PROVE Role!GrantsHonest'
  BY <1>9, ActionRows, Observed
     DEF Role!CheckGrant, Role!AfterGrant, Role!Returned, Role!Return, Role!Continue
<1>10. ASSUME NEW k \in Checks, Role!CheckGrantFails(k) PROVE Role!GrantsHonest'
  BY <1>10, ActionRows, Observed
     DEF Role!CheckGrantFails, Role!AfterGrant, Role!Returned, Role!Return, Role!Continue
<1>11. ASSUME NEW k \in Checks, Role!CheckTrust(k) PROVE Role!GrantsHonest'
  BY <1>11, ActionRows, Observed DEF Role!CheckTrust, Role!Returned, Role!Return, Role!YesNo
<1>12. ASSUME NEW k \in Checks, Role!CheckTrustFails(k) PROVE Role!GrantsHonest'
  BY <1>12, ActionRows, Observed DEF Role!CheckTrustFails, Role!Returned, Role!Return
<1>13. CASE Role!Rescore
  BY <1>13, ActionRows, Observed DEF Role!Rescore
<1>14. CASE Role!Tick
  BY <1>14, ActionRows, Observed DEF Role!Tick
<1>15. CASE UNCHANGED Role!vars
  BY <1>15 DEF Role!vars, Role!history
<1>16. QED
  BY <1>1, <1>2, <1>3, <1>4, <1>5, <1>6, <1>7, <1>8, <1>9, <1>10, <1>11, <1>12, <1>13,
     <1>14, <1>15 DEF Role!Next

\* A revoked row does not come back by itself.
LEMMA RevocationsStep ==
    ASSUME RolesAssumption, Role!RolesInv, [Role!Next]_(Role!vars)
    PROVE  Role!RevocationsHold'
<1> USE DEF RolesAssumption, Role!CallsAssumption, Role!NumbersAssumption, Role!RolesInv,
            Role!TypeOK, Role!Calls, Role!table, Role!AnsweredAtEnd,
            Role!DeletesWhatIsThere, Role!RolesKept, Role!RevocationsHold, Role!Id
<1>1. ASSUME NEW c \in Role!Calls, Role!Call(c) PROVE Role!RevocationsHold'
  BY <1>1, ActionRows, Observed DEF Role!Call, Role!Continue
<1>2. ASSUME NEW g \in Grants, Role!GrantSelect(g) PROVE Role!RevocationsHold'
  BY <1>2, ActionRows, Observed DEF Role!GrantSelect, Role!Returned, Role!Continue
<1>3. ASSUME NEW g \in Grants, Role!GrantInsert(g) PROVE Role!RevocationsHold'
  <2>1. Role!Under(g) /\ Role!Observe
    BY <1>3 DEF Role!GrantInsert, Role!Under, Role!Returned, Role!Continue
  <2>2. ASSUME NEW r \in Revokes, answer'[r] \in {"yes", "no"}, r \notin overtaken'
        PROVE  row'[ActionOf[r]] = None
    <3>1. answer[r] \in {"yes", "no"} /\ pc'[r] = pc[r]
      BY <1>3, <2>2 DEF Role!GrantInsert, Role!Returned, Role!Continue
    <3>2. pc'[r] # "idle"
      BY <3>1
    <3>3. ActionOf[g] # ActionOf[r] /\ r \notin overtaken
      BY <2>1, <2>2, <3>2, GrantObserves, Observed
    <3>4. row'[ActionOf[r]] = row[ActionOf[r]]
      BY <1>3, <3>3, ActionRows DEF Role!GrantInsert
    <3>. QED  BY <3>1, <3>3, <3>4
  <2>. QED  BY <2>2
<1>4. ASSUME NEW g \in Grants, Role!GrantAgain(g) PROVE Role!RevocationsHold'
  BY <1>4, ActionRows, Observed DEF Role!GrantAgain, Role!Returned, Role!Return
<1>5. ASSUME NEW g \in Grants, Role!GrantFails(g) PROVE Role!RevocationsHold'
  BY <1>5, ActionRows, Observed DEF Role!GrantFails, Role!Returned, Role!Return
<1>6. ASSUME NEW r \in Revokes, Role!RevokeSelect(r) PROVE Role!RevocationsHold'
  BY <1>6, ActionRows, Observed DEF Role!RevokeSelect, Role!Returned, Role!Return, Role!Continue
<1>7. ASSUME NEW r \in Revokes, Role!RevokeDelete(r) PROVE Role!RevocationsHold'
  BY <1>7, ActionRows, Observed DEF Role!RevokeDelete, Role!Returned, Role!Return
<1>8. ASSUME NEW r \in Revokes, Role!RevokeFails(r) PROVE Role!RevocationsHold'
  BY <1>8, ActionRows, Observed DEF Role!RevokeFails, Role!Returned, Role!Return
<1>9. ASSUME NEW k \in Checks, Role!CheckGrant(k) PROVE Role!RevocationsHold'
  BY <1>9, ActionRows, Observed
     DEF Role!CheckGrant, Role!AfterGrant, Role!Returned, Role!Return, Role!Continue
<1>10. ASSUME NEW k \in Checks, Role!CheckGrantFails(k) PROVE Role!RevocationsHold'
  BY <1>10, ActionRows, Observed
     DEF Role!CheckGrantFails, Role!AfterGrant, Role!Returned, Role!Return, Role!Continue
<1>11. ASSUME NEW k \in Checks, Role!CheckTrust(k) PROVE Role!RevocationsHold'
  BY <1>11, ActionRows, Observed DEF Role!CheckTrust, Role!Returned, Role!Return, Role!YesNo
<1>12. ASSUME NEW k \in Checks, Role!CheckTrustFails(k) PROVE Role!RevocationsHold'
  BY <1>12, ActionRows, Observed DEF Role!CheckTrustFails, Role!Returned, Role!Return
<1>13. CASE Role!Rescore
  BY <1>13, ActionRows, Observed DEF Role!Rescore
<1>14. CASE Role!Tick
  BY <1>14, ActionRows, Observed DEF Role!Tick
<1>15. CASE UNCHANGED Role!vars
  BY <1>15 DEF Role!vars, Role!history
<1>16. QED
  BY <1>1, <1>2, <1>3, <1>4, <1>5, <1>6, <1>7, <1>8, <1>9, <1>10, <1>11, <1>12, <1>13,
     <1>14, <1>15 DEF Role!Next

\* Who is let through has passed both gates.
LEMMA ChecksStep ==
    ASSUME RolesAssumption, Role!RolesInv, [Role!Next]_(Role!vars)
    PROVE  Role!ChecksHonest'
<1> USE DEF RolesAssumption, Role!CallsAssumption, Role!NumbersAssumption, Role!RolesInv,
            Role!TypeOK, Role!Calls, Role!table, Role!AnsweredAtEnd, Role!GateBehind,
            Role!RolesKept, Role!ChecksHonest
<1>1. ASSUME NEW c \in Role!Calls, Role!Call(c) PROVE Role!ChecksHonest'
  BY <1>1, ActionRows, Observed DEF Role!Call, Role!Continue
<1>2. ASSUME NEW g \in Grants, Role!GrantSelect(g) PROVE Role!ChecksHonest'
  BY <1>2, ActionRows, Observed DEF Role!GrantSelect, Role!Returned, Role!Continue
<1>3. ASSUME NEW g \in Grants, Role!GrantInsert(g) PROVE Role!ChecksHonest'
  BY <1>3, ActionRows, Observed DEF Role!GrantInsert, Role!Returned, Role!Continue
<1>4. ASSUME NEW g \in Grants, Role!GrantAgain(g) PROVE Role!ChecksHonest'
  BY <1>4, ActionRows, Observed DEF Role!GrantAgain, Role!Returned, Role!Return
<1>5. ASSUME NEW g \in Grants, Role!GrantFails(g) PROVE Role!ChecksHonest'
  BY <1>5, ActionRows, Observed DEF Role!GrantFails, Role!Returned, Role!Return
<1>6. ASSUME NEW r \in Revokes, Role!RevokeSelect(r) PROVE Role!ChecksHonest'
  BY <1>6, ActionRows, Observed DEF Role!RevokeSelect, Role!Returned, Role!Return, Role!Continue
<1>7. ASSUME NEW r \in Revokes, Role!RevokeDelete(r) PROVE Role!ChecksHonest'
  BY <1>7, ActionRows, Observed DEF Role!RevokeDelete, Role!Returned, Role!Return
<1>8. ASSUME NEW r \in Revokes, Role!RevokeFails(r) PROVE Role!ChecksHonest'
  BY <1>8, ActionRows, Observed DEF Role!RevokeFails, Role!Returned, Role!Return
<1>9. ASSUME NEW k \in Checks, Role!CheckGrant(k) PROVE Role!ChecksHonest'
  <2>0. Role!Under(k) /\ Role!Observe /\ UNCHANGED Role!table
    BY <1>9
       DEF Role!CheckGrant, Role!AfterGrant, Role!Under, Role!Returned, Role!Return,
           Role!Continue
  <2>1. /\ Role!Observe
        /\ (answer'[k] = "yes" => MinTrust = None /\ (mode' = "block" => k \in permitted'))
    <3>1. Role!Covered(ActionOf[k])' <=> Role!Covered(ActionOf[k])
      BY <2>0 DEF Role!Covered, Role!Active
    <3>2. answer'[k] = "yes" => MinTrust = None /\ (mode = "block" => Role!Covered(ActionOf[k]))
      BY <1>9
         DEF Role!CheckGrant, Role!AfterGrant, Role!Returned, Role!Return, Role!Continue,
             Role!Covers
    <3>. QED  BY <2>0, <3>1, <3>2, CheckObserves
  <2>2. ASSUME NEW j \in Checks, j # k, answer'[j] = "yes"
        PROVE  /\ mode' = "block" => j \in permitted'
               /\ MinTrust # None => j \in trusted'
    <3>1. answer[j] = "yes" /\ mode' = mode
      BY <1>9, <2>2
         DEF Role!CheckGrant, Role!AfterGrant, Role!Returned, Role!Return, Role!Continue
    <3>. QED  BY <2>1, <3>1, Observed
  <2>. QED  BY <2>1, <2>2
<1>10. ASSUME NEW k \in Checks, Role!CheckGrantFails(k) PROVE Role!ChecksHonest'
  BY <1>10, ActionRows, Observed
     DEF Role!CheckGrantFails, Role!AfterGrant, Role!Returned, Role!Return, Role!Continue
<1>11. ASSUME NEW k \in Checks, Role!CheckTrust(k) PROVE Role!ChecksHonest'
  <2>0. Role!Under(k) /\ Role!Observe /\ UNCHANGED Role!table
    BY <1>11 DEF Role!CheckTrust, Role!Under, Role!Returned, Role!Return
  <2>1. /\ Role!Observe
        /\ answer'[k] = "yes" => /\ mode' = "block" => k \in permitted'
                                 /\ MinTrust # None => k \in trusted'
    <3>1. Role!Trusted' <=> Role!Trusted
      BY <2>0 DEF Role!Trusted
    <3>2. pc[k] = "trust" /\ (answer'[k] = "yes" => Role!Trusted)
      BY <1>11 DEF Role!CheckTrust, Role!Returned, Role!Return, Role!YesNo
    <3>3. mode = "block" => k \in permitted
      BY <3>2
    <3>. QED  BY <2>0, <3>1, <3>2, <3>3, CheckObserves, Observed
  <2>2. ASSUME NEW j \in Checks, j # k, answer'[j] = "yes"
        PROVE  /\ mode' = "block" => j \in permitted'
               /\ MinTrust # None => j \in trusted'
    <3>1. answer[j] = "yes" /\ mode' = mode
      BY <1>11, <2>2 DEF Role!CheckTrust, Role!Returned, Role!Return
    <3>. QED  BY <2>1, <3>1, Observed
  <2>. QED  BY <2>1, <2>2
<1>12. ASSUME NEW k \in Checks, Role!CheckTrustFails(k) PROVE Role!ChecksHonest'
  BY <1>12, ActionRows, Observed DEF Role!CheckTrustFails, Role!Returned, Role!Return
<1>13. CASE Role!Rescore
  BY <1>13, ActionRows, Observed DEF Role!Rescore
<1>14. CASE Role!Tick
  BY <1>14, ActionRows, Observed DEF Role!Tick
<1>15. CASE UNCHANGED Role!vars
  BY <1>15 DEF Role!vars, Role!history
<1>16. QED
  BY <1>1, <1>2, <1>3, <1>4, <1>5, <1>6, <1>7, <1>8, <1>9, <1>10, <1>11, <1>12, <1>13,
     <1>14, <1>15 DEF Role!Next

\* Every step keeps the types; what the grants observe are ids of rows that were made.
LEMMA TypeStep ==
    ASSUME RolesAssumption, Role!TypeOK, [Role!Next]_(Role!vars)
    PROVE  Role!TypeOK'
<1> DEFINE Rest == /\ mode' \in Modes /\ now' \in 0..Horizon /\ nextId' \in Nat \ {0}
                   /\ nextId <= nextId'
                   /\ score' \in Scores \cup {None} /\ faults' \in 0..MaxFaults
                   /\ row' \in [Role!Rows -> [id : 1..(nextId' - 1), until : Ends] \cup {None}]
                   /\ pc' \in [Role!Calls -> {"idle", "called", "insert", "again", "delete",
                                        "trust", "done"}]
                   /\ found' \in [Role!Calls -> 1..(nextId' - 1) \cup {None}]
                   /\ answer' \in [Role!Calls -> {None, "granted", "RuntimeError", "raised",
                                            "yes", "no", "failed"}]
<1>0. \A c \in Role!Calls : Role!Id(ActionOf[c]) \in 1..(nextId - 1) \cup {None}
  BY IdType, ActionRows DEF RolesAssumption
<1> USE DEF RolesAssumption, Role!CallsAssumption, Role!NumbersAssumption, Role!TypeOK,
            Role!Calls, Role!table
<1>1. ASSUME NEW c \in Role!Calls, Role!Call(c) PROVE Rest /\ Role!Observe
  BY <1>1 DEF Role!Call, Role!Continue
<1>2. ASSUME NEW g \in Grants, Role!GrantSelect(g) PROVE Rest /\ Role!Observe
  <2>1. found' = [found EXCEPT ![g] = Role!Id(ActionOf[g])]
    BY <1>2, <1>0 DEF Role!GrantSelect, Role!Returned, Role!Continue
  <2>2. /\ UNCHANGED <<Role!table, faults>> /\ Role!Observe
        /\ pc' \in [Role!Calls -> {"idle", "called", "insert", "again", "delete",
                               "trust", "done"}]
        /\ answer' \in [Role!Calls -> {None, "granted", "RuntimeError", "raised",
                                      "yes", "no", "failed"}]
    BY <1>2 DEF Role!GrantSelect, Role!Returned, Role!Continue
  <2>. QED  BY <1>0, <2>1, <2>2
<1>3. ASSUME NEW g \in Grants, Role!GrantInsert(g) PROVE Rest /\ Role!Observe
  <2>0. Role!Observe
    BY <1>3 DEF Role!GrantInsert
  <2>1. CASE row[ActionOf[g]] = None
    <3>1. PICK until \in Ends :
            row' = [row EXCEPT ![ActionOf[g]] = [id |-> nextId, until |-> until]]
      BY <1>3, <2>1 DEF Role!GrantInsert
    <3>2. nextId' = nextId + 1
      BY <1>3, <2>1 DEF Role!GrantInsert
    <3>3. row' \in [Role!Rows -> [id : 1..(nextId' - 1), until : Ends] \cup {None}]
      <4>1. [id |-> nextId, until |-> until] \in [id : 1..(nextId' - 1), until : Ends]
        BY <3>2
      <4>2. ASSUME NEW a \in Role!Rows
            PROVE  row[a] \in [id : 1..(nextId' - 1), until : Ends] \cup {None}
        <5>1. row[a] # None => row[a].id \in 1..(nextId' - 1)
          BY <3>2
        <5>. QED  BY <5>1
      <4>. QED  BY <3>1, <4>1, <4>2
    <3>4. /\ pc' = [pc EXCEPT ![g] = "done"] /\ found' = [found EXCEPT ![g] = nextId]
          /\ /\ answer' = [answer EXCEPT ![g] = "granted"]
             /\ UNCHANGED <<mode, now, score, faults>>
      BY <1>3, <2>1 DEF Role!GrantInsert, Role!Returned
    <3>5. found' \in [Role!Calls -> 1..(nextId' - 1) \cup {None}]
      <4>1. nextId \in 1..(nextId' - 1)
        BY <3>2
      <4>2. ASSUME NEW c \in Role!Calls PROVE found[c] \in 1..(nextId' - 1) \cup {None}
        <5>1. CASE found[c] \in 1..(nextId - 1)
          BY <3>2, <5>1
        <5>2. CASE found[c] = None
          BY <5>2
        <5>. QED  BY <5>1, <5>2
      <4>. QED  BY <3>4, <4>1, <4>2
    <3>. QED  BY <2>0, <3>2, <3>3, <3>4, <3>5
  <2>2. CASE row[ActionOf[g]] # None
    BY <1>3, <2>0, <2>2 DEF Role!GrantInsert, Role!Continue
  <2>. QED  BY <2>1, <2>2
<1>4. ASSUME NEW g \in Grants, Role!GrantAgain(g) PROVE Rest /\ Role!Observe
  <2>1. found' = [found EXCEPT ![g] = Role!Id(ActionOf[g])] \/ found' = [found EXCEPT ![g] = @]
    BY <1>4, <1>0 DEF Role!GrantAgain, Role!Returned, Role!Return
  <2>2. /\ UNCHANGED <<Role!table, faults>> /\ Role!Observe
        /\ pc' \in [Role!Calls -> {"idle", "called", "insert", "again", "delete",
                               "trust", "done"}]
        /\ answer' \in [Role!Calls -> {None, "granted", "RuntimeError", "raised",
                                      "yes", "no", "failed"}]
    BY <1>4 DEF Role!GrantAgain, Role!Returned, Role!Return
  <2>. QED  BY <1>0, <2>1, <2>2
<1>5. ASSUME NEW g \in Grants, Role!GrantFails(g) PROVE Rest /\ Role!Observe
  BY <1>5 DEF Role!GrantFails, Role!Returned, Role!Return
<1>6. ASSUME NEW r \in Revokes, Role!RevokeSelect(r) PROVE Rest /\ Role!Observe
  <2>1. found' = [found EXCEPT ![r] = Role!Id(ActionOf[r])] \/ found' = [found EXCEPT ![r] = @]
    BY <1>6, <1>0 DEF Role!RevokeSelect, Role!Returned, Role!Return,
                 Role!Continue
  <2>2. /\ UNCHANGED <<Role!table, faults>> /\ Role!Observe
        /\ pc' \in [Role!Calls -> {"idle", "called", "insert", "again", "delete",
                               "trust", "done"}]
        /\ answer' \in [Role!Calls -> {None, "granted", "RuntimeError", "raised",
                                      "yes", "no", "failed"}]
    BY <1>6 DEF Role!RevokeSelect, Role!Returned, Role!Return,
                 Role!Continue
  <2>. QED  BY <1>0, <2>1, <2>2
<1>7. ASSUME NEW r \in Revokes, Role!RevokeDelete(r) PROVE Rest /\ Role!Observe
  BY <1>7, ActionRows DEF Role!RevokeDelete, Role!Returned, Role!Return
<1>8. ASSUME NEW r \in Revokes, Role!RevokeFails(r) PROVE Rest /\ Role!Observe
  BY <1>8 DEF Role!RevokeFails, Role!Returned, Role!Return
<1>9. ASSUME NEW k \in Checks, Role!CheckGrant(k) PROVE Rest /\ Role!Observe
  BY <1>9 DEF Role!CheckGrant, Role!AfterGrant, Role!Returned, Role!Return, Role!Continue
<1>10. ASSUME NEW k \in Checks, Role!CheckGrantFails(k) PROVE Rest /\ Role!Observe
  BY <1>10 DEF Role!CheckGrantFails, Role!AfterGrant, Role!Returned, Role!Return, Role!Continue
<1>11. ASSUME NEW k \in Checks, Role!CheckTrust(k) PROVE Rest /\ Role!Observe
  BY <1>11 DEF Role!CheckTrust, Role!Returned, Role!Return, Role!YesNo
<1>12. ASSUME NEW k \in Checks, Role!CheckTrustFails(k) PROVE Rest /\ Role!Observe
  BY <1>12 DEF Role!CheckTrustFails, Role!Returned, Role!Return
<1>13. ASSUME Role!Rescore PROVE Rest /\ Role!Observe
  BY <1>13 DEF Role!Rescore
<1>14. ASSUME Role!Tick PROVE Rest /\ Role!Observe
  BY <1>14 DEF Role!Tick
<1>15. CASE UNCHANGED Role!vars
  BY <1>15 DEF Role!vars, Role!history
<1>16. CASE Role!Next
  <2>1. Rest /\ Role!Observe
    BY <1>16, <1>1, <1>2, <1>3, <1>4, <1>5, <1>6, <1>7, <1>8, <1>9, <1>10, <1>11, <1>12,
       <1>13, <1>14 DEF Role!Next
  <2>2. ASSUME NEW g \in Grants
        PROVE  /\ present[g] \subseteq 1..(nextId' - 1)
               /\ Role!Id(ActionOf[g])' \in 1..(nextId' - 1) \cup {None}
    <3>1. present[g] \subseteq 1..(nextId' - 1)
      BY <2>1
    <3>2. row'[ActionOf[g]] \in [id : 1..(nextId' - 1), until : Ends] \cup {None}
      BY <2>1, ActionRows
    <3>. QED  BY <3>1, <3>2 DEF Role!Id
  <2>3. present' \in [Grants -> SUBSET (1..(nextId' - 1))]
    BY <2>1, <2>2 DEF Role!Observe
  <2>. QED  BY <2>1, <2>3
<1>. QED  BY <1>15, <1>16

\* At the start nobody has called.
LEMMA RolesInit ==
    ASSUME RolesAssumption, Role!Init
    PROVE  Role!RolesInv
<1> USE DEF RolesAssumption, Role!CallsAssumption, Role!NumbersAssumption, Role!Init, Role!Calls
<1>1. Role!TypeOK
  <2>1. PICK a \in Role!Actions, until \in Ends :
            row \in {[b \in Role!Rows |-> None],
                    [b \in Role!Rows |->
                         IF b = WildOf[a] THEN [id |-> 1, until |-> until] ELSE None]}
    OBVIOUS
  <2>2. [id |-> 1, until |-> until] \in [id : 1..(nextId - 1), until : Ends]
    OBVIOUS
  <2>3. row \in [Role!Rows -> [id : 1..(nextId - 1), until : Ends] \cup {None}]
    BY <2>1, <2>2
  <2>. QED  BY <2>3 DEF Role!TypeOK
<1>2. Role!AnsweredAtEnd /\ Role!DeletesWhatIsThere /\ Role!GateBehind /\ Role!RolesKept
  BY DEF Role!AnsweredAtEnd, Role!DeletesWhatIsThere, Role!GateBehind, Role!RolesKept,
         Role!GrantsHonest, Role!RevocationsHold, Role!ChecksHonest
<1>. QED  BY <1>1, <1>2 DEF Role!RolesInv

\* Grants, revocations and checks keep their word, however their statements interleave,
\* whatever expires, and whichever of them fail.
THEOREM RolesKeptHolds ==
    ASSUME RolesAssumption
    PROVE  Role!Spec => []Role!RolesKept
<1>1. Role!Init => Role!RolesInv
  BY RolesInit
<1>2. Role!RolesInv /\ [Role!Next]_(Role!vars) => Role!RolesInv'
  <2> SUFFICES ASSUME Role!RolesInv, [Role!Next]_(Role!vars) PROVE Role!RolesInv'
    OBVIOUS
  <2>1. Role!TypeOK'
    BY TypeStep DEF Role!RolesInv
  <2>2. Role!AnsweredAtEnd' /\ Role!DeletesWhatIsThere' /\ Role!GateBehind'
    BY AnsweredStep, DeletesStep, GateStep
  <2>3. Role!RolesKept'
    BY GrantsStep, RevocationsStep, ChecksStep DEF Role!RolesKept
  <2>. QED  BY <2>1, <2>2, <2>3 DEF Role!RolesInv
<1>3. Role!RolesInv => Role!RolesKept
  BY DEF Role!RolesInv
<1>. QED  BY <1>1, <1>2, <1>3, PTL DEF Role!Spec
-----------------------------------------------------------------------------
(* The edges of the principal graph.  Whoever writes the row holds it, or  *)
(* is alone in its process, so that what a call found is still the row.    *)

EdgesAssumption == Edge!CallsAssumption /\ Edge!DeploymentsAssumption /\ Edge!NoneAssumption

\* What a call writes: its own attribute and what it has found.
LEMMA MergedRow ==
    ASSUME EdgesAssumption, Edge!TypeOK, NEW c \in Calls, Edge!Writable(c)
    PROVE  /\ Edge!Merged(c) \in Edge!Rows /\ Edge!Merged(c) # None
           /\ c \in Edge!Merged(c).attrs
           /\ row = None <=> found[c] = None
           /\ row = None => /\ Edge!Merged(c).attrs = {c}
                            /\ Edge!Lasting(Edge!Merged(c)) => c \notin Leased
           /\ row # None => /\ Edge!Merged(c).attrs = {c} \cup found[c].attrs
                            /\ Edge!Lasting(Edge!Merged(c)) => c \notin Leased /\ Edge!Lasting(row)
<1>1. /\ found[c] \in Edge!Rows \cup {None} /\ row \in Edge!Rows \cup {None}
      /\ None \notin Edge!Rows
      /\ None \notin Leased /\ (row = None <=> found[c] = None)
  BY DEF Edge!TypeOK, EdgesAssumption, Edge!CallsAssumption, Edge!NoneAssumption, Edge!Writable
<1>2. CASE row = None
  BY <1>1, <1>2 DEF Edge!Merged, Edge!Rows, Edge!Lasting
<1>3. CASE row # None
  <2>1. /\ found[c] \in Edge!Rows /\ row \in Edge!Rows /\ found[c] # None
        /\ row.expires \in Leased \cup {None} /\ found[c].attrs \subseteq Calls
    BY <1>1, <1>3 DEF Edge!Rows
  <2>2. Edge!Merged(c) = [attrs |-> {c} \cup found[c].attrs,
                     expires |-> IF c \in Leased THEN c ELSE row.expires]
    BY <2>1 DEF Edge!Merged
  <2>3. Edge!Merged(c) \in Edge!Rows
    BY <2>1, <2>2 DEF Edge!Rows
  <2> QED  BY <1>1, <1>3, <2>1, <2>2, <2>3 DEF Edge!Lasting
<1> QED  BY <1>2, <1>3

LEMMA EdgeTypeStep ==
    ASSUME EdgesAssumption, Edge!EdgesInv, [Edge!Next]_(Edge!vars)
    PROVE  Edge!TypeOK'
<1> USE DEF Edge!EdgesInv, Edge!TypeOK, Edge!Go
<1>0. /\ Edge!Processes' = Edge!Processes /\ deployment' = deployment
      /\ deployment' \in Deployments
      /\ \A c \in Calls : /\ Edge!ProcessOf(c) \in Edge!Processes
                          /\ Edge!ProcessOf(c)' = Edge!ProcessOf(c)
  BY DEF Edge!Next, Edge!vars, Edge!Lock, Edge!Select, Edge!WriteCommit, Edge!WriteFlush,
         Edge!Retry, Edge!Stale, Edge!CallerCommits, Edge!CallerRollsBack, Edge!Remove,
         Edge!Processes, Edge!ProcessOf
<1>1. ASSUME NEW c \in Calls, Edge!Lock(c) PROVE Edge!TypeOK'
  <2>1. attempt[c] + 1 \in 0..Attempts
    BY <1>1 DEF Edge!LocksHeld, Edge!Lock, EdgesAssumption, Edge!CallsAssumption
  <2> QED  BY <1>0, <1>1, <2>1 DEF Edge!Lock
<1>2. ASSUME NEW c \in Calls, Edge!Select(c) PROVE Edge!TypeOK'
  BY <1>0, <1>2 DEF Edge!Select
<1>3. ASSUME NEW c \in Calls, Edge!WriteCommit(c) PROVE Edge!TypeOK'
  BY <1>0, <1>3, MergedRow DEF Edge!WriteCommit, Edge!Unlock
<1>4. ASSUME NEW c \in Calls, Edge!WriteFlush(c) PROVE Edge!TypeOK'
  BY <1>0, <1>4, MergedRow DEF Edge!WriteFlush, Edge!Unlock
<1>5. ASSUME NEW c \in Calls, Edge!Retry(c) PROVE Edge!TypeOK'
  BY <1>0, <1>5 DEF Edge!Retry, Edge!Unlock, Edge!LetGo
<1>6. ASSUME NEW c \in Calls, Edge!Stale(c) PROVE Edge!TypeOK'
  BY <1>0, <1>6 DEF Edge!Stale, Edge!Unlock, Edge!LetGo
<1>7. ASSUME NEW c \in Calls, Edge!CallerCommits(c) PROVE Edge!TypeOK'
  BY <1>0, <1>7 DEF Edge!CallerCommits
<1>8. ASSUME NEW c \in Calls, Edge!CallerRollsBack(c) PROVE Edge!TypeOK'
  BY <1>0, <1>8 DEF Edge!CallerRollsBack
<1>9. CASE Edge!Remove
  BY <1>0, <1>9 DEF Edge!Remove
<1>10. CASE UNCHANGED Edge!vars
  BY <1>0, <1>10 DEF Edge!vars
<1> QED  BY <1>1, <1>2, <1>3, <1>4, <1>5, <1>6, <1>7, <1>8, <1>9, <1>10 DEF Edge!Next

LEMMA LocksStep ==
    ASSUME EdgesAssumption, Edge!EdgesInv, [Edge!Next]_(Edge!vars)
    PROVE  /\ Edge!LocksHeld' /\ Edge!Locking' = Edge!Locking /\ Edge!Owned' = Edge!Owned
           /\ Edge!Serialized' = Edge!Serialized
<1>0. /\ Edge!Processes' = Edge!Processes /\ deployment' = deployment
      /\ \A c \in Calls : /\ Edge!ProcessOf(c) \in Edge!Processes
                          /\ Edge!ProcessOf(c)' = Edge!ProcessOf(c)
      /\ Edge!Locking' = Edge!Locking /\ Edge!Owned' = Edge!Owned
      /\ Edge!Serialized' = Edge!Serialized
  BY DEF Edge!Next, Edge!vars, Edge!Lock, Edge!Select, Edge!WriteCommit, Edge!WriteFlush,
         Edge!Retry, Edge!Stale, Edge!CallerCommits, Edge!CallerRollsBack, Edge!Remove,
         Edge!Processes, Edge!ProcessOf, Edge!Locking, Edge!Owned, Edge!Serialized,
         Edge!OneProcess
<1>1. SUFFICES ASSUME NEW c \in Calls
               PROVE  /\ pc'[c] \in {"select", "write"} => edgeLock'[Edge!ProcessOf(c)] = c
                      /\ pc'[c] = "idle" => attempt'[c] < Attempts
  BY <1>0 DEF Edge!LocksHeld
<1>2. /\ pc[c] \in {"select", "write"} => edgeLock[Edge!ProcessOf(c)] = c
      /\ pc[c] = "idle" => attempt[c] < Attempts
      /\ pc \in [Calls -> {"idle", "select", "write", "returned", "done", "undone", "raised"}]
      /\ attempt \in [Calls -> 0..Attempts] /\ Attempts \in Nat
      /\ edgeLock \in [Edge!Processes -> Calls \cup {None}] /\ None \notin Calls
  BY DEF Edge!EdgesInv, Edge!LocksHeld, Edge!TypeOK, EdgesAssumption, Edge!CallsAssumption
<1>3. \A d \in Calls : pc[d] = "write" => edgeLock[Edge!ProcessOf(d)] = d
  BY DEF Edge!EdgesInv, Edge!LocksHeld
<1>4. CASE \E d \in Calls : Edge!Lock(d) \/ Edge!Select(d)
  BY <1>0, <1>2, <1>4 DEF Edge!Lock, Edge!Select, Edge!Go
<1>5. CASE \E d \in Calls : Edge!WriteCommit(d) \/ Edge!WriteFlush(d)
  BY <1>0, <1>2, <1>3, <1>5 DEF Edge!WriteCommit, Edge!WriteFlush, Edge!Unlock, Edge!Go
<1>6. CASE \E d \in Calls : Edge!Retry(d)
  BY <1>0, <1>2, <1>3, <1>6 DEF Edge!Retry, Edge!Unlock, Edge!Go
<1>7. CASE \E d \in Calls : Edge!Stale(d)
  BY <1>0, <1>2, <1>3, <1>7 DEF Edge!Stale, Edge!Unlock, Edge!Go
<1>8. CASE \E d \in Calls : Edge!CallerCommits(d) \/ Edge!CallerRollsBack(d)
  BY <1>0, <1>2, <1>8 DEF Edge!CallerCommits, Edge!CallerRollsBack, Edge!Go
<1>9. CASE Edge!Remove \/ UNCHANGED Edge!vars
  BY <1>0, <1>2, <1>9 DEF Edge!Remove, Edge!vars
<1> QED  BY <1>4, <1>5, <1>6, <1>7, <1>8, <1>9 DEF Edge!Next

LEMMA RowHeldStep ==
    ASSUME EdgesAssumption, Edge!EdgesInv, [Edge!Next]_(Edge!vars)
    PROVE  Edge!RowHeld'
<1>0. Edge!Locking' = Edge!Locking /\ Edge!Owned' = Edge!Owned
  BY LocksStep
<1>1. /\ pc \in [Calls -> {"idle", "select", "write", "returned", "done", "undone", "raised"}]
      /\ holder \in Calls \cup {None} /\ None \notin Calls
      /\ found \in [Calls -> Edge!Rows \cup {None}]
      /\ flushed \in [Calls -> Edge!Rows \cup {None}]
      /\ holder # None => pc[holder] = "returned" \/ (Edge!Locking /\ pc[holder] = "write")
      /\ \A c \in Calls :
          /\ pc[c] = "returned" => holder = c /\ flushed[c] # None /\ c \in Edge!Owned
          /\ (Edge!Locking /\ pc[c] = "write" /\ found[c] # None) => holder = c
  BY DEF Edge!EdgesInv, Edge!RowHeld, Edge!TypeOK, EdgesAssumption, Edge!CallsAssumption
<1> DEFINE Held ==
      /\ holder' # None => pc'[holder'] = "returned" \/ (Edge!Locking /\ pc'[holder'] = "write")
      /\ \A c \in Calls :
          /\ pc'[c] = "returned" => holder' = c /\ flushed'[c] # None /\ c \in Edge!Owned
          /\ (Edge!Locking /\ pc'[c] = "write" /\ found'[c] # None) => holder' = c
<1>2. SUFFICES Held
  BY <1>0 DEF Edge!RowHeld
<1>3. ASSUME NEW d \in Calls, Edge!Lock(d) PROVE Held
  BY <1>1, <1>3 DEF Edge!Lock, Edge!Go
<1>4. ASSUME NEW d \in Calls, Edge!Select(d) PROVE Held
  <2>1. Edge!Free(d) \/ ~ (Edge!Locking /\ row # None)
    BY <1>4 DEF Edge!Select
  <2>2. CASE Edge!Locking /\ row # None
    BY <1>1, <1>4, <2>1, <2>2 DEF Edge!Select, Edge!Go, Edge!Free
  <2>3. CASE ~ (Edge!Locking /\ row # None)
    BY <1>1, <1>4, <2>3 DEF Edge!Select, Edge!Go
  <2> QED  BY <2>2, <2>3
<1>5. ASSUME NEW d \in Calls, Edge!WriteCommit(d) PROVE Held
  BY <1>1, <1>5 DEF Edge!WriteCommit, Edge!Go, Edge!Writable, Edge!Free
<1>6. ASSUME NEW d \in Calls, Edge!WriteFlush(d) PROVE Held
  <2>1. Edge!Merged(d) # None
    BY <1>6, MergedRow DEF Edge!WriteFlush, Edge!EdgesInv
  <2> QED  BY <1>1, <1>6, <2>1 DEF Edge!WriteFlush, Edge!Go, Edge!Writable, Edge!Free
<1>7. ASSUME NEW d \in Calls, Edge!Retry(d) PROVE Held
  BY <1>1, <1>7 DEF Edge!Retry, Edge!Go, Edge!LetGo
<1>8. ASSUME NEW d \in Calls, Edge!Stale(d) PROVE Held
  BY <1>1, <1>8 DEF Edge!Stale, Edge!Go, Edge!LetGo
<1>9. ASSUME NEW d \in Calls, Edge!CallerCommits(d) \/ Edge!CallerRollsBack(d) PROVE Held
  BY <1>1, <1>9 DEF Edge!CallerCommits, Edge!CallerRollsBack, Edge!Go
<1>10. CASE Edge!Remove \/ UNCHANGED Edge!vars
  BY <1>1, <1>10 DEF Edge!Remove, Edge!vars
<1> QED  BY <1>3, <1>4, <1>5, <1>6, <1>7, <1>8, <1>9, <1>10 DEF Edge!Next

LEMMA AttributesDoneStep ==
    ASSUME EdgesAssumption, Edge!EdgesInv, [Edge!Next]_(Edge!vars)
    PROVE  Edge!AttributesDone' /\ Edge!Done \subseteq Edge!Done'
<1>1. /\ pc \in [Calls -> {"idle", "select", "write", "returned", "done", "undone", "raised"}]
      /\ found \in [Calls -> Edge!Rows \cup {None}]
      /\ flushed \in [Calls -> Edge!Rows \cup {None}]
      /\ row # None => row.attrs \subseteq Edge!Done
      /\ \A c \in Calls :
          /\ (pc[c] = "write" /\ found[c] # None) => found[c].attrs \subseteq Edge!Done
          /\ pc[c] = "returned" => flushed[c].attrs \subseteq Edge!Done \cup {c}
  BY DEF Edge!EdgesInv, Edge!AttributesDone, Edge!TypeOK
<1>2. Edge!Done \subseteq Edge!Done'
  BY <1>1
     DEF Edge!Next, Edge!vars, Edge!Lock, Edge!Select, Edge!WriteCommit, Edge!WriteFlush,
         Edge!Retry, Edge!Stale, Edge!CallerCommits, Edge!CallerRollsBack, Edge!Remove,
         Edge!Done, Edge!Go
<1> DEFINE Known ==
      /\ row' # None => row'.attrs \subseteq Edge!Done'
      /\ \A c \in Calls :
          /\ (pc'[c] = "write" /\ found'[c] # None) => found'[c].attrs \subseteq Edge!Done'
          /\ pc'[c] = "returned" => flushed'[c].attrs \subseteq Edge!Done' \cup {c}
<1>3. SUFFICES Known
  BY <1>2 DEF Edge!AttributesDone
<1>4. ASSUME NEW d \in Calls, Edge!Lock(d) \/ Edge!Select(d) PROVE Known
  BY <1>1, <1>2, <1>4 DEF Edge!Lock, Edge!Select, Edge!Go
<1>5. ASSUME NEW d \in Calls, pc[d] = "write", Edge!Writable(d)
      PROVE  Edge!Merged(d).attrs \subseteq Edge!Done \cup {d}
  BY <1>1, <1>5, MergedRow DEF Edge!EdgesInv
<1>6. ASSUME NEW d \in Calls, Edge!WriteCommit(d) PROVE Known
  <2>1. /\ d \in Edge!Done' /\ Edge!Merged(d).attrs \subseteq Edge!Done \cup {d}
        /\ row' = Edge!Merged(d)
    BY <1>1, <1>5, <1>6 DEF Edge!WriteCommit, Edge!Done, Edge!Go
  <2> QED  BY <1>1, <1>2, <1>6, <2>1 DEF Edge!WriteCommit, Edge!Go
<1>7. ASSUME NEW d \in Calls, Edge!WriteFlush(d) PROVE Known
  <2>1. Edge!Merged(d).attrs \subseteq Edge!Done \cup {d}
    BY <1>5, <1>7 DEF Edge!WriteFlush
  <2> QED  BY <1>1, <1>2, <1>7, <2>1 DEF Edge!WriteFlush, Edge!Go
<1>8. ASSUME NEW d \in Calls, Edge!Retry(d) \/ Edge!Stale(d) PROVE Known
  BY <1>1, <1>2, <1>8 DEF Edge!Retry, Edge!Stale, Edge!Go
<1>9. ASSUME NEW d \in Calls, Edge!CallerCommits(d) PROVE Known
  <2>1. d \in Edge!Done' /\ row' = flushed[d] /\ pc[d] = "returned"
    BY <1>1, <1>9 DEF Edge!CallerCommits, Edge!Done, Edge!Go
  <2> QED  BY <1>1, <1>2, <1>9, <2>1 DEF Edge!CallerCommits, Edge!Go
<1>10. ASSUME NEW d \in Calls, Edge!CallerRollsBack(d) PROVE Known
  BY <1>1, <1>2, <1>10 DEF Edge!CallerRollsBack, Edge!Go
<1>11. CASE Edge!Remove \/ UNCHANGED Edge!vars
  BY <1>1, <1>2, <1>11 DEF Edge!Remove, Edge!vars
<1> QED  BY <1>3, <1>4, <1>6, <1>7, <1>8, <1>9, <1>10, <1>11 DEF Edge!Next

\* The calls in one process take turns, for they have one lock.
LEMMA OneInProcess ==
    ASSUME EdgesAssumption, Edge!EdgesInv, Edge!Serialized, ~ Edge!Locking,
           NEW c \in Calls, NEW d \in Calls, pc[c] = "write", pc[d] \in {"select", "write"}
    PROVE  c = d /\ Edge!Owned = {}
<1>1. Edge!Owned = {} /\ Edge!ProcessOf(c) = Edge!ProcessOf(d)
  BY DEF Edge!Serialized, Edge!OneProcess
<1> QED  BY <1>1 DEF Edge!EdgesInv, Edge!LocksHeld

LEMMA FoundIsRowStep ==
    ASSUME EdgesAssumption, Edge!EdgesInv, [Edge!Next]_(Edge!vars)
    PROVE  Edge!FoundIsRow'
<1>0. Edge!Locking' = Edge!Locking /\ Edge!Serialized' = Edge!Serialized
  BY LocksStep
<1> DEFINE Known(c) ==
      /\ (pc'[c] = "write" /\ found'[c] # None /\ row' # None) => found'[c] = row'
      /\ pc'[c] = "returned" =>
          c \in flushed'[c].attrs /\ (row' # None => row'.attrs \subseteq flushed'[c].attrs)
<1>1. SUFFICES ASSUME Edge!Serialized, NEW c \in Calls PROVE Known(c)
  BY <1>0 DEF Edge!FoundIsRow
<1>2. /\ pc \in [Calls -> {"idle", "select", "write", "returned", "done", "undone", "raised"}]
      /\ found \in [Calls -> Edge!Rows \cup {None}]
      /\ flushed \in [Calls -> Edge!Rows \cup {None}]
      /\ None \notin Calls
  BY DEF Edge!EdgesInv, Edge!TypeOK, EdgesAssumption, Edge!CallsAssumption
<1>3. \A e \in Calls :
          /\ pc[e] = "returned" => holder = e /\ e \in Edge!Owned
          /\ (Edge!Locking /\ pc[e] = "write" /\ found[e] # None) => holder = e
  BY DEF Edge!EdgesInv, Edge!RowHeld
<1>4. \A e \in Calls :
          /\ (pc[e] = "write" /\ found[e] # None /\ row # None) => found[e] = row
          /\ pc[e] = "returned" =>
                e \in flushed[e].attrs /\ (row # None => row.attrs \subseteq flushed[e].attrs)
  BY <1>1 DEF Edge!EdgesInv, Edge!FoundIsRow
<1>5. ASSUME NEW d \in Calls, Edge!Lock(d) \/ Edge!Select(d) PROVE Known(c)
  BY <1>2, <1>4, <1>5 DEF Edge!Lock, Edge!Select, Edge!Go
<1>6. ASSUME NEW d \in Calls, Edge!WriteCommit(d) PROVE Known(c)
  <2>1. /\ pc[d] = "write" /\ Edge!Free(d) /\ row' = Edge!Merged(d)
        /\ pc' = [pc EXCEPT ![d] = "done"]
        /\ found' = found /\ flushed' = flushed
    BY <1>6 DEF Edge!WriteCommit, Edge!Writable, Edge!Go
  <2>2. pc'[c] # "returned"
    BY <1>2, <1>3, <2>1, <1>6 DEF Edge!Free, Edge!WriteCommit
  <2>3. ASSUME pc'[c] = "write", found'[c] # None PROVE FALSE
    <3>1. c # d /\ pc[c] = "write" /\ found[c] # None
      BY <1>2, <2>1, <2>3
    <3>2. CASE Edge!Locking
      BY <1>2, <1>3, <2>1, <3>1, <3>2 DEF Edge!Free
    <3>3. CASE ~ Edge!Locking
      BY <1>1, <2>1, <3>1, <3>3, OneInProcess
    <3> QED  BY <3>2, <3>3
  <2> QED  BY <2>2, <2>3
<1>7. ASSUME NEW d \in Calls, Edge!WriteFlush(d) PROVE Known(c)
  <2>1. /\ d \in Edge!Merged(d).attrs
        /\ row # None => Edge!Merged(d).attrs = {d} \cup found[d].attrs /\ found[d] # None
    BY <1>7, MergedRow DEF Edge!WriteFlush, Edge!EdgesInv
  <2>2. row # None => row.attrs \subseteq Edge!Merged(d).attrs
    BY <1>4, <1>7, <2>1 DEF Edge!WriteFlush
  <2> QED  BY <1>2, <1>4, <1>7, <2>1, <2>2 DEF Edge!WriteFlush, Edge!Go
<1>8. ASSUME NEW d \in Calls, Edge!Retry(d) \/ Edge!Stale(d) PROVE Known(c)
  BY <1>2, <1>4, <1>8 DEF Edge!Retry, Edge!Stale, Edge!Go
<1>9. ASSUME NEW d \in Calls, Edge!CallerCommits(d) PROVE Known(c)
  <2>1. pc[d] = "returned" /\ holder = d /\ d \in Edge!Owned
    BY <1>3, <1>9 DEF Edge!CallerCommits
  <2>2. Edge!Locking
    <3>1. CASE Edge!Locking
      BY <3>1
    <3>2. CASE ~ Edge!Locking
      BY <1>1, <2>1, <3>2 DEF Edge!Serialized
    <3> QED  BY <3>1, <3>2
  <2>3. ~ (pc'[c] = "write" /\ found'[c] # None)
    BY <1>2, <1>3, <1>9, <2>1, <2>2 DEF Edge!CallerCommits, Edge!Go
  <2>4. pc'[c] # "returned"
    BY <1>2, <1>3, <1>9, <2>1 DEF Edge!CallerCommits, Edge!Go
  <2> QED  BY <2>3, <2>4
<1>10. ASSUME NEW d \in Calls, Edge!CallerRollsBack(d) PROVE Known(c)
  BY <1>2, <1>3, <1>4, <1>10 DEF Edge!CallerRollsBack, Edge!Go
<1>11. CASE Edge!Remove \/ UNCHANGED Edge!vars
  BY <1>2, <1>4, <1>11 DEF Edge!Remove, Edge!vars
<1> QED  BY <1>5, <1>6, <1>7, <1>8, <1>9, <1>10, <1>11 DEF Edge!Next

LEMMA LeasesReadStep ==
    ASSUME EdgesAssumption, Edge!EdgesInv, [Edge!Next]_(Edge!vars)
    PROVE  Edge!LeasesRead' /\ Edge!LeasesKept'
<1>1. /\ pc \in [Calls -> {"idle", "select", "write", "returned", "done", "undone", "raised"}]
      /\ found \in [Calls -> Edge!Rows \cup {None}]
      /\ flushed \in [Calls -> Edge!Rows \cup {None}]
      /\ None \notin Calls
      /\ \A c \in Calls : pc[c] = "returned" => holder = c
  BY DEF Edge!EdgesInv, Edge!TypeOK, EdgesAssumption, Edge!CallsAssumption, Edge!RowHeld
<1>2. /\ row # None => (Edge!Lasting(row) => Edge!OldLeases(row))
      /\ \A c \in Calls :
          /\ (pc[c] = "write" /\ found[c] # None /\ Edge!NoRowLasts) => Edge!OldLeases(found[c])
          /\ (pc[c] = "returned" /\ Edge!Lasting(flushed[c])) =>
                Edge!NoRowLasts /\ Edge!OldLeases(flushed[c])
  BY DEF Edge!EdgesInv, Edge!EdgesKept, Edge!LeasesKept, Edge!LeasesRead
<1>3. removed \subseteq removed' /\ \A r : Edge!OldLeases(r) => Edge!OldLeases(r)'
  BY DEF Edge!Next, Edge!vars, Edge!Lock, Edge!Select, Edge!WriteCommit, Edge!WriteFlush,
         Edge!Retry, Edge!Stale, Edge!CallerCommits, Edge!CallerRollsBack, Edge!Remove,
         Edge!OldLeases
<1> DEFINE Old(r) == r.attrs \cap Leased \subseteq removed'
           Lasts == row' # None => Edge!Lasting(row')
           Leases ==
      /\ row' # None => (Edge!Lasting(row') => Old(row'))
      /\ \A c \in Calls :
          /\ (pc'[c] = "write" /\ found'[c] # None /\ Lasts) => Old(found'[c])
          /\ (pc'[c] = "returned" /\ Edge!Lasting(flushed'[c])) => Lasts /\ Old(flushed'[c])
<1>4. SUFFICES Leases
  BY DEF Edge!LeasesRead, Edge!LeasesKept, Edge!Lasting, Edge!OldLeases, Edge!NoRowLasts
<1>5. \A r : Edge!OldLeases(r) => Old(r)
  BY <1>3 DEF Edge!OldLeases
<1>6. (row' = row) => (Lasts <=> Edge!NoRowLasts)
  BY DEF Edge!NoRowLasts
<1> HIDE DEF Old
\* What a call writes lasts only where nothing or a row that lasts is, and has no new lease.
<1>7. ASSUME NEW d \in Calls, pc[d] = "write", Edge!Writable(d), Edge!Lasting(Edge!Merged(d))
      PROVE  Edge!NoRowLasts /\ Edge!OldLeases(Edge!Merged(d))
  <2>1. /\ row = None => Edge!Merged(d).attrs = {d} /\ d \notin Leased
        /\ row # None => /\ Edge!Merged(d).attrs = {d} \cup found[d].attrs
                         /\ d \notin Leased /\ Edge!Lasting(row) /\ found[d] # None
    BY <1>7, MergedRow DEF Edge!EdgesInv
  <2>2. Edge!NoRowLasts
    BY <2>1 DEF Edge!NoRowLasts
  <2>3. row # None => Edge!OldLeases(found[d])
    BY <1>2, <1>7, <2>1, <2>2
  <2> QED  BY <2>1, <2>2, <2>3 DEF Edge!OldLeases
<1>8. ASSUME NEW d \in Calls, Edge!Lock(d) PROVE Leases
  BY <1>1, <1>2, <1>5, <1>6, <1>8 DEF Edge!Lock, Edge!Go
<1>9. ASSUME NEW d \in Calls, Edge!Select(d) PROVE Leases
  <2>1. row' = row /\ flushed' = flushed /\ found' = [found EXCEPT ![d] = row]
        /\ pc' = [pc EXCEPT ![d] = "write"]
    BY <1>9 DEF Edge!Select, Edge!Go
  <2>2. ASSUME NEW c \in Calls, pc'[c] = "write", found'[c] # None, Lasts PROVE Old(found'[c])
    <3>1. CASE c = d
      BY <1>1, <1>2, <1>5, <2>1, <2>2, <3>1
    <3>2. CASE c # d
      BY <1>1, <1>2, <1>5, <1>6, <2>1, <2>2, <3>2
    <3> QED  BY <3>1, <3>2
  <2>3. ASSUME NEW c \in Calls, pc'[c] = "returned", Edge!Lasting(flushed'[c])
        PROVE  Lasts /\ Old(flushed'[c])
    BY <1>1, <1>2, <1>5, <1>6, <2>1, <2>3
  <2> QED  BY <1>2, <1>5, <2>1, <2>2, <2>3
<1>10. ASSUME NEW d \in Calls, Edge!WriteCommit(d) PROVE Leases
  <2>1. /\ pc[d] = "write" /\ Edge!Writable(d) /\ row' = Edge!Merged(d) /\ Edge!Merged(d) # None
        /\ pc' = [pc EXCEPT ![d] = "done"] /\ found' = found /\ flushed' = flushed
    BY <1>10, MergedRow DEF Edge!WriteCommit, Edge!Go, Edge!EdgesInv
  <2>2. \A c \in Calls : pc'[c] # "returned"
    BY <1>1, <2>1 DEF Edge!Writable, Edge!Free
  <2>3. Lasts => Edge!NoRowLasts /\ Old(row')
    BY <1>5, <1>7, <2>1
  <2> QED  BY <1>1, <1>2, <1>5, <2>1, <2>2, <2>3
<1>11. ASSUME NEW d \in Calls, Edge!WriteFlush(d) PROVE Leases
  <2>1. /\ pc[d] = "write" /\ Edge!Writable(d) /\ row' = row
        /\ pc' = [pc EXCEPT ![d] = "returned"] /\ found' = found
        /\ flushed' = [flushed EXCEPT ![d] = Edge!Merged(d)]
    BY <1>11 DEF Edge!WriteFlush, Edge!Go
  <2>2. Edge!Lasting(Edge!Merged(d)) => Edge!NoRowLasts /\ Old(Edge!Merged(d))
    BY <1>5, <1>7, <2>1
  <2> QED  BY <1>1, <1>2, <1>5, <1>6, <2>1, <2>2
<1>12. ASSUME NEW d \in Calls, Edge!Retry(d) \/ Edge!Stale(d) PROVE Leases
  BY <1>1, <1>2, <1>5, <1>6, <1>12 DEF Edge!Retry, Edge!Stale, Edge!Go
<1>13. ASSUME NEW d \in Calls, Edge!CallerCommits(d) PROVE Leases
  <2>1. pc[d] = "returned" /\ row' = flushed[d] /\ pc' = [pc EXCEPT ![d] = "done"]
        /\ found' = found /\ row' # None
    BY <1>13 DEF Edge!CallerCommits, Edge!Go, Edge!EdgesInv, Edge!RowHeld
  <2>2. Lasts => Edge!NoRowLasts /\ Old(row')
    BY <1>2, <1>5, <2>1
  <2>3. \A c \in Calls : pc'[c] # "returned"
    BY <1>1, <2>1
  <2> QED  BY <1>1, <1>2, <1>5, <2>1, <2>2, <2>3
<1>14. ASSUME NEW d \in Calls, Edge!CallerRollsBack(d) PROVE Leases
  BY <1>1, <1>2, <1>5, <1>6, <1>14 DEF Edge!CallerRollsBack, Edge!Go
<1>15. CASE Edge!Remove
  <2>1. /\ row' = None /\ pc' = pc /\ found' = found /\ holder = None
        /\ Edge!Done \subseteq removed'
    BY <1>15 DEF Edge!Remove, Edge!Done
  <2>2. \A c \in Calls : pc[c] # "returned"
    BY <1>1, <2>1
  <2>3. ASSUME NEW c \in Calls, pc[c] = "write", found[c] # None PROVE Old(found[c])
    BY <2>1, <2>3 DEF Edge!EdgesInv, Edge!AttributesDone, Old
  <2> QED  BY <2>1, <2>2, <2>3
<1>16. CASE UNCHANGED Edge!vars
  BY <1>2, <1>5, <1>6, <1>16 DEF Edge!vars
<1> QED  BY <1>8, <1>9, <1>10, <1>11, <1>12, <1>13, <1>14, <1>15, <1>16 DEF Edge!Next

LEMMA AttributesKeptStep ==
    ASSUME EdgesAssumption, Edge!EdgesInv, [Edge!Next]_(Edge!vars)
    PROVE  Edge!AttributesKept'
<1>0. Edge!Locking' = Edge!Locking /\ Edge!Serialized' = Edge!Serialized
  BY LocksStep
<1>1. SUFFICES ASSUME Edge!Serialized, NEW c \in Calls, pc'[c] = "done"
               PROVE  c \in removed' \/ (row' # None /\ c \in row'.attrs)
  BY <1>0 DEF Edge!AttributesKept, Edge!Kept
<1>2. /\ pc \in [Calls -> {"idle", "select", "write", "returned", "done", "undone", "raised"}]
      /\ found \in [Calls -> Edge!Rows \cup {None}]
      /\ flushed \in [Calls -> Edge!Rows \cup {None}]
      /\ pc[c] = "done" => c \in removed \/ (row # None /\ c \in row.attrs)
  BY <1>1 DEF Edge!EdgesInv, Edge!TypeOK, Edge!EdgesKept, Edge!AttributesKept, Edge!Kept
<1>3. CASE \E d \in Calls : Edge!WriteCommit(d)
  <2>1. PICK d \in Calls : Edge!WriteCommit(d)
    BY <1>3
  <2>2. /\ pc[d] = "write" /\ Edge!Writable(d) /\ row' = Edge!Merged(d) /\ removed' = removed
        /\ pc' = [pc EXCEPT ![d] = "done"]
    BY <2>1 DEF Edge!WriteCommit, Edge!Go
  <2>3. /\ Edge!Merged(d) # None /\ d \in Edge!Merged(d).attrs
        /\ row # None => Edge!Merged(d).attrs = {d} \cup found[d].attrs /\ found[d] # None
    BY <2>2, MergedRow DEF Edge!EdgesInv
  <2>4. row # None => found[d] = row
    BY <1>1, <2>2, <2>3 DEF Edge!EdgesInv, Edge!FoundIsRow
  <2> QED  BY <1>1, <1>2, <2>2, <2>3, <2>4
<1>4. CASE \E d \in Calls : Edge!CallerCommits(d)
  <2>1. PICK d \in Calls : Edge!CallerCommits(d)
    BY <1>4
  <2>2. /\ pc[d] = "returned" /\ row' = flushed[d] /\ removed' = removed
        /\ pc' = [pc EXCEPT ![d] = "done"]
    BY <2>1 DEF Edge!CallerCommits, Edge!Go
  <2>3. /\ flushed[d] # None /\ d \in flushed[d].attrs
        /\ row # None => row.attrs \subseteq flushed[d].attrs
    BY <1>1, <2>2 DEF Edge!EdgesInv, Edge!RowHeld, Edge!FoundIsRow
  <2> QED  BY <1>1, <1>2, <2>2, <2>3
<1>5. CASE \E d \in Calls : Edge!Lock(d) \/ Edge!Select(d) \/ Edge!WriteFlush(d)
                            \/ Edge!Retry(d) \/ Edge!Stale(d)
                            \/ Edge!CallerRollsBack(d)
  BY <1>1, <1>2, <1>5
     DEF Edge!Lock, Edge!Select, Edge!WriteFlush, Edge!Retry, Edge!Stale,
         Edge!CallerRollsBack, Edge!Go
<1>6. CASE Edge!Remove \/ UNCHANGED Edge!vars
  BY <1>1, <1>2, <1>6 DEF Edge!Remove, Edge!vars
<1> QED  BY <1>3, <1>4, <1>5, <1>6 DEF Edge!Next

LEMMA EdgesInit == ASSUME EdgesAssumption, Edge!Init PROVE Edge!EdgesInv
<1> USE DEF Edge!Init
<1>1. row = None /\ removed = {} /\ \A c \in Calls : pc[c] = "idle" /\ attempt[c] = 0
  OBVIOUS
<1>2. Edge!TypeOK
  BY DEF Edge!TypeOK, EdgesAssumption, Edge!CallsAssumption
<1> QED
  BY <1>1, <1>2
     DEF Edge!EdgesInv, Edge!EdgesKept, Edge!AttributesKept, Edge!LeasesKept,
         Edge!LocksHeld, Edge!RowHeld, Edge!AttributesDone, Edge!FoundIsRow,
         Edge!LeasesRead, EdgesAssumption, Edge!CallsAssumption

\* What add_principal_edge (principal_edges.py:303-420) promises: the attributes of calls
\* that returned are kept where calls are serialized, and leases everywhere.
THEOREM EdgesKeptHolds == ASSUME EdgesAssumption PROVE Edge!Spec => []Edge!EdgesKept
<1>1. Edge!Init => Edge!EdgesInv
  BY EdgesInit
<1>2. Edge!EdgesInv /\ [Edge!Next]_(Edge!vars) => Edge!EdgesInv'
  BY EdgeTypeStep, LocksStep, RowHeldStep, AttributesDoneStep, FoundIsRowStep,
     LeasesReadStep, AttributesKeptStep DEF Edge!EdgesInv, Edge!EdgesKept
<1>3. Edge!EdgesInv => Edge!EdgesKept
  BY DEF Edge!EdgesInv
<1> QED  BY <1>1, <1>2, <1>3, PTL DEF Edge!Spec

-----------------------------------------------------------------------------
(* The keys of an issuer of tokens.  Each key that is kept, or that a fetch *)
(* has brought, was there when the issuer showed it, so it cannot have gone *)
(* before.                                                                 *)

TokensAssumption == Token!CallsAssumption /\ Token!NumbersAssumption /\ Token!NoneAssumption

LEMMA TokenSets ==
    ASSUME NEW S
    PROVE  Token!Cardinality(S) = Cardinality(S) /\ (Token!IsFiniteSet(S) <=> IsFiniteSet(S))
BY DEF Token!Cardinality, Cardinality, Token!IsFiniteSet, IsFiniteSet

LEMMA KeysTypeStep ==
    ASSUME TokensAssumption, Token!KeysInv, [Token!Next]_(Token!vars)
    PROVE  Token!TypeOK'
<1> USE DEF Token!KeysInv, Token!TypeOK, Token!Go, TokensAssumption, Token!CallsAssumption,
            Token!NumbersAssumption, Token!NoneAssumption, Token!Times
<1>0. now \in Nat /\ Horizon \in Nat /\ MaxFaults \in Nat
  OBVIOUS
<1>1. CASE Token!Tick
  BY <1>0, <1>1 DEF Token!Tick
<1>2. ASSUME NEW k \in Keys, Token!Withdraw(k) \/ Token!Publish(k) PROVE Token!TypeOK'
  BY <1>0, <1>2 DEF Token!Withdraw, Token!Publish
<1>3. ASSUME NEW c \in Calls, Token!Enter(c) PROVE Token!TypeOK'
  <2>1. ttl' \in Token!Times \ {0} /\ came' \in [Calls -> Token!Times]
    BY <1>0, <1>3 DEF Token!Enter
  <2> QED  BY <1>3, <2>1 DEF Token!Enter
<1>4. ASSUME NEW c \in Calls, Token!Look(c) PROVE Token!TypeOK'
  <2>1. CASE Token!Fresh(c)
    BY <1>4, <2>1 DEF Token!Look
  <2>2. CASE ~ Token!Fresh(c)
    BY <1>0, <1>4, <2>2 DEF Token!Look
  <2> QED  BY <2>1, <2>2
<1>5. ASSUME NEW c \in Calls, Token!Answer(c) PROVE Token!TypeOK'
  <2>1. [at |-> now, keys |-> published] \in Token!Answers
    BY <1>0 DEF Token!Answers
  <2> QED  BY <1>5, <2>1 DEF Token!Answer
<1>6. ASSUME NEW c \in Calls, Token!Store(c) PROVE Token!TypeOK'
  <2>1. /\ found[c] \in Token!Answers /\ came[c] \in Nat /\ ttl \in Nat
    BY <1>6 DEF Token!Store, Token!TimesInOrder
  <2>2. /\ [until |-> came[c] + ttl, keys |-> found[c].keys] \in Token!Caches
        /\ found[c].at \in Nat
    BY <2>1 DEF Token!Answers, Token!Caches
  <2> QED  BY <1>6, <2>2 DEF Token!Store
<1>7. ASSUME NEW c \in Calls, Token!Fail(c) PROVE Token!TypeOK'
  <2>1. faults' \in 0..MaxFaults
    BY <1>0, <1>7 DEF Token!Fail
  <2> QED  BY <1>7, <2>1 DEF Token!Fail
<1>8. CASE UNCHANGED Token!vars
  BY <1>8 DEF Token!vars
<1> QED  BY <1>1, <1>2, <1>3, <1>4, <1>5, <1>6, <1>7, <1>8 DEF Token!Next

LEMMA TokenLockStep ==
    ASSUME TokensAssumption, Token!KeysInv, [Token!Next]_(Token!vars)
    PROVE  Token!LockFetches'
<1>1. /\ pc \in [Calls -> {"new", "lock", "fetch", "verified", "refused", "failed"}]
      /\ holder \in Calls \cup {None} /\ None \notin Calls
      /\ \A c \in Calls : pc[c] = "fetch" => holder = c
      /\ holder # None => pc[holder] = "fetch"
  BY DEF Token!KeysInv, Token!TypeOK, Token!LockFetches, TokensAssumption, Token!NoneAssumption
<1>2. CASE UNCHANGED <<pc, holder>>
  BY <1>1, <1>2 DEF Token!LockFetches
<1>3. CASE \E c \in Calls : Token!Enter(c) \/ Token!Look(c)
  BY <1>1, <1>3 DEF Token!Enter, Token!Look, Token!Go, Token!LockFetches
<1>4. CASE \E c \in Calls : Token!Store(c) \/ Token!Fail(c)
  BY <1>1, <1>4 DEF Token!Store, Token!Fail, Token!Go, Token!LockFetches
<1> QED
  BY <1>2, <1>3, <1>4
     DEF Token!Next, Token!Tick, Token!Withdraw, Token!Publish, Token!Answer, Token!vars

LEMMA TimesStep ==
    ASSUME TokensAssumption, Token!KeysInv, [Token!Next]_(Token!vars)
    PROVE  Token!TimesInOrder'
<1>1. /\ pc \in [Calls -> {"new", "lock", "fetch", "verified", "refused", "failed"}]
      /\ came \in [Calls -> Token!Times] /\ since \in [Calls -> Token!Times]
      /\ found \in [Calls -> Token!Answers \cup {None}]
      /\ ttl \in Token!Times \ {0} /\ now \in Nat
      /\ \A c \in Calls : TtlOf[c] \in Nat
      /\ None \notin Nat
  BY DEF Token!KeysInv, Token!TypeOK, TokensAssumption, Token!NumbersAssumption,
         Token!CallsAssumption
<1>2. SUFFICES ASSUME NEW c \in Calls
               PROVE  /\ pc'[c] # "new" => ttl' # None /\ came'[c] \in 0..now'
                      /\ pc'[c] = "fetch" => since'[c] \in 0..now'
                      /\ found'[c] # None => pc'[c] # "new" /\ found'[c].at \in came'[c]..now'
  BY DEF Token!TimesInOrder
<1>3. /\ pc[c] # "new" => ttl # None /\ came[c] \in Nat /\ came[c] <= now
      /\ pc[c] = "fetch" => since[c] \in Nat /\ since[c] <= now
      /\ found[c] # None =>
          pc[c] # "new" /\ found[c].at \in Nat /\ came[c] <= found[c].at /\ found[c].at <= now
  <2>1. found[c] # None => found[c].at \in Nat
    BY <1>1 DEF Token!Answers
  <2> QED  BY <1>1, <2>1 DEF Token!KeysInv, Token!TimesInOrder
<1>4. CASE Token!Tick
  BY <1>1, <1>3, <1>4 DEF Token!Tick
<1>5. CASE \E k \in Keys : Token!Withdraw(k) \/ Token!Publish(k)
  BY <1>1, <1>3, <1>5 DEF Token!Withdraw, Token!Publish
<1>6. CASE \E d \in Calls : Token!Enter(d)
  BY <1>1, <1>3, <1>6 DEF Token!Enter, Token!Go
<1>7. CASE \E d \in Calls : Token!Look(d)
  <2>1. PICK d \in Calls : Token!Look(d)
    BY <1>7
  <2>2. CASE Token!Fresh(d)
    BY <1>1, <1>3, <2>1, <2>2 DEF Token!Look, Token!Go
  <2>3. CASE ~ Token!Fresh(d)
    BY <1>1, <1>3, <2>1, <2>3 DEF Token!Look, Token!Go
  <2> QED  BY <2>2, <2>3
<1>8. CASE \E d \in Calls : Token!Answer(d)
  <2>1. PICK d \in Calls : Token!Answer(d)
    BY <1>8
  <2>2. CASE c = d
    BY <1>1, <1>3, <2>1, <2>2 DEF Token!Answer
  <2>3. CASE c # d
    BY <1>1, <1>3, <2>1, <2>3 DEF Token!Answer
  <2> QED  BY <2>2, <2>3
<1>9. CASE \E d \in Calls : Token!Store(d)
  BY <1>1, <1>3, <1>9 DEF Token!Store, Token!Go
<1>10. CASE \E d \in Calls : Token!Fail(d)
  BY <1>1, <1>3, <1>10 DEF Token!Fail, Token!Go
<1>11. CASE UNCHANGED Token!vars
  BY <1>1, <1>3, <1>11 DEF Token!vars
<1> QED  BY <1>4, <1>5, <1>6, <1>7, <1>8, <1>9, <1>10, <1>11 DEF Token!Next

LEMMA ShownStep ==
    ASSUME TokensAssumption, Token!KeysInv, [Token!Next]_(Token!vars)
    PROVE  Token!KeysShown'
<1>1. /\ goneAt \in [Keys -> Token!Times] /\ now \in Nat /\ None \notin Nat
      /\ published \subseteq Keys
      /\ found \in [Calls -> Token!Answers \cup {None}] /\ cache \in Token!Caches \cup {None}
      /\ \A c \in Calls : found[c] # None => found[c].at \in Nat /\ found[c].at <= now
                                             /\ found[c].keys \subseteq Keys
  <2>1. \A c \in Calls : found[c] # None => found[c].at \in Nat /\ found[c].keys \subseteq Keys
    BY DEF Token!KeysInv, Token!TypeOK, Token!Answers
  <2>2. \A c \in Calls : found[c] # None => came[c] \in Nat
    BY DEF Token!KeysInv, Token!TypeOK, Token!Times, Token!TimesInOrder
  <2> QED
    BY <2>1, <2>2
       DEF Token!KeysInv, Token!TypeOK, Token!TimesInOrder, TokensAssumption,
           Token!NumbersAssumption
<1>2. /\ \A k \in Keys : goneAt[k] # None =>
            k \notin published /\ goneAt[k] \in Nat /\ goneAt[k] <= now
      /\ \A c \in Calls : found[c] # None =>
            \A k \in found[c].keys : Token!ShownBefore(k, found[c].at)
      /\ cache # None => /\ shownAt \in Nat /\ shownAt <= now /\ ttl # None
                         /\ cache.keys \subseteq Keys
                         /\ \A k \in cache.keys : Token!ShownBefore(k, shownAt)
  <2>1. cache # None => cache.keys \subseteq Keys
    BY <1>1 DEF Token!Caches
  <2> QED  BY <1>1, <2>1 DEF Token!KeysInv, Token!KeysShown, Token!Times
<1>3. now' \in Nat /\ now <= now' /\ (ttl # None => ttl' # None)
  BY <1>1
     DEF Token!Next, Token!vars, Token!Tick, Token!Withdraw, Token!Publish, Token!Enter,
         Token!Look, Token!Answer, Token!Store, Token!Fail
<1>4. /\ goneAt' = goneAt \/ \E k \in Keys : Token!Withdraw(k)
      /\ found' = found \/ \E c \in Calls : Token!Answer(c)
      /\ (cache' = cache /\ shownAt' = shownAt) \/ \E c \in Calls : Token!Store(c)
  BY DEF Token!Next, Token!vars, Token!Tick, Token!Withdraw, Token!Publish, Token!Enter,
         Token!Look, Token!Answer, Token!Store, Token!Fail
<1> DEFINE Before(k, time) == goneAt'[k] # None => goneAt'[k] >= time
\* A key that goes, goes now.
<1>5. ASSUME NEW k \in Keys, NEW time \in Nat, time <= now, Token!ShownBefore(k, time)
      PROVE  Before(k, time)
  <2>1. CASE \E j \in Keys : Token!Withdraw(j)
    BY <1>1, <1>5, <2>1 DEF Token!Withdraw, Token!ShownBefore
  <2>2. CASE goneAt' = goneAt
    BY <1>5, <2>2 DEF Token!ShownBefore
  <2> QED  BY <1>4, <2>1, <2>2
<1>6. ASSUME NEW k \in Keys, goneAt'[k] # None PROVE k \notin published' /\ goneAt'[k] <= now'
  <2>1. CASE \E j \in Keys : Token!Withdraw(j)
    BY <1>1, <1>2, <1>6, <2>1 DEF Token!Withdraw
  <2>2. CASE \E j \in Keys : Token!Publish(j)
    BY <1>1, <1>2, <1>6, <2>2 DEF Token!Publish
  <2>3. CASE goneAt' = goneAt /\ published' = published
    BY <1>1, <1>2, <1>3, <1>6, <2>3
  <2> QED
    BY <2>1, <2>2, <2>3
       DEF Token!Next, Token!vars, Token!Tick, Token!Enter, Token!Look, Token!Answer,
           Token!Store, Token!Fail
<1> HIDE DEF Before
<1>7. ASSUME NEW c \in Calls, found'[c] # None, NEW k \in found'[c].keys
      PROVE  Before(k, found'[c].at)
  <2>1. CASE found'[c] = found[c]
    BY <1>1, <1>2, <1>5, <1>7, <2>1
  <2>2. CASE Token!Answer(c)
    BY <1>1, <1>2, <2>2, <1>7 DEF Token!Answer, Before
  <2> QED  BY <1>1, <1>4, <2>1, <2>2 DEF Token!Answer
<1>8. ASSUME cache' # None
      PROVE  /\ shownAt' \in 0..now' /\ ttl' # None
             /\ \A k \in cache'.keys : Before(k, shownAt')
  <2>1. CASE \E c \in Calls : Token!Store(c)
    <3>1. PICK c \in Calls : Token!Store(c)
      BY <2>1
    <3>2. /\ cache'.keys = found[c].keys /\ shownAt' = found[c].at /\ found[c] # None
          /\ now' = now /\ ttl' = ttl /\ pc[c] = "fetch"
      BY <3>1 DEF Token!Store
    <3>3. ttl # None
      BY <3>2 DEF Token!KeysInv, Token!TimesInOrder
    <3> QED  BY <1>1, <1>2, <1>5, <3>2, <3>3
  <2>2. CASE cache' = cache /\ shownAt' = shownAt
    <3>1. /\ cache # None /\ shownAt \in Nat /\ shownAt <= now /\ cache.keys \subseteq Keys
          /\ \A k \in cache.keys : Token!ShownBefore(k, shownAt)
      BY <1>2, <1>8, <2>2
    <3>2. \A k \in cache.keys : Before(k, shownAt)
      BY <1>5, <3>1
    <3>3. shownAt \in 0..now' /\ ttl' # None
      BY <1>1, <1>2, <1>3, <3>1
    <3> QED  BY <2>2, <3>2, <3>3
  <2> QED  BY <1>4, <2>1, <2>2
<1>9. /\ \A c \in Calls : found'[c] # None => \A k \in found'[c].keys : Before(k, found'[c].at)
      /\ cache' # None => \A k \in cache'.keys : Before(k, shownAt')
  BY <1>7, <1>8
<1> QED  BY <1>6, <1>8, <1>9 DEF Token!KeysShown, Token!ShownBefore, Before

LEMMA KeysKeptStep ==
    ASSUME TokensAssumption, Token!KeysInv, [Token!Next]_(Token!vars), Token!TypeOK',
           Token!LockFetches', Token!KeysShown'
    PROVE  Token!KeysKept'
<1>1. /\ pc \in [Calls -> {"new", "lock", "fetch", "verified", "refused", "failed"}]
      /\ came \in [Calls -> Token!Times] /\ found \in [Calls -> Token!Answers \cup {None}]
      /\ cache \in Token!Caches \cup {None} /\ goneAt \in [Keys -> Token!Times]
      /\ now \in Nat /\ None \notin Nat /\ KeyOf \in [Calls -> Keys]
      /\ ttl \in Token!Times \ {0} /\ \A c \in Calls : TtlOf[c] \in Nat \ {0}
  BY DEF Token!KeysInv, Token!TypeOK, TokensAssumption, Token!NumbersAssumption,
         Token!CallsAssumption
<1>2. \A c \in Calls :
          /\ pc[c] # "new" => ttl \in Nat \ {0} /\ came[c] \in Nat /\ came[c] <= now
          /\ found[c] # None =>
                /\ found[c].at \in Nat /\ came[c] <= found[c].at
                /\ \A k \in found[c].keys : Token!ShownBefore(k, found[c].at)
  <2>1. \A c \in Calls : found[c] # None => found[c].at \in Nat
    BY <1>1 DEF Token!Answers
  <2> QED  BY <1>1, <2>1 DEF Token!KeysInv, Token!TimesInOrder, Token!KeysShown, Token!Times
<1>3. cache # None => /\ cache.until \in Nat /\ shownAt \in Nat /\ ttl \in Nat
                      /\ cache.until <= shownAt + ttl
                      /\ \A k \in cache.keys : Token!ShownBefore(k, shownAt)
  <2>1. cache # None => cache.until \in Nat
    BY <1>1 DEF Token!Caches
  <2>2. cache # None => shownAt \in Nat /\ ttl # None
    BY <1>1 DEF Token!KeysInv, Token!KeysShown
  <2> QED
    BY <1>1, <2>1, <2>2
       DEF Token!KeysInv, Token!KeysShown, Token!KeysKept, Token!KeptInTime, Token!Times
<1>4. ttl # None => ttl' = ttl
  BY DEF Token!Next, Token!vars, Token!Tick, Token!Withdraw, Token!Publish, Token!Enter,
         Token!Look, Token!Answer, Token!Store, Token!Fail
<1>5. Token!OneFetch'
  <2>1. {c \in Calls : pc'[c] = "fetch"} \subseteq {holder'}
    BY DEF Token!LockFetches
  <2>2. IsFiniteSet({holder'}) /\ Cardinality({holder'}) = 1
    BY FS_Singleton
  <2>3. /\ Cardinality({c \in Calls : pc'[c] = "fetch"}) \in Nat
        /\ Cardinality({c \in Calls : pc'[c] = "fetch"}) <= 1
    BY <2>1, <2>2, FS_Subset, FS_CardinalityType
  <2> QED  BY <2>3, TokenSets DEF Token!OneFetch
<1>6. Token!WithdrawnInTime'
  <2>1. SUFFICES ASSUME NEW c \in Calls, pc'[c] = "verified", goneAt'[KeyOf[c]] # None
                 PROVE  came'[c] < goneAt'[KeyOf[c]] + ttl'
    BY DEF Token!WithdrawnInTime
  <2>2. KeyOf[c] \in Keys /\ goneAt'[KeyOf[c]] \in Nat
    BY <1>1, <2>1 DEF Token!TypeOK, Token!Times
  <2>3. CASE pc[c] = "verified"
    <3>1. came'[c] = came[c]
      BY <1>1, <2>3
         DEF Token!Next, Token!vars, Token!Tick, Token!Withdraw, Token!Publish, Token!Enter,
             Token!Look, Token!Answer, Token!Store, Token!Fail
    <3>2. /\ came'[c] = came[c] /\ ttl' = ttl /\ ttl \in Nat \ {0}
          /\ came[c] \in Nat /\ came[c] <= now
      BY <1>1, <1>2, <1>4, <2>3, <3>1
    <3>3. CASE goneAt' = goneAt
      BY <2>1, <2>3, <3>2, <3>3 DEF Token!KeysInv, Token!KeysKept, Token!WithdrawnInTime
    <3>4. CASE \E k \in Keys : Token!Withdraw(k)
      <4>1. PICK k \in Keys : Token!Withdraw(k)
        BY <3>4
      <4>2. CASE k = KeyOf[c]
        BY <1>1, <2>2, <3>2, <4>1, <4>2 DEF Token!Withdraw
      <4>3. CASE k # KeyOf[c]
        BY <1>1, <2>1, <2>2, <2>3, <3>2, <4>1, <4>3
           DEF Token!Withdraw, Token!KeysInv, Token!KeysKept, Token!WithdrawnInTime
      <4> QED  BY <4>2, <4>3
    <3> QED
      BY <3>3, <3>4
         DEF Token!Next, Token!vars, Token!Tick, Token!Publish, Token!Enter, Token!Look,
             Token!Answer, Token!Store, Token!Fail
  <2>4. CASE Token!Look(c) /\ Token!Fresh(c)
    <3>1. /\ came' = came /\ ttl' = ttl /\ goneAt' = goneAt /\ pc[c] = "lock"
          /\ cache # None /\ came[c] < cache.until /\ KeyOf[c] \in cache.keys
      BY <2>4 DEF Token!Look, Token!Fresh
    <3>2. goneAt'[KeyOf[c]] >= shownAt
      BY <1>3, <2>1, <3>1 DEF Token!ShownBefore
    <3> QED  BY <1>2, <1>3, <2>2, <3>1, <3>2
  <2>5. CASE Token!Store(c)
    <3>1. /\ came' = came /\ ttl' = ttl /\ goneAt' = goneAt /\ pc[c] = "fetch"
          /\ found[c] # None /\ KeyOf[c] \in found[c].keys
      BY <1>1, <2>1, <2>5 DEF Token!Store, Token!Go
    <3>2. goneAt'[KeyOf[c]] >= found[c].at
      BY <1>2, <2>1, <3>1 DEF Token!ShownBefore
    <3> QED  BY <1>2, <2>2, <3>1, <3>2
  <2> QED
    BY <1>1, <2>1, <2>3, <2>4, <2>5
       DEF Token!Next, Token!vars, Token!Tick, Token!Withdraw, Token!Publish, Token!Enter,
           Token!Look, Token!Answer, Token!Store, Token!Fail, Token!Go
<1>7. Token!RefusedRightly'
  <2>1. SUFFICES ASSUME NEW c \in Calls, pc'[c] = "refused"
                 PROVE  found'[c].at >= came'[c] /\ KeyOf[c] \notin found'[c].keys
    BY DEF Token!RefusedRightly
  <2>2. CASE pc[c] = "refused"
    <3>1. found'[c] = found[c] /\ came'[c] = came[c]
      BY <1>1, <2>2
         DEF Token!Next, Token!vars, Token!Tick, Token!Withdraw, Token!Publish, Token!Enter,
             Token!Look, Token!Answer, Token!Store, Token!Fail
    <3> QED  BY <2>2, <3>1 DEF Token!KeysInv, Token!KeysKept, Token!RefusedRightly
  <2>3. CASE Token!Store(c)
    <3>1. /\ came' = came /\ found' = found /\ pc[c] = "fetch" /\ found[c] # None
          /\ KeyOf[c] \notin found[c].keys
      BY <1>1, <2>1, <2>3 DEF Token!Store, Token!Go
    <3> QED  BY <1>2, <3>1
  <2> QED
    BY <1>1, <2>1, <2>2, <2>3
       DEF Token!Next, Token!vars, Token!Tick, Token!Withdraw, Token!Publish, Token!Enter,
           Token!Look, Token!Answer, Token!Store, Token!Fail, Token!Go
<1>8. Token!KeptInTime'
  <2>1. CASE \E c \in Calls : Token!Store(c)
    <3>1. PICK c \in Calls : Token!Store(c)
      BY <2>1
    <3>2. /\ cache'.until = came[c] + ttl /\ shownAt' = found[c].at /\ ttl' = ttl
          /\ pc[c] = "fetch" /\ found[c] # None
      BY <3>1 DEF Token!Store
    <3> QED  BY <1>2, <3>2 DEF Token!KeptInTime
  <2>2. CASE cache' = cache /\ shownAt' = shownAt
    BY <1>3, <1>4, <1>1, <2>2 DEF Token!KeptInTime
  <2> QED
    BY <2>1, <2>2
       DEF Token!Next, Token!vars, Token!Tick, Token!Withdraw, Token!Publish, Token!Enter,
           Token!Look, Token!Answer, Token!Fail
<1> QED  BY <1>5, <1>6, <1>7, <1>8 DEF Token!KeysKept

LEMMA KeysInit == ASSUME TokensAssumption, Token!Init PROVE Token!KeysInv
<1> USE DEF Token!Init, TokensAssumption, Token!CallsAssumption, Token!NumbersAssumption,
            Token!NoneAssumption
<1>1. Token!TypeOK
  BY DEF Token!TypeOK, Token!Times
<1>2. {c \in Calls : pc[c] = "fetch"} = {}
  OBVIOUS
<1>3. Token!OneFetch
  <2>1. Token!Cardinality({c \in Calls : pc[c] = "fetch"}) = 0
    BY <1>2, FS_EmptySet, TokenSets
  <2> QED  BY <2>1 DEF Token!OneFetch
<1> QED
  BY <1>1, <1>3
     DEF Token!KeysInv, Token!LockFetches, Token!TimesInOrder, Token!KeysShown,
         Token!KeysKept, Token!WithdrawnInTime, Token!RefusedRightly, Token!KeptInTime

\* What the cache of an issuer's keys (oidc.py) promises: one fetch at a time, a key that was
\* withdrawn trusted for ttl at most, and no key refused for being new.
THEOREM KeysKeptHolds == ASSUME TokensAssumption PROVE Token!Spec => []Token!KeysKept
<1>1. Token!Init => Token!KeysInv
  BY KeysInit
<1>2. Token!KeysInv /\ [Token!Next]_(Token!vars) => Token!KeysInv'
  BY KeysTypeStep, TokenLockStep, TimesStep, ShownStep, KeysKeptStep DEF Token!KeysInv
<1>3. Token!KeysInv => Token!KeysKept
  BY DEF Token!KeysInv
<1> QED  BY <1>1, <1>2, <1>3, PTL DEF Token!Spec

-----------------------------------------------------------------------------
(* The versions of an agent.  Of each process one call at a time is on its *)
(* way, and it takes its mark back if it fails.                            *)

LEMMA VersionsTypeStep ==
    ASSUME Version!CallsAssumption, Version!VersionsInv, [Version!Next]_(Version!vars)
    PROVE  Version!TypeOK'
<1> USE DEF Version!VersionsInv, Version!TypeOK, Version!Go, Version!CallsAssumption,
            Version!Steps
<1> DEFINE VersionRows == [def : Definitions, by : Calls, after : Nat]
<1>1. ASSUME NEW c \in Calls, Version!Mark(c) PROVE Version!TypeOK'
  BY <1>1 DEF Version!Mark, Version!Processes
<1>2. ASSUME NEW c \in Calls, Version!Look(c) PROVE Version!TypeOK'
  <2>1. CASE versions # <<>> /\ versions[Len(versions)].def = def[c]
    BY <1>2, <2>1 DEF Version!Look
  <2>2. CASE ~ (versions # <<>> /\ versions[Len(versions)].def = def[c])
    BY <1>2, <2>2 DEF Version!Look
  <2> QED  BY <2>1, <2>2
<1>3. ASSUME NEW c \in Calls, Version!Number(c) PROVE Version!TypeOK'
  <2>1. attempt[c] + 1 \in 0..Attempts
    BY <1>3 DEF Version!Number, Version!OtherSeen
  <2> QED  BY <1>3, <2>1 DEF Version!Number
<1>4. ASSUME NEW c \in Calls, Version!Insert(c) PROVE Version!TypeOK'
  <2>1. Version!Row(c) \in VersionRows /\ Version!Row(c).after = latest[c]
    BY DEF Version!Row
  <2>2. latest[c] <= Len(versions) /\ latest[c] \in Nat
    BY DEF Version!OtherSeen
  <2>3. versions' = Append(versions, Version!Row(c)) /\ versions \in Seq(VersionRows)
    BY <1>4 DEF Version!Insert
  <2> HIDE DEF VersionRows
  <2>4. /\ versions' \in Seq(VersionRows) /\ Len(versions') = Len(versions) + 1
        /\ versions'[Len(versions) + 1] = Version!Row(c) /\ Len(versions) \in Nat
        /\ \A n \in 1..Len(versions) : versions'[n] = versions[n]
    BY <2>1, <2>3
  <2>5. \A n \in 1..Len(versions') : versions'[n].after < n
    <3>1. ASSUME NEW n \in 1..Len(versions') PROVE versions'[n].after < n
      <4>1. CASE n = Len(versions) + 1
        BY <2>1, <2>2, <2>4, <4>1
      <4>2. CASE n # Len(versions) + 1
        <5>1. n \in 1..Len(versions)
          BY <2>4, <4>2
        <5> QED  BY <2>4, <5>1
      <4> QED  BY <4>1, <4>2
    <3> QED  BY <3>1
  <2>6. pc' \in [Calls -> Version!Steps]
    BY <1>4 DEF Version!Insert
  <2> QED  BY <1>4, <2>4, <2>5, <2>6 DEF Version!Insert, VersionRows
<1>5. ASSUME NEW c \in Calls, Version!InsertRefused(c) PROVE Version!TypeOK'
  <2>1. CASE attempt[c] = Attempts
    BY <1>5, <2>1 DEF Version!InsertRefused, Version!Fail
  <2>2. CASE attempt[c] # Attempts
    BY <1>5, <2>2 DEF Version!InsertRefused
  <2> QED  BY <2>1, <2>2
<1>6. ASSUME NEW c \in Calls, Version!DatabaseFails(c) PROVE Version!TypeOK'
  BY <1>6 DEF Version!DatabaseFails, Version!Fail
<1>7. ASSUME NEW c \in Calls, Version!CheckOverride(c) PROVE Version!TypeOK'
  BY <1>7 DEF Version!CheckOverride
<1>8. ASSUME NEW c \in Calls, Version!SetDefault(c) PROVE Version!TypeOK'
  BY <1>8 DEF Version!SetDefault
<1>9. ASSUME NEW c \in Calls, Version!Again(c) PROVE Version!TypeOK'
  BY <1>9 DEF Version!Again
<1>10. CASE Version!Operate
  BY <1>10 DEF Version!Operate
<1>11. CASE UNCHANGED Version!vars
  BY <1>11 DEF Version!vars
<1> QED
  BY <1>1, <1>2, <1>3, <1>4, <1>5, <1>6, <1>7, <1>8, <1>9, <1>10, <1>11 DEF Version!Next

\* An INSERT appends; whatever else a call does leaves the versions alone.
LEMMA VersionsAppended ==
    ASSUME Version!CallsAssumption, Version!VersionsInv, [Version!Next]_(Version!vars)
    PROVE  /\ versions \in Seq([def : Definitions, by : Calls, after : Nat])
           /\ Len(versions) \in Nat /\ Len(versions) <= Len(versions')
           /\ DOMAIN versions = 1..Len(versions) /\ DOMAIN versions' = 1..Len(versions')
           /\ \A n \in 1..Len(versions) : versions'[n] = versions[n]
           /\ \/ versions' = versions
              \/ \E c \in Calls : /\ Version!Insert(c) /\ Len(versions') = Len(versions) + 1
                                  /\ versions'[Len(versions')] = Version!Row(c)
<1> DEFINE VersionRows == [def : Definitions, by : Calls, after : Nat]
<1>1. versions \in Seq(VersionRows)
  BY DEF Version!VersionsInv, Version!TypeOK
<1>2. CASE \E c \in Calls : Version!Insert(c)
  <2>1. PICK c \in Calls : Version!Insert(c)
    BY <1>2
  <2>2. Version!Row(c) \in VersionRows
    BY DEF Version!Row, Version!VersionsInv, Version!TypeOK
  <2>3. versions' = Append(versions, Version!Row(c))
    BY <2>1 DEF Version!Insert
  <2> HIDE DEF VersionRows
  <2>4. /\ Len(versions') = Len(versions) + 1 /\ Len(versions) \in Nat
        /\ versions'[Len(versions')] = Version!Row(c)
        /\ DOMAIN versions = 1..Len(versions) /\ DOMAIN versions' = 1..Len(versions')
        /\ \A n \in 1..Len(versions) : versions'[n] = versions[n]
    BY <1>1, <2>2, <2>3
  <2> QED  BY <1>1, <2>1, <2>4 DEF VersionRows
<1>3. CASE versions' = versions
  BY <1>1, <1>3
<1> QED
  BY <1>2, <1>3
     DEF Version!Next, Version!vars, Version!Mark, Version!Look, Version!Number,
         Version!InsertRefused, Version!DatabaseFails, Version!CheckOverride,
         Version!SetDefault, Version!Again, Version!Operate

LEMMA OtherSeenStep ==
    ASSUME Version!CallsAssumption, Version!VersionsInv, [Version!Next]_(Version!vars)
    PROVE  Version!OtherSeen'
<1>1. /\ pc \in [Calls -> Version!Steps] /\ latest \in [Calls -> Nat]
      /\ attempt \in [Calls -> 0..Attempts] /\ Attempts \in Nat \ {0}
      /\ \A c \in Calls :
          /\ latest[c] <= Len(versions)
          /\ (pc[c] \in {"number", "insert"} /\ latest[c] > 0) =>
                versions[latest[c]].def # def[c]
          /\ pc[c] \in {"idle", "look", "number"} => attempt[c] < Attempts
  BY DEF Version!VersionsInv, Version!TypeOK, Version!OtherSeen, Version!CallsAssumption
<1>2. /\ Len(versions) \in Nat /\ Len(versions) <= Len(versions')
      /\ \A n \in 1..Len(versions) : versions'[n] = versions[n]
      /\ def' = def /\ (versions = <<>> <=> Len(versions) = 0) /\ Len(versions') \in Nat
  <2>1. def' = def
    BY DEF Version!Next, Version!vars, Version!Mark, Version!Look, Version!Number,
           Version!Insert, Version!InsertRefused, Version!DatabaseFails,
           Version!CheckOverride, Version!SetDefault, Version!Again, Version!Operate
  <2>2. versions = <<>> <=> Len(versions) = 0
    BY VersionsAppended
  <2> QED  BY <2>1, <2>2, VersionsAppended
<1>3. SUFFICES ASSUME NEW c \in Calls
               PROVE  /\ latest'[c] <= Len(versions')
                      /\ (pc'[c] \in {"number", "insert"} /\ latest'[c] > 0) =>
                            versions'[latest'[c]].def # def[c]
                      /\ pc'[c] \in {"idle", "look", "number"} => attempt'[c] < Attempts
  BY <1>2 DEF Version!OtherSeen
<1>4. latest[c] > 0 => latest[c] \in 1..Len(versions)
  BY <1>1, <1>2
<1>5. \A d \in Calls : ~ Version!Look(d) =>
          latest' = latest \/ \E e \in Calls \ {d} : Version!Look(e)
  BY DEF Version!Next, Version!vars, Version!Mark, Version!Number, Version!Insert,
         Version!InsertRefused, Version!DatabaseFails, Version!CheckOverride,
         Version!SetDefault, Version!Again, Version!Operate
<1>6. CASE Version!Look(c)
  <2>1. /\ latest'[c] = Len(versions) /\ versions' = versions /\ attempt' = attempt
        /\ pc[c] = "look"
        /\ pc'[c] = IF versions # <<>> /\ versions[Len(versions)].def = def[c]
                    THEN "done" ELSE "number"
    BY <1>1, <1>6 DEF Version!Look, Version!Go
  <2>2. Len(versions) > 0 => versions # <<>>
    BY <1>2
  <2> QED  BY <1>1, <1>2, <2>1, <2>2
<1>7. CASE ~ Version!Look(c)
  <2>1. attempt[c] \in 0..Attempts /\ latest[c] \in Nat /\ latest'[c] = latest[c]
    BY <1>1, <1>5, <1>7 DEF Version!Look
  <2>2. pc'[c] \in {"number", "insert"} => pc[c] \in {"number", "insert"}
    <3>1. CASE \E d \in Calls : Version!Look(d)
      BY <1>1, <1>7, <3>1 DEF Version!Look, Version!Go
    <3>2. CASE ~ \E d \in Calls : Version!Look(d)
      BY <1>1, <3>2
         DEF Version!Next, Version!vars, Version!Mark, Version!Number, Version!Insert,
             Version!InsertRefused, Version!DatabaseFails, Version!Fail,
             Version!CheckOverride, Version!SetDefault, Version!Again, Version!Operate,
             Version!Go, Version!Steps
    <3> QED  BY <3>1, <3>2
  <2>3. pc'[c] \in {"idle", "look", "number"} => attempt'[c] < Attempts
    <3>1. CASE \E d \in Calls : Version!Look(d)
      BY <1>1, <1>7, <3>1 DEF Version!Look, Version!Go
    <3>2. CASE \E d \in Calls : Version!Mark(d)
      BY <1>1, <3>2 DEF Version!Mark, Version!Go
    <3>3. CASE \E d \in Calls : Version!Number(d) \/ Version!Insert(d) \/ Version!DatabaseFails(d)
                                \/ Version!CheckOverride(d) \/ Version!SetDefault(d)
                                \/ Version!Again(d)
      BY <1>1, <3>3
         DEF Version!Number, Version!Insert, Version!DatabaseFails, Version!Fail,
             Version!CheckOverride, Version!SetDefault, Version!Again, Version!Go,
             Version!Steps
    <3>4. CASE \E d \in Calls : Version!InsertRefused(d)
      BY <1>1, <2>1, <3>4 DEF Version!InsertRefused, Version!Fail, Version!Go
    <3>5. CASE Version!Operate \/ UNCHANGED Version!vars
      BY <1>1, <3>5 DEF Version!Operate, Version!vars
    <3> QED  BY <3>1, <3>2, <3>3, <3>4, <3>5 DEF Version!Next
  <2>4. latest[c] > 0 => versions'[latest[c]] = versions[latest[c]]
    BY <1>1, <1>2, <2>1
  <2> QED  BY <1>1, <1>2, <2>1, <2>2, <2>3, <2>4
<1> QED  BY <1>6, <1>7

LEMMA InFlightStep ==
    ASSUME Version!CallsAssumption, Version!VersionsInv, [Version!Next]_(Version!vars)
    PROVE  Version!OneInFlight'
<1> DEFINE Way == {"look", "number", "insert"}
<1>1. /\ pc \in [Calls -> Version!Steps]
      /\ \A c \in Calls : pc[c] \in Way =>
          /\ ProcessOf[c] \in seen
          /\ \A d \in Calls : (pc[d] \in Way /\ ProcessOf[d] = ProcessOf[c]) => d = c
  BY DEF Version!VersionsInv, Version!TypeOK, Version!OneInFlight
<1>2. SUFFICES ASSUME NEW c \in Calls, pc'[c] \in Way
               PROVE  /\ ProcessOf[c] \in seen'
                      /\ \A d \in Calls : (pc'[d] \in Way /\ ProcessOf[d] = ProcessOf[c]) => d = c
  BY DEF Version!OneInFlight
<1>3. CASE \E e \in Calls : Version!Mark(e)
  BY <1>1, <1>2, <1>3 DEF Version!Mark, Version!Go
<1>4. CASE \E e \in Calls : Version!Look(e) \/ Version!Number(e) \/ Version!Insert(e)
  <2>1. pc[c] \in Way /\ seen' = seen /\ \A d \in Calls : pc'[d] \in Way => pc[d] \in Way
    BY <1>1, <1>2, <1>4 DEF Version!Look, Version!Number, Version!Insert, Version!Go
  <2> QED  BY <1>1, <2>1
<1>5. CASE \E e \in Calls : Version!InsertRefused(e)
  <2>1. PICK e \in Calls : Version!InsertRefused(e)
    BY <1>5
  <2>2. CASE attempt[e] = Attempts
    BY <1>1, <1>2, <2>1, <2>2 DEF Version!InsertRefused, Version!Fail, Version!Go
  <2>3. CASE attempt[e] # Attempts
    BY <1>1, <1>2, <2>1, <2>3 DEF Version!InsertRefused, Version!Go
  <2> QED  BY <2>2, <2>3
<1>6. CASE \E e \in Calls : Version!DatabaseFails(e)
  BY <1>1, <1>2, <1>6 DEF Version!DatabaseFails, Version!Fail, Version!Go
<1>7. CASE \E e \in Calls : Version!CheckOverride(e) \/ Version!SetDefault(e) \/ Version!Again(e)
  BY <1>1, <1>2, <1>7 DEF Version!CheckOverride, Version!SetDefault, Version!Again, Version!Go
<1>8. CASE Version!Operate \/ UNCHANGED Version!vars
  BY <1>1, <1>2, <1>8 DEF Version!Operate, Version!vars
<1> QED  BY <1>3, <1>4, <1>5, <1>6, <1>7, <1>8 DEF Version!Next

LEMMA DefaultStep ==
    ASSUME Version!CallsAssumption, Version!VersionsInv, [Version!Next]_(Version!vars)
    PROVE  Version!DefaultChecked' /\ Version!OperatorKept'
<1>1. /\ pc \in [Calls -> Version!Steps] /\ None # "operator"
      /\ \A c \in Calls : pc[c] = "default" => c \in checked
      /\ operated = "alone" => checked = {} /\ override = "operator"
  BY DEF Version!VersionsInv, Version!TypeOK, Version!DefaultChecked, Version!VersionsKept,
         Version!OperatorKept, Version!CallsAssumption
<1>2. CASE \E c \in Calls : Version!Mark(c) \/ Version!Look(c) \/ Version!Number(c)
                            \/ Version!Insert(c) \/ Version!Again(c)
  BY <1>1, <1>2
     DEF Version!Mark, Version!Look, Version!Number, Version!Insert, Version!Again,
         Version!Go, Version!DefaultChecked, Version!OperatorKept
<1>3. CASE \E c \in Calls : Version!InsertRefused(c) \/ Version!DatabaseFails(c)
  BY <1>1, <1>3
     DEF Version!InsertRefused, Version!DatabaseFails, Version!Fail, Version!Go,
         Version!DefaultChecked, Version!OperatorKept
<1>4. CASE \E c \in Calls : Version!CheckOverride(c)
  BY <1>1, <1>4
     DEF Version!CheckOverride, Version!Go, Version!DefaultChecked, Version!OperatorKept
<1>5. CASE \E c \in Calls : Version!SetDefault(c)
  BY <1>1, <1>5 DEF Version!SetDefault, Version!Go, Version!DefaultChecked, Version!OperatorKept
<1>6. CASE Version!Operate
  BY <1>1, <1>6 DEF Version!Operate, Version!DefaultChecked, Version!OperatorKept
<1>7. CASE UNCHANGED Version!vars
  BY <1>1, <1>7 DEF Version!vars, Version!DefaultChecked, Version!OperatorKept
<1> QED  BY <1>2, <1>3, <1>4, <1>5, <1>6, <1>7 DEF Version!Next

LEMMA DuplicatesStep ==
    ASSUME Version!CallsAssumption, Version!VersionsInv, [Version!Next]_(Version!vars)
    PROVE  Version!NoDuplicates'
<1>1. SUFFICES ASSUME NEW n \in 2..Len(versions'), versions'[n].def = versions'[n - 1].def
               PROVE  versions'[n].after < n - 1
  BY DEF Version!NoDuplicates
<1>2. /\ Len(versions) \in Nat /\ Len(versions) <= Len(versions')
      /\ \A m \in 1..Len(versions) : versions'[m] = versions[m]
  BY VersionsAppended
<1>3. CASE n \in 2..Len(versions)
  <2>1. n - 1 \in 1..Len(versions) /\ n \in 1..Len(versions)
    BY <1>2, <1>3
  <2> QED
    BY <1>1, <1>2, <1>3, <2>1
       DEF Version!VersionsInv, Version!VersionsKept, Version!NoDuplicates
<1>4. CASE n \notin 2..Len(versions)
  <2>1. PICK c \in Calls : /\ Version!Insert(c) /\ Len(versions') = Len(versions) + 1
                           /\ versions'[Len(versions')] = Version!Row(c)
    BY <1>1, <1>2, <1>4, VersionsAppended
  <2>2. n = Len(versions) + 1 /\ n - 1 \in 1..Len(versions) /\ n - 1 = Len(versions)
    BY <1>1, <1>2, <1>4, <2>1
  <2>3. /\ versions'[n].def = def[c] /\ versions'[n].after = latest[c]
        /\ versions'[n - 1] = versions[n - 1]
    BY <1>2, <2>1, <2>2 DEF Version!Row
  <2>4. latest[c] \in Nat /\ latest[c] <= n - 1
    BY <2>2 DEF Version!VersionsInv, Version!TypeOK, Version!OtherSeen
  <2>5. pc[c] = "insert" /\ (latest[c] > 0 => versions[latest[c]].def # def[c])
    BY <2>1 DEF Version!Insert, Version!VersionsInv, Version!OtherSeen
  <2>6. latest[c] # n - 1
    BY <1>1, <2>2, <2>3, <2>5
  <2> QED  BY <2>3, <2>4, <2>6, <2>2, <1>2
<1> QED  BY <1>3, <1>4

LEMMA SeenStep ==
    ASSUME Version!CallsAssumption, Version!VersionsInv, [Version!Next]_(Version!vars)
    PROVE  Version!SeenIsOnRecord'
<1> DEFINE OnRecord(p) ==
        \E c \in Calls, n \in DOMAIN versions : ProcessOf[c] = p /\ versions[n].def = def[c]
<1>1. /\ pc \in [Calls -> Version!Steps]
      /\ \A p \in seen : Version!InFlight(p) \/ OnRecord(p)
  BY DEF Version!VersionsInv, Version!TypeOK, Version!VersionsKept, Version!SeenIsOnRecord
<1>2. /\ DOMAIN versions = 1..Len(versions) /\ Len(versions) \in Nat
      /\ def' = def /\ \A p : OnRecord(p) => OnRecord(p)'
  <2>1. def' = def
    BY DEF Version!Next, Version!vars, Version!Mark, Version!Look, Version!Number,
           Version!Insert, Version!InsertRefused, Version!DatabaseFails,
           Version!CheckOverride, Version!SetDefault, Version!Again, Version!Operate
  <2>2. DOMAIN versions = 1..Len(versions) /\ Len(versions) \in Nat
    BY VersionsAppended
  <2>3. DOMAIN versions \subseteq DOMAIN versions'
        /\ \A n \in DOMAIN versions : versions'[n] = versions[n]
    BY VersionsAppended
  <2> QED  BY <2>1, <2>2, <2>3
<1>3. SUFFICES ASSUME NEW p \in seen' PROVE Version!InFlight(p)' \/ OnRecord(p)'
  BY DEF Version!SeenIsOnRecord
<1> DEFINE Way == {"look", "number", "insert"}
\* A mark that was there stands for a call that goes on, unless it inserts or finds.
<1>4. ASSUME p \in seen, \A c \in Calls : (pc[c] \in Way /\ ProcessOf[c] = p) => pc'[c] \in Way
      PROVE  Version!InFlight(p)' \/ OnRecord(p)'
  <2>1. CASE Version!InFlight(p)
    BY <1>4, <2>1 DEF Version!InFlight
  <2>2. CASE OnRecord(p)
    BY <1>2, <2>2
  <2> QED  BY <1>1, <1>4, <2>1, <2>2
<1> HIDE DEF OnRecord
<1>5. CASE \E c \in Calls : Version!Mark(c)
  <2>1. PICK c \in Calls : Version!Mark(c)
    BY <1>5
  <2>2. CASE p \in seen
    BY <1>1, <1>4, <2>1, <2>2 DEF Version!Mark, Version!Go
  <2>3. CASE p \notin seen
    BY <1>1, <1>3, <2>1, <2>3 DEF Version!Mark, Version!Go, Version!InFlight
  <2> QED  BY <2>2, <2>3
<1>6. CASE \E c \in Calls : Version!Look(c)
  <2>1. PICK c \in Calls : Version!Look(c)
    BY <1>6
  <2>2. /\ seen' = seen /\ versions' = versions /\ pc[c] = "look"
        /\ pc' = [pc EXCEPT ![c] = IF versions # <<>> /\ versions[Len(versions)].def = def[c]
                                   THEN "done" ELSE "number"]
    BY <2>1 DEF Version!Look, Version!Go
  <2>3. CASE versions # <<>> /\ versions[Len(versions)].def = def[c] /\ ProcessOf[c] = p
    <3>1. Len(versions) \in DOMAIN versions
      BY <1>2, <2>3, VersionsAppended
    <3> QED  BY <1>2, <2>2, <2>3, <3>1 DEF OnRecord
  <2>4. CASE ~ (versions # <<>> /\ versions[Len(versions)].def = def[c] /\ ProcessOf[c] = p)
    BY <1>1, <1>3, <1>4, <2>2, <2>4
  <2> QED  BY <2>3, <2>4
<1>7. CASE \E c \in Calls : Version!Insert(c)
  <2>1. PICK c \in Calls : Version!Insert(c) /\ Len(versions') = Len(versions) + 1
                           /\ versions'[Len(versions')] = Version!Row(c)
    <3>1. versions' # versions
      <4>1. PICK c \in Calls : Version!Insert(c)
        BY <1>7
      <4>2. versions' = Append(versions, Version!Row(c))
        BY <4>1 DEF Version!Insert
      <4>3. Version!Row(c) \in [def : Definitions, by : Calls, after : Nat]
        BY DEF Version!Row, Version!VersionsInv, Version!TypeOK
      <4>4. Len(versions') = Len(versions) + 1
        BY <4>2, <4>3, VersionsAppended
      <4> QED  BY <1>2, <4>4
    <3> QED  BY <3>1, VersionsAppended
  <2>2. CASE ProcessOf[c] = p
    <3>1. Len(versions') \in DOMAIN versions'
      BY <1>2, <2>1, VersionsAppended
    <3>2. versions'[Len(versions')].def = def'[c]
      BY <1>2, <2>1 DEF Version!Row
    <3> QED  BY <2>2, <3>1, <3>2 DEF OnRecord
  <2>3. CASE ProcessOf[c] # p
    BY <1>1, <1>3, <1>4, <2>1, <2>3 DEF Version!Insert, Version!Go
  <2> QED  BY <2>2, <2>3
<1>8. CASE \E c \in Calls : Version!InsertRefused(c)
  <2>1. PICK c \in Calls : Version!InsertRefused(c)
    BY <1>8
  <2>2. CASE attempt[c] = Attempts
    <3>1. p # ProcessOf[c] /\ p \in seen /\ pc' = [pc EXCEPT ![c] = "failed"]
      BY <1>3, <2>1, <2>2 DEF Version!InsertRefused, Version!Fail, Version!Go
    <3> QED  BY <1>1, <1>4, <3>1
  <2>3. CASE attempt[c] # Attempts
    BY <1>1, <1>3, <1>4, <2>1, <2>3 DEF Version!InsertRefused, Version!Go
  <2> QED  BY <2>2, <2>3
<1>9. CASE \E c \in Calls : Version!DatabaseFails(c)
  BY <1>1, <1>3, <1>4, <1>9 DEF Version!DatabaseFails, Version!Fail, Version!Go
<1>10. CASE \E c \in Calls : Version!Number(c) \/ Version!CheckOverride(c)
                             \/ Version!SetDefault(c) \/ Version!Again(c)
  BY <1>1, <1>3, <1>4, <1>10
     DEF Version!Number, Version!CheckOverride, Version!SetDefault, Version!Again,
         Version!Go
<1>11. CASE Version!Operate \/ UNCHANGED Version!vars
  BY <1>1, <1>3, <1>4, <1>11 DEF Version!Operate, Version!vars
<1> QED  BY <1>5, <1>6, <1>7, <1>8, <1>9, <1>10, <1>11 DEF Version!Next

LEMMA VersionsInit == ASSUME Version!CallsAssumption, Version!Init PROVE Version!VersionsInv
<1> USE DEF Version!Init, Version!CallsAssumption
<1>1. Version!TypeOK
  BY DEF Version!TypeOK, Version!Steps
<1>2. seen = {} /\ versions = <<>> /\ operated = "never" /\ \A c \in Calls : pc[c] = "idle"
      /\ latest \in [Calls -> {0}] /\ attempt \in [Calls -> {0}]
  OBVIOUS
<1>3. Len(versions) = 0
  BY <1>2
<1> QED
  BY <1>1, <1>2, <1>3
     DEF Version!VersionsInv, Version!OtherSeen, Version!OneInFlight,
         Version!DefaultChecked, Version!VersionsKept, Version!NoDuplicates,
         Version!SeenIsOnRecord, Version!OperatorKept

\* What snapshot_once and snapshot_on_first_sight (versioning.py, kya_hooks/_snapshot.py)
\* promise: no version twice in a row but in a race, no agent that is marked and not on
\* record, and no default in the place of what an operator set.
THEOREM VersionsKeptHolds ==
    ASSUME Version!CallsAssumption
    PROVE  Version!Spec => []Version!VersionsKept
<1>1. Version!Init => Version!VersionsInv
  BY VersionsInit
<1>2. Version!VersionsInv /\ [Version!Next]_(Version!vars) => Version!VersionsInv'
  BY VersionsTypeStep, OtherSeenStep, InFlightStep, DefaultStep, DuplicatesStep, SeenStep
     DEF Version!VersionsInv, Version!VersionsKept
<1>3. Version!VersionsInv => Version!VersionsKept
  BY DEF Version!VersionsInv
<1> QED  BY <1>1, <1>2, <1>3, PTL DEF Version!Spec

-----------------------------------------------------------------------------
(* The client of the shared store.  Nobody who holds the lock finds the    *)
(* client settled, and none is published but where there is none.          *)

StoreAssumption == Client!ValkeyAssumption /\ Client!NoneAssumption

\* What a registration leaves is a factory or none.
LEMMA FactoriesAre ==
    ASSUME NEW x \in Changes, FactoryOf[x] # "reset"
    PROVE  FactoryOf[x] \in Client!Factories \cup {None}
BY DEF Client!Factories

LEMMA ClientType ==
    ASSUME StoreAssumption, Client!TypeOK, NEW c \in Calls,
           NEW source \in Client!Factories \cup {"environment"}
    PROVE  /\ [source |-> source, epoch |-> epoch, by |-> c] \in Client!Clients
           /\ [source |-> source, epoch |-> epoch, by |-> c] # None
BY DEF Client!TypeOK, Client!Clients, StoreAssumption, Client!NoneAssumption

LEMMA ReturnType ==
    ASSUME Client!TypeOK, NEW c \in Calls, NEW reply \in Client!Clients \cup {None},
           Client!Return(c, reply)
    PROVE  /\ pc' \in [Calls \cup Changes -> Client!Steps]
           /\ got' \in [Calls -> Client!Clients \cup {None}]
           /\ blind' \subseteq Calls
<1>1. /\ pc' \in [Calls \cup Changes -> Client!Steps]
      /\ got' \in [Calls -> Client!Clients \cup {None}]
  BY DEF Client!Return, Client!Go, Client!TypeOK, Client!Steps
<1>2. blind' \subseteq Calls
  BY DEF Client!Return, Client!TypeOK
<1> QED  BY <1>1, <1>2

LEMMA ValkeyTypeStep ==
    ASSUME StoreAssumption, Client!ValkeyInv, [Client!Next]_(Client!vars)
    PROVE  Client!TypeOK'
<1>0. Horizon \in Nat /\ Cooldown \in Nat \ {0} /\ now \in Nat /\ now <= Horizon
  <2>1. now \in 0..Horizon /\ Horizon \in Nat /\ Cooldown \in Nat \ {0}
    BY DEF StoreAssumption, Client!ValkeyAssumption, Client!ValkeyInv, Client!TypeOK
  <2> QED  BY <2>1
<1> USE DEF Client!ValkeyInv, Client!TypeOK, Client!vars, Client!cache, Client!history
<1>1. CASE Client!Tick
  <2>1. now' \in 0..Horizon
    BY <1>0, <1>1 DEF Client!Tick
  <2> QED  BY <1>1, <2>1 DEF Client!Tick
<1>2. ASSUME NEW c \in Calls, Client!Look(c) PROVE Client!TypeOK'
  <2>1. pc' \in [Calls \cup Changes -> Client!Steps]
    BY <1>2 DEF Client!Look, Client!Go, Client!Steps
  <2>2. began' \in [Calls -> Nat] /\ crossed' \subseteq Calls
    BY <1>2 DEF Client!Look
  <2> QED  BY <1>2, <2>1, <2>2 DEF Client!Look
<1>3. ASSUME NEW c \in Calls, Client!Take(c) PROVE Client!TypeOK'
  BY <1>3, ReturnType DEF Client!Take
<1>4. ASSUME NEW c \in Calls, Client!Cool(c) PROVE Client!TypeOK'
  <2>1. CASE Client!Cooling
    BY <1>4, <2>1, ReturnType DEF Client!Cool
  <2>2. CASE ~ Client!Cooling
    BY <1>4, <2>2 DEF Client!Cool, Client!Go, Client!Steps
  <2> QED  BY <2>1, <2>2
<1>5. ASSUME NEW c \in Calls, Client!Acquire(c) PROVE Client!TypeOK'
  <2>1. CASE resolved
    BY <1>5, <2>1, ReturnType DEF Client!Acquire
  <2>2. CASE ~ resolved /\ Client!Cooling
    BY <1>5, <2>2, ReturnType DEF Client!Acquire
  <2>3. CASE ~ (resolved \/ Client!Cooling)
    BY <1>5, <2>3 DEF Client!Acquire, Client!Go, Client!Steps
  <2> QED  BY <2>1, <2>2, <2>3
<1>6. ASSUME NEW c \in Calls, Client!AskFactory(c) PROVE Client!TypeOK'
  <2>1. factory # None
    BY <1>6 DEF Client!AskFactory, Client!ClientMade
  <2>2. CASE Client!Made(c, factory) /\ UNCHANGED barren
    BY <1>6, <2>1, <2>2, ClientType DEF Client!AskFactory, Client!Made, Client!Go, Client!Steps
  <2>3. CASE Client!Go(c, "environment") /\ UNCHANGED got
    BY <1>6, <2>3 DEF Client!AskFactory, Client!Go, Client!Steps
  <2> QED  BY <1>6, <2>2, <2>3 DEF Client!AskFactory
<1>7. ASSUME NEW c \in Calls, Client!NoStore(c) PROVE Client!TypeOK'
  BY <1>7, ReturnType DEF Client!NoStore
<1>8. ASSUME NEW c \in Calls, Client!Ping(c) PROVE Client!TypeOK'
  <2>1. hurried' \in BOOLEAN
    BY <1>8, Zenon DEF Client!Ping
  <2> QED  BY <1>8, <2>1, ClientType DEF Client!Ping, Client!Made, Client!Go, Client!Steps
<1>9. ASSUME NEW c \in Calls, Client!PingFails(c) PROVE Client!TypeOK'
  <2>1. hurried' \in BOOLEAN
    BY <1>9, Zenon DEF Client!PingFails
  <2>2. retryAfter' \in 0..(Horizon + Cooldown) /\ failedAt' \in 0..Horizon \cup {None}
    BY <1>0, <1>9 DEF Client!PingFails
  <2> QED  BY <1>9, <2>1, <2>2, ReturnType DEF Client!PingFails
<1>10. ASSUME NEW c \in Calls, Client!Publish(c) PROVE Client!TypeOK'
  BY <1>10 DEF Client!Publish, Client!Go, Client!Steps
<1>11. ASSUME NEW c \in Calls, Client!Flag(c) PROVE Client!TypeOK'
  <2>1. 0 \in 0..(Horizon + Cooldown)
    BY <1>0
  <2> QED  BY <1>11, <2>1, ReturnType DEF Client!Flag
<1>12. ASSUME NEW x \in Changes, Client!Drop(x) PROVE Client!TypeOK'
  <2>1. factory' \in Client!Factories \cup {None}
    BY <1>12, FactoriesAre DEF Client!Drop
  <2>2. crossed' \subseteq Calls /\ pc' \in [Calls \cup Changes -> Client!Steps]
    BY <1>12 DEF Client!Drop, Client!Underway, Client!Go, Client!Steps
  <2> QED  BY <1>12, <2>1, <2>2 DEF Client!Drop
<1>13. ASSUME NEW x \in Changes, Client!Change(x) PROVE Client!TypeOK'
  <2>1. crossed' \subseteq Calls /\ pc' \in [Calls \cup Changes -> Client!Steps]
    BY <1>13 DEF Client!Change, Client!Underway, Client!Go, Client!Steps
  <2>2. retryAfter' \in 0..(Horizon + Cooldown) /\ failedAt' \in 0..Horizon \cup {None}
    BY <1>0, <1>13 DEF Client!Change
  <2>3. epoch' \in Nat
    BY <1>13 DEF Client!Change
  <2> QED  BY <1>13, <2>1, <2>2, <2>3 DEF Client!Change
<1>14. CASE UNCHANGED Client!vars
  BY <1>14
<1> QED
  BY <1>1, <1>2, <1>3, <1>4, <1>5, <1>6, <1>7, <1>8, <1>9, <1>10, <1>11, <1>12, <1>13, <1>14
     DEF Client!Next

LEMMA StoreLockStep ==
    ASSUME StoreAssumption, Client!ValkeyInv, [Client!Next]_(Client!vars)
    PROVE  Client!LockKept'
<1>1. /\ pc \in [Calls \cup Changes -> Client!Steps] /\ lock \in Calls \cup Changes \cup {None}
      /\ None \notin Calls \cup Changes /\ Calls \cap Changes = {}
      /\ \A c \in Calls : pc[c] \in Client!Making \cup {"flag"} => lock = c
      /\ \A x \in Changes : pc[x] \in {"new", "flag", "done"} /\ (pc[x] = "flag" => lock = x)
      /\ lock \in Calls => pc[lock] \in Client!Making \cup {"flag"} /\ ~ resolved
      /\ lock \in Changes => pc[lock] = "flag"
  BY DEF Client!ValkeyInv, Client!TypeOK, Client!LockKept, StoreAssumption,
         Client!ValkeyAssumption
<1> USE DEF Client!Making, Client!LockKept, Client!Go, Client!Steps, Client!cache,
            Client!history
<1>2. CASE Client!Tick \/ UNCHANGED Client!vars
  BY <1>1, <1>2 DEF Client!Tick, Client!vars
<1>3. ASSUME NEW c \in Calls, Client!Look(c) PROVE Client!LockKept'
  BY <1>1, <1>3 DEF Client!Look
<1>4. ASSUME NEW c \in Calls, Client!Take(c) PROVE Client!LockKept'
  BY <1>1, <1>4 DEF Client!Take, Client!Return
<1>5. ASSUME NEW c \in Calls, Client!Cool(c) PROVE Client!LockKept'
  <2>1. lock' = lock /\ resolved' = resolved /\ pc[c] = "cool"
        /\ \E s \in {"done", "wait"} : pc' = [pc EXCEPT ![c] = s]
    BY <1>5 DEF Client!Cool, Client!Return
  <2> QED  BY <1>1, <2>1
<1>6. ASSUME NEW c \in Calls, Client!Acquire(c) PROVE Client!LockKept'
  <2>1. CASE resolved \/ Client!Cooling
    <3>1. pc' = [pc EXCEPT ![c] = "done"] /\ lock' = lock /\ resolved' = resolved /\ lock = None
      BY <1>6, <2>1 DEF Client!Acquire, Client!Return
    <3> QED  BY <1>1, <3>1
  <2>2. CASE ~ (resolved \/ Client!Cooling)
    <3>1. /\ \E s \in {"factory", "environment"} : pc' = [pc EXCEPT ![c] = s]
          /\ lock' = c /\ resolved' = resolved /\ lock = None /\ ~ resolved
      BY <1>6, <2>2 DEF Client!Acquire
    <3> QED  BY <1>1, <3>1
  <2> QED  BY <2>1, <2>2
<1>7. ASSUME NEW c \in Calls, Client!AskFactory(c) PROVE Client!LockKept'
  <2>1. /\ \E s \in {"publish", "environment"} : pc' = [pc EXCEPT ![c] = s]
        /\ lock' = lock /\ resolved' = resolved /\ pc[c] = "factory"
    BY <1>7 DEF Client!AskFactory, Client!Made
  <2> QED  BY <1>1, <2>1
<1>8. ASSUME NEW c \in Calls, Client!NoStore(c) PROVE Client!LockKept'
  BY <1>1, <1>8 DEF Client!NoStore, Client!Return
<1>9. ASSUME NEW c \in Calls, Client!Ping(c) PROVE Client!LockKept'
  BY <1>1, <1>9 DEF Client!Ping, Client!Made
<1>10. ASSUME NEW c \in Calls, Client!PingFails(c) PROVE Client!LockKept'
  BY <1>1, <1>10 DEF Client!PingFails, Client!Return
<1>11. ASSUME NEW c \in Calls, Client!Publish(c) PROVE Client!LockKept'
  BY <1>1, <1>11 DEF Client!Publish
<1>12. ASSUME NEW c \in Calls, Client!Flag(c) PROVE Client!LockKept'
  BY <1>1, <1>12 DEF Client!Flag, Client!Return
<1>13. ASSUME NEW x \in Changes, Client!Drop(x) PROVE Client!LockKept'
  BY <1>1, <1>13 DEF Client!Drop
<1>14. ASSUME NEW x \in Changes, Client!Change(x) PROVE Client!LockKept'
  BY <1>1, <1>14 DEF Client!Change
<1> QED
  BY <1>2, <1>3, <1>4, <1>5, <1>6, <1>7, <1>8, <1>9, <1>10, <1>11, <1>12, <1>13, <1>14
     DEF Client!Next

LEMMA MadeStep ==
    ASSUME StoreAssumption, Client!ValkeyInv, [Client!Next]_(Client!vars)
    PROVE  Client!ClientMade'
<1>1. /\ pc \in [Calls \cup Changes -> Client!Steps] /\ lock \in Calls \cup Changes \cup {None}
      /\ None \notin Calls \cup Changes /\ Calls \cap Changes = {}
      /\ \A c \in Calls : pc[c] \in Client!Making \cup {"flag"} => lock = c
      /\ \A x \in Changes : pc[x] = "flag" => lock = x
      /\ lock \in Calls => ~ resolved
      /\ epoch \in Nat /\ began \in [Calls -> Nat]
      /\ got \in [Calls -> Client!Clients \cup {None}]
  BY DEF Client!ValkeyInv, Client!TypeOK, Client!LockKept, StoreAssumption,
         Client!ValkeyAssumption
<1>2. /\ client # None => client.epoch = epoch /\ Client!Sourced(client) /\ lock \notin Changes
      /\ (lock = None /\ ~ resolved) => client = None
      /\ \A c \in Calls :
          /\ began[c] <= epoch
          /\ pc[c] \in Client!Making => client = None
          /\ (pc[c] = "environment" /\ factory # None) => epoch \in barren
          /\ pc[c] = "factory" => factory # None
          /\ pc[c] \in {"publish", "flag"} =>
                got[c] # None /\ got[c].epoch = epoch /\ Client!Sourced(got[c])
          /\ pc[c] = "flag" => client = got[c]
  BY DEF Client!ValkeyInv, Client!ClientMade
<1> USE DEF Client!Making, Client!Go, Client!Steps, Client!cache, Client!history
\* What does not touch the client and its maker.
<1>3. ASSUME UNCHANGED <<client, lock, resolved, factory, epoch, barren, began>>,
             \A c \in Calls : pc'[c] \in Client!Making \cup {"flag"} =>
                pc'[c] = pc[c] /\ got'[c] = got[c]
      PROVE  Client!ClientMade'
  BY <1>2, <1>3 DEF Client!ClientMade, Client!Sourced
<1>4. CASE Client!Tick \/ UNCHANGED Client!vars
  BY <1>3, <1>4 DEF Client!Tick, Client!vars
<1>5. ASSUME NEW c \in Calls, Client!Look(c) PROVE Client!ClientMade'
  BY <1>1, <1>2, <1>5 DEF Client!Look, Client!ClientMade, Client!Sourced
<1>6. ASSUME NEW c \in Calls, Client!Take(c) PROVE Client!ClientMade'
  BY <1>1, <1>3, <1>6 DEF Client!Take, Client!Return
<1>7. ASSUME NEW c \in Calls, Client!Cool(c) PROVE Client!ClientMade'
  <2>1. CASE Client!Cooling
    BY <1>1, <1>3, <1>7, <2>1 DEF Client!Cool, Client!Return
  <2>2. CASE ~ Client!Cooling
    BY <1>1, <1>3, <1>7, <2>2 DEF Client!Cool
  <2> QED  BY <2>1, <2>2
<1>8. ASSUME NEW c \in Calls, Client!Acquire(c) PROVE Client!ClientMade'
  <2>1. CASE resolved \/ Client!Cooling
    BY <1>1, <1>3, <1>8, <2>1 DEF Client!Acquire, Client!Return
  <2>2. CASE ~ (resolved \/ Client!Cooling)
    <3>1. /\ pc' = [pc EXCEPT ![c] = IF factory # None THEN "factory" ELSE "environment"]
          /\ lock' = c /\ lock = None /\ ~ resolved
          /\ UNCHANGED <<client, resolved, factory, epoch, barren, began, got>>
      BY <1>8, <2>2 DEF Client!Acquire
    <3> QED  BY <1>1, <1>2, <3>1 DEF Client!ClientMade, Client!Sourced
  <2> QED  BY <2>1, <2>2
<1>9. ASSUME NEW c \in Calls, Client!AskFactory(c) PROVE Client!ClientMade'
  <2>1. /\ pc[c] = "factory" /\ factory # None /\ client = None /\ lock = c
        /\ UNCHANGED <<client, lock, resolved, factory, epoch, began>>
    BY <1>1, <1>2, <1>9 DEF Client!AskFactory
  <2>2. CASE Client!Made(c, factory) /\ UNCHANGED barren
    <3>1. /\ pc' = [pc EXCEPT ![c] = "publish"]
          /\ got' = [got EXCEPT ![c] = [source |-> factory, epoch |-> epoch, by |-> c]]
      BY <2>2 DEF Client!Made
    <3>2. got'[c] # None /\ got'[c].epoch = epoch /\ got'[c].source = factory
      BY <1>1, <2>1, <3>1, ClientType DEF Client!ValkeyInv, Client!TypeOK
    <3> QED  BY <1>1, <1>2, <2>1, <2>2, <3>1, <3>2 DEF Client!ClientMade, Client!Sourced
  <2>3. CASE Client!Go(c, "environment") /\ barren' = barren \cup {epoch} /\ UNCHANGED got
    BY <1>1, <1>2, <2>1, <2>3 DEF Client!ClientMade, Client!Sourced
  <2> QED  BY <1>9, <2>2, <2>3 DEF Client!AskFactory
<1>10. ASSUME NEW c \in Calls, Client!NoStore(c) \/ Client!PingFails(c) PROVE Client!ClientMade'
  <2>1. /\ pc[c] = "environment" /\ lock = c /\ lock' = None /\ client' = None
        /\ pc' = [pc EXCEPT ![c] = "done"]
        /\ got' = [got EXCEPT ![c] = None] /\ UNCHANGED <<factory, epoch, barren, began>>
    BY <1>1, <1>10 DEF Client!NoStore, Client!PingFails, Client!Return
  <2> QED  BY <1>1, <1>2, <2>1 DEF Client!ClientMade, Client!Sourced
<1>11. ASSUME NEW c \in Calls, Client!Ping(c) PROVE Client!ClientMade'
  <2>1. /\ pc[c] = "environment" /\ client = None /\ lock = c
        /\ pc' = [pc EXCEPT ![c] = "publish"]
        /\ got' = [got EXCEPT ![c] = [source |-> "environment", epoch |-> epoch, by |-> c]]
        /\ UNCHANGED <<client, lock, resolved, factory, epoch, barren, began>>
    BY <1>1, <1>2, <1>11 DEF Client!Ping, Client!Made
  <2>2. got'[c] # None /\ got'[c].epoch = epoch /\ got'[c].source = "environment"
    BY <1>1, <2>1, ClientType DEF Client!ValkeyInv
  <2>3. factory # None => epoch \in barren
    BY <1>2, <2>1
  <2> QED  BY <1>1, <1>2, <2>1, <2>2, <2>3 DEF Client!ClientMade, Client!Sourced
<1>12. ASSUME NEW c \in Calls, Client!Publish(c) PROVE Client!ClientMade'
  <2>1. /\ pc[c] = "publish" /\ lock = c /\ client' = got[c] /\ got' = got
        /\ pc' = [pc EXCEPT ![c] = "flag"]
        /\ UNCHANGED <<lock, resolved, factory, epoch, barren, began>>
    BY <1>1, <1>12 DEF Client!Publish
  <2>2. got[c].epoch = epoch /\ Client!Sourced(got[c])
    BY <1>2, <2>1
  <2> QED  BY <1>1, <1>2, <2>1, <2>2 DEF Client!ClientMade, Client!Sourced
<1>13. ASSUME NEW c \in Calls, Client!Flag(c) PROVE Client!ClientMade'
  <2>1. /\ pc[c] = "flag" /\ lock = c /\ lock' = None /\ resolved' = TRUE
        /\ pc' = [pc EXCEPT ![c] = "done"] /\ got' = [got EXCEPT ![c] = got[c]]
        /\ UNCHANGED <<client, factory, epoch, barren, began>>
    BY <1>1, <1>13 DEF Client!Flag, Client!Return
  <2> QED  BY <1>1, <1>2, <2>1 DEF Client!ClientMade, Client!Sourced
<1>14. ASSUME NEW x \in Changes, Client!Drop(x) PROVE Client!ClientMade'
  <2>1. /\ lock = None /\ lock' = x /\ client' = None /\ pc' = [pc EXCEPT ![x] = "flag"]
        /\ UNCHANGED <<got, resolved, epoch, barren, began>>
    BY <1>14 DEF Client!Drop
  <2>2. \A c \in Calls : pc[c] \notin Client!Making \cup {"flag"} /\ pc'[c] = pc[c]
    BY <1>1, <2>1
  <2> QED  BY <1>1, <1>2, <2>1, <2>2 DEF Client!ClientMade
<1>15. ASSUME NEW x \in Changes, Client!Change(x) PROVE Client!ClientMade'
  <2>1. /\ lock = x /\ lock' = None /\ resolved' = FALSE /\ epoch' = epoch + 1
        /\ pc' = [pc EXCEPT ![x] = "done"] /\ UNCHANGED <<client, got, factory, began>>
    BY <1>1, <1>15 DEF Client!Change
  <2>2. client = None
    BY <1>2, <2>1
  <2>3. \A c \in Calls : pc[c] \notin Client!Making \cup {"flag"} /\ pc'[c] = pc[c]
    BY <1>1, <2>1
  <2> QED  BY <1>1, <1>2, <2>1, <2>2, <2>3 DEF Client!ClientMade
<1> QED
  BY <1>4, <1>5, <1>6, <1>7, <1>8, <1>9, <1>10, <1>11, <1>12, <1>13, <1>14, <1>15
     DEF Client!Next

\* Whoever returns a client returns the one that is there, and keeps it.
LEMMA AnswerIs ==
    ASSUME StoreAssumption, Client!ValkeyInv, [Client!Next]_(Client!vars), NEW c \in Calls,
           pc'[c] = "done"
    PROVE  /\ began'[c] = began[c]
           /\ \/ pc[c] = "done" /\ got'[c] = got[c]
              \/ got'[c] = None
              \/ got'[c] = client /\ client' = client /\ epoch' = epoch
<1>1. /\ pc \in [Calls \cup Changes -> Client!Steps] /\ Calls \cap Changes = {}
      /\ began \in [Calls -> Nat] /\ got \in [Calls -> Client!Clients \cup {None}]
      /\ \A d \in Calls : pc[d] = "flag" => client = got[d]
  BY DEF Client!ValkeyInv, Client!TypeOK, Client!ClientMade, StoreAssumption,
         Client!ValkeyAssumption
<1> USE DEF Client!Go, Client!Steps, Client!cache, Client!history
<1>2. CASE Client!Tick \/ UNCHANGED Client!vars
  BY <1>1, <1>2 DEF Client!Tick, Client!vars
<1>3. CASE \E d \in Calls : Client!Look(d)
  BY <1>1, <1>3 DEF Client!Look
<1>4. CASE \E d \in Calls : Client!Take(d)
  BY <1>1, <1>4 DEF Client!Take, Client!Return
<1>5. CASE \E d \in Calls : Client!Cool(d)
  <2>1. PICK d \in Calls : Client!Cool(d)
    BY <1>5
  <2>2. CASE Client!Cooling
    BY <1>1, <2>1, <2>2 DEF Client!Cool, Client!Return
  <2>3. CASE ~ Client!Cooling
    BY <1>1, <2>1, <2>3 DEF Client!Cool
  <2> QED  BY <2>2, <2>3
<1>6. CASE \E d \in Calls : Client!Acquire(d)
  <2>1. PICK d \in Calls : Client!Acquire(d)
    BY <1>6
  <2>2. CASE resolved
    BY <1>1, <2>1, <2>2 DEF Client!Acquire, Client!Return
  <2>3. CASE ~ resolved /\ Client!Cooling
    BY <1>1, <2>1, <2>3 DEF Client!Acquire, Client!Return
  <2>4. CASE ~ (resolved \/ Client!Cooling)
    BY <1>1, <2>1, <2>4 DEF Client!Acquire
  <2> QED  BY <2>2, <2>3, <2>4
<1>7. CASE \E d \in Calls : Client!AskFactory(d) \/ Client!Ping(d) \/ Client!Publish(d)
  BY <1>1, <1>7 DEF Client!AskFactory, Client!Ping, Client!Made, Client!Publish
<1>8. CASE \E d \in Calls : Client!NoStore(d) \/ Client!PingFails(d)
  BY <1>1, <1>8 DEF Client!NoStore, Client!PingFails, Client!Return
<1>9. CASE \E d \in Calls : Client!Flag(d)
  BY <1>1, <1>9 DEF Client!Flag, Client!Return
<1>10. CASE \E x \in Changes : Client!Drop(x) \/ Client!Change(x)
  BY <1>1, <1>10 DEF Client!Drop, Client!Change
<1> QED  BY <1>2, <1>3, <1>4, <1>5, <1>6, <1>7, <1>8, <1>9, <1>10 DEF Client!Next

\* The client goes by a change only, and comes where there is none.
LEMMA ClientMoves ==
    ASSUME StoreAssumption, Client!ValkeyInv, [Client!Next]_(Client!vars)
    PROVE  \/ client' = client /\ epoch' = epoch /\ (lock \in Changes => lock' \in Changes)
           \/ client = None /\ epoch' = epoch /\ lock \notin Changes
           \/ epoch' = epoch /\ lock' \in Changes
           \/ epoch' = epoch + 1
<1>1. /\ lock \in Calls \cup Changes \cup {None} /\ None \notin Changes
      /\ Calls \cap Changes = {}
      /\ \A c \in Calls : /\ pc[c] \in Client!Making \cup {"flag"} => lock = c
                          /\ pc[c] \in Client!Making => client = None
  BY DEF Client!ValkeyInv, Client!TypeOK, Client!LockKept, Client!ClientMade,
         StoreAssumption, Client!ValkeyAssumption
<1> USE DEF Client!cache, Client!history
<1>2. CASE Client!Tick \/ UNCHANGED Client!vars
           \/ \E c \in Calls : Client!Look(c) \/ Client!Take(c) \/ Client!Cool(c)
  BY <1>2 DEF Client!Tick, Client!vars, Client!Look, Client!Take, Client!Cool
<1>3. CASE \E c \in Calls : Client!Acquire(c)
  BY <1>1, <1>3 DEF Client!Acquire
<1>4. CASE \E c \in Calls : Client!AskFactory(c) \/ Client!Ping(c)
  BY <1>4 DEF Client!AskFactory, Client!Ping
<1>5. CASE \E c \in Calls : Client!NoStore(c) \/ Client!PingFails(c) \/ Client!Publish(c)
  BY <1>1, <1>5 DEF Client!NoStore, Client!PingFails, Client!Publish, Client!Making
<1>6. CASE \E c \in Calls : Client!Flag(c)
  BY <1>1, <1>6 DEF Client!Flag
<1>7. CASE \E x \in Changes : Client!Drop(x) \/ Client!Change(x)
  BY <1>7 DEF Client!Drop, Client!Change
<1> QED  BY <1>2, <1>3, <1>4, <1>5, <1>6, <1>7 DEF Client!Next

LEMMA GivenStep ==
    ASSUME StoreAssumption, Client!ValkeyInv, [Client!Next]_(Client!vars), Client!ClientMade'
    PROVE  Client!GivenNow' /\ Client!ClientFresh'
<1>1. /\ \A c \in Calls : (pc[c] = "done" /\ got[c] # None) =>
            /\ got[c].epoch <= epoch /\ got[c].epoch \in Nat
            /\ got[c].epoch = epoch => client = got[c] \/ lock \in Changes
            /\ got[c].epoch >= began[c]
      /\ \A c, d \in Calls :
            (pc[c] = "done" /\ got[c] # None /\ pc[d] = "done" /\ got[d] # None
              /\ got[c].epoch = got[d].epoch) => got[c] = got[d]
      /\ epoch \in Nat
  <2>1. \A c \in Calls : got[c] # None => got[c].epoch \in Nat
    BY DEF Client!ValkeyInv, Client!TypeOK, Client!Clients
  <2> QED
    BY <2>1
       DEF Client!ValkeyInv, Client!TypeOK, Client!GivenNow, Client!ValkeyKept,
           Client!ClientFresh, Client!Given
<1>2. /\ client # None => client.epoch = epoch /\ lock \notin Changes
      /\ \A c \in Calls : began[c] <= epoch
  BY DEF Client!ValkeyInv, Client!ClientMade
<1>3. \A c \in Calls : (pc'[c] = "done" /\ got'[c] # None) =>
          /\ began'[c] = began[c]
          /\ \/ pc[c] = "done" /\ got'[c] = got[c]
             \/ got'[c] = client /\ client' = client /\ epoch' = epoch
  BY AnswerIs
<1>4. ASSUME NEW c \in Calls, pc'[c] = "done", got'[c] # None
      PROVE  /\ got'[c].epoch <= epoch' /\ got'[c].epoch >= began'[c]
             /\ got'[c].epoch = epoch' => client' = got'[c] \/ lock' \in Changes
  <2>1. CASE pc[c] = "done" /\ got'[c] = got[c]
    BY <1>1, <1>3, <1>4, <2>1, ClientMoves
  <2>2. CASE got'[c] = client /\ client' = client /\ epoch' = epoch
    BY <1>1, <1>2, <1>3, <1>4, <2>2
  <2> QED  BY <1>3, <1>4, <2>1, <2>2
<1>5. ASSUME NEW c \in Calls, NEW d \in Calls, pc'[c] = "done", got'[c] # None,
             pc'[d] = "done", got'[d] # None, got'[c].epoch = got'[d].epoch
      PROVE  got'[c] = got'[d]
  <2>1. /\ \/ pc[c] = "done" /\ got'[c] = got[c]
           \/ got'[c] = client
        /\ \/ pc[d] = "done" /\ got'[d] = got[d]
           \/ got'[d] = client
    BY <1>3, <1>5
  <2> QED  BY <1>1, <1>2, <1>5, <2>1
<1>6. (lock' = None /\ client' # None /\ factory' # None) =>
         (client'.source = factory' \/ (client'.source = "environment" /\ epoch' \in barren'))
  BY DEF Client!ClientMade, Client!Sourced
<1> QED  BY <1>4, <1>5, <1>6 DEF Client!GivenNow, Client!ClientFresh, Client!Given

LEMMA LatchStep ==
    ASSUME StoreAssumption, Client!ValkeyInv, [Client!Next]_(Client!vars)
    PROVE  Client!NotLatched'
<1>1. /\ lock \in Calls \cup Changes \cup {None} /\ None \notin Calls \cup Changes
      /\ lock \in Calls => ~ resolved
      /\ \A c \in Calls : /\ pc[c] \in Client!Making \cup {"flag"} => lock = c
                          /\ pc[c] = "flag" => client = got[c] /\ got[c] # None
      /\ \A x \in Changes : pc[x] = "flag" => lock = x
      /\ (resolved /\ client = None /\ lock = None) => env # "redis"
  BY DEF Client!ValkeyInv, Client!TypeOK, Client!LockKept, Client!ClientMade,
         StoreAssumption, Client!ValkeyAssumption, Client!ValkeyKept, Client!NotLatched
<1> USE DEF Client!cache, Client!history, Client!NotLatched, Client!Making
<1>2. CASE Client!Tick \/ UNCHANGED Client!vars
           \/ \E c \in Calls : Client!Look(c) \/ Client!Take(c) \/ Client!Cool(c)
  BY <1>1, <1>2 DEF Client!Tick, Client!vars, Client!Look, Client!Take, Client!Cool
<1>3. CASE \E c \in Calls : Client!Acquire(c)
  BY <1>1, <1>3 DEF Client!Acquire
<1>4. CASE \E c \in Calls : Client!AskFactory(c) \/ Client!Ping(c) \/ Client!Publish(c)
  BY <1>1, <1>4 DEF Client!AskFactory, Client!Ping, Client!Publish
<1>5. CASE \E c \in Calls : Client!NoStore(c)
  BY <1>1, <1>5 DEF Client!NoStore
<1>6. CASE \E c \in Calls : Client!PingFails(c)
  BY <1>1, <1>6 DEF Client!PingFails
<1>7. CASE \E c \in Calls : Client!Flag(c)
  BY <1>1, <1>7 DEF Client!Flag
<1>8. CASE \E x \in Changes : Client!Drop(x) \/ Client!Change(x)
  BY <1>1, <1>8 DEF Client!Drop, Client!Change
<1> QED  BY <1>2, <1>3, <1>4, <1>5, <1>6, <1>7, <1>8 DEF Client!Next

LEMMA FlagStep ==
    ASSUME StoreAssumption, Client!ValkeyInv, [Client!Next]_(Client!vars)
    PROVE  Client!FlagStands'
<1>1. /\ pc \in [Calls \cup Changes -> Client!Steps] /\ Calls \cap Changes = {}
      /\ lock \in Calls \cup Changes \cup {None} /\ None \notin Changes
      /\ lock \in Calls => ~ resolved
      /\ \A c \in Calls : /\ pc[c] \in Client!Making \cup {"flag"} => lock = c
                          /\ (pc[c] = "take" /\ c \notin crossed) => resolved /\ lock \notin Changes
  BY DEF Client!ValkeyInv, Client!TypeOK, Client!LockKept, Client!FlagStands,
         StoreAssumption, Client!ValkeyAssumption
<1> USE DEF Client!cache, Client!history, Client!Go, Client!Steps, Client!FlagStands,
            Client!Making
<1>2. CASE Client!Tick \/ UNCHANGED Client!vars
  BY <1>1, <1>2 DEF Client!Tick, Client!vars
<1>3. CASE \E c \in Calls : Client!Look(c)
  BY <1>1, <1>3 DEF Client!Look
<1>4. CASE \E c \in Calls : Client!Take(c) \/ Client!Cool(c)
  BY <1>1, <1>4 DEF Client!Take, Client!Cool, Client!Return
<1>5. CASE \E c \in Calls : Client!Acquire(c)
  BY <1>1, <1>5 DEF Client!Acquire, Client!Return
<1>6. CASE \E c \in Calls : Client!AskFactory(c) \/ Client!Ping(c) \/ Client!Publish(c)
  BY <1>1, <1>6 DEF Client!AskFactory, Client!Made, Client!Ping, Client!Publish
<1>7. CASE \E c \in Calls : Client!NoStore(c) \/ Client!PingFails(c) \/ Client!Flag(c)
  BY <1>1, <1>7 DEF Client!NoStore, Client!PingFails, Client!Flag, Client!Return
<1>8. CASE \E x \in Changes : Client!Drop(x) \/ Client!Change(x)
  <2>1. Client!Underway = {c \in Calls : pc[c] \notin {"new", "done"}}
    BY DEF Client!Underway
  <2>2. crossed' = crossed \cup Client!Underway /\ \A c \in Calls : pc'[c] = pc[c]
    BY <1>1, <1>8 DEF Client!Drop, Client!Change
  <2> QED  BY <2>1, <2>2
<1> QED  BY <1>2, <1>3, <1>4, <1>5, <1>6, <1>7, <1>8 DEF Client!Next

LEMMA StoreTypes ==
    ASSUME StoreAssumption, Client!ValkeyInv
    PROVE  /\ now \in Nat /\ Cooldown \in Nat \ {0} /\ retryAfter \in Nat /\ None \notin Nat
           /\ failedAt # None => failedAt \in Nat
           /\ lock \in Calls \cup Changes \cup {None} /\ Calls \cap Changes = {}
           /\ None \notin Calls
<1>1. /\ now \in 0..Horizon /\ retryAfter \in 0..(Horizon + Cooldown)
      /\ failedAt \in 0..Horizon \cup {None} /\ Horizon \in Nat /\ Cooldown \in Nat \ {0}
  BY DEF Client!ValkeyInv, Client!TypeOK, StoreAssumption, Client!ValkeyAssumption
<1>2. None \notin Nat
  BY DEF StoreAssumption, Client!NoneAssumption
<1>3. /\ lock \in Calls \cup Changes \cup {None} /\ Calls \cap Changes = {}
      /\ None \notin Calls
  BY DEF Client!ValkeyInv, Client!TypeOK, StoreAssumption, Client!ValkeyAssumption
<1>4. now \in Nat /\ retryAfter \in Nat /\ (failedAt # None => failedAt \in Nat)
  BY <1>1
<1> QED  BY <1>1, <1>2, <1>3, <1>4

LEMMA CooldownStep ==
    ASSUME StoreAssumption, Client!ValkeyInv, [Client!Next]_(Client!vars)
    PROVE  Client!CooldownKept'
<1>1. /\ now \in Nat /\ Cooldown \in Nat \ {0} /\ retryAfter \in Nat /\ None \notin Nat
      /\ failedAt # None => failedAt \in Nat
      /\ lock \in Calls \cup Changes \cup {None} /\ Calls \cap Changes = {}
      /\ None \notin Calls
  BY StoreTypes
<1>2. /\ \A c \in Calls : pc[c] \in Client!Making \cup {"flag"} => lock = c
      /\ \A x \in Changes : pc[x] = "flag" => lock = x
      /\ lock \in Calls => ~ resolved
  BY DEF Client!ValkeyInv, Client!LockKept
<1>3. /\ retryAfter # 0 => failedAt # None /\ retryAfter <= failedAt + Cooldown
      /\ Client!Recent(failedAt) => retryAfter = failedAt + Cooldown /\ lock \notin Calls
      /\ failedAt # None => failedAt <= now
  BY DEF Client!ValkeyInv, Client!CooldownKept
<1> USE DEF Client!cache, Client!history, Client!Making
<1>4. CASE Client!Tick
  BY <1>1, <1>3, <1>4 DEF Client!Tick, Client!CooldownKept, Client!Recent
<1>5. CASE UNCHANGED <<now, retryAfter, failedAt, lock>>
  BY <1>3, <1>5 DEF Client!CooldownKept, Client!Recent
<1>6. CASE \E c \in Calls : Client!Acquire(c)
  <2>1. PICK c \in Calls : Client!Acquire(c)
    BY <1>6
  <2>2. /\ UNCHANGED <<now, retryAfter, failedAt>> /\ lock' \in {lock, c}
        /\ lock' # lock => ~ Client!Cooling
    BY <2>1 DEF Client!Acquire
  <2>3. Client!Recent(failedAt) => Client!Cooling
    BY <1>1, <1>3 DEF Client!Recent, Client!Cooling
  <2> QED  BY <1>3, <2>2, <2>3 DEF Client!CooldownKept, Client!Recent
<1>7. CASE \E c \in Calls : Client!NoStore(c)
  BY <1>1, <1>3, <1>7 DEF Client!NoStore, Client!CooldownKept, Client!Recent
<1>8. CASE \E c \in Calls : Client!PingFails(c)
  <2>1. retryAfter' = now + Cooldown /\ failedAt' = now /\ now' = now /\ lock' = None
    BY <1>8 DEF Client!PingFails
  <2> QED  BY <1>1, <2>1 DEF Client!CooldownKept, Client!Recent
<1>9. CASE \E c \in Calls : Client!Flag(c)
  <2>1. retryAfter' = 0 /\ failedAt' = failedAt /\ now' = now /\ lock' = None /\ lock \in Calls
    BY <1>2, <1>9 DEF Client!Flag
  <2> QED  BY <1>1, <1>3, <2>1 DEF Client!CooldownKept, Client!Recent
<1>10. CASE \E x \in Changes : Client!Drop(x)
  <2>1. UNCHANGED <<retryAfter, failedAt, now>> /\ lock' \in Changes
    BY <1>10 DEF Client!Drop
  <2> QED  BY <1>1, <1>3, <2>1 DEF Client!CooldownKept, Client!Recent
<1>11. CASE \E x \in Changes : Client!Change(x)
  <2>1. /\ now' = now /\ lock' = None
        /\ UNCHANGED <<retryAfter, failedAt>> \/ (retryAfter' = 0 /\ failedAt' = None)
    BY <1>11 DEF Client!Change
  <2> QED  BY <1>1, <1>3, <2>1 DEF Client!CooldownKept, Client!Recent
<1> QED
  BY <1>4, <1>5, <1>6, <1>7, <1>8, <1>9, <1>10, <1>11
     DEF Client!Next, Client!vars, Client!Look, Client!Take, Client!Cool, Client!AskFactory,
         Client!Ping, Client!Publish

\* Nobody asks the store while a ping that failed still counts, for whoever is about to ask
\* holds the lock.
LEMMA SpacedStep ==
    ASSUME StoreAssumption, Client!ValkeyInv, [Client!Next]_(Client!vars)
    PROVE  Client!PingsSpaced'
<1>1. /\ \A c \in Calls : pc[c] = "environment" => lock = c
      /\ Client!Recent(failedAt) => lock \notin Calls
      /\ ~ hurried
  BY DEF Client!ValkeyInv, Client!LockKept, Client!Making, Client!CooldownKept,
         Client!ValkeyKept, Client!PingsSpaced
<1>2. CASE hurried' = hurried
  BY <1>1, <1>2 DEF Client!PingsSpaced
<1>3. CASE \E c \in Calls : Client!Ping(c) \/ Client!PingFails(c)
  <2>1. hurried' = (hurried \/ Client!Recent(failedAt)) /\ lock \in Calls
    BY <1>1, <1>3 DEF Client!Ping, Client!PingFails
  <2> QED  BY <1>1, <2>1 DEF Client!PingsSpaced
<1> QED
  BY <1>2, <1>3
     DEF Client!Next, Client!vars, Client!cache, Client!history, Client!Tick, Client!Look,
         Client!Take, Client!Cool, Client!Acquire, Client!AskFactory, Client!NoStore,
         Client!Publish, Client!Flag, Client!Drop, Client!Change

LEMMA BlindStep ==
    ASSUME StoreAssumption, Client!ValkeyInv, [Client!Next]_(Client!vars)
    PROVE  Client!NoneExplained'
<1>1. /\ lock \in Calls \cup Changes \cup {None}
      /\ lock \in Calls => ~ resolved
      /\ (resolved /\ client = None /\ lock = None) => env # "redis"
      /\ \A c \in Calls : /\ pc[c] = "flag" => got[c] # None
                          /\ (pc[c] = "take" /\ c \notin crossed) =>
                                resolved /\ lock \notin Changes
      /\ blind \subseteq crossed
  BY DEF Client!ValkeyInv, Client!TypeOK, Client!LockKept, Client!ClientMade,
         Client!ValkeyKept, Client!NotLatched, Client!FlagStands, Client!NoneExplained
<1>2. Client!Cooling => Client!Recent(failedAt)
  BY StoreTypes DEF Client!ValkeyInv, Client!CooldownKept, Client!Cooling, Client!Recent
<1>3. crossed \subseteq crossed'
  BY DEF Client!Next, Client!vars, Client!cache, Client!history, Client!Tick, Client!Look,
         Client!Take, Client!Cool, Client!Acquire, Client!AskFactory, Client!NoStore,
         Client!Ping, Client!PingFails, Client!Publish, Client!Flag, Client!Drop,
         Client!Change
<1> USE DEF Client!cache, Client!history, Client!NoneExplained
<1>4. CASE blind' = blind
  BY <1>1, <1>3, <1>4
<1>5. ASSUME NEW c \in Calls, NEW reply, Client!Return(c, reply), blind' # blind
      PROVE  /\ reply = None /\ env = "redis" /\ ~ Client!Recent(failedAt')
             /\ blind' = blind \cup {c}
  BY <1>5 DEF Client!Return
<1>6. ASSUME NEW c \in Calls, Client!Take(c) PROVE Client!NoneExplained'
  <2>1. CASE blind' # blind
    <3>1. client = None /\ env = "redis" /\ blind' = blind \cup {c} /\ pc[c] = "take"
      BY <1>5, <1>6, <2>1 DEF Client!Take
    <3>2. c \in crossed
      BY <1>1, <3>1
    <3> QED  BY <1>1, <1>3, <3>1, <3>2
  <2> QED  BY <1>4, <2>1
<1>7. ASSUME NEW c \in Calls, Client!Cool(c) PROVE Client!NoneExplained'
  <2>1. CASE Client!Cooling
    <3>1. Client!Return(c, None) /\ failedAt' = failedAt
      BY <1>7, <2>1 DEF Client!Cool
    <3> QED  BY <1>2, <1>4, <1>5, <2>1, <3>1
  <2>2. CASE ~ Client!Cooling
    BY <1>4, <1>7, <2>2 DEF Client!Cool
  <2> QED  BY <2>1, <2>2
<1>8. ASSUME NEW c \in Calls, Client!Acquire(c) PROVE Client!NoneExplained'
  <2>1. CASE resolved
    <3>1. Client!Return(c, client) /\ lock = None
      BY <1>8, <2>1 DEF Client!Acquire
    <3> QED  BY <1>1, <1>4, <1>5, <2>1, <3>1
  <2>2. CASE ~ resolved /\ Client!Cooling
    <3>1. Client!Return(c, None) /\ failedAt' = failedAt
      BY <1>8, <2>2 DEF Client!Acquire
    <3> QED  BY <1>2, <1>4, <1>5, <2>2, <3>1
  <2>3. CASE ~ (resolved \/ Client!Cooling)
    BY <1>4, <1>8, <2>3 DEF Client!Acquire
  <2> QED  BY <2>1, <2>2, <2>3
<1>9. ASSUME NEW c \in Calls, Client!NoStore(c) PROVE Client!NoneExplained'
  BY <1>4, <1>5, <1>9 DEF Client!NoStore
<1>10. ASSUME NEW c \in Calls, Client!PingFails(c) PROVE Client!NoneExplained'
  <2>1. Client!Return(c, None) /\ failedAt' = now
    BY <1>10 DEF Client!PingFails
  <2>2. Client!Recent(failedAt')
    <3>1. now \in Nat /\ Cooldown \in Nat \ {0} /\ None \notin Nat
      BY StoreTypes
    <3> QED  BY <2>1, <3>1 DEF Client!Recent
  <2> QED  BY <1>4, <1>5, <2>1, <2>2
<1>11. ASSUME NEW c \in Calls, Client!Flag(c) PROVE Client!NoneExplained'
  BY <1>1, <1>4, <1>5, <1>11 DEF Client!Flag
<1> QED
  BY <1>4, <1>6, <1>7, <1>8, <1>9, <1>10, <1>11
     DEF Client!Next, Client!vars, Client!Tick, Client!Look, Client!AskFactory, Client!Ping,
         Client!Publish, Client!Drop, Client!Change

LEMMA ValkeyInit == ASSUME StoreAssumption, Client!Init PROVE Client!ValkeyInv
<1> USE DEF Client!Init
<1>1. Horizon \in Nat /\ Cooldown \in Nat \ {0} /\ None \notin Calls \cup Changes
  BY DEF StoreAssumption, Client!ValkeyAssumption
<1>2. Client!TypeOK
  <2>1. 0 \in 0..Horizon /\ 0 \in 0..(Horizon + Cooldown)
    BY <1>1
  <2>2. resolved \in BOOLEAN /\ hurried \in BOOLEAN
    BY Zenon
  <2>3. /\ pc \in [Calls \cup Changes -> Client!Steps]
        /\ got \in [Calls -> Client!Clients \cup {None}]
        /\ began \in [Calls -> Nat]
    BY DEF Client!Steps
  <2> QED  BY <2>1, <2>2, <2>3 DEF Client!TypeOK
<1>3. \A c \in Calls \cup Changes : pc[c] = "new"
  OBVIOUS
<1>4. Client!ValkeyKept
  BY <1>3
     DEF Client!ValkeyKept, Client!NoneExplained, Client!NotLatched, Client!ClientFresh,
         Client!PingsSpaced, Client!Given
<1>5. Client!LockKept /\ Client!ClientMade /\ Client!GivenNow /\ Client!FlagStands
  BY <1>1, <1>3
     DEF Client!LockKept, Client!ClientMade, Client!GivenNow, Client!FlagStands,
         Client!Given, Client!Making
<1>6. Client!CooldownKept
  BY DEF Client!CooldownKept, Client!Recent
<1> QED  BY <1>2, <1>4, <1>5, <1>6 DEF Client!ValkeyInv

\* What get_valkey (_valkey.py) promises: no call is without a client but for a reason of the
\* present, no failure is remembered for good, one fresh client for all, and one ping in a
\* cooldown.
THEOREM ValkeyKeptHolds == ASSUME StoreAssumption PROVE Client!Spec => []Client!ValkeyKept
<1>1. Client!Init => Client!ValkeyInv
  BY ValkeyInit
<1>2. Client!ValkeyInv /\ [Client!Next]_(Client!vars) => Client!ValkeyInv'
  BY ValkeyTypeStep, StoreLockStep, MadeStep, GivenStep, LatchStep, FlagStep, CooldownStep,
     SpacedStep, BlindStep DEF Client!ValkeyInv, Client!ValkeyKept
<1>3. Client!ValkeyInv => Client!ValkeyKept
  BY DEF Client!ValkeyInv
<1> QED  BY <1>1, <1>2, <1>3, PTL DEF Client!Spec
-----------------------------------------------------------------------------
(* The counts of telemetry.  Whoever holds the lock stops the transmitter  *)
(* there is, and makes one where there is none; only who posts has taken a *)
(* window of events.                                                       *)

\* Telemetry counts sets as the theorems of the library do.
LEMMA CounterSets ==
    ASSUME NEW S
    PROVE  /\ Counter!Cardinality(S) = Cardinality(S)
           /\ (Counter!IsFiniteSet(S) <=> IsFiniteSet(S))
BY DEF Counter!Cardinality, Cardinality, Counter!IsFiniteSet, IsFiniteSet

TelemetryAssumption == /\ Counter!ControlsAssumption /\ Counter!BoundAssumption
                       /\ Counter!NoneAssumption

Holders(e) == {p \in Counter!Posters : e \in taken[p]}
Ones == {x \in Transmitters : stop[x] # None}
Enabled == {c \in Controls : KindOf[c] = "enable" /\ pc[c] = "done"}

\* Sets of posters are finite.
LEMMA PosterSets ==
    ASSUME TelemetryAssumption, NEW S, S \subseteq Counter!Posters
    PROVE  /\ Counter!IsFiniteSet(S) /\ Counter!Cardinality(S) \in Nat
           /\ (Counter!Cardinality(S) = 0 <=> S = {})
<1>1. Counter!IsFiniteSet(Counter!Posters)
    BY FS_Union, CounterSets
       DEF Counter!Posters, TelemetryAssumption, Counter!ControlsAssumption
<1>2. Counter!IsFiniteSet(S)
    BY <1>1, FS_Subset, CounterSets
<1> QED
    BY <1>2, FS_CardinalityType, FS_EmptySet, CounterSets

\* An event is in as many places as the sum of the places says.
LEMMA PlacesOf ==
    ASSUME TelemetryAssumption, Counter!TypeOK, NEW e \in Events
    PROVE  /\ Counter!IsFiniteSet(Holders(e)) /\ Counter!Cardinality(Holders(e)) \in Nat
           /\ posted[e] \in Nat
           /\ Counter!Cardinality(Holders(e)) = 0 <=> Holders(e) = {}
           /\ Counter!Places(e)
                  = (IF e \in window THEN 1 ELSE 0) + Counter!Cardinality(Holders(e))
                            + posted[e] + (IF e \in dropped THEN 1 ELSE 0)
<1>1. Holders(e) \subseteq Counter!Posters
    BY DEF Holders
<1>2. /\ Counter!IsFiniteSet(Holders(e)) /\ Counter!Cardinality(Holders(e)) \in Nat
      /\ Counter!Cardinality(Holders(e)) = 0 <=> Holders(e) = {}
    BY <1>1, PosterSets
<1>3. posted[e] \in Nat
    BY DEF Counter!TypeOK
<1> QED
    BY <1>2, <1>3 DEF Counter!Places, Holders

\* An event stays counted once if nothing counts and nothing is sent.
LEMMA CountedSame ==
    ASSUME Counter!CountedOnce, UNCHANGED Counter!counts,
           \A e \in Events : e_pc'[e] = "counted" <=> e_pc[e] = "counted"
    PROVE  Counter!CountedOnce'
<1>1. window' = window /\ taken' = taken /\ posted' = posted /\ dropped' = dropped
    BY DEF Counter!counts
<1>2. \A e : Counter!Places(e)' = Counter!Places(e)
    BY <1>1 DEF Counter!Places
<1> QED
    BY <1>2 DEF Counter!CountedOnce

\* Counting an event puts it in one place.
LEMMA CountedCount ==
    ASSUME TelemetryAssumption, Counter!TypeOK, Counter!CountedOnce, NEW c \in Events,
           Counter!Count(c)
    PROVE  Counter!CountedOnce'
<1> SUFFICES ASSUME NEW e \in Events
             PROVE  Counter!Places(e)' = IF e_pc'[e] = "counted" THEN 1 ELSE 0
    BY DEF Counter!CountedOnce
<1>1. /\ e_pc[c] = "counting" /\ e_pc' = [e_pc EXCEPT ![c] = "counted"]
      /\ window' = window \cup {c} /\ taken' = taken /\ posted' = posted /\ dropped' = dropped
    BY DEF Counter!Count
<1>2. Counter!Places(e) = IF e_pc[e] = "counted" THEN 1 ELSE 0
    BY DEF Counter!CountedOnce
<1>3. Counter!Places(e)' = (IF e \in window' THEN 1 ELSE 0) + Counter!Cardinality(Holders(e))
                    + posted[e] + (IF e \in dropped THEN 1 ELSE 0)
    BY <1>1 DEF Counter!Places, Holders
<1>4. CASE e # c
    <2>1. (e \in window' <=> e \in window) /\ e_pc'[e] = e_pc[e]
        BY <1>1, <1>4 DEF Counter!TypeOK
    <2> QED
        BY <1>2, <1>3, <2>1, PlacesOf
<1>5. CASE e = c
    <2>1. e \in window' /\ e_pc'[e] = "counted" /\ Counter!Places(e) = 0
        BY <1>1, <1>2, <1>5 DEF Counter!TypeOK
    <2> QED
        BY <1>3, <2>1, PlacesOf
<1> QED
    BY <1>4, <1>5

\* Taking the window moves its events from it to one poster.
LEMMA CountedTake ==
    ASSUME TelemetryAssumption, Counter!TypeOK, Counter!CountedOnce,
           NEW p \in Counter!Posters, taken[p] = {}, Counter!Take(p),
           e_pc' = e_pc
    PROVE  Counter!CountedOnce'
<1> SUFFICES ASSUME NEW e \in Events PROVE Counter!Places(e)' = Counter!Places(e)
    BY DEF Counter!CountedOnce
<1>1. /\ taken' = [taken EXCEPT ![p] = window] /\ window' = {}
      /\ posted' = posted /\ dropped' = dropped
    BY DEF Counter!Take
<1>2. /\ taken'[p] = window /\ \A q \in Counter!Posters \ {p} : taken'[q] = taken[q]
    BY <1>1 DEF Counter!TypeOK
<1>3. Counter!Places(e)' = (IF e \in window' THEN 1 ELSE 0) + Counter!Cardinality(Holders(e)')
                    + posted[e] + (IF e \in dropped THEN 1 ELSE 0)
    BY <1>1 DEF Counter!Places, Holders
<1>4. CASE e \in window
    <2>1. Holders(e)' = Holders(e) \cup {p} /\ p \notin Holders(e)
        BY <1>2, <1>4 DEF Holders
    <2>2. Counter!Cardinality(Holders(e)') = Counter!Cardinality(Holders(e)) + 1
        BY <2>1, PlacesOf, FS_AddElement, CounterSets
    <2>3. e \notin window'
        BY <1>1
    <2> QED
        BY <1>3, <1>4, <2>2, <2>3, PlacesOf
<1>5. CASE e \notin window
    <2>1. Holders(e)' = Holders(e)
        BY <1>2, <1>5 DEF Holders
    <2>2. e \notin window'
        BY <1>1
    <2> QED
        BY <1>3, <1>5, <2>1, <2>2, PlacesOf
<1> QED
    BY <1>4, <1>5

\* A post moves the poster's events to the server, or drops them.
LEMMA CountedPost ==
    ASSUME TelemetryAssumption, Counter!TypeOK, Counter!CountedOnce,
           NEW p \in Counter!Posters, Counter!Post(p), e_pc' = e_pc
    PROVE  Counter!CountedOnce'
<1> SUFFICES ASSUME NEW e \in Events PROVE Counter!Places(e)' = Counter!Places(e)
    BY DEF Counter!CountedOnce
<1>1. /\ taken' = [taken EXCEPT ![p] = {}] /\ window' = window
      /\ \/ posted' = [f \in Events |-> posted[f] + IF f \in taken[p] THEN 1 ELSE 0]
            /\ dropped' = dropped
         \/ dropped' = dropped \cup taken[p] /\ posted' = posted
    BY DEF Counter!Post
<1>2. /\ taken'[p] = {} /\ \A q \in Counter!Posters \ {p} : taken'[q] = taken[q]
    BY <1>1 DEF Counter!TypeOK
<1>3. Counter!Places(e)' = (IF e \in window THEN 1 ELSE 0) + Counter!Cardinality(Holders(e)')
                    + posted'[e] + (IF e \in dropped' THEN 1 ELSE 0)
    BY <1>1 DEF Counter!Places, Holders
<1>4. CASE e \in taken[p]
    <2>1. Holders(e)' = Holders(e) \ {p} /\ p \in Holders(e)
        BY <1>2, <1>4 DEF Holders
    <2>2. Counter!Cardinality(Holders(e)') = Counter!Cardinality(Holders(e)) - 1
        BY <2>1, PlacesOf, FS_RemoveElement, CounterSets
    <2>3. Counter!Places(e) <= 1
        BY DEF Counter!CountedOnce
    <2>4. e \notin dropped
        BY <2>1, <2>3, PlacesOf
    <2>5. \/ posted'[e] = posted[e] + 1 /\ dropped' = dropped
          \/ posted'[e] = posted[e] /\ e \in dropped'
        BY <1>1, <1>4
    <2> QED
        BY <1>3, <2>2, <2>4, <2>5, PlacesOf
<1>5. CASE e \notin taken[p]
    <2>1. Holders(e)' = Holders(e)
        BY <1>2, <1>5 DEF Holders
    <2>2. posted[e] \in Nat
        BY PlacesOf
    <2>3. posted'[e] = posted[e] /\ (e \in dropped' <=> e \in dropped)
        BY <1>1, <1>5, <2>2
    <2> QED
        BY <1>3, <2>1, <2>3, PlacesOf
<1> QED
    BY <1>4, <1>5

\* One operator for what the steps are, and what each leaves alone.
EventStep(e) == Counter!Record(e) \/ Counter!Count(e)
ThreadStep(x) == Counter!Flush(x) \/ Counter!Posted(x) \/ Counter!Stopped(x)
ControlStep(c) ==
    \/ Counter!Flag(c) \/ Counter!Acquire(c) \/ Counter!LastFlush(c)
    \/ Counter!LastPost(c) \/ Counter!Join(c) \/ Counter!Make(c)

\* There is a transmitter left to make.
LEMMA MadeOne ==
    ASSUME TelemetryAssumption, Counter!TypeOK, Counter!Made, NEW c \in Controls,
           KindOf[c] = "enable",
           pc[c] = "make"
    PROVE  LET x == CHOOSE y \in Transmitters : stop[y] = None
           IN  x \in Transmitters /\ stop[x] = None
<1> DEFINE E == {d \in Controls : KindOf[d] = "enable"}
<1>1. /\ E \subseteq Counter!Posters /\ Enabled \subseteq E /\ Ones \subseteq Transmitters
      /\ Transmitters \subseteq Counter!Posters /\ Enabled \subseteq E \ {c} /\ c \in E
    BY DEF Enabled, Ones, Counter!Posters
<1>2. /\ Counter!IsFiniteSet(E) /\ Counter!Cardinality(E) \in Nat
      /\ Counter!Cardinality(E \ {c}) = Counter!Cardinality(E) - 1
    BY <1>1, PosterSets, FS_RemoveElement, CounterSets
<1>3. /\ Counter!Cardinality(Enabled) <= Counter!Cardinality(E \ {c})
      /\ Counter!Cardinality(Enabled) \in Nat
    <2>1. Counter!IsFiniteSet(E \ {c})
        BY <1>1, PosterSets
    <2> QED
        BY <1>1, <2>1, FS_Subset, FS_CardinalityType, CounterSets
<1>4. Counter!Cardinality(Ones) = Counter!Cardinality(Enabled)
    BY DEF Counter!Made, Ones, Enabled
<1>5. /\ Counter!Cardinality(Transmitters) >= Counter!Cardinality(E)
      /\ Counter!Cardinality(Transmitters) \in Nat
    BY <1>1, PosterSets DEF TelemetryAssumption, Counter!ControlsAssumption
<1>6. Ones # Transmitters
    BY <1>2, <1>3, <1>4, <1>5
<1>7. \E y \in Transmitters : stop[y] = None
    BY <1>1, <1>6 DEF Ones
<1> QED
    BY <1>7

\* A step keeps the types.
LEMMA TelemetryTypeStep ==
    ASSUME TelemetryAssumption, Counter!TelemetryInv, [Counter!Next]_(Counter!vars)
    PROVE  Counter!TypeOK'
<1> USE DEF Counter!TelemetryInv
<1>0. /\ Transmitters \subseteq Counter!Posters /\ Controls \subseteq Counter!Posters
      /\ MaxFlushes \in Nat
    BY DEF Counter!Posters, TelemetryAssumption, Counter!BoundAssumption
<1>1. ASSUME NEW e \in Events, EventStep(e) PROVE Counter!TypeOK'
    BY <1>1
       DEF EventStep, Counter!Record, Counter!Count, Counter!TypeOK, Counter!control,
           Counter!counts
<1>2. ASSUME NEW p \in Counter!Posters, Counter!Take(p)
      PROVE  /\ taken' \in [Counter!Posters -> SUBSET Events] /\ posted' \in [Events -> Nat]
             /\ window' \subseteq Events /\ dropped' \subseteq Events
    BY <1>2 DEF Counter!Take, Counter!TypeOK
<1>3. ASSUME NEW p \in Counter!Posters, Counter!Post(p)
      PROVE  /\ taken' \in [Counter!Posters -> SUBSET Events] /\ posted' \in [Events -> Nat]
             /\ window' \subseteq Events /\ dropped' \subseteq Events
    <2>1. taken' \in [Counter!Posters -> SUBSET Events] /\ window' = window
        BY <1>3 DEF Counter!Post, Counter!TypeOK
    <2>2. taken[p] \subseteq Events
        BY DEF Counter!TypeOK
    <2>3. dropped' \subseteq Events
        BY <1>3, <2>2 DEF Counter!Post, Counter!TypeOK
    <2>4. posted' \in [Events -> Nat]
        BY <1>3 DEF Counter!Post, Counter!TypeOK
    <2> QED
        BY <2>1, <2>3, <2>4 DEF Counter!TypeOK
<1>4. ASSUME NEW x \in Transmitters, ThreadStep(x) PROVE Counter!TypeOK'
    <2>1. /\ UNCHANGED <<Counter!control, e_pc>>
          /\ w_pc' \in [Transmitters -> {"new", "wait", "post", "ended"}]
        BY <1>4 DEF ThreadStep, Counter!Flush, Counter!Posted, Counter!Stopped, Counter!TypeOK
    <2>2. flushes' \in 0..MaxFlushes
        <3>1. flushes' = flushes \/ (flushes < MaxFlushes /\ flushes' = flushes + 1)
            BY <1>4 DEF ThreadStep, Counter!Flush, Counter!Posted, Counter!Stopped
        <3> QED
            BY <1>0, <3>1 DEF Counter!TypeOK
    <2>3. Counter!Take(x) \/ Counter!Post(x) \/ UNCHANGED Counter!counts
        BY <1>4 DEF ThreadStep, Counter!Flush, Counter!Posted, Counter!Stopped
    <2>4. /\ taken' \in [Counter!Posters -> SUBSET Events] /\ posted' \in [Events -> Nat]
          /\ window' \subseteq Events /\ dropped' \subseteq Events
        BY <1>0, <1>2, <1>3, <2>3 DEF Counter!counts, Counter!TypeOK
    <2> QED
        BY <2>1, <2>2, <2>4 DEF Counter!TypeOK, Counter!control
<1>5. ASSUME NEW c \in Controls, ControlStep(c) PROVE Counter!TypeOK'
    <2>1. UNCHANGED <<e_pc, flushes>>
        BY <1>5
           DEF ControlStep, Counter!Flag, Counter!Acquire, Counter!LastFlush,
               Counter!LastPost, Counter!Join, Counter!Make
    <2>2. pc' \in [Controls -> {"new", "lock", "flush", "post", "join", "make", "done"}]
        BY <1>5
           DEF ControlStep, Counter!Flag, Counter!Acquire, Counter!LastFlush,
               Counter!LastPost, Counter!Join, Counter!Make, Counter!Go, Counter!TypeOK
    <2>3. Counter!Take(c) \/ Counter!Post(c) \/ UNCHANGED Counter!counts
        BY <1>5
           DEF ControlStep, Counter!Flag, Counter!Acquire, Counter!LastFlush,
               Counter!LastPost, Counter!Join, Counter!Make
    <2>4. /\ taken' \in [Counter!Posters -> SUBSET Events] /\ posted' \in [Events -> Nat]
          /\ window' \subseteq Events /\ dropped' \subseteq Events
        BY <1>0, <1>2, <1>3, <2>3 DEF Counter!counts, Counter!TypeOK
    <2>5. /\ disabled' \in BOOLEAN /\ last' \in Controls \cup {None}
          /\ overlapped' \subseteq Controls
        BY <1>5
           DEF ControlStep, Counter!Flag, Counter!Acquire, Counter!LastFlush,
               Counter!LastPost, Counter!Join, Counter!Make, Counter!TypeOK
    <2>6. lock' \in Controls \cup {None}
        BY <1>5
           DEF ControlStep, Counter!Flag, Counter!Acquire, Counter!LastFlush,
               Counter!LastPost, Counter!Join, Counter!Make, Counter!TypeOK
    <2>7. /\ tx' \in Transmitters \cup {None} /\ stop' \in [Transmitters -> BOOLEAN \cup {None}]
          /\ w_pc' \in [Transmitters -> {"new", "wait", "post", "ended"}]
        <3>1. CASE Counter!Make(c)
            <4>1. CASE KindOf[c] = "enable"
                <5>1. PICK x \in Transmitters : /\ stop' = [stop EXCEPT ![x] = FALSE] /\ tx' = x
                                                /\ w_pc' = [w_pc EXCEPT ![x] = "wait"]
                    BY <3>1, <4>1, MadeOne DEF Counter!Make
                <5> QED
                    BY <5>1 DEF Counter!TypeOK
            <4>2. CASE KindOf[c] # "enable"
                BY <3>1, <4>2 DEF Counter!Make, Counter!TypeOK
            <4> QED
                BY <4>1, <4>2
        <3>2. CASE ~ Counter!Make(c)
            BY <1>5, <3>2
               DEF ControlStep, Counter!Flag, Counter!Acquire, Counter!LastFlush,
                   Counter!LastPost, Counter!Join, Counter!TypeOK
        <3> QED
            BY <3>1, <3>2
    <2> QED
        BY <2>1, <2>2, <2>4, <2>5, <2>6, <2>7 DEF Counter!TypeOK
<1>6. CASE UNCHANGED Counter!vars
    BY <1>6 DEF Counter!vars, Counter!control, Counter!counts, Counter!TypeOK
<1> QED
    BY <1>1, <1>4, <1>5, <1>6 DEF Counter!Next, EventStep, ThreadStep, ControlStep

\* Every step keeps each event counted once.
LEMMA CountedStep ==
    ASSUME TelemetryAssumption, Counter!TelemetryInv, [Counter!Next]_(Counter!vars)
    PROVE  Counter!CountedOnce'
<1> USE DEF Counter!TelemetryInv
<1>1. ASSUME NEW e \in Events, Counter!Record(e) PROVE Counter!CountedOnce'
    <2>1. /\ UNCHANGED Counter!counts /\ e_pc[e] = "new"
          /\ e_pc' = [e_pc EXCEPT ![e] = IF disabled THEN "ignored" ELSE "counting"]
        BY <1>1 DEF Counter!Record
    <2>2. \A f \in Events : e_pc'[f] = "counted" <=> e_pc[f] = "counted"
        BY <2>1 DEF Counter!TypeOK
    <2> QED
        BY <2>1, <2>2, CountedSame
<1>2. ASSUME NEW e \in Events, Counter!Count(e) PROVE Counter!CountedOnce'
    BY <1>2, CountedCount
<1>3. ASSUME NEW x \in Transmitters, ThreadStep(x) PROVE Counter!CountedOnce'
    <2>1. x \in Counter!Posters /\ x \notin Controls
        BY DEF Counter!Posters, TelemetryAssumption, Counter!ControlsAssumption
    <2>2. CASE Counter!Flush(x)
        <3>1. taken[x] = {} /\ Counter!Take(x) /\ e_pc' = e_pc
            BY <2>2 DEF Counter!Flush, Counter!Posting
        <3> QED
            BY <2>1, <3>1, CountedTake
    <2>3. CASE Counter!Posted(x)
        <3>1. Counter!Post(x) /\ e_pc' = e_pc
            BY <2>3 DEF Counter!Posted
        <3> QED
            BY <2>1, <3>1, CountedPost
    <2>4. CASE Counter!Stopped(x)
        <3>1. UNCHANGED Counter!counts /\ e_pc' = e_pc
            BY <2>4 DEF Counter!Stopped
        <3> QED
            BY <3>1, CountedSame
    <2> QED
        BY <1>3, <2>2, <2>3, <2>4 DEF ThreadStep
<1>4. ASSUME NEW c \in Controls, ControlStep(c) PROVE Counter!CountedOnce'
    <2>1. c \in Counter!Posters /\ e_pc' = e_pc
        BY <1>4
           DEF Counter!Posters, ControlStep, Counter!Flag, Counter!Acquire,
               Counter!LastFlush, Counter!LastPost, Counter!Join, Counter!Make
    <2>2. CASE Counter!LastFlush(c)
        <3>1. taken[c] = {} /\ Counter!Take(c)
            BY <2>2 DEF Counter!LastFlush, Counter!Posting
        <3> QED
            BY <2>1, <3>1, CountedTake
    <2>3. CASE Counter!LastPost(c)
        <3>1. Counter!Post(c)
            BY <2>3 DEF Counter!LastPost
        <3> QED
            BY <2>1, <3>1, CountedPost
    <2>4. CASE ~ Counter!LastFlush(c) /\ ~ Counter!LastPost(c)
        <3>1. UNCHANGED Counter!counts
            BY <1>4, <2>4
               DEF ControlStep, Counter!Flag, Counter!Acquire, Counter!Join, Counter!Make
        <3> QED
            BY <2>1, <3>1, CountedSame
    <2> QED
        BY <2>2, <2>3, <2>4
<1>5. CASE UNCHANGED Counter!vars
    <2>1. UNCHANGED Counter!counts /\ e_pc' = e_pc
        BY <1>5 DEF Counter!vars
    <2> QED
        BY <2>1, CountedSame
<1> QED
    BY <1>1, <1>2, <1>3, <1>4, <1>5 DEF Counter!Next, ThreadStep, ControlStep

\* Only who posts has taken a window, and a thread does nothing before it is made.
LEMMA PostingStep ==
    ASSUME TelemetryAssumption, Counter!TelemetryInv, [Counter!Next]_(Counter!vars)
    PROVE  Counter!Posting'
<1> USE DEF Counter!TelemetryInv
<1>0. /\ \A p \in Transmitters : p \in Counter!Posters /\ p \notin Controls
      /\ \A p \in Controls : p \in Counter!Posters /\ p \notin Transmitters
      /\ taken \in [Counter!Posters -> SUBSET Events]
    BY DEF Counter!Posters, TelemetryAssumption, Counter!ControlsAssumption, Counter!TypeOK
<1>1. CASE taken' = taken /\ w_pc' = w_pc /\ pc' = pc /\ stop' = stop
    BY <1>1 DEF Counter!Posting
<1>2. ASSUME NEW x \in Transmitters, ThreadStep(x) PROVE Counter!Posting'
    <2>1. /\ pc' = pc /\ \A y \in Transmitters \ {x} : w_pc'[y] = w_pc[y]
          /\ \A p \in Counter!Posters \ {x} : taken'[p] = taken[p]
        BY <1>0, <1>2
           DEF ThreadStep, Counter!Flush, Counter!Posted, Counter!Stopped, Counter!Take,
               Counter!Post, Counter!control, Counter!counts, Counter!TypeOK
    <2>2. taken'[x] # {} => w_pc'[x] = "post"
        <3>1. CASE Counter!Flush(x)
            BY <3>1 DEF Counter!Flush, Counter!TypeOK
        <3>2. CASE Counter!Posted(x)
            BY <1>0, <3>2 DEF Counter!Posted, Counter!Post
        <3>3. CASE Counter!Stopped(x)
            BY <3>3 DEF Counter!Stopped, Counter!counts, Counter!Posting
        <3> QED
            BY <1>2, <3>1, <3>2, <3>3 DEF ThreadStep
    <2>3. stop' = stop /\ w_pc[x] # "new"
        BY <1>2 DEF ThreadStep, Counter!Flush, Counter!Posted, Counter!Stopped, Counter!control
    <2>4. \A y \in Transmitters : stop'[y] = None => w_pc'[y] = "new"
        BY <2>1, <2>3 DEF Counter!Posting
    <2> QED
        BY <1>0, <2>1, <2>2, <2>4 DEF Counter!Posting
<1>3. ASSUME NEW c \in Controls, ControlStep(c) PROVE Counter!Posting'
    <2>1. /\ \A d \in Controls \ {c} : pc'[d] = pc[d]
          /\ \A p \in Counter!Posters \ {c} : taken'[p] = taken[p]
        BY <1>0, <1>3
           DEF ControlStep, Counter!Flag, Counter!Acquire, Counter!LastFlush,
               Counter!LastPost, Counter!Join, Counter!Make, Counter!Go, Counter!Take,
               Counter!Post, Counter!counts, Counter!TypeOK
    <2>2. taken'[c] # {} => pc'[c] = "post"
        <3>1. CASE Counter!LastFlush(c)
            BY <3>1 DEF Counter!LastFlush, Counter!Go, Counter!TypeOK
        <3>2. CASE Counter!LastPost(c)
            BY <1>0, <3>2 DEF Counter!LastPost, Counter!Post
        <3>3. CASE ~ Counter!LastFlush(c) /\ ~ Counter!LastPost(c)
            <4>1. taken' = taken /\ pc[c] # "post"
                BY <1>3, <3>3
                   DEF ControlStep, Counter!Flag, Counter!Acquire, Counter!Join,
                       Counter!Make, Counter!counts
            <4> QED
                BY <4>1 DEF Counter!Posting
        <3> QED
            BY <3>1, <3>2, <3>3
    <2>3. ASSUME NEW y \in Transmitters, taken'[y] # {} PROVE w_pc'[y] = "post"
        <3>1. taken[y] # {} /\ w_pc[y] = "post"
            BY <1>0, <2>1, <2>3 DEF Counter!Posting
        <3>2. CASE w_pc' = w_pc
            BY <3>1, <3>2
        <3>3. CASE Counter!Make(c) /\ KindOf[c] = "enable"
            <4>1. PICK x \in Transmitters : stop[x] = None /\ w_pc' = [w_pc EXCEPT ![x] = "wait"]
                BY <3>3, MadeOne DEF Counter!Make
            <4>2. w_pc[x] = "new"
                BY <4>1 DEF Counter!Posting
            <4> QED
                BY <3>1, <4>1, <4>2 DEF Counter!TypeOK
        <3> QED
            BY <1>3, <3>2, <3>3
               DEF ControlStep, Counter!Flag, Counter!Acquire, Counter!LastFlush,
                   Counter!LastPost, Counter!Join, Counter!Make
    <2>4. \A y \in Transmitters : stop'[y] = None => w_pc'[y] = "new"
        <3>1. CASE stop' = stop /\ w_pc' = w_pc
            BY <3>1 DEF Counter!Posting
        <3>2. CASE Counter!Acquire(c) /\ tx # None
            <4>1. stop' = [stop EXCEPT ![tx] = TRUE] /\ w_pc' = w_pc
                BY <3>2 DEF Counter!Acquire
            <4>2. TRUE # None
                BY DEF TelemetryAssumption, Counter!NoneAssumption
            <4> QED
                BY <4>1, <4>2 DEF Counter!Posting, Counter!TypeOK
        <3>3. CASE Counter!Make(c) /\ KindOf[c] = "enable"
            <4>1. PICK x \in Transmitters : stop' = [stop EXCEPT ![x] = FALSE]
                                            /\ w_pc' = [w_pc EXCEPT ![x] = "wait"]
                BY <3>3, MadeOne DEF Counter!Make
            <4>2. FALSE # None
                BY DEF TelemetryAssumption, Counter!NoneAssumption
            <4> QED
                BY <4>1, <4>2 DEF Counter!Posting, Counter!TypeOK
        <3> QED
            BY <1>3, <3>1, <3>2, <3>3
               DEF ControlStep, Counter!Flag, Counter!Acquire, Counter!LastFlush,
                   Counter!LastPost, Counter!Join, Counter!Make
    <2> QED
        BY <1>0, <2>1, <2>2, <2>3, <2>4 DEF Counter!Posting
<1> QED
    BY <1>1, <1>2, <1>3
       DEF Counter!Next, ThreadStep, ControlStep, Counter!Record, Counter!Count,
           Counter!vars, Counter!counts, Counter!control
\* The lock, and what its holder does to the transmitter.
LEMMA HoldingStep ==
    ASSUME TelemetryAssumption, Counter!TelemetryInv, [Counter!Next]_(Counter!vars)
    PROVE  Counter!Holding' /\ Counter!NoneLeft'
<1> USE DEF Counter!TelemetryInv
<1>0. None \notin Controls /\ None \notin Transmitters /\ None # TRUE /\ None # FALSE
    BY DEF TelemetryAssumption, Counter!NoneAssumption
<1>1. CASE UNCHANGED <<pc, lock, tx, stop>>
    BY <1>1 DEF Counter!Holding, Counter!NoneLeft
<1>2. ASSUME NEW c \in Controls, ControlStep(c) PROVE Counter!Holding' /\ Counter!NoneLeft'
    <2>1. \A d \in Controls \ {c} : pc'[d] = pc[d]
        BY <1>2
           DEF ControlStep, Counter!Flag, Counter!Acquire, Counter!LastFlush,
               Counter!LastPost, Counter!Join, Counter!Make, Counter!Go, Counter!TypeOK
    <2>2. CASE Counter!Flag(c) \/ Counter!LastFlush(c) \/ Counter!LastPost(c)
        <3>1. /\ UNCHANGED <<tx, lock, stop>>
              /\ \/ pc[c] = "new" /\ pc'[c] = "lock"
                 \/ pc[c] = "flush" /\ pc'[c] = "post"
                 \/ pc[c] = "post" /\ pc'[c] = "join"
            BY <2>2
               DEF Counter!Flag, Counter!LastFlush, Counter!LastPost, Counter!Go,
                   Counter!TypeOK
        <3> QED
            BY <2>1, <3>1 DEF Counter!Holding, Counter!NoneLeft
    <2>3. CASE Counter!Acquire(c)
        <3>1. /\ pc[c] = "lock" /\ lock = None /\ lock' = c /\ tx' = tx
              /\ IF tx = None THEN pc'[c] = "make" /\ stop' = stop
                 ELSE stop' = [stop EXCEPT ![tx] = TRUE] /\ pc'[c] = "flush"
            BY <2>3 DEF Counter!Acquire, Counter!Go, Counter!TypeOK
        <3>2. \A d \in Controls : pc[d] \notin {"flush", "post", "join", "make"}
            BY <1>0, <3>1 DEF Counter!Holding
        <3>3. tx # None => tx \in Transmitters /\ stop'[tx] = TRUE
                            /\ \A x \in Transmitters \ {tx} : stop'[x] = stop[x]
            BY <3>1 DEF Counter!TypeOK
        <3>4. Counter!Holding'
            BY <1>0, <2>1, <3>1, <3>2, <3>3 DEF Counter!Holding
        <3>5. Counter!NoneLeft'
            BY <3>1, <3>3 DEF Counter!NoneLeft
        <3> QED
            BY <3>4, <3>5
    <2>4. CASE Counter!Join(c)
        <3>1. /\ pc[c] = "join" /\ pc'[c] = "make" /\ tx' = None /\ lock' = lock /\ stop' = stop
            BY <2>4 DEF Counter!Join, Counter!Go, Counter!TypeOK
        <3>2. lock = c /\ tx # None /\ stop[tx] = TRUE
            BY <3>1 DEF Counter!Holding
        <3>3. \A d \in Controls \ {c} : pc[d] \notin {"flush", "post", "join", "make"}
            BY <3>2 DEF Counter!Holding
        <3>4. Counter!Holding'
            BY <2>1, <3>1, <3>2, <3>3 DEF Counter!Holding
        <3>5. Counter!NoneLeft'
            BY <3>1, <3>2 DEF Counter!NoneLeft
        <3> QED
            BY <3>4, <3>5
    <2>5. CASE Counter!Make(c)
        <3>1. pc[c] = "make" /\ pc'[c] = "done" /\ lock' = None
            BY <2>5 DEF Counter!Make, Counter!Go, Counter!TypeOK
        <3>2. lock = c /\ tx = None
            BY <3>1 DEF Counter!Holding
        <3>3. \A d \in Controls \ {c} : pc[d] \notin {"flush", "post", "join", "make"}
            BY <3>2 DEF Counter!Holding
        <3>4. (tx' # None => stop'[tx'] # None) => Counter!Holding'
            BY <1>0, <2>1, <3>1, <3>3 DEF Counter!Holding
        <3>5. \A x \in Transmitters : stop[x] # FALSE
            BY <1>0, <3>2 DEF Counter!NoneLeft
        <3>6. CASE KindOf[c] = "enable"
            <4>1. PICK x \in Transmitters : stop' = [stop EXCEPT ![x] = FALSE] /\ tx' = x
                BY <2>5, <3>1, <3>6, MadeOne DEF Counter!Make
            <4>2. Counter!NoneLeft' /\ stop'[tx'] # None
                BY <1>0, <3>5, <4>1 DEF Counter!NoneLeft, Counter!TypeOK
            <4> QED
                BY <3>4, <4>2
        <3>7. CASE KindOf[c] # "enable"
            BY <2>5, <3>2, <3>4, <3>7 DEF Counter!Make, Counter!NoneLeft
        <3> QED
            BY <3>6, <3>7
    <2> QED
        BY <1>2, <2>2, <2>3, <2>4, <2>5 DEF ControlStep
<1> QED
    BY <1>1, <1>2
       DEF Counter!Next, ControlStep, Counter!Record, Counter!Count, Counter!Flush,
           Counter!Posted, Counter!Stopped, Counter!vars, Counter!control

\* As many transmitters were made as controls that enable are done.
LEMMA TransmittersStep ==
    ASSUME TelemetryAssumption, Counter!TelemetryInv, [Counter!Next]_(Counter!vars)
    PROVE  Counter!Made'
<1> USE DEF Counter!TelemetryInv
<1>0. None # TRUE /\ None # FALSE
    BY DEF TelemetryAssumption, Counter!NoneAssumption
<1>s. SUFFICES Counter!Cardinality(Ones') = Counter!Cardinality(Enabled')
    BY DEF Counter!Made, Ones, Enabled
<1>t. /\ Counter!Cardinality(Ones) = Counter!Cardinality(Enabled)
      /\ Counter!IsFiniteSet(Ones) /\ Counter!IsFiniteSet(Enabled)
    <2>1. Ones \subseteq Counter!Posters /\ Enabled \subseteq Counter!Posters
        BY DEF Ones, Enabled, Counter!Posters
    <2> QED
        BY <2>1, PosterSets DEF Counter!Made, Ones, Enabled
<1>1. CASE UNCHANGED <<pc, stop>>
    BY <1>1, <1>t DEF Ones, Enabled
<1>2. ASSUME NEW c \in Controls, ControlStep(c)
      PROVE  Counter!Cardinality(Ones') = Counter!Cardinality(Enabled')
    <2>1. \A d \in Controls \ {c} : pc'[d] = pc[d]
        BY <1>2
           DEF ControlStep, Counter!Flag, Counter!Acquire, Counter!LastFlush,
               Counter!LastPost, Counter!Join, Counter!Make, Counter!Go, Counter!TypeOK
    <2>2. CASE ~ Counter!Make(c)
        <3>1. pc[c] # "done" /\ pc'[c] # "done"
            BY <1>2, <2>2
               DEF ControlStep, Counter!Flag, Counter!Acquire, Counter!LastFlush,
                   Counter!LastPost, Counter!Join, Counter!Go, Counter!TypeOK
        <3>2. Enabled' = Enabled
            BY <2>1, <3>1 DEF Enabled
        <3>3. Ones' = Ones
            <4>1. CASE stop' = stop
                BY <4>1 DEF Ones
            <4>2. CASE Counter!Acquire(c) /\ tx # None
                <5>1. tx \in Transmitters /\ stop' = [stop EXCEPT ![tx] = TRUE]
                    BY <4>2 DEF Counter!Acquire, Counter!TypeOK
                <5>2. stop[tx] # None
                    BY <4>2 DEF Counter!Holding
                <5> QED
                    BY <1>0, <5>1, <5>2 DEF Ones, Counter!TypeOK
            <4> QED
                BY <1>2, <2>2, <4>1, <4>2
                   DEF ControlStep, Counter!Flag, Counter!Acquire, Counter!LastFlush,
                       Counter!LastPost, Counter!Join
        <3> QED
            BY <1>t, <3>2, <3>3
    <2>3. CASE Counter!Make(c)
        <3>1. pc[c] = "make" /\ pc'[c] = "done"
            BY <2>3 DEF Counter!Make, Counter!Go, Counter!TypeOK
        <3>2. CASE KindOf[c] = "enable"
            <4>1. PICK x \in Transmitters : stop[x] = None /\ stop' = [stop EXCEPT ![x] = FALSE]
                BY <2>3, <3>1, <3>2, MadeOne DEF Counter!Make
            <4>2. Ones' = Ones \cup {x} /\ x \notin Ones
                BY <1>0, <4>1 DEF Ones, Counter!TypeOK
            <4>3. Enabled' = Enabled \cup {c} /\ c \notin Enabled
                BY <2>1, <3>1, <3>2 DEF Enabled
            <4>4. /\ Counter!Cardinality(Ones') = Counter!Cardinality(Ones) + 1
                  /\ Counter!Cardinality(Enabled') = Counter!Cardinality(Enabled) + 1
                BY <1>t, <4>2, <4>3, FS_AddElement, CounterSets
            <4> QED
                BY <1>t, <4>4
        <3>3. CASE KindOf[c] # "enable"
            <4>1. Ones' = Ones
                BY <2>3, <3>3 DEF Counter!Make, Ones
            <4>2. Enabled' = Enabled
                BY <2>1, <3>3 DEF Enabled
            <4> QED
                BY <1>t, <4>1, <4>2
        <3> QED
            BY <3>2, <3>3
    <2> QED
        BY <2>2, <2>3
<1> QED
    BY <1>1, <1>2
       DEF Counter!Next, ControlStep, Counter!Record, Counter!Count, Counter!Flush,
           Counter!Posted, Counter!Stopped, Counter!vars, Counter!control

\* A control that set the flag last and met no other one is alone since.
LEMMA LastStep ==
    ASSUME TelemetryAssumption, Counter!TelemetryInv, [Counter!Next]_(Counter!vars)
    PROVE  Counter!LastAlone'
<1> USE DEF Counter!TelemetryInv
<1>0. None \notin Controls /\ None \notin Transmitters
    BY DEF TelemetryAssumption, Counter!NoneAssumption
<1>1. CASE UNCHANGED <<pc, last, overlapped, disabled, tx>>
    BY <1>1 DEF Counter!LastAlone, Counter!Busy
<1>2. ASSUME NEW c \in Controls, ControlStep(c) PROVE Counter!LastAlone'
    <2>1. \A d \in Controls \ {c} : pc'[d] = pc[d]
        BY <1>2
           DEF ControlStep, Counter!Flag, Counter!Acquire, Counter!LastFlush,
               Counter!LastPost, Counter!Join, Counter!Make, Counter!Go, Counter!TypeOK
    <2>2. CASE Counter!Flag(c)
        <3>1. /\ last' = c /\ pc'[c] = "lock"
              /\ (\E d \in Controls \ {c} : Counter!Busy(d)) => c \in overlapped'
            BY <2>2 DEF Counter!Flag, Counter!Go, Counter!TypeOK
        <3>2. disabled' = (KindOf[c] = "disable")
            BY <2>2 DEF Counter!Flag
        <3>3. c \notin overlapped' => \A d \in Controls \ {c} : ~ Counter!Busy(d)'
            BY <2>1, <3>1 DEF Counter!Busy
        <3> QED
            BY <3>1, <3>2, <3>3 DEF Counter!LastAlone
    <2>3. CASE ~ Counter!Flag(c)
        <3>1. UNCHANGED <<last, overlapped, disabled>> /\ Counter!Busy(c) /\ pc'[c] # "new"
            BY <1>2, <2>3
               DEF ControlStep, Counter!Acquire, Counter!LastFlush, Counter!LastPost,
                   Counter!Join, Counter!Make, Counter!Go, Counter!Busy, Counter!TypeOK
        <3>2. CASE last = None
            BY <3>1, <3>2 DEF Counter!LastAlone
        <3>3. CASE last # None /\ last # c
            <4>1. last \in overlapped /\ last \in Controls
                BY <3>1, <3>3 DEF Counter!LastAlone, Counter!TypeOK
            <4>2. pc'[last] = pc[last]
                BY <2>1, <3>3, <4>1
            <4> QED
                BY <3>1, <4>1, <4>2 DEF Counter!LastAlone
        <3>4. CASE last = c
            <4>1. disabled' = (KindOf[last'] = "disable") /\ pc'[last'] # "new"
                BY <1>0, <3>1, <3>4 DEF Counter!LastAlone
            <4>2. last' \notin overlapped' => \A d \in Controls \ {last'} : ~ Counter!Busy(d)'
                BY <1>0, <2>1, <3>1, <3>4 DEF Counter!LastAlone, Counter!Busy
            <4>3. pc'[c] = "done" => ((tx' # None) <=> (KindOf[c] = "enable"))
                <5>1. SUFFICES ASSUME Counter!Make(c)
                               PROVE  (tx' # None) <=> (KindOf[c] = "enable")
                    BY <1>2, <2>3
                       DEF ControlStep, Counter!Acquire, Counter!LastFlush,
                           Counter!LastPost, Counter!Join, Counter!Go, Counter!TypeOK
                <5>2. pc[c] = "make" /\ tx = None
                    BY <5>1 DEF Counter!Make, Counter!Holding
                <5>3. CASE KindOf[c] = "enable"
                    <6>1. PICK x \in Transmitters : tx' = x
                        BY <5>1, <5>2, <5>3, MadeOne DEF Counter!Make
                    <6> QED
                        BY <1>0, <5>3, <6>1
                <5>4. CASE KindOf[c] # "enable"
                    BY <5>1, <5>2, <5>4 DEF Counter!Make
                <5> QED
                    BY <5>3, <5>4
            <4> QED
                BY <3>1, <3>4, <4>1, <4>2, <4>3 DEF Counter!LastAlone
        <3> QED
            BY <3>2, <3>3, <3>4
    <2> QED
        BY <2>2, <2>3
<1> QED
    BY <1>1, <1>2
       DEF Counter!Next, ControlStep, Counter!Record, Counter!Count, Counter!Flush,
           Counter!Posted, Counter!Stopped, Counter!vars, Counter!control

\* Nothing is counted and nobody runs at the beginning.
LEMMA TelemetryInit == ASSUME TelemetryAssumption, Counter!Init PROVE Counter!TelemetryInv
<1>0. MaxFlushes \in Nat /\ None \notin Controls /\ None \notin Transmitters /\ None # FALSE
    BY DEF TelemetryAssumption, Counter!BoundAssumption, Counter!NoneAssumption
<1>1. Counter!TypeOK
    BY <1>0 DEF Counter!Init, Counter!TypeOK
<1>2. Counter!CountedOnce
    <2> SUFFICES ASSUME NEW e \in Events
                 PROVE  Counter!Places(e) = IF e_pc[e] = "counted" THEN 1 ELSE 0
        BY DEF Counter!CountedOnce
    <2>1. Holders(e) = {} /\ e \notin window /\ e \notin dropped /\ posted[e] = 0
          /\ e_pc[e] = "new"
        BY DEF Counter!Init, Holders
    <2> QED
        BY <1>1, <2>1, PlacesOf
<1>3. Counter!NoneLeft /\ Counter!Holding
    BY <1>0 DEF Counter!Init, Counter!NoneLeft, Counter!Holding
<1>4. Counter!Posting
    BY DEF Counter!Init, Counter!Posting, Counter!Posters
<1>5. Counter!Made
    <2>1. Ones = {} /\ Enabled = {}
        BY DEF Counter!Init, Ones, Enabled
    <2> QED
        BY <2>1 DEF Counter!Made, Ones, Enabled
<1>6. Counter!LastAlone
    BY DEF Counter!Init, Counter!LastAlone
<1> QED
    BY <1>1, <1>2, <1>3, <1>4, <1>5, <1>6 DEF Counter!TelemetryInv

\* The invariant gives the property.
LEMMA TelemetryFollows ==
    ASSUME TelemetryAssumption, Counter!TelemetryInv
    PROVE  Counter!TelemetryKept
<1>1. Counter!FlagAgrees
    <2> SUFFICES ASSUME last # None, \A c \in Controls : ~ Counter!Busy(c), last \notin overlapped
                 PROVE  /\ disabled = (KindOf[last] = "disable")
                        /\ (tx # None) = (KindOf[last] = "enable")
        BY DEF Counter!FlagAgrees
    <2>1. last \in Controls /\ pc[last] # "new"
        BY DEF Counter!TelemetryInv, Counter!TypeOK, Counter!LastAlone
    <2>2. pc[last] = "done"
        BY <2>1 DEF Counter!Busy
    <2> QED
        BY <2>2 DEF Counter!TelemetryInv, Counter!LastAlone
<1> QED
    BY <1>1 DEF Counter!TelemetryInv, Counter!TelemetryKept

\* While telemetry is enabled and disabled at will, every event that was counted is counted
\* once or lost with a post, no transmitter is left running, and the last control decides.
THEOREM TelemetryKeptHolds ==
    ASSUME TelemetryAssumption
    PROVE  Counter!Spec => []Counter!TelemetryKept
<1>1. Counter!Init => Counter!TelemetryInv
    BY TelemetryInit
<1>2. Counter!TelemetryInv /\ [Counter!Next]_(Counter!vars) => Counter!TelemetryInv'
    <2> SUFFICES ASSUME Counter!TelemetryInv, [Counter!Next]_(Counter!vars)
                 PROVE  Counter!TelemetryInv'
        OBVIOUS
    <2>1. Counter!TypeOK' /\ Counter!CountedOnce' /\ Counter!Posting'
        BY TelemetryTypeStep, CountedStep, PostingStep
    <2>2. Counter!Holding' /\ Counter!NoneLeft' /\ Counter!Made' /\ Counter!LastAlone'
        BY HoldingStep, TransmittersStep, LastStep
    <2> QED
        BY <2>1, <2>2 DEF Counter!TelemetryInv
<1>3. Counter!TelemetryInv => Counter!TelemetryKept
    BY TelemetryFollows
<1> QED
    BY <1>1, <1>2, <1>3, PTL DEF Counter!Spec
-----------------------------------------------------------------------------
(* A principal's row of trust.  A writer that holds the row, or is alone,  *)
(* writes what it read, with its own signal; the signals are those of the  *)
(* calls that returned.                                                    *)

\* PrincipalTrust counts sets as the theorems of the library do.
LEMMA TrustSets ==
    ASSUME NEW S
    PROVE  Trust!Cardinality(S) = Cardinality(S) /\ (Trust!IsFiniteSet(S) <=> IsFiniteSet(S))
BY DEF Trust!Cardinality, Cardinality, Trust!IsFiniteSet, IsFiniteSet

\* What a call makes of a row is a row.
LEMMA MergedType ==
    ASSUME Trust!TrustAssumption, NEW c \in Calls, NEW seenRow \in Trust!Rows
    PROVE  Trust!Merged(c, seenRow) \in Trust!Rows /\ Trust!Merged(c, seenRow).exists
BY DEF Trust!TrustAssumption, Trust!Merged, Trust!Rows, Trust!Scored

\* The row that is written is a row, with the signals of what was seenRow and of what is new.
LEMMA WrittenType ==
    ASSUME Trust!TrustAssumption, Trust!TypeOK, NEW c \in Calls
    PROVE  /\ Trust!Written(c) \in Trust!Rows /\ Trust!Written(c).exists
           /\ Trust!Written(c).signal = Trust!Merged(c, seen[c]).signal
           /\ row = seen[c] => Trust!Written(c) = Trust!Merged(c, row)
<1> DEFINE new == Trust!Merged(c, seen[c])
<1>1. /\ seen[c] \in Trust!Rows /\ row \in Trust!Rows
  BY DEF Trust!TypeOK
<1>2. new \in Trust!Rows /\ new.exists
  BY <1>1, MergedType
<1> HIDE DEF new
<1>3. CASE Trust!OnPrincipal /\ new.score = seen[c].score
  <2>1. Trust!Written(c) = [new EXCEPT !.score = row.score]
    BY <1>3 DEF Trust!Written, new
  <2> QED
    BY <1>1, <1>2, <1>3, <2>1 DEF Trust!Rows, new
<1>4. CASE ~ (Trust!OnPrincipal /\ new.score = seen[c].score)
  <2>1. Trust!Written(c) = new
    BY <1>4 DEF Trust!Written, new
  <2> QED
    BY <1>2, <2>1 DEF new
<1> QED
  BY <1>3, <1>4

\* A call that has not returned is one more when it does.
LEMMA OneWriteMore ==
    ASSUME NEW S, NEW T, NEW x, Trust!IsFiniteSet(S), x \notin S
    PROVE  /\ Trust!IsFiniteSet(S \cup {x})
           /\ Trust!Cardinality(S \cap T) \in Nat /\ Trust!Cardinality(S \ T) \in Nat
           /\ x \in T => /\ Trust!Cardinality((S \cup {x}) \cap T)
                                = Trust!Cardinality(S \cap T) + 1
                         /\ (S \cup {x}) \ T = S \ T
           /\ x \notin T => /\ Trust!Cardinality((S \cup {x}) \ T) = Trust!Cardinality(S \ T) + 1
                            /\ (S \cup {x}) \cap T = S \cap T
<1>1. Trust!IsFiniteSet(S \cap T) /\ Trust!IsFiniteSet(S \ T)
  BY FS_Subset, TrustSets, S \cap T \subseteq S, S \ T \subseteq S
<1>2. Trust!IsFiniteSet(S \cup {x})
  BY FS_AddElement, TrustSets
<1>3. Trust!Cardinality(S \cap T) \in Nat /\ Trust!Cardinality(S \ T) \in Nat
  BY <1>1, FS_CardinalityType, TrustSets
<1>4. ASSUME x \in T
      PROVE  /\ Trust!Cardinality((S \cup {x}) \cap T) = Trust!Cardinality(S \cap T) + 1
             /\ (S \cup {x}) \ T = S \ T
  <2>1. (S \cup {x}) \cap T = (S \cap T) \cup {x} /\ x \notin S \cap T
    BY <1>4
  <2>2. Trust!Cardinality((S \cap T) \cup {x}) = Trust!Cardinality(S \cap T) + 1
    BY <1>1, <2>1, FS_AddElement, TrustSets
  <2> QED
    BY <1>4, <2>1, <2>2
<1>5. ASSUME x \notin T
      PROVE  /\ Trust!Cardinality((S \cup {x}) \ T) = Trust!Cardinality(S \ T) + 1
             /\ (S \cup {x}) \cap T = S \cap T
  <2>1. (S \cup {x}) \ T = (S \ T) \cup {x} /\ x \notin S \ T
    BY <1>5
  <2>2. Trust!Cardinality((S \ T) \cup {x}) = Trust!Cardinality(S \ T) + 1
    BY <1>1, <2>1, FS_AddElement, TrustSets
  <2> QED
    BY <1>5, <2>1, <2>2
<1> QED
  BY <1>2, <1>3, <1>4, <1>5

\* A call that writes what it made of the row as it is keeps the counts and the score.
LEMMA MergedCounts ==
    ASSUME Trust!TrustAssumption, Trust!TypeOK, Trust!Beginnings, Trust!SignalsCounted,
           Trust!PenaltiesStay,
           NEW c \in Calls, c \notin applied, stale = {}, stale' = {},
           row' = Trust!Merged(c, row), applied' = applied \cup {c}
    PROVE  Trust!SignalsCounted' /\ Trust!PenaltiesStay'
<1> DEFINE n == Trust!Cardinality(applied \cap Trust!Signals)
           t == Trust!Cardinality(applied \ Trust!Signals)
<1>0. /\ n \in Nat /\ t \in Nat
      /\ c \in Trust!Signals
             => /\ Trust!Cardinality((applied \cup {c}) \cap Trust!Signals) = n + 1
                                /\ (applied \cup {c}) \ Trust!Signals = applied \ Trust!Signals
      /\ c \notin Trust!Signals
             => /\ Trust!Cardinality((applied \cup {c}) \ Trust!Signals) = t + 1
                                   /\ (applied \cup {c}) \cap Trust!Signals
                                          = applied \cap Trust!Signals
  <2>1. Trust!IsFiniteSet(applied)
    BY DEF Trust!Beginnings
  <2> QED
    BY <2>1, OneWriteMore
<1>1. /\ n \in Nat /\ t \in Nat
      /\ c \in Trust!Signals => /\ Trust!Cardinality(applied' \cap Trust!Signals) = n + 1
                                /\ Trust!Cardinality(applied' \ Trust!Signals) = t
      /\ c \notin Trust!Signals => /\ Trust!Cardinality(applied' \ Trust!Signals) = t + 1
                                   /\ Trust!Cardinality(applied' \cap Trust!Signals) = n
  BY <1>0
<1>2. /\ row \in Trust!Rows /\ Penalty \in Nat /\ StartingTrust \in Nat /\ MaxTrust \in Nat
      /\ row.score \in 0..MaxTrust /\ row.signal \in Nat
  BY DEF Trust!TypeOK, Trust!TrustAssumption, Trust!Rows
<1>3. /\ row.signal = n
      /\ row.score + Penalty * n <= StartingTrust + t \/ row.score <= t
  BY DEF Trust!SignalsCounted, Trust!PenaltiesStay
<1>4. CASE c \in Trust!Signals
  <2>1. /\ Trust!Cardinality(applied' \cap Trust!Signals) = n + 1
        /\ Trust!Cardinality(applied' \ Trust!Signals) = t
    BY <1>1, <1>4
  <2>2. /\ row'.signal = row.signal + 1
        /\ row'.score = IF row.score > Penalty THEN row.score - Penalty ELSE 0
    BY <1>4 DEF Trust!Merged, Trust!Scored, Trust!Signals
  <2>3. Penalty * (n + 1) = Penalty * n + Penalty /\ Penalty * n \in Nat
    BY <1>1, <1>2
  <2>4. \/ row'.score + Penalty * (n + 1) <= StartingTrust + t
        \/ row'.score <= t
    <3> DEFINE p == Penalty * n
    <3> HIDE DEF p, n, t
    <3> QED
      BY <1>1, <1>2, <1>3, <2>2, <2>3 DEF p
  <2> QED
    BY <1>2, <1>3, <2>1, <2>2, <2>4 DEF Trust!SignalsCounted, Trust!PenaltiesStay
<1>5. CASE c \notin Trust!Signals
  <2>1. /\ Trust!Cardinality(applied' \cap Trust!Signals) = n
        /\ Trust!Cardinality(applied' \ Trust!Signals) = t + 1
    BY <1>1, <1>5
  <2>2. /\ row'.signal = row.signal
        /\ row'.score <= row.score + 1 /\ row'.score \in Nat
    BY <1>2, <1>5 DEF Trust!Merged, Trust!Scored, Trust!Signals, Trust!TrustAssumption
  <2>3. Penalty * n \in Nat
    BY <1>1, <1>2
  <2>4. \/ row'.score + Penalty * n <= StartingTrust + (t + 1)
        \/ row'.score <= t + 1
    <3> DEFINE p == Penalty * n
    <3> HIDE DEF p, n, t
    <3> QED
      BY <1>1, <1>2, <1>3, <2>2, <2>3 DEF p
  <2> QED
    BY <1>2, <1>3, <2>1, <2>2, <2>4 DEF Trust!SignalsCounted, Trust!PenaltiesStay
<1> QED
  BY <1>4, <1>5

\* A step keeps the types, and a call begins from a row of the table.
LEMMA TrustTypeStep ==
    ASSUME Trust!TrustAssumption, Trust!TypeOK, Trust!Beginnings,
           [Trust!Next]_(Trust!vars) PROVE Trust!TypeOK' /\ Trust!Beginnings'
<1> SUFFICES ASSUME Trust!TypeOK, Trust!Beginnings, [Trust!Next]_(Trust!vars)
             PROVE  Trust!TypeOK' /\ Trust!Beginnings'
  OBVIOUS
<1> USE DEF Trust!TypeOK, Trust!Beginnings
<1>1. ASSUME NEW c \in Calls, Trust!Read(c) PROVE Trust!TypeOK' /\ Trust!Beginnings'
  BY <1>1 DEF Trust!Read
<1>2. ASSUME NEW c \in Calls, Trust!ReadFails(c) PROVE Trust!TypeOK' /\ Trust!Beginnings'
  BY <1>2 DEF Trust!ReadFails
<1>3. ASSUME NEW c \in Calls, Trust!SignalDropped(c) PROVE Trust!TypeOK' /\ Trust!Beginnings'
  BY <1>3 DEF Trust!SignalDropped
<1>4. ASSUME NEW c \in Calls, Trust!Commit(c) PROVE Trust!TypeOK' /\ Trust!Beginnings'
  <2>1. row' \in Trust!Rows /\ row'.exists
    BY <1>4, WrittenType DEF Trust!Commit
  <2>2. Trust!IsFiniteSet(applied')
    BY <1>4, FS_AddElement, TrustSets DEF Trust!Commit
  <2> QED
    BY <1>4, <2>1, <2>2 DEF Trust!Commit
<1>5. ASSUME NEW c \in Calls, Trust!CommitFails(c) PROVE Trust!TypeOK' /\ Trust!Beginnings'
  <2>1. /\ attempt[c] \in Nat /\ attempt[c] < Attempts /\ Attempts \in Nat
        /\ attempt' = [attempt EXCEPT ![c] = attempt[c] + 1]
        /\ UNCHANGED <<deployment, row, seen, applied, stale>>
        /\ pc[c] = "read"
        /\ \/ pc' = [pc EXCEPT ![c] = "retry"] /\ attempt[c] + 1 < Attempts
           \/ pc' = [pc EXCEPT ![c] = "raised"]
    <3>1. /\ attempt[c] \in 0..Attempts /\ pc[c] = "read" /\ attempt[c] < Attempts
          /\ Attempts \in Nat
      BY <1>5 DEF Trust!CommitFails, Trust!TrustAssumption
    <3> HIDE DEF Trust!TypeOK, Trust!Beginnings
    <3>2. CASE Trust!OnPrincipal /\ KindOf[c] = "signal" /\ attempt[c] + 1 < Attempts
      BY <1>5, <3>1, <3>2 DEF Trust!CommitFails
    <3>3. CASE ~ (Trust!OnPrincipal /\ KindOf[c] = "signal" /\ attempt[c] + 1 < Attempts)
      <4>1. pc' = [pc EXCEPT ![c] = "raised"]
        BY <1>5, <3>3 DEF Trust!CommitFails
      <4>2. /\ attempt' = [attempt EXCEPT ![c] = attempt[c] + 1]
            /\ UNCHANGED <<deployment, row, seen, applied, stale>>
        BY <1>5 DEF Trust!CommitFails
      <4> QED
        BY <3>1, <4>1, <4>2
    <3> QED
      BY <3>2, <3>3
  <2>2. attempt' \in [Calls -> 0..Attempts]
    BY <2>1
  <2>3. pc' \in [Calls -> {"idle", "read", "retry", "done", "raised"}]
    BY <2>1
  <2> QED
    BY <2>1, <2>2, <2>3
<1>6. ASSUME NEW c \in Calls, Trust!Upsert(c) PROVE Trust!TypeOK' /\ Trust!Beginnings'
  <2>1. row' \in Trust!Rows /\ row'.exists
    BY <1>6, MergedType DEF Trust!Upsert
  <2>2. Trust!IsFiniteSet(applied')
    BY <1>6, FS_AddElement, TrustSets DEF Trust!Upsert
  <2> QED
    BY <1>6, <2>1, <2>2 DEF Trust!Upsert
<1>7. CASE UNCHANGED Trust!vars
  BY <1>7 DEF Trust!vars
<1> QED
  BY <1>1, <1>2, <1>3, <1>4, <1>5, <1>6, <1>7 DEF Trust!Next

\* A write leaves the row of every signal that holds it as that signal seenRow it, and on
\* SQLite the writer is one of those that may overtake (<1>4).
LEMMA TrustLocksStep ==
    ASSUME Trust!TrustAssumption, Trust!TypeOK, Trust!TypeOK', Trust!Beginnings,
           Trust!LocksHold, [Trust!Next]_(Trust!vars)
    PROVE  Trust!LocksHold'
<1>1. ASSUME NEW c \in Calls, Trust!Read(c) PROVE Trust!LocksHold'
  BY <1>1
     DEF Trust!Read, Trust!TypeOK, Trust!LocksHold, Trust!OnPrincipal, Trust!Signals,
         Trust!MayRead, Trust!HoldsRow, Trust!HoldsProcess
<1>2. ASSUME NEW c \in Calls, Trust!ReadFails(c) PROVE Trust!LocksHold'
  BY <1>2 DEF Trust!ReadFails, Trust!TypeOK, Trust!LocksHold, Trust!OnPrincipal, Trust!Signals
<1>3. ASSUME NEW c \in Calls, Trust!SignalDropped(c) PROVE Trust!LocksHold'
  BY <1>3
     DEF Trust!SignalDropped, Trust!TypeOK, Trust!LocksHold, Trust!OnPrincipal,
         Trust!Signals
<1>4. ASSUME NEW c \in Calls, Trust!Commit(c) PROVE Trust!LocksHold'
  <2> SUFFICES ASSUME Trust!OnPrincipal, NEW b \in Trust!Signals
               PROVE
            /\ (pc'[b] = "read" /\ deployment.dialect # "sqlite" /\ seen[b].exists) =>
                    row' = seen[b]
            /\ (pc'[b] \in {"read", "retry"} /\ deployment.dialect = "sqlite") =>
                    \A d \in Trust!Signals \ {b} :
                        pc'[d] \in {"read", "retry"} => ProcessOf[d] # ProcessOf[b]
            /\ (pc'[b] = "read" /\ deployment.dialect = "sqlite" /\ row' # seen[b]) =>
                    \E d \in applied' \ {b} :
                        KindOf[d] = "clean" \/ ProcessOf[d] # ProcessOf[b]
    BY <1>4 DEF Trust!Commit, Trust!LocksHold, Trust!OnPrincipal
  <2>1. /\ pc' = [pc EXCEPT ![c] = "done"] /\ pc[c] = "read" /\ applied' = applied \cup {c}
        /\ ~ Trust!Blocked(c) /\ b \in Calls /\ KindOf[b] = "signal"
    BY <1>4 DEF Trust!Commit, Trust!Signals
  <2>2. ASSUME pc'[b] = "read", deployment.dialect # "sqlite", seen[b].exists
        PROVE  FALSE
    BY <2>1, <2>2 DEF Trust!Blocked, Trust!HoldsRow, Trust!TypeOK
  <2>3. ASSUME pc'[b] \in {"read", "retry"}, deployment.dialect = "sqlite",
               NEW d \in Trust!Signals \ {b}, pc'[d] \in {"read", "retry"}
        PROVE  ProcessOf[d] # ProcessOf[b]
    BY <2>1, <2>3 DEF Trust!LocksHold, Trust!TypeOK, Trust!Signals
  <2>4. ASSUME pc'[b] = "read", deployment.dialect = "sqlite"
        PROVE  c # b /\ (KindOf[c] = "clean" \/ ProcessOf[c] # ProcessOf[b])
    BY <2>1, <2>4 DEF Trust!LocksHold, Trust!TypeOK, Trust!Signals, Trust!TrustAssumption
  <2> QED
    BY <2>1, <2>2, <2>3, <2>4
<1>5. ASSUME NEW c \in Calls, Trust!CommitFails(c) PROVE Trust!LocksHold'
  <2>1. /\ UNCHANGED <<deployment, row, seen, applied>> /\ pc[c] = "read"
        /\ \/ pc' = [pc EXCEPT ![c] = "retry"]
           \/ pc' = [pc EXCEPT ![c] = "raised"]
    BY <1>5 DEF Trust!CommitFails
  <2> QED
    BY <2>1 DEF Trust!TypeOK, Trust!LocksHold, Trust!OnPrincipal, Trust!Signals
<1>6. ASSUME NEW c \in Calls, Trust!Upsert(c) PROVE Trust!LocksHold'
  BY <1>6 DEF Trust!Upsert, Trust!AtomicUpsert, Trust!LocksHold, Trust!OnPrincipal
<1>7. CASE UNCHANGED Trust!vars
  BY <1>7 DEF Trust!vars, Trust!LocksHold, Trust!OnPrincipal, Trust!Signals
<1> QED
  BY <1>1, <1>2, <1>3, <1>4, <1>5, <1>6, <1>7 DEF Trust!Next

\* The write of a signal on a principal over a row that changed since it was seenRow: on
\* PostgreSQL and MySQL the lock rules it out, and an absent row cannot be written twice.
LEMMA ExcludeStep ==
    ASSUME Trust!TrustAssumption, Trust!TypeOK, Trust!Beginnings, Trust!LocksHold,
           Trust!SignalsExclude, [Trust!Next]_(Trust!vars)
    PROVE  Trust!SignalsExclude'
<1>1. ASSUME NEW c \in Calls, Trust!Commit(c) PROVE Trust!SignalsExclude'
  <2> SUFFICES ASSUME Trust!OnPrincipal, NEW b \in stale' \cap Trust!Signals
               PROVE  /\ deployment.dialect = "sqlite"
                      /\ \E d \in applied' \ {b} :
                            KindOf[d] = "clean" \/ ProcessOf[d] # ProcessOf[b]
    BY <1>1 DEF Trust!Commit, Trust!SignalsExclude, Trust!OnPrincipal
  <2>1. CASE b \in stale
    BY <1>1, <2>1 DEF Trust!Commit, Trust!SignalsExclude
  <2>2. CASE b \notin stale
    <3>1. /\ b = c /\ row # seen[c] /\ pc[c] = "read" /\ ~ Trust!Conflicts(c)
          /\ applied' = applied \cup {c}
      BY <1>1, <2>2 DEF Trust!Commit
    <3>2. seen[c].exists
      BY <3>1 DEF Trust!Conflicts, Trust!Beginnings, Trust!TypeOK, Trust!Rows
    <3> QED
      BY <3>1, <3>2 DEF Trust!LocksHold
  <2> QED
    BY <2>1, <2>2
<1>2. ASSUME NEW c \in Calls, Trust!Upsert(c) PROVE Trust!SignalsExclude'
  BY <1>2 DEF Trust!Upsert, Trust!AtomicUpsert, Trust!SignalsExclude, Trust!OnPrincipal
<1>3. ASSUME UNCHANGED <<deployment, applied, stale>> PROVE Trust!SignalsExclude'
  BY <1>3 DEF Trust!SignalsExclude, Trust!OnPrincipal, Trust!Signals
<1> QED
  BY <1>1, <1>2, <1>3
     DEF Trust!Next, Trust!vars, Trust!Read, Trust!ReadFails, Trust!SignalDropped,
         Trust!CommitFails

\* A step keeps the signals counted, and removes no penalty.
LEMMA CountsStep ==
    ASSUME Trust!TrustAssumption, Trust!TypeOK, Trust!Beginnings, Trust!SignalsCounted,
           Trust!PenaltiesStay, [Trust!Next]_(Trust!vars)
    PROVE  Trust!SignalsCounted' /\ Trust!PenaltiesStay'
<1>1. ASSUME NEW c \in Calls, Trust!Commit(c)
      PROVE  Trust!SignalsCounted' /\ Trust!PenaltiesStay'
  <2>1. CASE stale' = {}
    <3>1. row = seen[c] /\ stale = {} /\ c \notin applied
      BY <1>1, <2>1 DEF Trust!Commit, Trust!Beginnings
    <3>2. row' = Trust!Merged(c, row) /\ applied' = applied \cup {c}
      BY <1>1, <3>1, WrittenType DEF Trust!Commit
    <3> QED
      BY <2>1, <3>1, <3>2, MergedCounts
  <2>2. CASE stale' # {}
    BY <2>2 DEF Trust!SignalsCounted, Trust!PenaltiesStay
  <2> QED
    BY <2>1, <2>2
<1>2. ASSUME NEW c \in Calls, Trust!Upsert(c)
      PROVE  Trust!SignalsCounted' /\ Trust!PenaltiesStay'
  <2>1. stale' = stale /\ c \notin applied
    BY <1>2 DEF Trust!Upsert, Trust!Beginnings
  <2>2. CASE stale = {}
    BY <1>2, <2>1, <2>2, MergedCounts DEF Trust!Upsert
  <2>3. CASE stale # {}
    BY <2>1, <2>3 DEF Trust!SignalsCounted, Trust!PenaltiesStay
  <2> QED
    BY <2>2, <2>3
<1>3. ASSUME UNCHANGED <<row, applied, stale>>
      PROVE  Trust!SignalsCounted' /\ Trust!PenaltiesStay'
  BY <1>3 DEF Trust!SignalsCounted, Trust!PenaltiesStay, Trust!Signals
<1> QED
  BY <1>1, <1>2, <1>3
     DEF Trust!Next, Trust!vars, Trust!Read, Trust!ReadFails, Trust!SignalDropped,
         Trust!CommitFails

\* For any number of calls, processes and attempts: signals on a principal do not write
\* over each other where the database or the process locks, every signal that returned is
\* counted once, and no clean tick gives back more than it may.
THEOREM TrustKeptHolds ==
    ASSUME Trust!TrustAssumption
    PROVE  Trust!Spec => [](Trust!TypeOK /\ Trust!TrustKept)
<1>1. Trust!Init => Trust!TrustInv
  <2> SUFFICES ASSUME Trust!Init PROVE Trust!TrustInv
    OBVIOUS
  <2>1. /\ Trust!NoRow \in Trust!Rows /\ Trust!NoRow.signal = 0
        /\ Trust!NoRow.score = StartingTrust /\ ~ Trust!NoRow.exists
    BY DEF Trust!NoRow, Trust!Rows, Trust!TrustAssumption
  <2>2. Trust!TypeOK
    BY <2>1 DEF Trust!Init, Trust!TypeOK, Trust!TrustAssumption
  <2>3. Trust!Beginnings
    BY <2>1, FS_EmptySet, TrustSets DEF Trust!Init, Trust!Beginnings, Trust!TrustAssumption
  <2>4. Trust!LocksHold /\ Trust!SignalsExclude
    BY DEF Trust!Init, Trust!LocksHold, Trust!SignalsExclude, Trust!Signals
  <2>5. Trust!SignalsCounted /\ Trust!PenaltiesStay
    <3>1. /\ applied \cap Trust!Signals = {} /\ applied \ Trust!Signals = {}
          /\ Trust!Cardinality({}) = 0
      BY FS_EmptySet, TrustSets DEF Trust!Init
    <3> QED
      BY <2>1, <3>1
         DEF Trust!Init, Trust!SignalsCounted, Trust!PenaltiesStay, Trust!TrustAssumption
  <2> QED
    BY <2>2, <2>3, <2>4, <2>5 DEF Trust!TrustInv
<1>2. Trust!TrustInv /\ [Trust!Next]_(Trust!vars) => Trust!TrustInv'
  BY TrustTypeStep, TrustLocksStep, ExcludeStep, CountsStep DEF Trust!TrustInv
<1>3. Trust!TrustInv => Trust!TypeOK /\ Trust!TrustKept
  BY DEF Trust!TrustInv, Trust!TrustKept, Trust!NoPenaltyForgiven, Trust!PenaltiesStay
<1> QED
  BY <1>1, <1>2, <1>3, PTL DEF Trust!Spec
=============================================================================
