---------------------------- MODULE FleetProofs ----------------------------
(***************************************************************************)
(* Theorems about Fleet, for every set of identities and clusters, every   *)
(* life time and every bound.                                              *)
(***************************************************************************)
EXTENDS Fleet, TLAPS

\* Tokens are numbered as they are drawn, so what is stored was drawn already.
DrawnTokens ==
  /\ \A i \in AgentIds : agents[i].token <= tokens
  /\ \A c \in credentials : c.token \in 1..tokens
  /\ \A b \in bootstraps : b.token \in 1..tokens

\* A row is never of a later epoch than the one in force.
NoFutureEpoch == \A i \in AgentIds : agents[i].epoch <= epoch

\* The row's generation bounds the generations handed out before it.
GenerationBounds ==
  \A c \in credentials : c.generation <= agents[c.id].generation

\* The row that still stores a credential's token is that credential.
RowIsCredential ==
  \A c \in credentials :
    c.token = agents[c.id].token /\ ~agents[c.id].revoked =>
      c = CredentialOf(c.id, agents[c.id], c.boot)

\* Bootstrap tokens name one row, and a credential's bootstrap is consumed.
ConsumedBootstraps ==
  /\ \A b, d \in bootstraps : b.token = d.token => b = d
  /\ \A c \in credentials :
       c.boot # 0 => \E b \in bootstraps : b.token = c.boot /\ b.consumed

FleetInv ==
  /\ FleetTypeOK
  /\ DrawnTokens
  /\ NoFutureEpoch
  /\ GenerationBounds
  /\ RowIsCredential
  /\ ConsumedBootstraps
  /\ OneCredentialPerGeneration
  /\ BootstrapUsedOnce
  /\ RevocationCoversCredentials

-----------------------------------------------------------------------------
\* A fresh installation satisfies the invariant.
LEMMA FleetInitInv == FleetInit => FleetInv
<1> SUFFICES ASSUME FleetInit PROVE FleetInv
  OBVIOUS
<1>1. NoAgent \in AgentRow
  <2>1. (CHOOSE u \in ClusterUIDs : TRUE) \in ClusterUIDs
    BY FleetAssumption
  <2> QED
    BY <2>1 DEF NoAgent, AgentRow, Roles
<1>2. FleetTypeOK
  BY <1>1 DEF FleetInit, FleetTypeOK
<1>3. NoFutureEpoch /\ DrawnTokens
  BY DEF FleetInit, NoFutureEpoch, DrawnTokens, NoAgent
<1> QED
  BY <1>2, <1>3 DEF FleetInit, FleetInv, GenerationBounds, RowIsCredential, ConsumedBootstraps,
     OneCredentialPerGeneration, BootstrapUsedOnce, RevocationCoversCredentials

\* An administrator's bootstrap adds a fresh unconsumed row.
LEMMA BootstrapKeepsInv ==
  ASSUME FleetInv, NEW i \in AgentIds, NEW uid \in ClusterUIDs, NEW role \in Roles,
         Bootstrap(i, uid, role)
  PROVE  FleetInv'
<1> DEFINE row == [token |-> tokens + 1, id |-> i, role |-> role, uid |-> uid, epoch |-> epoch,
                   expiresAt |-> now + BootstrapTTL, consumed |-> FALSE]
<1>1. /\ tokens' = tokens + 1
      /\ bootstraps' = bootstraps \cup {row}
      /\ UNCHANGED <<now, epoch, agents, revocations, credentials>>
  BY DEF Bootstrap
<1>2. row \in BootstrapRow
  BY FleetAssumption DEF FleetInv, FleetTypeOK, BootstrapRow
<1> HIDE DEF row
<1>3. FleetTypeOK'
  BY <1>1, <1>2 DEF FleetInv, FleetTypeOK
<1>4. row.token = tokens + 1 /\ ~row.consumed
  BY DEF row
<1>5. DrawnTokens'
  <2>1. tokens \in Nat /\ \A b \in bootstraps : b.token \in 1..tokens
    BY DEF FleetInv, FleetTypeOK, DrawnTokens
  <2>2. \A b \in bootstraps' : b.token \in 1..(tokens')
    BY <2>1, <1>1, <1>4
  <2>3. \A j \in AgentIds : agents[j].token \in Nat
    BY DEF FleetInv, FleetTypeOK, AgentRow
  <2>4. \A j \in AgentIds : agents'[j].token <= tokens'
    BY <2>1, <2>3, <1>1 DEF FleetInv, DrawnTokens
  <2>5. \A c \in credentials' : c.token \in 1..(tokens')
    BY <2>1, <1>1 DEF FleetInv, DrawnTokens
  <2> QED
    BY <2>2, <2>4, <2>5 DEF DrawnTokens
<1>6. ConsumedBootstraps'
  <2>1. \A b \in bootstraps : b.token # row.token
    BY <1>4 DEF FleetInv, DrawnTokens, FleetTypeOK
  <2>2. \A b, d \in bootstraps' : b.token = d.token => b = d
    BY <2>1, <1>1 DEF FleetInv, ConsumedBootstraps
  <2> QED
    BY <2>2, <1>1 DEF FleetInv, ConsumedBootstraps
<1> QED
  BY <1>1, <1>3, <1>5, <1>6 DEF FleetInv, NoFutureEpoch, GenerationBounds, RowIsCredential,
     OneCredentialPerGeneration, BootstrapUsedOnce, RevocationCoversCredentials, CredentialOf

\* A step that replaces identity i's row by one with a fresh token and the next
\* generation, and hands that credential out, keeps the parts of the invariant
\* about rows and credentials.  Enroll and Renew are such steps.
LEMMA IssueKeepsRows ==
  ASSUME FleetInv, NEW i \in AgentIds, NEW row \in AgentRow, NEW b \in Nat,
         row.token = tokens + 1, row.generation = agents[i].generation + 1,
         row.epoch <= epoch, ~row.revoked,
         tokens' = tokens + 1,
         agents' = [agents EXCEPT ![i] = row],
         credentials' = credentials \cup {CredentialOf(i, row, b)},
         UNCHANGED <<now, epoch, revocations>>
  PROVE  /\ agents' \in [AgentIds -> AgentRow]
         /\ credentials' \subseteq Credential
         /\ \A j \in AgentIds : agents'[j].token <= tokens'
         /\ \A c \in credentials' : c.token \in 1..(tokens')
         /\ NoFutureEpoch'
         /\ GenerationBounds'
         /\ RowIsCredential'
         /\ OneCredentialPerGeneration'
         /\ RevocationCoversCredentials'
<1> DEFINE new == CredentialOf(i, row, b)
<1>1. new \in Credential
  BY DEF CredentialOf, Credential, AgentRow
<1>2. /\ new.id = i /\ new.token = tokens + 1
      /\ new.generation = agents[i].generation + 1 /\ new.boot = b
  BY DEF CredentialOf
<1>3. /\ tokens \in Nat /\ epoch \in Nat
      /\ agents \in [AgentIds -> AgentRow]
      /\ credentials \subseteq Credential
  BY DEF FleetInv, FleetTypeOK
<1>4. /\ credentials' = credentials \cup {new}
      /\ agents' \in [AgentIds -> AgentRow]
      /\ agents'[i] = row
      /\ \A j \in AgentIds : j # i => agents'[j] = agents[j]
  BY <1>3
<1>5. \A c \in credentials : /\ c.id \in AgentIds /\ c.token \in 1..tokens
                             /\ c.generation \in Nat /\ c.generation <= agents[c.id].generation
  BY <1>3 DEF FleetInv, DrawnTokens, GenerationBounds, Credential
<1>6. agents[i].generation \in Nat /\ \A j \in AgentIds : agents[j].token \in Nat
  BY <1>3 DEF AgentRow
<1>7. new = CredentialOf(i, agents'[i], new.boot)
  BY <1>4, <1>2
<1> HIDE DEF new
<1>8. credentials' \subseteq Credential
  BY <1>1, <1>3, <1>4
<1>9. \A j \in AgentIds : agents'[j].token <= tokens'
  BY <1>3, <1>4, <1>6 DEF FleetInv, DrawnTokens
<1>10. \A c \in credentials' : c.token \in 1..(tokens')
  BY <1>2, <1>3, <1>4, <1>5
<1>11. NoFutureEpoch'
  BY <1>4 DEF FleetInv, NoFutureEpoch
<1>12. GenerationBounds'
  BY <1>2, <1>4, <1>5, <1>6 DEF GenerationBounds
<1>13. RowIsCredential'
  <2> SUFFICES ASSUME NEW c \in credentials',
                      c.token = agents'[c.id].token, ~agents'[c.id].revoked
               PROVE  c = CredentialOf(c.id, agents'[c.id], c.boot)
    BY DEF RowIsCredential
  <2>1. CASE c = new
    BY <2>1, <1>7, <1>2
  <2>2. CASE c # new
    <3>1. c \in credentials /\ c.id # i
      BY <2>2, <1>3, <1>4, <1>5
    <3> QED
      BY <3>1, <1>4, <1>5 DEF FleetInv, RowIsCredential
  <2> QED
    BY <2>1, <2>2
<1>14. OneCredentialPerGeneration'
  <2>1. \A c \in credentials : c.id = i => c.generation # new.generation
    BY <1>2, <1>5, <1>6
  <2> QED
    BY <2>1, <1>2, <1>4 DEF FleetInv, OneCredentialPerGeneration
<1>15. RevocationCoversCredentials'
  BY <1>2, <1>4, <1>5 DEF FleetInv, RevocationCoversCredentials
<1> QED
  BY <1>4, <1>8, <1>9, <1>10, <1>11, <1>12, <1>13, <1>14, <1>15

\* Enrolling consumes the bootstrap and issues a credential for it.
LEMMA EnrollKeepsInv ==
  ASSUME FleetInv, NEW b \in bootstraps, NEW uid \in ClusterUIDs, NEW role \in Roles,
         Enroll(b, uid, role)
  PROVE  FleetInv'
<1> DEFINE row == Upserted(b.id, agents[b.id], b, tokens + 1)
           spent == [b EXCEPT !.consumed = TRUE]
<1>1. /\ ~b.consumed
      /\ tokens' = tokens + 1
      /\ bootstraps' = (bootstraps \ {b}) \cup {spent}
      /\ agents' = [agents EXCEPT ![b.id] = row]
      /\ credentials' = credentials \cup {CredentialOf(b.id, row, b.token)}
      /\ UNCHANGED <<now, epoch, revocations>>
  BY DEF Enroll, Consumable
<1>2. /\ tokens \in Nat /\ epoch \in Nat /\ now \in Nat /\ revocations \subseteq Revocation
      /\ b \in BootstrapRow /\ agents[b.id] \in AgentRow
      /\ bootstraps \subseteq BootstrapRow
  BY DEF FleetInv, FleetTypeOK, BootstrapRow
<1>3. /\ row \in AgentRow /\ row.token = tokens + 1 /\ row.epoch <= epoch
      /\ row.generation = agents[b.id].generation + 1 /\ ~row.revoked
  BY <1>2, FleetAssumption DEF Upserted, AgentRow, BootstrapRow
<1>4. /\ spent \in BootstrapRow /\ spent.token = b.token /\ spent.consumed
  BY <1>2 DEF BootstrapRow
<1>5. b.id \in AgentIds /\ b.token \in Nat /\ b.token # 0
  BY <1>2 DEF BootstrapRow, FleetInv, DrawnTokens
<1>6. CredentialOf(b.id, row, b.token).boot = b.token
  BY DEF CredentialOf
<1> HIDE DEF row, spent
<1>7. /\ agents' \in [AgentIds -> AgentRow]
      /\ credentials' \subseteq Credential
      /\ \A j \in AgentIds : agents'[j].token <= tokens'
      /\ \A c \in credentials' : c.token \in 1..(tokens')
      /\ NoFutureEpoch' /\ GenerationBounds' /\ RowIsCredential'
      /\ OneCredentialPerGeneration' /\ RevocationCoversCredentials'
  BY <1>1, <1>2, <1>3, <1>5, IssueKeepsRows
<1>8. FleetTypeOK'
  BY <1>1, <1>2, <1>4, <1>7 DEF FleetTypeOK
<1>9. DrawnTokens'
  <2>1. \A d \in bootstraps : d.token \in 1..tokens
    BY DEF FleetInv, DrawnTokens
  <2>2. \A d \in bootstraps' : d.token \in 1..(tokens')
    BY <2>1, <1>1, <1>2, <1>4
  <2> QED
    BY <2>2, <1>7 DEF DrawnTokens
<1>10. \A c \in credentials : c.boot # b.token
  BY <1>1, <1>5 DEF FleetInv, ConsumedBootstraps
<1>11. ConsumedBootstraps'
  <2>1. \A d, e \in bootstraps' : d.token = e.token => d = e
    BY <1>1, <1>4 DEF FleetInv, ConsumedBootstraps
  <2>2. ASSUME NEW c \in credentials', c.boot # 0
        PROVE  \E d \in bootstraps' : d.token = c.boot /\ d.consumed
    <3>1. CASE c \in credentials
      <4>1. PICK d \in bootstraps : d.token = c.boot /\ d.consumed
        BY <2>2, <3>1 DEF FleetInv, ConsumedBootstraps
      <4>2. d \in bootstraps'
        BY <4>1, <1>1
      <4> QED
        BY <4>1, <4>2
    <3>2. CASE c \notin credentials
      BY <3>2, <1>1, <1>4, <1>6
    <3> QED
      BY <3>1, <3>2
  <2> QED
    BY <2>1, <2>2 DEF ConsumedBootstraps
<1>12. BootstrapUsedOnce'
  BY <1>1, <1>6, <1>10 DEF FleetInv, BootstrapUsedOnce
<1> QED
  BY <1>7, <1>8, <1>9, <1>11, <1>12 DEF FleetInv

\* Renewing rotates the row of a credential that authenticates.
LEMMA RenewKeepsInv ==
  ASSUME FleetInv, NEW c \in credentials, NEW role \in Roles, Renew(c, role)
  PROVE  FleetInv'
<1> DEFINE row == Rotated(agents[c.id], tokens + 1)
<1>1. /\ ~agents[c.id].revoked
      /\ tokens' = tokens + 1
      /\ agents' = [agents EXCEPT ![c.id] = row]
      /\ credentials' = credentials \cup {CredentialOf(c.id, row, 0)}
      /\ UNCHANGED <<now, epoch, revocations>>
      /\ bootstraps' = bootstraps
  BY DEF Renew, AuthenticateTx
<1>2. /\ tokens \in Nat /\ epoch \in Nat /\ now \in Nat /\ revocations \subseteq Revocation
      /\ c.id \in AgentIds /\ agents[c.id] \in AgentRow
      /\ bootstraps \subseteq BootstrapRow
  BY DEF FleetInv, FleetTypeOK, Credential
<1>3. agents[c.id].epoch <= epoch
  BY <1>2 DEF FleetInv, NoFutureEpoch
<1>4. /\ row \in AgentRow /\ row.token = tokens + 1 /\ row.epoch <= epoch
      /\ row.generation = agents[c.id].generation + 1 /\ ~row.revoked
  <2>1. row \in AgentRow
    <3>1. ASSUME NEW g \in Nat, NEW t \in Nat, NEW x \in Nat
          PROVE  [agents[c.id] EXCEPT !.generation = g, !.token = t, !.expiresAt = x] \in AgentRow
      BY <1>2 DEF AgentRow
    <3>2. agents[c.id].generation + 1 \in Nat /\ tokens + 1 \in Nat /\ now + CredentialTTL \in Nat
      BY <1>2, FleetAssumption DEF AgentRow
    <3> QED
      BY <3>1, <3>2 DEF Rotated
  <2>2. ~row.revoked
    BY <1>1, <1>2 DEF Rotated, AgentRow
  <2>3. row.generation = agents[c.id].generation + 1 /\ row.token = tokens + 1
    BY <1>2 DEF Rotated, AgentRow
  <2>4. row.epoch <= epoch
    BY <1>2, <1>3 DEF Rotated, AgentRow
  <2> QED
    BY <2>1, <2>2, <2>3, <2>4
<1>5. CredentialOf(c.id, row, 0).boot = 0
  BY DEF CredentialOf
<1>6. 0 \in Nat
  OBVIOUS
<1> HIDE DEF row
<1>7. /\ agents' \in [AgentIds -> AgentRow]
      /\ credentials' \subseteq Credential
      /\ \A j \in AgentIds : agents'[j].token <= tokens'
      /\ \A d \in credentials' : d.token \in 1..(tokens')
      /\ NoFutureEpoch' /\ GenerationBounds' /\ RowIsCredential'
      /\ OneCredentialPerGeneration' /\ RevocationCoversCredentials'
  BY <1>1, <1>2, <1>4, <1>6, IssueKeepsRows
<1>8. FleetTypeOK'
  BY <1>1, <1>2, <1>7 DEF FleetTypeOK
<1>9. DrawnTokens'
  <2>1. \A d \in bootstraps : d.token \in 1..tokens
    BY DEF FleetInv, DrawnTokens
  <2>2. \A d \in bootstraps' : d.token \in 1..(tokens')
    BY <2>1, <1>1, <1>2
  <2> QED
    BY <2>2, <1>7 DEF DrawnTokens
<1>10. ConsumedBootstraps' /\ BootstrapUsedOnce'
  BY <1>1, <1>5 DEF FleetInv, ConsumedBootstraps, BootstrapUsedOnce
<1> QED
  BY <1>7, <1>8, <1>9, <1>10 DEF FleetInv

\* Revoking retires the row at the next generation and records the revocation.
LEMMA RevokeKeepsInv ==
  ASSUME FleetInv, NEW i \in AgentIds, Revoke(i)
  PROVE  FleetInv'
<1> DEFINE rec == [id |-> i, epoch |-> agents[i].epoch, through |-> agents[i].generation]
           row == [agents[i] EXCEPT !.revoked = TRUE, !.generation = @ + 1]
<1>1. /\ revocations' = revocations \cup {rec}
      /\ UNCHANGED <<now, epoch, bootstraps, tokens, credentials>>
  BY DEF Revoke, Recorded
<1>2. /\ tokens \in Nat /\ epoch \in Nat /\ now \in Nat /\ revocations \subseteq Revocation
      /\ agents \in [AgentIds -> AgentRow] /\ agents[i] \in AgentRow
      /\ credentials \subseteq Credential
  BY DEF FleetInv, FleetTypeOK
<1>3. agents' = [agents EXCEPT ![i] = row]
  BY <1>2 DEF Revoke, AgentRow
<1>4. /\ row \in AgentRow /\ row.revoked /\ row.generation = agents[i].generation + 1
      /\ row.token = agents[i].token /\ row.epoch = agents[i].epoch
  <2>1. row \in AgentRow
    <3>1. ASSUME NEW g \in Nat
          PROVE  [agents[i] EXCEPT !.revoked = TRUE, !.generation = g] \in AgentRow
      BY <1>2 DEF AgentRow
    <3>2. agents[i].generation + 1 \in Nat
      BY <1>2 DEF AgentRow
    <3> QED
      BY <3>1, <3>2
  <2>2. row.revoked
    BY <1>2 DEF AgentRow
  <2>3. row.generation = agents[i].generation + 1
    BY <1>2 DEF AgentRow
  <2>4. row.token = agents[i].token /\ row.epoch = agents[i].epoch
    BY <1>2 DEF AgentRow
  <2> QED
    BY <2>1, <2>2, <2>3, <2>4
<1>5. rec \in Revocation /\ rec.id = i /\ rec.epoch = agents[i].epoch
      /\ rec.through = agents[i].generation
  BY <1>2 DEF AgentRow, Revocation
<1> HIDE DEF rec, row
<1>6. /\ agents' \in [AgentIds -> AgentRow] /\ agents'[i] = row
      /\ \A j \in AgentIds : j # i => agents'[j] = agents[j]
  BY <1>2, <1>3, <1>4
<1>7. FleetTypeOK'
  BY <1>1, <1>2, <1>5, <1>6 DEF FleetInv, FleetTypeOK
<1>8. DrawnTokens' /\ NoFutureEpoch'
  BY <1>1, <1>4, <1>6 DEF FleetInv, DrawnTokens, NoFutureEpoch
<1>9. \A c \in credentials : /\ c.id \in AgentIds /\ c.generation \in Nat
                             /\ c.generation <= agents[c.id].generation
  BY <1>2 DEF FleetInv, GenerationBounds, Credential
<1>10. agents[i].generation \in Nat
  BY <1>2 DEF AgentRow
<1>11. GenerationBounds'
  BY <1>1, <1>4, <1>6, <1>9, <1>10 DEF GenerationBounds
<1>12. RowIsCredential'
  BY <1>1, <1>4, <1>6, <1>9 DEF FleetInv, RowIsCredential
<1>13. RevocationCoversCredentials'
  <2> SUFFICES ASSUME NEW c \in credentials,
                      agents'[c.id].revoked, agents'[c.id].epoch = c.epoch
               PROVE  \E r \in revocations' :
                        r.id = c.id /\ r.epoch = c.epoch /\ r.through >= c.generation
    BY <1>1 DEF RevocationCoversCredentials
  <2>1. CASE c.id = i
    <3>1. rec \in revocations' /\ rec.id = c.id /\ rec.epoch = c.epoch
      BY <2>1, <1>1, <1>4, <1>5, <1>6
    <3>2. rec.through >= c.generation
      BY <2>1, <1>5, <1>9, <1>10
    <3> QED
      BY <3>1, <3>2
  <2>2. CASE c.id # i
    BY <2>2, <1>1, <1>6, <1>9 DEF FleetInv, RevocationCoversCredentials
  <2> QED
    BY <2>1, <2>2
<1> QED
  BY <1>1, <1>7, <1>8, <1>11, <1>12, <1>13
     DEF FleetInv, ConsumedBootstraps, OneCredentialPerGeneration, BootstrapUsedOnce

\* The clock and the epoch only grow.
LEMMA EnvironmentKeepsInv ==
  ASSUME FleetInv, RotateEpoch \/ Tick \/ UNCHANGED fleetVars
  PROVE  FleetInv'
<1>1. /\ UNCHANGED <<agents, bootstraps, revocations, tokens, credentials>>
      /\ now' \in {now, now + 1} /\ epoch' \in {epoch, epoch + 1}
  BY DEF RotateEpoch, Tick, fleetVars
<1>2. FleetTypeOK'
  BY <1>1 DEF FleetInv, FleetTypeOK
<1>3. NoFutureEpoch'
  <2>1. epoch \in Nat /\ \A i \in AgentIds : agents[i].epoch \in Nat
    BY DEF FleetInv, FleetTypeOK, AgentRow
  <2> QED
    BY <1>1, <2>1 DEF FleetInv, NoFutureEpoch
<1> QED
  BY <1>1, <1>2, <1>3 DEF FleetInv, DrawnTokens, GenerationBounds, RowIsCredential, CredentialOf,
     ConsumedBootstraps, OneCredentialPerGeneration, BootstrapUsedOnce, RevocationCoversCredentials

\* Every step keeps the invariant.
LEMMA FleetStepInv == FleetInv /\ [FleetNext]_fleetVars => FleetInv'
<1> SUFFICES ASSUME FleetInv, [FleetNext]_fleetVars PROVE FleetInv'
  OBVIOUS
<1>1. CASE \E i \in AgentIds, uid \in ClusterUIDs, role \in Roles : Bootstrap(i, uid, role)
  BY <1>1, BootstrapKeepsInv
<1>2. CASE \E b \in bootstraps, uid \in ClusterUIDs, role \in Roles : Enroll(b, uid, role)
  BY <1>2, EnrollKeepsInv
<1>3. CASE \E c \in credentials, role \in Roles : Renew(c, role)
  BY <1>3, RenewKeepsInv
<1>4. CASE \E i \in AgentIds : Revoke(i)
  BY <1>4, RevokeKeepsInv
<1>5. CASE RotateEpoch \/ Tick \/ UNCHANGED fleetVars
  BY <1>5, EnvironmentKeepsInv
<1> QED
  BY <1>1, <1>2, <1>3, <1>4, <1>5 DEF FleetNext

\* The invariant is inductive, so it holds in every reachable state.
THEOREM FleetInvariant == FleetSpec => []FleetInv
  BY FleetInitInv, FleetStepInv, PTL DEF FleetSpec

\* The fleet tables stay well typed whatever administrators and agents call.
THEOREM FleetTyped == FleetSpec => []FleetTypeOK
<1>1. FleetInv => FleetTypeOK
  BY DEF FleetInv
<1> QED
  BY <1>1, FleetInvariant, PTL

\* A generation names one credential, so pinning a plan to a generation pins it
\* to one credential.
THEOREM GenerationsAreUnique == FleetSpec => []OneCredentialPerGeneration
<1>1. FleetInv => OneCredentialPerGeneration
  BY DEF FleetInv
<1> QED
  BY <1>1, FleetInvariant, PTL

\* A bootstrap is exchanged for at most one credential.
THEOREM BootstrapsAreSingleUse == FleetSpec => []BootstrapUsedOnce
<1>1. FleetInv => BootstrapUsedOnce
  BY DEF FleetInv
<1> QED
  BY <1>1, FleetInvariant, PTL

\* What AuthenticateTx accepts is the identity's current row.
THEOREM LiveCredentialsAreCurrent == FleetSpec => []LiveCredentialIsCurrent
<1>1. FleetInv => LiveCredentialIsCurrent
  BY DEF FleetInv, RowIsCredential, LiveCredentialIsCurrent, AuthenticateTx
<1> QED
  BY <1>1, FleetInvariant, PTL

\* A revoked identity's credentials are all covered by revocation records.
THEOREM RevocationsCover == FleetSpec => []RevocationCoversCredentials
<1>1. FleetInv => RevocationCoversCredentials
  BY DEF FleetInv
<1> QED
  BY <1>1, FleetInvariant, PTL

\* In one step a credential that is in force afterwards was in force before.
LEMMA LiveWasLive ==
  ASSUME FleetInv, [FleetNext]_fleetVars, NEW c \in credentials, Live(c)'
  PROVE  Live(c)
<1>1. PICK role \in Roles :
        /\ c.token # 0 /\ agents'[c.id].token = c.token /\ ~agents'[c.id].revoked
        /\ agents'[c.id].expiresAt > now' /\ agents'[c.id].epoch = epoch'
        /\ agents'[c.id].role = role
  BY DEF Live, AuthenticateTx
<1>2. /\ c.id \in AgentIds /\ c.token \in 1..tokens /\ tokens \in Nat /\ epoch \in Nat /\ now \in Nat
      /\ agents \in [AgentIds -> AgentRow] /\ agents[c.id].epoch <= epoch
      /\ agents[c.id].epoch \in Nat /\ agents[c.id].expiresAt \in Nat
  BY DEF FleetInv, FleetTypeOK, DrawnTokens, NoFutureEpoch, Credential, AgentRow
<1>3. ASSUME agents'[c.id] = agents[c.id], epoch' = epoch, now' \in {now, now + 1}
      PROVE  Live(c)
  BY <1>1, <1>2, <1>3 DEF Live, AuthenticateTx
<1>4. CASE \E i \in AgentIds, uid \in ClusterUIDs, r \in Roles : Bootstrap(i, uid, r)
  BY <1>4, <1>3 DEF Bootstrap
<1>5. ASSUME NEW i \in AgentIds, NEW row, row.token = tokens + 1,
             agents' = [agents EXCEPT ![i] = row], UNCHANGED <<now, epoch>>
      PROVE  Live(c)
  <2>1. c.id # i
    BY <1>1, <1>2, <1>5
  <2> QED
    BY <2>1, <1>2, <1>3, <1>5
<1>6. CASE \E b \in bootstraps, uid \in ClusterUIDs, r \in Roles : Enroll(b, uid, r)
  <2>1. PICK b \in bootstraps, uid \in ClusterUIDs, r \in Roles : Enroll(b, uid, r)
    BY <1>6
  <2>2. b.id \in AgentIds
    BY DEF FleetInv, FleetTypeOK, BootstrapRow
  <2>3. Upserted(b.id, agents[b.id], b, tokens + 1).token = tokens + 1
    BY DEF Upserted
  <2> QED
    BY <2>1, <2>2, <2>3, <1>5 DEF Enroll
<1>7. CASE \E d \in credentials, r \in Roles : Renew(d, r)
  <2>1. PICK d \in credentials, r \in Roles : Renew(d, r)
    BY <1>7
  <2>2. d.id \in AgentIds /\ agents[d.id] \in AgentRow
    BY DEF FleetInv, FleetTypeOK, Credential
  <2>3. Rotated(agents[d.id], tokens + 1).token = tokens + 1
    BY <2>2 DEF Rotated, AgentRow
  <2> QED
    BY <2>1, <2>2, <2>3, <1>5 DEF Renew
<1>8. CASE \E i \in AgentIds : Revoke(i)
  <2>1. PICK i \in AgentIds : Revoke(i)
    BY <1>8
  <2>2. agents'[i].revoked
    BY <2>1, <1>2 DEF Revoke, AgentRow
  <2>3. agents'[c.id] = agents[c.id]
    BY <2>1, <2>2, <1>1, <1>2 DEF Revoke
  <2> QED
    BY <2>1, <2>3, <1>3 DEF Revoke
<1>9. CASE RotateEpoch
  BY <1>9, <1>1, <1>2 DEF RotateEpoch
<1>10. CASE Tick
  BY <1>10, <1>3 DEF Tick
<1>11. CASE UNCHANGED fleetVars
  BY <1>11, <1>3 DEF fleetVars
<1> QED
  BY <1>4, <1>6, <1>7, <1>8, <1>9, <1>10, <1>11 DEF FleetNext

\* A credential that stopped authenticating never authenticates again.
THEOREM RetiredCredentials == FleetSpec => RetiredStaysRetired
<1>1. FleetInv /\ [FleetNext]_fleetVars =>
        [\A c \in credentials : ~Live(c) => ~Live(c)']_fleetVars
  BY LiveWasLive
<1> QED
  BY <1>1, FleetInvariant, PTL DEF FleetSpec, RetiredStaysRetired

\* Enrolment, renewal, revocation and rotation keep credentials sound, for any number of
\* agents, clusters, tokens and epochs.
THEOREM SoundCredentials == FleetSpec => []CredentialsAreSound
BY GenerationsAreUnique, BootstrapsAreSingleUse, LiveCredentialsAreCurrent, RevocationsCover, PTL
   DEF CredentialsAreSound
=============================================================================
