------------------------------- MODULE Fleet -------------------------------
(***************************************************************************)
(* Agent identities: pkg/fleet/service.go over the agents, bootstraps and  *)
(* revocations tables of pkg/storage/postgres/agents.go.                   *)
(*                                                                         *)
(* Every operation is one transaction under the scope's advisory lock      *)
(* (postgres.Store.Transact), so each is one atomic action.  A refused     *)
(* call rolls back and changes nothing: it is the absence of a step.       *)
(*                                                                         *)
(* Tokens are 256 random bits kept as hashes; a token is a number here,    *)
(* fresh at every issue, and 0 is no token.                                *)
(***************************************************************************)
EXTENDS Naturals, FiniteSets

CONSTANTS
  AgentIds,       \* identities an administrator may enrol
  ClusterUIDs,    \* kube-system namespace UIDs
  BootstrapTTL,   \* 10 minutes: life of a bootstrap token
  CredentialTTL,  \* 30 minutes: life of a credential
  MaxTime,        \* bound on the clock
  MaxTokens,      \* bound on the tokens issued, bootstraps included
  MaxGeneration,  \* bound on the generation an identity may be revoked at
  MaxEpoch        \* bound on authority epochs

ASSUME FleetAssumption ==
  /\ ClusterUIDs # {}
  /\ {BootstrapTTL, CredentialTTL} \subseteq Nat \ {0}
  /\ {MaxTime, MaxTokens, MaxGeneration, MaxEpoch} \subseteq Nat

Roles == {"COLLECTOR", "EXECUTOR"}

VARIABLES
  now,          \* the wall clock, which the replicas and agents share
  epoch,        \* authority epoch, derived from the external generation
  agents,       \* agents table: one row per identity
  bootstraps,   \* agent_bootstraps table
  revocations,  \* agent_revocations table
  tokens,       \* how many tokens newToken has drawn
  credentials   \* every credential an agent was ever handed

fleetVars == <<now, epoch, agents, bootstraps, revocations, tokens, credentials>>

\* A row that was never inserted has generation 0.
NoAgent == [generation |-> 0, token |-> 0, role |-> "COLLECTOR", uid |-> CHOOSE u \in ClusterUIDs : TRUE,
            epoch |-> 0, expiresAt |-> 0, revoked |-> FALSE]

AgentRow == [generation : Nat, token : Nat, role : Roles, uid : ClusterUIDs,
             epoch : Nat, expiresAt : Nat, revoked : BOOLEAN]

BootstrapRow == [token : Nat, id : AgentIds, role : Roles, uid : ClusterUIDs,
                 epoch : Nat, expiresAt : Nat, consumed : BOOLEAN]

\* What Enroll and Renew return; boot is the bootstrap Enroll consumed, 0 for Renew.
Credential == [id : AgentIds, token : Nat, generation : Nat, role : Roles,
               uid : ClusterUIDs, epoch : Nat, expiresAt : Nat, boot : Nat]

Revocation == [id : AgentIds, epoch : Nat, through : Nat]

FleetInit ==
  /\ now = 0
  /\ epoch = 1
  /\ agents = [i \in AgentIds |-> NoAgent]
  /\ bootstraps = {}
  /\ revocations = {}
  /\ tokens = 0
  /\ credentials = {}

-----------------------------------------------------------------------------
\* The credential a row stands for, issued in exchange for bootstrap token b (0: none).
CredentialOf(i, row, b) ==
  [id |-> i, token |-> row.token, generation |-> row.generation, role |-> row.role,
   uid |-> row.uid, epoch |-> row.epoch, expiresAt |-> row.expiresAt, boot |-> b]

\* AuthenticateTx: tok is identity i's stored token and the row is in force.
AuthenticateTx(i, tok, role) ==
  /\ tok # 0
  /\ agents[i].token = tok
  /\ ~agents[i].revoked
  /\ agents[i].expiresAt > now
  /\ agents[i].epoch = epoch
  /\ agents[i].role = role

\* Bootstrap: an administrator with the Setup permission asks for a single-use token.
Bootstrap(i, uid, role) ==
  /\ tokens < MaxTokens
  /\ tokens' = tokens + 1
  /\ bootstraps' = bootstraps \cup
       {[token |-> tokens + 1, id |-> i, role |-> role, uid |-> uid, epoch |-> epoch,
         expiresAt |-> now + BootstrapTTL, consumed |-> FALSE]}
  /\ UNCHANGED <<now, epoch, agents, revocations, credentials>>

\* The WHERE clause of ConsumeBootstrap.
Consumable(b, uid, role) ==
  /\ ~b.consumed
  /\ b.expiresAt > now
  /\ b.epoch = epoch
  /\ b.uid = uid
  /\ b.role = role

\* Fault: the upsert clears the revocation and keeps the stored token hash.
UpsertedOldToken(i, row, b, tok) ==
  [generation |-> row.generation + 1, token |-> IF row.token = 0 THEN tok ELSE row.token,
   role |-> b.role, uid |-> b.uid, epoch |-> epoch,
   expiresAt |-> now + CredentialTTL, revoked |-> FALSE]

\* The upsert of ConsumeBootstrap: insert at generation 1, or replace and step the generation.
Upserted(i, row, b, tok) ==
  [generation |-> row.generation + 1, token |-> tok, role |-> b.role, uid |-> b.uid,
   epoch |-> epoch, expiresAt |-> now + CredentialTTL, revoked |-> FALSE]

\* Enroll: whoever presents bootstrap b for cluster uid and role gets a credential.
Enroll(b, uid, role) ==
  LET row == Upserted(b.id, agents[b.id], b, tokens + 1) IN
  /\ b \in bootstraps
  /\ Consumable(b, uid, role)
  /\ tokens < MaxTokens
  /\ tokens' = tokens + 1
  /\ bootstraps' = (bootstraps \ {b}) \cup {[b EXCEPT !.consumed = TRUE]}
  /\ agents' = [agents EXCEPT ![b.id] = row]
  /\ credentials' = credentials \cup {CredentialOf(b.id, row, b.token)}
  /\ UNCHANGED <<now, epoch, revocations>>

\* The UPDATE of RotateAgent.
Rotated(row, tok) ==
  [row EXCEPT !.generation = @ + 1, !.token = tok, !.expiresAt = now + CredentialTTL]

\* Renew: authenticate, then rotate the token and generation if the row is still current.
Renew(c, role) ==
  LET row == Rotated(agents[c.id], tokens + 1) IN
  /\ c \in credentials
  /\ AuthenticateTx(c.id, c.token, role)
  /\ tokens < MaxTokens
  /\ tokens' = tokens + 1
  /\ agents' = [agents EXCEPT ![c.id] = row]
  /\ credentials' = credentials \cup {CredentialOf(c.id, row, 0)}
  /\ UNCHANGED <<now, epoch, bootstraps, revocations>>

\* Fault: one revocation per identity and epoch, a second one is dropped.
RecordedOnce(i, row) ==
  IF \E r \in revocations : r.id = i /\ r.epoch = row.epoch
    THEN revocations
    ELSE revocations \cup {[id |-> i, epoch |-> row.epoch, through |-> row.generation]}

\* The INSERT ... ON CONFLICT DO NOTHING of RevokeAgent; the key is the whole row.
Recorded(i, row) ==
  revocations \cup {[id |-> i, epoch |-> row.epoch, through |-> row.generation]}

\* Revoke: record the generations revoked, then retire the row.
Revoke(i) ==
  /\ agents[i].generation \in 1..MaxGeneration
  /\ revocations' = Recorded(i, agents[i])
  /\ agents' = [agents EXCEPT ![i].revoked = TRUE, ![i].generation = @ + 1]
  /\ UNCHANGED <<now, epoch, bootstraps, tokens, credentials>>

\* The operator restarts the orchestrator with another external generation.
RotateEpoch ==
  /\ epoch < MaxEpoch
  /\ epoch' = epoch + 1
  /\ UNCHANGED <<now, agents, bootstraps, revocations, tokens, credentials>>

Tick ==
  /\ now < MaxTime
  /\ now' = now + 1
  /\ UNCHANGED <<epoch, agents, bootstraps, revocations, tokens, credentials>>

FleetNext ==
  \/ \E i \in AgentIds, uid \in ClusterUIDs, role \in Roles : Bootstrap(i, uid, role)
  \/ \E b \in bootstraps, uid \in ClusterUIDs, role \in Roles : Enroll(b, uid, role)
  \/ \E c \in credentials, role \in Roles : Renew(c, role)
  \/ \E i \in AgentIds : Revoke(i)
  \/ RotateEpoch
  \/ Tick

FleetSpec == FleetInit /\ [][FleetNext]_fleetVars

-----------------------------------------------------------------------------
FleetTypeOK ==
  /\ now \in Nat
  /\ epoch \in Nat
  /\ agents \in [AgentIds -> AgentRow]
  /\ bootstraps \subseteq BootstrapRow
  /\ revocations \subseteq Revocation
  /\ tokens \in Nat
  /\ credentials \subseteq Credential

\* Plans, evidence and receipts pin an agent by its generation alone, so a
\* generation must name one credential: however enrolments, renewals and
\* revocations of an identity follow each other, ConsumeBootstrap and RotateAgent
\* never hand out the same generation twice.
OneCredentialPerGeneration ==
  \A c, d \in credentials : c.id = d.id /\ c.generation = d.generation => c = d

\* ConsumeBootstrap takes a bootstrap once: two callers presenting the same
\* bootstrap, or one retrying after a lost reply, never both hold a credential.
BootstrapUsedOnce ==
  \A c, d \in credentials : c.boot # 0 /\ c.boot = d.boot => c = d

\* A credential AuthenticateTx accepts is the row's: the same generation, cluster,
\* epoch and role.  Renew's compare-and-swap and the generation checks of
\* pkg/execution rely on it; Revoke steps the generation and leaves the token.
LiveCredentialIsCurrent ==
  \A c \in credentials, role \in Roles :
    AuthenticateTx(c.id, c.token, role) =>
      c = CredentialOf(c.id, agents[c.id], c.boot)

\* While an identity is revoked, every credential of its epoch is covered by a
\* revocation record, which is what keeps its evidence out of historic lineage
\* (items.go Eligible) after the identity is enrolled again.
RevocationCoversCredentials ==
  \A c \in credentials :
    agents[c.id].revoked /\ agents[c.id].epoch = c.epoch =>
      \E r \in revocations : r.id = c.id /\ r.epoch = c.epoch /\ r.through >= c.generation

\* What the rest of the control plane relies on when it believes a credential: one token
\* for a generation, one credential for a bootstrap, only the last credential accepted,
\* and none of a revoked identity outside its revocation record.
CredentialsAreSound ==
  /\ OneCredentialPerGeneration
  /\ BootstrapUsedOnce
  /\ LiveCredentialIsCurrent
  /\ RevocationCoversCredentials

\* A credential that authenticates in no role now, because it was renewed,
\* replaced, revoked, expired or is of another epoch, never authenticates again:
\* re-enrolling the identity does not revive it.
Live(c) == \E role \in Roles : AuthenticateTx(c.id, c.token, role)

RetiredStaysRetired ==
  [][\A c \in credentials : ~Live(c) => ~Live(c)']_fleetVars
=============================================================================
