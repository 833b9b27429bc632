------------------------------- MODULE Knowledge -------------------------------
(***************************************************************************)
(* What the orchestrator believes and on what it rests: evidence, claims   *)
(* with their lineage (pkg/storage/postgres items.go and lineage.go), the  *)
(* stewards who corroborate or dispute them (pkg/stewardship), and the     *)
(* golden cases published from recovered incidents that guide later        *)
(* investigations (pkg/knowledge, pkg/investigation).                      *)
(*                                                                         *)
(* An operation is one transaction under the advisory lock of its scope,   *)
(* except an investigation: it reads evidence and guidance, asks a model,  *)
(* and commits in a later transaction.  One resource, one incident.        *)
(***************************************************************************)
EXTENDS Naturals, FiniteSets

CONSTANTS
  Stewards,        \* who corroborates, proposes and publishes
  Cases,           \* identifiers of golden cases
  Inquiries,       \* concurrent investigations
  MinEvidence,     \* evidence of a recovery a golden case must have
  LastVersion,     \* bound of the versions of an item of evidence
  MaxClaims,       \* bound of the claims
  MaxSetbacks,     \* bound of the disputes and the revocations together
  LastGeneration   \* bound of the collector's credentials

ASSUME KnowledgeAssumption ==
  {MinEvidence, LastVersion, MaxClaims, MaxSetbacks, LastGeneration} \subseteq Nat \ {0}

VARIABLES
  evidence,     \* items of kind EVIDENCE, by code and version
  claims,       \* items of kind CLAIM, in the order of their creation
  contested,    \* item_eligibility.quarantined
  source,       \* the collector: generation, revoked, the generations revoked
  recoveries,   \* the evidence of each assessment RECOVERED
  cases,        \* the latest version of each golden case
  inquiry       \* where each investigation is, and what it read

knowledgeVars == <<evidence, claims, contested, source, recoveries, cases, inquiry>>

Codes == {"CAUSE", "SYMPTOM", "HEALTHY"}
Claim(n) == <<"CLAIM", n>>
IsClaim(ref) == ref[1] = "CLAIM"

NoCase == [version |-> 0, state |-> "NONE", claim |-> <<"CLAIM", 0>>, recovery |-> {}, by |-> "nobody"]
NoInquiry == [at |-> "idle", parents |-> {}, guides |-> {}]

KnowledgeInit ==
  /\ evidence = [c \in Codes |-> [v \in 1..LastVersion |-> [generation |-> 0, fresh |-> FALSE]]]
  /\ claims = [n \in {} |-> 0]
  /\ contested = {}
  /\ source = [generation |-> 1, revoked |-> FALSE, through |-> {}]
  /\ recoveries = {}
  /\ cases = [g \in Cases |-> NoCase]
  /\ inquiry = [q \in Inquiries |-> NoInquiry]

-----------------------------------------------------------------------------
(* Items and their lineage. *)

Observed(ref) == evidence[ref[1]][ref[2]]
Stored == {ref \in Codes \X (1..LastVersion) : Observed(ref).generation > 0}
Latest(c) == Cardinality({v \in 1..LastVersion : evidence[c][v].generation > 0})

\* lineageSQL: the ancestors through item_parents, and through historical_dependencies,
\* below which everything is historic.
LineageOf(edges) ==
  LET up[n \in DOMAIN edges] ==
        LET Of(ref) == IF IsClaim(ref) THEN up[ref[2]] ELSE {<<ref, FALSE>>}
        IN  {<<Claim(n), FALSE>>}
              \cup (UNION {Of(p) : p \in edges[n].parents})
              \cup {<<x[1], TRUE>> : x \in UNION {Of(p) : p \in edges[n].historic}}
  IN  up

Lineage(ref) == IF IsClaim(ref) THEN LineageOf(claims)[ref[2]] ELSE {<<ref, FALSE>>}

\* The collector stands by what it observed under this generation.
Trusted(ref) ==
  ~IsClaim(ref) => ~source.revoked /\ \A t \in source.through : Observed(ref).generation > t

\* A claim is valid as long as each of its parents: except below a historic
\* edge the evidence must be valid and its collector must not have moved on.
Eligible(ref) ==
  \A x \in Lineage(ref) :
    /\ x[1] \notin contested /\ Trusted(x[1])
    /\ ~x[2] /\ ~IsClaim(x[1]) => Observed(x[1]).fresh /\ Observed(x[1]).generation = source.generation

Uncontested(ref) == \A x \in Lineage(ref) : x[1] \notin contested

HistoricalEligible(ref) == Uncontested(ref) /\ \A x \in Lineage(ref) : Trusted(x[1])

-----------------------------------------------------------------------------
(* Evidence and its source. *)

Observe(c) ==
  LET v == Latest(c) + 1
  IN  /\ ~source.revoked /\ v <= LastVersion
      /\ evidence' = [evidence EXCEPT ![c][v] = [generation |-> source.generation, fresh |-> TRUE]]
      /\ UNCHANGED <<claims, contested, source, recoveries, cases, inquiry>>

\* Time passes the end of an item's validity.
EvidenceExpires(ref) ==
  /\ ref \in Stored /\ Observed(ref).fresh
  /\ evidence' = [evidence EXCEPT ![ref[1]][ref[2]].fresh = FALSE]
  /\ UNCHANGED <<claims, contested, source, recoveries, cases, inquiry>>

Setbacks == Cardinality(contested) + Cardinality(source.through)

\* Rotation, revocation and enrollment of the collector.  The bound leaves a rotation's
\* successor one more generation.
SourceRenewed ==
  /\ ~source.revoked /\ source.generation + 1 < LastGeneration
  /\ source' = [source EXCEPT !.generation = @ + 1]
  /\ UNCHANGED <<evidence, claims, contested, recoveries, cases, inquiry>>

SourceRevoked ==
  /\ ~source.revoked /\ source.generation < LastGeneration /\ Setbacks < MaxSetbacks
  /\ source' = [generation |-> source.generation + 1, revoked |-> TRUE,
                through |-> source.through \cup {source.generation}]
  /\ UNCHANGED <<evidence, claims, contested, recoveries, cases, inquiry>>

SourceReenrolled ==
  /\ source.revoked /\ source.generation < LastGeneration
  /\ source' = [source EXCEPT !.generation = @ + 1, !.revoked = FALSE]
  /\ UNCHANGED <<evidence, claims, contested, recoveries, cases, inquiry>>

\* Nothing takes a quarantine back.
Quarantine(ref) == contested' = contested \cup {ref}

\* Adjudicate with FACTUAL_ERROR.  Any other judgment is recorded and changes no item.
Adjudicate(ref) ==
  /\ ref \notin contested /\ Setbacks < MaxSetbacks
  /\ Quarantine(ref)
  /\ UNCHANGED <<evidence, claims, source, recoveries, cases, inquiry>>

-----------------------------------------------------------------------------
(* Golden cases. *)

\* EligibleTx: the claim and the evidence of the recovery, all the way down.
EligibleCase(g) == HistoricalEligible(g.claim) /\ \A ref \in g.recovery : HistoricalEligible(ref)

\* CurrentEvidence: the latest version of each item, while it is valid.
CurrentEvidence == {ref \in Stored : ref[2] = Latest(ref[1]) /\ Observed(ref).fresh}

\* An assessment RECOVERED (module Recovery): uncontested healthy observations, the last one current.
Recovers(refs) ==
  /\ refs \notin recoveries
  /\ Cardinality(refs) >= MinEvidence
  /\ \A ref \in refs : ref[1] = "HEALTHY" /\ Uncontested(ref)
  /\ \E ref \in refs : ref[2] = Latest("HEALTHY") /\ Eligible(ref)
  /\ recoveries' = recoveries \cup {refs}
  /\ UNCHANGED <<evidence, claims, contested, source, cases, inquiry>>

\* A version of a case is never replaced; its next one is.
PutGoldenCase(g, case) == cases' = [cases EXCEPT ![g] = [case EXCEPT !.version = cases[g].version + 1]]

Candidate(g, n, refs, p) ==
  LET case == [version |-> 0, state |-> "CANDIDATE", claim |-> Claim(n), recovery |-> refs, by |-> p]
  IN  /\ cases[g].state = "NONE"
      /\ claims[n].status = "CORROBORATED"
      /\ EligibleCase(case)
      /\ PutGoldenCase(g, case)
      /\ UNCHANGED <<evidence, claims, contested, source, recoveries, inquiry>>

\* Publish: by another person, after the lineage is looked at again.
Publish(g, p) ==
  /\ cases[g].state = "CANDIDATE" /\ cases[g].by # p
  /\ EligibleCase(cases[g])
  /\ PutGoldenCase(g, [cases[g] EXCEPT !.state = "ACTIVE"])
  /\ UNCHANGED <<evidence, claims, contested, source, recoveries, inquiry>>

Retire(g) ==
  /\ cases[g].state \in {"CANDIDATE", "ACTIVE"}
  /\ PutGoldenCase(g, [cases[g] EXCEPT !.state = "RETIRED"])
  /\ UNCHANGED <<evidence, claims, contested, source, recoveries, inquiry>>

Retrieve == {g \in Cases : cases[g].state = "ACTIVE" /\ EligibleCase(cases[g])}

-----------------------------------------------------------------------------
(* Claims. *)

\* PutItem and linkGuidance: parents, and for each case that guided the claim the
\* case's claim and the evidence of its recovery.
LinkGuidanceClaim(guides) == {cases[g].claim : g \in guides}
LinkGuidance(guides) == {cases[g].claim : g \in guides} \cup UNION {cases[g].recovery : g \in guides}

PutClaim(status, parents, guides) ==
  LET n == Cardinality(DOMAIN claims) + 1
  IN  claims' = [m \in DOMAIN claims \cup {n} |->
                   IF m \in DOMAIN claims THEN claims[m]
                   ELSE [status |-> status, parents |-> parents, historic |-> LinkGuidance(guides),
                         guides |-> guides]]

\* SuggestCause: the cause is observed and nothing says the resource is healthy.
Suggests(refs) == "CAUSE" \in {ref[1] : ref \in refs} /\ "HEALTHY" \notin {ref[1] : ref \in refs}

\* readSnapshot.
SnapshotRefs == {ref \in CurrentEvidence : Eligible(ref)}
InvestigateReads(q) ==
  /\ inquiry[q].at = "idle" /\ SnapshotRefs # {}
  /\ inquiry' = [inquiry EXCEPT ![q].at = "read", ![q].parents = SnapshotRefs]
  /\ UNCHANGED <<evidence, claims, contested, source, recoveries, cases>>

\* Retrieve, a transaction of its own, and then the model is asked.
InvestigateRetrieves(q) ==
  /\ inquiry[q].at = "read"
  /\ inquiry' = [inquiry EXCEPT ![q].at = "asked",
                                ![q].guides = IF Suggests(inquiry[q].parents)
                                                THEN {<<g, cases[g].version>> : g \in Retrieve} ELSE {}]
  /\ UNCHANGED <<evidence, claims, contested, source, recoveries, cases>>

\* A round asked for fresh checks: the evidence is read again, the guidance stays.
InvestigateRefreshes(q) ==
  /\ inquiry[q].at = "asked" /\ SnapshotRefs # {}
  /\ inquiry' = [inquiry EXCEPT ![q].parents = SnapshotRefs]
  /\ UNCHANGED <<evidence, claims, contested, source, recoveries, cases>>

\* PublishedEligibleTx.
StillPublished(guide) ==
  LET g == cases[guide[1]]
  IN  g.version = guide[2] /\ g.state = "ACTIVE"
PublishedEligible(guide) ==
  LET g == cases[guide[1]]
  IN  g.version = guide[2] /\ g.state = "ACTIVE" /\ EligibleCase(g)

\* A model may also find nothing where it could: such a claim leads nowhere a
\* hypothesis does not.  The commit looks at the guidance and at the evidence again.
InvestigateCommits(q) ==
  /\ inquiry[q].at = "asked"
  /\ Cardinality(DOMAIN claims) < MaxClaims
  /\ \A guide \in inquiry[q].guides : PublishedEligible(guide)
  /\ \A ref \in inquiry[q].parents : Eligible(ref)
  /\ PutClaim(IF Suggests(inquiry[q].parents) THEN "HYPOTHESIS" ELSE "INCONCLUSIVE",
              inquiry[q].parents, {guide[1] : guide \in inquiry[q].guides})
  /\ inquiry' = [inquiry EXCEPT ![q] = NoInquiry]
  /\ UNCHANGED <<evidence, contested, source, recoveries, cases>>

\* The model fails, or what was read is no longer good.
InvestigateEnds(q) ==
  /\ inquiry[q].at \in {"read", "asked"}
  /\ inquiry' = [inquiry EXCEPT ![q] = NoInquiry]
  /\ UNCHANGED <<evidence, claims, contested, source, recoveries, cases>>

\* Corroborate: an eligible hypothesis, eligible evidence of the cause and of another
\* finding, and no current eligible evidence of health.  The new claim carries the
\* guidance of the old one, which must still be published.
Corroborate(n) ==
  LET refs == {ref \in Stored : Eligible(ref) /\ ref[1] # "HEALTHY"}
  IN  /\ Cardinality(DOMAIN claims) < MaxClaims
      /\ claims[n].status = "HYPOTHESIS" /\ Eligible(Claim(n))
      /\ {ref[1] : ref \in refs} = {"CAUSE", "SYMPTOM"}
      /\ ~\E ref \in CurrentEvidence : ref[1] = "HEALTHY" /\ Eligible(ref)
      /\ \A g \in claims[n].guides : cases[g].state = "ACTIVE"
      /\ PutClaim("CORROBORATED", {Claim(n)} \cup refs, claims[n].guides)
      /\ UNCHANGED <<evidence, contested, source, recoveries, cases, inquiry>>

-----------------------------------------------------------------------------
KnowledgeNext ==
  \/ \E c \in Codes : Observe(c)
  \/ \E ref \in Stored : EvidenceExpires(ref) \/ Adjudicate(ref)
  \/ SourceRenewed \/ SourceRevoked \/ SourceReenrolled
  \/ \E n \in DOMAIN claims : Adjudicate(Claim(n)) \/ Corroborate(n)
  \/ \E refs \in SUBSET Stored : Recovers(refs)
  \/ \E g \in Cases, p \in Stewards :
       Publish(g, p) \/ \E n \in DOMAIN claims, refs \in recoveries : Candidate(g, n, refs, p)
  \/ \E g \in Cases : Retire(g)
  \/ \E q \in Inquiries : \/ InvestigateReads(q) \/ InvestigateRetrieves(q) \/ InvestigateRefreshes(q)
                         \/ InvestigateCommits(q) \/ InvestigateEnds(q)

KnowledgeSpec == KnowledgeInit /\ [][KnowledgeNext]_knowledgeVars

-----------------------------------------------------------------------------
\* What a claim rests on, by the cases that guided it and not by the recorded edges.
RestsOn ==
  LET on[n \in DOMAIN claims] ==
        LET Of(ref) == IF IsClaim(ref) THEN {ref} \cup on[ref[2]] ELSE {ref}
            Under(g) == Of(cases[g].claim) \cup cases[g].recovery
        IN  (UNION {Of(p) : p \in claims[n].parents}) \cup UNION {Under(g) : g \in claims[n].guides}
  IN  on

Sound(ref) == ref \notin contested /\ Trusted(ref)

\* A claim that may still be acted on rests on nothing disputed and on no evidence of a
\* revoked collector: not through its parents, and not through the reviewed cases that
\* guided it, whose own claims may have been guided by others (Eligible over the edges
\* PutItem and linkGuidance record).
EligibleIsSound ==
  \A n \in DOMAIN claims : Eligible(Claim(n)) => \A ref \in RestsOn[n] : Sound(ref)

\* No claim is recorded on what is already disputed or revoked at that moment, though
\* its evidence and its guidance were read before the model was asked (the checks of
\* the commit, ValidateGuidance among them).
CommitsAreSound ==
  [][\A n \in DOMAIN claims' \ DOMAIN claims : \A ref \in RestsOn'[n] : Sound(ref)]_knowledgeVars
=============================================================================
