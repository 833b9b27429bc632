------------------------------ MODULE ScanHistory ------------------------------
(***************************************************************************)
(* Cluster scans and their history (pkg/scanner).  Scans overlap: each     *)
(* runs its analyzers, adds the optional ones and hands its report to the  *)
(* history, which decides what is still active.  Reports arrive in any     *)
(* order; the start of a scan orders them.                                 *)
(*                                                                         *)
(* A finding is known by its id; its fingerprint has the UID of the object *)
(* too, when the scan learned it.  An analyzer reads the cluster at once.  *)
(*                                                                         *)
(* The id of an issue hashes its object and its category, so an entry of   *)
(* another id with the same words (sameSemantic in reconcileReport) comes  *)
(* from a file of an older version: there is none here.  Plans differ in   *)
(* their namespaces only; a coverage that names kinds, names, analyzers or *)
(* labels, or is of another schema, covers less (coveredBy).               *)
(***************************************************************************)
EXTENDS Naturals, FiniteSets

CONSTANTS
  FindingIds,      \* issue ids
  AnalyzersOf,     \* the analyzers that report an id
  ObjectOf,        \* the object an id is about
  IssueRank,       \* the place of an id in the order of issueLess
  NamespaceOf,     \* the namespace of an object
  Typed, Dynamic,  \* the analyzers of ClusterScanner and of DynamicAnalyzerSet
  Scopes,          \* sets of namespaces a plan may include
  Scanners,        \* goroutines that scan
  NoUid,           \* an identity the scan did not learn
  MaxScans,        \* bound: scans
  MaxUid           \* bound: incarnations of an object

ScanAnalyzers == Typed \cup Dynamic
ScanObjects == {ObjectOf[i] : i \in FindingIds}
Uids == (1..MaxUid) \cup {NoUid}
Fingerprints == FindingIds \X Uids

ASSUME ScanAssumption ==
  /\ AnalyzersOf \in [FindingIds -> SUBSET ScanAnalyzers]
  /\ IssueRank \in [FindingIds -> Nat]
  /\ Scopes \subseteq SUBSET {NamespaceOf[o] : o \in ScanObjects}
  /\ {MaxScans, MaxUid} \subseteq Nat

VARIABLES
  uidOf,      \* external: the UID of each object
  families,   \* whether the optional families are enabled
  scans,      \* the scans in progress
  entries,    \* the history's entries by fingerprint
  coverage,   \* the history's coverage
  accepted,   \* reports the history took, for the properties
  scanCount   \* scans started; the start of the latest

scanVars == <<uidOf, families, scans, entries, coverage, accepted, scanCount>>

NoRound == [pc |-> "idle"]
NoEntry == [known |-> FALSE]

ScanInit ==
  /\ uidOf = [o \in ScanObjects |-> 1]
  /\ families = TRUE
  /\ scans = [s \in Scanners |-> NoRound]
  /\ entries = [f \in Fingerprints |-> NoEntry]
  /\ coverage = {} /\ accepted = {}
  /\ scanCount = 0

InScopeOf(scope, i) == scope = {} \/ NamespaceOf[ObjectOf[i]] \in scope

-----------------------------------------------------------------------------
(* A scan.  Conditions come and go as the cluster likes, so what an analyzer finds *)
(* is any set of the ids it reports.                                              *)

ObjectReplaced ==
  /\ \E o \in ScanObjects : uidOf[o] < MaxUid /\ uidOf' = [uidOf EXCEPT ![o] = @ + 1]
  /\ UNCHANGED <<families, scans, entries, coverage, accepted, scanCount>>

\* ScanWithPlan.
ScanStarts(s, scope) ==
  /\ scans[s] = NoRound /\ scanCount < MaxScans
  /\ scanCount' = scanCount + 1
  /\ scans' = [scans EXCEPT ![s] =
       [pc |-> "typed", start |-> scanCount + 1, scope |-> scope, expired |-> FALSE,
        todo |-> {}, ok |-> {}, failed |-> {}, seen |-> {}]]
  /\ UNCHANGED <<uidOf, families, entries, coverage, accepted>>

Issue(i, a, uid) == [id |-> i, analyzer |-> a, uid |-> uid]

\* The issues an analyzer may return: an identity is learned at the end, or missing.
Findable(s, a, uids) ==
  {Issue(i, a, u) : i \in {j \in FindingIds : a \in AnalyzersOf[j] /\ InScopeOf(scans[s].scope, j)}, u \in uids}

\* enrichIssueTargets: one lookup per object at the end; its errors are ignored.
Identity(i, learned) == IF learned THEN uidOf[ObjectOf[i]] ELSE NoUid

\* The analyzers end in any order, each without error or with one, and with an error when
\* the deadline has passed; nothing reads a result before the last has ended.
\* analyzeWithPlan then takes the families of this moment.
AnalyzersEnd(s) ==
  /\ scans[s].pc = "typed"
  /\ \E ok \in SUBSET Typed, expired \in BOOLEAN, learned \in BOOLEAN :
       \E seen \in SUBSET UNION {Findable(s, a, Uids) : a \in Typed} :
         /\ expired => ok = {}
         /\ \A x \in seen : x.uid = Identity(x.id, learned)
         /\ scans' = [scans EXCEPT ![s].pc = "dynamic", ![s].ok = ok, ![s].failed = Typed \ ok,
                                   ![s].expired = expired, ![s].seen = seen,
                                   ![s].todo = IF families THEN Dynamic ELSE {}]
  /\ UNCHANGED <<uidOf, families, entries, coverage, accepted, scanCount>>

\* dynamicAnalyzer.Analyze: an inaccessible resource fails the run, and so does a deadline.
\* A family that was disabled since the scan began is not read: no issue and no error.
DynamicOutcomes(s, a) ==
  {o \in [ok : BOOLEAN, expired : BOOLEAN, seen : SUBSET Findable(s, a, 1..MaxUid)] :
     /\ scans[s].expired => o.expired
     /\ o.expired => ~o.ok
     /\ \A x \in o.seen : x.uid = Identity(x.id, TRUE)
     /\ ~families => o.seen = {} /\ (o.expired \/ o.ok)}

DynamicRuns(s, a) ==
  /\ scans[s].pc = "dynamic" /\ a \in scans[s].todo
  /\ \E o \in DynamicOutcomes(s, a) :
       scans' = [scans EXCEPT ![s].todo = @ \ {a}, ![s].seen = @ \cup o.seen, ![s].expired = o.expired,
                              ![s].ok = IF o.ok THEN @ \cup {a} ELSE @,
                              ![s].failed = IF o.ok THEN @ ELSE @ \cup {a}]
  /\ UNCHANGED <<uidOf, families, entries, coverage, accepted, scanCount>>

\* DeduplicateIssues: one issue for an id, with everyone who reported it and the first
\* identity somebody learned.
Deduplicated(seen) ==
  {[id |-> i, names |-> {x.analyzer : x \in {y \in seen : y.id = i}},
    uid |-> LET known == {x.uid : x \in {y \in seen : y.id = i}} \ {NoUid}
            IN  IF known = {} THEN NoUid ELSE CHOOSE u \in known : TRUE] : i \in {x.id : x \in seen}}

Report(s) == [start |-> scans[s].start, scope |-> scans[s].scope, ok |-> scans[s].ok,
              failed |-> scans[s].failed, error |-> scans[s].expired,
              issues |-> Deduplicated(scans[s].seen)]

-----------------------------------------------------------------------------
(* The history. *)

Coverage(r) == [start |-> r.start, scope |-> r.scope, ok |-> r.ok, failed |-> r.failed, error |-> r.error]
SameKey(c, d) == [c EXCEPT !.start = 0] = [d EXCEPT !.start = 0]

\* Fault: an analyzer that failed counts as one that looked.
CoveredByAnyRun(c, i, names) ==
  ~c.error /\ names # {} /\ InScopeOf(c.scope, i) /\ names \subseteq (c.ok \cup c.failed)

CoveredBy(c, i, names) ==
  ~c.error /\ names # {} /\ InScopeOf(c.scope, i) /\ names \subseteq c.ok

Resolved(e, start) == [e EXCEPT !.resolved = TRUE, !.last = start]

\* Entries the report covers and is newer than.
ResolvesCovered(r) ==
  [f \in Fingerprints |->
     IF entries[f].known /\ r.start > entries[f].last /\ CoveredBy(Coverage(r), f[1], entries[f].names)
       THEN Resolved(entries[f], r.start) ELSE entries[f]]

\* Fault: only newer entries are looked at, not newer reports without the finding.
StaleByEntries(r, x, es) ==
  \E f \in Fingerprints : es[f].known /\ es[f].last > r.start /\ f = <<x.id, x.uid>>

\* A newer report saw the object under another UID, or looked and did not see the finding.
StaleIssue(r, x, es) ==
  \/ es[<<x.id, x.uid>>].known /\ es[<<x.id, x.uid>>].last > r.start
  \/ \E f \in Fingerprints :
       /\ es[f].known /\ es[f].last > r.start /\ ObjectOf[f[1]] = ObjectOf[x.id]
       /\ NoUid \notin {f[2], x.uid} /\ f[2] # x.uid
  \/ \E c \in coverage : c.start >= r.start /\ CoveredBy(c, x.id, x.names)

\* An issue that is not stale takes over the entries of the same id.
TakesOver(r, x, es) ==
  LET old == {f \in Fingerprints : f[1] = x.id /\ f[2] # x.uid /\ es[f].known}
      mine == es[<<x.id, x.uid>>]
      names == x.names \cup (UNION {es[f].names : f \in old}) \cup (IF mine.known THEN mine.names ELSE {})
  IN  [f \in Fingerprints |->
         CASE f = <<x.id, x.uid>> -> [known |-> TRUE, resolved |-> FALSE, last |-> r.start, names |-> names]
           [] f \in old -> Resolved(es[f], r.start)
           [] OTHER -> es[f]]

\* The entries when the issues of F have taken theirs over.  The issues of a report are about
\* different ids, and each changes the entries of its own only.
Taken(r, F, es) ==
  LET ofId(i) == CHOOSE x \in F : x.id = i
  IN  [f \in Fingerprints |->
         IF \E x \in F : x.id = f[1] THEN TakesOver(r, ofId(f[1]), es)[f] ELSE es[f]]

\* F are the issues that are not stale when their turn comes.  They are taken in the order of
\* DeduplicateIssues: an issue meets the entries as the ones before it left them, and one that
\* took over a newer entry has moved its time back.
FreshInTurn(r, F) ==
  F = {x \in r.issues :
         ~StaleIssue(r, x, Taken(r, {y \in F : IssueRank[y.id] < IssueRank[x.id]}, ResolvesCovered(r)))}

ReconcileReport(r, F) == Taken(r, F, ResolvesCovered(r))

\* A report with the scope and the outcomes of a newer one is not taken.
TakesReport(r) == \A c \in coverage : SameKey(c, Coverage(r)) => r.start > c.start

\* recordReport at the end of a scan; the write may fail, and then nothing is remembered.
ScanRecords(s) ==
  /\ scans[s].pc = "dynamic" /\ scans[s].todo = {}
  /\ scans' = [scans EXCEPT ![s] = NoRound]
  /\ LET r == Report(s)
     IN  \/ /\ TakesReport(r)
            /\ \E F \in SUBSET r.issues : FreshInTurn(r, F) /\ entries' = ReconcileReport(r, F)
            /\ coverage' = {c \in coverage : ~SameKey(c, Coverage(r))} \cup {Coverage(r)}
            /\ accepted' = accepted \cup {r}
         \/ UNCHANGED <<entries, coverage, accepted>>
  /\ UNCHANGED <<uidOf, families, scanCount>>

\* pruneHistory: resolved entries go, by age or because they are too many.
PruneHistory ==
  /\ \E f \in Fingerprints : /\ entries[f].known /\ entries[f].resolved
                             /\ entries' = [entries EXCEPT ![f] = NoEntry]
  /\ UNCHANGED <<uidOf, families, scans, coverage, accepted, scanCount>>

\* EnableFamily, DisableFamily.
ToggleFamily ==
  /\ families' = ~families
  /\ UNCHANGED <<uidOf, scans, entries, coverage, accepted, scanCount>>

\* The process ends; the file has what was recorded.
ScannerRestarts ==
  /\ \E s \in Scanners : scans[s] # NoRound
  /\ scans' = [s \in Scanners |-> NoRound]
  /\ UNCHANGED <<uidOf, families, entries, coverage, accepted, scanCount>>

ScanNext ==
  \/ ObjectReplaced
  \/ \E s \in Scanners :
       \/ \E scope \in Scopes : ScanStarts(s, scope)
       \/ AnalyzersEnd(s)
       \/ \E a \in Dynamic : DynamicRuns(s, a)
       \/ ScanRecords(s)
  \/ PruneHistory \/ ToggleFamily \/ ScannerRestarts

ScanSpec == ScanInit /\ [][ScanNext]_scanVars

-----------------------------------------------------------------------------
(* Properties. *)

Active(i) == \E u \in Uids : entries[<<i, u>>].known /\ ~entries[<<i, u>>].resolved
Sees(r, i) == \E x \in r.issues : x.id = i
Looked(r, i, names) == ~r.error /\ InScopeOf(r.scope, i) /\ names \subseteq r.ok /\ names # {}

\* The reports agree on the identity of an object.
OneIdentity(o) ==
  \A m, n \in accepted : \A x \in m.issues, y \in n.issues : ObjectOf[x.id] = o /\ ObjectOf[y.id] = o => x.uid = y.uid

\* A finding nobody contradicted stays: the newest scan that saw it is not answered by a newer one
\* that looked and saw nothing, so it is active, however the reports overtake each other
\* (reconcileReport).  Reports that know the object under different identities are left out: an older
\* one takes over the entry of a newer one whose identity was not learned, and moves its time back.
SeenStaysActive ==
  \A i \in FindingIds, r \in accepted :
    /\ Sees(r, i) /\ OneIdentity(ObjectOf[i])
    /\ ~\E n \in accepted : n.start > r.start /\ ~Sees(n, i) /\ \E a \in AnalyzersOf[i] : Looked(n, i, {a})
    => Active(i)

\* An old scan cannot resurrect a removed finding, however late its report arrives and
\* whatever was pruned (pruneHistory, reconcileReport).
RemovedStaysRemoved ==
  \A i \in FindingIds, r \in accepted :
    /\ ~Sees(r, i) /\ Looked(r, i, AnalyzersOf[i])
    /\ ~\E n \in accepted : n.start > r.start /\ Sees(n, i)
    => ~Active(i)
=============================================================================
