------------------------------- MODULE Recovery -------------------------------
(***************************************************************************)
(* Observed recovery: the reports of a collector become evidence and       *)
(* health samples of an incident (pkg/agent/collection/report.go), and an  *)
(* assessment of the samples (pkg/recovery) decides whether the incident   *)
(* has recovered and may be closed.                                        *)
(*                                                                         *)
(* Every operation is one transaction that holds the advisory lock of its  *)
(* scope, hence one step.  A report may be late, overtaken by a later one  *)
(* or never arrive.  The clock is finer than a scan: no two reports carry  *)
(* the same time.                                                          *)
(***************************************************************************)
EXTENDS Naturals, FiniteSets, Sequences

CONSTANTS
  Handles,            \* RecoveryProfile.Handles
  Window,             \* RecoveryProfile.WindowSeconds
  MaximumGap,         \* RecoveryProfile.MaximumGapSeconds
  MinimumSamples,     \* RecoveryProfile.MinimumSamples
  EvidenceLife,       \* how long an observation is valid
  Readings,           \* what a scan may find of a handle
  LastTime,           \* bound of the clock
  MaxDisputed,        \* bound of the disputes
  LastEpisode,        \* bound of the incidents
  LastCredential      \* bound of the collector's credentials

ASSUME RecoveryAssumption ==
  {Window, MaximumGap, MinimumSamples, EvidenceLife, LastTime, LastEpisode, LastCredential} \subseteq Nat \ {0}

\* A Deployment has all it desires and at least MinimumReadyReplicas ready ones, or all it desires
\* and fewer than that, or not what it desires, or a status older than its specification.
ASSUME ReadingsAssumption == Readings \subseteq {"ready", "short", "failing", "unread"}

VARIABLES
  time,       \* the clock
  collector,  \* its generation, and whether it was revoked
  reports,    \* every report the collector made
  received,   \* for each report that was taken in, the incident it joined (0 for none)
  samples,    \* enterprise_core.health_samples
  disputed,   \* the samples whose evidence is quarantined
  episode,    \* the latest incident: its number, its state
  verdict     \* the assessment of this instant, if any: incident, status, what was disputed

recoveryVars == <<time, collector, reports, received, samples, disputed, episode, verdict>>

NoVerdict == [of |-> 0, status |-> "UNKNOWN", doubts |-> {}]

RecoveryInit ==
  /\ time = 0
  /\ collector = [generation |-> 1, revoked |-> FALSE]
  /\ reports = {} /\ received = [r \in {} |-> 0]
  /\ samples = {} /\ disputed = {}
  /\ episode = [n |-> 0, state |-> "CLOSED"]
  /\ verdict = NoVerdict

-----------------------------------------------------------------------------
(* The collector. *)

\* A report that did not arrive while its observations were valid is refused for ever.
Ticks ==
  /\ time < LastTime
  /\ time' = time + 1
  /\ reports' = {r \in reports : r \in DOMAIN received \/ time + 1 < r.at + EvidenceLife}
  /\ verdict' = NoVerdict
  /\ UNCHANGED <<collector, received, samples, disputed, episode>>

\* The observation's code, under which its item is kept.
CodeOf(reading) ==
  CASE reading \in {"ready", "short"} -> "Healthy"
    [] reading = "failing" -> "DependencyUnavailable"
    [] OTHER -> "ReadUnavailable"

\* Scan: one report, with all it could read or only a part of it.
Scan ==
  /\ ~collector.revoked
  /\ \A r \in reports : r.at # time
  /\ \E reading \in [Handles -> Readings], complete \in BOOLEAN :
       reports' = reports \cup {[at |-> time, generation |-> collector.generation,
                                 reading |-> reading, complete |-> complete]}
  /\ UNCHANGED <<time, collector, received, samples, disputed, episode, verdict>>

\* authorize: the credential is renewed before it runs out, with the next generation.
RenewCredential ==
  /\ ~collector.revoked /\ collector.generation < LastCredential
  /\ collector' = [collector EXCEPT !.generation = @ + 1]
  /\ UNCHANGED <<time, reports, received, samples, disputed, episode, verdict>>

RevokeCollector ==
  /\ ~collector.revoked
  /\ collector' = [collector EXCEPT !.revoked = TRUE]
  /\ UNCHANGED <<time, reports, received, samples, disputed, episode, verdict>>

-----------------------------------------------------------------------------
(* pkg/recovery. *)

SampleOf(r, h, n) == [of |-> n, handle |-> h, at |-> r.at, reading |-> r.reading[h],
                      complete |-> r.complete, generation |-> r.generation]

\* HealthSamples: newest first, no further back than the window can reach.
HealthSamples(from, n, h) ==
  LET rows == {s \in from : s.of = n /\ s.handle = h /\ s.at + Window + 2 * MaximumGap >= time}
      newer(s) == {t \in rows : t.at > s.at}
  IN  [i \in 1..Cardinality(rows) |-> CHOOSE s \in rows : Cardinality(newer(s)) = i - 1]

\* One turn of AssessWindow's loop, with the samples seen so far and the head of them.
\* A verdict, once given, ends the loop.
AssessAnyGap(previous, s) == s.at > previous
AssessGap(previous, s) == s.at > previous \/ previous - s.at > MaximumGap

AssessSample(walk, s) ==
  LET n == walk.n + 1
      head == IF walk.n = 0 THEN s ELSE walk.head
      status == IF AssessGap(walk.previous, s) \/ ~s.complete \/ s.generation # head.generation THEN "UNKNOWN"
                ELSE IF CodeOf(s.reading) # "Healthy" \/ s.reading = "short" THEN "NOT_RECOVERED"
                ELSE IF n >= MinimumSamples /\ head.at - s.at >= Window THEN "RECOVERED"
                ELSE "WINDOW_INCOMPLETE"
  IN  IF walk.status # "WINDOW_INCOMPLETE" THEN walk
      ELSE [n |-> n, head |-> head, previous |-> s.at, status |-> status]

NoSample == [of |-> 0, handle |-> 0, at |-> 0, reading |-> "unread", complete |-> FALSE, generation |-> 0]

\* The loop of AssessWindow: what it holds after each of the samples.
AssessWalk(seq) ==
  LET walk[i \in 0..Len(seq)] ==
        IF i = 0 THEN [n |-> 0, head |-> NoSample, previous |-> time, status |-> "WINDOW_INCOMPLETE"]
        ELSE AssessSample(walk[i - 1], seq[i])
  IN  walk

AssessWindow(seq) == AssessWalk(seq)[Len(seq)]

\* The newest sample's evidence must still have its collector's authority and be valid.
CurrentSample(s) ==
  /\ s \notin disputed /\ time < s.at + EvidenceLife
  /\ ~collector.revoked /\ s.generation = collector.generation

HandleStatus(from, n, h) ==
  LET seq == HealthSamples(from, n, h)
      walk == AssessWindow(seq)
  IN  IF walk.status # "RECOVERED" THEN walk.status
      ELSE IF CurrentSample(walk.head) /\ \A i \in 1..walk.n : seq[i] \notin disputed
             THEN "RECOVERED" ELSE "UNKNOWN"

\* AssessTx: every handle of the profile has recovered or the incident has not.  The loop stops
\* at the first that has not; which of the two other verdicts it gives makes no difference later.
Assess(from, n) ==
  [of |-> n, doubts |-> disputed,
   status |-> IF \A h \in Handles : HandleStatus(from, n, h) = "RECOVERED" THEN "RECOVERED"
              ELSE IF \E h \in Handles : HandleStatus(from, n, h) = "NOT_RECOVERED" THEN "NOT_RECOVERED" ELSE "UNKNOWN"]

-----------------------------------------------------------------------------
(* Ingest. *)

Authentic(r) == ~collector.revoked /\ r.generation = collector.generation

Open == episode.state # "CLOSED"

\* CurrentItem: an observation no newer than the one recorded under the same code is skipped,
\* so a late Healthy one is, however few replicas it saw ready.
Overtaken(r, h, n) ==
  \E s \in samples : s.of = n /\ s.handle = h /\ CodeOf(s.reading) = CodeOf(r.reading[h]) /\ s.at >= r.at

\* A code other than Healthy and ReadUnavailable opens an incident.
HasFinding(r) == \E h \in Handles : CodeOf(r.reading[h]) \notin {"Healthy", "ReadUnavailable"}

StateAfter(v, state) ==
  IF v.status = "RECOVERED" THEN "RECOVERED" ELSE IF state = "RECOVERED" THEN "OPEN" ELSE state

\* A report that is known changes nothing; one without a finding opens no incident.
Ingest(r) ==
  LET n == IF Open THEN episode.n ELSE episode.n + 1
      added == {SampleOf(r, h, n) : h \in {x \in Handles : ~Overtaken(r, x, n)}}
      v == Assess(samples \cup added, n)
  IN  /\ Authentic(r) /\ r \notin DOMAIN received
      /\ time < r.at + EvidenceLife
      /\ IF ~Open /\ ~HasFinding(r)
           THEN /\ received' = [x \in DOMAIN received \cup {r} |-> IF x = r THEN 0 ELSE received[x]]
                /\ UNCHANGED <<samples, episode, verdict>>
           ELSE /\ n <= LastEpisode
                /\ received' = [x \in DOMAIN received \cup {r} |-> IF x = r THEN n ELSE received[x]]
                /\ samples' = samples \cup added
                /\ verdict' = v
                /\ episode' = [n |-> n, state |-> StateAfter(v, IF Open THEN episode.state ELSE "OPEN")]
      /\ UNCHANGED <<time, collector, reports, disputed>>

\* assessRecovery records an assessment and leaves the incident as it is.
AssessRecovery ==
  /\ episode.n > 0
  /\ verdict' = Assess(samples, episode.n)
  /\ UNCHANGED <<time, collector, reports, received, samples, disputed, episode>>

\* closeIncident: the assessment of an incident that has not recovered is rolled back.
CloseIncident ==
  /\ episode.n > 0
  /\ Assess(samples, episode.n).status = "RECOVERED"
  /\ verdict' = Assess(samples, episode.n)
  /\ episode' = [episode EXCEPT !.state = "CLOSED"]
  /\ UNCHANGED <<time, collector, reports, received, samples, disputed>>

\* A steward finds an observation wrong (Adjudicate with FACTUAL_ERROR).
DisputeSample(s) ==
  /\ s \in samples \ disputed /\ Cardinality(disputed) < MaxDisputed
  /\ disputed' = disputed \cup {s}
  /\ UNCHANGED <<time, collector, reports, received, samples, episode, verdict>>

-----------------------------------------------------------------------------
RecoveryNext ==
  \/ Ticks \/ Scan \/ RenewCredential \/ RevokeCollector
  \/ \E r \in reports : Ingest(r)
  \/ AssessRecovery \/ CloseIncident
  \/ \E s \in samples : DisputeSample(s)

RecoverySpec == RecoveryInit /\ [][RecoveryNext]_recoveryVars

-----------------------------------------------------------------------------
\* Reports of an incident that speak for a handle's health since a time.
ChainOf(h, n, from) ==
  {r \in DOMAIN received :
     /\ received[r] = n /\ r.at >= from /\ r.complete
     /\ r.reading[h] = "ready" /\ SampleOf(r, h, n) \notin verdict.doubts}

\* An incident is called recovered only on what the collector itself saw: for every
\* handle a chain of complete reports of one credential with enough ready replicas, none
\* further than the permitted gap from the next, from within the gap of the assessment back
\* over the whole window, and none of them disputed.  Every report of that time that was taken
\* in says Healthy, however late it came; one with too few ready replicas is among them only
\* if it was skipped because a newer one had come before it (Overtaken).
RecoveredIsSustained ==
  verdict.status = "RECOVERED" =>
    \A h \in Handles : \E from \in 0..time :
      LET chain == ChainOf(h, verdict.of, from)
      IN  /\ \E c \in SUBSET chain :
               /\ Cardinality(c) >= MinimumSamples
               /\ \A r, q \in c : r.generation = q.generation
               /\ \E first, last \in c : last.at - first.at >= Window
               /\ \A r \in c : \/ time - r.at <= MaximumGap
                               \/ \E q \in c : q.at > r.at /\ q.at - r.at <= MaximumGap
          /\ \A r \in DOMAIN received :
               received[r] = verdict.of /\ r.at >= from =>
                 \/ r.reading[h] = "ready"
                 \/ r.reading[h] = "short" /\ SampleOf(r, h, verdict.of) \notin samples
=============================================================================
