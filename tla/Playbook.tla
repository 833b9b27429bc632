------------------------------- MODULE Playbook -------------------------------
(***************************************************************************)
(* The playbook service of the legacy server (pkg/playbook): operators     *)
(* import sources, a provider digests each into a playbook, people review  *)
(* it, findings are resolved by an active playbook into a remediation      *)
(* proposal, and verified outcomes are learned from.                       *)
(*                                                                         *)
(* A call of the catalog is one transaction: every write holds the writers'*)
(* lock (memory.go, postgres.go).  Between two calls of a request anything *)
(* may happen, and the request may end there (its context, a failed call). *)
(* A playbook's content is what guardrails and resolution look at.         *)
(***************************************************************************)
EXTENDS Naturals, FiniteSets

CONSTANTS
  Sources,       \* sanitized source texts; the checksum is the identity
  Malformed,     \* sources whose media type or structure is refused
  Contents,      \* contents a provider's digest may have
  SettingsSet,   \* settings an administrator may ask for
  Floors,        \* the settings of NewService
  Calls,         \* concurrent requests
  NoRow,         \* ErrCatalogNotFound, and no playbook's run
  MaxVersion,    \* bound: versions of the finding's target
  MaxIssued      \* bound: proposals

KnownActions == {"RestartPod", "ScaleWorkload", "Manual"}
\* A content: the action and target of its one step, its confidence, and whether it is
\* grounded (evidence, conditions, no unknowns).  "Exec" is an action nobody knows.
Content == [action : KnownActions \cup {"Exec"}, confidence : 0..2, grounded : BOOLEAN,
            target : {"finding", "wildcard", "outside"}]
\* ServiceSettings: actions = {} allows every action.
ServiceSettings == [enabled : BOOLEAN, minConfidence : 0..2,
                    actions : SUBSET KnownActions,
                    learning : {"AUTO_DRAFT", "OBSERVE_ONLY", "DISABLED"}]

ASSUME PlaybookAssumption ==
  /\ Contents \subseteq Content /\ Malformed \subseteq Sources
  /\ SettingsSet \subseteq ServiceSettings /\ Floors \in ServiceSettings
  /\ {MaxVersion, MaxIssued} \subseteq Nat

VARIABLES
  settings,    \* Service.settings
  sources,     \* catalog tables: sources,
  digests,     \*   digests by playbook id,
  books,       \*   playbooks by id,
  approvals,   \*   lifecycle audits,
  runs,        \*   resolution_runs,
  feedback,    \*   feedback by proposal,
  candidates,  \*   learning_candidates by proposal
  issued,      \* the engine's proposals for the finding, oldest first (pkg/remediation)
  observed,    \* resource version of the finding's target (the cluster)
  calls        \* the requests in progress

playbookCatalog == <<sources, digests, books, approvals, runs, feedback, candidates>>
playbookEngine == <<issued, observed>>
playbookVars == <<settings, playbookCatalog, playbookEngine, calls>>

IssuedIds == 1..MaxIssued
\* ids of playbooks: the checksum of a source, or the key of a learned candidate
BookIds == Sources \cup {<<"learn", p>> : p \in IssuedIds}
\* What rejectImport stores instead of the model's text.
Rejection == [action |-> "Manual", confidence |-> 0, grounded |-> FALSE, target |-> "outside"]
\* A resolution plan; its id is the checksum of the rest.
Plan == [book : BookIds, version : Nat, action : KnownActions \cup {"Exec"}, confidence : 0..2]

\* Rows of the tables, and the engine's proposals.
Book == [content : Content, state : {"NORMALIZED", "REVIEW", "ACTIVE", "REJECTED", "RETIRED"}]
OutcomeRow == [status : {"ACTIVE", "COMPLETED", "FAILED", "STALE"}, verified : BOOLEAN]
Issued == [run : Plan \cup {NoRow}, status : {"ACTIVE", "COMPLETED", "FAILED", "STALE"}, verified : BOOLEAN]

\* A learned playbook's key is no checksum, and the absence of a row is no row.
ASSUME RowAssumption ==
  /\ \A p \in IssuedIds : <<"learn", p>> \notin Sources
  /\ NoRow \notin Content \cup Book \cup Plan \cup OutcomeRow \cup Issued

NoCall == [pc |-> "idle"]

PlaybookInit ==
  /\ settings = Floors
  /\ sources = {}
  /\ digests = [b \in Sources |-> NoRow]
  /\ books = [b \in BookIds |-> NoRow]
  /\ approvals = {} /\ runs = {}
  /\ feedback = [p \in IssuedIds |-> NoRow]
  /\ candidates = {}
  /\ issued = [p \in IssuedIds |-> NoRow]
  /\ observed = 1
  /\ calls = [c \in Calls |-> NoCall]

Goto(c, call) == calls' = [calls EXCEPT ![c] = call]

-----------------------------------------------------------------------------
(* Settings and guardrails. *)

Available(v) == v.enabled

\* Fault: a lower confidence than the floor's is accepted.
WithinFloorsButConfidence(v) ==
  Floors.actions # {} => v.actions # {} /\ v.actions \subseteq Floors.actions

WithinSettingsFloors(v) ==
  /\ v.minConfidence >= Floors.minConfidence
  /\ Floors.actions # {} => v.actions # {} /\ v.actions \subseteq Floors.actions

UpdateSettings ==
  /\ \E v \in SettingsSet : WithinSettingsFloors(v) /\ settings' = v
  /\ UNCHANGED <<playbookCatalog, playbookEngine, calls>>

HasConcreteTarget(content) == content.target # "wildcard"
InScope(content) == content.target # "outside"

EvaluateGuardrails(v, content) ==
  /\ content.grounded
  /\ content.action \in KnownActions
  /\ content.confidence >= v.minConfidence
  /\ HasConcreteTarget(content) /\ InScope(content)

\* Service.guardrails; a manual step requires review (finishNormalized).
Guardrails(v, content) ==
  /\ EvaluateGuardrails(v, content)
  /\ content.action # "Manual"
  /\ v.actions # {} => content.action \in v.actions

-----------------------------------------------------------------------------
(* The catalog. *)

\* Fault: a row that is there is overwritten.
InsertOverwrites(old, new) == TRUE

\* insertImmutable: a new row, or the same one again.
InsertImmutable(old, new) == old \in {NoRow, new}

LegalTransition ==
  {<<"NORMALIZED", "REVIEW">>, <<"REVIEW", "ACTIVE">>, <<"REVIEW", "REJECTED">>, <<"ACTIVE", "RETIRED">>}

MayTransitionBook(b, to) ==
  books[b] # NoRow /\ <<books[b].state, to>> \in LegalTransition

\* transition: the audit and the state in one transaction.
TransitionBook(b, to, actor) ==
  /\ books' = [books EXCEPT ![b].state = to]
  /\ approvals' = approvals \cup {[book |-> b, to |-> to, actor |-> actor]}

-----------------------------------------------------------------------------
(* Import. *)

ValidateSource(s) == s \notin Malformed

\* prepareDigest: an action that is not known becomes a manual one.
PrepareDigest(content) ==
  IF content.action \in KnownActions THEN content ELSE [content EXCEPT !.action = "Manual"]

\* Up to SaveSource.  What the source became before is returned as it is.
ImportStarts(c, s) ==
  /\ calls[c] = NoCall
  /\ Available(settings) /\ ValidateSource(s)
  /\ books[s] = NoRow
  /\ sources' = sources \cup {s}
  /\ Goto(c, [pc |-> "digest", book |-> s])
  /\ UNCHANGED <<settings, digests, books, approvals, runs, feedback, candidates, playbookEngine>>

\* The provider answers.  What does not decode or validate goes on as a rejection.
ImportDigested(c) ==
  /\ calls[c].pc = "digest"
  /\ \E content \in {PrepareDigest(d) : d \in Contents} \cup {Rejection} :
       Goto(c, [pc |-> IF content = Rejection THEN "saveDigest" ELSE "reuse",
                book |-> calls[c].book, content |-> content])
  /\ UNCHANGED <<settings, playbookCatalog, playbookEngine>>

\* reuseImport: the hash covers id and content, so only the same source's own
\* playbook with the same content is found.
ReuseImport(c) ==
  /\ calls[c].pc = "reuse"
  /\ LET b == calls[c].book
         found == books[b] # NoRow /\ books[b].content = calls[c].content
     IN  IF found
           THEN /\ Goto(c, NoCall)
                /\ IF books[b].state = "NORMALIZED"
                     THEN TransitionBook(b, "REVIEW", "operator")
                     ELSE UNCHANGED <<books, approvals>>
           ELSE Goto(c, [calls[c] EXCEPT !.pc = "saveDigest"]) /\ UNCHANGED <<books, approvals>>
  /\ UNCHANGED <<settings, sources, digests, runs, feedback, candidates, playbookEngine>>

SaveDigest(c) ==
  /\ calls[c].pc = "saveDigest"
  /\ LET b == calls[c].book
     IN  IF InsertImmutable(digests[b], calls[c].content)
           THEN /\ digests' = [digests EXCEPT ![b] = calls[c].content]
                /\ Goto(c, [calls[c] EXCEPT !.pc = "savePlaybook"])
           ELSE Goto(c, NoCall) /\ UNCHANGED digests
  /\ UNCHANGED <<settings, sources, books, approvals, runs, feedback, candidates, playbookEngine>>

\* A conflict with the same source's playbook of another content ends the import.
SavePlaybook(c) ==
  /\ calls[c].pc = "savePlaybook"
  /\ LET b == calls[c].book
         old == IF books[b] = NoRow THEN NoRow ELSE books[b].content
     IN  IF InsertImmutable(old, calls[c].content)
           THEN /\ books' = IF old = calls[c].content THEN books
                            ELSE [books EXCEPT ![b] = [content |-> calls[c].content, state |-> "NORMALIZED"]]
                /\ Goto(c, [calls[c] EXCEPT !.pc = "review"])
           ELSE Goto(c, NoCall) /\ UNCHANGED books
  /\ UNCHANGED <<settings, sources, digests, approvals, runs, feedback, candidates, playbookEngine>>

\* The last transitions: to REVIEW, and for a rejection on to REJECTED.
ImportReviewed(c) ==
  /\ calls[c].pc \in {"review", "reject"}
  /\ LET b == calls[c].book
         to == IF calls[c].pc = "review" THEN "REVIEW" ELSE "REJECTED"
         rejection == calls[c].content = Rejection
     IN  IF MayTransitionBook(b, to)
           THEN /\ TransitionBook(b, to, IF rejection THEN "playbook-service" ELSE "operator")
                /\ Goto(c, IF rejection /\ to = "REVIEW" THEN [calls[c] EXCEPT !.pc = "reject"] ELSE NoCall)
           ELSE Goto(c, NoCall) /\ UNCHANGED <<books, approvals>>
  /\ UNCHANGED <<settings, sources, digests, runs, feedback, candidates, playbookEngine>>

-----------------------------------------------------------------------------
(* Service.Transition. *)

\* Activation asks settings and guardrails before the catalog's transaction.
TransitionAsked(c, b, to) ==
  /\ calls[c] = NoCall
  /\ books[b] # NoRow
  /\ to = "ACTIVE" => Available(settings) /\ Guardrails(settings, books[b].content)
  /\ Goto(c, [pc |-> "transition", book |-> b, to |-> to])
  /\ UNCHANGED <<settings, playbookCatalog, playbookEngine>>

TransitionCommitted(c) ==
  /\ calls[c].pc = "transition"
  /\ IF MayTransitionBook(calls[c].book, calls[c].to)
       THEN TransitionBook(calls[c].book, calls[c].to, "operator")
       ELSE UNCHANGED <<books, approvals>>
  /\ Goto(c, NoCall)
  /\ UNCHANGED <<settings, sources, digests, runs, feedback, candidates, playbookEngine>>

-----------------------------------------------------------------------------
(* Resolve. *)

ListActive == {b \in BookIds : books[b] # NoRow /\ books[b].state = "ACTIVE"}

ExactBinding(b) == books[b].content.target = "finding"

\* Select an active playbook the settings allow; finding and evidence are recorded.
ResolveStarts(c) ==
  /\ calls[c] = NoCall
  /\ Available(settings)
  /\ \E b \in ListActive :
       /\ ExactBinding(b) /\ Guardrails(settings, books[b].content)
       /\ Goto(c, [pc |-> "resolve", book |-> b, version |-> observed])
  /\ UNCHANGED <<settings, playbookCatalog, playbookEngine>>

\* The plan is about this finding, evidence and playbook, and keeps its one step.
ValidResolution(plan, book, v) ==
  /\ plan.action = book.content.action /\ plan.action # "Manual"
  /\ plan.confidence >= v.minConfidence
  /\ v.actions # {} => plan.action \in v.actions

\* The settings and the playbook are read again after the provider's answer.
StillGrounded(plan, book) ==
  /\ Available(settings)
  /\ book.state = "ACTIVE"
  /\ Guardrails(settings, book.content)
  /\ ValidResolution(plan, book, settings)

\* The provider's plan, as free as the model is to invent one.
ResolvePlanned(c) ==
  /\ calls[c].pc = "resolve"
  /\ \E content \in Contents :
       LET b == calls[c].book
       IN  Goto(c, IF StillGrounded(content, books[b])
                     THEN [pc |-> "record",
                           run |-> [book |-> b, version |-> calls[c].version,
                                    action |-> content.action, confidence |-> content.confidence]]
                     ELSE NoCall)
  /\ UNCHANGED <<settings, playbookCatalog, playbookEngine>>

RecordResolution(c) ==
  /\ calls[c].pc = "record"
  /\ runs' = runs \cup {calls[c].run}
  /\ Goto(c, [calls[c] EXCEPT !.pc = "propose"])
  /\ UNCHANGED <<settings, sources, digests, books, approvals, feedback, candidates, playbookEngine>>

ActiveIssued == {p \in IssuedIds : issued[p] # NoRow /\ issued[p].status = "ACTIVE"}
NextIssued == {p \in IssuedIds : issued[p] = NoRow /\ \A q \in 1..p - 1 : issued[q] # NoRow}

\* CreateProposalForActor: the finding's active proposal is the answer, if there is one.
ProposeResolution(c) ==
  /\ calls[c].pc = "propose"
  /\ IF ActiveIssued = {}
       THEN \E p \in NextIssued :
              issued' = [issued EXCEPT ![p] = [run |-> calls[c].run, status |-> "ACTIVE", verified |-> FALSE]]
       ELSE UNCHANGED issued
  /\ Goto(c, NoCall)
  /\ UNCHANGED <<settings, playbookCatalog, observed>>

-----------------------------------------------------------------------------
(* The remediation engine and the cluster, as this service sees them. *)

\* A proposal without a playbook for the same finding.
OtherProposal ==
  /\ ActiveIssued = {}
  /\ \E p \in NextIssued :
       issued' = [issued EXCEPT ![p] = [run |-> NoRow, status |-> "ACTIVE", verified |-> FALSE]]
  /\ UNCHANGED <<settings, playbookCatalog, observed, calls>>

\* Execution pins the version the proposal saw; what took effect changes the target.  "FAILED"
\* stands for REJECTED and EXPIRED too: RecordOutcome takes them alike, and nothing took effect.
ProposalEnds ==
  /\ \E p \in ActiveIssued, status \in {"COMPLETED", "FAILED", "STALE"}, verified \in BOOLEAN :
       /\ verified => status = "COMPLETED"
       /\ status = "COMPLETED" /\ issued[p].run # NoRow =>
            issued[p].run.version = observed /\ observed < MaxVersion
       /\ issued' = [issued EXCEPT ![p].status = status, ![p].verified = verified]
       /\ observed' = IF status = "COMPLETED" /\ observed < MaxVersion THEN observed + 1 ELSE observed
  /\ UNCHANGED <<settings, playbookCatalog, calls>>

-----------------------------------------------------------------------------
(* Outcomes. *)

Outcome(p) == [status |-> issued[p].status, verified |-> issued[p].verified]

Terminal(p) == issued[p] # NoRow /\ issued[p].status # "ACTIVE" /\ issued[p].run # NoRow

\* RecordOutcome, the terminal audit: independent of settings and provider.
RecordOutcome(p) ==
  /\ Terminal(p) /\ issued[p].run \in runs
  /\ InsertImmutable(feedback[p], Outcome(p))
  /\ feedback' = [feedback EXCEPT ![p] = Outcome(p)]
  /\ UNCHANGED <<settings, sources, digests, books, approvals, runs, candidates, playbookEngine, calls>>

\* Fault: a completed outcome is learned from, verified or not.
LearnsFromCompleted(p) == issued[p].status = "COMPLETED"

LearnsFrom(p) == issued[p].status = "COMPLETED" /\ issued[p].verified

\* ObserveOutcome up to the provider: record, and go on for a verified success that has
\* no candidate yet.
ObserveOutcome(c, p) ==
  /\ calls[c] = NoCall
  /\ settings.learning # "DISABLED"
  /\ Terminal(p) /\ issued[p].run \in runs
  /\ InsertImmutable(feedback[p], Outcome(p))
  /\ feedback' = [feedback EXCEPT ![p] = Outcome(p)]
  /\ IF /\ LearnsFrom(p)
        /\ settings.learning = "AUTO_DRAFT" /\ Available(settings)
        /\ p \notin candidates
       THEN Goto(c, [pc |-> "learn", proposal |-> p])
       ELSE UNCHANGED calls
  /\ UNCHANGED <<settings, sources, digests, books, approvals, runs, candidates, playbookEngine>>

\* The draft keeps the action that was executed.
KeepsAction(content, run) == content.action = run.action

\* The provider's draft, then the settings of now.
LearnDrafted(c) ==
  /\ calls[c].pc = "learn"
  /\ \/ \E content \in {PrepareDigest(d) : d \in Contents} :
          /\ KeepsAction(content, issued[calls[c].proposal].run)
          /\ settings.enabled /\ settings.learning = "AUTO_DRAFT"
          /\ Guardrails(settings, content)
          /\ Goto(c, [pc |-> "candidate", proposal |-> calls[c].proposal, content |-> content])
     \/ Goto(c, NoCall)
  /\ UNCHANGED <<settings, playbookCatalog, playbookEngine>>

\* RecordLearningCandidate: candidate, playbook and its REVIEW in one transaction;
\* a candidate that is there already is the end of it.
RecordLearningCandidate(c) ==
  /\ calls[c].pc = "candidate"
  /\ LET p == calls[c].proposal
         b == <<"learn", p>>
     IN  IF p \notin candidates /\ books[b] = NoRow /\ issued[p].run \in runs
           THEN /\ candidates' = candidates \cup {p}
                /\ books' = [books EXCEPT ![b] = [content |-> calls[c].content, state |-> "REVIEW"]]
                /\ approvals' = approvals \cup {[book |-> b, to |-> "REVIEW", actor |-> "learning"]}
           ELSE UNCHANGED <<candidates, books, approvals>>
  /\ Goto(c, NoCall)
  /\ UNCHANGED <<settings, sources, digests, runs, feedback, playbookEngine>>

-----------------------------------------------------------------------------

\* A request ends between two calls: its deadline, a provider or catalog that fails.
CallEnds(c) ==
  /\ calls[c] # NoCall
  /\ Goto(c, NoCall)
  /\ UNCHANGED <<settings, playbookCatalog, playbookEngine>>

PlaybookNext ==
  \/ UpdateSettings
  \/ \E c \in Calls :
       \/ \E s \in Sources : ImportStarts(c, s)
       \/ ImportDigested(c)
       \/ ReuseImport(c)
       \/ SaveDigest(c)
       \/ SavePlaybook(c)
       \/ ImportReviewed(c)
       \/ \E b \in BookIds, to \in {"REVIEW", "ACTIVE", "REJECTED", "RETIRED"} : TransitionAsked(c, b, to)
       \/ TransitionCommitted(c)
       \/ ResolveStarts(c)
       \/ ResolvePlanned(c)
       \/ RecordResolution(c)
       \/ ProposeResolution(c)
       \/ \E p \in IssuedIds : ObserveOutcome(c, p)
       \/ LearnDrafted(c)
       \/ RecordLearningCandidate(c)
       \/ CallEnds(c)
  \/ OtherProposal
  \/ ProposalEnds
  \/ \E p \in IssuedIds : RecordOutcome(p)

PlaybookSpec == PlaybookInit /\ [][PlaybookNext]_playbookVars

-----------------------------------------------------------------------------
(* Properties. *)

\* A playbook's proposal has a recorded run, of the stored action of a playbook that
\* people had activated, and its action and confidence are within the floors the service
\* was started with, whatever settings and lifecycles became while providers answered
\* (Resolve, Transition, UpdateSettings).
ProposalsAreGrounded ==
  \A p \in IssuedIds :
    issued[p] # NoRow /\ issued[p].run # NoRow =>
      LET run == issued[p].run
      IN  /\ run \in runs
          /\ books[run.book].content.action = run.action
          /\ [book |-> run.book, to |-> "ACTIVE", actor |-> "operator"] \in approvals
          /\ run.action \notin {"Manual", "Exec"}
          /\ run.confidence >= Floors.minConfidence
          /\ Floors.actions # {} => run.action \in Floors.actions

\* Imports of one source that race or are repeated after a failure agree: the stored
\* playbook is the normal form of the stored digest, and one of a rejection is never
\* activated (Import, rejectImport, insertImmutable).
ImportIsOne ==
  \A s \in Sources :
    books[s] # NoRow =>
      /\ s \in sources /\ digests[s] = books[s].content
      /\ digests[s] = Rejection => books[s].state \notin {"ACTIVE", "RETIRED"}

\* A learned playbook stems from the recorded, verified success of one proposal, keeps the
\* action that was executed, and is active only if a person said so (ObserveOutcome,
\* RecordLearningCandidate).
LearnedIsVerified ==
  \A p \in IssuedIds :
    LET b == <<"learn", p>>
    IN  /\ books[b] # NoRow <=> p \in candidates
        /\ p \in candidates =>
             /\ feedback[p] = [status |-> "COMPLETED", verified |-> TRUE]
             /\ books[b].content.action = issued[p].run.action
             /\ books[b].state = "ACTIVE" =>
                  [book |-> b, to |-> "ACTIVE", actor |-> "operator"] \in approvals
=============================================================================
