-------------------------- MODULE OperationsProofs --------------------------
(***************************************************************************)
(* Proofs about what runs beside the control plane: playbooks, the         *)
(* scheduler and its triggers, the user configuration, the life of the     *)
(* standalone server, the history of findings and the analyzers that find  *)
(* them.  They share no state.                                             *)
(***************************************************************************)
EXTENDS Playbook, ScanHistory, Analyzers, Scheduler, UserConfig, LegacyServer, TLAPS

-----------------------------------------------------------------------------
(* Playbooks. *)

BookStates == {"NORMALIZED", "REVIEW", "ACTIVE", "REJECTED", "RETIRED"}
ImportPcs == {"reuse", "saveDigest", "savePlaybook", "review", "reject"}

\* What a request remembers at each of its calls.
DigestCall == [pc : {"digest"}, book : Sources]
ImportCall == [pc : ImportPcs, book : Sources, content : Content]
TransitionCall == [pc : {"transition"}, book : BookIds, to : {"REVIEW", "ACTIVE", "REJECTED", "RETIRED"}]
ResolveCall == [pc : {"resolve"}, book : BookIds, version : Nat]
PlanCall == [pc : {"record", "propose"}, run : Plan]
LearnCall == [pc : {"learn"}, proposal : IssuedIds]
CandidateCall == [pc : {"candidate"}, proposal : IssuedIds, content : Content]
CallRow ==
  {NoCall} \cup DigestCall \cup ImportCall \cup TransitionCall \cup ResolveCall \cup PlanCall
    \cup LearnCall \cup CandidateCall

Approval == [book : BookIds, to : BookStates, actor : {"operator", "playbook-service", "learning"}]

PlaybookTypeOK ==
  /\ settings \in ServiceSettings
  /\ sources \subseteq Sources
  /\ digests \in [Sources -> Content \cup {NoRow}]
  /\ books \in [BookIds -> Book \cup {NoRow}]
  /\ approvals \subseteq Approval
  /\ runs \subseteq Plan
  /\ feedback \in [IssuedIds -> OutcomeRow \cup {NoRow}]
  /\ candidates \subseteq IssuedIds
  /\ issued \in [IssuedIds -> Issued \cup {NoRow}]
  /\ observed \in Nat
  /\ calls \in [Calls -> CallRow]

\* An operator activated the playbook.
Activated(b) == [book |-> b, to |-> "ACTIVE", actor |-> "operator"] \in approvals

\* What a plan was made from stays true of the catalog.
PlanHolds(plan) ==
  /\ books[plan.book] # NoRow
  /\ books[plan.book].content.action = plan.action
  /\ Activated(plan.book)
  /\ plan.action \notin {"Manual", "Exec"}
  /\ plan.confidence >= Floors.minConfidence
  /\ Floors.actions # {} => plan.action \in Floors.actions

\* What a request counts on between two of its calls.
CallHolds(k) ==
  /\ k.pc \in ImportPcs \cup {"digest"} => k.book \in sources
  /\ k.pc \in {"savePlaybook", "review", "reject"} => digests[k.book] = k.content
  /\ k.pc \in {"transition", "resolve"} => books[k.book] # NoRow
  /\ k.pc = "transition" => (k.to = "ACTIVE" => books[k.book].content.grounded)
  /\ k.pc \in {"record", "propose"} => PlanHolds(k.run)
  /\ k.pc = "propose" => k.run \in runs
  /\ k.pc \in {"learn", "candidate"} =>
       /\ issued[k.proposal] # NoRow /\ issued[k.proposal].run # NoRow
       /\ feedback[k.proposal] = [status |-> "COMPLETED", verified |-> TRUE]
  /\ k.pc = "candidate" => k.content.action = issued[k.proposal].run.action

CallsHold == \A c \in Calls : CallHolds(calls[c])

\* An active playbook was activated, what was ever active is grounded, and an imported one
\* is its source's digest.
BookHolds(b) ==
  books[b] # NoRow =>
    /\ books[b].state = "ACTIVE" => Activated(b)
    /\ books[b].state \in {"ACTIVE", "RETIRED"} => books[b].content.grounded
    /\ b \in Sources => b \in sources /\ digests[b] = books[b].content

BooksHold == \A b \in BookIds : BookHolds(b)

IssuedHolds ==
  \A p \in IssuedIds : issued[p] # NoRow /\ issued[p].run # NoRow =>
    issued[p].run \in runs /\ PlanHolds(issued[p].run)

LearnHolds ==
  \A p \in IssuedIds :
    /\ books[<<"learn", p>>] # NoRow <=> p \in candidates
    /\ p \in candidates =>
         /\ issued[p] # NoRow /\ issued[p].run # NoRow
         /\ feedback[p] = [status |-> "COMPLETED", verified |-> TRUE]
         /\ books[<<"learn", p>>].content.action = issued[p].run.action

PlaybookInv ==
  /\ PlaybookTypeOK /\ WithinSettingsFloors(settings)
  /\ CallsHold /\ BooksHold /\ IssuedHolds /\ LearnHolds

\* What every step keeps of the catalog and the engine: rows are added and never replaced.
Grows ==
  /\ sources \subseteq sources' /\ approvals \subseteq approvals' /\ runs \subseteq runs'
  /\ \A s \in Sources : digests[s] # NoRow => digests'[s] = digests[s]
  /\ \A b \in BookIds : books[b] # NoRow => books'[b] # NoRow /\ books'[b].content = books[b].content
  /\ \A p \in IssuedIds : feedback[p] # NoRow => feedback'[p] = feedback[p]
  /\ \A p \in IssuedIds : issued[p] # NoRow => issued'[p] # NoRow /\ issued'[p].run = issued[p].run

-----------------------------------------------------------------------------

\* What a request remembers is told by where it is.
LEMMA CallShape ==
  ASSUME NEW k \in CallRow
  PROVE  /\ k.pc = "digest" => k \in DigestCall
         /\ k.pc \in ImportPcs => k \in ImportCall
         /\ k.pc = "transition" => k \in TransitionCall
         /\ k.pc = "resolve" => k \in ResolveCall
         /\ k.pc \in {"record", "propose"} => k \in PlanCall
         /\ k.pc = "learn" => k \in LearnCall
         /\ k.pc = "candidate" => k \in CandidateCall
  BY DEF CallRow, NoCall, DigestCall, ImportCall, TransitionCall, ResolveCall, PlanCall, LearnCall,
         CandidateCall, ImportPcs

LEMMA SuccessIsARow ==
  /\ [status |-> "COMPLETED", verified |-> TRUE] \in OutcomeRow
  /\ [status |-> "COMPLETED", verified |-> TRUE] # NoRow
<1>1. [status |-> "COMPLETED", verified |-> TRUE] \in OutcomeRow
  BY DEF OutcomeRow
<1> QED
  BY <1>1, RowAssumption

LEMMA PlanKept ==
  ASSUME NEW plan \in Plan, PlanHolds(plan), Grows
  PROVE  PlanHolds(plan)'
  BY DEF PlanHolds, Activated, Grows, Plan

LEMMA CallKept ==
  ASSUME PlaybookTypeOK, Grows, NEW k \in CallRow, CallHolds(k)
  PROVE  CallHolds(k)'
<1>1. ASSUME k.pc \in ImportPcs \cup {"digest"}
      PROVE  k.book \in sources'
  BY <1>1 DEF CallHolds, Grows
<1>2. ASSUME k.pc \in {"savePlaybook", "review", "reject"}
      PROVE  digests'[k.book] = k.content
  <2>1. k \in ImportCall
    BY <1>2, CallShape DEF ImportPcs
  <2>2. digests[k.book] = k.content /\ k.content # NoRow
    BY <1>2, <2>1, RowAssumption DEF CallHolds, ImportCall
  <2> QED
    BY <2>1, <2>2 DEF Grows, ImportCall
<1>3. ASSUME k.pc \in {"transition", "resolve"}
      PROVE  /\ books'[k.book] # NoRow
             /\ k.pc = "transition" => (k.to = "ACTIVE" => books'[k.book].content.grounded)
  <2>1. k.book \in BookIds
    BY <1>3, CallShape DEF TransitionCall, ResolveCall
  <2> QED
    BY <1>3, <2>1 DEF Grows, CallHolds
<1>4. ASSUME k.pc \in {"record", "propose"}
      PROVE  PlanHolds(k.run)' /\ (k.pc = "propose" => k.run \in runs')
  <2>1. k.run \in Plan
    BY <1>4, CallShape DEF PlanCall
  <2>2. PlanHolds(k.run)
    BY <1>4 DEF CallHolds
  <2>3. PlanHolds(k.run)'
    BY <2>1, <2>2, PlanKept
  <2> QED
    BY <1>4, <2>3 DEF Grows, CallHolds
<1>5. ASSUME k.pc \in {"learn", "candidate"}
      PROVE  /\ issued'[k.proposal] # NoRow /\ issued'[k.proposal].run # NoRow
             /\ feedback'[k.proposal] = [status |-> "COMPLETED", verified |-> TRUE]
             /\ k.pc = "candidate" => k.content.action = issued'[k.proposal].run.action
  <2>1. k.proposal \in IssuedIds
    BY <1>5, CallShape DEF LearnCall, CandidateCall
  <2>2. feedback[k.proposal] # NoRow
    BY <1>5, <2>1, SuccessIsARow DEF CallHolds
  <2> QED
    BY <1>5, <2>1, <2>2 DEF Grows, CallHolds
<1> QED
  BY <1>1, <1>2, <1>3, <1>4, <1>5 DEF CallHolds

\* A request goes on to a call whose promise holds; the others' promises are kept.
LEMMA CallsKept ==
  ASSUME PlaybookTypeOK, CallsHold, Grows, NEW c \in Calls, NEW k \in CallRow, CallHolds(k)',
         calls' = [calls EXCEPT ![c] = k]
  PROVE  CallsHold' /\ calls' \in [Calls -> CallRow]
<1>1. calls' \in [Calls -> CallRow]
  BY DEF PlaybookTypeOK
<1>2. SUFFICES ASSUME NEW d \in Calls PROVE CallHolds(calls[d])'
  BY <1>1 DEF CallsHold
<1>3. CASE d = c
  BY <1>3 DEF PlaybookTypeOK
<1>4. CASE d # c
  <2>1. PICK q \in CallRow : q = calls[d]
    BY DEF PlaybookTypeOK
  <2>2. q = calls'[d] /\ CallHolds(q)
    BY <1>4, <2>1 DEF PlaybookTypeOK, CallsHold
  <2>3. CallHolds(q)'
    BY <2>2, CallKept
  <2> QED
    BY <2>2, <2>3
<1> QED
  BY <1>3, <1>4

\* The same when no request moves.
LEMMA CallsKeptStill ==
  ASSUME PlaybookTypeOK, CallsHold, Grows, UNCHANGED calls
  PROVE  CallsHold'
<1>1. SUFFICES ASSUME NEW d \in Calls PROVE CallHolds(calls[d])'
  BY DEF CallsHold
<1>2. PICK q \in CallRow : q = calls[d]
  BY DEF PlaybookTypeOK
<1>3. CallHolds(q)'
  BY <1>2, CallKept DEF CallsHold
<1> QED
  BY <1>2, <1>3

LEMMA IssuedKept ==
  ASSUME PlaybookTypeOK, IssuedHolds, Grows, UNCHANGED issued
  PROVE  IssuedHolds'
<1>1. SUFFICES ASSUME NEW p \in IssuedIds, issued[p] # NoRow, issued[p].run # NoRow
               PROVE  issued[p].run \in runs' /\ PlanHolds(issued[p].run)'
  BY DEF IssuedHolds
<1>2. PICK plan \in Plan : plan = issued[p].run
  BY <1>1 DEF PlaybookTypeOK, Issued
<1>3. PlanHolds(plan)'
  BY <1>1, <1>2, PlanKept DEF IssuedHolds
<1> QED
  BY <1>1, <1>2, <1>3 DEF IssuedHolds, Grows

LEMMA BooksKept ==
  ASSUME PlaybookTypeOK, BooksHold, Grows, UNCHANGED books
  PROVE  BooksHold'
<1>1. SUFFICES ASSUME NEW b \in BookIds PROVE BookHolds(b)'
  BY DEF BooksHold
<1>2. BookHolds(b)
  BY DEF BooksHold
<1>3. CASE books[b] # NoRow
  <2>1. books[b].content # NoRow
    BY <1>3, RowAssumption DEF PlaybookTypeOK, Book
  <2> QED
    BY <1>2, <1>3, <2>1 DEF BookHolds, Grows, Activated
<1>4. CASE books[b] = NoRow
  BY <1>4 DEF BookHolds
<1> QED
  BY <1>3, <1>4

LEMMA LearnKept ==
  ASSUME PlaybookTypeOK, LearnHolds, Grows, UNCHANGED candidates,
         \A p \in IssuedIds : books'[<<"learn", p>>] # NoRow <=> books[<<"learn", p>>] # NoRow
  PROVE  LearnHolds'
<1>1. SUFFICES ASSUME NEW p \in IssuedIds
      PROVE  /\ books'[<<"learn", p>>] # NoRow <=> p \in candidates
             /\ p \in candidates =>
                  /\ issued'[p] # NoRow /\ issued'[p].run # NoRow
                  /\ feedback'[p] = [status |-> "COMPLETED", verified |-> TRUE]
                  /\ books'[<<"learn", p>>].content.action = issued'[p].run.action
  BY DEF LearnHolds
<1>2. <<"learn", p>> \in BookIds
  BY DEF BookIds
<1>3. [status |-> "COMPLETED", verified |-> TRUE] # NoRow
  BY SuccessIsARow
<1> QED
  BY <1>1, <1>2, <1>3 DEF LearnHolds, Grows

-----------------------------------------------------------------------------

\* A request that only goes on, with what it may count on.
LEMMA RequestMoves ==
  ASSUME PlaybookInv, NEW c \in Calls, NEW k \in CallRow, CallHolds(k),
         calls' = [calls EXCEPT ![c] = k], UNCHANGED <<settings, playbookCatalog, playbookEngine>>
  PROVE  PlaybookInv'
<1> USE DEF PlaybookInv, playbookCatalog, playbookEngine
<1>1. Grows
  BY DEF Grows
<1>2. CallHolds(k)'
  BY <1>1, CallKept
<1>3. CallsHold' /\ calls' \in [Calls -> CallRow]
  BY <1>1, <1>2, CallsKept
<1>4. BooksHold' /\ IssuedHolds'
  BY <1>1, BooksKept, IssuedKept
<1>5. LearnHolds'
  BY <1>1, LearnKept
<1> QED
  BY <1>3, <1>4, <1>5 DEF PlaybookTypeOK, WithinSettingsFloors

LEMMA IdleHolds == NoCall \in CallRow /\ CallHolds(NoCall)
  BY DEF NoCall, CallRow, CallHolds, ImportPcs

\* A transition of a playbook, of which activation is an operator's and of grounded content.
LEMMA TransitionKeeps ==
  ASSUME PlaybookInv, NEW b \in BookIds, NEW to \in BookStates,
         NEW actor \in {"operator", "playbook-service", "learning"},
         MayTransitionBook(b, to), TransitionBook(b, to, actor),
         to = "ACTIVE" => actor = "operator" /\ books[b].content.grounded,
         UNCHANGED <<settings, sources, digests, runs, feedback, candidates, playbookEngine>>
  PROVE  /\ Grows /\ BooksHold' /\ IssuedHolds' /\ LearnHolds'
         /\ books' \in [BookIds -> Book \cup {NoRow}] /\ approvals' \subseteq Approval
<1> USE DEF PlaybookInv, playbookEngine
<1> DEFINE row == [books[b] EXCEPT !.state = to]
<1>1. books[b] \in Book /\ books[b] # NoRow
  BY DEF MayTransitionBook, PlaybookTypeOK
<1>2. row \in Book /\ row.content = books[b].content /\ row.state = to
  BY <1>1 DEF Book, BookStates
<1>3. row # NoRow
  BY <1>2, RowAssumption
<1>4. books' = [books EXCEPT ![b] = row]
  BY DEF TransitionBook
<1> HIDE DEF row
<1>5. books' \in [BookIds -> Book \cup {NoRow}]
  BY <1>2, <1>4 DEF PlaybookTypeOK
<1>6. approvals' \subseteq Approval
  BY DEF TransitionBook, Approval, PlaybookTypeOK
<1>7. Grows
  BY <1>1, <1>2, <1>3, <1>4 DEF Grows, TransitionBook, PlaybookTypeOK
<1>8. BooksHold'
  <2>1. SUFFICES ASSUME NEW d \in BookIds PROVE BookHolds(d)'
    BY DEF BooksHold
  <2>2. BookHolds(d)
    BY DEF BooksHold
  <2>3. CASE d # b
    BY <1>4, <1>5, <2>2, <2>3 DEF BookHolds, Activated, TransitionBook, PlaybookTypeOK
  <2>4. CASE d = b
    <3>1. to = "ACTIVE" => Activated(b)'
      BY DEF TransitionBook, Activated
    <3>2. to \in {"ACTIVE", "RETIRED"} => books[b].content.grounded
      BY <1>1, <2>2, <2>4 DEF BookHolds, MayTransitionBook, LegalTransition
    <3> QED
      BY <1>1, <1>2, <1>3, <1>4, <2>2, <2>4, <3>1, <3>2 DEF BookHolds, PlaybookTypeOK
  <2> QED
    BY <2>3, <2>4
<1>9. IssuedHolds'
  BY <1>7, IssuedKept
<1>10. LearnHolds'
  <2>1. \A p \in IssuedIds : <<"learn", p>> \in BookIds
    BY DEF BookIds
  <2> QED
    BY <1>1, <1>3, <1>4, <1>7, <2>1, LearnKept DEF PlaybookTypeOK
<1> QED
  BY <1>5, <1>6, <1>7, <1>8, <1>9, <1>10

-----------------------------------------------------------------------------

LEMMA UpdateSettingsKeeps ==
  ASSUME PlaybookInv, UpdateSettings
  PROVE  PlaybookInv'
<1> USE DEF PlaybookInv, UpdateSettings, playbookCatalog, playbookEngine
<1>1. Grows
  BY DEF Grows
<1>2. CallsHold' /\ BooksHold' /\ IssuedHolds'
  BY <1>1, BooksKept, IssuedKept, CallsKeptStill
<1>3. LearnHolds'
  BY <1>1, LearnKept
<1>4. settings' \in ServiceSettings /\ WithinSettingsFloors(settings)'
  BY PlaybookAssumption DEF WithinSettingsFloors
<1> QED
  BY <1>2, <1>3, <1>4 DEF PlaybookTypeOK

LEMMA ImportStartsKeeps ==
  ASSUME PlaybookInv, NEW c \in Calls, NEW s \in Sources, ImportStarts(c, s)
  PROVE  PlaybookInv'
<1> USE DEF PlaybookInv, ImportStarts, playbookEngine
<1> DEFINE k == [pc |-> "digest", book |-> s]
<1>1. k \in CallRow /\ k.pc = "digest" /\ k.book = s
  BY DEF CallRow, DigestCall
<1>2. calls' = [calls EXCEPT ![c] = k]
  BY DEF Goto
<1> HIDE DEF k
<1>3. Grows
  BY DEF Grows
<1>4. CallHolds(k)'
  BY <1>1 DEF CallHolds, ImportPcs
<1>5. CallsHold' /\ calls' \in [Calls -> CallRow]
  BY <1>1, <1>2, <1>3, <1>4, CallsKept
<1>6. BooksHold' /\ IssuedHolds'
  BY <1>3, BooksKept, IssuedKept
<1>7. LearnHolds'
  BY <1>3, LearnKept
<1> QED
  BY <1>5, <1>6, <1>7 DEF PlaybookTypeOK, WithinSettingsFloors

\* What a provider answers is content, and so is its normal form.
LEMMA PreparedIsContent ==
  \A d \in Contents : d \in Content /\ PrepareDigest(d) \in Content
<1>1. SUFFICES ASSUME NEW d \in Contents PROVE d \in Content /\ PrepareDigest(d) \in Content
  OBVIOUS
<1>2. d \in Content
  BY PlaybookAssumption
<1>3. [d EXCEPT !.action = "Manual"] \in Content
  BY <1>2 DEF Content, KnownActions
<1> QED
  BY <1>2, <1>3 DEF PrepareDigest

LEMMA RejectionIsContent == Rejection \in Content /\ ~Rejection.grounded
  BY DEF Rejection, Content, KnownActions

LEMMA ImportDigestedKeeps ==
  ASSUME PlaybookInv, NEW c \in Calls, ImportDigested(c)
  PROVE  PlaybookInv'
<1>1. PICK content \in {PrepareDigest(d) : d \in Contents} \cup {Rejection} :
        Goto(c, [pc |-> IF content = Rejection THEN "saveDigest" ELSE "reuse",
                 book |-> calls[c].book, content |-> content])
  BY DEF ImportDigested
<1> DEFINE at == IF content = Rejection THEN "saveDigest" ELSE "reuse"
           b == calls[c].book
           k == [pc |-> at, book |-> b, content |-> content]
<1>2. content \in Content
  BY <1>1, PreparedIsContent, RejectionIsContent
<1>3. b \in Sources /\ b \in sources
  BY CallShape DEF ImportDigested, PlaybookInv, PlaybookTypeOK, DigestCall, CallsHold, CallHolds
<1>4. at \in {"saveDigest", "reuse"}
  OBVIOUS
<1>5. calls' = [calls EXCEPT ![c] = k]
  BY <1>1 DEF Goto
<1> HIDE DEF at, b
<1>6. k \in ImportCall /\ k.pc \in {"saveDigest", "reuse"} /\ k.book = b
  BY <1>2, <1>3, <1>4 DEF ImportCall, ImportPcs
<1> HIDE DEF k
<1>7. k \in CallRow /\ CallHolds(k)
  BY <1>3, <1>6 DEF CallHolds, CallRow
<1> QED
  BY <1>5, <1>7, RequestMoves DEF ImportDigested

LEMMA ReuseImportKeeps ==
  ASSUME PlaybookInv, NEW c \in Calls, ReuseImport(c)
  PROVE  PlaybookInv'
<1> DEFINE b == calls[c].book
           found == books[b] # NoRow /\ books[b].content = calls[c].content
<1>1. calls[c] \in ImportCall /\ calls[c].pc = "reuse" /\ b \in Sources /\ b \in BookIds /\ b \in sources
  BY CallShape DEF ReuseImport, PlaybookInv, PlaybookTypeOK, ImportCall, CallsHold, CallHolds, BookIds, ImportPcs
<1>2. CASE found /\ books[b].state = "NORMALIZED"
  <2>1. TransitionBook(b, "REVIEW", "operator") /\ Goto(c, NoCall)
    BY <1>2 DEF ReuseImport
  <2>2. MayTransitionBook(b, "REVIEW")
    BY <1>2 DEF MayTransitionBook, LegalTransition
  <2>3. /\ Grows /\ BooksHold' /\ IssuedHolds' /\ LearnHolds'
        /\ books' \in [BookIds -> Book \cup {NoRow}] /\ approvals' \subseteq Approval
    BY <1>1, <2>1, <2>2, TransitionKeeps DEF ReuseImport, BookStates
  <2>4. CallHolds(NoCall)'
    BY DEF NoCall, CallHolds, ImportPcs
  <2>5. CallsHold' /\ calls' \in [Calls -> CallRow]
    BY <2>1, <2>3, <2>4, CallsKept, IdleHolds DEF PlaybookInv, Goto
  <2> QED
    BY <2>3, <2>5 DEF PlaybookInv, PlaybookTypeOK, WithinSettingsFloors, ReuseImport, playbookEngine
<1>3. CASE found /\ books[b].state # "NORMALIZED"
  <2>1. Goto(c, NoCall) /\ UNCHANGED <<settings, playbookCatalog, playbookEngine>>
    BY <1>3 DEF ReuseImport, playbookCatalog
  <2> QED
    BY <2>1, IdleHolds, RequestMoves DEF Goto
<1>4. CASE ~found
  <2> DEFINE k == [calls[c] EXCEPT !.pc = "saveDigest"]
  <2>1. calls' = [calls EXCEPT ![c] = k] /\ UNCHANGED <<settings, playbookCatalog, playbookEngine>>
    BY <1>4 DEF ReuseImport, playbookCatalog, Goto
  <2>2. k \in ImportCall /\ k.pc = "saveDigest" /\ k.book = b
    BY <1>1 DEF ImportCall, ImportPcs
  <2> HIDE DEF k
  <2>3. k \in CallRow /\ CallHolds(k)
    BY <1>1, <2>2 DEF CallRow, CallHolds
  <2> QED
    BY <2>1, <2>3, RequestMoves
<1> QED
  BY <1>2, <1>3, <1>4

LEMMA SaveDigestKeeps ==
  ASSUME PlaybookInv, NEW c \in Calls, SaveDigest(c)
  PROVE  PlaybookInv'
<1> DEFINE b == calls[c].book
           text == calls[c].content
           next == [calls[c] EXCEPT !.pc = "savePlaybook"]
<1>1. calls[c] \in ImportCall /\ b \in Sources /\ b \in BookIds /\ b \in sources /\ text \in Content
  BY CallShape DEF SaveDigest, PlaybookInv, PlaybookTypeOK, ImportCall, CallsHold, CallHolds, BookIds, ImportPcs
<1>2. CASE InsertImmutable(digests[b], text)
  <2>0. next \in ImportCall /\ next.pc = "savePlaybook" /\ next.book = b /\ next.content = text
    BY <1>1 DEF ImportCall, ImportPcs
  <2>2. PICK k \in ImportCall : k = next /\ k.pc = "savePlaybook" /\ k.book = b /\ k.content = text
    BY <2>0
  <2>1. digests' = [digests EXCEPT ![b] = text] /\ calls' = [calls EXCEPT ![c] = k]
    BY <1>2, <2>2 DEF SaveDigest, Goto
  <2>3. UNCHANGED <<settings, sources, books, approvals, runs, feedback, candidates, issued, observed>>
    BY DEF SaveDigest, playbookEngine
  <2> HIDE DEF b, text, next
  <2>4. Grows
    BY <1>1, <1>2, <2>1, <2>3 DEF Grows, InsertImmutable, PlaybookInv, PlaybookTypeOK
  <2>5. k \in CallRow /\ CallHolds(k)'
    BY <1>1, <2>1, <2>2, <2>3 DEF CallRow, CallHolds, ImportPcs, PlaybookInv, PlaybookTypeOK
  <2>6. CallsHold' /\ calls' \in [Calls -> CallRow]
    BY <2>1, <2>4, <2>5, CallsKept DEF PlaybookInv
  <2>7. BooksHold' /\ IssuedHolds'
    BY <2>3, <2>4, BooksKept, IssuedKept DEF PlaybookInv
  <2>8. LearnHolds'
    BY <2>3, <2>4, LearnKept DEF PlaybookInv
  <2> QED
    BY <1>1, <2>1, <2>3, <2>6, <2>7, <2>8 DEF PlaybookInv, PlaybookTypeOK, WithinSettingsFloors
<1>3. CASE ~InsertImmutable(digests[b], text)
  <2>1. Goto(c, NoCall) /\ UNCHANGED <<settings, playbookCatalog, playbookEngine>>
    BY <1>3 DEF SaveDigest, playbookCatalog
  <2> QED
    BY <2>1, IdleHolds, RequestMoves DEF Goto
<1> QED
  BY <1>2, <1>3

LEMMA SavePlaybookKeeps ==
  ASSUME PlaybookInv, NEW c \in Calls, SavePlaybook(c)
  PROVE  PlaybookInv'
<1> DEFINE b == calls[c].book
           text == calls[c].content
           old == IF books[b] = NoRow THEN NoRow ELSE books[b].content
           next == [calls[c] EXCEPT !.pc = "review"]
           row == [content |-> text, state |-> "NORMALIZED"]
<1>1. /\ calls[c] \in ImportCall /\ b \in Sources /\ b \in BookIds /\ b \in sources /\ text \in Content
      /\ digests[b] = text
  BY CallShape DEF SavePlaybook, PlaybookInv, PlaybookTypeOK, ImportCall, CallsHold, CallHolds, BookIds, ImportPcs
<1>2. CASE InsertImmutable(old, text)
  <2>0. next \in ImportCall /\ next.pc = "review" /\ next.book = b /\ next.content = text
    BY <1>1 DEF ImportCall, ImportPcs
  <2>2. PICK k \in ImportCall : k = next /\ k.pc = "review" /\ k.book = b /\ k.content = text
    BY <2>0
  <2>1. /\ books' = IF old = text THEN books ELSE [books EXCEPT ![b] = row]
        /\ calls' = [calls EXCEPT ![c] = k]
    BY <1>2, <2>2 DEF SavePlaybook, Goto
  <2>3. UNCHANGED <<settings, sources, digests, approvals, runs, feedback, candidates, issued, observed>>
    BY DEF SavePlaybook, playbookEngine
  <2>4. row \in Book /\ row.content = text /\ row.state = "NORMALIZED"
    BY <1>1 DEF Book
  <2>5. row # NoRow
    BY <2>4, RowAssumption
  <2>6. CASE old = text
    <3>1. UNCHANGED books
      BY <2>1, <2>6
    <3>2. k \in CallRow /\ CallHolds(k)
      BY <1>1, <2>2 DEF CallRow, CallHolds
    <3> QED
      BY <2>1, <2>3, <3>1, <3>2, RequestMoves DEF playbookCatalog, playbookEngine
  <2>7. CASE old # text
    <3>1. old = NoRow
      BY <1>2, <2>7 DEF InsertImmutable
    <3>2. books[b] = NoRow
      <4>1. CASE books[b] # NoRow
        <5>1. books[b].content \in Content
          BY <1>1, <4>1 DEF PlaybookInv, PlaybookTypeOK, Book
        <5> QED
          BY <3>1, <4>1, <5>1, RowAssumption
      <4> QED
        BY <4>1
    <3>3. books' = [books EXCEPT ![b] = row]
      BY <2>1, <2>7
    <3> HIDE DEF b, text, row, old, next
    <3>4. Grows
      BY <2>3, <3>2, <3>3 DEF Grows, PlaybookInv, PlaybookTypeOK
    <3>5. k \in CallRow /\ CallHolds(k)'
      BY <1>1, <2>2, <2>3 DEF CallRow, CallHolds, ImportPcs
    <3>6. CallsHold' /\ calls' \in [Calls -> CallRow]
      BY <2>1, <3>4, <3>5, CallsKept DEF PlaybookInv
    <3>7. BooksHold'
      BY <1>1, <2>3, <2>4, <3>3 DEF PlaybookInv, PlaybookTypeOK, BooksHold, BookHolds, Activated
    <3>8. IssuedHolds'
      BY <2>3, <3>4, IssuedKept DEF PlaybookInv
    <3>9. LearnHolds'
      <4>1. \A p \in IssuedIds : <<"learn", p>> \in BookIds /\ <<"learn", p>> # b
        BY <1>1, RowAssumption DEF BookIds
      <4> QED
        BY <2>3, <3>3, <3>4, <4>1, LearnKept DEF PlaybookInv, PlaybookTypeOK
    <3> QED
      BY <1>1, <2>3, <2>4, <3>3, <3>6, <3>7, <3>8, <3>9 DEF PlaybookInv, PlaybookTypeOK, WithinSettingsFloors
  <2> QED
    BY <2>6, <2>7
<1>3. CASE ~InsertImmutable(old, text)
  <2>1. Goto(c, NoCall) /\ UNCHANGED <<settings, playbookCatalog, playbookEngine>>
    BY <1>3 DEF SavePlaybook, playbookCatalog
  <2> QED
    BY <2>1, IdleHolds, RequestMoves DEF Goto
<1> QED
  BY <1>2, <1>3

LEMMA ImportReviewedKeeps ==
  ASSUME PlaybookInv, NEW c \in Calls, ImportReviewed(c)
  PROVE  PlaybookInv'
<1> DEFINE b == calls[c].book
           to == IF calls[c].pc = "review" THEN "REVIEW" ELSE "REJECTED"
           rejection == calls[c].content = Rejection
           actor == IF rejection THEN "playbook-service" ELSE "operator"
           next == [calls[c] EXCEPT !.pc = "reject"]
<1>1. /\ calls[c] \in ImportCall /\ b \in Sources /\ b \in BookIds /\ b \in sources
      /\ digests[b] = calls[c].content
  BY CallShape DEF ImportReviewed, PlaybookInv, PlaybookTypeOK, ImportCall, CallsHold, CallHolds, BookIds, ImportPcs
<1>2. to \in {"REVIEW", "REJECTED"} /\ actor \in {"operator", "playbook-service", "learning"}
  OBVIOUS
<1>3. CASE MayTransitionBook(b, to)
  <2>0. next \in ImportCall /\ next.pc = "reject" /\ next.book = b /\ next.content = calls[c].content
    BY <1>1 DEF ImportCall, ImportPcs
  <2>2. PICK rest \in ImportCall :
          rest = next /\ rest.pc = "reject" /\ rest.book = b /\ rest.content = calls[c].content
    BY <2>0
  <2>3. PICK k \in {rest, NoCall} : k = IF rejection /\ to = "REVIEW" THEN rest ELSE NoCall
    OBVIOUS
  <2>1. TransitionBook(b, to, actor) /\ calls' = [calls EXCEPT ![c] = k]
    BY <1>3, <2>2, <2>3 DEF ImportReviewed, Goto
  <2> HIDE DEF to, actor, rejection, next, b
  <2>4. UNCHANGED <<settings, sources, digests, runs, feedback, candidates, playbookEngine>>
    BY DEF ImportReviewed
  <2>5. /\ Grows /\ BooksHold' /\ IssuedHolds' /\ LearnHolds'
        /\ books' \in [BookIds -> Book \cup {NoRow}] /\ approvals' \subseteq Approval
    <3>1. to \in BookStates /\ to # "ACTIVE"
      BY <1>2 DEF BookStates
    <3> QED
      BY <1>1, <1>2, <1>3, <2>1, <2>4, <3>1, TransitionKeeps
  <2>6. rest \in CallRow /\ CallHolds(rest)'
    BY <1>1, <2>2, <2>4 DEF CallRow, CallHolds, ImportPcs
  <2>7. k \in CallRow /\ CallHolds(k)'
    <3>1. CASE k = rest
      BY <2>6, <3>1
    <3>2. CASE k = NoCall
      BY <3>2 DEF NoCall, CallHolds, ImportPcs, CallRow
    <3> QED
      BY <2>3, <3>1, <3>2
  <2>8. CallsHold' /\ calls' \in [Calls -> CallRow]
    BY <2>1, <2>5, <2>7, CallsKept DEF PlaybookInv
  <2> QED
    BY <2>4, <2>5, <2>8 DEF PlaybookInv, PlaybookTypeOK, WithinSettingsFloors, playbookEngine
<1>4. CASE ~MayTransitionBook(b, to)
  <2>1. Goto(c, NoCall) /\ UNCHANGED <<settings, playbookCatalog, playbookEngine>>
    BY <1>4 DEF ImportReviewed, playbookCatalog
  <2> QED
    BY <2>1, IdleHolds, RequestMoves DEF Goto
<1> QED
  BY <1>3, <1>4

-----------------------------------------------------------------------------

LEMMA TransitionAskedKeeps ==
  ASSUME PlaybookInv, NEW c \in Calls, NEW b \in BookIds,
         NEW to \in {"REVIEW", "ACTIVE", "REJECTED", "RETIRED"}, TransitionAsked(c, b, to)
  PROVE  PlaybookInv'
<1> DEFINE k == [pc |-> "transition", book |-> b, to |-> to]
<1>1. k \in CallRow /\ k.pc = "transition" /\ k.book = b /\ k.to = to
  BY DEF CallRow, TransitionCall
<1>2. calls' = [calls EXCEPT ![c] = k]
  BY DEF TransitionAsked, Goto
<1> HIDE DEF k
<1>3. CallHolds(k)
  BY <1>1 DEF CallHolds, ImportPcs, TransitionAsked, Guardrails, EvaluateGuardrails
<1> QED
  BY <1>1, <1>2, <1>3, RequestMoves DEF TransitionAsked

LEMMA TransitionCommittedKeeps ==
  ASSUME PlaybookInv, NEW c \in Calls, TransitionCommitted(c)
  PROVE  PlaybookInv'
<1> DEFINE b == calls[c].book
           to == calls[c].to
<1>1. b \in BookIds /\ to \in BookStates /\ (to = "ACTIVE" => books[b].content.grounded)
  BY CallShape DEF TransitionCommitted, PlaybookInv, PlaybookTypeOK, TransitionCall, CallsHold, CallHolds, BookStates
<1>2. CASE MayTransitionBook(b, to)
  <2>1. TransitionBook(b, to, "operator") /\ Goto(c, NoCall)
    BY <1>2 DEF TransitionCommitted
  <2>2. UNCHANGED <<settings, sources, digests, runs, feedback, candidates, playbookEngine>>
    BY DEF TransitionCommitted
  <2> HIDE DEF b, to
  <2>3. /\ Grows /\ BooksHold' /\ IssuedHolds' /\ LearnHolds'
        /\ books' \in [BookIds -> Book \cup {NoRow}] /\ approvals' \subseteq Approval
    BY <1>1, <1>2, <2>1, <2>2, TransitionKeeps
  <2>4. CallHolds(NoCall)'
    BY DEF NoCall, CallHolds, ImportPcs
  <2>5. CallsHold' /\ calls' \in [Calls -> CallRow]
    BY <2>1, <2>3, <2>4, CallsKept, IdleHolds DEF PlaybookInv, Goto
  <2> QED
    BY <2>2, <2>3, <2>5 DEF PlaybookInv, PlaybookTypeOK, WithinSettingsFloors, playbookEngine
<1>3. CASE ~MayTransitionBook(b, to)
  <2>1. Goto(c, NoCall) /\ UNCHANGED <<settings, playbookCatalog, playbookEngine>>
    BY <1>3 DEF TransitionCommitted, playbookCatalog
  <2> QED
    BY <2>1, IdleHolds, RequestMoves DEF Goto
<1> QED
  BY <1>2, <1>3

LEMMA ResolveStartsKeeps ==
  ASSUME PlaybookInv, NEW c \in Calls, ResolveStarts(c)
  PROVE  PlaybookInv'
<1>1. PICK b \in ListActive : Goto(c, [pc |-> "resolve", book |-> b, version |-> observed])
  BY DEF ResolveStarts
<1> DEFINE k == [pc |-> "resolve", book |-> b, version |-> observed]
<1>2. b \in BookIds /\ books[b] # NoRow
  BY <1>1 DEF ListActive
<1>3. k \in CallRow /\ k.pc = "resolve" /\ k.book = b
  BY <1>2 DEF CallRow, ResolveCall, PlaybookInv, PlaybookTypeOK
<1>4. calls' = [calls EXCEPT ![c] = k]
  BY <1>1 DEF Goto
<1> HIDE DEF k
<1>5. CallHolds(k)
  BY <1>2, <1>3 DEF CallHolds, ImportPcs
<1> QED
  BY <1>3, <1>4, <1>5, RequestMoves DEF ResolveStarts

LEMMA ResolvePlannedKeeps ==
  ASSUME PlaybookInv, NEW c \in Calls, ResolvePlanned(c)
  PROVE  PlaybookInv'
<1> DEFINE b == calls[c].book
           version == calls[c].version
           PlanOf(content) ==
             [book |-> b, version |-> version, action |-> content.action, confidence |-> content.confidence]
<1>1. PICK content \in Contents :
        Goto(c, IF StillGrounded(content, books[b]) THEN [pc |-> "record", run |-> PlanOf(content)] ELSE NoCall)
  BY DEF ResolvePlanned
<1>2. UNCHANGED <<settings, playbookCatalog, playbookEngine>>
  BY DEF ResolvePlanned
<1>3. CASE ~StillGrounded(content, books[b])
  BY <1>1, <1>2, <1>3, IdleHolds, RequestMoves DEF Goto
<1>4. CASE StillGrounded(content, books[b])
  <2> DEFINE plan == PlanOf(content)
             k == [pc |-> "record", run |-> plan]
  <2>1. b \in BookIds /\ version \in Nat /\ books[b] # NoRow
    BY CallShape DEF ResolvePlanned, PlaybookInv, PlaybookTypeOK, ResolveCall, CallsHold, CallHolds
  <2>2. content \in Content
    BY PlaybookAssumption
  <2> HIDE DEF b, version
  <2>3. plan \in Plan /\ plan.book = b /\ plan.action = content.action /\ plan.confidence = content.confidence
    BY <2>1, <2>2 DEF Plan, Content
  <2>4. calls' = [calls EXCEPT ![c] = k]
    BY <1>1, <1>4 DEF Goto
  <2> HIDE DEF plan
  <2>5. k \in CallRow /\ k.pc = "record" /\ k.run = plan
    BY <2>3 DEF CallRow, PlanCall
  <2> HIDE DEF k
  <2>6. PlanHolds(plan)
    <3>1. books[b].state = "ACTIVE" /\ books[b].content.action = content.action
      BY <1>4 DEF StillGrounded, ValidResolution
    <3>2. Activated(b)
      BY <2>1, <3>1 DEF PlaybookInv, BooksHold, BookHolds
    <3>3. content.action \notin {"Manual", "Exec"}
      BY <1>4, <3>1 DEF StillGrounded, Guardrails, EvaluateGuardrails, KnownActions
    <3>4. content.confidence >= Floors.minConfidence
      <4>1. content.confidence >= settings.minConfidence /\ settings.minConfidence >= Floors.minConfidence
        BY <1>4 DEF StillGrounded, ValidResolution, PlaybookInv, WithinSettingsFloors
      <4>2. content.confidence \in Nat /\ settings.minConfidence \in Nat /\ Floors.minConfidence \in Nat
        BY <2>2, PlaybookAssumption DEF Content, ServiceSettings, PlaybookInv, PlaybookTypeOK
      <4> QED
        BY <4>1, <4>2
    <3>5. Floors.actions # {} => content.action \in Floors.actions
      BY <1>4 DEF StillGrounded, ValidResolution, PlaybookInv, WithinSettingsFloors
    <3> QED
      BY <2>1, <2>3, <3>1, <3>2, <3>3, <3>4, <3>5 DEF PlanHolds
  <2>7. CallHolds(k)
    BY <2>5, <2>6 DEF CallHolds, ImportPcs
  <2> QED
    BY <1>2, <2>4, <2>5, <2>7, RequestMoves
<1> QED
  BY <1>3, <1>4

LEMMA RecordResolutionKeeps ==
  ASSUME PlaybookInv, NEW c \in Calls, RecordResolution(c)
  PROVE  PlaybookInv'
<1> DEFINE next == [calls[c] EXCEPT !.pc = "propose"]
<1>1. calls[c] \in PlanCall /\ calls[c].run \in Plan /\ PlanHolds(calls[c].run)
  BY CallShape DEF RecordResolution, PlaybookInv, PlaybookTypeOK, PlanCall, CallsHold, CallHolds
<1>2. next \in PlanCall /\ next.pc = "propose" /\ next.run = calls[c].run
  BY <1>1 DEF PlanCall
<1>3. PICK k \in PlanCall : k = next /\ k.pc = "propose" /\ k.run = calls[c].run
  BY <1>2
<1> HIDE DEF next
<1>4. calls' = [calls EXCEPT ![c] = k] /\ runs' = runs \cup {k.run}
  BY <1>3 DEF RecordResolution, Goto, next
<1>5. UNCHANGED <<settings, sources, digests, books, approvals, feedback, candidates, issued, observed>>
  BY DEF RecordResolution, playbookEngine
<1>6. Grows
  BY <1>4, <1>5 DEF Grows
<1>7. k \in CallRow /\ k.run \in Plan
  BY <1>3 DEF CallRow, PlanCall
<1>8. PlanHolds(k.run)'
  BY <1>1, <1>3, <1>6, <1>7, PlanKept
<1>9. CallHolds(k)'
  BY <1>3, <1>4, <1>8 DEF CallHolds, ImportPcs
<1>10. CallsHold' /\ calls' \in [Calls -> CallRow]
  BY <1>4, <1>6, <1>7, <1>9, CallsKept DEF PlaybookInv
<1>11. BooksHold' /\ IssuedHolds'
  BY <1>5, <1>6, BooksKept, IssuedKept DEF PlaybookInv
<1>12. LearnHolds'
  BY <1>5, <1>6, LearnKept DEF PlaybookInv
<1> QED
  BY <1>4, <1>5, <1>7, <1>10, <1>11, <1>12 DEF PlaybookInv, PlaybookTypeOK, WithinSettingsFloors

\* A new proposal, of a plan that holds or of none, disturbs nothing but the proposals.
LEMMA ProposalAdds ==
  ASSUME PlaybookInv, NEW p \in NextIssued, NEW plan \in Plan \cup {NoRow},
         plan # NoRow => plan \in runs /\ PlanHolds(plan),
         issued' = [issued EXCEPT ![p] = [run |-> plan, status |-> "ACTIVE", verified |-> FALSE]],
         UNCHANGED <<settings, playbookCatalog, observed>>
  PROVE  /\ Grows /\ BooksHold' /\ IssuedHolds' /\ LearnHolds'
         /\ issued' \in [IssuedIds -> Issued \cup {NoRow}]
<1> USE DEF PlaybookInv, playbookCatalog
<1> DEFINE row == [run |-> plan, status |-> "ACTIVE", verified |-> FALSE]
<1>1. p \in IssuedIds /\ issued[p] = NoRow
  BY DEF NextIssued
<1>2. row \in Issued /\ row.run = plan
  BY DEF Issued
<1>3. issued' = [issued EXCEPT ![p] = row]
  OBVIOUS
<1> HIDE DEF row
<1>4. issued' \in [IssuedIds -> Issued \cup {NoRow}]
  BY <1>2, <1>3 DEF PlaybookTypeOK
<1>5. Grows
  BY <1>1, <1>3 DEF Grows, PlaybookTypeOK
<1>6. BooksHold'
  BY <1>5, BooksKept
<1>7. LearnHolds'
  BY <1>5, LearnKept
<1>8. IssuedHolds'
  <2>1. SUFFICES ASSUME NEW q \in IssuedIds, issued'[q] # NoRow, issued'[q].run # NoRow
                 PROVE  issued'[q].run \in runs /\ PlanHolds(issued[q].run)'
    BY DEF IssuedHolds
  <2>2. CASE q = p
    <3>1. issued'[q].run = plan
      BY <1>1, <1>2, <1>3, <2>2 DEF PlaybookTypeOK
    <3>2. plan \in Plan /\ PlanHolds(plan) /\ plan \in runs
      BY <2>1, <3>1
    <3>3. PlanHolds(plan)'
      BY <1>5, <3>2, PlanKept
    <3> QED
      BY <3>1, <3>2, <3>3
  <2>3. CASE q # p
    <3>1. issued'[q] = issued[q]
      BY <1>3, <2>3 DEF PlaybookTypeOK
    <3>2. PICK old \in Plan : old = issued[q].run
      BY <2>1, <3>1 DEF PlaybookTypeOK, Issued
    <3>3. PlanHolds(old) /\ old \in runs
      BY <2>1, <3>1, <3>2 DEF IssuedHolds
    <3>4. PlanHolds(old)'
      BY <1>5, <3>3, PlanKept
    <3> QED
      BY <3>1, <3>2, <3>3, <3>4
  <2> QED
    BY <2>2, <2>3
<1> QED
  BY <1>4, <1>5, <1>6, <1>7, <1>8

LEMMA ProposeResolutionKeeps ==
  ASSUME PlaybookInv, NEW c \in Calls, ProposeResolution(c)
  PROVE  PlaybookInv'
<1>1. UNCHANGED <<settings, playbookCatalog, observed>> /\ Goto(c, NoCall)
  BY DEF ProposeResolution
<1>2. CASE ActiveIssued = {}
  <2>1. PICK plan \in Plan : plan = calls[c].run /\ PlanHolds(plan) /\ plan \in runs
    BY CallShape DEF ProposeResolution, PlaybookInv, PlaybookTypeOK, PlanCall, CallsHold, CallHolds
  <2>2. PICK p \in NextIssued :
          issued' = [issued EXCEPT ![p] = [run |-> plan, status |-> "ACTIVE", verified |-> FALSE]]
    BY <1>2, <2>1 DEF ProposeResolution
  <2>3. /\ Grows /\ BooksHold' /\ IssuedHolds' /\ LearnHolds'
        /\ issued' \in [IssuedIds -> Issued \cup {NoRow}]
    BY <1>1, <2>1, <2>2, ProposalAdds
  <2>4. CallHolds(NoCall)'
    BY DEF NoCall, CallHolds, ImportPcs
  <2>5. CallsHold' /\ calls' \in [Calls -> CallRow]
    BY <1>1, <2>3, <2>4, CallsKept, IdleHolds DEF PlaybookInv, Goto
  <2> QED
    BY <1>1, <2>3, <2>5 DEF PlaybookInv, PlaybookTypeOK, WithinSettingsFloors, playbookCatalog
<1>3. CASE ActiveIssued # {}
  <2>1. UNCHANGED playbookEngine
    BY <1>1, <1>3 DEF ProposeResolution, playbookEngine
  <2> QED
    BY <1>1, <2>1, IdleHolds, RequestMoves DEF Goto
<1> QED
  BY <1>2, <1>3

LEMMA OtherProposalKeeps ==
  ASSUME PlaybookInv, OtherProposal
  PROVE  PlaybookInv'
<1>1. UNCHANGED <<settings, playbookCatalog, observed, calls>>
  BY DEF OtherProposal
<1>2. PICK p \in NextIssued :
        issued' = [issued EXCEPT ![p] = [run |-> NoRow, status |-> "ACTIVE", verified |-> FALSE]]
  BY DEF OtherProposal
<1>3. /\ Grows /\ BooksHold' /\ IssuedHolds' /\ LearnHolds'
      /\ issued' \in [IssuedIds -> Issued \cup {NoRow}]
  BY <1>1, <1>2, ProposalAdds
<1>4. CallsHold'
  BY <1>1, <1>3, CallsKeptStill DEF PlaybookInv
<1> QED
  BY <1>1, <1>3, <1>4 DEF PlaybookInv, PlaybookTypeOK, WithinSettingsFloors, playbookCatalog

LEMMA ProposalEndsKeeps ==
  ASSUME PlaybookInv, ProposalEnds
  PROVE  PlaybookInv'
<1> USE DEF playbookCatalog
<1>1. UNCHANGED <<settings, playbookCatalog, calls>>
  BY DEF ProposalEnds
<1>2. PICK p \in ActiveIssued, status \in {"COMPLETED", "FAILED", "STALE"}, verified \in BOOLEAN :
        /\ issued' = [issued EXCEPT ![p].status = status, ![p].verified = verified]
        /\ observed' = IF status = "COMPLETED" /\ observed < MaxVersion THEN observed + 1 ELSE observed
  BY DEF ProposalEnds
<1> DEFINE row == [issued[p] EXCEPT !.status = status, !.verified = verified]
<1>3. p \in IssuedIds /\ issued[p] # NoRow /\ issued[p] \in Issued
  BY <1>2 DEF ActiveIssued, PlaybookInv, PlaybookTypeOK
<1>4. row \in Issued /\ row.run = issued[p].run
  BY <1>2, <1>3 DEF Issued
<1>5. row # NoRow
  BY <1>4, RowAssumption
<1>6. issued' = [issued EXCEPT ![p] = row]
  BY <1>2, <1>3 DEF PlaybookInv, PlaybookTypeOK
<1> HIDE DEF row
<1>7. issued' \in [IssuedIds -> Issued \cup {NoRow}] /\ observed' \in Nat
  <2>1. issued' \in [IssuedIds -> Issued \cup {NoRow}]
    BY <1>4, <1>6 DEF PlaybookInv, PlaybookTypeOK
  <2>2. observed \in Nat
    BY DEF PlaybookInv, PlaybookTypeOK
  <2>3. observed' \in {observed, observed + 1}
    BY <1>2
  <2> QED
    BY <2>1, <2>2, <2>3
<1>8. Grows
  BY <1>1, <1>3, <1>4, <1>5, <1>6 DEF Grows, PlaybookInv, PlaybookTypeOK
<1>9. BooksHold' /\ CallsHold'
  BY <1>1, <1>8, BooksKept, CallsKeptStill DEF PlaybookInv
<1>10. LearnHolds'
  BY <1>1, <1>8, LearnKept DEF PlaybookInv
<1>11. IssuedHolds'
  <2>1. SUFFICES ASSUME NEW q \in IssuedIds, issued'[q] # NoRow, issued'[q].run # NoRow
                 PROVE  issued'[q].run \in runs /\ PlanHolds(issued[q].run)'
    BY <1>1 DEF IssuedHolds
  <2>2. issued[q] # NoRow /\ issued'[q].run = issued[q].run
    BY <1>3, <1>4, <1>6, <2>1 DEF PlaybookInv, PlaybookTypeOK
  <2>3. PICK old \in Plan : old = issued[q].run
    BY <2>1, <2>2 DEF PlaybookInv, PlaybookTypeOK, Issued
  <2>4. PlanHolds(old) /\ old \in runs
    BY <2>1, <2>2, <2>3 DEF PlaybookInv, IssuedHolds
  <2>5. PlanHolds(old)'
    BY <1>8, <2>4, PlanKept
  <2> QED
    BY <2>2, <2>3, <2>4, <2>5
<1> QED
  BY <1>1, <1>7, <1>9, <1>10, <1>11 DEF PlaybookInv, PlaybookTypeOK, WithinSettingsFloors

-----------------------------------------------------------------------------

\* The outcome of a proposal that ended is recorded, once.
LEMMA OutcomeAdds ==
  ASSUME PlaybookInv, NEW p \in IssuedIds, Terminal(p),
         InsertImmutable(feedback[p], Outcome(p)), feedback' = [feedback EXCEPT ![p] = Outcome(p)],
         UNCHANGED <<settings, sources, digests, books, approvals, runs, candidates, playbookEngine>>
  PROVE  /\ Grows /\ BooksHold' /\ IssuedHolds' /\ LearnHolds'
         /\ feedback' \in [IssuedIds -> OutcomeRow \cup {NoRow}]
<1> USE DEF PlaybookInv, playbookEngine
<1>1. issued[p] \in Issued
  BY DEF Terminal, PlaybookTypeOK
<1>2. PICK row \in OutcomeRow : row = Outcome(p)
  BY <1>1 DEF Outcome, OutcomeRow, Issued
<1>3. Grows
  BY <1>2 DEF Grows, InsertImmutable, PlaybookTypeOK
<1>4. BooksHold' /\ IssuedHolds'
  BY <1>3, BooksKept, IssuedKept
<1>5. LearnHolds'
  BY <1>3, LearnKept
<1> QED
  BY <1>2, <1>3, <1>4, <1>5 DEF PlaybookTypeOK

LEMMA RecordOutcomeKeeps ==
  ASSUME PlaybookInv, NEW p \in IssuedIds, RecordOutcome(p)
  PROVE  PlaybookInv'
<1>1. /\ Grows /\ BooksHold' /\ IssuedHolds' /\ LearnHolds'
      /\ feedback' \in [IssuedIds -> OutcomeRow \cup {NoRow}]
  BY OutcomeAdds DEF RecordOutcome
<1>2. CallsHold'
  BY <1>1, CallsKeptStill DEF PlaybookInv, RecordOutcome
<1> QED
  BY <1>1, <1>2 DEF PlaybookInv, PlaybookTypeOK, WithinSettingsFloors, RecordOutcome, playbookEngine

LEMMA ObserveOutcomeKeeps ==
  ASSUME PlaybookInv, NEW c \in Calls, NEW p \in IssuedIds, ObserveOutcome(c, p)
  PROVE  PlaybookInv'
<1>1. /\ Grows /\ BooksHold' /\ IssuedHolds' /\ LearnHolds'
      /\ feedback' \in [IssuedIds -> OutcomeRow \cup {NoRow}]
  BY OutcomeAdds DEF ObserveOutcome
<1>2. UNCHANGED <<settings, sources, digests, books, approvals, runs, candidates, issued, observed>>
  BY DEF ObserveOutcome, playbookEngine
<1>3. CASE UNCHANGED calls
  <2>1. CallsHold'
    BY <1>1, <1>3, CallsKeptStill DEF PlaybookInv
  <2> QED
    BY <1>1, <1>2, <1>3, <2>1 DEF PlaybookInv, PlaybookTypeOK, WithinSettingsFloors
<1>4. CASE LearnsFrom(p) /\ Goto(c, [pc |-> "learn", proposal |-> p])
  <2> DEFINE k == [pc |-> "learn", proposal |-> p]
  <2>1. k \in CallRow /\ k.pc = "learn" /\ k.proposal = p
    BY DEF CallRow, LearnCall
  <2>2. calls' = [calls EXCEPT ![c] = k]
    BY <1>4 DEF Goto
  <2> HIDE DEF k
  <2>3. feedback'[p] = [status |-> "COMPLETED", verified |-> TRUE]
    <3>1. issued[p] \in Issued /\ issued[p].status = "COMPLETED" /\ issued[p].verified = TRUE
      BY <1>4 DEF LearnsFrom, ObserveOutcome, Terminal, PlaybookInv, PlaybookTypeOK, Issued
    <3>2. Outcome(p) = [status |-> "COMPLETED", verified |-> TRUE]
      BY <3>1 DEF Outcome
    <3>3. feedback \in [IssuedIds -> OutcomeRow \cup {NoRow}] /\ feedback' = [feedback EXCEPT ![p] = Outcome(p)]
      BY DEF ObserveOutcome, PlaybookInv, PlaybookTypeOK
    <3>4. feedback'[p] = Outcome(p)
      BY <3>3
    <3> QED
      BY <3>2, <3>4
  <2>4. CallHolds(k)'
    BY <1>2, <2>1, <2>3 DEF CallHolds, ImportPcs, ObserveOutcome, Terminal
  <2>5. CallsHold' /\ calls' \in [Calls -> CallRow]
    BY <1>1, <2>1, <2>2, <2>4, CallsKept DEF PlaybookInv
  <2> QED
    BY <1>1, <1>2, <2>5 DEF PlaybookInv, PlaybookTypeOK, WithinSettingsFloors
<1> QED
  BY <1>3, <1>4 DEF ObserveOutcome

LEMMA LearnDraftedKeeps ==
  ASSUME PlaybookInv, NEW c \in Calls, LearnDrafted(c)
  PROVE  PlaybookInv'
<1>1. UNCHANGED <<settings, playbookCatalog, playbookEngine>>
  BY DEF LearnDrafted
<1>2. CASE Goto(c, NoCall)
  BY <1>1, <1>2, IdleHolds, RequestMoves DEF Goto
<1>3. ASSUME NEW content \in {PrepareDigest(d) : d \in Contents},
             KeepsAction(content, issued[calls[c].proposal].run),
             Goto(c, [pc |-> "candidate", proposal |-> calls[c].proposal, content |-> content])
      PROVE  PlaybookInv'
  <2> DEFINE p == calls[c].proposal
             k == [pc |-> "candidate", proposal |-> p, content |-> content]
  <2>1. /\ p \in IssuedIds /\ issued[p] # NoRow /\ issued[p].run # NoRow
        /\ feedback[p] = [status |-> "COMPLETED", verified |-> TRUE]
    BY CallShape DEF LearnDrafted, PlaybookInv, PlaybookTypeOK, LearnCall, CallsHold, CallHolds
  <2>2. content \in Content /\ content.action = issued[p].run.action
    BY <1>3, PreparedIsContent DEF KeepsAction
  <2>3. calls' = [calls EXCEPT ![c] = k]
    BY <1>3 DEF Goto
  <2> HIDE DEF p
  <2>4. k \in CallRow /\ k.pc = "candidate" /\ k.proposal = p /\ k.content = content
    BY <2>1, <2>2 DEF CallRow, CandidateCall
  <2> HIDE DEF k
  <2>5. CallHolds(k)
    BY <2>1, <2>2, <2>4 DEF CallHolds, ImportPcs
  <2> QED
    BY <1>1, <2>3, <2>4, <2>5, RequestMoves
<1> QED
  BY <1>2, <1>3 DEF LearnDrafted

LEMMA RecordLearningCandidateKeeps ==
  ASSUME PlaybookInv, NEW c \in Calls, RecordLearningCandidate(c)
  PROVE  PlaybookInv'
<1>1. PICK k \in CandidateCall : k = calls[c] /\ k.pc = "candidate" /\ CallHolds(k)
  BY CallShape DEF RecordLearningCandidate, PlaybookInv, PlaybookTypeOK, CallsHold
<1>2. PICK p \in IssuedIds : p = k.proposal
  BY <1>1 DEF CandidateCall
<1>3. PICK b \in BookIds : b = <<"learn", p>>
  BY DEF BookIds
<1> DEFINE new == p \notin candidates /\ books[b] = NoRow /\ issued[p].run \in runs
           row == [content |-> k.content, state |-> "REVIEW"]
<1>4. UNCHANGED <<settings, sources, digests, runs, feedback, issued, observed>> /\ Goto(c, NoCall)
  BY DEF RecordLearningCandidate, playbookEngine
<1>5. CASE ~new
  <2>1. UNCHANGED <<candidates, books, approvals>>
    BY <1>1, <1>2, <1>3, <1>5 DEF RecordLearningCandidate
  <2> QED
    BY <1>4, <2>1, IdleHolds, RequestMoves DEF Goto, playbookCatalog, playbookEngine
<1>6. CASE new
  <2>1. /\ candidates' = candidates \cup {p}
        /\ books' = [books EXCEPT ![b] = row]
        /\ approvals' = approvals \cup {[book |-> b, to |-> "REVIEW", actor |-> "learning"]}
    BY <1>1, <1>2, <1>3, <1>6 DEF RecordLearningCandidate
  <2>2. row \in Book /\ row.content = k.content /\ row.state = "REVIEW"
    BY <1>1 DEF Book, CandidateCall
  <2>3. row # NoRow
    BY <2>2, RowAssumption
  <2>4. b \notin Sources
    BY <1>3, RowAssumption
  <2>5. books[b] = NoRow
    BY <1>6
  <2> HIDE DEF row, new
  <2>6. books' \in [BookIds -> Book \cup {NoRow}]
    BY <2>1, <2>2 DEF PlaybookInv, PlaybookTypeOK
  <2>7. approvals' \subseteq Approval
    BY <2>1 DEF PlaybookInv, PlaybookTypeOK, Approval, BookStates
  <2>8. Grows
    BY <1>4, <2>1, <2>5 DEF Grows, PlaybookInv, PlaybookTypeOK
  <2>9. CallHolds(NoCall)'
    BY DEF NoCall, CallHolds, ImportPcs
  <2>10. CallsHold' /\ calls' \in [Calls -> CallRow]
    BY <1>4, <2>8, <2>9, CallsKept, IdleHolds DEF PlaybookInv, Goto
  <2>11. IssuedHolds'
    BY <1>4, <2>8, IssuedKept DEF PlaybookInv
  <2>12. BooksHold'
    <3>1. SUFFICES ASSUME NEW d \in BookIds PROVE BookHolds(d)'
      BY DEF BooksHold
    <3>2. CASE d = b
      BY <2>1, <2>2, <2>4, <3>2 DEF BookHolds, PlaybookInv, PlaybookTypeOK
    <3>3. CASE d # b
      BY <1>4, <2>1, <3>3 DEF BookHolds, BooksHold, Activated, PlaybookInv, PlaybookTypeOK
    <3> QED
      BY <3>2, <3>3
  <2>13. LearnHolds'
    <3>1. SUFFICES ASSUME NEW q \in IssuedIds
          PROVE  /\ books'[<<"learn", q>>] # NoRow <=> q \in candidates'
                 /\ q \in candidates' =>
                      /\ issued[q] # NoRow /\ issued[q].run # NoRow
                      /\ feedback[q] = [status |-> "COMPLETED", verified |-> TRUE]
                      /\ books'[<<"learn", q>>].content.action = issued[q].run.action
      BY <1>4 DEF LearnHolds
    <3>2. <<"learn", q>> \in BookIds /\ (q # p => <<"learn", q>> # b)
      BY <1>3 DEF BookIds
    <3>3. CASE q # p
      BY <2>1, <3>2, <3>3 DEF LearnHolds, PlaybookInv, PlaybookTypeOK
    <3>4. CASE q = p
      <4>1. /\ issued[p] # NoRow /\ issued[p].run # NoRow
            /\ feedback[p] = [status |-> "COMPLETED", verified |-> TRUE]
            /\ k.content.action = issued[p].run.action
        BY <1>1, <1>2 DEF CallHolds
      <4>2. books'[b] = row /\ p \in candidates'
        BY <2>1 DEF PlaybookInv, PlaybookTypeOK
      <4> QED
        BY <1>3, <2>2, <2>3, <3>4, <4>1, <4>2
    <3> QED
      BY <3>3, <3>4
  <2>14. candidates' \subseteq IssuedIds
    BY <2>1 DEF PlaybookInv, PlaybookTypeOK
  <2> QED
    BY <1>4, <2>6, <2>7, <2>10, <2>11, <2>12, <2>13, <2>14
    DEF PlaybookInv, PlaybookTypeOK, WithinSettingsFloors
<1> QED
  BY <1>5, <1>6

LEMMA CallEndsKeeps ==
  ASSUME PlaybookInv, NEW c \in Calls, CallEnds(c)
  PROVE  PlaybookInv'
  BY IdleHolds, RequestMoves DEF CallEnds, Goto

-----------------------------------------------------------------------------

LEMMA PlaybookInitHolds == PlaybookInit => PlaybookInv
<1> SUFFICES ASSUME PlaybookInit PROVE PlaybookInv
  OBVIOUS
<1> USE DEF PlaybookInit
<1>1. PlaybookTypeOK
  BY PlaybookAssumption, IdleHolds DEF PlaybookTypeOK
<1>2. WithinSettingsFloors(settings)
  BY PlaybookAssumption DEF WithinSettingsFloors, ServiceSettings
<1>3. CallsHold
  BY IdleHolds DEF CallsHold
<1>4. BooksHold /\ IssuedHolds
  BY DEF BooksHold, BookHolds, IssuedHolds
<1>5. LearnHolds
  BY DEF LearnHolds, BookIds
<1> QED
  BY <1>1, <1>2, <1>3, <1>4, <1>5 DEF PlaybookInv

LEMMA PlaybookStepHolds == PlaybookInv /\ [PlaybookNext]_playbookVars => PlaybookInv'
<1> SUFFICES ASSUME PlaybookInv, [PlaybookNext]_playbookVars PROVE PlaybookInv'
  OBVIOUS
<1>1. CASE UNCHANGED playbookVars
  <2>1. UNCHANGED <<settings, sources, digests, books, approvals, runs, feedback, candidates, issued, observed, calls>>
    BY <1>1 DEF playbookVars, playbookCatalog, playbookEngine
  <2>2. Grows
    BY <2>1 DEF Grows
  <2>3. CallsHold' /\ BooksHold' /\ IssuedHolds'
    BY <2>1, <2>2, BooksKept, IssuedKept, CallsKeptStill DEF PlaybookInv
  <2>4. LearnHolds'
    BY <2>1, <2>2, LearnKept DEF PlaybookInv
  <2> QED
    BY <2>1, <2>3, <2>4 DEF PlaybookInv, PlaybookTypeOK, WithinSettingsFloors
<1>2. ASSUME NEW c \in Calls, \E s \in Sources : ImportStarts(c, s) PROVE PlaybookInv'
  BY <1>2, ImportStartsKeeps
<1>3. ASSUME NEW c \in Calls,
             \E b \in BookIds, to \in {"REVIEW", "ACTIVE", "REJECTED", "RETIRED"} : TransitionAsked(c, b, to)
      PROVE  PlaybookInv'
  BY <1>3, TransitionAskedKeeps
<1>4. ASSUME NEW c \in Calls, \E p \in IssuedIds : ObserveOutcome(c, p) PROVE PlaybookInv'
  BY <1>4, ObserveOutcomeKeeps
<1>5. ASSUME NEW c \in Calls,
             \/ ImportDigested(c) \/ ReuseImport(c) \/ SaveDigest(c) \/ SavePlaybook(c) \/ ImportReviewed(c)
             \/ TransitionCommitted(c) \/ ResolveStarts(c) \/ ResolvePlanned(c) \/ RecordResolution(c)
             \/ ProposeResolution(c) \/ LearnDrafted(c) \/ RecordLearningCandidate(c) \/ CallEnds(c)
      PROVE  PlaybookInv'
  BY <1>5, ImportDigestedKeeps, ReuseImportKeeps, SaveDigestKeeps, SavePlaybookKeeps, ImportReviewedKeeps,
     TransitionCommittedKeeps, ResolveStartsKeeps, ResolvePlannedKeeps, RecordResolutionKeeps,
     ProposeResolutionKeeps, LearnDraftedKeeps, RecordLearningCandidateKeeps, CallEndsKeeps
<1>6. ASSUME UpdateSettings \/ OtherProposal \/ ProposalEnds \/ (\E p \in IssuedIds : RecordOutcome(p))
      PROVE  PlaybookInv'
  BY <1>6, UpdateSettingsKeeps, OtherProposalKeeps, ProposalEndsKeeps, RecordOutcomeKeeps
<1>7. CASE PlaybookNext
  BY <1>2, <1>3, <1>4, <1>5, <1>6, <1>7 DEF PlaybookNext
<1> QED
  BY <1>1, <1>7

LEMMA PlaybookAlways == PlaybookSpec => []PlaybookInv
  BY PlaybookInitHolds, PlaybookStepHolds, PTL DEF PlaybookSpec

\* Every proposal made from a playbook has its recorded run and is grounded in what an
\* operator activated, within the floors of NewService: settings, lifecycle and rows may
\* change at every call of Resolve, and rows are only added (Resolve, RecordResolution).
THEOREM PlaybookGroundsProposals == PlaybookSpec => []ProposalsAreGrounded
<1>1. PlaybookInv => ProposalsAreGrounded
  BY DEF PlaybookInv, IssuedHolds, PlanHolds, Activated, ProposalsAreGrounded
<1> QED
  BY <1>1, PlaybookAlways, PTL

\* Racing and repeated imports of a source end in one digest and one playbook of it, and a
\* rejected digest never becomes active (Import, rejectImport, insertImmutable).
THEOREM PlaybookImportsOnce == PlaybookSpec => []ImportIsOne
<1>1. PlaybookInv => ImportIsOne
  BY RejectionIsContent DEF PlaybookInv, BooksHold, BookHolds, ImportIsOne, BookIds
<1> QED
  BY <1>1, PlaybookAlways, PTL

\* What is learned stems from one verified success, keeps its action, and is active only
\* after an operator's word (ObserveOutcome, RecordLearningCandidate).
THEOREM PlaybookLearnsFromSuccess == PlaybookSpec => []LearnedIsVerified
<1>1. PlaybookInv => LearnedIsVerified
  <2>1. SUFFICES ASSUME PlaybookInv, NEW p \in IssuedIds
        PROVE  /\ books[<<"learn", p>>] # NoRow <=> p \in candidates
               /\ p \in candidates =>
                    /\ feedback[p] = [status |-> "COMPLETED", verified |-> TRUE]
                    /\ books[<<"learn", p>>].content.action = issued[p].run.action
                    /\ books[<<"learn", p>>].state = "ACTIVE" => Activated(<<"learn", p>>)
    BY DEF LearnedIsVerified, Activated
  <2>2. <<"learn", p>> \in BookIds
    BY DEF BookIds
  <2>3. BookHolds(<<"learn", p>>)
    BY <2>1, <2>2 DEF PlaybookInv, BooksHold
  <2> QED
    BY <2>1, <2>3 DEF PlaybookInv, LearnHolds, BookHolds
<1> QED
  BY <1>1, PlaybookAlways, PTL

-----------------------------------------------------------------------------
(* The scheduler and its triggers. *)

Triggers ==
  {Trigger(o, NoTarget) : o \in Objects} \cup
  {Trigger(e, e.about) : e \in Warnings} \cup {Trigger(e.about, NoTarget) : e \in Warnings}
ScanPlans == BasePlans \cup {PlanForTrigger(p, t) : p \in BasePlans, t \in Triggers}
AgentRow == [live : BOOLEAN, starts : Nat, changes : Nat, periods : Nat]
QueueRow == [pending : SUBSET Triggers, token : BOOLEAN]
InformerRow == [todo : Seq(Triggers), waking : BOOLEAN]
ConsumerRow == [at : {"idle", "debounce", "drain", "batch", "job"}, batch : SUBSET Triggers]
ScanRow == [at : {"none", "reading", "triage", "notify"}, plan : ScanPlans, todo : SUBSET Objects,
            of : Objects \cup {NoTarget}, known : SUBSET Objects]

SchedulerTypeOK ==
  /\ base \in BasePlans
  /\ agent \in AgentRow
  /\ queue \in QueueRow
  /\ informer \in [Informers -> InformerRow]
  /\ consumer \in ConsumerRow
  /\ gate \in {"free", "trigger", "periodic"}
  /\ scan \in ScanRow
  /\ proposals \subseteq Objects
  /\ announced \in [Objects -> Nat]

\* The consumer has been or is about to be woken.
Awake == queue.token \/ consumer.at \in {"debounce", "drain"} \/ \E i \in Informers : informer[i].waking

\* A scan has the gate, and the gate is the consumer's exactly while it runs a job.
GateHolds == (scan.at # "none" => gate # "free") /\ (gate = "trigger" <=> consumer.at = "job")

PendingIsAwake == queue.pending # {} => Awake
TakenInScope == \A t \in queue.pending \cup consumer.batch : TriggerInScope(base, t)
UnscannedIsTaken == unscanned \subseteq queue.pending \cup consumer.batch

\* What was announced is on record, and a scan under way knows it.
AnnouncedIsKnown ==
  /\ \A o \in Objects : announced[o] = 0 \/
       /\ announced[o] = 1
       /\ o \in proposals
       /\ scan.at \in {"triage", "notify"} => o \in scan.known
  /\ scan.at = "notify" => scan.of \in proposals

\* A batch is worked off before the consumer waits again.
BatchIsDone == consumer.at \in {"idle", "debounce", "drain"} => consumer.batch = {}

TakingInv == PendingIsAwake /\ TakenInScope /\ UnscannedIsTaken /\ BatchIsDone
SchedulerInv == SchedulerTypeOK /\ GateHolds /\ TakingInv /\ AnnouncedIsKnown

-----------------------------------------------------------------------------

\* The scan made for a trigger the filter passed answers it: it reports on the object the
\* trigger is about, when the base plan wants the kind of that object.
LEMMA TriggerIsAnswered ==
  ASSUME base \in BasePlans, NEW t, TriggerInScope(base, t)
  PROVE  AnsweredBy(PlanForTrigger(base, t), t)
<1> DEFINE o == Involved(t)
           wanted == {k \in AffectedKinds(t) : KindWanted(base, k)}
           include == IF base.include = {} THEN {o.ns} ELSE base.include
           q == PlanForTrigger(base, t)
<1>1. CASE ~KindWanted(base, o.kind)
  BY <1>1 DEF AnsweredBy
<1>2. CASE KindWanted(base, o.kind)
  <2>1. q.kinds = wanted /\ q.names = {} /\ q.include = include /\ q.exclude = base.exclude
    BY PlanAssumption DEF PlanForTrigger
  <2>2. IncludesNamespace(q, o.ns)
    BY <2>1 DEF TriggerInScope, IncludesNamespace
  <2>3. o.kind \in wanted
    BY <1>2 DEF AffectedKinds
  <2> HIDE DEF q, o, wanted, include
  <2>4. Covers(q, o)
    BY <2>1, <2>2, <2>3 DEF Covers
  <2> QED
    BY <1>2, <2>4 DEF AnsweredBy, q, o
<1> QED
  BY <1>1, <1>2

LEMMA NoScanIsTyped == NoScan \in ScanRow /\ NoScan.at = "none"
<1>1. (CHOOSE p \in BasePlans : TRUE) \in ScanPlans
  BY PlanAssumption DEF ScanPlans
<1> QED
  BY <1>1 DEF NoScan, ScanRow

LEMMA BeginScanIsTyped ==
  ASSUME NEW p \in ScanPlans, BeginScan(p)
  PROVE  scan' \in ScanRow /\ scan'.at = "reading"
<1>1. PICK row \in ScanRow : row = NoScan
  BY NoScanIsTyped
<1>2. scan' = [row EXCEPT !.at = "reading", !.plan = p]
  BY <1>1 DEF BeginScan
<1> QED
  BY <1>2 DEF ScanRow

\* A change of a Pod, and a Warning about an object, are triggers.
LEMMA ChangesAreTriggers ==
  /\ \A o \in Objects : <<Trigger(o, NoTarget)>> \in Seq(Triggers)
  /\ \A e \in Warnings : <<Trigger(e, e.about), Trigger(e.about, NoTarget)>> \in Seq(Triggers)
<1>1. ASSUME NEW a \in Triggers, NEW b \in Triggers PROVE <<a>> \in Seq(Triggers) /\ <<a, b>> \in Seq(Triggers)
  OBVIOUS
<1>2. ASSUME NEW o \in Objects PROVE Trigger(o, NoTarget) \in Triggers
  BY DEF Triggers
<1>3. ASSUME NEW e \in Warnings PROVE Trigger(e, e.about) \in Triggers /\ Trigger(e.about, NoTarget) \in Triggers
  BY DEF Triggers
<1> QED
  BY <1>1, <1>2, <1>3

LEMMA HeadIsTrigger ==
  ASSUME NEW s \in Seq(Triggers), s # <<>>
  PROVE  Head(s) \in Triggers /\ Tail(s) \in Seq(Triggers)
  OBVIOUS

-----------------------------------------------------------------------------
(* The informers. *)

LEMMA OffersKeeps ==
  ASSUME SchedulerInv, NEW i \in Informers, NEW s \in Seq(Triggers), Offers(i, s)
  PROVE  SchedulerInv'
<1> DEFINE row == [informer[i] EXCEPT !.todo = s]
<1>1. row \in InformerRow /\ row.waking = informer[i].waking
  BY DEF SchedulerInv, SchedulerTypeOK, InformerRow
<1>2. informer' = [informer EXCEPT ![i] = row] /\ informer \in [Informers -> InformerRow]
  BY DEF Offers, SchedulerInv, SchedulerTypeOK
<1> HIDE DEF row
<1>3. informer' \in [Informers -> InformerRow] /\ \A j \in Informers : informer'[j].waking = informer[j].waking
  BY <1>1, <1>2
<1>4. agent' \in AgentRow
  <2>1. PICK n \in Nat : n = agent.changes + 1
    BY DEF SchedulerInv, SchedulerTypeOK, AgentRow
  <2>2. agent' = [agent EXCEPT !.changes = n]
    BY <2>1 DEF Offers, SchedulerInv, SchedulerTypeOK, AgentRow
  <2> QED
    BY <2>2 DEF SchedulerInv, SchedulerTypeOK, AgentRow
<1>5. UNCHANGED <<base, queue, consumer, gate, scan, unscanned, proposals, announced>>
  BY DEF Offers, conf, notices
<1>6. SchedulerTypeOK' /\ GateHolds' /\ AnnouncedIsKnown'
  BY <1>3, <1>4, <1>5 DEF SchedulerInv, SchedulerTypeOK, GateHolds, AnnouncedIsKnown
<1>7. PendingIsAwake'
  BY <1>3, <1>5 DEF SchedulerInv, TakingInv, PendingIsAwake, Awake
<1>8. TakenInScope' /\ UnscannedIsTaken' /\ BatchIsDone'
  BY <1>5 DEF SchedulerInv, TakingInv, BatchIsDone, TakenInScope, UnscannedIsTaken, TriggerInScope
<1> QED
  BY <1>6, <1>7, <1>8 DEF SchedulerInv, TakingInv

\* The trigger at the head of an informer's list, and what is left of the list.
LEMMA EnqueueKeeps ==
  ASSUME SchedulerInv, NEW i \in Informers, Enqueue(i)
  PROVE  SchedulerInv'
<1> DEFINE todo == informer[i].todo
<1>1. informer \in [Informers -> InformerRow] /\ queue \in QueueRow
  BY DEF SchedulerInv, SchedulerTypeOK
<1>2. todo \in Seq(Triggers) /\ todo # <<>>
  BY <1>1 DEF Enqueue, InformerRow
<1>3. PICK t \in Triggers, rest \in Seq(Triggers) : t = Head(todo) /\ rest = Tail(todo)
  BY <1>2, HeadIsTrigger
<1>4. PICK takes \in BOOLEAN : takes = Accepts(t)
  <2>1. Accepts(t) \in BOOLEAN
    BY Zenon DEF Accepts
  <2> QED
    BY <2>1, Zenon
<1>5. informer' = [informer EXCEPT ![i] = [todo |-> rest, waking |-> takes]]
  <2>1. informer' = [informer EXCEPT ![i] = [todo |-> Tail(todo), waking |-> Accepts(Head(todo))]]
    BY <1>1 DEF Enqueue
  <2> QED
    BY <1>3, <1>4, <2>1, Zenon
<1>6. UNCHANGED <<base, agent, consumer, gate, scan, proposals, announced>>
  BY DEF Enqueue, conf, notices
<1>7. informer' \in [Informers -> InformerRow]
  BY <1>1, <1>5 DEF InformerRow
<1>8. /\ queue' \in QueueRow /\ queue'.token = queue.token
      /\ queue'.pending = IF takes THEN queue.pending \cup {t} ELSE queue.pending
      /\ unscanned' = IF takes THEN unscanned \cup {t} ELSE unscanned
  <2>1. CASE takes
    <3>1. Accepts(Head(todo))
      BY <1>3, <1>4, <2>1, Zenon
    <3>2. queue' = [queue EXCEPT !.pending = @ \cup {t}] /\ unscanned' = unscanned \cup {t}
      BY <1>3, <3>1 DEF Enqueue
    <3> QED
      BY <1>1, <2>1, <3>2 DEF QueueRow
  <2>2. CASE ~takes
    <3>1. ~Accepts(Head(todo))
      BY <1>3, <1>4, <2>2, Zenon
    <3>2. UNCHANGED <<queue, unscanned>>
      BY <3>1 DEF Enqueue
    <3> QED
      BY <1>1, <2>2, <3>2
  <2> QED
    BY <2>1, <2>2
<1>9. takes => TriggerInScope(base, t)
  BY <1>4 DEF Accepts, PassesFilter
<1>10. SchedulerTypeOK' /\ GateHolds' /\ AnnouncedIsKnown'
  BY <1>6, <1>7, <1>8 DEF SchedulerInv, SchedulerTypeOK, GateHolds, AnnouncedIsKnown
<1>11. PendingIsAwake'
  <2>1. CASE takes
    <3>1. informer'[i].waking
      BY <1>1, <1>5, <2>1
    <3> QED
      BY <3>1 DEF PendingIsAwake, Awake
  <2>2. CASE ~takes
    <3>1. \A j \in Informers : informer[j].waking => informer'[j].waking
      BY <1>1, <1>5 DEF Enqueue
    <3> QED
      BY <1>6, <1>8, <2>2, <3>1 DEF PendingIsAwake, Awake, SchedulerInv, TakingInv
  <2> QED
    BY <2>1, <2>2
<1>12. TakenInScope' /\ UnscannedIsTaken' /\ BatchIsDone'
  BY <1>6, <1>8, <1>9 DEF SchedulerInv, TakingInv, BatchIsDone, TakenInScope, UnscannedIsTaken
<1> QED
  BY <1>10, <1>11, <1>12 DEF SchedulerInv, TakingInv

LEMMA NotifyKeeps ==
  ASSUME SchedulerInv, NEW i \in Informers, Notify(i)
  PROVE  SchedulerInv'
<1>1. informer \in [Informers -> InformerRow] /\ queue \in QueueRow
  BY DEF SchedulerInv, SchedulerTypeOK
<1>2. UNCHANGED <<base, agent, consumer, gate, scan, unscanned, proposals, announced>>
  BY DEF Notify, conf, notices
<1>3. informer' \in [Informers -> InformerRow]
  BY <1>1 DEF Notify, InformerRow
<1>4. queue' \in QueueRow /\ queue'.token = TRUE /\ queue'.pending = queue.pending
  BY <1>1 DEF Notify, QueueRow
<1>5. SchedulerTypeOK' /\ GateHolds' /\ AnnouncedIsKnown'
  BY <1>2, <1>3, <1>4 DEF SchedulerInv, SchedulerTypeOK, GateHolds, AnnouncedIsKnown
<1>6. TakingInv'
  BY <1>2, <1>4 DEF SchedulerInv, TakingInv, PendingIsAwake, Awake, TakenInScope, UnscannedIsTaken, BatchIsDone
<1> QED
  BY <1>5, <1>6 DEF SchedulerInv

-----------------------------------------------------------------------------
(* The consumer. *)

\* The consumer moves on without touching what is taken.
LEMMA ConsumerMoves ==
  ASSUME SchedulerInv, NEW place \in {"idle", "debounce", "drain"}, consumer.at # "job", consumer.batch = {},
         ConsumerGoes(place), queue' \in QueueRow, queue'.pending = queue.pending,
         queue.pending # {} => queue'.token \/ place \in {"debounce", "drain"} \/ \E i \in Informers : informer[i].waking,
         UNCHANGED <<base, agent, informer, gate, scan, unscanned, proposals, announced>>
  PROVE  SchedulerInv'
<1>1. consumer \in ConsumerRow
  BY DEF SchedulerInv, SchedulerTypeOK
<1>2. consumer' \in ConsumerRow /\ consumer'.at = place /\ consumer'.batch = consumer.batch
  BY <1>1 DEF ConsumerGoes, ConsumerRow
<1>3. SchedulerTypeOK' /\ GateHolds' /\ AnnouncedIsKnown'
  BY <1>2 DEF SchedulerInv, SchedulerTypeOK, GateHolds, AnnouncedIsKnown
<1>4. TakingInv'
  BY <1>2 DEF SchedulerInv, TakingInv, PendingIsAwake, Awake, TakenInScope, UnscannedIsTaken, BatchIsDone
<1> QED
  BY <1>3, <1>4 DEF SchedulerInv

LEMMA WakeKeeps ==
  ASSUME SchedulerInv, Wake
  PROVE  SchedulerInv'
<1> DEFINE place == IF debounces THEN "debounce" ELSE "drain"
<1>1. queue' \in QueueRow /\ queue'.pending = queue.pending
  BY DEF Wake, SchedulerInv, SchedulerTypeOK, QueueRow
<1>2. place \in {"debounce", "drain"}
  OBVIOUS
<1>3. ConsumerGoes(place) /\ consumer.at # "job" /\ consumer.batch = {}
  BY DEF Wake, SchedulerInv, TakingInv, BatchIsDone
<1>4. UNCHANGED <<base, agent, informer, gate, scan, unscanned, proposals, announced>>
  BY DEF Wake, conf, notices
<1> HIDE DEF place
<1> QED
  BY <1>1, <1>2, <1>3, <1>4, ConsumerMoves

LEMMA WaitTriggerDebounceKeeps ==
  ASSUME SchedulerInv, WaitTriggerDebounce
  PROVE  SchedulerInv'
<1>1. queue' \in QueueRow /\ queue'.pending = queue.pending
  BY DEF WaitTriggerDebounce, SchedulerInv, SchedulerTypeOK
<1>2. consumer.batch = {}
  BY DEF WaitTriggerDebounce, SchedulerInv, TakingInv, BatchIsDone
<1> QED
  BY <1>1, <1>2, ConsumerMoves DEF WaitTriggerDebounce, conf, notices

LEMMA BatchDoneKeeps ==
  ASSUME SchedulerInv, BatchDone
  PROVE  SchedulerInv'
<1>1. queue' \in QueueRow /\ queue' = queue
  BY DEF BatchDone, SchedulerInv, SchedulerTypeOK
<1>2. queue.pending # {} => queue.token \/ \E i \in Informers : informer[i].waking
  BY DEF BatchDone, SchedulerInv, TakingInv, PendingIsAwake, Awake
<1> QED
  BY <1>1, <1>2, ConsumerMoves DEF BatchDone, conf, notices


LEMMA DrainKeeps ==
  ASSUME SchedulerInv, Drain
  PROVE  SchedulerInv'
<1>1. queue \in QueueRow /\ consumer \in ConsumerRow /\ consumer.batch = {}
  BY DEF Drain, SchedulerInv, SchedulerTypeOK, TakingInv, BatchIsDone
<1>2. queue' \in QueueRow /\ queue'.pending = {} /\ consumer' \in ConsumerRow
  BY <1>1 DEF Drain, QueueRow, ConsumerRow
<1>3. consumer'.at = "batch" /\ consumer'.batch = queue.pending
  BY DEF Drain
<1>4. UNCHANGED <<base, agent, informer, gate, scan, unscanned, proposals, announced>> /\ consumer.at = "drain"
  BY DEF Drain, conf, notices
<1>5. SchedulerTypeOK' /\ GateHolds' /\ AnnouncedIsKnown'
  BY <1>2, <1>3, <1>4 DEF SchedulerInv, SchedulerTypeOK, GateHolds, AnnouncedIsKnown
<1>6. TakingInv'
  BY <1>1, <1>2, <1>3, <1>4
  DEF SchedulerInv, TakingInv, PendingIsAwake, Awake, TakenInScope, UnscannedIsTaken, BatchIsDone
<1> QED
  BY <1>5, <1>6 DEF SchedulerInv

\* The scan of a trigger answers it.
LEMMA TriggerJobKeeps ==
  ASSUME SchedulerInv, NEW t \in consumer.batch, TriggerJob(t)
  PROVE  SchedulerInv'
<1>1. /\ gate = "free" /\ gate' = "trigger" /\ BeginScan(PlanForTrigger(base, t)) /\ consumer.at = "batch"
      /\ consumer' = [at |-> "job", batch |-> consumer.batch \ {t}]
      /\ UNCHANGED <<base, agent, queue, informer, proposals, announced>>
  BY DEF TriggerJob, RunsTrigger, TakesTrigger, conf, notices
<1>2. consumer \in ConsumerRow /\ base \in BasePlans /\ t \in Triggers
  BY DEF SchedulerInv, SchedulerTypeOK, ConsumerRow
<1>3. consumer' \in ConsumerRow /\ consumer'.at = "job" /\ consumer'.batch = consumer.batch \ {t}
  BY <1>1, <1>2 DEF ConsumerRow
<1>4. PlanForTrigger(base, t) \in ScanPlans
  BY <1>2 DEF ScanPlans
<1>5. scan' \in ScanRow /\ scan'.at = "reading"
  BY <1>1, <1>4, BeginScanIsTyped
<1>6. SchedulerTypeOK' /\ GateHolds' /\ AnnouncedIsKnown'
  BY <1>1, <1>3, <1>5 DEF SchedulerInv, SchedulerTypeOK, GateHolds, AnnouncedIsKnown
<1>7. AnsweredBy(PlanForTrigger(base, t), t)
  BY <1>2, TriggerIsAnswered DEF SchedulerInv, TakingInv, TakenInScope
<1>8. unscanned' \subseteq unscanned \ {t}
  BY <1>1, <1>7 DEF BeginScan
<1>9. UnscannedIsTaken'
  BY <1>1, <1>3, <1>8 DEF SchedulerInv, TakingInv, UnscannedIsTaken
<1>10. PendingIsAwake' /\ TakenInScope' /\ BatchIsDone'
  BY <1>1, <1>3 DEF SchedulerInv, TakingInv, PendingIsAwake, Awake, TakenInScope, BatchIsDone
<1> QED
  BY <1>6, <1>9, <1>10 DEF SchedulerInv, TakingInv

-----------------------------------------------------------------------------
(* The periodic runner. *)

\* The other scans answer what they may, and take nothing from the queue.
LEMMA PeriodicJobKeeps ==
  ASSUME SchedulerInv, PeriodicJob
  PROVE  SchedulerInv'
<1>1. /\ gate = "free" /\ gate' = "periodic" /\ BeginScan(base)
      /\ UNCHANGED <<base, agent, queue, informer, consumer, proposals, announced>>
  BY DEF PeriodicJob, conf, notices
<1>2. scan' \in ScanRow /\ scan'.at = "reading"
  BY <1>1, BeginScanIsTyped DEF ScanPlans, SchedulerInv, SchedulerTypeOK
<1>3. SchedulerTypeOK' /\ GateHolds' /\ AnnouncedIsKnown'
  BY <1>1, <1>2 DEF SchedulerInv, SchedulerTypeOK, GateHolds, AnnouncedIsKnown
<1>4. unscanned' \subseteq unscanned
  BY <1>1 DEF BeginScan
<1>5. TakingInv'
  BY <1>1, <1>4
  DEF SchedulerInv, TakingInv, PendingIsAwake, Awake, TakenInScope, UnscannedIsTaken, BatchIsDone
<1> QED
  BY <1>3, <1>5 DEF SchedulerInv

\* Steps of the loop around the queue and the scans.
LEMMA LoopStepKeeps ==
  ASSUME SchedulerInv, agent' \in AgentRow,
         UNCHANGED <<base, queue, informer, consumer, gate, scan, unscanned, proposals, announced>>
  PROVE  SchedulerInv'
<1>1. SchedulerTypeOK' /\ GateHolds' /\ AnnouncedIsKnown'
  BY DEF SchedulerInv, SchedulerTypeOK, GateHolds, AnnouncedIsKnown
<1>2. TakingInv'
  BY DEF SchedulerInv, TakingInv, PendingIsAwake, Awake, TakenInScope, UnscannedIsTaken, BatchIsDone
<1> QED
  BY <1>1, <1>2 DEF SchedulerInv

LEMMA PeriodicOverlapsKeeps ==
  ASSUME SchedulerInv, PeriodicOverlaps
  PROVE  SchedulerInv'
<1>1. agent' \in AgentRow
  BY DEF PeriodicOverlaps, SchedulerInv, SchedulerTypeOK, AgentRow
<1> QED
  BY <1>1, LoopStepKeeps DEF PeriodicOverlaps, conf, notices

LEMMA PeriodDueKeeps ==
  ASSUME SchedulerInv, PeriodDue
  PROVE  SchedulerInv'
<1>1. PICK n \in Nat : n = agent.periods + 1
  BY DEF SchedulerInv, SchedulerTypeOK, AgentRow
<1>2. agent' = [agent EXCEPT !.periods = n]
  BY <1>1 DEF PeriodDue, SchedulerInv, SchedulerTypeOK, AgentRow
<1>3. agent' \in AgentRow
  BY <1>2 DEF SchedulerInv, SchedulerTypeOK, AgentRow
<1> QED
  BY <1>3, LoopStepKeeps DEF PeriodDue, conf, notices

LEMMA LoopCancelledKeeps ==
  ASSUME SchedulerInv, LoopCancelled
  PROVE  SchedulerInv'
<1>1. agent' \in AgentRow
  BY DEF LoopCancelled, SchedulerInv, SchedulerTypeOK, AgentRow
<1> QED
  BY <1>1, LoopStepKeeps DEF LoopCancelled, conf, notices

\* A scan ends and gives the gate back; the consumer goes on with its batch.
LEMMA JobEndsKeeps ==
  ASSUME SchedulerInv, JobEnds, scan.at # "none"
  PROVE  SchedulerInv'
<1>1. /\ gate' = "free" /\ scan' = NoScan
      /\ UNCHANGED <<base, agent, queue, informer, unscanned, proposals, announced>>
  BY DEF JobEnds, conf, notices
<1>2. scan' \in ScanRow /\ scan'.at = "none"
  BY <1>1, NoScanIsTyped
<1>3. consumer \in ConsumerRow /\ gate \in {"free", "trigger", "periodic"} /\ gate # "free"
  BY DEF SchedulerInv, SchedulerTypeOK, GateHolds
<1>4. /\ consumer' \in ConsumerRow /\ consumer'.batch = consumer.batch /\ consumer'.at # "job"
      /\ consumer'.at \in {"idle", "debounce", "drain"} => consumer.at = consumer'.at
      /\ consumer.at \in {"debounce", "drain"} => consumer.at = consumer'.at
  <2>1. CASE gate = "periodic"
    BY <1>3, <2>1 DEF JobEnds, SchedulerInv, GateHolds
  <2>2. CASE gate = "trigger"
    <3>1. consumer' = [consumer EXCEPT !.at = "batch"] /\ consumer.at = "job"
      BY <2>2 DEF JobEnds, ConsumerGoes, SchedulerInv, GateHolds
    <3> QED
      BY <1>3, <3>1 DEF ConsumerRow
  <2> QED
    BY <1>3, <2>1, <2>2
<1>5. SchedulerTypeOK' /\ GateHolds' /\ AnnouncedIsKnown'
  BY <1>1, <1>2, <1>4 DEF SchedulerInv, SchedulerTypeOK, GateHolds, AnnouncedIsKnown
<1>6. TakingInv'
  BY <1>1, <1>4 DEF SchedulerInv, TakingInv, PendingIsAwake, Awake, TakenInScope, UnscannedIsTaken, BatchIsDone
<1> QED
  BY <1>5, <1>6 DEF SchedulerInv

-----------------------------------------------------------------------------
(* Scans and announcements. *)

\* Steps of a scan and of the store, which leave queue, consumer and gate alone.
LEMMA ScanStepKeeps ==
  ASSUME SchedulerInv, scan' \in ScanRow, scan'.at # "none" => scan.at # "none",
         proposals' \subseteq Objects, announced' \in [Objects -> Nat], AnnouncedIsKnown',
         UNCHANGED <<base, agent, queue, informer, consumer, gate, unscanned>>
  PROVE  SchedulerInv'
<1>1. SchedulerTypeOK' /\ GateHolds'
  BY DEF SchedulerInv, SchedulerTypeOK, GateHolds
<1>2. TakingInv'
  BY DEF SchedulerInv, TakingInv, PendingIsAwake, Awake, TakenInScope, UnscannedIsTaken, BatchIsDone
<1> QED
  BY <1>1, <1>2 DEF SchedulerInv

LEMMA ScanReadsKeeps ==
  ASSUME SchedulerInv, NEW found \in SUBSET Objects, ScanReads(found)
  PROVE  SchedulerInv'
<1>1. scan \in ScanRow /\ proposals \subseteq Objects /\ announced \in [Objects -> Nat]
  BY DEF SchedulerInv, SchedulerTypeOK
<1>2. scan' \in ScanRow /\ scan'.at = "triage" /\ scan'.known = proposals
  BY <1>1 DEF ScanReads, ScanRow
<1>3. UNCHANGED <<base, agent, queue, informer, consumer, gate, unscanned, proposals, announced>>
  BY DEF ScanReads, conf, notices
<1>4. AnnouncedIsKnown'
  BY <1>2, <1>3 DEF AnnouncedIsKnown, SchedulerInv
<1> QED
  BY <1>1, <1>2, <1>3, <1>4, ScanStepKeeps DEF ScanReads

LEMMA ProposesNothingKeeps ==
  ASSUME SchedulerInv, NEW o \in Objects, ProposesNothing(o)
  PROVE  SchedulerInv'
<1>1. scan \in ScanRow /\ proposals \subseteq Objects /\ announced \in [Objects -> Nat]
  BY DEF SchedulerInv, SchedulerTypeOK
<1>2. scan' \in ScanRow /\ scan'.at = scan.at /\ scan'.known = scan.known /\ scan.at = "triage"
  BY <1>1 DEF ProposesNothing, ScanRow
<1>3. UNCHANGED <<base, agent, queue, informer, consumer, gate, unscanned, proposals, announced>>
  BY DEF ProposesNothing, conf, notices
<1>4. AnnouncedIsKnown'
  BY <1>2, <1>3 DEF AnnouncedIsKnown, SchedulerInv
<1> QED
  BY <1>1, <1>2, <1>3, <1>4, ScanStepKeeps

LEMMA ProposesKeeps ==
  ASSUME SchedulerInv, NEW o \in Objects, Proposes(o)
  PROVE  SchedulerInv'
<1>1. scan \in ScanRow /\ proposals \subseteq Objects /\ announced \in [Objects -> Nat]
  BY DEF SchedulerInv, SchedulerTypeOK
<1>2. scan' \in ScanRow /\ scan'.at = "notify" /\ scan'.of = o /\ scan'.known = scan.known /\ scan.at = "triage"
  BY <1>1 DEF Proposes, ScanRow
<1>3. UNCHANGED <<base, agent, queue, informer, consumer, gate, unscanned, announced>>
  BY DEF Proposes, conf
<1>4. proposals' = proposals \cup {o}
  BY DEF Proposes
<1>5. AnnouncedIsKnown'
  BY <1>2, <1>3, <1>4 DEF AnnouncedIsKnown, SchedulerInv
<1> QED
  BY <1>1, <1>2, <1>3, <1>4, <1>5, ScanStepKeeps

LEMMA NotifyNewProposalKeeps ==
  ASSUME SchedulerInv, NotifyNewProposal
  PROVE  SchedulerInv'
<1>1. scan \in ScanRow /\ proposals \subseteq Objects /\ announced \in [Objects -> Nat] /\ scan.at = "notify"
  BY DEF SchedulerInv, SchedulerTypeOK, NotifyNewProposal
<1>2. PICK o \in Objects : o = scan.of /\ o \in proposals
  BY <1>1 DEF SchedulerInv, AnnouncedIsKnown
<1>3. scan' \in ScanRow /\ scan'.at = "triage" /\ scan'.known = scan.known \cup {o}
  BY <1>1, <1>2 DEF NotifyNewProposal, ScanRow
<1>4. UNCHANGED <<base, agent, queue, informer, consumer, gate, unscanned, proposals>>
  BY DEF NotifyNewProposal, conf
<1>5. announced' = announced \/ (o \notin scan.known /\ announced' = [announced EXCEPT ![o] = @ + 1])
  BY <1>2 DEF NotifyNewProposal, NewToNotify
<1>6. o \notin scan.known => announced[o] = 0
  BY <1>1 DEF SchedulerInv, AnnouncedIsKnown
<1>7. announced' \in [Objects -> Nat] /\ \A q \in Objects : announced'[q] = announced[q] \/ (q = o /\ announced'[q] = 1)
  BY <1>1, <1>5, <1>6
<1>8. AnnouncedIsKnown'
  BY <1>1, <1>2, <1>3, <1>4, <1>7 DEF AnnouncedIsKnown, SchedulerInv
<1> QED
  BY <1>1, <1>3, <1>4, <1>7, <1>8, ScanStepKeeps

LEMMA OperatorProposesKeeps ==
  ASSUME SchedulerInv, NEW o \in Objects, OperatorProposes(o)
  PROVE  SchedulerInv'
<1>1. scan \in ScanRow /\ proposals \subseteq Objects /\ announced \in [Objects -> Nat]
  BY DEF SchedulerInv, SchedulerTypeOK
<1>2. UNCHANGED <<base, agent, queue, informer, consumer, gate, scan, unscanned, announced>>
  BY DEF OperatorProposes, conf
<1>3. proposals' = proposals \cup {o}
  BY DEF OperatorProposes
<1>4. AnnouncedIsKnown'
  BY <1>2, <1>3 DEF AnnouncedIsKnown, SchedulerInv
<1> QED
  BY <1>1, <1>2, <1>3, <1>4, ScanStepKeeps

LEMMA ProposalPrunedKeeps ==
  ASSUME SchedulerInv, NEW o \in Objects, ProposalPruned(o)
  PROVE  SchedulerInv'
<1>1. scan \in ScanRow /\ proposals \subseteq Objects /\ announced \in [Objects -> Nat]
  BY DEF SchedulerInv, SchedulerTypeOK
<1>2. UNCHANGED <<base, agent, queue, informer, consumer, gate, scan, unscanned>>
  BY DEF ProposalPruned, conf
<1>3. proposals' = proposals \ {o} /\ announced' = [announced EXCEPT ![o] = 0] /\ o # scan.of
  BY DEF ProposalPruned
<1>4. AnnouncedIsKnown'
  BY <1>1, <1>2, <1>3 DEF AnnouncedIsKnown, SchedulerInv
<1> QED
  BY <1>1, <1>2, <1>3, <1>4, ScanStepKeeps

LEMMA NoticeForgottenKeeps ==
  ASSUME SchedulerInv, NEW o \in Objects, NoticeForgotten(o)
  PROVE  SchedulerInv'
<1>1. UNCHANGED <<base, agent, queue, informer, consumer, gate, scan, unscanned, proposals, announced>>
  BY DEF NoticeForgotten, conf
<1>2. agent' \in AgentRow
  BY <1>1 DEF SchedulerInv, SchedulerTypeOK
<1> QED
  BY <1>1, <1>2, LoopStepKeeps

-----------------------------------------------------------------------------

\* A process starts with nothing in memory; the store and the cluster are as they were.
LEMMA FreshIsTyped ==
  /\ Empty \in QueueRow /\ Empty.pending = {} /\ Waiting \in ConsumerRow /\ Waiting.batch = {} /\ Waiting.at = "idle"
  /\ Quiet \in [Informers -> InformerRow]
<1>1. <<>> \in Seq(Triggers)
  OBVIOUS
<1> QED
  BY <1>1 DEF Empty, QueueRow, Waiting, ConsumerRow, Quiet, InformerRow

LEMMA AgentRestartsKeeps ==
  ASSUME SchedulerInv, AgentRestarts
  PROVE  SchedulerInv'
<1>1. /\ queue' = Empty /\ informer' = Quiet /\ consumer' = Waiting /\ gate' = "free" /\ scan' = NoScan
      /\ unscanned' = {} /\ UNCHANGED <<base, proposals, announced>>
  BY DEF AgentRestarts, conf
<1>2. PICK n \in Nat : n = agent.starts + 1
  BY DEF SchedulerInv, SchedulerTypeOK, AgentRow
<1>3. agent' = [agent EXCEPT !.live = TRUE, !.starts = n]
  BY <1>2 DEF AgentRestarts, SchedulerInv, SchedulerTypeOK, AgentRow
<1>4. agent' \in AgentRow
  BY <1>3 DEF SchedulerInv, SchedulerTypeOK, AgentRow
<1>5. SchedulerTypeOK'
  BY <1>1, <1>4, NoScanIsTyped, FreshIsTyped DEF SchedulerInv, SchedulerTypeOK
<1>6. GateHolds' /\ AnnouncedIsKnown' /\ TakingInv'
  BY <1>1, NoScanIsTyped, FreshIsTyped
  DEF SchedulerInv, GateHolds, AnnouncedIsKnown, TakingInv, PendingIsAwake, TakenInScope, UnscannedIsTaken, BatchIsDone
<1> QED
  BY <1>5, <1>6 DEF SchedulerInv

LEMMA SchedulerInitHolds == SchedulerInit => SchedulerInv
<1> SUFFICES ASSUME SchedulerInit PROVE SchedulerInv
  OBVIOUS
<1>1. agent \in AgentRow
  BY DEF SchedulerInit, AgentRow
<1>2. SchedulerTypeOK
  BY <1>1, NoScanIsTyped, FreshIsTyped DEF SchedulerInit, SchedulerTypeOK
<1>3. GateHolds /\ AnnouncedIsKnown /\ TakingInv
  BY NoScanIsTyped, FreshIsTyped
  DEF SchedulerInit, GateHolds, AnnouncedIsKnown, TakingInv, PendingIsAwake, TakenInScope, UnscannedIsTaken, BatchIsDone
<1> QED
  BY <1>2, <1>3 DEF SchedulerInv

LEMMA SchedulerStepHolds == SchedulerInv /\ [SchedulerNext]_schedVars => SchedulerInv'
<1> SUFFICES ASSUME SchedulerInv, [SchedulerNext]_schedVars PROVE SchedulerInv'
  OBVIOUS
<1>1. CASE UNCHANGED schedVars
  <2>1. agent' \in AgentRow
    BY <1>1 DEF schedVars, SchedulerInv, SchedulerTypeOK
  <2> QED
    BY <1>1, <2>1, LoopStepKeeps DEF schedVars
<1>2. ASSUME NEW o \in Objects, EnqueuePod(o) PROVE SchedulerInv'
  BY <1>2, ChangesAreTriggers, OffersKeeps DEF EnqueuePod, Informers
<1>3. ASSUME NEW e \in Warnings, EnqueueEvent(e) PROVE SchedulerInv'
  BY <1>3, ChangesAreTriggers, OffersKeeps DEF EnqueueEvent, Informers
<1>4. ASSUME NEW o \in Objects,
             ProposesNothing(o) \/ Proposes(o) \/ OperatorProposes(o) \/ ProposalPruned(o) \/ NoticeForgotten(o)
      PROVE  SchedulerInv'
  BY <1>4, ProposesNothingKeeps, ProposesKeeps, OperatorProposesKeeps, ProposalPrunedKeeps, NoticeForgottenKeeps
<1>5. ASSUME NEW i \in Informers, Enqueue(i) \/ Notify(i) PROVE SchedulerInv'
  BY <1>5, EnqueueKeeps, NotifyKeeps
<1>6. ASSUME NEW t \in consumer.batch, TriggerJob(t) PROVE SchedulerInv'
  BY <1>6, TriggerJobKeeps
<1>7. ASSUME NEW found \in SUBSET Objects, ScanReads(found) PROVE SchedulerInv'
  BY <1>7, ScanReadsKeeps
<1>8. ASSUME ScanFails \/ ScanEnds PROVE SchedulerInv'
  BY <1>8, JobEndsKeeps DEF ScanFails, ScanEnds
<1>9. ASSUME \/ Wake \/ WaitTriggerDebounce \/ Drain \/ BatchDone \/ PeriodicJob \/ PeriodicOverlaps
             \/ PeriodDue \/ NotifyNewProposal \/ LoopCancelled \/ AgentRestarts
      PROVE  SchedulerInv'
  BY <1>9, WakeKeeps, WaitTriggerDebounceKeeps, DrainKeeps, BatchDoneKeeps, PeriodicJobKeeps,
     PeriodicOverlapsKeeps, PeriodDueKeeps, NotifyNewProposalKeeps, LoopCancelledKeeps, AgentRestartsKeeps
<1>10. CASE SchedulerNext
  BY <1>2, <1>3, <1>4, <1>5, <1>6, <1>7, <1>8, <1>9, <1>10 DEF SchedulerNext
<1> QED
  BY <1>1, <1>10

LEMMA SchedulerAlways == SchedulerSpec => []SchedulerInv
  BY SchedulerInitHolds, SchedulerStepHolds, PTL DEF SchedulerSpec

\* Whatever the plan, the capacity and the debounce, an accepted trigger that no scan has
\* answered is in the batch or is pending with the consumer woken or about to be: a token in
\* the one-place channel stands for every insertion before it (TriggerQueue.Enqueue, Run,
\* drain, RunWithTriggers).
THEOREM SchedulerLosesNoTrigger == SchedulerSpec => []NoTriggerLost
<1>1. SchedulerInv => NoTriggerLost
  BY DEF SchedulerInv, TakingInv, PendingIsAwake, Awake, UnscannedIsTaken, NoTriggerLost, Queued
<1> QED
  BY <1>1, SchedulerAlways, PTL

\* Over any number of processes, scans and days the proposal on record of an object is
\* announced at most once: what the store listed before triage is not news
\* (runSingleScanWithPlan, notifyNewProposal).
THEOREM SchedulerAnnouncesOnce == SchedulerSpec => []AnnouncedOnce
<1>1. SchedulerInv => AnnouncedOnce
  BY DEF SchedulerInv, SchedulerTypeOK, AnnouncedIsKnown, AnnouncedOnce
<1> QED
  BY <1>1, SchedulerAlways, PTL

-----------------------------------------------------------------------------
(* The user configuration. *)

ClientRow == [at : {"idle", "load", "edit", "migrated", "rename"}, cmd : Edits \cup Reads, doc : Document]

ConfigTypeOK == file \in Document /\ client \in [Clients -> ClientRow]

\* A document that may take the file's place.
Sound(doc) == Normalizes(doc) /\ doc.secrets = {}

ClientsHold ==
  \A c \in Clients : /\ client[c].at = "migrated" => Normalizes(client[c].doc)
                     /\ client[c].at = "rename" => Sound(client[c].doc)

ConfigInv ==
  /\ ConfigTypeOK /\ ClientsHold /\ ResolvedIsUsable
  /\ file \in UserFiles \cup {Absent} \/ Sound(file)

-----------------------------------------------------------------------------

LEMMA NewIsTyped == NewUserConfig \in Document /\ Absent \in Document /\ Absent.schema = "absent"
<1>1. Settings \in UserSettings
  BY DEF Settings, UserSettings, Durations
<1>2. NewUserConfig \in Document
  BY <1>1 DEF NewUserConfig, Document
<1> QED
  BY <1>2 DEF Absent, Document

LEMMA IdleIsTyped == Idle \in ClientRow /\ Idle.at = "idle"
<1>1. NoCommand \in Reads
  BY DEF NoCommand, Reads
<1> QED
  BY <1>1, NewIsTyped DEF Idle, ClientRow

LEMMA SafeCopyIsSound ==
  ASSUME NEW doc \in Document, Normalizes(doc)
  PROVE  SafeConfigCopy(doc) \in Document /\ Sound(SafeConfigCopy(doc))
<1> DEFINE copy == SafeConfigCopy(doc)
<1>1. /\ copy \in Document /\ copy.schema = doc.schema /\ copy.entries = doc.entries
      /\ copy.default = doc.default /\ copy.secrets = {}
  BY DEF SafeConfigCopy, Document
<1> HIDE DEF copy
<1>2. Sound(copy)
  BY <1>1 DEF Sound, Normalizes, Find
<1> QED
  BY <1>1, <1>2 DEF copy

LEMMA MigratedSettingsAreTyped ==
  ASSUME NEW top \in UserSettings, NEW nested \in UserSettings
  PROVE  MigratedSettings(top, nested) \in UserSettings
  BY DEF MigratedSettings, UserSettings

LEMMA MigratedIsTyped ==
  ASSUME NEW doc \in Document
  PROVE  MigrateLegacyConfig(doc) \in Document
<1> DEFINE first == CHOOSE n \in Names : Find(doc, "profiles", n)
           noDefault == doc.default["profiles"] = None /\ \E n \in Names : Find(doc, "profiles", n)
           name == IF noDefault THEN first ELSE doc.default["profiles"]
           default == [doc.default EXCEPT !["profiles"] = name]
           kept == MigratedSettings(doc.settings, doc.nested)
<1>1. doc.default \in [Sections -> Names \cup {None}] /\ "profiles" \in Sections
  BY DEF Document, Sections
<1>2. noDefault => first \in Names
  OBVIOUS
<1>3. name \in Names \cup {None}
  BY <1>1, <1>2
<1>4. kept \in UserSettings /\ Settings \in UserSettings
  BY MigratedSettingsAreTyped DEF Document, Settings, UserSettings, Durations
<1>5. default \in [Sections -> Names \cup {None}]
  BY <1>1, <1>3
<1> HIDE DEF kept
<1>6. MigrateLegacyConfig(doc) = [doc EXCEPT !.schema = "v1", !.secrets = {}, !.default["profiles"] = name,
                                             !.settings = kept, !.nested = Settings]
  BY <1>1 DEF MigrateLegacyConfig, Document, kept
<1> HIDE DEF name
<1>7. MigrateLegacyConfig(doc) = [doc EXCEPT !.schema = "v1", !.secrets = {}, !.default = default,
                                             !.settings = kept, !.nested = Settings]
  BY <1>6 DEF Document
<1> HIDE DEF default
<1> QED
  BY <1>4, <1>5, <1>7 DEF Document

LEMMA EditedIsTyped ==
  ASSUME NEW doc \in Document, NEW cmd \in Edits \cup Reads
  PROVE  Edited(doc, cmd) \in Document
<1>1. CASE cmd.op \in {"list", "resolve"}
  BY <1>1 DEF Edited
<1>2. CASE cmd.op \notin {"list", "resolve"}
  <2>1. cmd \in Edits
    BY <1>2 DEF Reads
  <2>2. PICK s \in Sections, n \in Names, v \in {1, 2} : s = cmd.section /\ n = cmd.name /\ v = cmd.value
    BY <2>1 DEF Edits
  <2>3. doc.entries \in [Sections -> [Names -> 0..2]] /\ doc.default \in [Sections -> Names \cup {None}]
    BY DEF Document
  <2>4. ASSUME NEW w \in 0..2 PROVE [doc.entries EXCEPT ![s][n] = w] \in [Sections -> [Names -> 0..2]]
    BY <2>3
  <2>5. CASE cmd.op = "delete"
    <3> DEFINE table == [doc.entries EXCEPT ![s][n] = 0]
               default == [doc.default EXCEPT ![s] = IF @ = n THEN None ELSE @]
    <3>1. Edited(doc, cmd) = [doc EXCEPT !.entries = table, !.default = default]
      BY <2>2, <2>5 DEF Edited, Document
    <3>2. table \in [Sections -> [Names -> 0..2]] /\ default \in [Sections -> Names \cup {None}]
      BY <2>3, <2>4
    <3> HIDE DEF table, default
    <3> QED
      BY <3>1, <3>2 DEF Document
  <2>6. CASE cmd.op = "default"
    <3> DEFINE default == [doc.default EXCEPT ![s] = n]
    <3>1. Edited(doc, cmd) = [doc EXCEPT !.default = default]
      BY <2>2, <2>6 DEF Edited, Document
    <3>2. default \in [Sections -> Names \cup {None}]
      BY <2>3
    <3> HIDE DEF default
    <3> QED
      BY <3>1, <3>2 DEF Document
  <2>7. CASE cmd.op \notin {"delete", "default"}
    <3> DEFINE table == [doc.entries EXCEPT ![s][n] = v]
               secrets == IF s = "profiles" THEN doc.secrets \cup {n} ELSE doc.secrets
    <3>1. Edited(doc, cmd) = Set(doc, cmd)
      BY <1>2, <2>7 DEF Edited
    <3>2. Set(doc, cmd) = [doc EXCEPT !.entries = table, !.secrets = secrets]
      BY <2>2 DEF Set, Document
    <3>3. table \in [Sections -> [Names -> 0..2]] /\ secrets \in SUBSET Names
      BY <2>3, <2>4 DEF Document
    <3> HIDE DEF table, secrets
    <3> QED
      BY <3>1, <3>2, <3>3 DEF Document
  <2> QED
    BY <2>5, <2>6, <2>7
<1> QED
  BY <1>1, <1>2

-----------------------------------------------------------------------------

\* The interval is positive and the jitter shorter, whatever was asked for.
LEMMA ClampsIsUsable ==
  ASSUME NEW i \in Int, NEW j \in Int
  PROVE  /\ Clamps(i, j).interval \in Int /\ Clamps(i, j).interval > 0
         /\ Clamps(i, j).jitter \in 0..(Clamps(i, j).interval - 1)
<1>1. PICK n \in Int : n = (IF i <= 0 THEN DefaultInterval ELSE i) /\ n > 0
  BY ConfigAssumption
<1>2. PICK k \in Int : k = (IF j < 0 \/ j >= n THEN 0 ELSE j) /\ 0 <= k /\ k < n
  BY <1>1
<1>3. Clamps(i, j) = [interval |-> n, jitter |-> k]
  BY <1>1, <1>2 DEF Clamps
<1> QED
  BY <1>1, <1>2, <1>3

LEMMA ResolvesUsably ==
  ASSUME NEW doc \in Document, NEW flags \in Input, NEW env \in Input, resolved' = ResolveConfig(doc, flags, env)
  PROVE  ResolvedIsUsable'
<1> DEFINE interval == Precedence(flags.interval, env.interval, doc.settings.interval)
           jitter == Precedence(flags.jitter, env.jitter, doc.settings.jitter)
           token == Precedence(flags.token, env.token, doc.settings.token)
           clamped == Clamps(DurationValue(interval), DurationValue(jitter))
           required == BoolValue(token)
           from == [flags |-> flags, env |-> env, token |-> doc.settings.token]
           exclude == IF doc.settings.exclude # 0 THEN doc.settings.exclude ELSE SelectedFilter(doc)
<1>1. CASE Bad \in {interval, jitter}
  BY <1>1 DEF ResolveConfig, Unresolved, ResolvedIsUsable
<1>2. CASE Bad \notin {interval, jitter}
  <2>1. doc.settings \in UserSettings
    BY DEF Document
  <2>2. interval \in Int \cup {None, EmptyValue} /\ jitter \in Int \cup {None, EmptyValue}
    BY <1>2, <2>1 DEF Precedence, Input, UserSettings, Durations
  <2>3. DurationValue(interval) \in Int /\ DurationValue(jitter) \in Int
    BY <2>2 DEF DurationValue
  <2>4. clamped.interval \in Int /\ clamped.interval > 0 /\ clamped.jitter \in 0..(clamped.interval - 1)
    BY <2>3, ClampsIsUsable
  <2>5. /\ flags.token # None => (required <=> flags.token \notin {FALSE, EmptyValue})
        /\ flags.token = None /\ env.token # None => (required <=> env.token \notin {FALSE, EmptyValue})
        /\ flags.token = None /\ env.token = None => (required <=> doc.settings.token)
    BY <2>1, DocumentAssumption DEF Precedence, BoolValue, Input, UserSettings
  <2>6. resolved' = [ok |-> TRUE, interval |-> clamped.interval, jitter |-> clamped.jitter, token |-> required,
                     exclude |-> exclude, provider |-> SelectedProfile(doc), from |-> from]
    BY <1>2 DEF ResolveConfig
  <2> HIDE DEF interval, jitter, token, clamped, required, exclude
  <2>7. resolved'.interval > 0 /\ resolved'.jitter \in 0..(resolved'.interval - 1)
    BY <2>4, <2>6
  <2>8. /\ resolved'.token = required
        /\ resolved'.from = from
    BY <2>6
  <2>9. from["flags"] = flags /\ from["env"] = env /\ from.token = doc.settings.token
    OBVIOUS
  <2> DEFINE said == {s \in {"flags", "env"} : from[s].token # None}
  <2>10. /\ "flags" \in said <=> flags.token # None
         /\ "flags" \notin said => (said = {"env"} <=> env.token # None)
    BY <2>9
  <2>11. required <=> CASE "flags" \in said -> from.flags.token \notin {FALSE, EmptyValue}
                        [] said = {"env"} -> from.env.token \notin {FALSE, EmptyValue}
                        [] OTHER -> from.token
    BY <2>5, <2>9, <2>10
  <2> QED
    BY <2>7, <2>8, <2>11 DEF ResolvedIsUsable
<1> QED
  BY <1>1, <1>2

-----------------------------------------------------------------------------

\* A process goes on with a row that holds, while the file stays.
LEMMA ClientMoves ==
  ASSUME ConfigInv, NEW c \in Clients, NEW row \in ClientRow,
         row.at = "migrated" => Normalizes(row.doc), row.at = "rename" => Sound(row.doc),
         client' = [client EXCEPT ![c] = row], file' = file, ResolvedIsUsable'
  PROVE  ConfigInv'
<1>1. ConfigTypeOK'
  BY DEF ConfigInv, ConfigTypeOK
<1>2. \A d \in Clients : client'[d] = IF d = c THEN row ELSE client[d]
  BY DEF ConfigInv, ConfigTypeOK
<1>3. ClientsHold'
  BY <1>2 DEF ConfigInv, ClientsHold, Sound, Normalizes, Find
<1> QED
  BY <1>1, <1>3 DEF ConfigInv, Sound, Normalizes, Find

\* A process gives way to a row that promises nothing, and the file to a sound document.
LEMMA FileReplaced ==
  ASSUME ConfigInv, NEW c \in Clients, NEW row \in ClientRow, row.at \notin {"migrated", "rename"},
         NEW doc \in Document, Sound(doc), client' = [client EXCEPT ![c] = row], file' = doc, resolved' = resolved
  PROVE  ConfigInv'
<1>1. ConfigTypeOK'
  BY DEF ConfigInv, ConfigTypeOK
<1>2. \A d \in Clients : client'[d] = IF d = c THEN row ELSE client[d]
  BY DEF ConfigInv, ConfigTypeOK
<1>3. ClientsHold'
  BY <1>2 DEF ConfigInv, ClientsHold, Sound, Normalizes, Find
<1>4. ResolvedIsUsable'
  BY DEF ConfigInv, ResolvedIsUsable
<1> QED
  BY <1>1, <1>3, <1>4 DEF ConfigInv, Sound, Normalizes, Find

LEMMA UsableStays ==
  ASSUME ResolvedIsUsable, resolved' = resolved
  PROVE  ResolvedIsUsable'
  BY DEF ResolvedIsUsable

LEMMA ClientFails ==
  ASSUME ConfigInv, NEW c \in Clients, Fails(c), file' = file, resolved' = resolved
  PROVE  ConfigInv'
  BY ClientMoves, IdleIsTyped, UsableStays DEF Fails, ConfigInv

\* Where a process goes, with a document.
LEMMA BecomesIs ==
  ASSUME ConfigInv, NEW c \in Clients, NEW place \in {"edit", "migrated", "rename"}, NEW doc \in Document,
         Becomes(c, place, doc)
  PROVE  \E row \in ClientRow : row.at = place /\ row.doc = doc /\ client' = [client EXCEPT ![c] = row]
<1> DEFINE row == [client[c] EXCEPT !.at = place, !.doc = doc]
<1>1. client[c] \in ClientRow
  BY DEF ConfigInv, ConfigTypeOK
<1>2. row \in ClientRow /\ row.at = place /\ row.doc = doc
  BY <1>1 DEF ClientRow
<1>3. client' = [client EXCEPT ![c] = row]
  BY <1>1 DEF Becomes, ConfigInv, ConfigTypeOK
<1> QED
  BY <1>2, <1>3

LEMMA RunCommandKeeps ==
  ASSUME ConfigInv, NEW c \in Clients, NEW cmd \in Edits \cup Reads, RunCommand(c, cmd)
  PROVE  ConfigInv'
<1> DEFINE row == [Idle EXCEPT !.at = "load", !.cmd = cmd]
<1>1. row \in ClientRow /\ row.at = "load"
  BY IdleIsTyped DEF ClientRow
<1>2. client' = [client EXCEPT ![c] = row] /\ file' = file
  BY DEF RunCommand
<1>3. ResolvedIsUsable'
  BY DEF RunCommand, Unresolved, ResolvedIsUsable
<1> HIDE DEF row
<1> QED
  BY <1>1, <1>2, <1>3, ClientMoves

LEMMA LoadKeeps ==
  ASSUME ConfigInv, NEW c \in Clients, Load(c)
  PROVE  ConfigInv'
<1>1. file' = file /\ resolved' = resolved /\ file \in Document /\ ResolvedIsUsable'
  BY UsableStays DEF Load, ConfigInv, ConfigTypeOK
<1>2. CASE Fails(c)
  BY <1>1, <1>2, ClientFails
<1>3. ASSUME NEW doc \in Document, Becomes(c, "edit", doc) PROVE ConfigInv'
  <2>1. PICK row \in ClientRow : row.at = "edit" /\ client' = [client EXCEPT ![c] = row]
    BY <1>3, BecomesIs
  <2> QED
    BY <1>1, <2>1, ClientMoves
<1>4. CASE Normalizes(MigrateLegacyConfig(file)) /\ Becomes(c, "migrated", MigrateLegacyConfig(file))
  <2>1. PICK doc \in Document : doc = MigrateLegacyConfig(file)
    BY <1>1, MigratedIsTyped
  <2>2. PICK row \in ClientRow : row.at = "migrated" /\ row.doc = doc /\ client' = [client EXCEPT ![c] = row]
    BY <1>4, <2>1, BecomesIs
  <2>3. Normalizes(row.doc)
    BY <1>4, <2>1, <2>2
  <2> QED
    BY <1>1, <2>2, <2>3, ClientMoves
<1>5. \/ Becomes(c, "edit", NewUserConfig) \/ Fails(c)
      \/ Normalizes(file) /\ Becomes(c, "edit", SafeConfigCopy(file))
      \/ Normalizes(MigrateLegacyConfig(file)) /\ Becomes(c, "migrated", MigrateLegacyConfig(file))
  BY DEF Load
<1> QED
  BY <1>1, <1>2, <1>3, <1>4, <1>5, NewIsTyped, SafeCopyIsSound

LEMMA MigrateKeeps ==
  ASSUME ConfigInv, NEW c \in Clients, Migrate(c)
  PROVE  ConfigInv'
<1>1. PICK doc \in Document : doc = client[c].doc /\ Normalizes(doc)
  BY DEF Migrate, ConfigInv, ConfigTypeOK, ClientsHold, ClientRow
<1>2. PICK copy \in Document : copy = SafeConfigCopy(doc) /\ Sound(copy)
  BY <1>1, SafeCopyIsSound
<1>3. PICK row \in ClientRow : row.at = "edit" /\ client' = [client EXCEPT ![c] = row]
  BY <1>1, BecomesIs DEF Migrate
<1> QED
  BY <1>1, <1>2, <1>3, FileReplaced DEF Migrate

LEMMA EditKeeps ==
  ASSUME ConfigInv, NEW c \in Clients, Edit(c)
  PROVE  ConfigInv'
<1>1. file' = file /\ resolved' = resolved /\ ResolvedIsUsable'
  BY UsableStays DEF Edit, ConfigInv
<1>2. client[c].doc \in Document /\ client[c].cmd \in Edits \cup Reads
  BY DEF ConfigInv, ConfigTypeOK, ClientRow
<1>3. PICK doc \in Document : doc = Edited(client[c].doc, client[c].cmd)
  BY <1>2, EditedIsTyped
<1>4. CASE Fails(c)
  BY <1>1, <1>4, ClientFails
<1>5. CASE Normalizes(doc) /\ Becomes(c, "rename", SafeConfigCopy(doc))
  <2>1. PICK copy \in Document : copy = SafeConfigCopy(doc) /\ Sound(copy)
    BY <1>5, SafeCopyIsSound
  <2>2. PICK row \in ClientRow : row.at = "rename" /\ row.doc = copy /\ client' = [client EXCEPT ![c] = row]
    BY <1>5, <2>1, BecomesIs
  <2>3. Sound(row.doc)
    BY <2>1, <2>2
  <2> QED
    BY <1>1, <2>2, <2>3, ClientMoves
<1> QED
  BY <1>3, <1>4, <1>5 DEF Edit

LEMMA RenameKeeps ==
  ASSUME ConfigInv, NEW c \in Clients, Rename(c)
  PROVE  ConfigInv'
<1>1. PICK doc \in Document : doc = client[c].doc /\ Sound(doc)
  BY DEF Rename, ConfigInv, ConfigTypeOK, ClientsHold, ClientRow
<1> QED
  BY <1>1, FileReplaced, IdleIsTyped DEF Rename, Fails

LEMMA ResolveKeeps ==
  ASSUME ConfigInv, NEW c \in Clients, NEW flags \in Inputs, NEW env \in Inputs, Resolve(c, flags, env)
  PROVE  ConfigInv'
<1>1. PICK doc \in Document : doc = client[c].doc
  BY DEF ConfigInv, ConfigTypeOK, ClientRow
<1>2. flags \in Input /\ env \in Input
  BY DocumentAssumption
<1>3. resolved' = ResolveConfig(doc, flags, env) => ResolvedIsUsable'
  BY <1>2, ResolvesUsably
<1>4. resolved' = Unresolved => ResolvedIsUsable'
  BY DEF Unresolved, ResolvedIsUsable
<1>5. ResolvedIsUsable'
  BY <1>1, <1>3, <1>4 DEF Resolve
<1> QED
  BY <1>5, ClientMoves, IdleIsTyped DEF Resolve, Fails

LEMMA ConfigInitHolds == ConfigInit => ConfigInv
<1> SUFFICES ASSUME ConfigInit PROVE ConfigInv
  OBVIOUS
<1>1. file \in Document /\ file \in UserFiles \cup {Absent}
  BY NewIsTyped, DocumentAssumption DEF ConfigInit
<1>2. client \in [Clients -> ClientRow] /\ ClientsHold
  BY IdleIsTyped DEF ConfigInit, ClientsHold
<1>3. ResolvedIsUsable
  BY DEF ConfigInit, Unresolved, ResolvedIsUsable
<1> QED
  BY <1>1, <1>2, <1>3 DEF ConfigInv, ConfigTypeOK

LEMMA ConfigStepHolds == ConfigInv /\ [ConfigNext]_configVars => ConfigInv'
<1> SUFFICES ASSUME ConfigInv, [ConfigNext]_configVars PROVE ConfigInv'
  OBVIOUS
<1>1. CASE UNCHANGED configVars
  BY <1>1, UsableStays DEF configVars, ConfigInv, ConfigTypeOK, ClientsHold, Sound, Normalizes, Find
<1>2. ASSUME NEW c \in Clients, NEW cmd \in Edits \cup Reads, RunCommand(c, cmd) PROVE ConfigInv'
  BY <1>2, RunCommandKeeps
<1>3. ASSUME NEW c \in Clients, Load(c) \/ Migrate(c) \/ Edit(c) \/ Rename(c) \/ CommandDies(c) PROVE ConfigInv'
  BY <1>3, LoadKeeps, MigrateKeeps, EditKeeps, RenameKeeps, ClientFails DEF CommandDies
<1>4. ASSUME NEW c \in Clients, NEW flags \in Inputs, NEW env \in Inputs, Resolve(c, flags, env) PROVE ConfigInv'
  BY <1>4, ResolveKeeps
<1>5. CASE ConfigNext
  BY <1>2, <1>3, <1>4, <1>5 DEF ConfigNext
<1> QED
  BY <1>1, <1>5

LEMMA ConfigAlways == ConfigSpec => []ConfigInv
  BY ConfigInitHolds, ConfigStepHolds, PTL DEF ConfigSpec

\* Any number of commands, side by side and killed anywhere, leave the user's own file or one
\* of the current schema whose defaults exist and which holds no credential: what takes the
\* file's place was normalized and copied without its keys in the same process (loadLocked, saveLocked).
THEOREM ConfigFileStaysSound == ConfigSpec => []FileIsSound
<1>1. ConfigInv => FileIsSound
  BY DEF ConfigInv, ConfigTypeOK, Document, Sound, Normalizes, Find, FileIsSound
<1> QED
  BY <1>1, ConfigAlways, PTL

\* For all flags, environments and files the resolved interval is positive, the jitter is
\* shorter, and the first source that has the token's key decides alone, an empty value
\* included (ResolveConfig, precedenceValue, boolValue).
THEOREM ConfigResolvesUsably == ConfigSpec => []ResolvedIsUsable
<1>1. ConfigInv => ResolvedIsUsable
  BY DEF ConfigInv
<1> QED
  BY <1>1, ConfigAlways, PTL

-----------------------------------------------------------------------------
(* The life of the standalone server. *)

Others == Stoppers \cup Watchers
\* Where a call of Start is before its generation serves, while it runs, and while it has the slot.
Opening == {"unready", "listen", "publish", "published", "handoff"}
Closing == {"complete", "completed", "return"}
Running == Opening \cup {"serving", "drain"} \cup Closing
Holding == Running \cup {"claim"}
StarterPlaces == Holding \cup {"idle", "slot"}
OtherPlaces == {"idle", "watch", "cancelled", "awaitStartup", "unready", "await", "stop", "http", "complete",
                "completed", "return", "returned", "failed"}

CallerRow == [at : StarterPlaces \cup OtherPlaces, of : 0..MaxStarts]
LifeRow == [started : BOOLEAN, pending : BOOLEAN, cancelled : BOOLEAN, stopping : BOOLEAN, complete : BOOLEAN,
            generation : 0..MaxStarts, serveStarted : BOOLEAN, http : 0..MaxStarts, startup : 0..MaxStarts]
NetRow == [listening : SUBSET Generations, serving : SUBSET Generations, closed : SUBSET Generations]
TrackerRow == [active : [Generations -> SUBSET Requests], stopping : SUBSET Generations]

ServerTypeOK ==
  /\ life \in LifeRow /\ net \in NetRow /\ tracker \in TrackerRow
  /\ proc \in [Callers -> CallerRow]
  /\ slot \in BOOLEAN

\* No request of the generation is in a handler, and none can enter any more.
Settled(g) ==
  /\ tracker.active[g] = {}
  /\ \/ g \in tracker.stopping
     \/ g \notin net.serving /\ \A s \in Starters : ~(proc[s].at \in Opening /\ proc[s].of = g)

StarterHolds(row) ==
  /\ row.at \in StarterPlaces
  /\ row.at \in Running => row.of \in Generations /\ row.of <= life.generation
  /\ row.at \in Opening => row.of \notin net.serving /\ tracker.active[row.of] = {}
  /\ row.at \in Closing => Settled(row.of)
  /\ row.at \in {"slot", "claim"} => life.pending

OtherHolds(row) ==
  /\ row.at \in OtherPlaces
  /\ row.at \in {"await", "stop", "http"} \cup Closing \cup {"returned"} => row.of <= life.generation
  /\ row.at \in {"stop"} \cup Closing => row.of # 0
  /\ row.at = "unready" => row.of = 0
  /\ row.at \in Closing \cup {"returned"} /\ row.of # 0 => Settled(row.of)

StopHolds(row) == row.at = "http" => row.of \in tracker.stopping

StartersHold == \A s \in Starters : StarterHolds(proc[s])
OthersHold == \A p \in Others : OtherHolds(proc[p]) /\ StopHolds(proc[p])

\* The slot is one caller's, and so is the pending startup.
SlotHolds ==
  /\ slot => \A s \in Starters : proc[s].at \notin Holding
  /\ \A r, s \in Starters : proc[r].at \in Holding /\ proc[s].at \in Holding => r = s
  /\ \A r, s \in Starters : proc[r].at \in {"slot", "claim"} /\ proc[s].at \in {"slot", "claim"} => r = s

LifeHolds ==
  /\ life.generation <= life.startup
  /\ life.pending => life.generation < life.startup
  /\ life.started => life.generation # 0

\* A generation to come has no request; one that is over is settled, and the last one is or
\* has its caller of Start.
GenerationsHold ==
  /\ \A g \in Generations : g > life.generation => g \notin net.serving /\ tracker.active[g] = {}
  /\ \A g \in Generations : g < life.generation => Settled(g)
  /\ life.generation # 0 =>
       \/ Settled(life.generation)
       \/ ~life.complete /\ \E s \in Starters : proc[s].at \in Running /\ proc[s].of = life.generation

ServerInv == ServerTypeOK /\ StartersHold /\ OthersHold /\ SlotHolds /\ LifeHolds /\ GenerationsHold

-----------------------------------------------------------------------------

\* A settled generation stays so unless it is handed off.
LEMMA SettledStays ==
  ASSUME NEW g \in Generations, Settled(g), tracker'.active[g] = {}, tracker.stopping \subseteq tracker'.stopping,
         g \in net'.serving => g \in net.serving,
         \A s \in Starters : proc'[s].at \in Opening /\ proc'[s].of = g => proc[s].at \in Opening /\ proc[s].of = g
  PROVE  Settled(g)'
  BY DEF Settled

\* Steps of Shutdown and of the watchers, which leave every call of Start alone.
LEMMA OtherMoves ==
  ASSUME ServerInv, NEW p \in Others, NEW row \in CallerRow, OtherHolds(row),
         row.at = "http" => row.of \in tracker'.stopping,
         proc' = [proc EXCEPT ![p] = row],
         life' \in LifeRow, life'.generation = life.generation, life'.startup = life.startup,
         life'.pending = life.pending, life'.started => life.started,
         life'.complete => life.complete \/ life.generation = 0 \/ Settled(life.generation),
         net' \in NetRow, net'.serving = net.serving,
         tracker' \in TrackerRow, tracker'.active = tracker.active, tracker.stopping \subseteq tracker'.stopping,
         slot' = slot
  PROVE  ServerInv'
<1> USE DEF ServerInv
<1>1. proc \in [Callers -> CallerRow] /\ Starters \subseteq Callers /\ Others \subseteq Callers /\ p \notin Starters
  BY CallerAssumption DEF ServerTypeOK, Callers, Others
<1>2. proc' \in [Callers -> CallerRow] /\ \A s \in Starters : proc'[s] = proc[s]
  BY <1>1
<1>3. ServerTypeOK'
  BY <1>2 DEF ServerTypeOK
<1>4. ASSUME NEW g \in Generations, Settled(g) PROVE Settled(g)'
  BY <1>2, <1>4 DEF Settled
<1>5. StartersHold'
  <2>1. SUFFICES ASSUME NEW s \in Starters PROVE StarterHolds(proc[s])'
    BY DEF StartersHold
  <2>2. StarterHolds(proc[s])
    BY DEF StartersHold
  <2>3. PICK q \in CallerRow : q = proc[s] /\ q = proc'[s] /\ StarterHolds(q)
    BY <1>1, <1>2, <2>2
  <2>4. q.at \in Closing => Settled(q.of)'
    BY <1>4, <2>3 DEF StarterHolds, Running
  <2> QED
    BY <2>3, <2>4 DEF StarterHolds
<1>6. OthersHold'
  <2>1. ASSUME NEW q \in CallerRow, OtherHolds(q) PROVE OtherHolds(q)'
    <3>1. q.of # 0 => q.of \in Generations
      BY ServerAssumption DEF CallerRow, Generations
    <3> QED
      BY <1>4, <2>1, <3>1 DEF OtherHolds
  <2>2. SUFFICES ASSUME NEW d \in Others PROVE OtherHolds(proc[d])' /\ StopHolds(proc[d])'
    BY DEF OthersHold
  <2>3. CASE d = p
    BY <1>1, <2>1, <2>3 DEF StopHolds
  <2>4. CASE d # p
    <3>1. PICK q \in CallerRow : q = proc[d] /\ q = proc'[d] /\ OtherHolds(q) /\ StopHolds(q)
      BY <1>1, <2>4 DEF OthersHold
    <3>2. OtherHolds(q)'
      BY <2>1, <3>1
    <3> QED
      BY <3>1, <3>2 DEF StopHolds
  <2> QED
    BY <2>3, <2>4
<1>7. SlotHolds' /\ LifeHolds'
  BY <1>2 DEF SlotHolds, LifeHolds
<1>8. GenerationsHold'
  <2>1. life.generation # 0 => life.generation \in Generations
    BY ServerAssumption DEF ServerTypeOK, LifeRow, Generations
  <2> QED
    BY <1>2, <1>4, <2>1 DEF GenerationsHold
<1> QED
  BY <1>3, <1>5, <1>6, <1>7, <1>8

\* A call of Start that has the slot: the others wait for it or are idle.
LEMMA RunnerMoves ==
  ASSUME ServerInv, NEW s \in Starters, NEW row \in CallerRow, proc[s].at \in Running, row.at \in Running,
         row.of = proc[s].of,
         row.at \in Opening => proc[s].at \in Opening /\ net'.serving = net.serving,
         proc' \in [Callers -> CallerRow], proc'[s] = row,
         \A r \in Starters \ {s} : proc'[r] = proc[r],
         \A p \in Others : proc'[p] = proc[p] \/ proc'[p].at \in {"watch", "idle"},
         life' \in LifeRow, life'.generation = life.generation, life'.startup = life.startup,
         life'.pending = life.pending, life'.started => life.started,
         life'.complete => life.complete \/ life.generation = 0 \/ Settled(life.generation),
         net' \in NetRow,
         net'.serving \subseteq net.serving \/ (proc[s].at = "handoff" /\ net'.serving = net.serving \cup {row.of}),
         tracker' \in TrackerRow, tracker'.active = tracker.active, tracker.stopping \subseteq tracker'.stopping,
         row.at \in Closing => Settled(row.of)',
         slot' = slot
  PROVE  ServerInv'
<1> USE DEF ServerInv
<1>1. /\ proc \in [Callers -> CallerRow] /\ Starters \subseteq Callers /\ Others \subseteq Callers
      /\ \A r \in Starters \ {s} : proc[r].at \notin Holding
  BY DEF ServerTypeOK, Callers, Others, SlotHolds, Holding
<1>2. StarterHolds(proc[s]) /\ proc[s].of \in Generations /\ proc[s].of <= life.generation
  BY DEF StartersHold, StarterHolds
<1>3. ServerTypeOK'
  BY DEF ServerTypeOK
<1>4. ASSUME NEW g \in Generations, Settled(g) PROVE Settled(g)'
  <2>1. \A r \in Starters : proc'[r].at \in Opening /\ proc'[r].of = g => proc[r].at \in Opening /\ proc[r].of = g
    BY DEF Opening
  <2>2. CASE g \in tracker.stopping
    BY <1>4, <2>2 DEF Settled
  <2>3. CASE g \notin tracker.stopping
    <3>1. g \notin net.serving /\ ~(proc[s].at \in Opening /\ proc[s].of = g)
      BY <1>4, <2>3 DEF Settled
    <3>2. g \notin net'.serving
      BY <3>1 DEF Opening
    <3> QED
      BY <1>4, <2>1, <3>2, SettledStays DEF Settled
  <2> QED
    BY <2>2, <2>3
<1>5. StartersHold'
  <2>1. SUFFICES ASSUME NEW r \in Starters PROVE StarterHolds(proc[r])'
    BY DEF StartersHold
  <2>2. CASE r = s
    <3>1. StarterHolds(row)'
      BY <1>2 DEF StarterHolds, StarterPlaces, Holding, Running, Opening, Closing
    <3> QED
      BY <2>2, <3>1
  <2>3. CASE r # s
    <3>1. PICK q \in CallerRow : q = proc[r] /\ q = proc'[r] /\ StarterHolds(q) /\ q.at \notin Holding
      BY <1>1, <2>3 DEF StartersHold
    <3>2. StarterHolds(q)'
      BY <3>1 DEF StarterHolds, Holding, Running
    <3> QED
      BY <3>1, <3>2
  <2> QED
    BY <2>2, <2>3
<1>6. OthersHold'
  <2>1. SUFFICES ASSUME NEW d \in Others PROVE OtherHolds(proc[d])' /\ StopHolds(proc[d])'
    BY DEF OthersHold
  <2>2. CASE proc'[d] = proc[d]
    <3>1. PICK q \in CallerRow : q = proc[d] /\ q = proc'[d] /\ OtherHolds(q) /\ StopHolds(q)
      BY <1>1, <2>2 DEF OthersHold
    <3>2. q.of # 0 => q.of \in Generations
      BY ServerAssumption DEF CallerRow, Generations
    <3>3. OtherHolds(q)'
      BY <1>4, <3>1, <3>2 DEF OtherHolds
    <3> QED
      BY <3>1, <3>3 DEF StopHolds
  <2>3. CASE proc'[d].at \in {"watch", "idle"}
    BY <2>3 DEF OtherHolds, StopHolds, OtherPlaces, Closing
  <2> QED
    BY <2>2, <2>3
<1>7. SlotHolds'
  BY <1>1 DEF SlotHolds, Holding, Running, Opening, Closing
<1>8. LifeHolds'
  BY DEF LifeHolds
<1>9. GenerationsHold'
  <2>1. life.generation # 0 => life.generation \in Generations
    BY ServerAssumption DEF ServerTypeOK, LifeRow, Generations
  <2>2. \A g \in Generations : g > life'.generation => g \notin net'.serving /\ tracker'.active[g] = {}
    BY <1>2 DEF GenerationsHold, Generations, ServerTypeOK, LifeRow
  <2>3. \A g \in Generations : g < life'.generation => Settled(g)'
    BY <1>4 DEF GenerationsHold
  <2>4. ASSUME life.generation # 0, ~Settled(life.generation)
        PROVE  ~life'.complete /\ \E r \in Starters : proc'[r].at \in Running /\ proc'[r].of = life.generation
    <3>1. ~life.complete /\ \E r \in Starters : proc[r].at \in Running /\ proc[r].of = life.generation
      BY <2>4 DEF GenerationsHold
    <3>2. proc[s].of = life.generation
      BY <1>1, <3>1 DEF Holding
    <3> QED
      BY <2>4, <3>1, <3>2
  <2>5. Settled(life.generation) /\ life.generation # 0 => Settled(life.generation)'
    <3>1. PICK g \in 0..MaxStarts : g = life.generation /\ g = life'.generation
      BY DEF ServerTypeOK, LifeRow
    <3> QED
      BY <1>4, <2>1, <3>1
  <2> QED
    BY <2>2, <2>3, <2>4, <2>5 DEF GenerationsHold
<1> QED
  BY <1>3, <1>5, <1>6, <1>7, <1>8, <1>9

-----------------------------------------------------------------------------
(* Shutdown and the watchers. *)

\* What a step leaves unchanged satisfies the hypotheses about it.
LEMMA ServerTypes ==
  ASSUME ServerInv
  PROVE  /\ life \in LifeRow /\ net \in NetRow /\ tracker \in TrackerRow /\ proc \in [Callers -> CallerRow]
         /\ \A p \in Others : p \in Callers /\ proc[p] \in CallerRow /\ OtherHolds(proc[p]) /\ StopHolds(proc[p])
         /\ \A s \in Starters : s \in Callers /\ proc[s] \in CallerRow /\ StarterHolds(proc[s])
  BY DEF ServerInv, ServerTypeOK, StartersHold, OthersHold, Others, Callers

\* Only the caller moves, and holds what its next place promises.
LEMMA OtherGoes ==
  ASSUME ServerInv, NEW p \in Others, NEW place \in OtherPlaces, NEW of \in 0..MaxStarts, Goes(p, place, of),
         OtherHolds([at |-> place, of |-> of]), place # "http", UNCHANGED <<life, net, tracker, slot>>
  PROVE  ServerInv'
<1> DEFINE row == [at |-> place, of |-> of]
<1>1. row \in CallerRow /\ row.at = place
  BY DEF CallerRow
<1>2. proc' = [proc EXCEPT ![p] = row] /\ OtherHolds(row)
  BY DEF Goes
<1> HIDE DEF row
<1> QED
  BY <1>1, <1>2, ServerTypes, OtherMoves

LEMMA LifeCompletes ==
  ASSUME life \in LifeRow, life' = [life EXCEPT !.complete = TRUE, !.started = FALSE, !.serveStarted = FALSE, !.http = 0]
  PROVE  /\ life' \in LifeRow /\ life'.generation = life.generation /\ life'.startup = life.startup
         /\ life'.pending = life.pending /\ life'.started = FALSE
<1>1. PICK zero \in 0..MaxStarts : zero = 0
  BY ServerAssumption
<1>2. life' = [life EXCEPT !.complete = TRUE, !.started = FALSE, !.serveStarted = FALSE, !.http = zero]
  BY <1>1
<1> QED
  BY <1>2 DEF LifeRow

LEMMA OtherCompleteKeeps ==
  ASSUME ServerInv, NEW p \in Others, Complete(p)
  PROVE  ServerInv'
<1>1. PICK of \in 0..MaxStarts : of = proc[p].of /\ proc[p].at = "complete" /\ OtherHolds(proc[p])
  BY ServerTypes DEF CallerRow, Complete, At
<1>2. of <= life.generation /\ of # 0 /\ Settled(of)
  BY <1>1 DEF OtherHolds, Closing
<1>3. UNCHANGED <<net, tracker, slot>>
  BY DEF Complete
<1>4. CASE UNCHANGED life /\ Moves(p, "return")
  <2>1. OtherHolds([at |-> "return", of |-> of])
    BY <1>2 DEF OtherHolds, OtherPlaces, Closing
  <2> QED
    BY <1>1, <1>3, <1>4, <2>1, OtherGoes DEF Moves, OtherPlaces
<1>5. CASE /\ Same(p) /\ Moves(p, "completed")
           /\ life' = [life EXCEPT !.complete = TRUE, !.started = FALSE, !.serveStarted = FALSE, !.http = 0]
  <2> DEFINE row == [at |-> "completed", of |-> of]
  <2>1. row \in CallerRow /\ row.at = "completed" /\ OtherHolds(row)
    BY <1>2 DEF CallerRow, OtherHolds, OtherPlaces, Closing
  <2>2. proc' = [proc EXCEPT ![p] = row]
    BY <1>1, <1>5 DEF Moves, Goes
  <2>3. /\ life' \in LifeRow /\ life'.generation = life.generation /\ life'.startup = life.startup
        /\ life'.pending = life.pending /\ life'.started = FALSE
    BY <1>5, LifeCompletes, ServerTypes
  <2>4. life.generation = 0 \/ Settled(life.generation)
    BY <1>1, <1>2, <1>5 DEF Same
  <2> HIDE DEF row
  <2> QED
    BY <1>3, <2>1, <2>2, <2>3, <2>4, ServerTypes, OtherMoves
<1> QED
  BY <1>4, <1>5 DEF Complete

LEMMA OtherCompletedKeeps ==
  ASSUME ServerInv, NEW p \in Others, Completed(p)
  PROVE  ServerInv'
<1>1. PICK of \in 0..MaxStarts : of = proc[p].of /\ proc[p].at = "completed" /\ OtherHolds(proc[p])
  BY ServerTypes DEF CallerRow, Completed, At
<1>2. of <= life.generation /\ of # 0 /\ Settled(of)
  BY <1>1 DEF OtherHolds, Closing
<1> DEFINE row == [at |-> "return", of |-> of]
<1>3. row \in CallerRow /\ row.at = "return" /\ OtherHolds(row)
  BY <1>2 DEF CallerRow, OtherHolds, OtherPlaces, Closing
<1>4. proc' = [proc EXCEPT ![p] = row] /\ UNCHANGED <<life, slot>>
  BY <1>1 DEF Completed, Moves, Goes
<1>5. net' \in NetRow /\ net'.serving = net.serving
  BY ServerTypes DEF Completed, NetRow
<1>6. tracker' \in TrackerRow /\ tracker'.active = tracker.active /\ tracker.stopping \subseteq tracker'.stopping
  <2>1. of \in Generations
    BY <1>2 DEF Generations
  <2> QED
    BY <1>1, <2>1, ServerTypes DEF Completed, TrackerRow
<1> HIDE DEF row
<1> QED
  BY <1>3, <1>4, <1>5, <1>6, ServerTypes, OtherMoves

\* The section of Shutdown that decides, for a caller or for a watcher.
LEMMA ShutdownSectionKeeps ==
  ASSUME ServerInv, NEW p \in Others, ShutdownSection(p), UNCHANGED <<net, tracker, slot>>
  PROVE  ServerInv'
<1>1. life \in LifeRow /\ life.generation \in 0..MaxStarts /\ life.startup \in 0..MaxStarts
  BY ServerTypes DEF LifeRow
<1>2. ASSUME NEW place \in {"cancelled", "await", "unready", "stop"}, NEW of \in 0..MaxStarts,
             place = "unready" => of = 0, place \in {"await", "stop"} => of <= life.generation,
             place = "stop" => of # 0, Goes(p, place, of),
             life' \in LifeRow, life'.generation = life.generation, life'.startup = life.startup,
             life'.pending = life.pending, life'.started = life.started, life'.complete = life.complete
      PROVE  ServerInv'
  <2> DEFINE row == [at |-> place, of |-> of]
  <2>1. row \in CallerRow /\ row.at = place /\ row.of = of
    BY DEF CallerRow, OtherPlaces
  <2>2. proc' = [proc EXCEPT ![p] = row]
    BY <1>2 DEF Goes
  <2> HIDE DEF row
  <2>3. OtherHolds(row)
    BY <1>2, <2>1 DEF OtherHolds, OtherPlaces, Closing
  <2> QED
    BY <1>2, <2>1, <2>2, <2>3, ServerTypes, OtherMoves
<1>3. CASE life.pending /\ ~life.started
  <2>1. Goes(p, "cancelled", life.startup) /\ life' = [life EXCEPT !.cancelled = TRUE]
    BY <1>3 DEF ShutdownSection
  <2> QED
    BY <1>1, <1>2, <2>1 DEF LifeRow
<1>4. CASE ~(life.pending /\ ~life.started) /\ life.stopping
  <2>1. Goes(p, "await", life.generation) /\ UNCHANGED life
    BY <1>4 DEF ShutdownSection
  <2> QED
    BY <1>1, <1>2, <2>1
<1>5. CASE ~(life.pending /\ ~life.started) /\ ~life.stopping /\ ~life.started
  <2>1. Goes(p, "unready", 0) /\ UNCHANGED life
    BY <1>5 DEF ShutdownSection
  <2>2. 0 \in 0..MaxStarts
    BY ServerAssumption
  <2> QED
    BY <1>1, <1>2, <2>1, <2>2
<1>6. CASE life.started /\ ~life.stopping
  <2>1. PICK place \in {"await", "stop"} :
          Goes(p, place, life.generation) /\ life' = [life EXCEPT !.stopping = TRUE]
    BY <1>6 DEF ShutdownSection
  <2>2. life.generation # 0
    BY <1>6 DEF ServerInv, LifeHolds
  <2>3. /\ life' \in LifeRow /\ life'.generation = life.generation /\ life'.startup = life.startup
        /\ life'.pending = life.pending /\ life'.started = life.started /\ life'.complete = life.complete
    BY <1>1, <2>1 DEF LifeRow
  <2>4. PICK of \in 0..MaxStarts : of = life.generation /\ of <= life.generation /\ of # 0
    BY <1>1, <2>2
  <2>5. Goes(p, place, of)
    BY <2>1, <2>4
  <2> QED
    BY <1>2, <2>1, <2>3, <2>4, <2>5
<1> QED
  BY <1>3, <1>4, <1>5, <1>6

LEMMA WatcherFiresKeeps ==
  ASSUME ServerInv, NEW g \in Watchers, WatcherFires(g)
  PROVE  ServerInv'
<1>1. g \in Others
  BY DEF Others
<1>2. CASE ShutdownSection(g)
  BY <1>1, <1>2, ShutdownSectionKeeps DEF WatcherFires
<1>3. CASE Moves(g, "idle") /\ UNCHANGED life
  <2>1. PICK of \in 0..MaxStarts : of = proc[g].of
    BY <1>1, ServerTypes DEF CallerRow
  <2>2. OtherHolds([at |-> "idle", of |-> of])
    BY DEF OtherHolds, OtherPlaces, Closing
  <2> QED
    BY <1>1, <1>3, <2>1, <2>2, OtherGoes DEF WatcherFires, Moves, OtherPlaces
<1> QED
  BY <1>2, <1>3 DEF WatcherFires

LEMMA ShutdownUnreadyKeeps ==
  ASSUME ServerInv, NEW p \in Others, ShutdownUnready(p)
  PROVE  ServerInv'
<1>1. PICK of \in 0..MaxStarts : of = proc[p].of
  BY ServerTypes DEF CallerRow
<1>2. UNCHANGED <<life, net, tracker, slot>>
  BY DEF ShutdownUnready
<1>3. CASE At(p, "cancelled")
  <2>1. OtherHolds([at |-> "awaitStartup", of |-> of])
    BY DEF OtherHolds, OtherPlaces, Closing
  <2> QED
    BY <1>1, <1>2, <1>3, <2>1, OtherGoes DEF ShutdownUnready, Moves, OtherPlaces
<1>4. CASE ~At(p, "cancelled")
  <2>1. of = 0
    BY <1>1, <1>4, ServerTypes DEF ShutdownUnready, OtherHolds, At
  <2>2. OtherHolds([at |-> "returned", of |-> of])
    BY <2>1, ServerTypes DEF OtherHolds, OtherPlaces, Closing, LifeRow
  <2> QED
    BY <1>1, <1>2, <1>4, <2>2, OtherGoes DEF ShutdownUnready, Moves, OtherPlaces
<1> QED
  BY <1>3, <1>4

LEMMA AwaitStartupKeeps ==
  ASSUME ServerInv, NEW p \in Others, AwaitStartup(p)
  PROVE  ServerInv'
<1>1. 0 \in 0..MaxStarts
  BY ServerAssumption
<1>2. OtherHolds([at |-> "returned", of |-> 0])
  BY ServerTypes DEF OtherHolds, OtherPlaces, Closing, LifeRow
<1> QED
  BY <1>1, <1>2, OtherGoes DEF AwaitStartup, OtherPlaces

\* Who waited for a generation returns when the next one is claimed or this one complete.
LEMMA AwaitLifecycleKeeps ==
  ASSUME ServerInv, NEW p \in Others, AwaitLifecycle(p)
  PROVE  ServerInv'
<1>1. PICK of \in 0..MaxStarts : of = proc[p].of /\ of <= life.generation
  BY ServerTypes DEF CallerRow, AwaitLifecycle, At, OtherHolds
<1>2. life.generation \in 0..MaxStarts
  BY ServerTypes DEF LifeRow
<1>3. of # 0 => Settled(of)
  <2>1. CASE of < life.generation
    BY <1>1, <1>2, <2>1 DEF ServerInv, GenerationsHold, Generations
  <2>2. CASE of = life.generation
    <3>1. life.complete
      BY <1>1, <1>2, <2>2 DEF AwaitLifecycle
    <3> QED
      BY <2>2, <3>1 DEF ServerInv, GenerationsHold
  <2> QED
    BY <1>1, <1>2, <2>1, <2>2
<1>4. OtherHolds([at |-> "returned", of |-> of])
  BY <1>1, <1>3 DEF OtherHolds, OtherPlaces, Closing
<1> QED
  BY <1>1, <1>4, OtherGoes DEF AwaitLifecycle, Moves, OtherPlaces

LEMMA StopRequestsKeeps ==
  ASSUME ServerInv, NEW p \in Others, StopRequests(p)
  PROVE  ServerInv'
<1>1. PICK of \in Generations : of = proc[p].of /\ of <= life.generation
  BY ServerTypes DEF CallerRow, StopRequests, At, OtherHolds, Generations
<1> DEFINE row == [at |-> "http", of |-> of]
<1>2. row \in CallerRow /\ row.at = "http" /\ row.of = of
  BY DEF CallerRow, OtherPlaces, Generations
<1>3. proc' = [proc EXCEPT ![p] = row] /\ UNCHANGED <<life, net, slot>>
  BY <1>1 DEF StopRequests, Moves, Goes
<1> HIDE DEF row
<1>4. OtherHolds(row)
  BY <1>1, <1>2 DEF OtherHolds, OtherPlaces, Closing
<1>5. /\ tracker' \in TrackerRow /\ tracker'.active = tracker.active
      /\ tracker'.stopping = tracker.stopping \cup {of}
  BY <1>1, ServerTypes DEF StopRequests, TrackerRow
<1> QED
  BY <1>2, <1>3, <1>4, <1>5, ServerTypes, OtherMoves

LEMMA ShutdownHTTPKeeps ==
  ASSUME ServerInv, NEW p \in Others, ShutdownHTTP(p)
  PROVE  ServerInv'
<1>1. PICK of \in Generations : of = proc[p].of /\ of <= life.generation /\ of \in tracker.stopping
  BY ServerTypes DEF ShutdownHTTP, At, OtherHolds, StopHolds, TrackerRow
<1>2. net' \in NetRow /\ net'.serving = net.serving
  BY <1>1, ServerTypes DEF ShutdownHTTP, NetRow
<1>3. UNCHANGED <<life, tracker, slot>>
  BY DEF ShutdownHTTP
<1>4. PICK place \in {"complete", "failed"} :
        Moves(p, place) /\ (place = "complete" => tracker.active[of] = {})
  BY <1>1 DEF ShutdownHTTP
<1> DEFINE row == [at |-> place, of |-> of]
<1>5. row \in CallerRow /\ row.at = place /\ row.of = of
  BY DEF CallerRow, OtherPlaces, Generations
<1>6. proc' = [proc EXCEPT ![p] = row]
  BY <1>1, <1>4 DEF Moves, Goes
<1> HIDE DEF row
<1>7. place = "complete" => Settled(of)
  BY <1>1, <1>4 DEF Settled
<1>8. OtherHolds(row)
  BY <1>1, <1>5, <1>7 DEF OtherHolds, OtherPlaces, Closing, Generations
<1> QED
  BY <1>2, <1>3, <1>5, <1>6, <1>8, ServerTypes, OtherMoves

LEMMA ShutdownReturnsKeeps ==
  ASSUME ServerInv, NEW p \in Others, ShutdownReturns(p)
  PROVE  ServerInv'
<1>1. PICK of \in 0..MaxStarts : of = proc[p].of /\ of <= life.generation /\ Settled(of)
  BY ServerTypes DEF CallerRow, ShutdownReturns, At, OtherHolds, Closing
<1>2. OtherHolds([at |-> "returned", of |-> of])
  BY <1>1 DEF OtherHolds, OtherPlaces, Closing
<1> QED
  BY <1>1, <1>2, OtherGoes DEF ShutdownReturns, Moves, OtherPlaces

LEMMA ShutdownTimesOutKeeps ==
  ASSUME ServerInv, NEW p \in Others, ShutdownTimesOut(p)
  PROVE  ServerInv'
<1>1. PICK of \in 0..MaxStarts : of = proc[p].of
  BY ServerTypes DEF CallerRow
<1>2. OtherHolds([at |-> "failed", of |-> of])
  BY DEF OtherHolds, OtherPlaces, Closing
<1> QED
  BY <1>1, <1>2, OtherGoes DEF ShutdownTimesOut, Moves, OtherPlaces

LEMMA ShutdownAgainKeeps ==
  ASSUME ServerInv, NEW p \in Others, ShutdownAgain(p)
  PROVE  ServerInv'
<1>1. 0 \in 0..MaxStarts
  BY ServerAssumption
<1>2. OtherHolds([at |-> "idle", of |-> 0])
  BY DEF OtherHolds, OtherPlaces, Closing
<1> QED
  BY <1>1, <1>2, OtherGoes DEF ShutdownAgain, OtherPlaces

-----------------------------------------------------------------------------
(* Start, while it has the slot. *)

\* What a call of Start that runs may count on.
LEMMA RunnerFacts ==
  ASSUME ServerInv, NEW s \in Starters, proc[s].at \in Running
  PROVE  \E of \in Generations :
           /\ of = proc[s].of /\ of <= life.generation
           /\ proc[s].at \in Opening => of \notin net.serving /\ tracker.active[of] = {}
           /\ proc[s].at \in Closing => Settled(of)
           /\ \A r \in Starters \ {s} : proc[r].at \notin Holding
<1>1. StarterHolds(proc[s])
  BY ServerTypes
<1>2. \A r \in Starters \ {s} : proc[r].at \notin Holding
  BY DEF ServerInv, SlotHolds, Holding
<1> QED
  BY <1>1, <1>2 DEF StarterHolds

\* It goes on, and nothing else is touched but life and what it gives up.
LEMMA RunnerGoes ==
  ASSUME ServerInv, NEW s \in Starters, NEW place \in Running, proc[s].at \in Running, Moves(s, place),
         place \in Opening => proc[s].at \in Opening,
         life' \in LifeRow, life'.generation = life.generation, life'.startup = life.startup,
         life'.pending = life.pending, life'.started => life.started,
         life'.complete => life.complete \/ life.generation = 0 \/ Settled(life.generation),
         net' \in NetRow, net'.serving = net.serving,
         tracker' \in TrackerRow, tracker'.active = tracker.active, tracker.stopping \subseteq tracker'.stopping,
         place \in Closing => tracker.active[proc[s].of] = {},
         place \in Closing => proc[s].at \in Opening \/ proc[s].of \in tracker.stopping \/ Settled(proc[s].of),
         slot' = slot
  PROVE  ServerInv'
<1>1. PICK of \in Generations :
        /\ of = proc[s].of
        /\ proc[s].at \in Opening => of \notin net.serving
        /\ \A r \in Starters \ {s} : proc[r].at \notin Holding
  BY RunnerFacts
<1> DEFINE row == [at |-> place, of |-> of]
<1>2. row \in CallerRow /\ row.at = place /\ row.of = of
  BY DEF CallerRow, StarterPlaces, Holding, Generations
<1>3. proc' = [proc EXCEPT ![s] = row]
  BY <1>1 DEF Moves, Goes
<1> HIDE DEF row
<1>4. /\ proc' \in [Callers -> CallerRow] /\ proc'[s] = row
      /\ \A r \in Starters \ {s} : proc'[r] = proc[r]
      /\ \A p \in Others : proc'[p] = proc[p]
  BY <1>2, <1>3, ServerTypes, CallerAssumption DEF Others
<1>5. place \in Closing => Settled(of)'
  <2>1. ASSUME place \in Closing PROVE \A r \in Starters : ~(proc'[r].at \in Opening /\ proc'[r].of = of)
    BY <1>1, <1>2, <1>4, <2>1 DEF Holding, Running, Opening, Closing
  <2>2. ASSUME place \in Closing PROVE of \in tracker.stopping \/ of \notin net.serving
    BY <1>1, <2>2 DEF Settled
  <2> QED
    BY <1>1, <2>1, <2>2 DEF Settled
<1> QED
  BY <1>1, <1>2, <1>4, <1>5, RunnerMoves

LEMMA StartUnreadyKeeps ==
  ASSUME ServerInv, NEW s \in Starters, StartUnready(s)
  PROVE  ServerInv'
  BY RunnerGoes, ServerTypes DEF StartUnready, At, Running, Opening, Closing

\* A call that is not wanted any more gives its listener up before it was handed off.
LEMMA GivesUpKeeps ==
  ASSUME ServerInv, NEW s \in Starters, proc[s].at \in Opening, GivesUp(s), UNCHANGED <<tracker, slot>>
  PROVE  ServerInv'
<1>1. net' \in NetRow /\ net'.serving = net.serving /\ Moves(s, "complete") /\ UNCHANGED life
  BY ServerTypes DEF GivesUp, NetRow
<1>2. proc[s].at \in Running /\ tracker.active[proc[s].of] = {}
  BY RunnerFacts DEF Running
<1> QED
  BY <1>1, <1>2, RunnerGoes, ServerTypes DEF Running, Opening, Closing

LEMMA ListenKeeps ==
  ASSUME ServerInv, NEW s \in Starters, Listen(s)
  PROVE  ServerInv'
<1>1. proc[s].at = "listen" /\ proc[s].at \in Running /\ proc[s].at \in Opening /\ UNCHANGED <<life, tracker, slot>>
  BY DEF Listen, At, Running, Opening
<1>2. proc[s].of \in Generations /\ tracker.active[proc[s].of] = {}
  BY <1>1, RunnerFacts
<1>3. CASE net' = [net EXCEPT !.listening = @ \cup {proc[s].of}] /\ Moves(s, "publish")
  <2>1. net' \in NetRow /\ net'.serving = net.serving
    BY <1>2, <1>3, ServerTypes DEF NetRow
  <2> QED
    BY <1>1, <1>3, <2>1, RunnerGoes, ServerTypes DEF Running, Opening, Closing
<1>4. CASE Moves(s, "complete") /\ UNCHANGED net
  BY <1>1, <1>2, <1>4, RunnerGoes, ServerTypes DEF Running, Opening, Closing
<1> QED
  BY <1>3, <1>4 DEF Listen

LEMMA PublishKeeps ==
  ASSUME ServerInv, NEW s \in Starters, Publish(s)
  PROVE  ServerInv'
<1>1. proc[s].at = "publish" /\ proc[s].at \in Running /\ proc[s].at \in Opening /\ UNCHANGED <<tracker, slot>>
  BY DEF Publish, At, Running, Opening
<1>2. CASE GivesUp(s)
  BY <1>1, <1>2, GivesUpKeeps
<1>3. CASE life' = [life EXCEPT !.http = proc[s].of] /\ Moves(s, "published") /\ UNCHANGED net
  <2>1. proc[s].of \in 0..MaxStarts
    BY ServerTypes DEF CallerRow
  <2>2. /\ life' \in LifeRow /\ life'.generation = life.generation /\ life'.startup = life.startup
        /\ life'.pending = life.pending /\ life'.started = life.started /\ life'.complete = life.complete
    BY <1>3, <2>1, ServerTypes DEF LifeRow
  <2> QED
    BY <1>1, <1>3, <2>2, RunnerGoes, ServerTypes DEF Running, Opening, Closing
<1> QED
  BY <1>2, <1>3 DEF Publish

LEMMA MarkServeStartedKeeps ==
  ASSUME ServerInv, NEW s \in Starters, MarkServeStarted(s)
  PROVE  ServerInv'
<1>1. proc[s].at = "published" /\ proc[s].at \in Running /\ proc[s].at \in Opening /\ UNCHANGED <<tracker, slot>>
  BY DEF MarkServeStarted, At, Running, Opening
<1>2. CASE GivesUp(s)
  BY <1>1, <1>2, GivesUpKeeps
<1>3. CASE life' = [life EXCEPT !.serveStarted = TRUE] /\ Moves(s, "handoff") /\ UNCHANGED net
  <2>1. /\ life' \in LifeRow /\ life'.generation = life.generation /\ life'.startup = life.startup
        /\ life'.pending = life.pending /\ life'.started = life.started /\ life'.complete = life.complete
    BY <1>3, ServerTypes DEF LifeRow
  <2> QED
    BY <1>1, <1>3, <2>1, RunnerGoes, ServerTypes DEF Running, Opening, Closing
<1> QED
  BY <1>2, <1>3 DEF MarkServeStarted

\* The generation is handed off: it serves, and its watcher waits.
LEMMA HandoffKeeps ==
  ASSUME ServerInv, NEW s \in Starters, Handoff(s)
  PROVE  ServerInv'
<1>1. proc[s].at = "handoff" /\ proc[s].at \in Running /\ proc[s].at \in Opening /\ UNCHANGED <<tracker, slot>>
  BY DEF Handoff, At, Running, Opening
<1>2. CASE GivesUp(s)
  BY <1>1, <1>2, GivesUpKeeps
<1>3. CASE ~GivesUp(s)
  <2>1. PICK of \in Generations : of = proc[s].of
    BY <1>1, RunnerFacts
  <2> DEFINE row == [proc[s] EXCEPT !.at = "serving"]
             watch == [at |-> "watch", of |-> of]
  <2>2. row \in CallerRow /\ row.at = "serving" /\ row.of = of
    BY <2>1, ServerTypes DEF CallerRow, StarterPlaces, Holding, Running
  <2>3. watch \in CallerRow /\ watch.at = "watch"
    BY DEF CallerRow, OtherPlaces, Generations
  <2>4. /\ net' = [net EXCEPT !.serving = @ \cup {of}] /\ UNCHANGED life
        /\ proc' = [proc EXCEPT ![s].at = "serving", ![of] = watch]
    BY <1>3, <2>1 DEF Handoff
  <2>5. s \in Callers /\ of \in Callers /\ s # of /\ of \notin Starters /\ proc \in [Callers -> CallerRow]
    BY CallerAssumption, ServerTypes DEF Callers, Watchers
  <2>6. proc' = [proc EXCEPT ![s] = row, ![of] = watch]
    BY <2>4, <2>5
  <2> HIDE DEF row, watch
  <2>7. /\ proc' \in [Callers -> CallerRow] /\ proc'[s] = row
        /\ \A r \in Starters \ {s} : proc'[r] = proc[r]
    BY <2>2, <2>3, <2>5, <2>6, ServerTypes
  <2>8. \A p \in Others : proc'[p] = proc[p] \/ proc'[p].at \in {"watch", "idle"}
    <3>1. \A p \in Others : p \in Callers /\ p # s
      BY CallerAssumption DEF Others, Callers
    <3> QED
      BY <2>3, <2>5, <2>6, <3>1
  <2>9. net' \in NetRow /\ net'.serving = net.serving \cup {of}
    BY <2>4, ServerTypes DEF NetRow
  <2>10. row.at \in Running /\ row.at \notin Opening /\ row.at \notin Closing
    BY <2>2 DEF Running, Opening, Closing
  <2> QED
    BY <1>1, <2>1, <2>2, <2>4, <2>7, <2>8, <2>9, <2>10, RunnerMoves, ServerTypes
<1> QED
  BY <1>2, <1>3

LEMMA ServeReturnsKeeps ==
  ASSUME ServerInv, NEW s \in Starters, ServeReturns(s)
  PROVE  ServerInv'
<1>1. proc[s].at = "serving" /\ proc[s].at \in Running /\ UNCHANGED <<life, slot>>
  BY DEF ServeReturns, At, Running
<1>2. PICK of \in Generations : of = proc[s].of
  BY <1>1, RunnerFacts
<1> DEFINE row == [proc[s] EXCEPT !.at = "drain"]
           place == IF proc[of].at = "watch" THEN "idle" ELSE proc[of].at
           watch == [proc[of] EXCEPT !.at = place]
<1>3. s \in Callers /\ of \in Callers /\ s # of /\ of \notin Starters /\ proc \in [Callers -> CallerRow]
  BY CallerAssumption, ServerTypes DEF Callers, Watchers
<1>4. row \in CallerRow /\ row.at = "drain" /\ row.of = of
  BY <1>2, <1>3 DEF CallerRow, StarterPlaces, Holding, Running
<1>5. proc[of] \in CallerRow /\ place \in StarterPlaces \cup OtherPlaces
  BY <1>3 DEF CallerRow, OtherPlaces
<1>6. proc' = [proc EXCEPT ![s].at = "drain", ![of].at = IF @ = "watch" THEN "idle" ELSE @]
  BY <1>2 DEF ServeReturns
<1>7. proc' = [proc EXCEPT ![s] = row, ![of] = watch]
  BY <1>3, <1>6
<1>8. watch \in CallerRow /\ (watch = proc[of] \/ watch.at = "idle")
  BY <1>5 DEF CallerRow
<1> HIDE DEF row, watch, place
<1>9. /\ proc' \in [Callers -> CallerRow] /\ proc'[s] = row
      /\ \A r \in Starters \ {s} : proc'[r] = proc[r]
  BY <1>3, <1>4, <1>7, <1>8, ServerTypes
<1>10. \A p \in Others : proc'[p] = proc[p] \/ proc'[p].at \in {"watch", "idle"}
  <2>1. \A p \in Others : p \in Callers /\ p # s
    BY CallerAssumption DEF Others, Callers
  <2> QED
    BY <1>3, <1>7, <1>8, <2>1
<1>11. net' \in NetRow /\ net'.serving \subseteq net.serving
  BY <1>2, ServerTypes DEF ServeReturns, NetRow
<1>12. tracker' \in TrackerRow /\ tracker'.active = tracker.active /\ tracker.stopping \subseteq tracker'.stopping
  BY <1>2, ServerTypes DEF ServeReturns, TrackerRow
<1>13. row.at \in Running /\ row.at \notin Opening /\ row.at \notin Closing
  BY <1>4 DEF Running, Opening, Closing
<1> QED
  BY <1>1, <1>2, <1>4, <1>9, <1>10, <1>11, <1>12, <1>13, RunnerMoves, ServerTypes

LEMMA StartDrainsKeeps ==
  ASSUME ServerInv, NEW s \in Starters, StartDrains(s)
  PROVE  ServerInv'
<1>1. proc[s].at = "drain" /\ proc[s].at \in Running /\ UNCHANGED <<life, net, tracker, slot>> /\ Moves(s, "complete")
  BY DEF StartDrains, At, Running
<1>2. tracker.active[proc[s].of] = {} /\ proc[s].of \in tracker.stopping
  BY DEF StartDrains, StartDrained, Drained
<1> QED
  BY <1>1, <1>2, RunnerGoes, ServerTypes DEF Running, Opening, Closing

LEMMA StarterCompleteKeeps ==
  ASSUME ServerInv, NEW s \in Starters, Complete(s)
  PROVE  ServerInv'
<1>1. proc[s].at = "complete" /\ proc[s].at \in Running /\ proc[s].at \in Closing /\ UNCHANGED <<net, tracker, slot>>
  BY DEF Complete, At, Running, Closing
<1>2. Settled(proc[s].of) /\ tracker.active[proc[s].of] = {}
  BY <1>1, RunnerFacts DEF Settled
<1>3. CASE UNCHANGED life /\ Moves(s, "return")
  BY <1>1, <1>2, <1>3, RunnerGoes, ServerTypes DEF Running, Opening, Closing
<1>4. CASE /\ Same(s) /\ Moves(s, "completed")
           /\ life' = [life EXCEPT !.complete = TRUE, !.started = FALSE, !.serveStarted = FALSE, !.http = 0]
  <2>1. /\ life' \in LifeRow /\ life'.generation = life.generation /\ life'.startup = life.startup
        /\ life'.pending = life.pending /\ life'.started = FALSE
    BY <1>4, LifeCompletes, ServerTypes
  <2>2. Settled(life.generation)
    BY <1>2, <1>4 DEF Same
  <2> QED
    BY <1>1, <1>2, <1>4, <2>1, <2>2, RunnerGoes, ServerTypes DEF Running, Opening, Closing
<1> QED
  BY <1>3, <1>4 DEF Complete

LEMMA StarterCompletedKeeps ==
  ASSUME ServerInv, NEW s \in Starters, Completed(s)
  PROVE  ServerInv'
<1>1. proc[s].at = "completed" /\ proc[s].at \in Running /\ proc[s].at \in Closing /\ UNCHANGED <<life, slot>>
  BY DEF Completed, At, Running, Closing
<1>2. proc[s].of \in Generations /\ Settled(proc[s].of) /\ tracker.active[proc[s].of] = {} /\ Moves(s, "return")
  BY <1>1, RunnerFacts DEF Settled, Completed
<1>3. net' \in NetRow /\ net'.serving = net.serving
  BY ServerTypes DEF Completed, NetRow
<1>4. tracker' \in TrackerRow /\ tracker'.active = tracker.active /\ tracker.stopping \subseteq tracker'.stopping
  BY <1>2, ServerTypes DEF Completed, TrackerRow
<1> QED
  BY <1>1, <1>2, <1>3, <1>4, RunnerGoes, ServerTypes DEF Running, Opening, Closing

-----------------------------------------------------------------------------
(* Start, before it has a generation and after. *)

\* A call enters, waits for the slot, gives up or returns; no generation is touched.
LEMMA WaiterMoves ==
  ASSUME ServerInv, NEW s \in Starters, NEW row \in CallerRow, row.at \in {"idle", "slot", "claim"},
         proc[s].at \in {"idle", "slot", "claim", "return"}, proc' = [proc EXCEPT ![s] = row],
         row.at \in {"slot", "claim"} => life'.pending,
         \A r \in Starters \ {s} : proc[r].at \in {"slot", "claim"} => life'.pending,
         life' \in LifeRow, life'.generation = life.generation, life'.complete = life.complete,
         UNCHANGED <<net, tracker>>, slot' \in BOOLEAN, SlotHolds', LifeHolds'
  PROVE  ServerInv'
<1> USE DEF ServerInv
<1>1. proc \in [Callers -> CallerRow] /\ s \in Callers /\ Starters \subseteq Callers /\ Others \subseteq Callers /\ s \notin Others
  BY CallerAssumption DEF ServerTypeOK, Callers, Others
<1>2. /\ proc' \in [Callers -> CallerRow] /\ proc'[s] = row
      /\ \A r \in Callers \ {s} : proc'[r] = proc[r]
  BY <1>1
<1>3. ServerTypeOK'
  BY <1>2 DEF ServerTypeOK
<1>4. ASSUME NEW g \in Generations, Settled(g) PROVE Settled(g)'
  BY <1>1, <1>2, <1>4 DEF Settled, Opening
<1>5. StartersHold'
  <2>1. SUFFICES ASSUME NEW r \in Starters PROVE StarterHolds(proc[r])'
    BY DEF StartersHold
  <2>2. CASE r = s
    <3>1. StarterHolds(row)'
      BY DEF StarterHolds, StarterPlaces, Holding, Running, Opening, Closing
    <3> QED
      BY <1>2, <2>2, <3>1
  <2>3. CASE r # s
    <3>1. PICK q \in CallerRow : q = proc[r] /\ q = proc'[r] /\ StarterHolds(q)
      BY <1>1, <1>2, <2>3 DEF StartersHold
    <3>2. q.at \in Closing => Settled(q.of)'
      BY <1>4, <3>1 DEF StarterHolds, Running
    <3>3. q.at \in {"slot", "claim"} => life'.pending
      BY <2>3, <3>1
    <3>4. StarterHolds(q)'
      BY <3>1, <3>2, <3>3 DEF StarterHolds
    <3> QED
      BY <3>1, <3>4
  <2> QED
    BY <2>2, <2>3
<1>6. OthersHold'
  <2>1. SUFFICES ASSUME NEW d \in Others PROVE OtherHolds(proc[d])' /\ StopHolds(proc[d])'
    BY DEF OthersHold
  <2>2. PICK q \in CallerRow : q = proc[d] /\ q = proc'[d] /\ OtherHolds(q) /\ StopHolds(q)
    BY <1>1, <1>2 DEF OthersHold
  <2>3. q.of # 0 => q.of \in Generations
    BY ServerAssumption DEF CallerRow, Generations
  <2>4. OtherHolds(q)'
    BY <1>4, <2>2, <2>3 DEF OtherHolds
  <2> QED
    BY <2>2, <2>4 DEF StopHolds
<1>7. GenerationsHold'
  <2>1. PICK g \in 0..MaxStarts : g = life.generation /\ g = life'.generation
    BY DEF ServerTypeOK, LifeRow
  <2>2. g # 0 => g \in Generations
    BY <2>1 DEF Generations
  <2>3. \A h \in Generations : h > g => h \notin net'.serving /\ tracker'.active[h] = {}
    BY <2>1 DEF GenerationsHold
  <2>4. \A h \in Generations : h < g => Settled(h)'
    BY <1>4, <2>1 DEF GenerationsHold
  <2>5. CASE g # 0 /\ Settled(g)
    BY <1>4, <2>1, <2>2, <2>3, <2>4, <2>5 DEF GenerationsHold
  <2>6. CASE g # 0 /\ ~Settled(g)
    <3>1. PICK r \in Starters : ~life.complete /\ proc[r].at \in Running /\ proc[r].of = g
      BY <2>1, <2>6 DEF GenerationsHold
    <3>2. r # s
      <4>1. ASSUME r = s PROVE FALSE
        <5>1. proc[r].at \in Closing
          BY <3>1, <4>1 DEF Running, Opening, Closing
        <5> QED
          BY <2>6, <3>1, <5>1 DEF StartersHold, StarterHolds
      <4> QED
        BY <4>1
    <3> QED
      BY <1>1, <1>2, <2>1, <2>3, <2>4, <3>1, <3>2 DEF GenerationsHold
  <2> QED
    BY <2>1, <2>3, <2>4, <2>5, <2>6 DEF GenerationsHold
<1> QED
  BY <1>3, <1>5, <1>6, <1>7

LEMMA StartEntersKeeps ==
  ASSUME ServerInv, NEW s \in Starters, StartEnters(s)
  PROVE  ServerInv'
<1>1. /\ life \in LifeRow /\ life.startup < MaxStarts /\ ~life.pending /\ proc[s].at = "idle"
      /\ UNCHANGED <<net, tracker, slot>>
  BY ServerTypes DEF StartEnters, At
<1>2. PICK n \in 0..MaxStarts : n = life.startup + 1
  BY <1>1, ServerAssumption DEF LifeRow
<1>3. life' = [life EXCEPT !.pending = TRUE, !.cancelled = FALSE, !.startup = n]
  BY <1>1, <1>2 DEF StartEnters, LifeRow
<1>4. /\ life' \in LifeRow /\ life'.generation = life.generation /\ life'.complete = life.complete
      /\ life'.pending = TRUE /\ life'.startup = n /\ life'.started = life.started
  BY <1>1, <1>3 DEF LifeRow
<1> DEFINE row == [at |-> "slot", of |-> proc[s].of]
<1>5. row \in CallerRow /\ row.at = "slot"
  BY ServerTypes DEF CallerRow, StarterPlaces
<1>6. proc' = [proc EXCEPT ![s] = row]
  BY DEF StartEnters, Moves, Goes
<1> HIDE DEF row
<1>7. \A r \in Starters : proc[r].at \notin {"slot", "claim"}
  BY <1>1, ServerTypes DEF StarterHolds
<1>8. SlotHolds'
  <2>1. \A r \in Starters : proc'[r] = IF r = s THEN row ELSE proc[r]
    BY <1>6, ServerTypes
  <2> QED
    BY <1>1, <1>5, <1>7, <2>1 DEF ServerInv, SlotHolds, Holding, Running, Opening, Closing
<1>9. LifeHolds'
  BY <1>1, <1>2, <1>4 DEF ServerInv, LifeHolds, LifeRow
<1>10. slot' \in BOOLEAN
  BY <1>1 DEF ServerInv, ServerTypeOK
<1> QED
  BY <1>1, <1>4, <1>5, <1>6, <1>8, <1>9, <1>10, WaiterMoves

LEMMA AcquireSlotKeeps ==
  ASSUME ServerInv, NEW s \in Starters, AcquireSlot(s)
  PROVE  ServerInv'
<1>1. life \in LifeRow /\ proc[s].at = "slot" /\ UNCHANGED <<net, tracker>> /\ life.pending
  BY ServerTypes DEF AcquireSlot, At, StarterHolds
<1>2. \A r \in Starters \ {s} : proc[r].at \notin {"slot", "claim"}
  BY <1>1 DEF ServerInv, SlotHolds
<1>3. CASE slot /\ slot' = FALSE /\ Moves(s, "claim") /\ UNCHANGED life
  <2> DEFINE row == [at |-> "claim", of |-> proc[s].of]
  <2>1. row \in CallerRow /\ row.at = "claim"
    BY ServerTypes DEF CallerRow, StarterPlaces, Holding
  <2>2. proc' = [proc EXCEPT ![s] = row]
    BY <1>3 DEF Moves, Goes
  <2> HIDE DEF row
  <2>3. \A r \in Starters : proc'[r] = IF r = s THEN row ELSE proc[r]
    BY <2>2, ServerTypes
  <2>4. SlotHolds'
    BY <1>2, <1>3, <2>1, <2>3 DEF ServerInv, SlotHolds
  <2>5. LifeHolds'
    BY <1>3 DEF ServerInv, LifeHolds
  <2> QED
    BY <1>1, <1>3, <2>1, <2>2, <2>4, <2>5, WaiterMoves
<1>4. CASE life' = [life EXCEPT !.pending = FALSE, !.cancelled = FALSE] /\ Moves(s, "idle") /\ UNCHANGED slot
  <2> DEFINE row == [at |-> "idle", of |-> proc[s].of]
  <2>1. row \in CallerRow /\ row.at = "idle"
    BY ServerTypes DEF CallerRow, StarterPlaces
  <2>2. proc' = [proc EXCEPT ![s] = row]
    BY <1>4 DEF Moves, Goes
  <2> HIDE DEF row
  <2>3. \A r \in Starters : proc'[r] = IF r = s THEN row ELSE proc[r]
    BY <2>2, ServerTypes
  <2>4. SlotHolds'
    BY <1>2, <1>4, <2>1, <2>3 DEF ServerInv, SlotHolds, Holding, Running, Opening, Closing
  <2>5. /\ life' \in LifeRow /\ life'.generation = life.generation /\ life'.complete = life.complete
        /\ life'.pending = FALSE /\ life'.startup = life.startup /\ life'.started = life.started
    BY <1>1, <1>4 DEF LifeRow
  <2>6. LifeHolds'
    BY <2>5 DEF ServerInv, LifeHolds
  <2>7. slot' \in BOOLEAN
    BY <1>4 DEF ServerInv, ServerTypeOK
  <2> QED
    BY <1>1, <1>2, <2>1, <2>2, <2>4, <2>5, <2>6, <2>7, WaiterMoves
<1> QED
  BY <1>3, <1>4 DEF AcquireSlot

LEMMA StartReturnsKeeps ==
  ASSUME ServerInv, NEW s \in Starters, StartReturns(s)
  PROVE  ServerInv'
<1>1. life \in LifeRow /\ proc[s].at = "return" /\ slot' = TRUE /\ UNCHANGED <<life, net, tracker>>
  BY ServerTypes DEF StartReturns, At
<1> DEFINE row == [at |-> "idle", of |-> 0]
<1>2. row \in CallerRow /\ row.at = "idle"
  BY ServerAssumption DEF CallerRow, StarterPlaces
<1>3. proc' = [proc EXCEPT ![s] = row]
  BY DEF StartReturns, Goes
<1> HIDE DEF row
<1>4. \A r \in Starters : proc'[r] = IF r = s THEN row ELSE proc[r]
  BY <1>3, ServerTypes
<1>5. \A r \in Starters \ {s} : proc[r].at \notin Holding
  BY <1>1 DEF ServerInv, SlotHolds, Holding, Running, Closing
<1>6. SlotHolds'
  BY <1>2, <1>4, <1>5 DEF ServerInv, SlotHolds, Holding, Running, Opening, Closing
<1>7. LifeHolds'
  BY <1>1 DEF ServerInv, LifeHolds
<1>8. \A r \in Starters \ {s} : proc[r].at \in {"slot", "claim"} => life'.pending
  BY <1>1, ServerTypes DEF StarterHolds
<1> QED
  BY <1>1, <1>2, <1>3, <1>6, <1>7, <1>8, WaiterMoves

\* The claim: no other call has the slot, so the generation before is settled.
LEMMA ClaimOpens ==
  ASSUME ServerInv, NEW s \in Starters, proc[s].at = "claim", NEW g \in Generations, g = life.generation + 1,
         life' \in LifeRow, life'.generation = g, life'.startup = life.startup, life'.pending = FALSE,
         life'.complete = FALSE, Goes(s, "unready", g), UNCHANGED <<net, tracker, slot>>
  PROVE  ServerInv'
<1> USE DEF ServerInv
<1> DEFINE row == [at |-> "unready", of |-> g]
<1>1. proc \in [Callers -> CallerRow] /\ s \in Callers /\ Starters \subseteq Callers /\ Others \subseteq Callers /\ s \notin Others
  BY CallerAssumption DEF ServerTypeOK, Callers, Others
<1>2. row \in CallerRow /\ row.at = "unready" /\ row.of = g
  BY DEF CallerRow, StarterPlaces, Holding, Running, Opening, Generations
<1>3. proc' = [proc EXCEPT ![s] = row]
  BY DEF Goes
<1> HIDE DEF row
<1>4. /\ proc' \in [Callers -> CallerRow] /\ proc'[s] = row
      /\ \A r \in Callers \ {s} : proc'[r] = proc[r]
  BY <1>1, <1>2, <1>3
<1>5. \A r \in Starters \ {s} : proc[r].at \notin Holding /\ proc[r].at # "slot"
  BY DEF SlotHolds, Holding
<1>6. ServerTypeOK'
  BY <1>4 DEF ServerTypeOK
<1>7. life.generation \in 0..MaxStarts /\ life.pending /\ life.generation < life.startup /\ life.startup \in 0..MaxStarts
  BY DEF ServerTypeOK, LifeRow, StartersHold, StarterHolds, LifeHolds
<1>8. g \notin net.serving /\ tracker.active[g] = {}
  BY <1>7 DEF GenerationsHold
<1>9. ASSUME NEW h \in Generations, h # g, Settled(h) PROVE Settled(h)'
  BY <1>1, <1>2, <1>4, <1>9 DEF Settled
<1>10. \A h \in Generations : h < g => Settled(h)'
  <2>1. SUFFICES ASSUME NEW h \in Generations, h < g PROVE Settled(h)
    BY <1>9 DEF Generations
  <2>2. CASE h < life.generation
    BY <2>2 DEF GenerationsHold
  <2>3. CASE h = life.generation
    <3>1. ~ \E r \in Starters : proc[r].at \in Running /\ proc[r].of = life.generation
      BY <1>5 DEF Holding, Running, Opening, Closing
    <3>2. life.generation # 0
      BY <2>3 DEF Generations
    <3> QED
      BY <2>3, <3>1, <3>2 DEF GenerationsHold
  <2> QED
    BY <1>7, <2>1, <2>2, <2>3 DEF Generations
<1>11. StartersHold'
  <2>1. SUFFICES ASSUME NEW r \in Starters PROVE StarterHolds(proc[r])'
    BY DEF StartersHold
  <2>2. CASE r = s
    <3>1. StarterHolds(row)'
      BY <1>2, <1>8 DEF StarterHolds, StarterPlaces, Holding, Running, Opening, Closing, Generations
    <3> QED
      BY <1>4, <2>2, <3>1
  <2>3. CASE r # s
    <3>1. PICK q \in CallerRow : q = proc[r] /\ q = proc'[r] /\ StarterHolds(q) /\ q.at \notin Holding /\ q.at # "slot"
      BY <1>1, <1>4, <1>5, <2>3 DEF StartersHold
    <3>2. StarterHolds(q)'
      BY <3>1 DEF StarterHolds, Holding, Running
    <3> QED
      BY <3>1, <3>2
  <2> QED
    BY <2>2, <2>3
<1>12. OthersHold'
  <2>1. SUFFICES ASSUME NEW d \in Others PROVE OtherHolds(proc[d])' /\ StopHolds(proc[d])'
    BY DEF OthersHold
  <2>2. PICK q \in CallerRow : q = proc[d] /\ q = proc'[d] /\ OtherHolds(q) /\ StopHolds(q)
    BY <1>1, <1>4 DEF OthersHold
  <2>3. q.of \in 0..MaxStarts /\ (q.of # 0 => q.of \in Generations)
    BY ServerAssumption DEF CallerRow, Generations
  <2>4. q.of <= life.generation => q.of <= g /\ q.of # g
    BY <1>7, <2>3
  <2>5. OtherHolds(q)'
    BY <1>9, <2>2, <2>3, <2>4 DEF OtherHolds, Closing
  <2> QED
    BY <2>2, <2>5 DEF StopHolds
<1>13. SlotHolds'
  BY <1>1, <1>2, <1>4, <1>5 DEF SlotHolds, Holding, Running, Opening, Closing
<1>14. LifeHolds'
  BY <1>7 DEF LifeHolds, Generations
<1>15. GenerationsHold'
  <2>1. \A h \in Generations : h > g => h \notin net'.serving /\ tracker'.active[h] = {}
    BY <1>7 DEF GenerationsHold, Generations
  <2>2. proc'[s].at \in Running /\ proc'[s].of = g
    BY <1>2, <1>4 DEF Running, Opening
  <2> QED
    BY <1>10, <2>1, <2>2 DEF GenerationsHold
<1> QED
  BY <1>6, <1>11, <1>12, <1>13, <1>14, <1>15

LEMMA ClaimGenerationKeeps ==
  ASSUME ServerInv, NEW s \in Starters, ClaimGeneration(s)
  PROVE  ServerInv'
<1>1. life \in LifeRow /\ proc[s].at = "claim" /\ UNCHANGED <<net, tracker>> /\ life.pending
  BY ServerTypes DEF ClaimGeneration, At, StarterHolds
<1>2. PICK g \in Generations : g = life.generation + 1
  BY <1>1, ServerAssumption DEF ServerInv, LifeHolds, LifeRow, Generations
<1>3. CASE Claims(s)
  <2>1. /\ life' = [life EXCEPT !.pending = FALSE, !.started = TRUE, !.generation = g, !.stopping = FALSE,
                                !.complete = FALSE, !.http = 0]
        /\ Goes(s, "unready", g) /\ UNCHANGED slot
    BY <1>2, <1>3 DEF ClaimGeneration
  <2>2. PICK zero \in 0..MaxStarts : zero = 0
    BY ServerAssumption
  <2>3. life' = [life EXCEPT !.pending = FALSE, !.started = TRUE, !.generation = g, !.stopping = FALSE,
                             !.complete = FALSE, !.http = zero]
    BY <2>1, <2>2
  <2>4. /\ life' \in LifeRow /\ life'.generation = g /\ life'.startup = life.startup /\ life'.pending = FALSE
        /\ life'.complete = FALSE
    <3>1. PICK n \in 0..MaxStarts : n = g
      BY DEF Generations
    <3>2. life' = [life EXCEPT !.pending = FALSE, !.started = TRUE, !.generation = n, !.stopping = FALSE,
                               !.complete = FALSE, !.http = zero]
      BY <2>3, <3>1
    <3>3. /\ life' \in LifeRow /\ life'.generation = n /\ life'.startup = life.startup /\ life'.pending = FALSE
          /\ life'.complete = FALSE
      BY <1>1, <3>2 DEF LifeRow
    <3> QED
      BY <3>1, <3>3
  <2> QED
    BY <1>1, <1>2, <2>1, <2>4, ClaimOpens
<1>4. CASE ~Claims(s)
  <2> DEFINE row == [at |-> "idle", of |-> proc[s].of]
  <2>1. /\ life' = [life EXCEPT !.pending = FALSE, !.cancelled = FALSE] /\ slot' = TRUE
        /\ proc' = [proc EXCEPT ![s] = row]
    BY <1>4 DEF ClaimGeneration, Moves, Goes
  <2>2. row \in CallerRow /\ row.at = "idle"
    BY ServerTypes DEF CallerRow, StarterPlaces
  <2> HIDE DEF row
  <2>3. \A r \in Starters : proc'[r] = IF r = s THEN row ELSE proc[r]
    BY <2>1, ServerTypes
  <2>4. \A r \in Starters \ {s} : proc[r].at \notin Holding /\ proc[r].at # "slot"
    BY <1>1 DEF ServerInv, SlotHolds, Holding
  <2>5. SlotHolds'
    BY <2>2, <2>3, <2>4 DEF SlotHolds, Holding, Running, Opening, Closing
  <2>6. /\ life' \in LifeRow /\ life'.generation = life.generation /\ life'.complete = life.complete
        /\ life'.pending = FALSE /\ life'.startup = life.startup /\ life'.started = life.started
    BY <1>1, <2>1 DEF LifeRow
  <2>7. LifeHolds'
    BY <2>6 DEF ServerInv, LifeHolds
  <2>8. \A r \in Starters \ {s} : proc[r].at \notin {"slot", "claim"}
    BY <2>4 DEF Holding
  <2> QED
    BY <1>1, <2>1, <2>2, <2>5, <2>6, <2>7, <2>8, WaiterMoves
<1> QED
  BY <1>3, <1>4

-----------------------------------------------------------------------------
(* Requests, MCP runs and contexts. *)

\* The rest of the invariant depends on nothing else.
LEMMA ServerKept ==
  ASSUME ServerInv, UNCHANGED <<life, proc, net, tracker, slot>>
  PROVE  ServerInv'
<1>1. \A g : Settled(g)' <=> Settled(g)
  BY DEF Settled
<1>2. StartersHold' /\ OthersHold'
  BY <1>1 DEF ServerInv, StartersHold, OthersHold, StarterHolds, OtherHolds, StopHolds
<1>3. GenerationsHold'
  BY <1>1 DEF ServerInv, GenerationsHold
<1> QED
  BY <1>2, <1>3 DEF ServerInv, ServerTypeOK, SlotHolds, LifeHolds

\* Only the requests in the handlers change, and only where a generation serves.
LEMMA HandlersMove ==
  ASSUME ServerInv, tracker' \in TrackerRow, tracker'.stopping = tracker.stopping,
         \A g \in Generations : tracker.active[g] = {} => \/ tracker'.active[g] = {}
                                                          \/ g \in net.serving /\ g \notin tracker.stopping,
         UNCHANGED <<life, proc, net, slot>>
  PROVE  ServerInv'
<1> USE DEF ServerInv
<1>1. ASSUME NEW g \in Generations, Settled(g) PROVE Settled(g)'
  BY <1>1 DEF Settled
<1>2. ServerTypeOK' /\ SlotHolds' /\ LifeHolds'
  BY DEF ServerTypeOK, SlotHolds, LifeHolds
<1>3. StartersHold'
  <2>1. SUFFICES ASSUME NEW s \in Starters PROVE StarterHolds(proc[s])'
    BY DEF StartersHold
  <2>2. PICK q \in CallerRow : q = proc[s] /\ q = proc'[s] /\ StarterHolds(q)
    BY ServerTypes
  <2>3. q.at \in Closing => Settled(q.of)'
    BY <1>1, <2>2 DEF StarterHolds, Running
  <2>4. q.at \in Opening => tracker'.active[q.of] = {}
    BY <2>2 DEF StarterHolds, Running
  <2>5. StarterHolds(q)'
    BY <2>2, <2>3, <2>4 DEF StarterHolds
  <2> QED
    BY <2>2, <2>5
<1>4. OthersHold'
  <2>1. SUFFICES ASSUME NEW d \in Others PROVE OtherHolds(proc[d])' /\ StopHolds(proc[d])'
    BY DEF OthersHold
  <2>2. PICK q \in CallerRow : q = proc[d] /\ q = proc'[d] /\ OtherHolds(q) /\ StopHolds(q)
    BY ServerTypes
  <2>3. q.of # 0 => q.of \in Generations
    BY ServerAssumption DEF CallerRow, Generations
  <2>4. OtherHolds(q)'
    BY <1>1, <2>2, <2>3 DEF OtherHolds
  <2> QED
    BY <2>2, <2>4 DEF StopHolds
<1>5. GenerationsHold'
  <2>1. PICK n \in 0..MaxStarts : n = life.generation /\ n = life'.generation
    BY DEF ServerTypeOK, LifeRow
  <2>2. n # 0 => n \in Generations
    BY <2>1 DEF Generations
  <2>3. \A g \in Generations : g > n => g \notin net'.serving /\ tracker'.active[g] = {}
    BY <2>1 DEF GenerationsHold
  <2>4. \A g \in Generations : g < n => Settled(g)'
    BY <1>1, <2>1 DEF GenerationsHold
  <2>5. n # 0 => \/ Settled(n)'
                 \/ ~life'.complete /\ \E s \in Starters : proc'[s].at \in Running /\ proc'[s].of = n
    BY <1>1, <2>1, <2>2 DEF GenerationsHold
  <2> QED
    BY <2>1, <2>3, <2>4, <2>5 DEF GenerationsHold
<1> QED
  BY <1>2, <1>3, <1>4, <1>5

LEMMA RequestEntersKeeps ==
  ASSUME ServerInv, NEW r \in Requests, RequestEnters(r)
  PROVE  ServerInv'
<1>1. PICK g \in net.serving \ (net.closed \cup tracker.stopping) :
        tracker' = [tracker EXCEPT !.active[g] = @ \cup {r}]
  BY DEF RequestEnters
<1>2. g \in Generations /\ tracker \in TrackerRow /\ UNCHANGED <<life, proc, net, slot>>
  BY ServerTypes DEF NetRow, RequestEnters
<1>3. /\ tracker' \in TrackerRow /\ tracker'.stopping = tracker.stopping
      /\ tracker'.active = [tracker.active EXCEPT ![g] = @ \cup {r}]
  BY <1>1, <1>2 DEF TrackerRow
<1>4. \A h \in Generations : tracker'.active[h] = IF h = g THEN tracker.active[h] \cup {r} ELSE tracker.active[h]
  BY <1>2, <1>3 DEF TrackerRow
<1> QED
  BY <1>1, <1>2, <1>3, <1>4, HandlersMove

LEMMA RequestEndsKeeps ==
  ASSUME ServerInv, NEW r \in Requests, RequestEnds(r)
  PROVE  ServerInv'
<1>1. tracker \in TrackerRow /\ UNCHANGED <<life, proc, net, slot>>
  BY ServerTypes DEF RequestEnds
<1>2. PICK active \in [Generations -> SUBSET Requests] : active = [g \in Generations |-> tracker.active[g] \ {r}]
  BY <1>1 DEF TrackerRow
<1>3. tracker' = [tracker EXCEPT !.active = active]
  BY <1>2 DEF RequestEnds
<1>4. tracker' \in TrackerRow /\ tracker'.stopping = tracker.stopping /\ tracker'.active = active
  BY <1>1, <1>3 DEF TrackerRow
<1>5. \A g \in Generations : tracker'.active[g] \subseteq tracker.active[g]
  BY <1>2, <1>4
<1> QED
  BY <1>1, <1>4, <1>5, HandlersMove

-----------------------------------------------------------------------------
(* The whole server. *)

LEMMA ServerInitHolds == ServerInit => ServerInv
<1> SUFFICES ASSUME ServerInit PROVE ServerInv
  OBVIOUS
<1> USE DEF ServerInit
<1>1. 0 \in 0..MaxStarts /\ \A g \in Generations : g # 0
  BY ServerAssumption DEF Generations
<1>2. \A p \in Callers : proc[p] = [at |-> "idle", of |-> 0] /\ proc[p] \in CallerRow
  BY <1>1 DEF CallerRow, StarterPlaces
<1>3. life \in LifeRow
  BY <1>1 DEF LifeRow
<1>4. net \in NetRow /\ tracker \in TrackerRow
  BY DEF NetRow, TrackerRow
<1>5. proc \in [Callers -> CallerRow]
  BY <1>2
<1>6. ServerTypeOK
  BY <1>3, <1>4, <1>5 DEF ServerTypeOK
<1>7. \A p \in Callers : proc[p].at = "idle"
  BY <1>2
<1>8. StartersHold
  BY <1>7 DEF StartersHold, StarterHolds, StarterPlaces, Holding, Running, Opening, Closing, Callers
<1>9. OthersHold
  BY <1>7 DEF OthersHold, OtherHolds, StopHolds, OtherPlaces, Others, Closing, Callers
<1>10. SlotHolds
  BY <1>7 DEF SlotHolds, Holding, Running, Opening, Closing, Callers
<1>11. LifeHolds
  BY DEF LifeHolds
<1>12. GenerationsHold
  <2>1. life.generation = 0 /\ net.serving = {} /\ \A g \in Generations : tracker.active[g] = {}
    OBVIOUS
  <2> QED
    BY <2>1 DEF GenerationsHold, Generations
<1> QED
  BY <1>6, <1>8, <1>9, <1>10, <1>11, <1>12 DEF ServerInv

LEMMA CallerStepHolds ==
  ASSUME ServerInv, NEW p \in Callers,
         \/ Complete(p) \/ Completed(p) \/ Shutdown(p) \/ AwaitStartup(p) \/ AwaitLifecycle(p) \/ StopRequests(p)
         \/ ShutdownHTTP(p) \/ ShutdownReturns(p) \/ ShutdownTimesOut(p) \/ ShutdownAgain(p)
  PROVE  ServerInv'
<1>1. p \in Starters \/ p \in Others
  BY DEF Callers, Others
<1>2. CASE Complete(p) \/ Completed(p)
  BY <1>1, <1>2, OtherCompleteKeeps, OtherCompletedKeeps, StarterCompleteKeeps, StarterCompletedKeeps
<1>3. CASE Shutdown(p)
  <2>1. p \in Others /\ ShutdownSection(p) /\ UNCHANGED <<net, tracker, slot>>
    BY <1>3 DEF Shutdown, Others
  <2> QED
    BY <2>1, ShutdownSectionKeeps
<1>4. CASE AwaitStartup(p) \/ AwaitLifecycle(p)
  <2>1. p \in Others
    <3>1. \A s \in Starters : proc[s].at \in StarterPlaces
      BY ServerTypes DEF StarterHolds
    <3>2. proc[p].at \in {"await", "awaitStartup"}
      BY <1>4 DEF AwaitStartup, AwaitLifecycle, At
    <3> QED
      BY <1>1, <3>1, <3>2 DEF StarterPlaces, Holding, Running, Opening, Closing
  <2> QED
    BY <1>4, <2>1, AwaitStartupKeeps, AwaitLifecycleKeeps
<1>5. CASE StopRequests(p) \/ ShutdownHTTP(p)
  BY <1>5, StopRequestsKeeps, ShutdownHTTPKeeps DEF StopRequests, ShutdownHTTP, Others
<1>6. CASE ShutdownReturns(p) \/ ShutdownTimesOut(p) \/ ShutdownAgain(p)
  <2>1. p \in Others
    BY <1>6 DEF ShutdownReturns, ShutdownTimesOut, ShutdownAgain, Others
  <2> QED
    BY <1>6, <2>1, ShutdownReturnsKeeps, ShutdownTimesOutKeeps, ShutdownAgainKeeps
<1> QED
  BY <1>2, <1>3, <1>4, <1>5, <1>6

LEMMA StarterStepHolds ==
  ASSUME ServerInv, NEW s \in Starters,
         \/ StartEnters(s) \/ AcquireSlot(s) \/ ClaimGeneration(s) \/ StartUnready(s) \/ Listen(s) \/ Publish(s)
         \/ MarkServeStarted(s) \/ Handoff(s) \/ ServeReturns(s) \/ StartDrains(s) \/ StartReturns(s) \/ ContextEnds(s)
  PROVE  ServerInv'
<1>1. CASE ContextEnds(s)
  BY <1>1, ServerKept DEF ContextEnds
<1>2. CASE StartEnters(s) \/ AcquireSlot(s) \/ ClaimGeneration(s) \/ StartUnready(s) \/ Listen(s) \/ Publish(s)
  BY <1>2, StartEntersKeeps, AcquireSlotKeeps, ClaimGenerationKeeps, StartUnreadyKeeps, ListenKeeps, PublishKeeps
<1>3. CASE MarkServeStarted(s) \/ Handoff(s) \/ ServeReturns(s) \/ StartDrains(s) \/ StartReturns(s)
  BY <1>3, MarkServeStartedKeeps, HandoffKeeps, ServeReturnsKeeps, StartDrainsKeeps, StartReturnsKeeps
<1> QED
  BY <1>1, <1>2, <1>3

LEMMA RequestStepHolds ==
  ASSUME ServerInv, NEW r \in Requests,
         RequestEnters(r) \/ RequestEnds(r) \/ RegisterMCPRun(r) \/ UnregisterMCPRun(r)
  PROVE  ServerInv'
<1>1. CASE RegisterMCPRun(r) \/ UnregisterMCPRun(r)
  BY <1>1, ServerKept DEF RegisterMCPRun, UnregisterMCPRun
<1> QED
  BY <1>1, RequestEntersKeeps, RequestEndsKeeps

LEMMA ServerStepHolds == ServerInv /\ [ServerNext]_serverVars => ServerInv'
<1> SUFFICES ASSUME ServerInv, [ServerNext]_serverVars PROVE ServerInv'
  OBVIOUS
<1>1. CASE UNCHANGED serverVars
  BY <1>1, ServerKept DEF serverVars
<1>2. CASE \E p \in Stoppers \cup Watchers : ShutdownUnready(p)
  BY <1>2, ShutdownUnreadyKeeps DEF Others
<1>3. CASE \E g \in Watchers : WatcherFires(g)
  BY <1>3, WatcherFiresKeeps
<1> QED
  BY <1>1, <1>2, <1>3, CallerStepHolds, StarterStepHolds, RequestStepHolds DEF ServerNext

\* A Shutdown that returned without an error leaves no request of its generation in a handler,
\* then or later, whoever else shuts down, gives up or starts the next generation meanwhile
\* (shutdownForGeneration, waitForLifecycle), for every number of callers, starts and requests.
THEOREM ServerShutsDownQuietly == ServerSpec => []ShutdownIsQuiet
<1>1. ServerInv => ShutdownIsQuiet
  <2> SUFFICES ASSUME ServerInv, NEW p \in Others, At(p, "returned"), proc[p].of # 0
               PROVE  tracker.active[proc[p].of] = {}
    BY DEF ShutdownIsQuiet, Others
  <2> QED
    BY ServerTypes DEF OtherHolds, At, Settled
<1> QED
  BY <1>1, ServerInitHolds, ServerStepHolds, PTL DEF ServerSpec

-----------------------------------------------------------------------------
(* The scan history: what the entries, the coverage and the reports taken have to do with each other. *)

FindingRow == [id : FindingIds, analyzer : ScanAnalyzers, uid : Uids]
Round == [pc : {"typed", "dynamic"}, start : Nat, scope : Scopes, expired : BOOLEAN, todo : SUBSET Dynamic,
          ok : SUBSET ScanAnalyzers, failed : SUBSET ScanAnalyzers, seen : SUBSET FindingRow]
ReportIssue == [id : FindingIds, names : SUBSET ScanAnalyzers, uid : Uids]
ReportRow == [start : Nat, scope : Scopes, ok : SUBSET ScanAnalyzers, failed : SUBSET ScanAnalyzers,
              error : BOOLEAN, issues : SUBSET ReportIssue]
EntryRow == [known : {TRUE}, resolved : BOOLEAN, last : Nat, names : SUBSET ScanAnalyzers]

HistoryTypeOK ==
  /\ scanCount \in Nat
  /\ scans \in [Scanners -> Round \cup {NoRound}]
  /\ entries \in [Fingerprints -> EntryRow \cup {NoEntry}]
  /\ accepted \subseteq ReportRow

\* An issue names analyzers that report it, and a report has one issue for an id.
IssuesHold(issues) ==
  /\ \A x \in issues : x.names # {} /\ x.names \subseteq AnalyzersOf[x.id]
  /\ \A x, y \in issues : x.id = y.id => x = y

SeenHold == \A s \in Scanners : scans[s] # NoRound => \A x \in scans[s].seen : x.analyzer \in AnalyzersOf[x.id]

\* A start orders: no two scans, in progress or recorded, have the same.
StartsApart ==
  /\ \A r \in accepted : r.start <= scanCount
  /\ \A s \in Scanners : scans[s] # NoRound => scans[s].start <= scanCount /\ \A r \in accepted : r.start # scans[s].start
  /\ \A s, t \in Scanners : scans[s] # NoRound /\ scans[t] # NoRound /\ scans[s].start = scans[t].start => s = t
  /\ \A q, r \in accepted : q.start = r.start => q = r

\* The coverage is that of reports that were taken, and no report's is lost but to a newer one alike.
CoverageHolds ==
  /\ \A c \in coverage : \E r \in accepted : c = Coverage(r)
  /\ \A r \in accepted : \E c \in coverage : SameKey(c, Coverage(r)) /\ c.start >= r.start

ActiveEntry(f) == entries[f].known /\ ~entries[f].resolved

\* An entry is of an issue that was reported, and an active one of the report it is dated by, with no
\* newer report that covers it.
EntriesHold ==
  \A f \in Fingerprints : entries[f].known =>
    /\ entries[f].names # {} /\ entries[f].names \subseteq AnalyzersOf[f[1]]
    /\ \E r \in accepted : \E x \in r.issues : x.id = f[1] /\ x.uid = f[2]
    /\ ~entries[f].resolved =>
         /\ \E r \in accepted : r.start = entries[f].last /\ Sees(r, f[1])
         /\ \A r \in accepted : r.start > entries[f].last => ~CoveredBy(Coverage(r), f[1], entries[f].names)

\* A finding seen at time t is active since, or a report from then on looked and did not see it.
Accounted(i, t) ==
  \/ \E f \in Fingerprints : f[1] = i /\ ActiveEntry(f) /\ entries[f].last >= t
  \/ \E n \in accepted : n.start >= t /\ ~Sees(n, i) /\ \E a \in AnalyzersOf[i] : Looked(n, i, {a})

FindingsAccounted ==
  /\ \A i \in FindingIds, r \in accepted : Sees(r, i) /\ OneIdentity(ObjectOf[i]) => Accounted(i, r.start)
  /\ \A f \in Fingerprints : entries[f].known /\ OneIdentity(ObjectOf[f[1]]) => Accounted(f[1], entries[f].last)

HistoryInv ==
  /\ HistoryTypeOK /\ (\A r \in accepted : IssuesHold(r.issues)) /\ SeenHold
  /\ StartsApart /\ CoverageHolds /\ EntriesHold /\ FindingsAccounted

-----------------------------------------------------------------------------
(* Entries and reports. *)

Entries == [Fingerprints -> EntryRow \cup {NoEntry}]

LEMMA EntryKinds ==
  ASSUME NEW e \in EntryRow \cup {NoEntry}
  PROVE  /\ e.known => /\ e \in EntryRow /\ e.resolved \in BOOLEAN /\ e.last \in Nat
                       /\ e.names \subseteq ScanAnalyzers
         /\ ~e.known => e = NoEntry
         /\ e.known \in BOOLEAN
<1>1. NoEntry.known = FALSE
  BY DEF NoEntry
<1>2. e \in EntryRow => e.known = TRUE /\ e.resolved \in BOOLEAN /\ e.last \in Nat /\ e.names \subseteq ScanAnalyzers
  BY DEF EntryRow
<1> QED
  BY <1>1, <1>2

LEMMA ResolvedIs ==
  ASSUME NEW e \in EntryRow, NEW t \in Nat
  PROVE  /\ Resolved(e, t) \in EntryRow /\ Resolved(e, t).known /\ Resolved(e, t).resolved
         /\ Resolved(e, t).last = t /\ Resolved(e, t).names = e.names
<1>1. Resolved(e, t) \in EntryRow
  BY DEF Resolved, EntryRow
<1>2. Resolved(e, t).resolved /\ Resolved(e, t).last = t /\ Resolved(e, t).names = e.names
  BY DEF Resolved, EntryRow
<1> QED
  BY <1>1, <1>2 DEF EntryRow

LEMMA CoverageIs ==
  ASSUME NEW r \in ReportRow
  PROVE  /\ Coverage(r).start = r.start /\ Coverage(r).scope = r.scope /\ Coverage(r).ok = r.ok
         /\ Coverage(r).failed = r.failed /\ Coverage(r).error = r.error
  BY DEF Coverage

\* Two reports with the same key looked alike.
LEMMA SameKeyIs ==
  ASSUME NEW q \in ReportRow, NEW r \in ReportRow
  PROVE  SameKey(Coverage(q), Coverage(r)) <=>
           q.scope = r.scope /\ q.ok = r.ok /\ q.failed = r.failed /\ q.error = r.error
<1> DEFINE a == [start |-> 0, scope |-> q.scope, ok |-> q.ok, failed |-> q.failed, error |-> q.error]
           b == [start |-> 0, scope |-> r.scope, ok |-> r.ok, failed |-> r.failed, error |-> r.error]
<1> DEFINE Row == [start : Nat, scope : Scopes, ok : SUBSET ScanAnalyzers, failed : SUBSET ScanAnalyzers, error : BOOLEAN]
<1>0. \A c \in Row : [c EXCEPT !.start = 0] =
        [start |-> 0, scope |-> c.scope, ok |-> c.ok, failed |-> c.failed, error |-> c.error]
  OBVIOUS
<1>1. [Coverage(q) EXCEPT !.start = 0] = a /\ [Coverage(r) EXCEPT !.start = 0] = b
  <2>1. Coverage(q) \in Row /\ Coverage(r) \in Row
    BY DEF Coverage, ReportRow
  <2> HIDE DEF Row
  <2> QED
    BY <1>0, <2>1, CoverageIs
<1>2. a = b <=> q.scope = r.scope /\ q.ok = r.ok /\ q.failed = r.failed /\ q.error = r.error
  <2>1. a = b => a.scope = b.scope /\ a.ok = b.ok /\ a.failed = b.failed /\ a.error = b.error
    OBVIOUS
  <2> QED
    BY <2>1
<1> QED
  BY <1>1, <1>2 DEF SameKey

\* Whoever covers more names covers fewer.
LEMMA CoversFewer ==
  ASSUME NEW q \in ReportRow, NEW r \in ReportRow, SameKey(Coverage(q), Coverage(r)), NEW i, NEW few, NEW many,
         few # {}, few \subseteq many, CoveredBy(Coverage(r), i, many)
  PROVE  CoveredBy(Coverage(q), i, few)
  BY SameKeyIs, CoverageIs DEF CoveredBy

LEMMA DeduplicatedHolds ==
  ASSUME NEW seen \in SUBSET FindingRow, \A x \in seen : x.analyzer \in AnalyzersOf[x.id]
  PROVE  Deduplicated(seen) \in SUBSET ReportIssue /\ IssuesHold(Deduplicated(seen))
<1> DEFINE names(i) == {x.analyzer : x \in {y \in seen : y.id = i}}
           known(i) == {x.uid : x \in {y \in seen : y.id = i}} \ {NoUid}
           uid(i) == IF known(i) = {} THEN NoUid ELSE CHOOSE u \in known(i) : TRUE
           issue(i) == [id |-> i, names |-> names(i), uid |-> uid(i)]
           ids == {x.id : x \in seen}
<1>1. Deduplicated(seen) = {issue(i) : i \in ids}
  BY DEF Deduplicated
<1>2. ASSUME NEW i \in ids
      PROVE  /\ i \in FindingIds /\ names(i) # {} /\ names(i) \subseteq AnalyzersOf[i]
             /\ names(i) \subseteq ScanAnalyzers /\ uid(i) \in Uids
  <2>1. \A x \in seen : x.id \in FindingIds /\ x.analyzer \in ScanAnalyzers /\ x.uid \in Uids
    BY DEF FindingRow
  <2>2. i \in FindingIds /\ names(i) # {} /\ names(i) \subseteq AnalyzersOf[i] /\ names(i) \subseteq ScanAnalyzers
    BY <2>1
  <2>3. known(i) \subseteq Uids /\ NoUid \in Uids
    BY <2>1 DEF Uids
  <2>4. uid(i) \in Uids
    <3> HIDE DEF known
    <3> QED
      BY <2>3
  <2> QED
    BY <2>2, <2>4
<1> HIDE DEF names, uid, ids, known
<1>3. \A i \in ids : issue(i) \in ReportIssue /\ issue(i).id = i /\ issue(i).names = names(i)
  BY <1>2 DEF ReportIssue
<1> HIDE DEF issue
<1> QED
  BY <1>1, <1>2, <1>3 DEF IssuesHold

LEMMA ReportTyped ==
  ASSUME HistoryInv, NEW s \in Scanners, scans[s] \in Round
  PROVE  Report(s) \in ReportRow /\ IssuesHold(Report(s).issues) /\ Report(s).start = scans[s].start
<1>1. scans[s] # NoRound
  BY DEF Round, NoRound
<1>2. PICK seen \in SUBSET FindingRow : seen = scans[s].seen /\ \A x \in seen : x.analyzer \in AnalyzersOf[x.id]
  BY <1>1 DEF Round, HistoryInv, SeenHold
<1>3. PICK issues \in SUBSET ReportIssue : issues = Deduplicated(scans[s].seen) /\ IssuesHold(issues)
  BY <1>2, DeduplicatedHolds
<1>4. Report(s) = [start |-> scans[s].start, scope |-> scans[s].scope, ok |-> scans[s].ok,
                   failed |-> scans[s].failed, error |-> scans[s].expired, issues |-> issues]
  BY <1>3 DEF Report
<1>5. Report(s) \in ReportRow
  BY <1>4 DEF Round, ReportRow
<1> QED
  BY <1>3, <1>4, <1>5

\* Entries a report covers are resolved; the others stay.
LEMMA ResolvesCoveredIs ==
  ASSUME entries \in Entries, NEW r \in ReportRow
  PROVE  /\ ResolvesCovered(r) \in Entries
         /\ \A f \in Fingerprints :
              LET covered == entries[f].known /\ r.start > entries[f].last
                               /\ CoveredBy(Coverage(r), f[1], entries[f].names)
              IN  /\ covered => ResolvesCovered(r)[f] = Resolved(entries[f], r.start)
                  /\ ~covered => ResolvesCovered(r)[f] = entries[f]
<1>1. \A f \in Fingerprints : entries[f] \in EntryRow \cup {NoEntry}
  BY DEF Entries
<1>2. r.start \in Nat
  BY DEF ReportRow
<1>3. \A f \in Fingerprints : entries[f].known => Resolved(entries[f], r.start) \in EntryRow
  BY <1>1, <1>2, EntryKinds, ResolvedIs
<1> QED
  BY <1>1, <1>3 DEF ResolvesCovered, Entries

\* A fresh issue has the entry of its fingerprint and resolves the others of its id.
LEMMA TakesOverIs ==
  ASSUME NEW es \in Entries, NEW r \in ReportRow, NEW x \in ReportIssue,
         x.names # {}, x.names \subseteq AnalyzersOf[x.id],
         \A f \in Fingerprints : es[f].known => es[f].names \subseteq AnalyzersOf[f[1]]
  PROVE  /\ TakesOver(r, x, es) \in Entries
         /\ \E names \in SUBSET ScanAnalyzers :
              /\ x.names \subseteq names /\ names \subseteq AnalyzersOf[x.id]
              /\ TakesOver(r, x, es)[<<x.id, x.uid>>] =
                   [known |-> TRUE, resolved |-> FALSE, last |-> r.start, names |-> names]
         /\ \A f \in Fingerprints : f # <<x.id, x.uid>> =>
              TakesOver(r, x, es)[f] = IF f[1] = x.id /\ es[f].known THEN Resolved(es[f], r.start) ELSE es[f]
<1> DEFINE old == {f \in Fingerprints : f[1] = x.id /\ f[2] # x.uid /\ es[f].known}
           mine == es[<<x.id, x.uid>>]
           names == x.names \cup (UNION {es[f].names : f \in old}) \cup (IF mine.known THEN mine.names ELSE {})
           row == [known |-> TRUE, resolved |-> FALSE, last |-> r.start, names |-> names]
<1>1. /\ \A f \in Fingerprints : es[f] \in EntryRow \cup {NoEntry}
      /\ x.id \in FindingIds /\ x.uid \in Uids /\ x.names \subseteq ScanAnalyzers /\ r.start \in Nat
      /\ <<x.id, x.uid>> \in Fingerprints
  BY DEF Entries, ReportIssue, ReportRow, Fingerprints
<1>2. \A f \in Fingerprints : es[f].known => es[f] \in EntryRow /\ es[f].names \subseteq ScanAnalyzers
  BY <1>1, EntryKinds
<1>3. x.names \subseteq names /\ names \subseteq AnalyzersOf[x.id] /\ names \in SUBSET ScanAnalyzers
  <2>1. mine.known => mine.names \subseteq AnalyzersOf[x.id] /\ mine.names \subseteq ScanAnalyzers
    <3>1. <<x.id, x.uid>>[1] = x.id
      OBVIOUS
    <3> QED
      BY <1>1, <1>2, <3>1
  <2>2. \A f \in old : es[f].names \subseteq AnalyzersOf[x.id] /\ es[f].names \subseteq ScanAnalyzers
    BY <1>2
  <2> HIDE DEF old, mine
  <2> QED
    BY <1>1, <2>1, <2>2
<1>4. TakesOver(r, x, es) = [f \in Fingerprints |->
         CASE f = <<x.id, x.uid>> -> row
           [] f \in old -> Resolved(es[f], r.start)
           [] OTHER -> es[f]]
  BY DEF TakesOver
<1>5. row \in EntryRow
  <2> HIDE DEF names
  <2> QED
    BY <1>1, <1>3 DEF EntryRow
<1>6. \A f \in old : Resolved(es[f], r.start) \in EntryRow
  BY <1>1, <1>2, ResolvedIs
<1>7. \A f \in Fingerprints : f # <<x.id, x.uid>> => (f \in old <=> f[1] = x.id /\ es[f].known)
  BY DEF Fingerprints
<1>8. <<x.id, x.uid>> \notin old
  OBVIOUS
<1> HIDE DEF old, row
<1>9. TakesOver(r, x, es) \in Entries
  BY <1>1, <1>4, <1>5, <1>6 DEF Entries
<1>10. TakesOver(r, x, es)[<<x.id, x.uid>>] = row
  <2>1. PICK g \in Fingerprints : g = <<x.id, x.uid>>
    BY <1>1
  <2>2. TakesOver(r, x, es)[g] = CASE g = <<x.id, x.uid>> -> row
           [] g \in old -> Resolved(es[g], r.start)
           [] OTHER -> es[g]
    BY <1>4
  <2>3. g \notin old
    BY <1>8, <2>1
  <2> QED
    BY <2>1, <2>2, <2>3
<1>11. \A f \in Fingerprints : f # <<x.id, x.uid>> =>
         TakesOver(r, x, es)[f] = IF f[1] = x.id /\ es[f].known THEN Resolved(es[f], r.start) ELSE es[f]
  BY <1>4, <1>7
<1> QED
  BY <1>3, <1>9, <1>10, <1>11 DEF row

-----------------------------------------------------------------------------
(* A report is taken. *)

LEMMA FingerprintIs ==
  /\ \A f \in Fingerprints : f[1] \in FindingIds /\ f[2] \in Uids /\ f = <<f[1], f[2]>>
  /\ \A i \in FindingIds, u \in Uids : <<i, u>> \in Fingerprints /\ <<i, u>>[1] = i /\ <<i, u>>[2] = u
  BY DEF Fingerprints

\* What a report does to an entry: it has the finding, or resolves it, or leaves it alone.
CoversEntry(n, f) ==
  entries[f].known /\ n.start > entries[f].last /\ CoveredBy(Coverage(n), f[1], entries[f].names)

SeesEntry(n, f, x, e) ==
  /\ f[1] = x.id /\ f[2] = x.uid /\ e \in EntryRow /\ ~e.resolved /\ e.last = n.start
  /\ x.names \subseteq e.names /\ e.names \subseteq AnalyzersOf[f[1]]

ResolvesEntry(n, F, f, e) ==
  /\ entries[f].known /\ e \in EntryRow /\ e.resolved /\ e.last = n.start /\ e.names = entries[f].names
  /\ CoversEntry(n, f) \/ \E x \in F : x.id = f[1] /\ x.uid # f[2]

LEMMA ReconcileIs ==
  ASSUME entries \in Entries, NEW n \in ReportRow, IssuesHold(n.issues), NEW F \in SUBSET n.issues,
         \A f \in Fingerprints : entries[f].known => entries[f].names \subseteq AnalyzersOf[f[1]],
         NEW f \in Fingerprints
  PROVE  /\ \A x \in F : f[1] = x.id /\ f[2] = x.uid => SeesEntry(n, f, x, ReconcileReport(n, F)[f])
         /\ \/ \E x \in F : SeesEntry(n, f, x, ReconcileReport(n, F)[f])
            \/ ResolvesEntry(n, F, f, ReconcileReport(n, F)[f])
            \/ ReconcileReport(n, F)[f] = entries[f] /\ ~CoversEntry(n, f)
<1> DEFINE es == ResolvesCovered(n)
           ofId(i) == CHOOSE x \in F : x.id = i
           e == ReconcileReport(n, F)[f]
<1>1. e = IF \E x \in F : x.id = f[1] THEN TakesOver(n, ofId(f[1]), es)[f] ELSE es[f]
  BY DEF ReconcileReport, Taken
<1>2. es \in Entries /\ (CoversEntry(n, f) => es[f] = Resolved(entries[f], n.start))
        /\ (~CoversEntry(n, f) => es[f] = entries[f])
  BY ResolvesCoveredIs DEF CoversEntry
<1>3. /\ n.start \in Nat /\ n.issues \subseteq ReportIssue /\ F \subseteq n.issues
      /\ \A g \in Fingerprints : entries[g].known => entries[g] \in EntryRow
  BY EntryKinds DEF ReportRow, Entries
<1>4. \A g \in Fingerprints : es[g].known => es[g].names \subseteq AnalyzersOf[g[1]]
  <2>1. \A g \in Fingerprints : es[g] = entries[g] \/ (entries[g].known /\ es[g] = Resolved(entries[g], n.start))
    BY ResolvesCoveredIs
  <2>2. \A g \in Fingerprints : entries[g].known => Resolved(entries[g], n.start).names = entries[g].names
    BY <1>3, ResolvedIs
  <2> HIDE DEF es
  <2> QED
    BY <2>1, <2>2
<1>5. CoversEntry(n, f) => /\ entries[f].known /\ es[f] \in EntryRow /\ es[f].resolved
                           /\ es[f].last = n.start /\ es[f].names = entries[f].names
  BY <1>2, <1>3, ResolvedIs DEF CoversEntry
<1> HIDE DEF es, e
<1>6. CASE ~\E x \in F : x.id = f[1]
  <2>1. e = es[f]
    BY <1>1, <1>6
  <2>2. CoversEntry(n, f) => ResolvesEntry(n, F, f, e)
    BY <1>5, <2>1 DEF ResolvesEntry
  <2> QED
    BY <1>2, <1>6, <2>1, <2>2 DEF e
<1>7. ASSUME NEW x \in F, x.id = f[1]
      PROVE  /\ f[2] = x.uid => SeesEntry(n, f, x, e)
             /\ f[2] # x.uid => ResolvesEntry(n, F, f, e) \/ (e = entries[f] /\ ~CoversEntry(n, f))
  <2>1. ofId(f[1]) = x
    BY <1>3, <1>7 DEF IssuesHold
  <2>2. e = TakesOver(n, x, es)[f]
    BY <1>1, <1>7, <2>1
  <2>3. x \in ReportIssue /\ x.names # {} /\ x.names \subseteq AnalyzersOf[x.id]
    BY <1>3 DEF IssuesHold
  <2>4. /\ \E names \in SUBSET ScanAnalyzers :
              /\ x.names \subseteq names /\ names \subseteq AnalyzersOf[x.id]
              /\ TakesOver(n, x, es)[<<x.id, x.uid>>] =
                   [known |-> TRUE, resolved |-> FALSE, last |-> n.start, names |-> names]
        /\ f # <<x.id, x.uid>> =>
              TakesOver(n, x, es)[f] = IF f[1] = x.id /\ es[f].known THEN Resolved(es[f], n.start) ELSE es[f]
    BY <1>2, <1>4, <2>3, TakesOverIs
  <2>5. f[2] = x.uid => SeesEntry(n, f, x, e)
    <3> SUFFICES ASSUME f[2] = x.uid
                 PROVE  SeesEntry(n, f, x, e)
      OBVIOUS
    <3>1. f = <<x.id, x.uid>>
      BY <1>7, FingerprintIs
    <3>2. PICK names \in SUBSET ScanAnalyzers :
              /\ x.names \subseteq names /\ names \subseteq AnalyzersOf[x.id]
              /\ e = [known |-> TRUE, resolved |-> FALSE, last |-> n.start, names |-> names]
      BY <2>2, <2>4, <3>1
    <3>3. e \in EntryRow /\ ~e.resolved /\ e.last = n.start /\ e.names = names
      BY <1>3, <3>2 DEF EntryRow
    <3> QED
      BY <1>7, <3>2, <3>3 DEF SeesEntry
  <2>6. f[2] # x.uid => ResolvesEntry(n, F, f, e) \/ (e = entries[f] /\ ~CoversEntry(n, f))
    <3> SUFFICES ASSUME f[2] # x.uid
                 PROVE  ResolvesEntry(n, F, f, e) \/ (e = entries[f] /\ ~CoversEntry(n, f))
      OBVIOUS
    <3>1. f # <<x.id, x.uid>>
      BY FingerprintIs, <2>3 DEF ReportIssue
    <3>2. e = IF es[f].known THEN Resolved(es[f], n.start) ELSE es[f]
      BY <1>7, <2>2, <2>4, <3>1
    <3>3. CASE es[f].known
      <4>1. es[f] \in EntryRow
        BY <1>2, <3>3, EntryKinds DEF Entries
      <4>2. e \in EntryRow /\ e.resolved /\ e.last = n.start /\ e.names = es[f].names
        BY <1>3, <3>2, <3>3, <4>1, ResolvedIs
      <4>3. entries[f].known /\ es[f].names = entries[f].names
        BY <1>2, <1>5, <3>3
      <4> QED
        BY <1>7, <4>2, <4>3 DEF ResolvesEntry
    <3>4. CASE ~es[f].known
      <4>1. ~CoversEntry(n, f)
        BY <1>5, <3>4 DEF EntryRow
      <4> QED
        BY <1>2, <3>2, <3>4, <4>1
    <3> QED
      BY <3>3, <3>4
  <2> QED
    BY <2>5, <2>6
<1>8. CASE \E x \in F : x.id = f[1]
  <2>1. PICK x \in F : x.id = f[1]
    BY <1>8
  <2> QED
    BY <1>7, <2>1 DEF e
<1> QED
  BY <1>6, <1>8

Takes(n, F) ==
  /\ n \in ReportRow /\ IssuesHold(n.issues) /\ \A r \in accepted : r.start # n.start
  /\ F \in SUBSET n.issues /\ FreshInTurn(n, F)
  /\ TakesReport(n) /\ entries' = ReconcileReport(n, F) /\ accepted' = accepted \cup {n}
  /\ coverage' = {c \in coverage : ~SameKey(c, Coverage(n))} \cup {Coverage(n)}

\* The three ways of an entry, with what the entry was.
LEMMA EntryWays ==
  ASSUME HistoryInv, NEW n \in ReportRow, NEW F, Takes(n, F), NEW f \in Fingerprints
  PROVE  /\ \A x \in F : f[1] = x.id /\ f[2] = x.uid => SeesEntry(n, f, x, entries'[f])
         /\ \/ \E x \in F : SeesEntry(n, f, x, entries'[f])
            \/ ResolvesEntry(n, F, f, entries'[f])
            \/ entries'[f] = entries[f] /\ ~CoversEntry(n, f)
  BY ReconcileIs DEF HistoryInv, HistoryTypeOK, EntriesHold, Takes, Entries

\* An issue is judged by entries that the ones before it may have changed, and still: a fresh one
\* finds its own entry no newer and no newer report without it, and one that is left out was
\* stale from the start.
LEMMA FreshMeans ==
  ASSUME HistoryInv, NEW n \in ReportRow, NEW F, Takes(n, F), NEW x \in n.issues
  PROVE  /\ x \in F => /\ ~\E c \in coverage : c.start >= n.start /\ CoveredBy(c, x.id, x.names)
                       /\ LET mine == ResolvesCovered(n)[<<x.id, x.uid>>] IN ~(mine.known /\ mine.last > n.start)
         /\ x \notin F => StaleIssue(n, x, ResolvesCovered(n))
<1> DEFINE G == {y \in F : IssueRank[y.id] < IssueRank[x.id]}
           es == ResolvesCovered(n)
           met == Taken(n, G, es)
           mine == <<x.id, x.uid>>
<1>1. x \in F <=> ~StaleIssue(n, x, met)
  BY DEF Takes, FreshInTurn
<1>2. G \in SUBSET n.issues /\ met = ReconcileReport(n, G) /\ n.start \in Nat
  BY DEF Takes, ReconcileReport, ReportRow
<1>3. x.id \in FindingIds /\ mine \in Fingerprints /\ mine[1] = x.id
  BY FingerprintIs DEF ReportRow, ReportIssue
<1> HIDE DEF G, met, mine, es
<1>4. ASSUME NEW f \in Fingerprints, met[f].known, met[f].last > n.start
      PROVE  met[f] = es[f]
  <2>1. \/ \E y \in G : SeesEntry(n, f, y, met[f])
        \/ ResolvesEntry(n, G, f, met[f])
        \/ met[f] = entries[f] /\ ~CoversEntry(n, f)
    BY <1>2, ReconcileIs DEF HistoryInv, HistoryTypeOK, EntriesHold, Takes, Entries
  <2>2. ~(n.start > n.start)
    BY <1>2
  <2>3. met[f] = entries[f] /\ ~CoversEntry(n, f)
    BY <1>4, <2>1, <2>2 DEF SeesEntry, ResolvesEntry
  <2>4. es[f] = entries[f]
    BY <2>3, ResolvesCoveredIs DEF es, CoversEntry, HistoryInv, HistoryTypeOK, Entries
  <2> QED
    BY <2>3, <2>4
<1>5. met[mine] = es[mine]
  <2>1. ASSUME NEW y \in G, y.id = x.id
        PROVE  FALSE
    <3>1. IssueRank[x.id] \in Nat
      BY <1>3, ScanAssumption
    <3>2. IssueRank[x.id] < IssueRank[x.id]
      BY <2>1 DEF G
    <3> QED
      BY <3>1, <3>2
  <2> QED
    BY <1>3, <2>1 DEF met, Taken
<1>6. x \notin F => StaleIssue(n, x, es)
  BY <1>1, <1>3, <1>4 DEF StaleIssue, mine
<1> QED
  BY <1>1, <1>3, <1>5, <1>6 DEF StaleIssue, es, mine

LEMMA EntriesTyped ==
  ASSUME HistoryInv, NEW n \in ReportRow, NEW F, Takes(n, F)
  PROVE  entries' \in Entries
<1>1. \A f \in Fingerprints : entries[f] \in EntryRow \cup {NoEntry}
  BY DEF HistoryInv, HistoryTypeOK
<1>2. \A f \in Fingerprints : entries'[f] \in EntryRow \cup {NoEntry}
  BY <1>1, EntryWays DEF SeesEntry, ResolvesEntry
<1>3. entries' = [f \in Fingerprints |-> entries'[f]]
  BY DEF Takes, ReconcileReport, Taken
<1> QED
  BY <1>2, <1>3 DEF Entries

LEMMA CoverageStep ==
  ASSUME HistoryInv, NEW n \in ReportRow, NEW F, Takes(n, F)
  PROVE  CoverageHolds'
<1>1. \A r \in accepted : r \in ReportRow /\ r.start \in Nat /\ Coverage(r).start = r.start
  BY CoverageIs DEF HistoryInv, HistoryTypeOK, ReportRow
<1>2. n.start \in Nat /\ Coverage(n).start = n.start
  BY CoverageIs DEF ReportRow
<1>3. ASSUME NEW r \in accepted
      PROVE  \E c \in coverage' : SameKey(c, Coverage(r)) /\ c.start >= r.start
  <2>1. PICK c \in coverage : SameKey(c, Coverage(r)) /\ c.start >= r.start
    BY DEF HistoryInv, CoverageHolds
  <2>2. CASE ~SameKey(c, Coverage(n))
    BY <2>1, <2>2 DEF Takes
  <2>3. CASE SameKey(c, Coverage(n))
    <3>1. n.start > c.start
      BY <2>3 DEF Takes, TakesReport
    <3>2. SameKey(Coverage(n), Coverage(r))
      BY <2>1, <2>3 DEF SameKey
    <3>3. c.start \in Nat
      BY <1>1 DEF HistoryInv, CoverageHolds
    <3>4. Coverage(n).start >= r.start /\ Coverage(n) \in coverage'
      BY <1>1, <1>2, <2>1, <3>1, <3>3 DEF Takes
    <3> QED
      BY <3>2, <3>4
  <2> QED
    BY <2>2, <2>3
<1>4. \E c \in coverage' : SameKey(c, Coverage(n)) /\ c.start >= n.start
  BY <1>2 DEF Takes, SameKey
<1>5. \A c \in coverage' : \E r \in accepted' : c = Coverage(r)
  BY DEF HistoryInv, CoverageHolds, Takes
<1>6. accepted' = accepted \cup {n}
  BY DEF Takes
<1> QED
  BY <1>3, <1>4, <1>5, <1>6 DEF CoverageHolds

\* No newer report covers a fresh issue.
LEMMA FreshIsUncovered ==
  ASSUME HistoryInv, NEW n \in ReportRow, NEW F, Takes(n, F), NEW x \in F, NEW names, x.names \subseteq names,
         NEW r \in accepted, r.start > n.start
  PROVE  ~CoveredBy(Coverage(r), x.id, names)
<1> SUFFICES ASSUME CoveredBy(Coverage(r), x.id, names)
             PROVE  FALSE
  OBVIOUS
<1>1. PICK c \in coverage : SameKey(c, Coverage(r)) /\ c.start >= r.start
  BY DEF HistoryInv, CoverageHolds
<1>2. PICK m \in accepted : c = Coverage(m)
  BY DEF HistoryInv, CoverageHolds
<1>3. m \in ReportRow /\ r \in ReportRow
  BY DEF HistoryInv, HistoryTypeOK
<1>4. x.names # {}
  BY DEF Takes, IssuesHold
<1>5. CoveredBy(c, x.id, x.names)
  BY <1>1, <1>2, <1>3, <1>4, CoversFewer
<1>6. c.start \in Nat /\ r.start \in Nat /\ n.start \in Nat
  BY <1>2, <1>3, CoverageIs DEF ReportRow
<1>7. c.start >= n.start
  BY <1>1, <1>6
<1>8. x \in n.issues
  BY DEF Takes
<1> QED
  BY <1>5, <1>7, <1>8, FreshMeans

LEMMA EntriesStep ==
  ASSUME HistoryInv, NEW n \in ReportRow, NEW F, Takes(n, F)
  PROVE  EntriesHold'
<1>1. accepted' = accepted \cup {n}
  BY DEF Takes
<1> SUFFICES ASSUME NEW f \in Fingerprints, entries'[f].known
             PROVE  /\ entries'[f].names # {} /\ entries'[f].names \subseteq AnalyzersOf[f[1]]
                    /\ \E r \in accepted' : \E x \in r.issues : x.id = f[1] /\ x.uid = f[2]
                    /\ ~entries'[f].resolved =>
                         /\ \E r \in accepted' : r.start = entries'[f].last /\ Sees(r, f[1])
                         /\ \A r \in accepted' : r.start > entries'[f].last =>
                              ~CoveredBy(Coverage(r), f[1], entries'[f].names)
  BY DEF EntriesHold
<1>2. n.start \in Nat
  BY DEF ReportRow
<1>3. ASSUME NEW x \in F, SeesEntry(n, f, x, entries'[f])
      PROVE  /\ entries'[f].names # {} /\ entries'[f].names \subseteq AnalyzersOf[f[1]]
             /\ \E r \in accepted' : \E y \in r.issues : y.id = f[1] /\ y.uid = f[2]
             /\ \E r \in accepted' : r.start = entries'[f].last /\ Sees(r, f[1])
             /\ \A r \in accepted' : r.start > entries'[f].last => ~CoveredBy(Coverage(r), f[1], entries'[f].names)
  <2>1. x \in n.issues /\ x.names # {} /\ x.id = f[1] /\ x.uid = f[2] /\ entries'[f].last = n.start
          /\ x.names \subseteq entries'[f].names
    BY <1>3 DEF Takes, IssuesHold, SeesEntry
  <2>2. Sees(n, f[1])
    BY <2>1 DEF Sees
  <2>3. \A r \in accepted' : r.start > n.start => r \in accepted
    BY <1>1, <1>2
  <2>4. \A r \in accepted' : r.start > n.start => ~CoveredBy(Coverage(r), x.id, entries'[f].names)
    BY <2>1, <2>3, FreshIsUncovered
  <2> QED
    BY <1>1, <1>3, <2>1, <2>2, <2>4 DEF SeesEntry
<1>4. CASE ResolvesEntry(n, F, f, entries'[f])
  BY <1>1, <1>4 DEF ResolvesEntry, HistoryInv, EntriesHold
<1>5. CASE entries'[f] = entries[f] /\ ~CoversEntry(n, f)
  <2>1. /\ entries[f].names # {} /\ entries[f].names \subseteq AnalyzersOf[f[1]]
        /\ \E r \in accepted : \E x \in r.issues : x.id = f[1] /\ x.uid = f[2]
        /\ ~entries[f].resolved =>
             /\ \E r \in accepted : r.start = entries[f].last /\ Sees(r, f[1])
             /\ \A r \in accepted : r.start > entries[f].last => ~CoveredBy(Coverage(r), f[1], entries[f].names)
    BY <1>5 DEF HistoryInv, EntriesHold
  <2>2. n.start > entries[f].last => ~CoveredBy(Coverage(n), f[1], entries[f].names)
    BY <1>5 DEF CoversEntry
  <2> QED
    BY <1>1, <1>5, <2>1, <2>2
<1> QED
  BY <1>3, <1>4, <1>5, EntryWays

-----------------------------------------------------------------------------
(* What was seen stays accounted for, as long as the reports agree on the identity of its object. *)

Answers(n, i) == ~Sees(n, i) /\ \E a \in AnalyzersOf[i] : Looked(n, i, {a})

\* A report that covers some of the analyzers of a finding and does not see it answers it.
LEMMA CoveredIsAnswered ==
  ASSUME NEW n \in ReportRow, NEW i, NEW names, names \subseteq AnalyzersOf[i], CoveredBy(Coverage(n), i, names), ~Sees(n, i)
  PROVE  Answers(n, i)
<1>1. ~n.error /\ names # {} /\ InScopeOf(n.scope, i) /\ names \subseteq n.ok
  BY CoverageIs DEF CoveredBy
<1>2. PICK a \in names : a \in AnalyzersOf[i] /\ a \in n.ok
  BY <1>1
<1>3. Looked(n, i, {a})
  BY <1>1, <1>2 DEF Looked
<1> QED
  BY <1>2, <1>3 DEF Answers

LEMMA AccountedByActive ==
  ASSUME NEW i, NEW t, NEW f \in Fingerprints, f[1] = i, ActiveEntry(f)', entries'[f].last >= t
  PROVE  Accounted(i, t)'
  BY DEF Accounted

LEMMA AccountedByAnswer ==
  ASSUME NEW i, NEW t, NEW n \in accepted', n.start >= t, Answers(n, i)
  PROVE  Accounted(i, t)'
  BY DEF Accounted, Answers

\* Whoever is accounted for since a time is so since an earlier one.
LEMMA AccountedEarlier ==
  ASSUME entries' \in Entries, \A r \in accepted' : r.start \in Nat,
         NEW i, NEW t \in Nat, NEW u \in Nat, t >= u, Accounted(i, t)'
  PROVE  Accounted(i, u)'
<1>1. \A f \in Fingerprints : entries'[f].known => entries'[f].last \in Nat
  BY EntryKinds DEF Entries
<1>2. CASE \E f \in Fingerprints : f[1] = i /\ ActiveEntry(f)' /\ entries'[f].last >= t
  <2>1. PICK f \in Fingerprints : f[1] = i /\ ActiveEntry(f)' /\ entries'[f].last >= t
    BY <1>2
  <2>2. entries'[f].last >= u
    BY <1>1, <2>1 DEF ActiveEntry
  <2> QED
    BY <2>1, <2>2, AccountedByActive
<1>3. CASE \E n \in accepted' : n.start >= t /\ Answers(n, i)
  <2>1. PICK n \in accepted' : n.start >= t /\ Answers(n, i)
    BY <1>3
  <2>2. n.start >= u
    BY <2>1
  <2> QED
    BY <2>1, <2>2, AccountedByAnswer
<1> QED
  BY <1>2, <1>3 DEF Accounted, Answers

\* With one identity, a report and an entry of the same object have the same UID.
LEMMA IdentityIsShared ==
  ASSUME HistoryInv, NEW n \in ReportRow, NEW F, Takes(n, F), NEW x \in n.issues, NEW f \in Fingerprints, entries[f].known,
         ObjectOf[f[1]] = ObjectOf[x.id], OneIdentity(ObjectOf[x.id])'
  PROVE  f[2] = x.uid
<1>1. PICK r \in accepted : \E y \in r.issues : y.id = f[1] /\ y.uid = f[2]
  BY DEF HistoryInv, EntriesHold
<1>2. PICK y \in r.issues : y.id = f[1] /\ y.uid = f[2]
  BY <1>1
<1>3. r \in accepted' /\ n \in accepted'
  BY DEF Takes
<1>4. y.uid = x.uid
  BY <1>2, <1>3 DEF OneIdentity
<1> QED
  BY <1>2, <1>4

\* An active entry of one identity that the report does not cover stays, and does not get older.
LEMMA ActiveStays ==
  ASSUME HistoryInv, NEW n \in ReportRow, NEW F, Takes(n, F), NEW f \in Fingerprints, ActiveEntry(f),
         OneIdentity(ObjectOf[f[1]])', ~CoversEntry(n, f)
  PROVE  ActiveEntry(f)' /\ entries'[f].last >= entries[f].last
<1>1. entries[f].known /\ ~entries[f].resolved /\ entries[f].last \in Nat /\ n.start \in Nat
  BY EntryKinds DEF ActiveEntry, HistoryInv, HistoryTypeOK, ReportRow
<1>2. ASSUME NEW x \in F, SeesEntry(n, f, x, entries'[f])
      PROVE  ActiveEntry(f)' /\ entries'[f].last >= entries[f].last
  <2>1. f = <<x.id, x.uid>>
    BY <1>2, FingerprintIs DEF SeesEntry
  <2>2. ResolvesCovered(n)[f] = entries[f]
    BY ResolvesCoveredIs DEF CoversEntry, HistoryInv, HistoryTypeOK, Entries
  <2>3. ~(entries[f].last > n.start)
    BY <1>1, <2>1, <2>2, FreshMeans DEF Takes
  <2>4. entries'[f] \in EntryRow /\ ~entries'[f].resolved /\ entries'[f].last = n.start
    BY <1>2 DEF SeesEntry
  <2>5. entries'[f].known
    BY <2>4 DEF EntryRow
  <2>6. n.start >= entries[f].last
    BY <1>1, <2>3
  <2>7. ActiveEntry(f)'
    BY <2>4, <2>5 DEF ActiveEntry
  <2> QED
    BY <2>4, <2>6, <2>7
<1>3. ASSUME ResolvesEntry(n, F, f, entries'[f])
      PROVE  FALSE
  <2>1. PICK x \in F : x.id = f[1] /\ x.uid # f[2]
    BY <1>3 DEF ResolvesEntry
  <2>2. x \in n.issues
    BY DEF Takes
  <2> QED
    BY <1>1, <2>1, <2>2, IdentityIsShared
<1>4. CASE entries'[f] = entries[f]
  BY <1>1, <1>4 DEF ActiveEntry
<1> QED
  BY <1>2, <1>3, <1>4, EntryWays

LEMMA TakesTyped ==
  ASSUME HistoryInv, NEW n \in ReportRow, NEW F, Takes(n, F)
  PROVE  /\ n.start \in Nat /\ entries' \in Entries /\ accepted' = accepted \cup {n}
         /\ \A r \in accepted' : r \in ReportRow /\ r.start \in Nat
         /\ \A f \in Fingerprints : entries[f].known => entries[f].last \in Nat
<1>1. accepted' = accepted \cup {n} /\ accepted \subseteq ReportRow
  BY DEF Takes, HistoryInv, HistoryTypeOK
<1>2. \A r \in ReportRow : r.start \in Nat
  BY DEF ReportRow
<1>3. \A f \in Fingerprints : entries[f].known => entries[f].last \in Nat
  BY EntryKinds DEF HistoryInv, HistoryTypeOK
<1> QED
  BY <1>1, <1>2, <1>3, EntriesTyped

LEMMA IdentityWas ==
  ASSUME NEW n, NEW F, Takes(n, F), NEW o, OneIdentity(o)'
  PROVE  OneIdentity(o)
  BY DEF Takes, OneIdentity

\* What is accounted for since the report or later stays so.
LEMMA AccountedLater ==
  ASSUME HistoryInv, NEW n \in ReportRow, NEW F, Takes(n, F), NEW i \in FindingIds, OneIdentity(ObjectOf[i])',
         NEW t \in Nat, t >= n.start, Accounted(i, t)
  PROVE  Accounted(i, t)'
<1>1. CASE \E f \in Fingerprints : f[1] = i /\ ActiveEntry(f) /\ entries[f].last >= t
  <2>1. PICK f \in Fingerprints : f[1] = i /\ ActiveEntry(f) /\ entries[f].last >= t
    BY <1>1
  <2>2. entries[f].last \in Nat /\ n.start \in Nat
    BY <2>1, TakesTyped DEF ActiveEntry
  <2>3. ~(n.start > entries[f].last)
    BY <2>1, <2>2
  <2>4. ~CoversEntry(n, f)
    BY <2>3 DEF CoversEntry
  <2>5. ActiveEntry(f)' /\ entries'[f].last >= entries[f].last
    BY <2>1, <2>4, ActiveStays
  <2>6. entries'[f].last \in Nat
    BY <2>5, TakesTyped, EntryKinds DEF ActiveEntry, Entries
  <2>7. entries'[f].last >= t
    BY <2>1, <2>2, <2>5, <2>6
  <2> QED
    BY <2>1, <2>5, <2>7, AccountedByActive
<1>2. CASE \E m \in accepted : m.start >= t /\ Answers(m, i)
  <2>1. PICK m \in accepted : m.start >= t /\ Answers(m, i)
    BY <1>2
  <2>2. m \in accepted'
    BY TakesTyped
  <2> QED
    BY <2>1, <2>2, AccountedByAnswer
<1> QED
  BY <1>1, <1>2 DEF Accounted, Answers

\* What the report sees is accounted for, though the issue may be stale.
LEMMA SeenIsAccounted ==
  ASSUME HistoryInv, NEW n \in ReportRow, NEW F, Takes(n, F), NEW i \in FindingIds, OneIdentity(ObjectOf[i])', Sees(n, i)
  PROVE  Accounted(i, n.start)'
<1>1. PICK x \in n.issues : x.id = i
  BY DEF Sees
<1>2. n.start \in Nat /\ x \in ReportIssue /\ x.uid \in Uids /\ x.names # {} /\ x.names \subseteq AnalyzersOf[i]
  BY <1>1 DEF ReportRow, ReportIssue, Takes, IssuesHold
<1>3. PICK g \in Fingerprints : g = <<i, x.uid>> /\ g[1] = i /\ g[2] = x.uid
  <2>1. <<i, x.uid>> \in Fingerprints /\ <<i, x.uid>>[1] = i /\ <<i, x.uid>>[2] = x.uid
    BY <1>2, FingerprintIs
  <2> QED
    BY <2>1
<1>4. OneIdentity(ObjectOf[i])
  BY IdentityWas
<1>5. ASSUME NEW t \in Nat, t >= n.start, Accounted(i, t)
      PROVE  Accounted(i, n.start)'
  BY <1>2, <1>5, AccountedLater, AccountedEarlier, TakesTyped
<1>6. CASE x \in F
  <2>1. SeesEntry(n, g, x, entries'[g])
    BY <1>1, <1>3, <1>6, EntryWays
  <2>2. entries'[g] \in EntryRow /\ ~entries'[g].resolved /\ entries'[g].last = n.start
    BY <2>1 DEF SeesEntry
  <2>3. ActiveEntry(g)'
    BY <2>2 DEF ActiveEntry, EntryRow
  <2>4. entries'[g].last >= n.start
    BY <1>2, <2>2
  <2> QED
    BY <1>3, <2>3, <2>4, AccountedByActive
<1>7. ASSUME NEW f \in Fingerprints, ResolvesCovered(n)[f].known, ResolvesCovered(n)[f].last > n.start
      PROVE  entries[f].known /\ entries[f].last > n.start
  <2>1. /\ CoversEntry(n, f) => ResolvesCovered(n)[f] = Resolved(entries[f], n.start)
        /\ ~CoversEntry(n, f) => ResolvesCovered(n)[f] = entries[f]
    BY ResolvesCoveredIs DEF CoversEntry, HistoryInv, HistoryTypeOK, Entries
  <2>2. CoversEntry(n, f) => Resolved(entries[f], n.start).last = n.start
    <3>1. entries[f] \in EntryRow \cup {NoEntry}
      BY DEF HistoryInv, HistoryTypeOK
    <3>2. entries[f].known => entries[f] \in EntryRow
      BY <3>1, EntryKinds
    <3> QED
      BY <1>2, <3>2, ResolvedIs DEF CoversEntry
  <2>3. ~CoversEntry(n, f)
    BY <1>2, <1>7, <2>1, <2>2
  <2> QED
    BY <1>7, <2>1, <2>3
<1>8. CASE StaleIssue(n, x, ResolvesCovered(n))
  <2>1. CASE ResolvesCovered(n)[g].known /\ ResolvesCovered(n)[g].last > n.start
    <3>1. entries[g].known /\ entries[g].last > n.start /\ entries[g].last \in Nat
      BY <1>7, <2>1, TakesTyped
    <3>2. Accounted(i, entries[g].last) /\ entries[g].last >= n.start
      BY <1>2, <1>3, <1>4, <3>1 DEF HistoryInv, FindingsAccounted
    <3> QED
      BY <1>5, <3>1, <3>2
  <2>2. CASE \E f \in Fingerprints :
               /\ ResolvesCovered(n)[f].known /\ ResolvesCovered(n)[f].last > n.start
               /\ ObjectOf[f[1]] = ObjectOf[x.id] /\ f[2] # x.uid
    <3>1. PICK f \in Fingerprints : entries[f].known /\ ObjectOf[f[1]] = ObjectOf[x.id] /\ f[2] # x.uid
      BY <1>7, <2>2
    <3>2. f[2] = x.uid
      BY <1>1, <3>1, IdentityIsShared
    <3> QED
      BY <3>1, <3>2
  <2>3. CASE \E c \in coverage : c.start >= n.start /\ CoveredBy(c, x.id, x.names)
    <3>1. PICK c \in coverage : c.start >= n.start /\ CoveredBy(c, x.id, x.names)
      BY <2>3
    <3>2. PICK m \in accepted : c = Coverage(m)
      BY DEF HistoryInv, CoverageHolds
    <3>3. m \in ReportRow /\ m.start \in Nat /\ m \in accepted' /\ m.start >= n.start
      BY <3>1, <3>2, TakesTyped, CoverageIs
    <3>4. CASE Sees(m, i)
      <4>1. Accounted(i, m.start)
        BY <1>4, <3>4 DEF HistoryInv, FindingsAccounted
      <4> QED
        BY <1>5, <3>3, <4>1
    <3>5. CASE ~Sees(m, i)
      <4>1. Answers(m, i)
        BY <1>1, <1>2, <3>1, <3>2, <3>3, <3>5, CoveredIsAnswered
      <4> QED
        BY <3>3, <4>1, AccountedByAnswer
    <3> QED
      BY <3>4, <3>5
  <2> QED
    BY <1>1, <1>3, <1>8, <2>1, <2>2, <2>3 DEF StaleIssue
<1> QED
  BY <1>1, <1>6, <1>8, FreshMeans

\* A report that covers an entry sees the finding or answers it.
LEMMA CoveredIsAccounted ==
  ASSUME HistoryInv, NEW n \in ReportRow, NEW F, Takes(n, F), NEW f \in Fingerprints, OneIdentity(ObjectOf[f[1]])',
         CoversEntry(n, f)
  PROVE  Accounted(f[1], n.start)'
<1>1. f[1] \in FindingIds
  BY FingerprintIs
<1>2. CASE Sees(n, f[1])
  BY <1>1, <1>2, SeenIsAccounted
<1>3. CASE ~Sees(n, f[1])
  <2>1. entries[f].names \subseteq AnalyzersOf[f[1]] /\ CoveredBy(Coverage(n), f[1], entries[f].names)
    BY DEF CoversEntry, HistoryInv, EntriesHold
  <2>2. Answers(n, f[1])
    BY <1>3, <2>1, CoveredIsAnswered
  <2>3. n \in accepted' /\ n.start >= n.start
    BY TakesTyped
  <2> QED
    BY <2>2, <2>3, AccountedByAnswer
<1> QED
  BY <1>2, <1>3

LEMMA AccountedStays ==
  ASSUME HistoryInv, NEW n \in ReportRow, NEW F, Takes(n, F), NEW i \in FindingIds, OneIdentity(ObjectOf[i])',
         NEW t \in Nat, Accounted(i, t)
  PROVE  Accounted(i, t)'
<1>1. CASE \E f \in Fingerprints : f[1] = i /\ ActiveEntry(f) /\ entries[f].last >= t
  <2>1. PICK f \in Fingerprints : f[1] = i /\ ActiveEntry(f) /\ entries[f].last >= t
    BY <1>1
  <2>2. entries[f].last \in Nat /\ n.start \in Nat
    BY <2>1, TakesTyped DEF ActiveEntry
  <2>3. CASE ~CoversEntry(n, f)
    <3>1. ActiveEntry(f)' /\ entries'[f].last >= entries[f].last
      BY <2>1, <2>3, ActiveStays
    <3>2. entries'[f].last \in Nat
      BY <3>1, TakesTyped, EntryKinds DEF ActiveEntry, Entries
    <3>3. entries'[f].last >= t
      BY <2>1, <2>2, <3>1, <3>2
    <3> QED
      BY <2>1, <3>1, <3>3, AccountedByActive
  <2>4. CASE CoversEntry(n, f)
    <3>1. Accounted(i, n.start)'
      BY <2>1, <2>4, CoveredIsAccounted
    <3>2. n.start >= t
      BY <2>1, <2>2, <2>4 DEF CoversEntry
    <3> QED
      BY <2>2, <3>1, <3>2, AccountedEarlier, TakesTyped
  <2> QED
    BY <2>3, <2>4
<1>2. CASE \E m \in accepted : m.start >= t /\ Answers(m, i)
  <2>1. PICK m \in accepted : m.start >= t /\ Answers(m, i)
    BY <1>2
  <2>2. m \in accepted'
    BY TakesTyped
  <2> QED
    BY <2>1, <2>2, AccountedByAnswer
<1> QED
  BY <1>1, <1>2 DEF Accounted, Answers

LEMMA FindingsStep ==
  ASSUME HistoryInv, NEW n \in ReportRow, NEW F, Takes(n, F)
  PROVE  FindingsAccounted'
<1>1. ASSUME NEW i \in FindingIds, NEW r \in accepted', Sees(r, i), OneIdentity(ObjectOf[i])'
      PROVE  Accounted(i, r.start)'
  <2>1. CASE r = n
    BY <1>1, <2>1, SeenIsAccounted
  <2>2. CASE r \in accepted
    <3>1. Accounted(i, r.start) /\ r.start \in Nat
      BY <1>1, <2>2, IdentityWas, TakesTyped DEF HistoryInv, FindingsAccounted
    <3> QED
      BY <1>1, <3>1, AccountedStays
  <2> QED
    BY <2>1, <2>2, TakesTyped
<1>2. ASSUME NEW f \in Fingerprints, entries'[f].known, OneIdentity(ObjectOf[f[1]])', NEW t, t = entries'[f].last
      PROVE  Accounted(f[1], t)'
  <2>0. f[1] \in FindingIds /\ n.start \in Nat
    BY FingerprintIs, TakesTyped
  <2>1. ASSUME NEW x \in F, SeesEntry(n, f, x, entries'[f])
        PROVE  Accounted(f[1], t)'
    <3>1. entries'[f].last = n.start /\ Sees(n, f[1])
      BY <2>1 DEF SeesEntry, Sees, Takes
    <3>2. Accounted(f[1], n.start)'
      BY <1>2, <2>0, <3>1, SeenIsAccounted
    <3> QED
      BY <1>2, <3>1, <3>2
  <2>2. CASE ResolvesEntry(n, F, f, entries'[f])
    <3>1. entries'[f].last = n.start /\ entries[f].known
      BY <2>2 DEF ResolvesEntry
    <3>2. ASSUME NEW x \in F, x.id = f[1], x.uid # f[2]
          PROVE  FALSE
      BY <1>2, <3>1, <3>2, IdentityIsShared DEF Takes
    <3>3. CoversEntry(n, f)
      BY <2>2, <3>2 DEF ResolvesEntry
    <3>4. Accounted(f[1], n.start)'
      BY <1>2, <3>3, CoveredIsAccounted
    <3> QED
      BY <1>2, <3>1, <3>4
  <2>3. CASE entries'[f] = entries[f]
    <3>1. t \in Nat /\ Accounted(f[1], t)
      BY <1>2, <2>3, IdentityWas, TakesTyped DEF HistoryInv, FindingsAccounted
    <3> QED
      BY <1>2, <2>0, <3>1, AccountedStays
  <2> QED
    BY <2>1, <2>2, <2>3, EntryWays
<1>3. \A f \in Fingerprints : entries'[f].known /\ OneIdentity(ObjectOf[f[1]])' =>
        \A t : t = entries'[f].last => Accounted(f[1], t)'
  BY <1>2
<1>4. \A i \in FindingIds, r \in accepted' : Sees(r, i) /\ OneIdentity(ObjectOf[i])' => Accounted(i, r.start)'
  BY <1>1
<1> QED
  BY <1>3, <1>4 DEF FindingsAccounted, Accounted

-----------------------------------------------------------------------------
(* The steps. *)

RecordHolds == (\A r \in accepted : IssuesHold(r.issues)) /\ CoverageHolds /\ EntriesHold /\ FindingsAccounted

LEMMA RecordKept ==
  ASSUME HistoryInv, UNCHANGED <<entries, coverage, accepted>>
  PROVE  RecordHolds'
<1>1. CoverageHolds' /\ EntriesHold'
  BY DEF HistoryInv, CoverageHolds, EntriesHold
<1>2. FindingsAccounted'
  BY DEF HistoryInv, FindingsAccounted, Accounted, OneIdentity, ActiveEntry
<1>3. \A r \in accepted' : IssuesHold(r.issues)
  BY DEF HistoryInv
<1> QED
  BY <1>1, <1>2, <1>3 DEF RecordHolds

LEMMA RoundKinds ==
  ASSUME HistoryInv, NEW s \in Scanners
  PROVE  /\ scans[s] # NoRound => scans[s] \in Round
         /\ scans[s].pc \in {"typed", "dynamic"} => scans[s] \in Round
         /\ scans[s] \in Round => scans[s] # NoRound /\ scans[s].start \in Nat
<1>1. scans[s] \in Round \cup {NoRound} /\ NoRound.pc = "idle"
  BY DEF HistoryInv, HistoryTypeOK, NoRound
<1>2. \A q \in Round : q.pc \in {"typed", "dynamic"} /\ q.start \in Nat
  BY DEF Round
<1> QED
  BY <1>1, <1>2

\* A scan goes on: its start stays, and it names analyzers that report what they see.
LEMMA RoundStep ==
  ASSUME HistoryInv, NEW s \in Scanners, scans[s] \in Round, NEW q \in Round, q.start = scans[s].start,
         \A x \in q.seen : x.analyzer \in AnalyzersOf[x.id],
         scans' = [scans EXCEPT ![s] = q], UNCHANGED <<entries, coverage, accepted, scanCount>>
  PROVE  HistoryInv'
<1>1. scans'[s] = q /\ q # NoRound /\ \A t \in Scanners : t # s => scans'[t] = scans[t]
  BY DEF HistoryInv, HistoryTypeOK, Round, NoRound
<1>2. scans[s] # NoRound
  BY RoundKinds
<1>3. HistoryTypeOK'
  BY DEF HistoryInv, HistoryTypeOK
<1>4. SeenHold'
  BY <1>1 DEF HistoryInv, SeenHold
<1>5. StartsApart'
  <2>1. \A t \in Scanners : scans'[t] # NoRound => scans[t] # NoRound /\ scans'[t].start = scans[t].start
    BY <1>1, <1>2
  <2> QED
    BY <2>1 DEF HistoryInv, StartsApart
<1> QED
  BY <1>3, <1>4, <1>5, RecordKept DEF HistoryInv, RecordHolds

\* Scans that end without a report: the others go on.
LEMMA RoundsEnd ==
  ASSUME HistoryInv, scans' \in [Scanners -> Round \cup {NoRound}],
         \A t \in Scanners : scans'[t] = scans[t] \/ scans'[t] = NoRound,
         UNCHANGED <<entries, coverage, accepted, scanCount>>
  PROVE  HistoryInv'
<1>1. HistoryTypeOK' /\ SeenHold'
  BY DEF HistoryInv, HistoryTypeOK, SeenHold
<1>2. StartsApart'
  BY DEF HistoryInv, StartsApart
<1> QED
  BY <1>1, <1>2, RecordKept DEF HistoryInv, RecordHolds

LEMMA FindableIs ==
  ASSUME NEW s \in Scanners, NEW a \in ScanAnalyzers, NEW uids \in SUBSET Uids, NEW x \in Findable(s, a, uids)
  PROVE  x \in FindingRow /\ x.analyzer \in AnalyzersOf[x.id]
  BY DEF Findable, Issue, FindingRow

LEMMA ScanStartsKeeps ==
  ASSUME HistoryInv, NEW s \in Scanners, NEW scope \in Scopes, ScanStarts(s, scope)
  PROVE  HistoryInv'
<1> DEFINE q == [pc |-> "typed", start |-> scanCount + 1, scope |-> scope, expired |-> FALSE,
                 todo |-> {}, ok |-> {}, failed |-> {}, seen |-> {}]
<1>1. scanCount \in Nat /\ scanCount' = scanCount + 1 /\ scans' = [scans EXCEPT ![s] = q]
        /\ UNCHANGED <<entries, coverage, accepted>>
  BY DEF ScanStarts, HistoryInv, HistoryTypeOK
<1>2. q \in Round /\ q.start = scanCount + 1 /\ q.seen = {} /\ q # NoRound
  BY <1>1 DEF Round, NoRound
<1> HIDE DEF q
<1>3. scans'[s] = q /\ \A t \in Scanners : t # s => scans'[t] = scans[t]
  BY <1>1 DEF HistoryInv, HistoryTypeOK
<1>4. HistoryTypeOK'
  BY <1>1, <1>2 DEF HistoryInv, HistoryTypeOK
<1>5. SeenHold'
  BY <1>2, <1>3 DEF HistoryInv, SeenHold
<1>6. StartsApart'
  <2>1. /\ \A r \in accepted : r.start \in Nat /\ r.start <= scanCount
        /\ \A t \in Scanners : scans[t] # NoRound => scans[t].start \in Nat /\ scans[t].start <= scanCount
    BY RoundKinds DEF HistoryInv, HistoryTypeOK, StartsApart, ReportRow
  <2>2. \A t \in Scanners : scans'[t] # NoRound => scans'[t].start \in Nat /\ scans'[t].start <= scanCount'
    BY <1>1, <1>2, <1>3, <2>1
  <2>3. \A r \in accepted : r.start <= scanCount' /\ r.start # scanCount + 1
    BY <1>1, <2>1
  <2>4. \A t \in Scanners : t # s /\ scans[t] # NoRound => scans[t].start # scanCount + 1
    BY <1>1, <2>1
  <2> QED
    BY <1>1, <1>2, <1>3, <2>2, <2>3, <2>4 DEF HistoryInv, StartsApart
<1> QED
  BY <1>1, <1>4, <1>5, <1>6, RecordKept DEF HistoryInv, RecordHolds

LEMMA AnalyzersEndKeeps ==
  ASSUME HistoryInv, NEW s \in Scanners, AnalyzersEnd(s)
  PROVE  HistoryInv'
<1>1. scans[s] \in Round
  BY RoundKinds DEF AnalyzersEnd
<1>0. PICK ok \in SUBSET Typed, expired \in BOOLEAN, learned \in BOOLEAN :
        \E seen \in SUBSET UNION {Findable(s, a, Uids) : a \in Typed} :
          /\ expired => ok = {}
          /\ \A x \in seen : x.uid = Identity(x.id, learned)
          /\ scans' = [scans EXCEPT ![s].pc = "dynamic", ![s].ok = ok, ![s].failed = Typed \ ok,
                                    ![s].expired = expired, ![s].seen = seen,
                                    ![s].todo = IF families THEN Dynamic ELSE {}]
  BY Zenon DEF AnalyzersEnd
<1>2. PICK seen \in SUBSET UNION {Findable(s, a, Uids) : a \in Typed} :
        scans' = [scans EXCEPT ![s].pc = "dynamic", ![s].ok = ok, ![s].failed = Typed \ ok,
                               ![s].expired = expired, ![s].seen = seen,
                               ![s].todo = IF families THEN Dynamic ELSE {}]
  BY Zenon, <1>0
<1> DEFINE q == [scans[s] EXCEPT !.pc = "dynamic", !.ok = ok, !.failed = Typed \ ok, !.expired = expired,
                                 !.seen = seen, !.todo = IF families THEN Dynamic ELSE {}]
<1>3. scans' = [scans EXCEPT ![s] = q]
  BY <1>2
<1>4. seen \subseteq FindingRow /\ \A x \in seen : x.analyzer \in AnalyzersOf[x.id]
  <2>1. \A a \in Typed : a \in ScanAnalyzers
    BY DEF ScanAnalyzers
  <2> QED
    BY <2>1, FindableIs
<1>5. /\ (IF families THEN Dynamic ELSE {}) \in SUBSET Dynamic
      /\ ok \in SUBSET ScanAnalyzers /\ Typed \ ok \in SUBSET ScanAnalyzers
  BY DEF ScanAnalyzers
<1>6. q \in Round /\ q.start = scans[s].start /\ q.seen = seen
  BY <1>1, <1>4, <1>5 DEF Round
<1> HIDE DEF q
<1>7. UNCHANGED <<entries, coverage, accepted, scanCount>>
  BY DEF AnalyzersEnd
<1> QED
  BY <1>1, <1>3, <1>4, <1>6, <1>7, RoundStep

LEMMA DynamicRunsKeeps ==
  ASSUME HistoryInv, NEW s \in Scanners, NEW a \in Dynamic, DynamicRuns(s, a)
  PROVE  HistoryInv'
<1>1. scans[s] \in Round
  BY RoundKinds DEF DynamicRuns
<1>2. PICK o \in DynamicOutcomes(s, a) :
        scans' = [scans EXCEPT ![s].todo = @ \ {a}, ![s].seen = @ \cup o.seen, ![s].expired = o.expired,
                               ![s].ok = IF o.ok THEN @ \cup {a} ELSE @,
                               ![s].failed = IF o.ok THEN @ ELSE @ \cup {a}]
  BY DEF DynamicRuns
<1> DEFINE q == [scans[s] EXCEPT !.todo = @ \ {a}, !.seen = @ \cup o.seen, !.expired = o.expired,
                                 !.ok = IF o.ok THEN @ \cup {a} ELSE @,
                                 !.failed = IF o.ok THEN @ ELSE @ \cup {a}]
<1>3. scans' = [scans EXCEPT ![s] = q]
  BY <1>2
<1>4. o.expired \in BOOLEAN /\ o.seen \subseteq FindingRow /\ \A x \in o.seen : x.analyzer \in AnalyzersOf[x.id]
  <2>1. o.expired \in BOOLEAN /\ o.seen \subseteq Findable(s, a, 1..MaxUid)
    BY DEF DynamicOutcomes
  <2>2. a \in ScanAnalyzers /\ 1..MaxUid \in SUBSET Uids
    BY DEF ScanAnalyzers, Uids
  <2> QED
    BY <2>1, <2>2, FindableIs
<1>5. /\ scans[s].seen \cup o.seen \in SUBSET FindingRow /\ scans[s].todo \ {a} \in SUBSET Dynamic
      /\ (IF o.ok THEN scans[s].ok \cup {a} ELSE scans[s].ok) \in SUBSET ScanAnalyzers
      /\ (IF o.ok THEN scans[s].failed ELSE scans[s].failed \cup {a}) \in SUBSET ScanAnalyzers
  BY <1>1, <1>4 DEF Round, ScanAnalyzers
<1>6. q \in Round /\ q.start = scans[s].start /\ q.seen = scans[s].seen \cup o.seen
  BY <1>1, <1>4, <1>5 DEF Round
<1>7. \A x \in q.seen : x.analyzer \in AnalyzersOf[x.id]
  BY <1>1, <1>4, <1>6, RoundKinds DEF HistoryInv, SeenHold
<1> HIDE DEF q
<1>8. UNCHANGED <<entries, coverage, accepted, scanCount>>
  BY DEF DynamicRuns
<1> QED
  BY <1>1, <1>3, <1>6, <1>7, <1>8, RoundStep

\* A report that is taken.
LEMMA TakesKeeps ==
  ASSUME HistoryInv, NEW s \in Scanners, scans[s] \in Round, NEW n \in ReportRow, n.start = scans[s].start, NEW F, Takes(n, F),
         scans' = [scans EXCEPT ![s] = NoRound], scanCount' = scanCount
  PROVE  HistoryInv'
<1>1. scans'[s] = NoRound /\ \A t \in Scanners : t # s => scans'[t] = scans[t]
  BY DEF HistoryInv, HistoryTypeOK
<1>2. accepted' = accepted \cup {n} /\ IssuesHold(n.issues) /\ \A r \in accepted : r.start # n.start
  BY DEF Takes
<1>3. HistoryTypeOK'
  <2>1. entries' \in Entries
    BY EntriesTyped
  <2>2. scanCount' \in Nat /\ accepted' \subseteq ReportRow /\ scans' \in [Scanners -> Round \cup {NoRound}]
    BY <1>2 DEF HistoryInv, HistoryTypeOK
  <2> QED
    BY <2>1, <2>2 DEF HistoryTypeOK, Entries
<1>4. \A r \in accepted' : IssuesHold(r.issues)
  BY <1>2 DEF HistoryInv
<1>5. SeenHold'
  BY <1>1 DEF HistoryInv, SeenHold
<1>6. StartsApart'
  <2>1. scans[s] # NoRound /\ n.start <= scanCount
    BY RoundKinds DEF HistoryInv, StartsApart
  <2>2. \A t \in Scanners : scans'[t] # NoRound => t # s /\ scans'[t] = scans[t] /\ n.start # scans[t].start
    BY <1>1, <2>1 DEF HistoryInv, StartsApart
  <2> QED
    BY <1>2, <2>1, <2>2 DEF HistoryInv, StartsApart
<1> QED
  BY <1>3, <1>4, <1>5, <1>6, CoverageStep, EntriesStep, FindingsStep DEF HistoryInv

LEMMA ScanRecordsKeeps ==
  ASSUME HistoryInv, NEW s \in Scanners, ScanRecords(s)
  PROVE  HistoryInv'
<1>1. scans[s] \in Round
  BY RoundKinds DEF ScanRecords
<1>2. scans' = [scans EXCEPT ![s] = NoRound] /\ scanCount' = scanCount
  BY DEF ScanRecords
<1>3. PICK n \in ReportRow : n = Report(s) /\ IssuesHold(n.issues) /\ n.start = scans[s].start
  BY <1>1, ReportTyped
<1>4. \A r \in accepted : r.start # n.start
  BY <1>1, <1>3, RoundKinds DEF HistoryInv, StartsApart
<1>5. CASE UNCHANGED <<entries, coverage, accepted>>
  <2>1. scans' \in [Scanners -> Round \cup {NoRound}] /\ \A t \in Scanners : scans'[t] = scans[t] \/ scans'[t] = NoRound
    BY <1>2 DEF HistoryInv, HistoryTypeOK
  <2> QED
    BY <1>2, <1>5, <2>1, RoundsEnd
<1>6. CASE /\ TakesReport(n)
           /\ \E F \in SUBSET n.issues : FreshInTurn(n, F) /\ entries' = ReconcileReport(n, F)
           /\ coverage' = {c \in coverage : ~SameKey(c, Coverage(n))} \cup {Coverage(n)}
           /\ accepted' = accepted \cup {n}
  <2>1. PICK F : Takes(n, F)
    BY <1>3, <1>4, <1>6 DEF Takes
  <2> QED
    BY <1>1, <1>2, <1>3, <2>1, TakesKeeps
<1> QED
  BY <1>3, <1>5, <1>6 DEF ScanRecords

LEMMA PruneKeeps ==
  ASSUME HistoryInv, PruneHistory
  PROVE  HistoryInv'
<1>1. PICK f \in Fingerprints : entries[f].known /\ entries[f].resolved /\ entries' = [entries EXCEPT ![f] = NoEntry]
  BY DEF PruneHistory
<1>2. UNCHANGED <<scans, coverage, accepted, scanCount>>
  BY DEF PruneHistory
<1>3. ~entries'[f].known /\ \A g \in Fingerprints : g # f => entries'[g] = entries[g]
  BY <1>1 DEF HistoryInv, HistoryTypeOK, NoEntry
<1>4. HistoryTypeOK' /\ SeenHold' /\ StartsApart' /\ CoverageHolds' /\ (\A r \in accepted' : IssuesHold(r.issues))
  BY <1>1, <1>2 DEF HistoryInv, HistoryTypeOK, SeenHold, StartsApart, CoverageHolds
<1>5. EntriesHold'
  BY <1>2, <1>3 DEF HistoryInv, EntriesHold
<1>6. FindingsAccounted'
  <2>1. ASSUME NEW i, NEW t, Accounted(i, t)
        PROVE  Accounted(i, t)'
    <3>1. \A g \in Fingerprints : ActiveEntry(g) => ActiveEntry(g)' /\ entries'[g] = entries[g]
      BY <1>1, <1>3 DEF ActiveEntry
    <3> QED
      BY <1>2, <2>1, <3>1 DEF Accounted
  <2>2. ASSUME NEW o, OneIdentity(o)'
        PROVE  OneIdentity(o)
    BY <1>2, <2>2 DEF OneIdentity
  <2>3. \A i \in FindingIds, r \in accepted' : Sees(r, i) /\ OneIdentity(ObjectOf[i])' => Accounted(i, r.start)'
    BY <1>2, <2>1, <2>2 DEF HistoryInv, FindingsAccounted
  <2>4. \A g \in Fingerprints : entries'[g].known /\ OneIdentity(ObjectOf[g[1]])' =>
          \A t : t = entries'[g].last => Accounted(g[1], t)'
    BY <1>3, <2>1, <2>2 DEF HistoryInv, FindingsAccounted
  <2> QED
    BY <2>3, <2>4 DEF FindingsAccounted, Accounted
<1> QED
  BY <1>4, <1>5, <1>6 DEF HistoryInv

\* Nothing of the history or of a scan changes.
LEMMA HistoryStutters ==
  ASSUME HistoryInv, UNCHANGED <<scans, entries, coverage, accepted, scanCount>>
  PROVE  HistoryInv'
<1>1. HistoryTypeOK' /\ SeenHold' /\ StartsApart'
  BY DEF HistoryInv, HistoryTypeOK, SeenHold, StartsApart
<1> QED
  BY <1>1, RecordKept DEF HistoryInv, RecordHolds

LEMMA HistoryStarts == ScanInit => HistoryInv
<1> SUFFICES ASSUME ScanInit
             PROVE  HistoryInv
  OBVIOUS
<1>1. \A f \in Fingerprints : entries[f] = NoEntry /\ ~entries[f].known
  BY DEF ScanInit, NoEntry
<1>2. HistoryTypeOK /\ SeenHold /\ StartsApart /\ CoverageHolds
  BY DEF ScanInit, HistoryTypeOK, SeenHold, StartsApart, CoverageHolds
<1>3. EntriesHold /\ FindingsAccounted
  BY <1>1 DEF ScanInit, EntriesHold, FindingsAccounted
<1> QED
  BY <1>2, <1>3 DEF HistoryInv, ScanInit

LEMMA HistoryStep ==
  ASSUME HistoryInv, [ScanNext]_scanVars
  PROVE  HistoryInv'
<1>1. CASE ObjectReplaced
  BY <1>1, HistoryStutters DEF ObjectReplaced
<1>2. ASSUME NEW s \in Scanners, NEW scope \in Scopes, ScanStarts(s, scope)
      PROVE  HistoryInv'
  BY <1>2, ScanStartsKeeps
<1>3. ASSUME NEW s \in Scanners, AnalyzersEnd(s)
      PROVE  HistoryInv'
  BY <1>3, AnalyzersEndKeeps
<1>4. ASSUME NEW s \in Scanners, NEW a \in Dynamic, DynamicRuns(s, a)
      PROVE  HistoryInv'
  BY <1>4, DynamicRunsKeeps
<1>5. ASSUME NEW s \in Scanners, ScanRecords(s)
      PROVE  HistoryInv'
  BY <1>5, ScanRecordsKeeps
<1>6. CASE PruneHistory
  BY <1>6, PruneKeeps
<1>7. CASE ToggleFamily
  BY <1>7, HistoryStutters DEF ToggleFamily
<1>8. CASE ScannerRestarts
  BY <1>8, RoundsEnd DEF ScannerRestarts
<1>9. CASE UNCHANGED scanVars
  BY <1>9, HistoryStutters DEF scanVars
<1> QED
  BY <1>1, <1>2, <1>3, <1>4, <1>5, <1>6, <1>7, <1>8, <1>9 DEF ScanNext

LEMMA HistoryInvariant == ScanSpec => []HistoryInv
<1>1. HistoryInv /\ [ScanNext]_scanVars => HistoryInv'
  BY HistoryStep
<1> QED
  BY <1>1, HistoryStarts, PTL DEF ScanSpec

LEMMA ActiveIs ==
  ASSUME NEW i \in FindingIds
  PROVE  Active(i) <=> \E f \in Fingerprints : f[1] = i /\ ActiveEntry(f)
<1>1. ASSUME NEW f \in Fingerprints, f[1] = i, ActiveEntry(f)
      PROVE  Active(i)
  <2>1. f[2] \in Uids /\ f = <<i, f[2]>>
    BY <1>1, FingerprintIs
  <2> QED
    BY <1>1, <2>1 DEF Active, ActiveEntry
<1>2. ASSUME NEW u \in Uids, entries[<<i, u>>].known, ~entries[<<i, u>>].resolved
      PROVE  \E f \in Fingerprints : f[1] = i /\ ActiveEntry(f)
  <2>1. PICK f \in Fingerprints : f = <<i, u>> /\ f[1] = i
    BY FingerprintIs
  <2> QED
    BY <1>2, <2>1 DEF ActiveEntry
<1> QED
  BY <1>1, <1>2 DEF Active

\* A finding that a report saw and no newer one answers is active, whatever order the reports of
\* overlapping scans arrive in (reconcileReport).
THEOREM HistoryKeepsSeen == ScanSpec => []SeenStaysActive
<1>1. HistoryInv => SeenStaysActive
  <2> SUFFICES ASSUME HistoryInv, NEW i \in FindingIds, NEW r \in accepted, Sees(r, i), OneIdentity(ObjectOf[i]),
                      ~\E n \in accepted : n.start > r.start /\ Answers(n, i)
               PROVE  Active(i)
    BY DEF SeenStaysActive, Answers
  <2>1. Accounted(i, r.start)
    BY DEF HistoryInv, FindingsAccounted
  <2>2. ASSUME NEW n \in accepted, n.start >= r.start, Answers(n, i)
        PROVE  FALSE
    <3>1. n.start \in Nat /\ r.start \in Nat
      BY DEF HistoryInv, HistoryTypeOK, ReportRow
    <3>2. n.start = r.start
      BY <2>2, <3>1
    <3>3. n = r
      BY <3>2 DEF HistoryInv, StartsApart
    <3> QED
      BY <2>2, <3>3 DEF Answers
  <2>3. \E f \in Fingerprints : f[1] = i /\ ActiveEntry(f)
    BY <2>1, <2>2 DEF Accounted, Answers
  <2> QED
    BY <2>3, ActiveIs
<1> QED
  BY <1>1, HistoryInvariant, PTL

\* A report that arrives late brings nothing back that a newer one looked for and did not find,
\* whatever was pruned (reconcileReport, pruneHistory).
THEOREM HistoryKeepsRemoved == ScanSpec => []RemovedStaysRemoved
<1>1. HistoryInv => RemovedStaysRemoved
  <2> SUFFICES ASSUME HistoryInv, NEW i \in FindingIds, NEW r \in accepted, ~Sees(r, i), Looked(r, i, AnalyzersOf[i]),
                      ~\E n \in accepted : n.start > r.start /\ Sees(n, i), Active(i)
               PROVE  FALSE
    BY DEF RemovedStaysRemoved
  <2>1. PICK f \in Fingerprints : f[1] = i /\ ActiveEntry(f)
    BY ActiveIs
  <2>2. /\ entries[f].names # {} /\ entries[f].names \subseteq AnalyzersOf[i]
        /\ \E n \in accepted : n.start = entries[f].last /\ Sees(n, i)
        /\ r.start > entries[f].last => ~CoveredBy(Coverage(r), i, entries[f].names)
    BY <2>1 DEF HistoryInv, EntriesHold, ActiveEntry
  <2>3. PICK n \in accepted : n.start = entries[f].last /\ Sees(n, i)
    BY <2>2
  <2>4. n.start \in Nat /\ r.start \in Nat /\ r \in ReportRow
    BY DEF HistoryInv, HistoryTypeOK, ReportRow
  <2>5. n.start # r.start
    BY <2>3 DEF HistoryInv, StartsApart
  <2>6. r.start > n.start
    BY <2>3, <2>4, <2>5
  <2>7. CoveredBy(Coverage(r), i, entries[f].names)
    BY <2>2, <2>4, CoverageIs DEF Looked, CoveredBy
  <2> QED
    BY <2>2, <2>3, <2>6, <2>7
<1> QED
  BY <1>1, HistoryInvariant, PTL

-----------------------------------------------------------------------------
(* Analyzers. *)

\* What a run that could read everything reports is in this one, or this one failed.
Observes(t, s) == t.issues \subseteq s.issues \/ s.err

LEMMA ReadingObserves ==
  ASSUME NEW reads, NEW f, NEW t, NEW s, Observes(t, s)
  PROVE  Observes(Reading(reads, {}, t), Reading(reads, f, s))
  BY DEF Observes, Reading, Unread

\* Most analyzers read all they need before they look.
LEMMA FindingObserves ==
  ASSUME NEW reads, NEW f, NEW issues
  PROVE  Observes(Reading(reads, {}, Finding(issues)), Reading(reads, f, Finding(issues)))
<1>1. Observes(Finding(issues), Finding(issues))
  BY DEF Observes, Finding
<1>2. QED
  BY <1>1, ReadingObserves

LEMMA ListsObserve ==
  ASSUME NEW x, NEW f
  PROVE  /\ Observes(ScanNodes(x, {}), ScanNodes(x, f))
         /\ Observes(ScanPVCs(x, {}), ScanPVCs(x, f))
         /\ Observes(ScanWarningEvents(x, {}), ScanWarningEvents(x, f))
         /\ Observes(ScanReplicas(x, {}), ScanReplicas(x, f))
         /\ Observes(ScanJobs(x, {}), ScanJobs(x, f))
         /\ Observes(ScanCronJobs(x, {}), ScanCronJobs(x, f))
         /\ Observes(ScanCronSemantics(x, {}), ScanCronSemantics(x, f))
         /\ Observes(ScanWorkloadDrift(x, {}), ScanWorkloadDrift(x, f))
         /\ Observes(ScanIngresses(x, {}), ScanIngresses(x, f))
         /\ Observes(ScanIngressSemantics(x, {}), ScanIngressSemantics(x, f))
         /\ Observes(ScanPDBs(x, {}), ScanPDBs(x, f))
         /\ Observes(ScanHPAs(x, {}), ScanHPAs(x, f))
         /\ Observes(ScanHPASemantics(x, {}), ScanHPASemantics(x, f))
         /\ Observes(ScanConfigMaps(x, {}), ScanConfigMaps(x, f))
         /\ Observes(ScanStorage(x, {}), ScanStorage(x, f))
         /\ Observes(ScanPodVulnerabilities(x, {}), ScanPodVulnerabilities(x, f))
         /\ Observes(ScanAppUpgrades(x, {}), ScanAppUpgrades(x, f))
         /\ Observes(ScanFalcoEvents(x, {}), ScanFalcoEvents(x, f))
<1>1. Observes(ScanNodes(x, {}), ScanNodes(x, f))
  BY FindingObserves DEF ScanNodes
<1>2. Observes(ScanPVCs(x, {}), ScanPVCs(x, f))
  BY FindingObserves DEF ScanPVCs
<1>3. Observes(ScanWarningEvents(x, {}), ScanWarningEvents(x, f))
  BY FindingObserves DEF ScanWarningEvents
<1>4. Observes(ScanReplicas(x, {}), ScanReplicas(x, f))
  BY FindingObserves DEF ScanReplicas
<1>5. Observes(ScanJobs(x, {}), ScanJobs(x, f))
  BY FindingObserves DEF ScanJobs
<1>6. Observes(ScanCronJobs(x, {}), ScanCronJobs(x, f))
  BY FindingObserves DEF ScanCronJobs
<1>7. Observes(ScanCronSemantics(x, {}), ScanCronSemantics(x, f))
  BY FindingObserves DEF ScanCronSemantics
<1>8. Observes(ScanWorkloadDrift(x, {}), ScanWorkloadDrift(x, f))
  BY FindingObserves DEF ScanWorkloadDrift
<1>9. Observes(ScanIngresses(x, {}), ScanIngresses(x, f))
  BY FindingObserves DEF ScanIngresses
<1>10. Observes(ScanIngressSemantics(x, {}), ScanIngressSemantics(x, f))
  BY FindingObserves DEF ScanIngressSemantics
<1>11. Observes(ScanPDBs(x, {}), ScanPDBs(x, f))
  BY FindingObserves DEF ScanPDBs
<1>12. Observes(ScanHPAs(x, {}), ScanHPAs(x, f))
  BY FindingObserves DEF ScanHPAs
<1>13. Observes(ScanHPASemantics(x, {}), ScanHPASemantics(x, f))
  BY FindingObserves DEF ScanHPASemantics
<1>14. Observes(ScanConfigMaps(x, {}), ScanConfigMaps(x, f))
  BY FindingObserves DEF ScanConfigMaps
<1>15. Observes(ScanStorage(x, {}), ScanStorage(x, f))
  BY FindingObserves DEF ScanStorage
<1>16. Observes(ScanPodVulnerabilities(x, {}), ScanPodVulnerabilities(x, f))
  BY FindingObserves DEF ScanPodVulnerabilities
<1>17. Observes(ScanAppUpgrades(x, {}), ScanAppUpgrades(x, f))
  BY FindingObserves DEF ScanAppUpgrades
<1>18. Observes(ScanFalcoEvents(x, {}), ScanFalcoEvents(x, f))
  BY FindingObserves DEF ScanFalcoEvents
<1>19. QED
  BY <1>1, <1>2, <1>3, <1>4, <1>5, <1>6, <1>7, <1>8, <1>9, <1>10, <1>11, <1>12, <1>13, <1>14, <1>15, <1>16, <1>17, <1>18

LEMMA SelectorsObserve ==
  ASSUME NEW x, NEW f
  PROVE  /\ Observes(ScanNetworkPolicies(x, {}), ScanNetworkPolicies(x, f))
         /\ Observes(ScanPDBSemantics(x, {}), ScanPDBSemantics(x, f))
<1>1. \A issues : Observes(Reading({"pods"}, {}, Finding(issues)), Reading({"pods"}, f, Finding(issues)))
  BY FindingObserves
<1>2. \A issues : Observes(Finding(issues), Finding(issues))
  BY DEF Observes, Finding
<1>3. Observes(ScanNetworkPolicies(x, {}), ScanNetworkPolicies(x, f))
  BY <1>1, <1>2, ReadingObserves DEF ScanNetworkPolicies
<1>4. Observes(ScanPDBSemantics(x, {}), ScanPDBSemantics(x, f))
  BY <1>1, <1>2, ReadingObserves DEF ScanPDBSemantics
<1>5. QED
  BY <1>3, <1>4

LEMMA PodsObserve ==
  ASSUME NEW x, NEW f
  PROVE  Observes(ScanPods(x, {}), ScanPods(x, f))
<1> DEFINE looks(g) == IF x.phase = "Succeeded" THEN Finding({})
                       ELSE [issues |-> PodFindings(x), err |-> PodFindings(x) # {} /\ {"logs", "events"} \cap g # {}]
<1>1. looks({}).issues = looks(f).issues
  BY DEF Finding
<1>2. Observes(looks({}), looks(f))
  BY <1>1 DEF Observes
<1> HIDE DEF looks
<1>3. Observes(Reading({"pods"}, {}, looks({})), Reading({"pods"}, f, looks(f)))
  BY <1>2, ReadingObserves
<1>4. QED
  BY <1>3 DEF ScanPods, looks

LEMMA PodLogsObserve ==
  ASSUME NEW x \in LogFacts, NEW f
  PROVE  Observes(ScanPodLogs(x, {}), ScanPodLogs(x, f))
<1> DEFINE looks(g) == IF x.phase = "Succeeded" \/ x.restarts = 0 THEN Finding({})
                       ELSE [issues |-> x.errors \ g, err |-> {"previous", "current"} \cap g # {}]
<1>1. x.errors \subseteq {"previous", "current"}
  BY DEF LogFacts
<1>2. Observes(looks({}), looks(f))
  <2>1. CASE x.phase = "Succeeded" \/ x.restarts = 0
    BY <2>1 DEF Observes, Finding
  <2>2. CASE ~(x.phase = "Succeeded" \/ x.restarts = 0)
    <3>1. looks({}).issues = x.errors \ {} /\ looks(f).issues = x.errors \ f
          /\ looks(f).err = ({"previous", "current"} \cap f # {})
      BY <2>2
    <3>2. x.errors \ {} \subseteq x.errors \ f \/ {"previous", "current"} \cap f # {}
      BY <1>1
    <3>3. QED
      BY <3>1, <3>2 DEF Observes
  <2>3. QED
    BY <2>1, <2>2
<1> HIDE DEF looks
<1>3. Observes(Reading({"pods"}, {}, looks({})), Reading({"pods"}, f, looks(f)))
  BY <1>2, ReadingObserves
<1>4. QED
  BY <1>3 DEF ScanPodLogs, looks

\* The endpoints of a service are told as they are, or not at all.
LEMMA EndpointsObserve ==
  ASSUME NEW x, NEW f
  PROVE  ServiceReadyEndpoints(x, f).err \/ ServiceReadyEndpoints(x, f) = ServiceReadyEndpoints(x, {})
  BY DEF ServiceReadyEndpoints

LEMMA ServicesObserve ==
  ASSUME NEW x, NEW f
  PROVE  Observes(ScanServices(x, {}), ScanServices(x, f))
<1> DEFINE none(e) == When(~e.ready, "NoEndpoints")
           looks(g, e) ==
             IF x.external THEN Finding(When(~x.validName, "ExternalNameInvalid"))
             ELSE IF e.err THEN [issues |-> {"EndpointError"}, err |-> TRUE]
             ELSE IF ~e.complete /\ ~e.ready THEN [issues |-> {"EndpointIncomplete"}, err |-> TRUE]
             ELSE IF x.selector /\ "pods" \in g THEN [issues |-> none(e), err |-> TRUE]
             ELSE [issues |-> none(e) \cup When(ServicePortMismatch(x), "PortMismatch"), err |-> ~e.complete]
<1>1. PICK e, e0 : e = ServiceReadyEndpoints(x, f) /\ e0 = ServiceReadyEndpoints(x, {})
  OBVIOUS
<1>2. e.err \/ e = e0
  BY <1>1, EndpointsObserve
<1>3. Observes(looks({}, e0), looks(f, e))
  <2>1. CASE x.external
    BY <2>1 DEF Observes, Finding
  <2>2. CASE ~x.external /\ (e.err \/ (~e.complete /\ ~e.ready))
    BY <2>2 DEF Observes
  <2>3. CASE ~x.external /\ ~e.err /\ ~(~e.complete /\ ~e.ready)
    BY <2>3, <1>2 DEF Observes
  <2>4. QED
    BY <2>1, <2>2, <2>3
<1> HIDE DEF looks
<1>4. Observes(Reading({"services"}, {}, looks({}, e0)), Reading({"services"}, f, looks(f, e)))
  BY <1>3, ReadingObserves
<1>5. QED
  BY <1>1, <1>4 DEF ScanServices, looks

LEMMA WebhooksObserve ==
  ASSUME NEW x, NEW f
  PROVE  Observes(ScanWebhooks(x, {}), ScanWebhooks(x, f))
<1>1. \A reads, issues : Observes(Reading(reads, {}, Finding(issues)), Reading(reads, f, Finding(issues)))
  BY FindingObserves
<1>2. \A issues : Observes(Finding(issues), Finding(issues))
  BY DEF Observes, Finding
<1>3. Observes(WebhookIssues(x, {}), WebhookIssues(x, f))
  BY <1>1, <1>2 DEF WebhookIssues
<1>4. QED
  BY <1>3, ReadingObserves DEF ScanWebhooks

LEMMA SecurityObserves ==
  ASSUME NEW x, NEW f
  PROVE  Observes(ScanSecurity(x, {}), ScanSecurity(x, f))
<1> DEFINE bound(g) == IF x.binding = "none" THEN Finding({}) ELSE BindingIssues(x, g)
           looks(b) == IF b.err THEN Unread ELSE Finding(x.pod \cup b.issues)
<1>1. bound(f).err \/ (bound(f).issues = bound({}).issues /\ bound({}).err = FALSE)
  BY DEF BindingIssues, Reading, Finding, Unread
<1>2. PICK b, b0 : b = bound(f) /\ b0 = bound({})
  OBVIOUS
<1>3. Observes(looks(b0), looks(b))
  BY <1>1, <1>2 DEF Observes, Finding, Unread
<1>4. Observes(Reading({"pods", "rolebindings", "clusterrolebindings"}, {}, looks(b0)),
               Reading({"pods", "rolebindings", "clusterrolebindings"}, f, looks(b)))
  BY <1>3, ReadingObserves
<1>5. QED
  BY <1>2, <1>4 DEF ScanSecurity

\* Optional resources: a version that was not listed is an error.
LEMMA DynamicObserves ==
  ASSUME NEW served, NEW f, NEW found, NEW seen
  PROVE  \/ DynamicAnalyze(served, seen, f).err
         \/ found \subseteq seen => DynamicAnalyze(served, found, {}).issues \subseteq DynamicAnalyze(served, seen, f).issues
<1> DEFINE listed(g) == {v \in DOMAIN served : served[v] \in {"available", "truncated"} /\ v \notin g}
<1>1. SUFFICES ASSUME ~DynamicAnalyze(served, seen, f).err, found \subseteq seen
               PROVE  DynamicAnalyze(served, found, {}).issues \subseteq DynamicAnalyze(served, seen, f).issues
  OBVIOUS
<1>2. DOMAIN served \cap f = {}
  BY <1>1 DEF DynamicAnalyze
<1>3. listed({}) = listed(f)
  BY <1>2
<1>4. DynamicAnalyze(served, found, {}).issues = (IF listed({}) = {} THEN {} ELSE found)
      /\ DynamicAnalyze(served, seen, f).issues = (IF listed(f) = {} THEN {} ELSE seen)
  BY DEF DynamicAnalyze
<1>5. QED
  BY <1>1, <1>3, <1>4

LEMMA ResourcesObserve ==
  ASSUME NEW x, NEW f
  PROVE  /\ Observes(ScanGateways(x, {}), ScanGateways(x, f))
         /\ Observes(ScanReferenceGrants(x, {}), ScanReferenceGrants(x, f))
         /\ Observes(ScanResources(x, {}), ScanResources(x, f))
<1>1. ASSUME NEW found PROVE Observes(DynamicAnalyze(x.served, found, {}), DynamicAnalyze(x.served, found, f))
  BY DynamicObserves DEF Observes
<1>2. QED
  BY <1>1 DEF ScanGateways, ScanReferenceGrants, ScanResources

LEMMA RouteObserves ==
  ASSUME NEW x, NEW f
  PROVE  Observes(RouteIssues(x, {}), RouteIssues(x, f))
<1>1. Observes(ParentIssues(x, {}), ParentIssues(x, f))
  BY DEF ParentIssues, Observes, Reading, Finding, Unread
<1>2. Observes(BackendIssues(x, {}), BackendIssues(x, f))
  BY DEF BackendIssues, Observes, Reading, Finding, Unread
<1>3. QED
  BY <1>1, <1>2 DEF RouteIssues, Observes

LEMMA HTTPRoutesObserve ==
  ASSUME NEW x, NEW f
  PROVE  Observes(ScanHTTPRoutes(x, {}), ScanHTTPRoutes(x, f))
<1>1. PICK r, r0 : r = RouteIssues(x.object, f) /\ r0 = RouteIssues(x.object, {})
  OBVIOUS
<1>2. r0.issues \subseteq r.issues \/ r.err
  BY <1>1, RouteObserves DEF Observes
<1>3. PICK d, d0 : d = DynamicAnalyze(x.served, r.issues, f) /\ d0 = DynamicAnalyze(x.served, r0.issues, {})
  OBVIOUS
<1>4. d.err \/ (r0.issues \subseteq r.issues => d0.issues \subseteq d.issues)
  BY <1>3, DynamicObserves
<1>5. ScanHTTPRoutes(x, f).issues = d.issues /\ ScanHTTPRoutes(x, {}).issues = d0.issues
      /\ ScanHTTPRoutes(x, f).err = (d.err \/ r.err)
  BY <1>1, <1>3 DEF ScanHTTPRoutes, DynamicAnalyze
<1>6. QED
  BY <1>2, <1>4, <1>5 DEF Observes
LEMMA RunObserves ==
  ASSUME NEW name, NEW t, NEW s, name \in Silent \/ Observes(t, s),
         run' = [analyzer |-> name, issues |-> s.issues, err |-> s.err, truth |-> t.issues]
  PROVE  SilenceIsAnObservation'
  BY DEF SilenceIsAnObservation, Observes

LEMMA CoreAnalyzersObserve ==
  ASSUME CoreAnalyzers
  PROVE  SilenceIsAnObservation'
<1>1. CASE Analyzes("Pod", ScanPods, PodFacts, {"pods", "logs", "events"})
  <2>1. PICK x \in PodFacts, f \in SUBSET ({"pods", "logs", "events"}) :
          run' = [analyzer |-> "Pod", issues |-> ScanPods(x, f).issues, err |-> ScanPods(x, f).err,
                  truth |-> ScanPods(x, {}).issues]
    BY <1>1 DEF Analyzes
  <2>2. Observes(ScanPods(x, {}), ScanPods(x, f))
    BY PodsObserve
  <2>3. PICK s, t : s = ScanPods(x, f) /\ t = ScanPods(x, {})
    OBVIOUS
  <2>4. QED
    BY <2>1, <2>2, <2>3, RunObserves
<1>2. CASE Analyzes("Node", ScanNodes, NodeFacts, {"nodes"})
  <2>1. PICK x \in NodeFacts, f \in SUBSET ({"nodes"}) :
          run' = [analyzer |-> "Node", issues |-> ScanNodes(x, f).issues, err |-> ScanNodes(x, f).err,
                  truth |-> ScanNodes(x, {}).issues]
    BY <1>2 DEF Analyzes
  <2>2. Observes(ScanNodes(x, {}), ScanNodes(x, f))
    BY ListsObserve
  <2>3. PICK s, t : s = ScanNodes(x, f) /\ t = ScanNodes(x, {})
    OBVIOUS
  <2>4. QED
    BY <2>1, <2>2, <2>3, RunObserves
<1>3. CASE Analyzes("PVC", ScanPVCs, {"Bound", "Pending", "Lost"}, {"pvcs"})
  <2>1. PICK x \in {"Bound", "Pending", "Lost"}, f \in SUBSET ({"pvcs"}) :
          run' = [analyzer |-> "PVC", issues |-> ScanPVCs(x, f).issues, err |-> ScanPVCs(x, f).err,
                  truth |-> ScanPVCs(x, {}).issues]
    BY <1>3 DEF Analyzes
  <2>2. Observes(ScanPVCs(x, {}), ScanPVCs(x, f))
    BY ListsObserve
  <2>3. PICK s, t : s = ScanPVCs(x, f) /\ t = ScanPVCs(x, {})
    OBVIOUS
  <2>4. QED
    BY <2>1, <2>2, <2>3, RunObserves
<1>4. CASE Analyzes("Service", ScanServices, ServiceFacts, {"services", "slices", "endpoints", "pods"})
  <2>1. PICK x \in ServiceFacts, f \in SUBSET ({"services", "slices", "endpoints", "pods"}) :
          run' = [analyzer |-> "Service", issues |-> ScanServices(x, f).issues, err |-> ScanServices(x, f).err,
                  truth |-> ScanServices(x, {}).issues]
    BY <1>4 DEF Analyzes
  <2>2. Observes(ScanServices(x, {}), ScanServices(x, f))
    BY ServicesObserve
  <2>3. PICK s, t : s = ScanServices(x, f) /\ t = ScanServices(x, {})
    OBVIOUS
  <2>4. QED
    BY <2>1, <2>2, <2>3, RunObserves
<1>5. CASE Analyzes("WarningEvent", ScanWarningEvents, SUBSET {"BackOff", "Unhealthy"}, {"events"})
  <2>1. PICK x \in SUBSET {"BackOff", "Unhealthy"}, f \in SUBSET ({"events"}) :
          run' = [analyzer |-> "WarningEvent", issues |-> ScanWarningEvents(x, f).issues, err |-> ScanWarningEvents(x, f).err,
                  truth |-> ScanWarningEvents(x, {}).issues]
    BY <1>5 DEF Analyzes
  <2>2. Observes(ScanWarningEvents(x, {}), ScanWarningEvents(x, f))
    BY ListsObserve
  <2>3. PICK s, t : s = ScanWarningEvents(x, f) /\ t = ScanWarningEvents(x, {})
    OBVIOUS
  <2>4. QED
    BY <2>1, <2>2, <2>3, RunObserves
<1>6. QED
  BY <1>1, <1>2, <1>3, <1>4, <1>5 DEF CoreAnalyzers

LEMMA WorkloadAnalyzersObserve ==
  ASSUME WorkloadAnalyzers
  PROVE  SilenceIsAnObservation'
<1>1. CASE Analyzes("Replicas", ScanReplicas, ReplicaFacts, DriftKinds)
  <2>1. PICK x \in ReplicaFacts, f \in SUBSET (DriftKinds) :
          run' = [analyzer |-> "Replicas", issues |-> ScanReplicas(x, f).issues, err |-> ScanReplicas(x, f).err,
                  truth |-> ScanReplicas(x, {}).issues]
    BY <1>1 DEF Analyzes
  <2>2. Observes(ScanReplicas(x, {}), ScanReplicas(x, f))
    BY ListsObserve
  <2>3. PICK s, t : s = ScanReplicas(x, f) /\ t = ScanReplicas(x, {})
    OBVIOUS
  <2>4. QED
    BY <2>1, <2>2, <2>3, RunObserves
<1>2. CASE Analyzes("Job", ScanJobs, JobFacts, {"jobs"})
  <2>1. PICK x \in JobFacts, f \in SUBSET ({"jobs"}) :
          run' = [analyzer |-> "Job", issues |-> ScanJobs(x, f).issues, err |-> ScanJobs(x, f).err,
                  truth |-> ScanJobs(x, {}).issues]
    BY <1>2 DEF Analyzes
  <2>2. Observes(ScanJobs(x, {}), ScanJobs(x, f))
    BY ListsObserve
  <2>3. PICK s, t : s = ScanJobs(x, f) /\ t = ScanJobs(x, {})
    OBVIOUS
  <2>4. QED
    BY <2>1, <2>2, <2>3, RunObserves
<1>3. CASE Analyzes("CronJob", ScanCronJobs, CronFacts, {"cronjobs"})
  <2>1. PICK x \in CronFacts, f \in SUBSET ({"cronjobs"}) :
          run' = [analyzer |-> "CronJob", issues |-> ScanCronJobs(x, f).issues, err |-> ScanCronJobs(x, f).err,
                  truth |-> ScanCronJobs(x, {}).issues]
    BY <1>3 DEF Analyzes
  <2>2. Observes(ScanCronJobs(x, {}), ScanCronJobs(x, f))
    BY ListsObserve
  <2>3. PICK s, t : s = ScanCronJobs(x, f) /\ t = ScanCronJobs(x, {})
    OBVIOUS
  <2>4. QED
    BY <2>1, <2>2, <2>3, RunObserves
<1>4. CASE Analyzes("CronSemantics", ScanCronSemantics, CronFacts, {"cronjobs"})
  <2>1. PICK x \in CronFacts, f \in SUBSET ({"cronjobs"}) :
          run' = [analyzer |-> "CronSemantics", issues |-> ScanCronSemantics(x, f).issues, err |-> ScanCronSemantics(x, f).err,
                  truth |-> ScanCronSemantics(x, {}).issues]
    BY <1>4 DEF Analyzes
  <2>2. Observes(ScanCronSemantics(x, {}), ScanCronSemantics(x, f))
    BY ListsObserve
  <2>3. PICK s, t : s = ScanCronSemantics(x, f) /\ t = ScanCronSemantics(x, {})
    OBVIOUS
  <2>4. QED
    BY <2>1, <2>2, <2>3, RunObserves
<1>5. CASE Analyzes("WorkloadDrift", ScanWorkloadDrift, DriftFacts, DriftKinds)
  <2>1. PICK x \in DriftFacts, f \in SUBSET (DriftKinds) :
          run' = [analyzer |-> "WorkloadDrift", issues |-> ScanWorkloadDrift(x, f).issues, err |-> ScanWorkloadDrift(x, f).err,
                  truth |-> ScanWorkloadDrift(x, {}).issues]
    BY <1>5 DEF Analyzes
  <2>2. Observes(ScanWorkloadDrift(x, {}), ScanWorkloadDrift(x, f))
    BY ListsObserve
  <2>3. PICK s, t : s = ScanWorkloadDrift(x, f) /\ t = ScanWorkloadDrift(x, {})
    OBVIOUS
  <2>4. QED
    BY <2>1, <2>2, <2>3, RunObserves
<1>6. CASE Analyzes("PodLog", ScanPodLogs, LogFacts, {"pods", "previous", "current"})
  <2>1. PICK x \in LogFacts, f \in SUBSET ({"pods", "previous", "current"}) :
          run' = [analyzer |-> "PodLog", issues |-> ScanPodLogs(x, f).issues, err |-> ScanPodLogs(x, f).err,
                  truth |-> ScanPodLogs(x, {}).issues]
    BY <1>6 DEF Analyzes
  <2>2. Observes(ScanPodLogs(x, {}), ScanPodLogs(x, f))
    BY PodLogsObserve
  <2>3. PICK s, t : s = ScanPodLogs(x, f) /\ t = ScanPodLogs(x, {})
    OBVIOUS
  <2>4. QED
    BY <2>1, <2>2, <2>3, RunObserves
<1>7. QED
  BY <1>1, <1>2, <1>3, <1>4, <1>5, <1>6 DEF WorkloadAnalyzers

LEMMA PolicyAnalyzersObserve ==
  ASSUME PolicyAnalyzers
  PROVE  SilenceIsAnObservation'
<1>1. CASE Analyzes("Ingress", ScanIngresses, IngressFacts, {"ingresses", "services", "secrets"})
  <2>1. PICK x \in IngressFacts, f \in SUBSET ({"ingresses", "services", "secrets"}) :
          run' = [analyzer |-> "Ingress", issues |-> ScanIngresses(x, f).issues, err |-> ScanIngresses(x, f).err,
                  truth |-> ScanIngresses(x, {}).issues]
    BY <1>1 DEF Analyzes
  <2>2. Observes(ScanIngresses(x, {}), ScanIngresses(x, f))
    BY ListsObserve
  <2>3. PICK s, t : s = ScanIngresses(x, f) /\ t = ScanIngresses(x, {})
    OBVIOUS
  <2>4. QED
    BY <2>1, <2>2, <2>3, RunObserves
<1>2. CASE Analyzes("IngressSemantics", ScanIngressSemantics, IngressFacts, {"ingresses", "services", "secrets"})
  <2>1. PICK x \in IngressFacts, f \in SUBSET ({"ingresses", "services", "secrets"}) :
          run' = [analyzer |-> "IngressSemantics", issues |-> ScanIngressSemantics(x, f).issues, err |-> ScanIngressSemantics(x, f).err,
                  truth |-> ScanIngressSemantics(x, {}).issues]
    BY <1>2 DEF Analyzes
  <2>2. Observes(ScanIngressSemantics(x, {}), ScanIngressSemantics(x, f))
    BY ListsObserve
  <2>3. PICK s, t : s = ScanIngressSemantics(x, f) /\ t = ScanIngressSemantics(x, {})
    OBVIOUS
  <2>4. QED
    BY <2>1, <2>2, <2>3, RunObserves
<1>3. CASE Analyzes("NetworkPolicy", ScanNetworkPolicies, PolicyFacts, {"netpols", "pods"})
  <2>1. PICK x \in PolicyFacts, f \in SUBSET ({"netpols", "pods"}) :
          run' = [analyzer |-> "NetworkPolicy", issues |-> ScanNetworkPolicies(x, f).issues, err |-> ScanNetworkPolicies(x, f).err,
                  truth |-> ScanNetworkPolicies(x, {}).issues]
    BY <1>3 DEF Analyzes
  <2>2. Observes(ScanNetworkPolicies(x, {}), ScanNetworkPolicies(x, f))
    BY SelectorsObserve
  <2>3. PICK s, t : s = ScanNetworkPolicies(x, f) /\ t = ScanNetworkPolicies(x, {})
    OBVIOUS
  <2>4. QED
    BY <2>1, <2>2, <2>3, RunObserves
<1>4. CASE Analyzes("PDB", ScanPDBs, PolicyFacts, {"pdbs"})
  <2>1. PICK x \in PolicyFacts, f \in SUBSET ({"pdbs"}) :
          run' = [analyzer |-> "PDB", issues |-> ScanPDBs(x, f).issues, err |-> ScanPDBs(x, f).err,
                  truth |-> ScanPDBs(x, {}).issues]
    BY <1>4 DEF Analyzes
  <2>2. Observes(ScanPDBs(x, {}), ScanPDBs(x, f))
    BY ListsObserve
  <2>3. PICK s, t : s = ScanPDBs(x, f) /\ t = ScanPDBs(x, {})
    OBVIOUS
  <2>4. QED
    BY <2>1, <2>2, <2>3, RunObserves
<1>5. CASE Analyzes("PDBSemantics", ScanPDBSemantics, PolicyFacts, {"pdbs", "pods"})
  <2>1. PICK x \in PolicyFacts, f \in SUBSET ({"pdbs", "pods"}) :
          run' = [analyzer |-> "PDBSemantics", issues |-> ScanPDBSemantics(x, f).issues, err |-> ScanPDBSemantics(x, f).err,
                  truth |-> ScanPDBSemantics(x, {}).issues]
    BY <1>5 DEF Analyzes
  <2>2. Observes(ScanPDBSemantics(x, {}), ScanPDBSemantics(x, f))
    BY SelectorsObserve
  <2>3. PICK s, t : s = ScanPDBSemantics(x, f) /\ t = ScanPDBSemantics(x, {})
    OBVIOUS
  <2>4. QED
    BY <2>1, <2>2, <2>3, RunObserves
<1>6. CASE Analyzes("HPA", ScanHPAs, HPAFacts, {"hpas"})
  <2>1. PICK x \in HPAFacts, f \in SUBSET ({"hpas"}) :
          run' = [analyzer |-> "HPA", issues |-> ScanHPAs(x, f).issues, err |-> ScanHPAs(x, f).err,
                  truth |-> ScanHPAs(x, {}).issues]
    BY <1>6 DEF Analyzes
  <2>2. Observes(ScanHPAs(x, {}), ScanHPAs(x, f))
    BY ListsObserve
  <2>3. PICK s, t : s = ScanHPAs(x, f) /\ t = ScanHPAs(x, {})
    OBVIOUS
  <2>4. QED
    BY <2>1, <2>2, <2>3, RunObserves
<1>7. CASE Analyzes("HPASemantics", ScanHPASemantics, HPAFacts, {"hpas", "Deployment", "StatefulSet", "ReplicaSet"})
  <2>1. PICK x \in HPAFacts, f \in SUBSET ({"hpas", "Deployment", "StatefulSet", "ReplicaSet"}) :
          run' = [analyzer |-> "HPASemantics", issues |-> ScanHPASemantics(x, f).issues, err |-> ScanHPASemantics(x, f).err,
                  truth |-> ScanHPASemantics(x, {}).issues]
    BY <1>7 DEF Analyzes
  <2>2. Observes(ScanHPASemantics(x, {}), ScanHPASemantics(x, f))
    BY ListsObserve
  <2>3. PICK s, t : s = ScanHPASemantics(x, f) /\ t = ScanHPASemantics(x, {})
    OBVIOUS
  <2>4. QED
    BY <2>1, <2>2, <2>3, RunObserves
<1>8. CASE Analyzes("Webhook", ScanWebhooks, WebhookFacts, {"mutating", "validating", "service", "pods"})
  <2>1. PICK x \in WebhookFacts, f \in SUBSET ({"mutating", "validating", "service", "pods"}) :
          run' = [analyzer |-> "Webhook", issues |-> ScanWebhooks(x, f).issues, err |-> ScanWebhooks(x, f).err,
                  truth |-> ScanWebhooks(x, {}).issues]
    BY <1>8 DEF Analyzes
  <2>2. Observes(ScanWebhooks(x, {}), ScanWebhooks(x, f))
    BY WebhooksObserve
  <2>3. PICK s, t : s = ScanWebhooks(x, f) /\ t = ScanWebhooks(x, {})
    OBVIOUS
  <2>4. QED
    BY <2>1, <2>2, <2>3, RunObserves
<1>9. CASE Analyzes("ConfigMap", ScanConfigMaps, ConfigMapFacts, {"configmaps"} \cup ReferenceKinds)
  <2>1. PICK x \in ConfigMapFacts, f \in SUBSET ({"configmaps"} \cup ReferenceKinds) :
          run' = [analyzer |-> "ConfigMap", issues |-> ScanConfigMaps(x, f).issues, err |-> ScanConfigMaps(x, f).err,
                  truth |-> ScanConfigMaps(x, {}).issues]
    BY <1>9 DEF Analyzes
  <2>2. Observes(ScanConfigMaps(x, {}), ScanConfigMaps(x, f))
    BY ListsObserve
  <2>3. PICK s, t : s = ScanConfigMaps(x, f) /\ t = ScanConfigMaps(x, {})
    OBVIOUS
  <2>4. QED
    BY <2>1, <2>2, <2>3, RunObserves
<1>10. CASE Analyzes("Storage", ScanStorage, StorageFacts, {"classes", "volumes", "claims"})
  <2>1. PICK x \in StorageFacts, f \in SUBSET ({"classes", "volumes", "claims"}) :
          run' = [analyzer |-> "Storage", issues |-> ScanStorage(x, f).issues, err |-> ScanStorage(x, f).err,
                  truth |-> ScanStorage(x, {}).issues]
    BY <1>10 DEF Analyzes
  <2>2. Observes(ScanStorage(x, {}), ScanStorage(x, f))
    BY ListsObserve
  <2>3. PICK s, t : s = ScanStorage(x, f) /\ t = ScanStorage(x, {})
    OBVIOUS
  <2>4. QED
    BY <2>1, <2>2, <2>3, RunObserves
<1>11. QED
  BY <1>1, <1>2, <1>3, <1>4, <1>5, <1>6, <1>7, <1>8, <1>9, <1>10 DEF PolicyAnalyzers

LEMMA SecurityAnalyzersObserve ==
  ASSUME SecurityAnalyzers
  PROVE  SilenceIsAnObservation'
<1>1. CASE Analyzes("Security", ScanSecurity, SecurityFacts, {"pods", "rolebindings", "clusterrolebindings", "Role", "ClusterRole"})
  <2>1. PICK x \in SecurityFacts, f \in SUBSET ({"pods", "rolebindings", "clusterrolebindings", "Role", "ClusterRole"}) :
          run' = [analyzer |-> "Security", issues |-> ScanSecurity(x, f).issues, err |-> ScanSecurity(x, f).err,
                  truth |-> ScanSecurity(x, {}).issues]
    BY <1>1 DEF Analyzes
  <2>2. Observes(ScanSecurity(x, {}), ScanSecurity(x, f))
    BY SecurityObserves
  <2>3. PICK s, t : s = ScanSecurity(x, f) /\ t = ScanSecurity(x, {})
    OBVIOUS
  <2>4. QED
    BY <2>1, <2>2, <2>3, RunObserves
<1>2. CASE Analyzes("PodVulnerability", ScanPodVulnerabilities, ImageFacts, {"pods"})
  <2>1. PICK x \in ImageFacts, f \in SUBSET ({"pods"}) :
          run' = [analyzer |-> "PodVulnerability", issues |-> ScanPodVulnerabilities(x, f).issues, err |-> ScanPodVulnerabilities(x, f).err,
                  truth |-> ScanPodVulnerabilities(x, {}).issues]
    BY <1>2 DEF Analyzes
  <2>2. Observes(ScanPodVulnerabilities(x, {}), ScanPodVulnerabilities(x, f))
    BY ListsObserve
  <2>3. PICK s, t : s = ScanPodVulnerabilities(x, f) /\ t = ScanPodVulnerabilities(x, {})
    OBVIOUS
  <2>4. QED
    BY <2>1, <2>2, <2>3, RunObserves
<1>3. CASE Analyzes("AppUpgrade", ScanAppUpgrades, ImageFacts, {"deployments"})
  <2>1. PICK x \in ImageFacts, f \in SUBSET ({"deployments"}) :
          run' = [analyzer |-> "AppUpgrade", issues |-> ScanAppUpgrades(x, f).issues, err |-> ScanAppUpgrades(x, f).err,
                  truth |-> ScanAppUpgrades(x, {}).issues]
    BY <1>3 DEF Analyzes
  <2>2. Observes(ScanAppUpgrades(x, {}), ScanAppUpgrades(x, f))
    BY ListsObserve
  <2>3. PICK s, t : s = ScanAppUpgrades(x, f) /\ t = ScanAppUpgrades(x, {})
    OBVIOUS
  <2>4. QED
    BY <2>1, <2>2, <2>3, RunObserves
<1>4. CASE Analyzes("ClusterSecurity", ScanClusterSecurity, ClusterSecurityFacts, {"pods", "nodes"})
  <2>1. PICK x \in ClusterSecurityFacts, f \in SUBSET ({"pods", "nodes"}) :
          run' = [analyzer |-> "ClusterSecurity", issues |-> ScanClusterSecurity(x, f).issues, err |-> ScanClusterSecurity(x, f).err,
                  truth |-> ScanClusterSecurity(x, {}).issues]
    BY <1>4 DEF Analyzes
  <2>2. "ClusterSecurity" \in Silent
    BY DEF Silent
  <2>3. PICK s, t : s = ScanClusterSecurity(x, f) /\ t = ScanClusterSecurity(x, {})
    OBVIOUS
  <2>4. QED
    BY <2>1, <2>2, <2>3, RunObserves
<1>5. CASE Analyzes("Falco", ScanFalcoEvents, SUBSET {"shell", "write"}, {"events"})
  <2>1. PICK x \in SUBSET {"shell", "write"}, f \in SUBSET ({"events"}) :
          run' = [analyzer |-> "Falco", issues |-> ScanFalcoEvents(x, f).issues, err |-> ScanFalcoEvents(x, f).err,
                  truth |-> ScanFalcoEvents(x, {}).issues]
    BY <1>5 DEF Analyzes
  <2>2. Observes(ScanFalcoEvents(x, {}), ScanFalcoEvents(x, f))
    BY ListsObserve
  <2>3. PICK s, t : s = ScanFalcoEvents(x, f) /\ t = ScanFalcoEvents(x, {})
    OBVIOUS
  <2>4. QED
    BY <2>1, <2>2, <2>3, RunObserves
<1>6. QED
  BY <1>1, <1>2, <1>3, <1>4, <1>5 DEF SecurityAnalyzers

LEMMA DynamicAnalyzersObserve ==
  ASSUME DynamicAnalyzers
  PROVE  SilenceIsAnObservation'
<1>1. CASE Analyzes("Gateway", ScanGateways, [served : Versions, object : GatewayFacts], {"v1", "v1beta1"})
  <2>1. PICK x \in [served : Versions, object : GatewayFacts], f \in SUBSET ({"v1", "v1beta1"}) :
          run' = [analyzer |-> "Gateway", issues |-> ScanGateways(x, f).issues, err |-> ScanGateways(x, f).err,
                  truth |-> ScanGateways(x, {}).issues]
    BY <1>1 DEF Analyzes
  <2>2. Observes(ScanGateways(x, {}), ScanGateways(x, f))
    BY ResourcesObserve
  <2>3. PICK s, t : s = ScanGateways(x, f) /\ t = ScanGateways(x, {})
    OBVIOUS
  <2>4. QED
    BY <2>1, <2>2, <2>3, RunObserves
<1>2. CASE Analyzes("HTTPRoute", ScanHTTPRoutes, [served : Versions, object : RouteFacts], {"v1", "v1beta1", "gateway", "grants", "backend"})
  <2>1. PICK x \in [served : Versions, object : RouteFacts], f \in SUBSET ({"v1", "v1beta1", "gateway", "grants", "backend"}) :
          run' = [analyzer |-> "HTTPRoute", issues |-> ScanHTTPRoutes(x, f).issues, err |-> ScanHTTPRoutes(x, f).err,
                  truth |-> ScanHTTPRoutes(x, {}).issues]
    BY <1>2 DEF Analyzes
  <2>2. Observes(ScanHTTPRoutes(x, {}), ScanHTTPRoutes(x, f))
    BY HTTPRoutesObserve
  <2>3. PICK s, t : s = ScanHTTPRoutes(x, f) /\ t = ScanHTTPRoutes(x, {})
    OBVIOUS
  <2>4. QED
    BY <2>1, <2>2, <2>3, RunObserves
<1>3. CASE Analyzes("ReferenceGrant", ScanReferenceGrants, [served : Versions, object : GrantFacts], {"v1", "v1beta1"})
  <2>1. PICK x \in [served : Versions, object : GrantFacts], f \in SUBSET ({"v1", "v1beta1"}) :
          run' = [analyzer |-> "ReferenceGrant", issues |-> ScanReferenceGrants(x, f).issues, err |-> ScanReferenceGrants(x, f).err,
                  truth |-> ScanReferenceGrants(x, {}).issues]
    BY <1>3 DEF Analyzes
  <2>2. Observes(ScanReferenceGrants(x, {}), ScanReferenceGrants(x, f))
    BY ResourcesObserve
  <2>3. PICK s, t : s = ScanReferenceGrants(x, f) /\ t = ScanReferenceGrants(x, {})
    OBVIOUS
  <2>4. QED
    BY <2>1, <2>2, <2>3, RunObserves
<1>4. CASE Analyzes("Resource", ScanResources, [served : Versions, object : ResourceFacts], {"v1", "v1beta1"})
  <2>1. PICK x \in [served : Versions, object : ResourceFacts], f \in SUBSET ({"v1", "v1beta1"}) :
          run' = [analyzer |-> "Resource", issues |-> ScanResources(x, f).issues, err |-> ScanResources(x, f).err,
                  truth |-> ScanResources(x, {}).issues]
    BY <1>4 DEF Analyzes
  <2>2. Observes(ScanResources(x, {}), ScanResources(x, f))
    BY ResourcesObserve
  <2>3. PICK s, t : s = ScanResources(x, f) /\ t = ScanResources(x, {})
    OBVIOUS
  <2>4. QED
    BY <2>1, <2>2, <2>3, RunObserves
<1>5. QED
  BY <1>1, <1>2, <1>3, <1>4 DEF DynamicAnalyzers

\* What makes reconciliation by silence sound (coveredBy): an analyzer that leaves out
\* what it would have found, because something could not be read, fails; all but
\* scanClusterSecurity, for whatever the cluster holds and whichever reads fail.
THEOREM SilenceIsAnObservationThm == AnalyzerSpec => []SilenceIsAnObservation
<1>1. ASSUME AnalyzerInit PROVE SilenceIsAnObservation
  BY <1>1 DEF AnalyzerInit, Unrun, SilenceIsAnObservation
<1>2. ASSUME SilenceIsAnObservation, [AnalyzerNext]_run PROVE SilenceIsAnObservation'
  <2>1. CASE UNCHANGED run
    BY <1>2, <2>1 DEF SilenceIsAnObservation
  <2>2. CASE AnalyzerNext
    BY <2>2, CoreAnalyzersObserve, WorkloadAnalyzersObserve, PolicyAnalyzersObserve, SecurityAnalyzersObserve,
       DynamicAnalyzersObserve DEF AnalyzerNext
  <2>3. QED
    BY <1>2, <2>1, <2>2
<1>3. QED
  BY <1>1, <1>2, PTL DEF AnalyzerSpec

=============================================================================
