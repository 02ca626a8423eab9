-------------------------- MODULE AnalysisStripping --------------------------
(***************************************************************************)
(* Analysis Stripping of app/tf-demo: an action takes a Scroll's derived   *)
(* graph away in many transactions (Resolution Sessions, Encounters,       *)
(* Segments, emptied Attestations, then the Readings and Lemmas that had   *)
(* no source left when they were described), while learners click, commits *)
(* attest Readings, Knowledge is demanded and published, and the text is   *)
(* submitted again.  The action may stop between any two transactions.     *)
(*                                                                         *)
(* A batch of the pruning walks several phases in one transaction; a step  *)
(* here is one phase, since a batch may end after any of them.             *)
(***************************************************************************)
EXTENDS Integers, FiniteSets, FiniteSetsExt

CONSTANTS
    Segments, Sentences, Scrolls,
    SentenceOf,      \* the Sentence of a Segment
    ScrollOf,        \* the Scroll of a Sentence
    PositionOf,      \* a Sentence's position in its Scroll
    Resolvable,      \* the ResolvableText among the Segments
    Readings, Lemmas,
    LemmaOf,         \* the Lemma of a Reading
    Attestations,    \* BOUND: Attestation identifiers
    Analyses,        \* what intake may answer for one text
    None,            \* no Attestation, no Sentence, nothing
    Lost,            \* a Reading id whose row is gone
    Batch,           \* STRIP_SEGMENT_BATCH, 128
    Protections,     \* the protectedReadingKeys a strip may be given
    SensesOf,        \* BOUND: the Readings a run may judge a Segment to have
    Wanted,          \* BOUND: the Readings whose Knowledge is demanded or written
    Clicked,         \* BOUND: sets of Segments that may have sessions at once
    Stripped,        \* BOUND: the Scrolls that are stripped
    Stored,          \* BOUND: the Scrolls that are stored from the start
    Strips,          \* BOUND: strip actions at once
    Submitters,      \* BOUND: submissions at once
    Stoppable        \* BOUND: whether a strip action may stop

ASSUME TextsAssumption ==
    /\ SentenceOf \in [Segments -> Sentences]
    /\ ScrollOf \in [Sentences -> Scrolls]
    /\ PositionOf \in [Sentences -> Nat]
    /\ Resolvable \subseteq Segments
    /\ LemmaOf \in [Readings -> Lemmas]
    /\ Batch \in Nat \ {0} /\ Protections \subseteq SUBSET Readings
    /\ Wanted \subseteq Readings
    /\ SensesOf \in [Segments -> SUBSET Readings]
    /\ Clicked \subseteq SUBSET Resolvable /\ Stripped \cup Stored \subseteq Scrolls
    /\ Analyses # {} /\ Stoppable \in BOOLEAN
    /\ None \notin Attestations \cup Analyses \cup Readings \cup Lemmas \cup Scrolls
    /\ Lost \notin Readings

VARIABLES
    analysis,        \* per sentences row: whose analysis it stores
    units,           \* Sentences with units
    segment,         \* stored Segments
    owner,           \* a Segment's Attestation Membership
    met,             \* Segments with a Visitor Encounter
    session,         \* the Resolution Session of a Segment
    attestation,     \* attestations rows
    reading, lemma,  \* stored Readings and Lemmas
    surface,         \* Lemmas with a stored Surface
    attempt,         \* the Knowledge attempt of a Reading key
    knowledge,       \* Reading keys with accumulated Knowledge
    strip,           \* strip actions
    submit,          \* submissions being analyzed
    attestedLate,    \* ghost: Attestations of Readings doomed when committed
    demandedLate,    \* ghost: attempts demanded behind a strip's Attempts phase
    writtenLate      \* ghost: Knowledge written behind a strip's Knowledge phase,
                     \* but not by an attempt that was there before the strip

textVars == <<analysis, units, segment>>
clickVars == <<owner, met, session, attestation>>
wordVars == <<reading, lemma, surface>>
knowledgeVars == <<attempt, knowledge>>
ghostVars == <<attestedLate, demandedLate, writtenLate>>
vars == <<textVars, clickVars, wordVars, knowledgeVars, strip, submit, ghostVars>>

-----------------------------------------------------------------------------
(* Rows.                                                                    *)

\* A Session is Open until its run has judged a Reading, to be created or
\* reused by the commit, and Ended when it is terminal.
NoSession == [at |-> "None", reading |-> None]
Session == [at : {"None", "Open", "Ended"}, reading : {None}]
             \cup [at : {"New", "Reuse"}, reading : Readings]

NoAttestation == [lemma |-> None, reading |-> None]
Attestation == [lemma : Lemmas \cup {None}, reading : Readings \cup {None, Lost}]

Strip == [at : {"Idle", "Graph", "Describe", "Attempts", "Knowledge", "Reading",
                "Surfaces", "Lemma"},
          scroll : Scrolls \cup {None}, from : Nat, protected : SUBSET Readings,
          candidates : SUBSET (Readings \cup {None, Lost}), todo : SUBSET Readings,
          lemmas : SUBSET Lemmas, item : Readings \cup Lemmas \cup {None}]

NoStrip == [at |-> "Idle", scroll |-> None, from |-> 0, protected |-> {},
            candidates |-> {}, todo |-> {}, lemmas |-> {}, item |-> None]

Submit == [at : {"Idle", "Persist"}, scroll : Scrolls \cup {None}]

NoSubmit == [at |-> "Idle", scroll |-> None]

TypeOK ==
    /\ analysis \in [Sentences -> Analyses \cup {None}]
    /\ units \subseteq Sentences /\ segment \subseteq Segments /\ met \subseteq Segments
    /\ owner \in [Segments -> Attestations \cup {None}]
    /\ session \in [Segments -> Session]
    /\ attestation \in [Attestations -> Attestation]
    /\ reading \subseteq Readings /\ lemma \subseteq Lemmas /\ surface \subseteq Lemmas
    /\ attempt \in [Readings -> {"None", "Active", "Stranded"}]
    /\ knowledge \subseteq Readings
    /\ strip \in [Strips -> Strip]
    /\ submit \in [Submitters -> Submit]
    /\ attestedLate \subseteq Attestations
    /\ demandedLate \subseteq Readings /\ writtenLate \subseteq Readings

SentencesOf(sc) == {x \in Sentences : ScrollOf[x] = sc}
SegmentsAt(x) == {s \in Segments : SentenceOf[s] = x}
StoredAt(x) == SegmentsAt(x) \cap segment
SegmentsOf(sc) == {s \in Segments : ScrollOf[SentenceOf[s]] = sc}
HasSession(s) == session[s] # NoSession
Active(s) == session[s].at \in {"Open", "New", "Reuse"}
Attests(a, r) == attestation[a].reading = r

\* Readings some strip is about to prune.
Doomed == UNION {strip[p].todo : p \in Strips}

\* Readings some strip is pruning, past the phase that took their attempts, or
\* their Knowledge.
PrunedAt(phases) == {strip[p].item : p \in {q \in Strips : strip[q].at \in phases}}
AttemptsTaken == PrunedAt({"Knowledge", "Reading"})
KnowledgeTaken == PrunedAt({"Reading"})

-----------------------------------------------------------------------------
(* Clicks.  One Visitor stands for all.                                     *)

\* scheduleKnowledgeGeneration, of a Reading whose row exists.  Knowledge that
\* is stored may still lack something.
Demand(r) ==
    /\ \/ /\ r \in Wanted /\ attempt[r] = "None"
          /\ attempt' = [attempt EXCEPT ![r] = "Active"]
          /\ demandedLate' = demandedLate \cup ({r} \cap AttemptsTaken)
       \/ /\ r \notin Wanted \/ attempt[r] # "None" \/ r \in knowledge
          /\ UNCHANGED <<attempt, demandedLate>>
    /\ UNCHANGED <<knowledge, writtenLate>>

\* selectSegment on a committed Segment throws when its Reading is lost.
SelectAvailable(s) ==
    /\ s \in segment \cap UNION Clicked /\ owner[s] # None
    /\ attestation[owner[s]].reading \in reading
    /\ met' = met \cup {s}
    /\ Demand(attestation[owner[s]].reading)
    /\ UNCHANGED <<textVars, wordVars, owner, session, attestation, strip, submit,
                   attestedLate>>

SelectStart(s) ==
    /\ s \in segment /\ owner[s] = None /\ ~Active(s)
    /\ \E c \in Clicked : {t \in Segments : HasSession(t)} \cup {s} \subseteq c
    /\ met' = met \cup {s}
    /\ session' = [session EXCEPT ![s] = [at |-> "Open", reading |-> None]]
    /\ UNCHANGED <<textVars, wordVars, knowledgeVars, owner, attestation, strip, submit,
                   ghostVars>>

\* resolveReading: a hop before the commit.
Judge(s, r) ==
    /\ session[s].at = "Open"
    /\ session' = [session EXCEPT ![s] =
                      [at |-> IF r \in reading THEN "Reuse" ELSE "New", reading |-> r]]
    /\ UNCHANGED <<textVars, wordVars, knowledgeVars, owner, met, attestation, strip,
                   submit, ghostVars>>

EndSession(s) == session' = [session EXCEPT ![s] = [at |-> "Ended", reading |-> None]]

\* Every other ending, among them the DictionaryConflict of a Reading that
\* was to be reused and is gone.
FailSession(s) ==
    /\ Active(s)
    /\ EndSession(s)
    /\ UNCHANGED <<textVars, wordVars, knowledgeVars, owner, met, attestation, strip,
                   submit, ghostVars>>

FreeAttestations == {a \in Attestations : attestation[a] = NoAttestation}

\* commitResolvedClick: the dictionary rows the occurrence needs, the
\* Attestation with all its members, and the demand for Knowledge.
CommitResolvedClick(s, members) ==
    LET r == session[s].reading
        a == CHOOSE b \in FreeAttestations : TRUE IN
    /\ session[s].at \in {"New", "Reuse"} /\ owner[s] = None
    /\ s \in members /\ members \subseteq StoredAt(SentenceOf[s]) \cap Resolvable
    /\ \A t \in members : owner[t] = None
    /\ session[s].at = "Reuse" => r \in reading
    /\ FreeAttestations # {}
    /\ reading' = reading \cup {r}
    /\ lemma' = lemma \cup {LemmaOf[r]}
    /\ surface' = surface \cup {LemmaOf[r]}
    /\ attestation' = [attestation EXCEPT ![a] = [lemma |-> LemmaOf[r], reading |-> r]]
    /\ owner' = [t \in Segments |-> IF t \in members THEN a ELSE owner[t]]
    /\ EndSession(s)
    /\ Demand(r)
    /\ attestedLate' = IF r \in Doomed THEN attestedLate \cup {a} ELSE attestedLate \ {a}
    /\ UNCHANGED <<textVars, met, strip, submit>>

\* The commit of a Segment another occurrence took meanwhile.
CommitReused(s) ==
    /\ session[s].at \in {"New", "Reuse"} /\ owner[s] # None
    /\ attestation[owner[s]].reading \in reading
    /\ EndSession(s)
    /\ Demand(attestation[owner[s]].reading)
    /\ UNCHANGED <<textVars, wordVars, owner, met, attestation, strip, submit, attestedLate>>

-----------------------------------------------------------------------------
(* Knowledge.                                                               *)

\* replaceAccumulatedKnowledge inserts the row when it is missing.
Accumulate(r) == knowledge' = knowledge \cup {r}

EndAttempt(r) ==
    /\ attempt' = [attempt EXCEPT ![r] = "None"]
    /\ demandedLate' = demandedLate \ {r}

\* publish checks its attempt and, by id, the Reading it owns.
Publish(r) ==
    /\ attempt[r] = "Active" /\ r \in reading
    /\ Accumulate(r)
    /\ EndAttempt(r)
    /\ writtenLate' = writtenLate \cup ({r} \cap KnowledgeTaken \cap demandedLate)
    /\ UNCHANGED <<textVars, clickVars, wordVars, strip, submit, attestedLate>>

\* Every other ending, and the deletion with a Visitor's data.
GiveUp(r) ==
    /\ attempt[r] # "None"
    /\ EndAttempt(r)
    /\ UNCHANGED <<textVars, clickVars, wordVars, knowledge, strip, submit, attestedLate,
                   writtenLate>>

\* publish of a translation run checks nothing but, by id, the Reading it
\* read; some run is taken to be in flight for any stored Reading.  It stands
\* for all that finds a Reading stored and writes its Knowledge unasked: the
\* relations other Readings' Knowledge states, an authored component.
PublishTranslations(r) ==
    /\ r \in reading \cap Wanted
    /\ Accumulate(r)
    /\ writtenLate' = writtenLate \cup ({r} \cap KnowledgeTaken)
    /\ UNCHANGED <<textVars, clickVars, wordVars, attempt, strip, submit, attestedLate,
                   demandedLate>>

-----------------------------------------------------------------------------
(* stripScrollAnalysisGraph: the graph of the Scroll.                       *)

Go(p, next) == strip' = [strip EXCEPT ![p] = next]

\* getScrollAnalysisCandidates does not look whether the Readings are there.
Candidates(sc) ==
    {attestation[owner[s]].reading : s \in {t \in SegmentsOf(sc) : owner[t] # None}}

Start(p, sc, protected) ==
    /\ strip[p].at = "Idle"
    /\ \E x \in SentencesOf(sc) : analysis[x] # None
    /\ Go(p, [NoStrip EXCEPT !.at = "Graph", !.scroll = sc, !.protected = protected,
                             !.candidates = Candidates(sc)])
    /\ UNCHANGED <<textVars, clickVars, wordVars, knowledgeVars, submit, ghostVars>>

SessionsAt(x) == {s \in SegmentsAt(x) : HasSession(s)}

\* Sentences the batch looks at, and the first with something to delete.
Ahead(p) == {x \in SentencesOf(strip[p].scroll) : PositionOf[x] >= strip[p].from}
Unstripped(p) == {x \in Ahead(p) : StoredAt(x) # {} \/ SessionsAt(x) # {}}
FirstUnstripped(p) ==
    CHOOSE x \in Unstripped(p) : \A y \in Unstripped(p) : PositionOf[x] <= PositionOf[y]
PassedBy(p) == {x \in Ahead(p) : PositionOf[x] < PositionOf[FirstUnstripped(p)]}

Resume(p, x) == Go(p, [strip[p] EXCEPT !.from = PositionOf[x]])

\* Mutant: Segments go before the sessions that name them.
SessionsLeftNever(x) == FALSE

SessionsLeft(x) == SessionsAt(x) # {}

StripSessions(p) ==
    LET x == FirstUnstripped(p) IN
    /\ strip[p].at = "Graph" /\ Unstripped(p) # {} /\ SessionsLeft(x)
    /\ \E gone \in kSubset(Min({Batch, Cardinality(SessionsAt(x))}), SessionsAt(x)) :
          session' = [s \in Segments |-> IF s \in gone THEN NoSession ELSE session[s]]
    /\ units' = units \ PassedBy(p)
    /\ Resume(p, x)
    /\ UNCHANGED <<analysis, segment, owner, met, attestation, wordVars, knowledgeVars,
                   submit, ghostVars>>

\* Mutant: the survivors are not looked for.
EmptiedUnchecked(gone) == {a \in Attestations : \E s \in gone : owner[s] = a}

\* Attestations the Segments leave without a member.
Emptied(gone) ==
    {a \in Attestations : /\ \E s \in gone : owner[s] = a
                          /\ \A t \in segment \ gone : owner[t] # a}

\* The units index into the Segments and go with the first of them.
UnitsCleared(x, gone) == {x}

\* gone are the Segments that fit; the Encounters of one more may have used
\* up the budget that would have deleted it.
StripSegments(p) ==
    LET x == FirstUnstripped(p) IN
    /\ strip[p].at = "Graph" /\ Unstripped(p) # {} /\ ~SessionsLeft(x)
    /\ \E gone \in SUBSET StoredAt(x), cut \in SUBSET (StoredAt(x) \cap met) :
          /\ Cardinality(gone) <= Batch /\ Cardinality(cut) <= 1 /\ gone \cap cut = {}
          /\ \/ cut # {} /\ Cardinality(gone) < Batch
             \/ cut = {} /\ Cardinality(gone) = Min({Batch, Cardinality(StoredAt(x))})
          /\ segment' = segment \ gone
          /\ met' = met \ (gone \cup cut)
          /\ owner' = [s \in Segments |-> IF s \in gone THEN None ELSE owner[s]]
          /\ attestation' = [a \in Attestations |->
                               IF a \in Emptied(gone) THEN NoAttestation ELSE attestation[a]]
          /\ attestedLate' = attestedLate \ Emptied(gone)
          /\ units' = units \ (PassedBy(p) \cup UnitsCleared(x, gone))
    /\ Resume(p, x)
    /\ UNCHANGED <<analysis, session, wordVars, knowledgeVars, submit, demandedLate,
                   writtenLate>>

GraphStripped(p) ==
    /\ strip[p].at = "Graph" /\ Unstripped(p) = {}
    /\ units' = units \ Ahead(p)
    /\ Go(p, [strip[p] EXCEPT !.at = "Describe"])
    /\ UNCHANGED <<analysis, segment, clickVars, wordVars, knowledgeVars, submit, ghostVars>>

-----------------------------------------------------------------------------
(* The Readings and Lemmas that lost their last source.                     *)

\* Mutant: an occurrence in another Scroll does not count as a source.
SourcelessHere(p, r) ==
    \A s \in SegmentsOf(strip[p].scroll) : owner[s] = None \/ ~Attests(owner[s], r)

\* describeReadingCleanupCandidates: hasRemainingSource.
Sourceless(p, r) == \A a \in Attestations : ~Attests(a, r)

DoomedBy(p) ==
    {r \in strip[p].candidates \cap reading : Sourceless(p, r)} \ strip[p].protected

Describe(p) ==
    LET doomed == DoomedBy(p) IN
    /\ strip[p].at = "Describe"
    /\ IF doomed = {} THEN Go(p, NoStrip)
       ELSE \E r \in doomed :
              Go(p, [strip[p] EXCEPT !.at = "Attempts", !.todo = doomed, !.item = r,
                                     !.lemmas = {LemmaOf[d] : d \in doomed}])
    /\ UNCHANGED <<textVars, clickVars, wordVars, knowledgeVars, submit, ghostVars>>

\* Mutant: the attempts of a pruned Reading stay.
AttemptsLeft(r) == attempt

AttemptsWithout(r) == [attempt EXCEPT ![r] = "None"]

PruneAttempts(p) ==
    LET r == strip[p].item IN
    /\ strip[p].at = "Attempts"
    /\ attempt' = AttemptsWithout(r)
    /\ demandedLate' = demandedLate \ {r}
    /\ Go(p, [strip[p] EXCEPT !.at = "Knowledge"])
    /\ UNCHANGED <<textVars, clickVars, wordVars, knowledge, submit, attestedLate,
                   writtenLate>>

PruneKnowledge(p) ==
    LET r == strip[p].item IN
    /\ strip[p].at = "Knowledge"
    /\ knowledge' = knowledge \ {r}
    /\ writtenLate' = writtenLate \ {r}
    /\ Go(p, [strip[p] EXCEPT !.at = "Reading"])
    /\ UNCHANGED <<textVars, clickVars, wordVars, attempt, submit, attestedLate,
                   demandedLate>>

\* What named the row by its id names nothing from now on.
PruneReading(p) ==
    LET r == strip[p].item
        left == strip[p].todo \ {r} IN
    /\ strip[p].at = "Reading"
    /\ reading' = reading \ {r}
    /\ attestation' = [a \in Attestations |->
                         IF Attests(a, r) THEN [attestation[a] EXCEPT !.reading = Lost]
                         ELSE attestation[a]]
    /\ attempt' = IF attempt[r] = "Active" THEN [attempt EXCEPT ![r] = "Stranded"]
                  ELSE attempt
    /\ \/ \E d \in left : Go(p, [strip[p] EXCEPT !.at = "Attempts", !.todo = left, !.item = d])
       \/ /\ left = {}
          /\ \E l \in strip[p].lemmas :
                Go(p, [strip[p] EXCEPT !.at = "Surfaces", !.todo = {}, !.item = l])
    /\ UNCHANGED <<textVars, owner, met, session, lemma, surface, knowledge, submit, ghostVars>>

\* The Lemma after this one, or the end.
NextLemma(p) ==
    LET left == strip[p].lemmas \ {strip[p].item} IN
    IF left = {} THEN Go(p, NoStrip)
    ELSE \E l \in left : Go(p, [strip[p] EXCEPT !.at = "Surfaces", !.lemmas = left, !.item = l])

\* Mutant: the Lemma is looked up once, when its turn comes.
NeededOnce(p, l) ==
    /\ strip[p].at = "Surfaces"
    /\ l \notin lemma \/ \E r \in reading : LemmaOf[r] = l

\* A Lemma with a Reading is never pruned: asked again at every phase.
Needed(p, l) == l \notin lemma \/ \E r \in reading : LemmaOf[r] = l

\* A Surface with an Attestation keeps its Lemma, too.
SurfaceAttested(l) == \E a \in Attestations : attestation[a].lemma = l

SkipLemma(p) ==
    LET l == strip[p].item IN
    /\ \/ strip[p].at \in {"Surfaces", "Lemma"} /\ Needed(p, l)
       \/ strip[p].at = "Surfaces" /\ SurfaceAttested(l)
    /\ NextLemma(p)
    /\ UNCHANGED <<textVars, clickVars, wordVars, knowledgeVars, submit, ghostVars>>

PruneSurfaces(p) ==
    LET l == strip[p].item IN
    /\ strip[p].at = "Surfaces" /\ ~Needed(p, l) /\ ~SurfaceAttested(l)
    /\ surface' = surface \ {l}
    /\ Go(p, [strip[p] EXCEPT !.at = "Lemma"])
    /\ UNCHANGED <<textVars, clickVars, reading, lemma, knowledgeVars, submit, ghostVars>>

PruneLemma(p) ==
    LET l == strip[p].item IN
    /\ strip[p].at = "Lemma" /\ ~Needed(p, l)
    /\ lemma' = lemma \ {l}
    /\ NextLemma(p)
    /\ UNCHANGED <<textVars, clickVars, reading, surface, knowledgeVars, submit, ghostVars>>

\* The action is lost, or one of its calls throws.
StopStrip(p) ==
    /\ Stoppable /\ strip[p].at # "Idle"
    /\ Go(p, NoStrip)
    /\ UNCHANGED <<textVars, clickVars, wordVars, knowledgeVars, submit, ghostVars>>

-----------------------------------------------------------------------------
(* The text is submitted, again or for the first time.                      *)

Put(w, next) == submit' = [submit EXCEPT ![w] = next]

Whole(sc) == \A x \in SentencesOf(sc) : analysis[x] # None /\ SegmentsAt(x) \subseteq segment
Bare(sc) == SegmentsOf(sc) \cap segment = {}

\* analyzedSubmission answers a Scroll whose Segments are all there; intake
\* analyzes any other, not always with the same answer.
SubmitText(w, sc) ==
    /\ submit[w].at = "Idle" /\ ~Whole(sc)
    /\ Put(w, [at |-> "Persist", scroll |-> sc])
    /\ UNCHANGED <<textVars, clickVars, wordVars, knowledgeVars, strip, ghostVars>>

\* Mutant: a resumed Scroll is written Sentence by Sentence where it is bare.
ResumableWhereBare(sc) == ~Whole(sc)

\* insertSubmittedScroll, or resumeSubmittedScroll of a stripped one.
Resumable(sc) == Bare(sc)

PersistSubmittedScroll(w, a) ==
    LET sc == submit[w].scroll
        written == {x \in SentencesOf(sc) : StoredAt(x) = {}} IN
    /\ submit[w].at = "Persist" /\ Resumable(sc)
    /\ analysis' = [x \in Sentences |-> IF x \in written THEN a ELSE analysis[x]]
    /\ units' = units \cup written
    /\ segment' = segment \cup UNION {SegmentsAt(x) : x \in written}
    /\ Put(w, NoSubmit)
    /\ UNCHANGED <<clickVars, wordVars, knowledgeVars, strip, ghostVars>>

\* Kept when it is the stored analysis, whole; refused with a Conflict when
\* it is not: either way nothing is written.
PersistChangesNothing(w) ==
    /\ submit[w].at = "Persist" /\ ~Resumable(submit[w].scroll)
    /\ Put(w, NoSubmit)
    /\ UNCHANGED <<textVars, clickVars, wordVars, knowledgeVars, strip, ghostVars>>

LoseSubmission(w) ==
    /\ submit[w].at # "Idle"
    /\ Put(w, NoSubmit)
    /\ UNCHANGED <<textVars, clickVars, wordVars, knowledgeVars, strip, ghostVars>>

-----------------------------------------------------------------------------
Init ==
    /\ \E a \in Analyses :
          analysis = [x \in Sentences |-> IF ScrollOf[x] \in Stored THEN a ELSE None]
    /\ units = {x \in Sentences : ScrollOf[x] \in Stored}
    /\ segment = UNION {SegmentsOf(sc) : sc \in Stored}
    /\ met = {}
    /\ owner = [s \in Segments |-> None]
    /\ session = [s \in Segments |-> NoSession]
    /\ attestation = [a \in Attestations |-> NoAttestation]
    /\ reading = {} /\ lemma = {} /\ surface = {} /\ knowledge = {}
    /\ attempt = [r \in Readings |-> "None"]
    /\ strip = [p \in Strips |-> NoStrip]
    /\ submit = [w \in Submitters |-> NoSubmit]
    /\ attestedLate = {} /\ demandedLate = {} /\ writtenLate = {}

Click ==
    \E s \in Segments :
        \/ SelectAvailable(s)
        \/ SelectStart(s)
        \/ \E r \in SensesOf[s] : Judge(s, r)
        \/ FailSession(s)
        \/ \E members \in SUBSET Resolvable : CommitResolvedClick(s, members)
        \/ CommitReused(s)

Learn == \E r \in Readings : Publish(r) \/ GiveUp(r) \/ PublishTranslations(r)

StripStep(p) ==
    \/ StripSessions(p) \/ StripSegments(p) \/ GraphStripped(p)
    \/ Describe(p)
    \/ PruneAttempts(p) \/ PruneKnowledge(p) \/ PruneReading(p)
    \/ SkipLemma(p) \/ PruneSurfaces(p) \/ PruneLemma(p)

Stripping ==
    \E p \in Strips :
        \/ \E sc \in Stripped, protected \in Protections : Start(p, sc, protected)
        \/ StripStep(p)
        \/ StopStrip(p)

Submission ==
    \E w \in Submitters :
        \/ \E sc \in Scrolls : SubmitText(w, sc)
        \/ \E a \in Analyses : PersistSubmittedScroll(w, a)
        \/ PersistChangesNothing(w)
        \/ LoseSubmission(w)

Next == Click \/ Learn \/ Stripping \/ Submission

Spec == Init /\ [][Next]_vars

-----------------------------------------------------------------------------
(* Safety.                                                                  *)

\* No Attestation is left without a member Segment, no member without its
\* Attestation: readers throw on either, and a strip deletes the members of one
\* occurrence in several steps.
AttestationsHaveMembers ==
    \A a \in Attestations :
        attestation[a] # NoAttestation <=> \E s \in segment : owner[s] = a

\* A session, an Encounter and a membership never name a deleted Segment.
ClicksNameSegments ==
    \A s \in Segments :
        HasSession(s) \/ s \in met \/ owner[s] # None => s \in segment

\* A Scroll never mixes the Segments of two analyses: a submission that races a
\* strip writes every Sentence or none.
OneAnalysis ==
    \A s, t \in segment :
        ScrollOf[SentenceOf[s]] = ScrollOf[SentenceOf[t]] =>
            analysis[SentenceOf[s]] = analysis[SentenceOf[t]]

\* Every stored Reading has its Lemma, every Attestation of one its Surface,
\* whatever two strips prune beside them and however often the word comes back.
WordsAreWhole ==
    /\ \A r \in reading : LemmaOf[r] \in lemma
    /\ \A a \in Attestations :
          attestation[a].reading \in reading => attestation[a].lemma \in surface \cap lemma

\* An occurrence that was saved when the Readings were described keeps its
\* Reading: only one committed after that can lose it.
OlderOccurrencesKeepReading ==
    \A a \in Attestations :
        attestation[a] # NoAttestation /\ attestation[a].reading \notin reading =>
            a \in attestedLate

\* Pruned Knowledge is not written back by an attempt the strip found: what
\* outlives its Reading was written behind the strip's Knowledge phase, and by
\* an attempt demanded behind its Attempts phase or by no attempt.
PrunedAttemptsWriteNothing == knowledge \ reading \subseteq writtenLate

-----------------------------------------------------------------------------
(* Findings.                                                                *)

\* "a Reading with an Attestation is never pruned" (ownedRowCleanup.ts).
AttestedNeverPruned ==
    \A a \in Attestations :
        attestation[a] # NoAttestation => attestation[a].reading \in reading

\* "Existing Text analysis is incomplete ...; retry after stripping completes"
\* (submission.ts): a Scroll is incomplete only while a strip goes on.
IncompleteOnlyWhileStripping ==
    \A sc \in Scrolls :
        Whole(sc) \/ Bare(sc) \/ \E p \in Strips : strip[p].at = "Graph" /\ strip[p].scroll = sc

=============================================================================
