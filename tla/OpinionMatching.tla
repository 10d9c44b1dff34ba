--------------------------- MODULE OpinionMatching ---------------------------
(***************************************************************************)
(* Which opinion letter answered which sent record: the candidates of the  *)
(* private catalogue and the public corpus, one per letter; the score of a *)
(* letter and its contradictions; the decision; competing claims to one    *)
(* letter; article-only pages; the durable matter behind the address; and  *)
(* the links and resource pages a reader gets while the three inputs and   *)
(* the match are published.                                                *)
(*                                                                         *)
(* The text of a document is a number, SameLetter the pairs that read as   *)
(* one letter; scores are hundredths of a point, credits ten-thousandths.  *)
(***************************************************************************)
EXTENDS TextNormalisation, FiniteSetsExt, TLC

CONSTANTS
    Registers,     \* the states of the register: sets of records
    Catalogues,    \* the states of the private catalogue: sets of letters
    Corpora,       \* the states of the public corpus: documents and pages
    Rarity,        \* Rarity[n][k]: hundredths of the rarity of a word k of n subjects hold
    SameLetter,    \* the pairs of texts that are nearly identical
    MaxSnapshots   \* bound: publications of the three inputs

Nothing == [kind |-> "nothing"]

NoCorpus == [docs |-> {}, pages |-> {}]

IsRecord(r) == FiniteWords(r.topic) /\ {r.received, r.sent_date} \subseteq Nat

IsDocument(d) ==
    FiniteWords(d.subject) /\ {d.blob, d.filename_date, d.detected_date} \subseteq Nat

\* A letter stands once in a catalogue; the rarity is known for as many
\* candidates as there can be.
ASSUME OpinionAssumption ==
    /\ MaxSnapshots \in Nat \ {0}
    /\ \A P \in SameLetter : Cardinality(P) = 2
    /\ \A R \in Registers : \A r \in R : IsRecord(r)
    /\ \A C \in Catalogues :
          /\ IsFiniteSet(C) /\ \A c \in C : IsDocument(c)
          /\ \A c, d \in C : c.blob = d.blob => c = d
    /\ \A P \in Corpora :
          /\ IsFiniteSet(P.docs) /\ \A d \in P.docs : IsDocument(d) /\ d.page_date \in Nat
          /\ IsFiniteSet(P.pages) /\ \A p \in P.pages : FiniteWords(p.title) /\ p.date \in Nat
    /\ \A C \in Catalogues, P \in Corpora \cup {NoCorpus} :
          \A n \in 2..Larger(Cardinality(C) + Cardinality(P.docs), Cardinality(P.pages)) :
             \A k \in 1..n : Rarity[n][k] \in Nat

VARIABLES
    sentRegister,  \* the current register snapshot
    catalogue,     \* the current catalogue snapshot
    corpus,        \* the current corpus snapshot; number 0 before the first
    opinionMatch,  \* the current match snapshot
    opinionRun,    \* the match computed and not yet committed, if any
    matters,       \* the keys of all matters ever met
    ambiguous      \* the keys flagged as claimed by two records

opinionVars == <<sentRegister, catalogue, corpus, opinionMatch, opinionRun, matters, ambiguous>>

(***************************************************************************)
(* Documents.                                                              *)
(***************************************************************************)

NEVER_PRIMARY == {"annex", "supporting", "unknown"}
LATE_DOCUMENT_CLASSES == {"supplementary", "follow_up"}
SECONDARY_ROLE == {"joint", "supplementary", "follow_up", "annex", "supporting"}

\* What a document is, from the vocabularies its filename and its first page
\* use: the two labels that can never lead are read from the filename alone.
ClassifyDocument(subject, header) ==
    CASE "supporting" \in subject -> "supporting"
      [] "supporting" \notin subject /\ "annex" \in subject -> "annex"
      [] OTHER ->
           LET named == subject \cup header
           IN CASE "joint" \in named -> "joint"
                [] "joint" \notin named /\ "supplementary" \in named -> "supplementary"
                [] named \cap {"joint", "supplementary"} = {} /\ "follow_up" \in named
                     -> "follow_up"
                [] OTHER -> IF "opinion" \in named THEN "opinion" ELSE "unknown"

Class(d) == ClassifyDocument(d.subjectKinds, d.headerKinds)

DatesOf(d) == {d.filename_date, d.detected_date} \ {NoDate}

\* The private letter a public document republishes: the same bytes, the same
\* text, or nearly the same text dated within the same week.
TwinsOf(d, letters) ==
    LET bytes == {l \in letters : l.blob = d.blob}
        texts == {l \in letters : l.text = d.text}
        near  == {l \in letters :
                    /\ {l.text, d.text} \in SameLetter
                    /\ \E a \in DatesOf(l), b \in DatesOf(d) : Distance(a, b) <= 7}
    IN CASE bytes # {} -> bytes
         [] bytes = {} /\ texts # {} -> texts
         [] OTHER -> near

Candidate(d, published, filed, public) ==
    [kind |-> "document", blob |-> d.blob, class |-> Class(d), text |-> d.text,
     dates |-> DatesOf(d), first |-> IF d.filename_date # NoDate THEN d.filename_date
                                     ELSE d.detected_date,
     published |-> published, filed |-> filed, public |-> public,
     subject |-> d.subject, body |-> d.body, recipient |-> d.recipient,
     identifiers |-> d.identifiers, acronyms |-> d.acronyms]

Least(S) == CHOOSE d \in S : \A e \in S : d.blob <= e.blob

\* One candidate per letter.  A public document joins the letter it
\* republishes, or becomes a candidate of its own; the first of several that
\* republish one letter lends it the date of its page.
Joined(l, joining) ==
    IF joining = {} THEN Candidate(l, NoDate, TRUE, FALSE)
    ELSE Candidate(l, Least(joining).page_date, TRUE, TRUE)

CandidatesOf(filed, published, twins) ==
    LET alone == {d \in published : twins[d] = {}}
    IN {Joined(l, {d \in published \ alone : Least(twins[d]) = l}) : l \in filed}
       \cup {Candidate(d, d.page_date, FALSE, TRUE) :
               d \in {e \in alone : e = Least({f \in alone : f.blob = e.blob})}}

Candidates(letters, docs) ==
    LET filed     == {l \in letters : l.usable}
        published == {d \in docs : d.usable /\ d.present}
    IN CandidatesOf(filed, published, [d \in published |-> TwinsOf(d, filed)])

\* Article-only pages, shaped for the same scorer.
PageCandidates(pages) ==
    {[kind |-> "page", blob |-> -p.id, class |-> "opinion", text |-> 0, dates |-> {},
      first |-> NoDate, published |-> p.date, filed |-> FALSE, public |-> TRUE, subject |-> p.title,
      body |-> p.body, recipient |-> {}, identifiers |-> p.identifiers,
      acronyms |-> p.acronyms] : p \in {q \in pages : q.present /\ q.body # {}}}

(***************************************************************************)
(* One letter against one record.                                          *)
(***************************************************************************)

EvidenceDates(c) == c.dates \cup ({c.published} \ {NoDate})

Undated == 1000000

Gap(r, c) == IF EvidenceDates(c) = {} THEN Undated
             ELSE Min({Distance(d, r.sent_date) : d \in EvidenceDates(c)})

DateCredit(r, c) ==
    LET gap == Gap(r, c)
    IN IF gap <= 3 THEN Whole
       ELSE IF gap <= 30 THEN Whole - Ratio(gap - 3, 27) ELSE 0

RarityOf(w, field) ==
    LET n == Cardinality(field)
        k == Cardinality({c \in field : w \in Significant(c.subject)})
    IN IF n <= 1 \/ k = 0 THEN 100 ELSE Rarity[n][k]

Shared(r, c) == Significant(r.topic) \cap Significant(c.subject)

RarityCredit(r, c, field) ==
    LET sum(S) == MapThenSumSet(LAMBDA w : RarityOf(w, field), S)
    IN Ratio(sum(Shared(r, c)), sum(Significant(r.topic)))

SubjectCredit(r, c) ==
    LET topic == Significant(r.topic)
        alike == Larger(Dice(topic, Significant(c.subject)),
                        Dice(Ngrams(r.topic), Ngrams(c.subject)))
        body  == Ratio(Cardinality(topic \cap Significant(c.body)), Cardinality(topic))
    IN IF body > 6000 THEN Larger(alike, (9 * body) \div 10) ELSE alike

InstrumentCredit(r, c) ==
    CASE r.identifiers \cap c.identifiers # {} -> Whole
      [] OTHER -> IF r.acronyms \cap c.acronyms # {} THEN 8000 ELSE 0

RecipientCredit(r, c) ==
    IF /\ r.recipient # {} /\ c.recipient # {}
       /\ r.recipient \subseteq c.recipient \/ c.recipient \subseteq r.recipient
    THEN Whole ELSE 0

\* Contradictions end the scoring: the letter is not used at all.
Contradicted(r, c) ==
    \/ /\ Gap(r, c) > 90 /\ Gap(r, c) # Undated
       /\ c.class \notin LATE_DOCUMENT_CLASSES
    \/ r.received # NoDate /\ c.dates # {} /\ Min(c.dates) < r.received
    \/ /\ r.identifiers # {} /\ c.identifiers # {}
       /\ r.identifiers \cap c.identifiers = {}
    \/ Shared(r, c) = {} /\ InstrumentCredit(r, c) = 0 /\ SubjectCredit(r, c) < 3500

\* The credits over the weights that apply.
Score(r, c, field) ==
    LET date       == IF c.dates # {} THEN 34 ELSE 0
        instrument == IF r.identifiers \cup r.acronyms # {} THEN 18 ELSE 0
        recipient  == IF r.recipient # {} /\ c.recipient # {} THEN 10 ELSE 0
        total      == date * DateCredit(r, c) + 26 * SubjectCredit(r, c)
                        + instrument * InstrumentCredit(r, c)
                        + 12 * RarityCredit(r, c, field)
                        + recipient * RecipientCredit(r, c)
    IN HalfUp(total, date + 26 + instrument + 12 + recipient)

THRESHOLD_MATCH == 7000
THRESHOLD_AMBIGUOUS == 4500
MIN_MARGIN == 1200
GROUPING_DAYS == 10

(***************************************************************************)
(* Decisions, competing claims and relations.                              *)
(***************************************************************************)

OpinionEligible(r) == r.sent /\ r.sent_date # NoDate

MatterKey(r) == <<r.topic, r.received>>

Collisions(records) ==
    {MatterKey(r) : r \in {q \in records : \E o \in records \ {q} :
                                              MatterKey(o) = MatterKey(q)}}

Best(r, S, field) ==
    CHOOSE c \in S : \A d \in S : Score(r, c, field) >= Score(r, d, field)

\* The candidate of S that is clear of all the others, or Nothing.
BestScore(r, S, field) == IF S = {} THEN 0 ELSE Score(r, Best(r, S, field), field)

Lead(best, score, runner) ==
    IF score >= THRESHOLD_MATCH /\ score - runner >= MIN_MARGIN THEN best ELSE Nothing

LeadOf(best, r, S, field) == Lead(best, Score(r, best, field), BestScore(r, S \ {best}, field))

Clear(r, S, field) == IF S = {} THEN Nothing ELSE LeadOf(Best(r, S, field), r, S, field)

Leaders(r, field) == {c \in field : ~Contradicted(r, c) /\ c.class \notin NEVER_PRIMARY}

\* The documents that belong with the winner rather than compete with it.
Group(r, primary, field) ==
    {c \in field \ {primary} :
       /\ ~Contradicted(r, c)
       /\ c.class \in SECONDARY_ROLE
       /\ primary.first # NoDate /\ c.first # NoDate
            => Distance(c.first, primary.first) <= GROUPING_DAYS
       /\ Score(r, c, field) >= THRESHOLD_AMBIGUOUS}

\* The stronger claim: the closer date, then the higher score.
Stronger(r, q, c, field) ==
    \/ Gap(r, c) < Gap(q, c)
    \/ Gap(r, c) = Gap(q, c) /\ Score(r, c, field) > Score(q, c, field)

\* A mutant: every claim stands.
EveryClaimStands(claim, field) == claim

\* Of several records that claim one letter the strongest keeps it; when the
\* strongest two are equal none does.
ResolveCompetingPrimaries(claim, field) ==
    [r \in DOMAIN claim |->
       IF claim[r] = Nothing THEN Nothing
       ELSE IF \A q \in DOMAIN claim \ {r} :
                 claim[q] = claim[r] => Stronger(r, q, claim[r], field)
            THEN claim[r] ELSE Nothing]

\* The confident article-only page of each record no letter answered.
PageClaims(records, primary, pages) ==
    LET near(r, p) == IF primary[r] = Nothing /\ p # Nothing /\ Gap(r, p) <= 30 THEN p ELSE Nothing
    IN ResolveCompetingPrimaries(
         [r \in records |-> near(r, Clear(r, {p \in pages : ~Contradicted(r, p)}, pages))], pages)

\* What a run computes from its three inputs and the flags it finds.
Claims(items, field, flagged) ==
    [r \in items |-> IF MatterKey(r) \in flagged THEN Nothing
                     ELSE Clear(r, Leaders(r, field), field)]

Relations(items, field, primary, pages) ==
    [primary |-> primary,
     secondary |-> [r \in items |-> IF primary[r] = Nothing THEN {} ELSE Group(r, primary[r], field)],
     page |-> PageClaims(items, primary, pages)]

Planned(items, field, flagged, pages) ==
    Relations(items, field, ResolveCompetingPrimaries(Claims(items, field, flagged), field), pages)

Generate(reg, cat, cor, flagged) ==
    LET plan == Planned({r \in reg.rows : OpinionEligible(r)}, Candidates(cat.rows, cor.docs),
                        flagged, PageCandidates(cor.pages))
    IN  [no |-> opinionMatch.no + 1, legal |-> reg.no, catalogue |-> cat.no, corpus |-> cor.no,
         primary |-> plan.primary, secondary |-> plan.secondary, page |-> plan.page]

(***************************************************************************)
(* Publications and match runs.                                            *)
(***************************************************************************)

NoMatch == [no |-> 0, legal |-> 0, catalogue |-> 0, corpus |-> 0,
            primary |-> <<>>, secondary |-> <<>>, page |-> <<>>]

OpinionInit ==
    /\ sentRegister = [no |-> 0, rows |-> {}]
    /\ catalogue = [no |-> 0, rows |-> {}]
    /\ corpus = [no |-> 0, docs |-> {}, pages |-> {}]
    /\ opinionMatch = NoMatch
    /\ opinionRun = {}
    /\ matters = {} /\ ambiguous = {}

MayPublish == sentRegister.no + catalogue.no + corpus.no < MaxSnapshots

PublishRegister ==
    /\ MayPublish
    /\ \E R \in Registers : sentRegister' = [no |-> sentRegister.no + 1, rows |-> R]
    /\ UNCHANGED <<catalogue, corpus, opinionMatch, opinionRun, matters, ambiguous>>

PublishCatalogue ==
    /\ MayPublish
    /\ \E C \in Catalogues : catalogue' = [no |-> catalogue.no + 1, rows |-> C]
    /\ UNCHANGED <<sentRegister, corpus, opinionMatch, opinionRun, matters, ambiguous>>

PublishCorpus ==
    /\ MayPublish
    /\ \E C \in Corpora : corpus' = [no |-> corpus.no + 1, docs |-> C.docs, pages |-> C.pages]
    /\ UNCHANGED <<sentRegister, catalogue, opinionMatch, opinionRun, matters, ambiguous>>

\* Reads the inputs; without a register or a catalogue, or when the current
\* match is of the same three inputs, there is nothing to do.
RunOpinionMatching ==
    /\ opinionRun = {}
    /\ sentRegister.no # 0 /\ catalogue.no # 0
    /\ ~(/\ opinionMatch.legal = sentRegister.no /\ opinionMatch.catalogue = catalogue.no
         /\ opinionMatch.corpus = corpus.no)
    /\ opinionRun' = {[register |-> sentRegister, catalogue |-> catalogue, corpus |-> corpus]}
    /\ UNCHANGED <<sentRegister, catalogue, corpus, opinionMatch, matters, ambiguous>>

\* A key once claimed by two records stays flagged.
Flags(keys) == ambiguous \cup keys

\* One transaction: the matters and their flags, the decisions, the relations
\* and the switch of the current snapshot.
CommitOpinionMatching ==
    /\ opinionRun # {}
    /\ LET run   == CHOOSE x \in opinionRun : TRUE
           items == {r \in run.register.rows : OpinionEligible(r)}
       IN /\ matters' = matters \cup {MatterKey(r) : r \in items}
          /\ ambiguous' = Flags(Collisions(items))
          /\ opinionMatch' = Generate(run.register, run.catalogue, run.corpus, ambiguous')
    /\ opinionRun' = {}
    /\ UNCHANGED <<sentRegister, catalogue, corpus>>

\* A failing run rolls everything back and keeps the last good snapshot.
RunFails ==
    /\ opinionRun # {}
    /\ opinionRun' = {}
    /\ UNCHANGED <<sentRegister, catalogue, corpus, opinionMatch, matters, ambiguous>>

OpinionNext ==
    \/ PublishRegister \/ PublishCatalogue \/ PublishCorpus
    \/ RunOpinionMatching \/ CommitOpinionMatching \/ RunFails

OpinionSpec == OpinionInit /\ [][OpinionNext]_opinionVars

(***************************************************************************)
(* What a reader gets.                                                     *)
(***************************************************************************)

\* Every provenance a document carries must be of the current snapshots.
ProvenanceIsCurrent(c) ==
    /\ c.filed => opinionMatch.catalogue = catalogue.no
    /\ c.public => opinionMatch.corpus = corpus.no

MatchIsCurrent == opinionMatch.no # 0 /\ opinionMatch.legal = sentRegister.no

PrimaryShown(r) ==
    IF /\ MatchIsCurrent /\ r \in DOMAIN opinionMatch.primary /\ opinionMatch.primary[r] # Nothing
       /\ ProvenanceIsCurrent(opinionMatch.primary[r])
    THEN opinionMatch.primary[r] ELSE Nothing

PageShown(r) ==
    IF /\ MatchIsCurrent /\ r \in DOMAIN opinionMatch.page /\ opinionMatch.page[r] # Nothing
       /\ opinionMatch.corpus = corpus.no
    THEN opinionMatch.page[r] ELSE Nothing

\* The documents of a record a viewer may see, the companions among them.
CurrentRelations(r) ==
    IF MatchIsCurrent /\ OpinionEligible(r) /\ r \in DOMAIN opinionMatch.primary
    THEN {c \in ({opinionMatch.primary[r]} \cup opinionMatch.secondary[r]) \ {Nothing} :
            ProvenanceIsCurrent(c)}
    ELSE {}

\* opinion_document serves a stored letter to whoever holds its address, as
\* long as some current relation names it; the flag is not asked.
Served == UNION {CurrentRelations(r) : r \in sentRegister.rows}

\* resolve_opinion_links: the sent records of the register with an address,
\* which is the resource of their matter.
Linked == {r \in sentRegister.rows :
             /\ OpinionEligible(r) /\ MatterKey(r) \notin ambiguous
             /\ PrimaryShown(r) # Nothing \/ PageShown(r) # Nothing}

\* opinion_resource: what stands under the address of a matter - its letter and
\* all companions, each as long as its own provenance is current, and beside them
\* the article one of the public letters was published on, or else an article
\* without a letter.  The flag of the matter refuses the whole page.
ResourceShows(key) ==
    LET own     == {r \in sentRegister.rows : OpinionEligible(r) /\ MatterKey(r) = key}
        letters == UNION {CurrentRelations(r) : r \in own}
        pages   == {PageShown(r) : r \in own} \ {Nothing}
    IN IF key \in ambiguous THEN {}
       ELSE letters \cup (IF \E c \in letters : c.public THEN {} ELSE pages)

(***************************************************************************)
(* Properties.                                                             *)
(***************************************************************************)

\* The reference: the letter answers the record and no other letter nearly so.
Answers(r, c, field) ==
    /\ c \in field /\ c.class \notin NEVER_PRIMARY /\ ~Contradicted(r, c)
    /\ Score(r, c, field) >= THRESHOLD_MATCH
    /\ \A d \in field \ {c} : \/ Contradicted(r, d) \/ d.class \in NEVER_PRIMARY
                              \/ Score(r, c, field) - Score(r, d, field) >= MIN_MARGIN

Republishes(d, l) ==
    \/ d.blob = l.blob \/ d.text = l.text
    \/ {d.text, l.text} \in SameLetter /\ \E a \in d.dates, b \in l.dates : Distance(a, b) <= 7

\* One letter is one candidate, however often it is republished (_candidates).
LetterIsOneCandidate ==
    \A c, d \in Candidates(catalogue.rows, corpus.docs) :
      c.filed /\ ~d.filed => ~Republishes(d, c)

InSync == /\ opinionMatch.legal = sentRegister.no /\ opinionMatch.catalogue = catalogue.no
          /\ opinionMatch.corpus = corpus.no

\* A linked record is answered by a letter clear of all others, or by an
\* article of its days when no letter answers it alone (_decide,
\* _planned_page_relations).
LinkIsAnswered ==
    InSync => \A field \in {Candidates(catalogue.rows, corpus.docs)} : \A r \in Linked :
         IF PrimaryShown(r) # Nothing THEN Answers(r, PrimaryShown(r), field)
         ELSE /\ Gap(r, PageShown(r)) <= 30
              /\ ~\E c \in field : /\ Answers(r, c, field)
                                   /\ \A q \in sentRegister.rows \ {r} :
                                        q.sent => ~Answers(q, c, field)

\* One letter leads one record (_resolve_competing_primaries).
LetterLeadsOne ==
    \A r, q \in Linked : r # q /\ PrimaryShown(r) # Nothing => PrimaryShown(r) # PrimaryShown(q)

\* A key that two sent records share has no address, and no letter is served
\* under it although opinion_document does not ask for the flag.
SharedKeyIsDark ==
    /\ \A r \in Linked : \A q \in sentRegister.rows \ {r} :
         OpinionEligible(q) => MatterKey(q) # MatterKey(r)
    /\ \A r \in sentRegister.rows : CurrentRelations(r) # {} => MatterKey(r) \notin ambiguous

\* The letter that answered a record was published again since.
LeaderReplaced(r) ==
    /\ r \in DOMAIN opinionMatch.primary /\ opinionMatch.primary[r] # Nothing
    /\ ~ProvenanceIsCurrent(opinionMatch.primary[r])

\* What is served contradicts no record it is served for.  What an address
\* shows contradicts no sent record of its own matter, one the pages link to:
\* only companions of a letter that was published again may outlast the link
\* (opinion_resource, resolve_opinion_links).
AddressShowsItsMatter ==
    /\ \A c \in Served : \E r \in sentRegister.rows : r.sent /\ ~Contradicted(r, c)
    /\ \A key \in matters : \A c \in ResourceShows(key) :
         \E r \in sentRegister.rows :
            /\ OpinionEligible(r) /\ MatterKey(r) = key /\ ~Contradicted(r, c)
            /\ \/ r \in Linked
               \/ LeaderReplaced(r) /\ c \in opinionMatch.secondary[r]

\* The links of sent records: one candidate per letter, one clear answer per
\* link, one record per letter, no address for a shared key, no stale page
\* (resolve_opinion_links and the matcher behind it).
OpinionsAreDeserved ==
    /\ LetterIsOneCandidate /\ LinkIsAnswered /\ LetterLeadsOne
    /\ SharedKeyIsDark /\ AddressShowsItsMatter
=============================================================================
