---------------------------- MODULE TopicMatching ----------------------------
(***************************************************************************)
(* From the legal register and the Hetkel kaesil pages to the address a    *)
(* reader can click: the matcher of the current listing, the matcher of    *)
(* the archive behind it, and the page that resolves its links in three    *)
(* queries while registers, listings, archives and matches are published.  *)
(*                                                                         *)
(* Scores are hundredths of a point.  Evidence codes that decide nothing   *)
(* are left out; SnapshotRetention has the publication of match snapshots. *)
(***************************************************************************)
EXTENDS TextNormalisation, FiniteSetsExt

CONSTANTS
    LegalRegisters,  \* the states of the register: sets of records
    Listings,        \* the states of the current listing: sets of entries
    Archives,        \* the states of the archive: sets of entries
    Idf,             \* Idf[n][k]: hundredths of the idf of a word that k of n texts hold
    Publishable,     \* the addresses that may be rendered
    MaxTopicSnapshots \* bound: publications of the three inputs

NoUrl == "no link"
NotMatched == "unmatched"

IsTopicRecord(r) == FiniteWords(r.topic) /\ {r.received, r.deadline} \subseteq Nat

IsEntry(e) ==
    /\ FiniteWords(e.head) /\ FiniteWords(e.body)
    /\ e.key \in Nat /\ {e.published, e.deadline} \subseteq Nat
    /\ e.url \notin {NoUrl, NotMatched}

\* A record and an entry stand once in their snapshot; the idf is known for as
\* many entries as a corpus has.
ASSUME LinkAssumption ==
    /\ MaxTopicSnapshots \in Nat \ {0}
    /\ NoUrl \notin Publishable /\ NotMatched \notin Publishable
    /\ \A R \in LegalRegisters :
          /\ \A r \in R : IsTopicRecord(r)
          /\ \A r, s \in R : r.id = s.id => r = s
    /\ \A C \in Listings \cup Archives :
          /\ IsFiniteSet(C) /\ \A e \in C : IsEntry(e)
          /\ \A e, f \in C : e.key = f.key => e = f
          /\ \A n \in 1..Cardinality(C) : \A k \in 1..n : Idf[n][k] \in Nat

VARIABLES
    register,      \* the current register snapshot
    listing,       \* the current snapshot of the listing
    archive,       \* the current snapshot of the archive
    currentMatch,  \* the current match snapshot of the listing
    archiveMatch,  \* the current match snapshot of the archive
    running,       \* the match snapshots computed and not yet committed
    page           \* the page being rendered

topicVars == <<register, listing, archive, currentMatch, archiveMatch, running, page>>

(***************************************************************************)
(* Signals.                                                                *)
(***************************************************************************)

Tokens(e) == e.head \cup e.body

Contained(needle, haystack) == Ratio(Cardinality(needle \cap haystack),
                                     Cardinality(needle))

\* The better of two readings: the headlines, and the record's own wording
\* anywhere on the page.
NgramSignal(r, e) ==
    Larger(Dice(Ngrams(r.topic), Ngrams(e.head)),
           Contained(Ngrams(Significant(r.topic)), Ngrams(Tokens(e))))

Holding(word, corpus) == {e \in corpus : word \in Tokens(e)}

\* The rarity of a word over the corpus; a word no entry holds is as rare as
\* the rarest.
InverseDocumentFrequency(word, corpus) ==
    LET seen == UNION {Tokens(e) : e \in corpus}
        idf(w) == Idf[Cardinality(corpus)][Cardinality(Holding(w, corpus))]
    IN CASE word \in seen -> idf(word)
         [] word \notin seen /\ seen # {} -> Max({idf(w) : w \in seen})
         [] OTHER -> 100

\* Ordinary vocabulary counts for less.
WeightOf(rules, word, corpus) ==
    InverseDocumentFrequency(word, corpus) * (IF word \in Generic THEN rules.damping ELSE 100)

RarityCoverage(rules, r, e, corpus) ==
    LET weight(w) == WeightOf(rules, w, corpus)
    IN Ratio(MapThenSumSet(weight, r.topic \cap Tokens(e)),
             MapThenSumSet(weight, r.topic))

SharedWords(r, e) == Significant(r.topic) \cap Significant(Tokens(e))

\* Words of the record that one entry alone uses; three of them saturate.
UniqueTokenSignal(r, e, corpus) ==
    LET hits == Cardinality({w \in SharedWords(r, e) : Cardinality(Holding(w, corpus)) = 1})
    IN Ratio(IF hits < 3 THEN hits ELSE 3, 3)

DeadlineApplies(r, e) == r.deadline # NoDate /\ e.deadline # NoDate

DeadlineSignal(r, e) ==
    LET gap == Distance(e.deadline, r.deadline)
    IN CASE ~DeadlineApplies(r, e) -> 0
         [] DeadlineApplies(r, e) /\ gap = 0 -> Whole
         [] DeadlineApplies(r, e) /\ gap \in 1..3 -> 7000
         [] OTHER -> 0

OrganizationApplies(r, e) == r.organization # {} /\ e.organization # {}

OrganizationSignal(r, e) ==
    CASE ~OrganizationApplies(r, e) -> 0
      [] OrganizationApplies(r, e) /\ r.organization = e.organization -> Whole
      [] OTHER -> IF r.organization \cap e.organization # {} THEN 6000 ELSE 0

\* The weighted signals over the weights that apply.
PairScore(rules, r, e, corpus) ==
    LET deadline     == IF DeadlineApplies(r, e) THEN rules.deadline ELSE 0
        organization == IF OrganizationApplies(r, e) THEN rules.organization ELSE 0
        weighted     == rules.ngram * NgramSignal(r, e)
                          + rules.rarity * RarityCoverage(rules, r, e, corpus)
                          + rules.unique * UniqueTokenSignal(r, e, corpus)
                          + deadline * DeadlineSignal(r, e)
                          + organization * OrganizationSignal(r, e)
    IN HalfUp(weighted, rules.ngram + rules.rarity + rules.unique + deadline + organization)

(***************************************************************************)
(* Contradictions stop a pair at any score.                                *)
(***************************************************************************)

Contradictions(r, e) ==
    {c \in {"deadline", "chronology", "organization", "generic", "identifier", "rare"} :
       CASE c = "deadline" -> DeadlineApplies(r, e) /\ Distance(e.deadline, r.deadline) > 14
         [] c = "chronology" -> /\ r.received # NoDate /\ e.published # NoDate
                                /\ r.received - e.published > 60
         [] c = "organization" -> /\ OrganizationApplies(r, e)
                                  /\ r.organization \cap e.organization = {}
                                  /\ SharedWords(r, e) = {}
         [] c = "generic" -> /\ SharedWords(r, e) = {}
                             /\ r.topic \cap Tokens(e) # {}
                             /\ r.topic \cap Tokens(e) \subseteq Generic
         [] c = "identifier" -> /\ r.identifiers # {} /\ e.identifiers # {}
                                /\ r.identifiers \cap e.identifiers = {}
         [] c = "rare" -> SharedWords(r, e) = {} /\ r.identifiers \cap e.identifiers = {}}

IsBlocked(rules, r, e) == Contradictions(r, e) \cap rules.blocking # {}

CurrentRules ==
    [ngram |-> 30, rarity |-> 30, unique |-> 20, deadline |-> 12, organization |-> 8,
     damping |-> 25, auto |-> 6200, plausible |-> 3800, margin |-> 1200,
     blocking |-> {"deadline", "chronology", "organization", "generic"}]

ArchiveRules ==
    [ngram |-> 26, rarity |-> 32, unique |-> 24, deadline |-> 8, organization |-> 10,
     damping |-> 15, auto |-> 7200, plausible |-> 4800, margin |-> 1800,
     blocking |-> {"deadline", "chronology", "organization", "generic",
                   "identifier", "rare"}]

(***************************************************************************)
(* One decision about one record.                                          *)
(***************************************************************************)

\* The order of candidates: by score, equal scores by content key.
Ahead(a, b, e, f) == a > b \/ (a = b /\ e.key <= f.key)

Precedes(rules, r, corpus, e, f) ==
    Ahead(PairScore(rules, r, e, corpus), PairScore(rules, r, f, corpus), e, f)

First(rules, r, corpus, S) ==
    CHOOSE e \in S : \A f \in S : Precedes(rules, r, corpus, e, f)

\* The address of a matched decision, or NotMatched for the other two: only
\* a matched one is ever read again.
Decision(rules, best, score, runner) ==
    IF score >= rules.auto /\ score - runner >= rules.margin THEN best.url ELSE NotMatched

ScoreOfFirst(rules, r, corpus, S) ==
    IF S = {} THEN 0 ELSE PairScore(rules, r, First(rules, r, corpus, S), corpus)

DecideFor(rules, r, corpus, best, field) ==
    Decision(rules, best, PairScore(rules, r, best, corpus),
             ScoreOfFirst(rules, r, corpus, field \ {best}))

DecideAmong(rules, r, corpus, field) ==
    IF field = {} THEN NotMatched
    ELSE DecideFor(rules, r, corpus, First(rules, r, corpus, field), field)

DecideRecord(rules, r, corpus) ==
    DecideAmong(rules, r, corpus,
                {e \in corpus : /\ PairScore(rules, r, e, corpus) >= rules.plausible
                                /\ ~IsBlocked(rules, r, e)})

ConsultationEligible(r) == r.open /\ ~r.sent

MatchAll(records, corpus) ==
    [r \in {q \in records : ConsultationEligible(q)} |-> DecideRecord(CurrentRules, r, corpus)]

\* The archive entries the archive matcher weighs: read, present, and not on
\* the listing the current matcher judged.
Usable(corpus, excluded) ==
    {e \in corpus : e.hydrated /\ e.present /\ e.url \notin {f.url : f \in excluded}}

MatchArchive(records, corpus) == [r \in records |-> DecideRecord(ArchiveRules, r, corpus)]

(***************************************************************************)
(* Publications and match runs.                                            *)
(***************************************************************************)

NoSnapshot == [no |-> 0, rows |-> {}]
NoCurrentMatch == [no |-> 0, legal |-> 0, topics |-> NoSnapshot, decisions |-> <<>>]
NoArchiveMatch == [legal |-> 0, archive |-> NoSnapshot, match |-> 0, decisions |-> <<>>]
BlankPage == [pc |-> "none", shows |-> NoSnapshot, links |-> <<>>]

TopicInit ==
    /\ register = NoSnapshot /\ listing = NoSnapshot /\ archive = NoSnapshot
    /\ currentMatch = NoCurrentMatch /\ archiveMatch = NoArchiveMatch
    /\ running = [current |-> {}, archive |-> {}]
    /\ page = BlankPage

Succeeding(snapshot, rows) == [no |-> snapshot.no + 1, rows |-> rows]

MayPublishMore == register.no + listing.no + archive.no < MaxTopicSnapshots

PublishLegalRegister ==
    /\ MayPublishMore
    /\ \E R \in LegalRegisters : register' = Succeeding(register, R)
    /\ UNCHANGED <<listing, archive, currentMatch, archiveMatch, running, page>>

PublishListing ==
    /\ MayPublishMore
    /\ \E L \in Listings : listing' = Succeeding(listing, L)
    /\ UNCHANGED <<register, archive, currentMatch, archiveMatch, running, page>>

PublishArchive ==
    /\ MayPublishMore
    /\ \E A \in Archives : archive' = Succeeding(archive, A)
    /\ UNCHANGED <<register, listing, currentMatch, archiveMatch, running, page>>

\* Reads the two current inputs and decides every eligible record.
RunCurrentMatching ==
    /\ running.current = {}
    /\ register.no # 0 /\ listing.no # 0
    /\ ~(currentMatch.legal = register.no /\ currentMatch.topics.no = listing.no)
    /\ running' = [running EXCEPT !.current =
                     {[no |-> currentMatch.no + 1, legal |-> register.no, topics |-> listing,
                       decisions |-> MatchAll(register.rows, listing.rows)]}]
    /\ UNCHANGED <<register, listing, archive, currentMatch, archiveMatch, page>>

CommitCurrentMatching ==
    /\ running.current # {}
    /\ currentMatch' = CHOOSE m \in running.current : TRUE
    /\ running' = [running EXCEPT !.current = {}]
    /\ UNCHANGED <<register, listing, archive, archiveMatch, page>>

\* The fallback: only over the register the current matching was computed
\* from, and only the records it left unmatched.
RunArchiveMatching ==
    /\ running.archive = {}
    /\ register.no # 0 /\ archive.no # 0 /\ currentMatch.no # 0
    /\ currentMatch.legal = register.no
    /\ ~(/\ archiveMatch.legal = register.no
         /\ archiveMatch.archive.no = archive.no
         /\ archiveMatch.match = currentMatch.no)
    /\ LET matched == {r \in DOMAIN currentMatch.decisions :
                         currentMatch.decisions[r] # NotMatched}
           left    == {r \in register.rows : ConsultationEligible(r)} \ matched
       IN running' = [running EXCEPT !.archive =
                        {[legal |-> register.no, archive |-> archive,
                          match |-> currentMatch.no,
                          decisions |-> MatchArchive(left, Usable(archive.rows,
                                                       currentMatch.topics.rows))]}]
    /\ UNCHANGED <<register, listing, archive, currentMatch, archiveMatch, page>>

CommitArchiveMatching ==
    /\ running.archive # {}
    /\ archiveMatch' = CHOOSE m \in running.archive : TRUE
    /\ running' = [running EXCEPT !.archive = {}]
    /\ UNCHANGED <<register, listing, archive, currentMatch, page>>

\* A run that dies before its transaction commits leaves nothing.
RunDies ==
    /\ running # [current |-> {}, archive |-> {}]
    /\ \/ running' = [running EXCEPT !.current = {}]
       \/ running' = [running EXCEPT !.archive = {}]
    /\ running' # running
    /\ UNCHANGED <<register, listing, archive, currentMatch, archiveMatch, page>>

(***************************************************************************)
(* The page: the records of the current register, then three queries.      *)
(***************************************************************************)

\* The records of the page that no query has answered yet.
Unanswered == {r \in page.shows.rows : page.links[r] = NoUrl}

\* The opinion links of sent records come from OpinionMatching.
OpenPage ==
    /\ page.pc \in {"none", "shown"}
    /\ \E answered \in SUBSET {r \in register.rows : r.sent} :
         page' = [pc |-> "current", shows |-> register,
                  links |-> [r \in register.rows |->
                               IF r \in answered THEN "opinion" ELSE NoUrl]]
    /\ UNCHANGED <<register, listing, archive, currentMatch, archiveMatch, running>>

\* What a query answers for the records without an answer.
Answered(offers) ==
    [r \in page.shows.rows |->
       IF r \in Unanswered /\ r \in DOMAIN offers /\ offers[r] \in Publishable
       THEN offers[r] ELSE page.links[r]]

\* The matched decisions the current listing may publish: of the very
\* snapshots that are current, for the very rows on the page.
TopicOffers ==
    IF /\ currentMatch.no # 0
       /\ currentMatch.legal = register.no
       /\ currentMatch.topics.no = listing.no
       /\ page.shows.no = currentMatch.legal
    THEN [r \in {q \in DOMAIN currentMatch.decisions : ConsultationEligible(q)} |->
            currentMatch.decisions[r]]
    ELSE <<>>

ResolveTopicLinks ==
    /\ page.pc = "current"
    /\ page' = [page EXCEPT !.pc = "archive", !.links = Answered(TopicOffers)]
    /\ UNCHANGED <<register, listing, archive, currentMatch, archiveMatch, running>>

\* A mutant: the fallback no longer tied to the match it deferred to.
ArchiveOffersAlone ==
    IF /\ archiveMatch.legal # 0
       /\ archiveMatch.legal = register.no
       /\ archiveMatch.archive.no = archive.no
       /\ page.shows.no = archiveMatch.legal
    THEN archiveMatch.decisions
    ELSE <<>>

ArchiveOffers ==
    IF /\ archiveMatch.legal # 0
       /\ archiveMatch.legal = register.no
       /\ archiveMatch.archive.no = archive.no
       /\ archiveMatch.match = currentMatch.no
       /\ currentMatch.legal = archiveMatch.legal
       /\ page.shows.no = archiveMatch.legal
    THEN [r \in {q \in DOMAIN archiveMatch.decisions : ConsultationEligible(q)} |->
            archiveMatch.decisions[r]]
    ELSE <<>>

ResolveArchiveLinks ==
    /\ page.pc = "archive"
    /\ page' = [page EXCEPT !.pc = "shown", !.links = Answered(ArchiveOffers)]
    /\ UNCHANGED <<register, listing, archive, currentMatch, archiveMatch, running>>

TopicNext ==
    \/ PublishLegalRegister \/ PublishListing \/ PublishArchive
    \/ RunCurrentMatching \/ CommitCurrentMatching
    \/ RunArchiveMatching \/ CommitArchiveMatching
    \/ RunDies
    \/ OpenPage \/ ResolveTopicLinks \/ ResolveArchiveLinks

TopicSpec == TopicInit /\ [][TopicNext]_topicVars

(***************************************************************************)
(* Properties.                                                             *)
(***************************************************************************)

\* The reference: e is the one entry of the corpus that answers the record.
EntryAnswers(rules, r, corpus, url) ==
    \E e \in corpus :
      /\ e.url = url
      /\ ~IsBlocked(rules, r, e)
      /\ PairScore(rules, r, e, corpus) >= rules.auto
      /\ \A f \in corpus \ {e} :
           \/ IsBlocked(rules, r, f)
           \/ PairScore(rules, r, f, corpus) < rules.plausible
           \/ PairScore(rules, r, e, corpus) - PairScore(rules, r, f, corpus) >= rules.margin

Offered(r) == page.links[r] = NoUrl /\ page'.links[r] # NoUrl

LinkStep ==
    \A r \in page.shows.rows :
      /\ /\ page.pc = "current" /\ page.shows.no = register.no /\ r.open /\ ~r.sent
         /\ currentMatch.legal = register.no /\ currentMatch.topics = listing
         /\ \E e \in listing.rows : /\ e.url \in Publishable
                                    /\ EntryAnswers(CurrentRules, r, listing.rows, e.url)
         => page'.links[r] # NoUrl
      /\ Offered(r) =>
        /\ r \in register.rows /\ page.shows.no = register.no
        /\ r.open /\ ~r.sent
        /\ page.pc = "current" => EntryAnswers(CurrentRules, r, listing.rows, page'.links[r])
        /\ page.pc = "archive" =>
             LET judged == currentMatch.topics.rows
             IN /\ ~\E e \in judged : EntryAnswers(CurrentRules, r, judged, e.url)
                /\ page'.links[r] \notin {e.url : e \in judged}
                /\ EntryAnswers(ArchiveRules, r, Usable(archive.rows, judged), page'.links[r])

\* An address appears beside a record only while the matches are of the very
\* register, listing and archive that are current, and only if exactly one
\* entry answers the record under the rules of its corpus, and a record that
\* the matched listing answers gets its address; the archive speaks
\* only for a record the judged listing leaves unanswered and never offers a
\* page that is still on it; a record whose opinion was sent is never sent
\* back to a consultation (topic_links, decide, decide_archive).
LinksAreDeserved ==
    [][ResolveTopicLinks \/ ResolveArchiveLinks => LinkStep]_topicVars
=============================================================================
