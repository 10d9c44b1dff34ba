---------------------------- MODULE EventMatching ----------------------------
(***************************************************************************)
(* Which public page belongs to which programme event (apps/               *)
(* event_programme: event_normalisation, event_matching, event_match_sync, *)
(* public_links): the comparable form of a name, the candidates of a day,  *)
(* the decision, the run of the match command between the import of a      *)
(* programme and the discovery or correction of pages, and the link a      *)
(* reader gets.                                                            *)
(*                                                                         *)
(* A title is a sequence of words, each with whether a colon follows it;   *)
(* scores are ten-thousandths.  The n-grams of a name are those of its     *)
(* words.                                                                  *)
(***************************************************************************)
EXTENDS Integers, Sequences, FiniteSets, FiniteSetsExt

CONSTANTS
    Programmes,    \* contents of the workbook: sets of events
    Pages,         \* Pages[i] is the i-th page a discovery finds
    Corrections,   \* what page i reads once it is corrected, for some i
    NameGrams,     \* the n-grams of each word
    StopTokens, PublicationLabels,
    MaxImports     \* bound: programme snapshots

NoDay == 0
NoPage == 0
Unmatched == -1
Ambiguous == -2

DATE_TOLERANCE_DAYS == 1
ACCEPT_SCORE == 7000
SCORE_MARGIN == 2000
MINIMUM_TOKENS == 2
MaxLabels == 3

Word == [word : DOMAIN NameGrams, colon : BOOLEAN]
Title == Seq(Word)
Page == [url : Nat \ {0}, title : Title, day : Int]
Event == [id : Nat, name : Title, day : Int, url : Nat]

\* An event's number stands once in a workbook.  A page is known by its address,
\* so a correction of it keeps the address.
ASSUME EventAssumption ==
    /\ MaxImports \in Nat \ {0}
    /\ \A w \in DOMAIN NameGrams : IsFiniteSet(NameGrams[w])
    /\ Pages \in Seq(Page)
    /\ \A i \in DOMAIN Corrections :
          i \in DOMAIN Pages /\ Corrections[i] \in Page /\ Corrections[i].url = Pages[i].url
    /\ \A P \in Programmes : P \subseteq Event /\ \A e, f \in P : e.id = f.id => e = f

VARIABLES
    programme,   \* the current programme snapshot; number 0 before the first
    resources,   \* the discovered pages by id
    eventMatch,  \* the current match snapshot
    generated,   \* the inputs of all match snapshots
    eventRun,    \* the match command, if one runs
    outcome      \* how the last match command ended

matchingVars == <<programme, resources, eventMatch, generated, eventRun, outcome>>

(***************************************************************************)
(* Comparable names.                                                       *)
(***************************************************************************)

Smaller(a, b) == IF a <= b THEN a ELSE b
Greater(a, b) == IF a >= b THEN a ELSE b

\* A publication label leads or is absent; a title that is nothing else
\* becomes empty.
WithoutPublication(title) ==
    IF title # <<>> /\ title[1].word \in PublicationLabels THEN Tail(title) ELSE title

\* strip_labels: at most three leading labels, and never the whole title.
StripLabels(title) ==
    LET labels == {n \in 0..Len(title) : \A i \in 1..n : title[i].colon}
        last == Smaller(Smaller(Max(labels), MaxLabels), Len(title) - 1)
    IN IF title = <<>> THEN title ELSE SubSeq(title, last + 1, Len(title))

Normalise(title) == StripLabels(WithoutPublication(title))

TokenSet(title) ==
    LET words == Normalise(title)
    IN {words[i].word : i \in DOMAIN words} \ StopTokens

NgramsOf(title) == UNION {NameGrams[w] : w \in TokenSet(title)}

Containment(left, right) ==
    IF left = {} \/ right = {} THEN 0
    ELSE (10000 * Cardinality(left \cap right))
            \div Smaller(Cardinality(left), Cardinality(right))

Jaccard(left, right) ==
    IF left = {} \/ right = {} THEN 0
    ELSE (10000 * Cardinality(left \cap right)) \div Cardinality(left \cup right)

Similarity(name, title) ==
    Greater(Containment(NgramsOf(name), NgramsOf(title)), Jaccard(TokenSet(name), TokenSet(title)))

(***************************************************************************)
(* The decision.                                                           *)
(***************************************************************************)

\* candidates_for: the pages of the event's day and of the days beside it.
CandidatesFor(day, pages) ==
    {i \in DOMAIN pages : pages[i].day - day \in -DATE_TOLERANCE_DAYS..DATE_TOLERANCE_DAYS}

\* A plausible error: the best page stands whatever stands beside it.
AtLeast(score, runnerUp) == score >= runnerUp

\* Two sessions of one series are not told apart by their name.
ClearlyAhead(score, runnerUp) == score - runnerUp >= SCORE_MARGIN

\* match_event: a page of the day that reads the same and clearly better than
\* any other; between equals the address decides, which the margin undoes.
MatchEvent(event, pages) ==
    LET field == CandidatesFor(event.day, pages)
        score == [i \in field |-> Similarity(event.name, pages[i].title)]
        ahead(i, j) == \/ score[i] > score[j]
                       \/ score[i] = score[j] /\ pages[i].url <= pages[j].url
        best == CHOOSE i \in field : \A j \in field : ahead(i, j)
        runnerUp == IF field = {best} THEN 0
                    ELSE Max({score[j] : j \in field \ {best}})
    IN IF \/ event.day = NoDay
          \/ Cardinality(TokenSet(event.name)) < MINIMUM_TOKENS
          \/ field = {}
          \/ score[best] < ACCEPT_SCORE
       THEN Unmatched
       ELSE IF ClearlyAhead(score[best], runnerUp) THEN best ELSE Ambiguous

DecideEvents(rows, pages) ==
    [id \in {e.id : e \in rows} |-> MatchEvent(CHOOSE e \in rows : e.id = id, pages)]

(***************************************************************************)
(* The programme, the pages and the match command.                         *)
(***************************************************************************)

NoEventMatch == [programme |-> 0, top |-> 0, rows |-> {}, pages |-> <<>>, decision |-> <<>>]

MatchingInit ==
    /\ programme = [no |-> 0, rows |-> {}]
    /\ resources = <<>>
    /\ eventMatch = NoEventMatch
    /\ generated = {}
    /\ eventRun = {}
    /\ outcome = "none"

\* sync_event_programme publishes another workbook.
ImportProgramme ==
    /\ programme.no < MaxImports
    /\ \E rows \in Programmes \ {programme.rows} :
         programme' = [no |-> programme.no + 1, rows |-> rows]
    /\ UNCHANGED <<resources, eventMatch, generated, eventRun, outcome>>

\* discover_koda_event_pages: a new page gets the next id, a known one is
\* corrected in place; none is ever deleted.
DiscoverPage ==
    /\ Len(resources) < Len(Pages)
    /\ resources' = Append(resources, Pages[Len(resources) + 1])
    /\ UNCHANGED <<programme, eventMatch, generated, eventRun, outcome>>

CorrectPage ==
    /\ \E i \in DOMAIN resources \cap DOMAIN Corrections :
         /\ resources[i] # Corrections[i]
         /\ resources' = [resources EXCEPT ![i] = Corrections[i]]
    /\ UNCHANGED <<programme, eventMatch, generated, eventRun, outcome>>

\* The command takes its lock and reads which programme is current, then the
\* high-water mark; without a programme it fails.
BeginMatching ==
    /\ eventRun = {}
    /\ IF programme.no = 0
       THEN /\ outcome' = "failed"
            /\ UNCHANGED eventRun
       ELSE /\ eventRun' = {[programme |-> programme.no, rows |-> programme.rows,
                            top |-> Len(resources), read |-> FALSE, pages |-> <<>>]}
            /\ outcome' = "running"
    /\ UNCHANGED <<programme, resources, eventMatch, generated>>

\* Then it reads the pages up to the mark, as they are now, and decides.
ReadPages ==
    /\ \E run \in eventRun :
         /\ ~run.read
         /\ eventRun' = {[run EXCEPT !.read = TRUE, !.pages = SubSeq(resources, 1, run.top)]}
    /\ UNCHANGED <<programme, resources, eventMatch, generated, outcome>>

\* One transaction writes the snapshot, its rows and the current flag; the
\* inputs of a match snapshot are unique, and nothing asked about them before.
PublishMatching ==
    /\ \E run \in eventRun :
         /\ run.read
         /\ IF <<run.programme, run.top>> \in generated
            THEN /\ outcome' = "refused"
                 /\ UNCHANGED <<eventMatch, generated>>
            ELSE /\ eventMatch' = [programme |-> run.programme, top |-> run.top, rows |-> run.rows,
                              pages |-> run.pages, decision |-> DecideEvents(run.rows, run.pages)]
                 /\ generated' = generated \cup {<<run.programme, run.top>>}
                 /\ outcome' = "published"
    /\ eventRun' = {}
    /\ UNCHANGED <<programme, resources>>

\* A dry run, or a command that dies.
MatchingAbandoned ==
    /\ eventRun # {}
    /\ eventRun' = {}
    /\ outcome' = "none"
    /\ UNCHANGED <<programme, resources, eventMatch, generated>>

MatchingNext ==
    \/ ImportProgramme
    \/ DiscoverPage \/ CorrectPage
    \/ BeginMatching \/ ReadPages \/ PublishMatching \/ MatchingAbandoned

MatchingSpec == MatchingInit /\ [][MatchingNext]_matchingVars

(***************************************************************************)
(* What a reader gets.                                                     *)
(***************************************************************************)

\* matched_urls_by_event, keyed by the event whatever programme it is of now.
MatchedPage(event) ==
    IF event.id \in DOMAIN eventMatch.decision /\ eventMatch.decision[event.id] > NoPage
    THEN eventMatch.decision[event.id] ELSE NoPage

NoLink == [source |-> "none", url |-> 0]

\* resolve: the address the Chamber entered, else the matched page.
PublicLink(event) ==
    CASE event.url # 0 -> [source |-> "workbook", url |-> event.url]
      [] event.url = 0 /\ MatchedPage(event) # NoPage ->
           [source |-> "matched", url |-> resources[MatchedPage(event)].url]
      [] OTHER -> NoLink

(***************************************************************************)
(* Properties.                                                             *)
(***************************************************************************)

\* The reference: of this day, alike, and no other page of these days nearly
\* as much.
Deserves(event, page, pages) ==
    LET near == {j \in DOMAIN pages : pages[j].day \in event.day - 1 .. event.day + 1}
        alike(j) == Similarity(event.name, pages[j].title)
    IN /\ event.day # NoDay
       /\ page \in near
       /\ alike(page) >= ACCEPT_SCORE
       /\ \A j \in near \ {page} : alike(page) - alike(j) >= SCORE_MARGIN

\* A link the Chamber did not enter is to a page that the event of that
\* number deserved in the programme and the pages that were matched, however
\* the two have moved on since (match_event, run_event_matching, resolve).
EventLinksAreDeserved ==
    \A e \in programme.rows :
        PublicLink(e).source = "matched" =>
            /\ e.url = 0
            /\ \E f \in eventMatch.rows : f.id = e.id /\ Deserves(f, MatchedPage(e), eventMatch.pages)
            /\ PublicLink(e).url = eventMatch.pages[MatchedPage(e)].url

\* The command's docstring: "Safe to re-run at any time."
ReRunIsSafe == outcome # "refused"
=============================================================================
