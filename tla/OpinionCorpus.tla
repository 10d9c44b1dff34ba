--------------------------- MODULE OpinionCorpus ---------------------------
(***************************************************************************)
(* The Chamber's opinions, from two sides.                                 *)
(*                                                                         *)
(* The builder (apps/legal_work/opinion_catalogue_sync.py) reads a private *)
(* inbox in bounded slices and publishes a catalogue once every document   *)
(* of it is terminal.  The crawler (public_opinion_sync.py) walks Koda.ee  *)
(* and publishes a corpus that only grows.  Each holds an advisory lock of *)
(* its own, and both write one content-addressed store: the files, the     *)
(* blob rows and the extracted texts.                                      *)
(*                                                                         *)
(* A document stands for its digest; a public page for its publication     *)
(* day.  Dry runs, which write progress counts only, are left out.         *)
(***************************************************************************)
EXTENDS Naturals, Sequences, FiniteSets, FiniteSetsExt, SequencesExt

CONSTANTS
    MaxDocs,        \* bound: documents
    Invalid,        \* the documents that are no acceptable PDF
    MaxPages,       \* bound: articles on Koda.ee
    Editorial,      \* the articles the listing "Meie arvamus" names
    PageSize,       \* cards on one listing page
    OverlapDays,    \* KODA_OPINIONS_INCREMENTAL_OVERLAP_DAYS
    Budget,         \* LEGAL_OPINION_MAX_DOCUMENTS_PER_RUN
    MaxVersion,     \* bound: versions of the extractor and the filename reader
    MaxChanges      \* bound: changes of inbox and site, faults and crashes

Doc  == 1..MaxDocs
Page == 1..MaxPages

OpinionAssumption ==
    /\ {MaxDocs, MaxPages, PageSize, Budget, MaxVersion} \subseteq Nat \ {0}
    /\ {OverlapDays, MaxChanges} \subseteq Nat
    /\ MaxPages >= 2
    /\ Invalid \subseteq Doc /\ Editorial \subseteq Page

VARIABLES
    inbox,      \* documents in the private inbox
    live,       \* articles that are online
    letters,    \* <<article, document>>: its attachments
    version,    \* what the deployed code stamps on its results
    changes,    \* how much has happened
    files,      \* documents in blobs/ or quarantine/
    rows,       \* documents with an OpinionDocumentBlob
    texts,      \* <<document, version>> with an OpinionDocumentExtraction
    catalogue,  \* the current catalogue snapshot
    catalogued, \* import keys of the published catalogues
    corpus,     \* the current corpus snapshot
    published,  \* contents of the published corpora
    backfilled, \* backfill_complete
    build,      \* the builder's run
    crawl       \* the crawler's run

outside == <<inbox, live, letters, version>>
store   == <<files, rows, texts>>
private == <<catalogue, catalogued, build>>
public  == <<corpus, published, backfilled, crawl>>
corpusVars == <<outside, changes, store, private, public>>

NoCatalogue == [manifest |-> {}, version |-> 0]

\* letters are the recorded attachments, stored those with a blob, and absent
\* those that are no longer on their page; gone are the pages found deleted.
NoCorpus == [pages |-> {}, gone |-> {}, letters |-> {}, stored |-> {}, absent |-> {}]

\* blobs and read are what _load_known found, and what the run added to it.
IdleBuild == [pc |-> "idle", manifest |-> {}, blobs |-> {}, read |-> {}, left |-> 0, doc |-> 0]

\* seen are the candidates still to read; draft is the next corpus, which begins
\* as the current one: what is not read again is carried forward.
IdleCrawl == [pc |-> "idle", full |-> FALSE, seen |-> {}, draft |-> NoCorpus,
              unresolved |-> {}, letter |-> <<0, 0>>]

CorpusSnapshot == [pages : SUBSET Page, gone : SUBSET Page, letters : SUBSET (Page \X Doc),
                   stored : SUBSET (Page \X Doc), absent : SUBSET (Page \X Doc)]

BuildState == [pc : {"idle", "entry", "store", "row", "text"}, manifest : SUBSET Doc,
               blobs : SUBSET Doc, read : SUBSET Doc, left : Nat, doc : Doc \cup {0}]

CrawlState == [pc : {"idle", "page", "letter", "store", "row", "text", "extract"},
               full : BOOLEAN, seen : SUBSET Page, draft : CorpusSnapshot,
               unresolved : SUBSET (Page \X Doc), letter : (Page \X Doc) \cup {<<0, 0>>}]

CorpusTypeOK ==
    /\ inbox \subseteq Doc /\ live \subseteq Page /\ letters \subseteq Page \X Doc
    /\ version \in 1..MaxVersion /\ changes \in 0..MaxChanges
    /\ files \subseteq Doc /\ rows \subseteq Doc /\ texts \subseteq Doc \X (1..MaxVersion)
    /\ catalogue \in [manifest : SUBSET Doc, version : 0..MaxVersion]
    /\ catalogued \subseteq (1..MaxVersion) \X SUBSET Doc
    /\ corpus \in CorpusSnapshot /\ published \subseteq CorpusSnapshot
    /\ backfilled \in BOOLEAN
    /\ build \in BuildState /\ crawl \in CrawlState

CorpusInit ==
    /\ inbox = {1} /\ live = {1, 2} /\ letters = {<<1, 1>>}
    /\ version = 1 /\ changes = 0
    /\ files = {} /\ rows = {} /\ texts = {}
    /\ catalogue = NoCatalogue /\ catalogued = {} /\ build = IdleBuild
    /\ corpus = NoCorpus /\ published = {} /\ backfilled = FALSE /\ crawl = IdleCrawl

-----------------------------------------------------------------------------
(* The inbox, the site and the deployment. *)

Change == changes < MaxChanges /\ changes' = changes + 1

\* A document is deposited in the inbox, or taken out of it.
MoveDocument(d) ==
    /\ Change
    /\ inbox' = IF d \in inbox THEN inbox \ {d} ELSE inbox \cup {d}
    /\ UNCHANGED <<live, letters, version, store, private, public>>

\* An article appears, with or without its letter.
PublishArticle(attached) ==
    /\ Change /\ Max(live) < MaxPages
    /\ live' = live \cup {Max(live) + 1}
    /\ letters' = letters \cup ({Max(live) + 1} \X attached)
    /\ UNCHANGED <<inbox, version, store, private, public>>

TakeDown(p) ==
    /\ Change /\ live # {p}
    /\ live' = live \ {p}
    /\ letters' = {a \in letters : a[1] # p}
    /\ UNCHANGED <<inbox, version, store, private, public>>

\* A letter is attached later, or taken off.
MoveLetter(p, d) ==
    /\ Change
    /\ letters' = IF <<p, d>> \in letters THEN letters \ {<<p, d>>} ELSE letters \cup {<<p, d>>}
    /\ UNCHANGED <<inbox, live, version, store, private, public>>

\* A new release ends the running processes.
Upgrade ==
    /\ version < MaxVersion
    /\ version' = version + 1
    /\ build' = IdleBuild /\ crawl' = IdleCrawl
    /\ UNCHANGED <<inbox, live, letters, changes, store, catalogue, catalogued,
                   corpus, published, backfilled>>

-----------------------------------------------------------------------------
(* The store: store_blob or quarantine_blob, then the row, which is unique. *)

\* validate_pdf, whose verdict on the same bytes is always the same.
IsValid(d) == d \notin Invalid

\* store_blob replaces a temporary file into place; an existing file is kept.
WriteFile(d) == files' = files \cup {d}

\* OpinionDocumentBlob.objects.create of a digest that has none.
InsertRow(d) == d \notin rows /\ rows' = rows \cup {d}

\* One extraction per blob and version.
InsertText(d) == <<d, version>> \notin texts /\ texts' = texts \cup {<<d, version>>}

-----------------------------------------------------------------------------
(* The catalogue builder: synchronize_opinion_documents. *)

Building(label) == build.pc = label

\* collect_manifest: one entry per digest, whatever the providers call it.
Manifest == inbox

\* read_entry finds the file with the digest the manifest had.
CanRead(d) == d \in inbox

\* The fast path: the published catalogue has this manifest and this version.
CatalogueIsUnchanged == catalogue = [manifest |-> Manifest, version |-> version]

\* A run that has something to do; an empty inbox is reported unchanged.
BeginBuild(full) ==
    /\ Building("idle") /\ Manifest # {}
    /\ full \/ ~CatalogueIsUnchanged
    /\ build' = [pc |-> "entry", manifest |-> Manifest, blobs |-> rows \cap Manifest,
                 read |-> {d \in Manifest : <<d, version>> \in texts}, left |-> Budget, doc |-> 0]
    /\ UNCHANGED <<outside, changes, store, catalogue, catalogued, public>>

\* Mutant of Outstanding: a blob is terminal, read or not.
RowIsTerminal == build.manifest \ build.blobs

\* Mutant of Outstanding: a quarantined document waits for its text.
TextIsTerminal == build.manifest \ build.read

\* _outstanding: no blob, or a valid one without a text of this version.
Outstanding == build.manifest \ {d \in build.blobs : d \in build.read \/ ~IsValid(d)}

StopBuild == build' = IdleBuild

AtEntry(d, label) == [build EXCEPT !.doc = d, !.left = @ - 1, !.pc = label]

\* One entry of the slice, in the order of the manifest.
TakeEntry ==
    /\ Building("entry") /\ build.left > 0 /\ Outstanding # {}
    /\ LET d == Min(Outstanding)
       IN  IF d \in build.blobs \/ CanRead(d)
           THEN build' = AtEntry(d, CASE d \notin build.blobs -> "store"
                                      [] d \in build.blobs /\ IsValid(d) -> "text"
                                      [] OTHER -> "entry")
           ELSE StopBuild
    /\ UNCHANGED <<outside, changes, store, catalogue, catalogued, public>>

StoreEntry ==
    /\ Building("store")
    /\ WriteFile(build.doc)
    /\ build' = [build EXCEPT !.pc = "row"]
    /\ UNCHANGED <<outside, changes, rows, texts, catalogue, catalogued, public>>

\* A quarantined document needs no text.
CreateEntryRow ==
    /\ Building("row") /\ InsertRow(build.doc)
    /\ build' = [build EXCEPT !.blobs = @ \cup {build.doc},
                              !.pc = IF IsValid(build.doc) THEN "text" ELSE "entry"]
    /\ UNCHANGED <<outside, changes, files, texts, catalogue, catalogued, public>>

\* The entry is read again for its text.
ExtractEntry ==
    /\ Building("text") /\ CanRead(build.doc) /\ InsertText(build.doc)
    /\ build' = [build EXCEPT !.read = @ \cup {build.doc}, !.pc = "entry"]
    /\ UNCHANGED <<outside, changes, files, rows, catalogue, catalogued, public>>

\* The document vanished before extraction, or the crawler was first: its row, or
\* its text, is one the run did not load.
EntryFails ==
    /\ \/ Building("row") /\ build.doc \in rows
       \/ Building("text") /\ (~CanRead(build.doc) \/ <<build.doc, version>> \in texts)
    /\ StopBuild
    /\ UNCHANGED <<outside, changes, store, catalogue, catalogued, public>>

\* The slice is done and entries remain.
BuildPartly ==
    /\ Building("entry") /\ build.left = 0 /\ Outstanding # {}
    /\ StopBuild
    /\ UNCHANGED <<outside, changes, store, catalogue, catalogued, public>>

\* run_schema_version and the manifest's checksum.
CatalogueKey == <<version, build.manifest>>

PublishCatalogue ==
    /\ Building("entry") /\ Outstanding = {} /\ CatalogueKey \notin catalogued
    /\ catalogue' = [manifest |-> build.manifest, version |-> version]
    /\ catalogued' = catalogued \cup {CatalogueKey}
    /\ StopBuild
    /\ UNCHANGED <<outside, changes, store, public>>

\* The inbox is what it was at an earlier publication: the import key is taken.
CatalogueRefused ==
    /\ Building("entry") /\ Outstanding = {} /\ CatalogueKey \in catalogued
    /\ StopBuild
    /\ UNCHANGED <<outside, changes, store, catalogue, catalogued, public>>

BuildStep ==
    \/ TakeEntry \/ StoreEntry \/ CreateEntryRow \/ ExtractEntry \/ EntryFails
    \/ BuildPartly \/ PublishCatalogue \/ CatalogueRefused

-----------------------------------------------------------------------------
(* The crawler's discovery: _walk_listings and _collect. *)

Crawling(label) == crawl.pc = label

Newest(n, pages) == {p \in pages : Cardinality({q \in pages : q > p}) < n}

\* Mutant of RefreshBoundary: nothing is read a second time.
BoundaryWithoutOverlap == IF corpus.pages = {} THEN 0 ELSE Max(corpus.pages)

\* _refresh_boundary; day 0 is before every article.
RefreshBoundary ==
    IF corpus.pages = {} \/ Max(corpus.pages) <= OverlapDays THEN 0
    ELSE Max(corpus.pages) - OverlapDays

\* The news listing, read until a listing page has no card of the boundary or later.
NewsEdge == Newest(PageSize, live) \cup
            {p \in live : \E q \in live : /\ Cardinality({r \in live : r > q}) % PageSize = 0
                                          /\ q >= RefreshBoundary
                                          /\ Cardinality({r \in live : p < r /\ r <= q}) < 2 * PageSize
                                          /\ q >= p}

\* An incremental run reads the first page of "Meie arvamus"; a full one reads
\* everything, and the known pages no listing names any more.
Candidates(full) ==
    IF full THEN live \cup corpus.pages
    ELSE Newest(PageSize, Editorial \cap live) \cup NewsEdge

MustFetch(p, full) == p \notin corpus.pages \/ full \/ p >= RefreshBoundary

\* An incremental run before the backfill is refused.
BeginCrawl(full) ==
    /\ Crawling("idle") /\ (full \/ backfilled)
    /\ crawl' = [IdleCrawl EXCEPT !.pc = "page", !.full = full, !.draft = corpus,
                                  !.seen = {p \in Candidates(full) : MustFetch(p, full)}]
    /\ UNCHANGED <<outside, changes, store, private, corpus, published, backfilled>>

StopCrawl == crawl' = IdleCrawl

-----------------------------------------------------------------------------
(* Reading one article: _read_page. *)

On(p) == {a \in letters : a[1] = p}

\* opinion_evidence: a page of the corpus stays in it; a new one needs evidence: the editorial
\* listing, or an attachment that looks like an opinion.
Qualifies(p) == p \in corpus.pages \cup Editorial \/ On(p) # {}

\* An attachment that left the page stays, marked absent.
Reread(p, c) ==
    [c EXCEPT !.pages = @ \cup {p}, !.gone = @ \ {p}, !.letters = @ \cup On(p),
              !.absent = {a \in @ : a[1] # p} \cup {a \in c.letters : a[1] = p /\ a \notin On(p)}]

ReadPage(p) ==
    /\ Crawling("page") /\ p \in crawl.seen /\ p \in live
    /\ crawl' = IF Qualifies(p)
                THEN [crawl EXCEPT !.seen = @ \ {p}, !.draft = Reread(p, @),
                                   !.pc = "letter", !.unresolved = On(p) \ corpus.stored]
                ELSE [crawl EXCEPT !.seen = @ \ {p}]
    /\ UNCHANGED <<outside, changes, store, private, corpus, published, backfilled>>

MarkGone(p, c) == [c EXCEPT !.seen = @ \ {p}, !.draft.gone = @ \cup {p}]

\* A known page that answers 404 is gone; an unknown one refuses the run.
PageIsGone(p) ==
    /\ Crawling("page") /\ p \in crawl.seen \ live
    /\ IF p \in corpus.pages
       THEN crawl' = MarkGone(p, crawl)
       ELSE StopCrawl
    /\ UNCHANGED <<outside, changes, store, private, corpus, published, backfilled>>

\* A known page that cannot be read this time is carried.
PageUnreadable(p) ==
    /\ Crawling("page") /\ p \in crawl.seen /\ Change
    /\ IF p \in corpus.pages
       THEN crawl' = [crawl EXCEPT !.seen = @ \ {p}]
       ELSE StopCrawl
    /\ UNCHANGED <<outside, store, private, corpus, published, backfilled>>

-----------------------------------------------------------------------------
(* Resolving an attachment: _read_document, _ensure_extraction. *)

LetterIsStored(c) == [c EXCEPT !.draft.stored = @ \cup {c.letter}, !.pc = "letter"]

\* The file is fetched, and the blob row of its digest looked up.
FetchLetter(a) ==
    /\ Crawling("letter") /\ a \in crawl.unresolved
    /\ LET fetched == [crawl EXCEPT !.unresolved = @ \ {a}, !.letter = a]
       IN  crawl' = CASE a[2] \notin rows -> [fetched EXCEPT !.pc = "store"]
                      [] a[2] \in rows /\ IsValid(a[2]) -> [fetched EXCEPT !.pc = "text"]
                      [] OTHER -> LetterIsStored(fetched)
    /\ UNCHANGED <<outside, changes, store, private, corpus, published, backfilled>>

\* The attachment stays recorded without a blob.
LetterUnreadable(a) ==
    /\ Crawling("letter") /\ a \in crawl.unresolved /\ Change
    /\ crawl' = [crawl EXCEPT !.unresolved = @ \ {a}]
    /\ UNCHANGED <<outside, store, private, corpus, published, backfilled>>

StoreLetter ==
    /\ Crawling("store")
    /\ WriteFile(crawl.letter[2])
    /\ crawl' = [crawl EXCEPT !.pc = "row"]
    /\ UNCHANGED <<outside, changes, rows, texts, private, corpus, published, backfilled>>

CreateLetterRow ==
    /\ Crawling("row") /\ InsertRow(crawl.letter[2])
    /\ crawl' = IF IsValid(crawl.letter[2]) THEN [crawl EXCEPT !.pc = "text"]
                ELSE LetterIsStored(crawl)
    /\ UNCHANGED <<outside, changes, files, texts, private, corpus, published, backfilled>>

\* The text of these bytes is looked up.
EnsureExtraction ==
    /\ Crawling("text")
    /\ crawl' = IF <<crawl.letter[2], version>> \in texts THEN LetterIsStored(crawl)
                ELSE [crawl EXCEPT !.pc = "extract"]
    /\ UNCHANGED <<outside, changes, store, private, corpus, published, backfilled>>

ExtractLetter ==
    /\ Crawling("extract") /\ InsertText(crawl.letter[2])
    /\ crawl' = LetterIsStored(crawl)
    /\ UNCHANGED <<outside, changes, files, rows, private, corpus, published, backfilled>>

\* The builder created the row, or the text, in between.
LetterFails ==
    /\ \/ Crawling("row") /\ crawl.letter[2] \in rows
       \/ Crawling("extract") /\ <<crawl.letter[2], version>> \in texts
    /\ StopCrawl
    /\ UNCHANGED <<outside, changes, store, private, corpus, published, backfilled>>

PageDone ==
    /\ Crawling("letter") /\ crawl.unresolved = {}
    /\ crawl' = [crawl EXCEPT !.pc = "page"]
    /\ UNCHANGED <<outside, changes, store, private, corpus, published, backfilled>>

CrawlIsRead == Crawling("page") /\ crawl.seen = {}

\* One transaction: the rows, publish_current, the end of the run, backfill_complete.
PublishCorpus ==
    /\ CrawlIsRead /\ crawl.draft \notin published
    /\ corpus' = crawl.draft
    /\ published' = published \cup {crawl.draft}
    /\ backfilled' = (backfilled \/ crawl.full)
    /\ StopCrawl
    /\ UNCHANGED <<outside, changes, store, private>>

\* Unchanged, or refused because an earlier corpus had this content.
NothingToPublish ==
    /\ CrawlIsRead /\ crawl.draft \in published
    /\ StopCrawl
    /\ UNCHANGED <<outside, changes, store, private, corpus, published, backfilled>>

CrawlStep ==
    \/ \E p \in crawl.seen : ReadPage(p) \/ PageIsGone(p)
    \/ \E a \in crawl.unresolved : FetchLetter(a)
    \/ StoreLetter \/ CreateLetterRow \/ EnsureExtraction \/ ExtractLetter \/ LetterFails
    \/ PageDone \/ PublishCorpus \/ NothingToPublish

\* A failed write or the end of the container, at any point.
Crash ==
    /\ Change
    /\ build # IdleBuild \/ crawl # IdleCrawl
    /\ build' = IdleBuild /\ crawl' = IdleCrawl
    /\ UNCHANGED <<outside, store, catalogue, catalogued, corpus, published, backfilled>>

-----------------------------------------------------------------------------
CorpusNext ==
    \/ \E d \in Doc : MoveDocument(d) \/ PublishArticle({d})
    \/ PublishArticle({})
    \/ \E p \in live : TakeDown(p) \/ \E d \in Doc : MoveLetter(p, d)
    \/ Upgrade
    \/ \E full \in BOOLEAN : BeginBuild(full) \/ BeginCrawl(full)
    \/ BuildStep
    \/ CrawlStep
    \/ \E p \in crawl.seen : PageUnreadable(p)
    \/ \E a \in crawl.unresolved : LetterUnreadable(a)
    \/ Crash

CorpusSpec == CorpusInit /\ [][CorpusNext]_corpusVars

-----------------------------------------------------------------------------
(* Properties. *)

HasText(d) == d \in Invalid \/ \E v \in 1..MaxVersion : <<d, v>> \in texts

Servable(docs) == \A d \in docs : d \in rows /\ d \in files /\ HasText(d)

\* Whatever the two writers' interleaving and wherever a run ends, a document
\* that a published snapshot names has its file, its blob row and, unless it is
\* quarantined, its text - the catalogue's in the version it was published under.
PublishedIsServable ==
    /\ Servable(catalogue.manifest) /\ Servable({a[2] : a \in corpus.stored})
    /\ \A d \in catalogue.manifest \ Invalid : <<d, catalogue.version>> \in texts

\* Once the inbox rests its catalogue is published under the deployed version, in
\* however many slices - if this manifest was not published before under it.
InboxCatalogued == inbox = {} \/ <<version, inbox>> \in catalogued

\* Once the site rests, the letters of the articles within the overlap, attached
\* late or failed before, are in the corpus with their documents.
RecentLettersStored ==
    backfilled => \A a \in letters :
                     (\A q \in corpus.pages : q <= a[1] + OverlapDays) => a \in corpus.stored
=============================================================================
