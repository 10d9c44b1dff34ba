----------------------------- MODULE MCRetention ----------------------------
(***************************************************************************)
(* SnapshotRetention twice: the families of the opinion matcher, whose     *)
(* relations PROTECT what they cite, and those of the two consultation     *)
(* matchers, one of which builds on the other; and by itself the store of  *)
(* opinion documents (OpinionCorpus).                                      *)
(***************************************************************************)
EXTENDS SnapshotRetention, OpinionCorpus

VARIABLE subject

Topics == INSTANCE SnapshotRetention WITH
    Modelled <- {"legal", "topic", "topicMatch", "archiveMatch"}, MaxFailures <- 0

\* The store has two documents, one of them no PDF, and one of two articles in
\* the listing, and the builder's code is deployed anew; the site has a third
\* article, beyond the overlap.
Site == INSTANCE OpinionCorpus WITH MaxPages <- 3, MaxVersion <- 1, MaxChanges <- 2

ASSUME StoreAssumption == OpinionAssumption /\ Site!OpinionAssumption

RetentionInit ==
    /\ subject \in {"opinions", "topics", "documents", "articles"}
    /\ IF subject = "topics" THEN Topics!Init ELSE Init
    /\ CorpusInit

Opinions(a) == subject = "opinions" /\ a /\ UNCHANGED <<subject, corpusVars>>
Consultations(a) == subject = "topics" /\ a /\ UNCHANGED <<subject, corpusVars>>
Documents(a) == subject \in {"documents", "articles"} /\ a /\ UNCHANGED <<subject, vars>>

DocumentsNext == (subject = "documents" /\ CorpusNext) \/ (subject = "articles" /\ Site!CorpusNext)

RetentionNext == Opinions(Next) \/ Consultations(Topics!Next) \/ Documents(DocumentsNext)

allVars == <<vars, corpusVars, subject>>

\* The fairness of SnapshotRetention and of OpinionCorpus.
RetentionSpec ==
    /\ RetentionInit /\ [][RetentionNext]_allVars
    /\ \A m \in Matchers : WF_allVars(Opinions(StartMatch(m) \/ MatchStep(m)))
    /\ WF_allVars(Opinions(PruneStep))
    /\ WF_allVars(Documents(BeginBuild(FALSE) \/ BuildStep))
    /\ WF_allVars(Documents(BeginCrawl(FALSE) \/ CrawlStep))

\* The links come back after every change of the matcher's inputs, prunes
\* racing it included (SnapshotRetention).
LinksReturn == \A m \in Matchers : []<>(subject = "opinions" /\ InputsExist(m) => Resolves(m))

\* The catalogue follows an inbox that rests, in however many slices, and the
\* letters of recent articles, attached late or failed before, are found
\* (OpinionCorpus).
CorpusCatchesUp ==
    <>[](subject \in {"documents", "articles"} => InboxCatalogued /\ RecentLettersStored)
=============================================================================
