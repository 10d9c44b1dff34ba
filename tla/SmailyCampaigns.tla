-------------------------- MODULE SmailyCampaigns ---------------------------
(***************************************************************************)
(* The catalogue of sent campaigns and their statistics                    *)
(* (apps/visibility/smaily_campaign_sync.py, smaily_campaigns.py).         *)
(*                                                                         *)
(* A run lists the completed campaigns, writes down the ones it has not    *)
(* seen, reads the statistics of the ones worth reading one request at a   *)
(* time, and publishes what has changed in one transaction at the end.     *)
(***************************************************************************)
EXTENDS Naturals, Sequences, FiniteSets, SequencesExt, FiniteSetsExt

CONSTANTS
    MaxCampaigns,  \* bound: campaigns, numbered in the order they are sent
    Newsletters,   \* template names that name a newsletter
    Cards,         \* template names that name none
    Unreadable,    \* campaigns whose statistics Smaily cannot deliver
    MaxOpens,      \* bound: a campaign's count grows from 1 to this
    StatsLimit,    \* --stats-limit
    WindowDays,    \* STATS_RECONCILIATION_DAYS
    LastDay,       \* bound: days
    MaxFaults      \* bound: crashes and failed requests

Campaign == 1..MaxCampaigns
NoFigures == 0          \* Smaily reports no count at all
NoTemplate == "deleted" \* the template of a campaign has been deleted
Other == "muu"          \* no newsletter
Templates == Newsletters \cup Cards

CampaignAssumption ==
    /\ {MaxCampaigns, MaxOpens, StatsLimit, WindowDays, LastDay, MaxFaults} \subseteq Nat
    /\ NoTemplate \notin Templates /\ Other \notin Newsletters
    /\ Unreadable \subseteq Campaign

VARIABLES
    today,
    sent,       \* Smaily: campaign -> [day, template, opens], for those sent
    catalogue,  \* SmailyCampaign rows: campaign -> [template, preview, newsletter]
    stats,      \* campaign -> its published statistics; the last is current
    run,        \* the run holding the lock
    faults

vars == <<today, sent, catalogue, stats, run, faults>>

\* wanted is still to be read, noted maps the campaigns read to what changed.
IdleRun == [pc |-> "idle", dry_run |-> FALSE, listed |-> <<>>, wanted |-> <<>>,
            noted |-> <<>>]

Sent == [day : 1..LastDay, template : Templates \cup {NoTemplate}, opens : 0..MaxOpens]

Entry == [template : Templates \cup {NoTemplate}, preview : BOOLEAN,
          newsletter : Newsletters \cup {Other}]

TypeOK ==
    /\ today \in 1..LastDay
    /\ DOMAIN sent \subseteq Campaign /\ \A c \in DOMAIN sent : sent[c] \in Sent
    /\ DOMAIN catalogue \subseteq Campaign
    /\ \A c \in DOMAIN catalogue : catalogue[c] \in Entry
    /\ \A c \in Campaign : ToSet(stats[c]) \subseteq 1..MaxOpens
    /\ run.pc \in {"idle", "list", "catalogue", "select", "read", "publish"}
    /\ faults \in 0..MaxFaults

Init ==
    /\ today = 1
    /\ sent = <<>>
    /\ catalogue = <<>>
    /\ stats = [c \in Campaign |-> <<>>]
    /\ run = IdleRun
    /\ faults = 0

-----------------------------------------------------------------------------
(* Smaily and time. *)

DayEnds ==
    /\ today < LastDay
    /\ today' = today + 1
    /\ UNCHANGED <<sent, catalogue, stats, run, faults>>

Send(t, opens) ==
    /\ Len(sent) < MaxCampaigns
    /\ sent' = Append(sent, [day |-> today, template |-> t, opens |-> opens])
    /\ UNCHANGED <<today, catalogue, stats, run, faults>>

\* Opens and clicks accrue for some days; counts never fall.
Accrue(c) ==
    /\ sent[c].opens < MaxOpens
    /\ sent[c].day + WindowDays >= today
    /\ sent' = [sent EXCEPT ![c].opens = @ + 1]
    /\ UNCHANGED <<today, catalogue, stats, run, faults>>

\* A template is renamed or deleted.
Retemplate(c, t) ==
    /\ sent[c].template \notin {t, NoTemplate}
    /\ sent' = [sent EXCEPT ![c].template = t]
    /\ UNCHANGED <<today, catalogue, stats, run, faults>>

-----------------------------------------------------------------------------
(* One run. *)

At(label) == run.pc = label

Fault == faults < MaxFaults /\ faults' = faults + 1

BeginRun(dryRun) ==
    /\ At("idle")
    /\ run' = [IdleRun EXCEPT !.pc = "list", !.dry_run = dryRun]
    /\ UNCHANGED <<today, sent, catalogue, stats, faults>>

\* collect_campaigns; a dry run writes nothing down.
ListCampaigns ==
    /\ At("list")
    /\ run' = [run EXCEPT !.pc = IF run.dry_run THEN "select" ELSE "catalogue",
                          !.listed = [c \in DOMAIN sent |-> sent[c].template]]
    /\ UNCHANGED <<today, sent, catalogue, stats, faults>>

\* classify: a deleted template leaves only the subject, which names nothing.
Classify(t) == IF t \in Newsletters THEN t ELSE Other

\* Mutant of CatalogueEntry: a campaign is classified again every night.
Reclassified(c, t) == [template |-> t, preview |-> t # NoTemplate, newsletter |-> Classify(t)]

\* The row of a listed campaign: a new one is classified, a known one keeps its
\* classification, and its template name unless there is a new one.
CatalogueEntry(c, t) ==
    IF c \in DOMAIN catalogue
    THEN [catalogue[c] EXCEPT !.template = IF t = NoTemplate THEN @ ELSE t,
                              !.preview = t # NoTemplate]
    ELSE [template |-> t, preview |-> t # NoTemplate, newsletter |-> Classify(t)]

\* _catalogue, one row after another.
Catalogue ==
    /\ At("catalogue")
    /\ catalogue' = [c \in DOMAIN catalogue \cup DOMAIN run.listed |->
                        IF c \in DOMAIN run.listed THEN CatalogueEntry(c, run.listed[c])
                        ELSE catalogue[c]]
    /\ run' = [run EXCEPT !.pc = "select"]
    /\ UNCHANGED <<today, sent, stats, faults>>

StillMoving(c) == sent[c].day + WindowDays >= today

NewestFirst(C) ==
    LET newest == SetToSortSeq(C, LAMBDA a, b :
                      sent[a].day > sent[b].day \/ (sent[a].day = sent[b].day /\ a > b))
    IN  SubSeq(newest, 1, IF Len(newest) < StatsLimit THEN Len(newest) ELSE StatsLimit)

\* _needs_statistics: never measured or still moving, newest first, up to the
\* limit.
NeedsStatistics ==
    NewestFirst({c \in DOMAIN catalogue : stats[c] = <<>> \/ StillMoving(c)})

SelectCampaigns ==
    /\ At("select")
    /\ run' = [run EXCEPT !.pc = "read", !.wanted = NeedsStatistics]
    /\ UNCHANGED <<today, sent, catalogue, stats, faults>>

IsCurrent(c, opens) == stats[c] # <<>> /\ Last(stats[c]) = opens

\* _note_stats: neither nothing measurable nor the current figures.
Noted(c, opens) == opens # NoFigures /\ ~IsCurrent(c, opens)

\* One request; what has changed is noted, nothing is written yet.
ReadStatistics ==
    /\ At("read") /\ run.wanted # <<>>
    /\ LET c == Head(run.wanted)
       IN  /\ c \notin Unreadable
           /\ run' = [run EXCEPT
                !.wanted = Tail(@),
                !.noted = IF Noted(c, sent[c].opens)
                          THEN Append(@, <<c, sent[c].opens>>) ELSE @]
    /\ UNCHANGED <<today, sent, catalogue, stats, faults>>

\* The answer is refused or the request fails: the run ends there, and with it
\* what it has noted.
StatisticsUnread ==
    /\ At("read") /\ run.wanted # <<>>
    /\ IF Head(run.wanted) \in Unreadable THEN UNCHANGED faults ELSE Fault
    /\ run' = IdleRun
    /\ UNCHANGED <<today, sent, catalogue, stats>>

EndOfReading ==
    /\ At("read") /\ run.wanted = <<>>
    /\ run' = IF run.dry_run \/ run.noted = <<>> THEN IdleRun
              ELSE [run EXCEPT !.pc = "publish"]
    /\ UNCHANGED <<today, sent, catalogue, stats, faults>>

\* _publish_statistics: one transaction and one import run.  The key of the run
\* is the batch, which is new because its counts are.
PublishStatistics ==
    /\ At("publish")
    /\ stats' = [c \in Campaign |->
                    stats[c] \o SelectSeq([i \in DOMAIN run.noted |->
                                              IF run.noted[i][1] = c THEN run.noted[i][2] ELSE NoFigures],
                                          LAMBDA n : n # NoFigures)]
    /\ run' = IdleRun
    /\ UNCHANGED <<today, sent, catalogue, faults>>

\* Crash, failed request or failed write: what was noted is gone.
RunFails ==
    /\ ~At("idle")
    /\ Fault
    /\ run' = IdleRun
    /\ UNCHANGED <<today, sent, catalogue, stats>>

Step == ListCampaigns \/ Catalogue \/ SelectCampaigns \/ ReadStatistics
           \/ StatisticsUnread \/ EndOfReading \/ PublishStatistics

Next ==
    \/ DayEnds
    \/ \E t \in Templates, opens \in {NoFigures, 1} : Send(t, opens)
    \/ \E c \in DOMAIN sent :
          \/ Accrue(c)
          \/ \E t \in Templates \cup {NoTemplate} : Retemplate(c, t)
    \/ \E dryRun \in BOOLEAN : BeginRun(dryRun)
    \/ Step \/ RunFails

Spec == Init /\ [][Next]_vars

\* The scheduler keeps starting the live run, which takes its next step.
Fairness == SF_vars(BeginRun(FALSE)) /\ WF_vars(Step)

FairSpec == Spec /\ Fairness

-----------------------------------------------------------------------------
(* Properties. *)

\* StatsLimit newer campaigns keep the place: they still move or never have
\* anything to report.
Crowded(c) ==
    Cardinality({n \in DOMAIN sent : n > c /\ (StillMoving(n) \/ sent[n].opens = NoFigures)})
        >= StatsLimit

\* The published figures catch up with Smaily's.
Measured(c) == stats[c] # <<>> /\ (Last(stats[c]) = sent[c].opens \/ ~StillMoving(c))

\* Through crashes, failed requests and the limit of a run, every campaign that
\* has figures comes to be measured and, while they move, to be up to date,
\* unless enough newer ones keep its place.
AllMeasured ==
    \A c \in DOMAIN sent :
        sent[c].opens # NoFigures => Measured(c) \/ Crowded(c)

\* No later run rewrites what a campaign was recognised as, whatever becomes of
\* its template: a chart of last year keeps its shape.
ClassificationStep ==
    \A c \in DOMAIN catalogue : catalogue'[c].newsletter = catalogue[c].newsletter

=============================================================================
