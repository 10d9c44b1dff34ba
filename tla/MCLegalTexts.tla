---------------------------- MODULE MCLegalTexts -----------------------------
(***************************************************************************)
(* Records and texts for TopicMatching and OpinionMatching: inflected and  *)
(* shared nouns, two near-identical pages, a page that moves from the      *)
(* listing to the archive, sent and closed records, disagreeing dates and  *)
(* numbers; two records that claim one letter, a republished letter with   *)
(* other bytes, an annex, an annex only the public site has, a late        *)
(* follow-up, a letter older than its request, an article without a        *)
(* letter, and two records of one topic and date.                          *)
(***************************************************************************)
EXTENDS Integers, FiniteSets

(* Consultations. *)

WordGrams ==
    [w \in {"pakend", "pakendi", "maks", "tervis", "seadus"} |->
       CASE w = "pakend"  -> {1, 2, 3}
         [] w = "pakendi" -> {1, 2, 4}
         [] w = "maks"    -> {5, 6}
         [] w = "tervis"  -> {7, 8}
         [] OTHER         -> {9, 10}]

GenericWords == {"seadus"}

\* round(100 * ln(1 + (n - k + 0.5) / (k + 0.5)))
IdfTable ==
    <<<<29>>, <<69, 18>>, <<98, 47, 13>>, <<120, 69, 36, 11>>, <<139, 88, 54, 29, 9>>>>

Record(id, topic, received, deadline, organization, identifiers) ==
    [id |-> id, topic |-> topic, received |-> received, deadline |-> deadline,
     organization |-> organization, identifiers |-> identifiers,
     open |-> TRUE, sent |-> FALSE]

Packaging == Record(1, {"pakend", "seadus"}, 100, 110, {"kliima"}, {})
Tax       == Record(2, {"maks", "seadus"}, 100, 0, {}, {"12 SE"})
Generics  == Record(3, {"seadus"}, 0, 110, {"kliima"}, {})
Health    == Record(4, {"tervis", "maks"}, 170, 0, {"tervis"}, {})

TopicRegisters ==
    {{Packaging, Tax}, {Generics, Health},
     {[Packaging EXCEPT !.sent = TRUE], [Tax EXCEPT !.open = FALSE], Health}}

Entry(key, url, head, body, published, deadline, organization, identifiers) ==
    [key |-> key, url |-> url, head |-> head, body |-> body, published |-> published,
     deadline |-> deadline, organization |-> organization, identifiers |-> identifiers,
     hydrated |-> TRUE, present |-> TRUE]

PackagingPage == Entry(1, "u1", {"pakendi"}, {"pakend", "seadus"}, 105, 110, {"kliima"}, {})
PackagingTwin == Entry(2, "u2", {"pakendi"}, {"pakend", "seadus"}, 105, 111, {"kliima"}, {})
TaxPage       == Entry(3, "u3", {"maks"}, {"seadus"}, 105, 0, {"raha"}, {"13 SE"})
EarlyPage     == Entry(4, "u4", {"tervis"}, {"maks"}, 100, 0, {}, {})
LatePage      == Entry(5, "u5", {"pakend", "seadus"}, {}, 105, 140, {"raha"}, {})
HealthPage    == Entry(6, "u6", {"tervis"}, {"maks"}, 150, 0, {"tervis"}, {})

TopicListings ==
    {{PackagingPage, TaxPage, EarlyPage}, {PackagingPage, PackagingTwin, LatePage}, {}}

TopicArchives ==
    {{PackagingPage, HealthPage, TaxPage},
     {[PackagingPage EXCEPT !.hydrated = FALSE], PackagingTwin, EarlyPage,
      [HealthPage EXCEPT !.present = FALSE], [HealthPage EXCEPT !.key = 7, !.url = "u7"]}}

PublicUrls == {"u1", "u2", "u3", "u4", "u6", "u7"}
-----------------------------------------------------------------------------
(* Opinions. *)

\* round(100 * ln(n / k) / ln(n)), with one subject always 100
RarityTable ==
    <<<<100>>, <<100, 0>>, <<100, 37, 0>>, <<100, 50, 21, 0>>, <<100, 57, 32, 14, 0>>>>

Republished == {{1, 2}}

Sent(id, topic, received, sent, recipient, identifiers) ==
    [id |-> id, topic |-> topic, received |-> received, sent |-> TRUE, sent_date |-> sent,
     recipient |-> recipient, identifiers |-> identifiers, acronyms |-> {}]

PackagingSent == Sent(1, {"pakend", "seadus"}, 90, 101, {"kliima"}, {})
Again     == Sent(2, {"pakend", "maks"}, 90, 110, {"kliima"}, {})
Twin      == Sent(3, {"pakend", "seadus"}, 90, 104, {"raha"}, {})
TaxSent       == Sent(4, {"maks", "seadus"}, 95, 120, {}, {"12 SE"})

SentRegisters ==
    {{PackagingSent, TaxSent}, {PackagingSent, Again}, {PackagingSent, Twin},
     {[PackagingSent EXCEPT !.sent = FALSE], TaxSent, [Again EXCEPT !.sent_date = 0]}}

Letter(blob, text, kinds, filename, detected, subject, body, recipient, identifiers) ==
    [blob |-> blob, text |-> text, subjectKinds |-> kinds, headerKinds |-> {"opinion"},
     filename_date |-> filename, detected_date |-> detected, subject |-> subject,
     body |-> body, recipient |-> recipient, identifiers |-> identifiers,
     acronyms |-> {}, usable |-> TRUE]

PackagingLetter == Letter(1, 1, {"opinion"}, 100, 101, {"pakendi", "pakend"}, {"pakend", "maks"},
                          {"kliima"}, {})
AnnexOfIt       == Letter(2, 3, {"annex"}, 100, 0, {"pakend"}, {"pakend"}, {"kliima"}, {})
FollowUp        == Letter(3, 4, {"follow_up"}, 215, 0, {"maks"}, {"maks"}, {}, {})
TaxLetter       == Letter(4, 5, {"opinion"}, 118, 0, {"maks"}, {"maks"}, {}, {"12 SE"})
EarlyLetter     == Letter(5, 6, {"opinion"}, 80, 0, {"maks"}, {"maks"}, {}, {})

LetterCatalogues ==
    {{PackagingLetter, AnnexOfIt, TaxLetter}, {PackagingLetter, FollowUp, EarlyLetter},
     {EarlyLetter, [TaxLetter EXCEPT !.identifiers = {"13 SE"}]}}

Public(letter, blob, text, date) ==
    [blob |-> blob, text |-> text, subjectKinds |-> letter.subjectKinds,
     headerKinds |-> letter.headerKinds, filename_date |-> letter.filename_date,
     detected_date |-> letter.detected_date, subject |-> letter.subject,
     body |-> letter.body, recipient |-> letter.recipient,
     identifiers |-> letter.identifiers, acronyms |-> letter.acronyms,
     usable |-> TRUE, page_date |-> date, present |-> TRUE]

Article(id, title, date) ==
    [id |-> id, title |-> title, body |-> title, date |-> date, present |-> TRUE,
     identifiers |-> {}, acronyms |-> {}]

PublicCorpora ==
    {[docs |-> {Public(PackagingLetter, 11, 2, 102), Public(TaxLetter, 4, 5, 119)}, pages |-> {}],
     [docs |-> {Public(AnnexOfIt, 12, 8, 102)}, pages |-> {}],
     [docs |-> {Public(TaxLetter, 14, 7, 0)},
      pages |-> {Article(1, {"pakend", "seadus"}, 103), Article(2, {"maks"}, 160)}]}
==============================================================================
