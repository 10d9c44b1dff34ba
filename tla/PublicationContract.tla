------------------------ MODULE PublicationContract ------------------------
(***************************************************************************)
(* What every snapshot feed promises about the dashboard, with the import  *)
(* registry, the processes, the locks and the failures left out: the       *)
(* dashboard shows nothing until the first publication; from then on it    *)
(* shows exactly one published content, replaced in one step by another    *)
(* that was never published before, and never withdrawn.                   *)
(***************************************************************************)
CONSTANTS
    Content,
    NoContent

VARIABLES
    shown,      \* what the dashboard shows
    published   \* everything some live import has published

contractVars == <<shown, published>>

Init ==
    /\ shown = NoContent
    /\ published = {}

Publish(c) ==
    /\ c \notin published
    /\ shown' = c
    /\ published' = published \cup {c}

Next == \E c \in Content : Publish(c)

Spec == Init /\ [][Next]_contractVars
=============================================================================
