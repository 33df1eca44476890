--------------------------- MODULE ImportContract ---------------------------
(***************************************************************************)
(* What the import pipeline promises its operators: a file is shown before *)
(* it is used, what is shown is the whole of the file, what is used is     *)
(* what was shown, and only after an approval, and once.                   *)
(***************************************************************************)
EXTENDS Naturals, Sequences

CONSTANTS
    Imports,   \* files somebody uploads
    Targets,   \* bases and DND lists
    Files,     \* what may be in them
    Report,    \* what each file is to be shown as
    Yield      \* what each adds to a base, and what to a DND list

VARIABLES
    phase,     \* how far each import is
    kind,      \* what it is for: BASE or DND
    content,   \* the file it is
    report,    \* what its operator is shown, <<>> before
    asked,     \* the targets it was approved for
    catalogue  \* versions of bases and DND lists, as they were published

vars == <<phase, kind, content, report, asked, catalogue>>

Init ==
    /\ phase = [i \in Imports |-> "absent"]
    /\ kind = [i \in Imports |-> "none"]
    /\ content = [i \in Imports |-> "none"]
    /\ report = [i \in Imports |-> <<>>]
    /\ asked = [i \in Imports |-> {}]
    /\ catalogue = <<>>

(* A file is taken in once, however often it is uploaded. *)
Receive(i, k, f) ==
    /\ phase[i] = "absent"
    /\ \A j \in Imports : content[j] # f
    /\ phase' = [phase EXCEPT ![i] = "received"]
    /\ kind' = [kind EXCEPT ![i] = k]
    /\ content' = [content EXCEPT ![i] = f]
    /\ UNCHANGED <<report, asked, catalogue>>

Show(i) ==
    /\ phase[i] = "received"
    /\ phase' = [phase EXCEPT ![i] = "shown"]
    /\ report' = [report EXCEPT ![i] = Report[content[i]]]
    /\ UNCHANGED <<kind, content, asked, catalogue>>

Decide(i, verdict, t) ==
    /\ phase[i] = "shown"
    /\ phase' = [phase EXCEPT ![i] = verdict]
    /\ asked' = [asked EXCEPT ![i] = IF verdict = "approved" THEN @ \cup {t} ELSE @]
    /\ UNCHANGED <<kind, content, report, catalogue>>

AskAgain(i, t) ==
    /\ phase[i] = "approved"
    /\ asked' = [asked EXCEPT ![i] = @ \cup {t}]
    /\ UNCHANGED <<phase, kind, content, report, catalogue>>

(* A base has one current version; a DND list adds to those before it. *)
Versions(t, k) == {n \in DOMAIN catalogue : catalogue[n].kind = k /\ catalogue[n].target = t}
Publish(i, t) ==
    /\ phase[i] = "approved" /\ t \in asked[i]
    /\ phase' = [phase EXCEPT ![i] = "live"]
    /\ catalogue' = Append(
            [n \in DOMAIN catalogue |->
                IF kind[i] = "BASE" /\ n \in Versions(t, "BASE")
                THEN [catalogue[n] EXCEPT !.current = FALSE]
                ELSE catalogue[n]],
            [kind |-> kind[i], target |-> t, source |-> i, current |-> TRUE,
             members |-> Yield[kind[i]][content[i]]])
    /\ UNCHANGED <<kind, content, report, asked>>

Next ==
    \E i \in Imports :
        \/ \E k \in {"BASE", "DND"}, f \in Files : Receive(i, k, f)
        \/ Show(i)
        \/ \E t \in Targets : Decide(i, "approved", t) \/ AskAgain(i, t) \/ Publish(i, t)
        \/ Decide(i, "rejected", i)

Spec == Init /\ [][Next]_vars
=============================================================================
