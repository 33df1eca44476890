------------------------------- MODULE MCLaws -------------------------------
(***************************************************************************)
(* The laws of what is a function of its input.  A file is typed line by   *)
(* line, and what Ingest makes of it is held against what a reader of its  *)
(* lines would say; or the form of a campaign is filled in zone by zone.   *)
(* Numbers have two digits after a country code of two, so that a number,  *)
(* a local number and an international one, and the lengths between them,  *)
(* are all short; percentages have halves.                                 *)
(***************************************************************************)
EXTENDS IngestLaws, CampaignLaws

CONSTANTS MaxLines, MaxAllocations

MCCountryCode == <<2, 5>>

Text(t) == [text |-> t, digits |-> <<>>]
Plus(d) == [text |-> "+", digits |-> d]

Headers == {
    << <<Text("msisdn")>> >>,
    << <<Text("zone")>>, <<Text("phone")>>, <<Text("age")>> >>,
    << <<Text("zone")>>, <<Text("name")>> >>}
Numbers == {
    << <<Digits(<<7, 1>>)>> >>, << <<Digits(<<0, 7, 1>>)>> >>,
    << <<Plus(<<2, 5, 7, 1>>), Text("m"), Digits(<<3>>)>> >>,
    << <<Digits(<<7, 2>>)>> >>, << <<Digits(<<7, 10>>)>> >>}
Others == {
    <<>>, << <<Nothing>> >>, << <<Text("x")>> >>,
    << <<Text("zA")>>, <<Digits(<<7, 1>>)>>, <<Digits(<<3>>)>> >>,
    << <<Text("zB")>>, <<Plus(<<2, 5, 7, 1>>)>> >>,
    << <<Text("zB")>>, <<Digits(<<2, 5, 7>>)>>, <<Text("x")>> >>}

Profiles == {NoProfile, [msisdn |-> "phone", territory |-> "area"]}

Targets == {0, 1, 7, 200}
Values == {-1, 0, 33, 67, 134, 201}

Init ==
    /\ file \in [profile : Profiles, lines : {<<>>}]
    /\ form \in [base : 1..3, list : {NoList, 1, 2}, mode : {"PERCENT", "ABSOLUTE"},
                 target : Targets, allocations : {<<>>}]
Type(line) ==
    /\ form = [base |-> 1, list |-> NoList, mode |-> "PERCENT", target |-> 0,
               allocations |-> <<>>]
    /\ Len(file.lines) < MaxLines
    /\ file' = [file EXCEPT !.lines = Append(@, line)]
    /\ UNCHANGED form
Allocate(z, v) ==
    /\ file = [profile |-> NoProfile, lines |-> <<>>]
    /\ Answer(form) \in {"no allocation", "CONFIGURED"}
    /\ Len(form.allocations) < MaxAllocations
    /\ form' = [form EXCEPT !.allocations = Append(@, [zone |-> z, value |-> v])]
    /\ UNCHANGED file
Next ==
    \/ \E line \in Headers \cup Numbers \cup Others : Type(line)
    \/ \E z \in 1..4, v \in Values : Allocate(z, v)
Spec == Init /\ [][Next]_<<file, form>>
=============================================================================
