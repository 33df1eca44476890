------------------------------ MODULE MCImport ------------------------------
EXTENDS ImportPipeline

CONSTANTS i1, i2, w1, w2, b1, p1, p2, o1

MCCountryCode == <<2, 5>>

Digits(d) == << [text |-> "", digits |-> d] >>
Text(t) == << [text |-> t, digits |-> <<>>] >>

(* Two files: one with a header, two chunks and a repeated number; one of  *)
(* bare numbers.                                                           *)
Census == [profile |-> NoProfile, lines |-> <<
    << Text("msisdn"), Text("zone") >>,
    << Digits(<<7, 1>>), Text("zA") >>,
    << Text("x"), Text("zA") >>,
    << Digits(<<0, 7, 1>>), Text("zB") >> >>]
Bare == [profile |-> NoProfile, lines |-> << << Digits(<<7, 2>>) >> >>]
MCContent == [f \in Files |-> IF f = "census" THEN Census ELSE Bare]

OneEach == [p \in Partitions |-> IF p = p1 THEN w1 ELSE w2]
TwoPartitions == [i \in Imports |-> IF i = i1 THEN p1 ELSE p2]

(* A lock that expires under its holder, or a worker that goes on without  *)
(* its partition: not both at once.                                        *)
OneGuardLeft == {{"crash", "expiry", "relay"},
                 {"crash", "exception", "evict", "retry"}}
=============================================================================
