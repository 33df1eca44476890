--------------------------- MODULE MCProjections ---------------------------
EXTENDS Projections

CONSTANTS m1, p1, p2, l1, l2, zA, zB, a1, a2, w1, w2

MCHome == [c \in Customers |-> IF c = 1 THEN zA ELSE Unspecified]

(* Two syncs while subscribers come and go; a sync, a list and the end of a *)
(* cooldown around a preview; a run that two look at while it completes, or *)
(* one while workers fail, and whose message is retried by hand.            *)
Nothing == [sync |-> 0, subscriber |-> 0, preview |-> 0, list |-> 0,
            cooldown |-> 0, refresh |-> 0, run |-> 0, fault |-> 0]
NoRows == [c \in Customers |-> "none"]

(* Two customers who are both subscribers, or both none, may be exchanged.  *)
Exchanged == {<<"yes", "none">>, <<"no", "none">>, <<"no", "yes">>}
MCSyncs ==
    {s \in [source : {{}, {1}, {1, 2}}, cooling : {{}},
            subscribed : {[p \in Products |-> IF p = p1 THEN rows ELSE NoRows] :
                             rows \in [Customers -> {"none", "yes", "no"}]},
            budget : {[Nothing EXCEPT !.sync = 2, !.subscriber = 2]}] :
        s.source = {1} \/ s.subscribed[p1] \notin Exchanged}

MCScenarios ==
    MCSyncs
    \cup
    [source : {{1}}, cooling : {{1}},
     subscribed : {f \in [Products -> [Customers -> {"none", "yes"}]] : f[p2][2] = "none"},
     budget : {[Nothing EXCEPT !.sync = 1, !.preview = 1, !.list = 2, !.cooldown = 1]}]
    \cup
    [source : {{}}, cooling : {{}}, subscribed : {[p \in Products |-> NoRows]},
     budget : {[Nothing EXCEPT !.refresh = 2, !.run = 2],
               [Nothing EXCEPT !.refresh = 1, !.run = 3, !.fault = 2]}]
=============================================================================
