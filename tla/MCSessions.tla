----------------------------- MODULE MCSessions -----------------------------
EXTENDS Sessions

CONSTANTS u1, u2, e1, e2, e3, t1, t2

OneEach == [u \in Users |-> IF u = u1 THEN e1 ELSE e2]

(* Two codes and an edit; two edits, so that an address changes hands; or  *)
(* one code that is answered wrongly over and over.                        *)
MCBounds == {[codes |-> 2, sessions |-> 2, wrong |-> 0, edits |-> 1],
             [codes |-> 1, sessions |-> 2, wrong |-> 0, edits |-> 2],
             [codes |-> 1, sessions |-> 1, wrong |-> 9, edits |-> 0]}
=============================================================================
