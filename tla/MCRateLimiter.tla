--------------------------- MODULE MCRateLimiter ---------------------------
EXTENDS RateLimiter

CONSTANTS sms, ivr, s1, i1

(* One dispatcher of each of two channels, as deployed. *)
TheChannelOf == [w \in Dispatchers |-> IF w = i1 THEN ivr ELSE sms]

(* The rates of the two channels add up to less than the global one. *)
TheEmission == [k \in Keys |-> CASE k = sms -> 2 [] k = ivr -> 3 [] OTHER -> 1]
=============================================================================
