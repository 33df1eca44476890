--------------------------- MODULE RotationCycle ---------------------------
(***************************************************************************)
(* What the rotation of a base promises, said without workers, locks or    *)
(* offsets: a run takes one slice of each zone, of the size of its quota,  *)
(* from the customers not used since the zone last began anew; a zone      *)
(* begins anew when it has none of them left.                              *)
(***************************************************************************)
EXTENDS Naturals, FiniteSets

CONSTANTS Runs, Zones, Pool, Quota

VARIABLES
    status,     \* of each run, as far as its audience goes
    audience,   \* customers selected for each run
    used        \* customers of each zone used since it last began anew

vars == <<status, audience, used>>

Init ==
    /\ status = [r \in Runs |-> "OPEN"]
    /\ audience = [r \in Runs |-> {}]
    /\ used = [z \in Zones |-> {}]

Slices(S, n) ==
    {T \in SUBSET S : Cardinality(T) = IF n < Cardinality(S) THEN n ELSE Cardinality(S)}

Select(r, z) ==
    /\ status[r] = "OPEN"
    /\ audience[r] \cap Pool[z] = {}
    /\ \/ /\ Pool[z] \ used[z] # {}
          /\ \E T \in Slices(Pool[z] \ used[z], Quota[r][z]) :
                /\ audience' = [audience EXCEPT ![r] = @ \cup T]
                /\ used' = [used EXCEPT ![z] = @ \cup T]
       \/ /\ Pool[z] \subseteq used[z]
          /\ \E T \in Slices(Pool[z], Quota[r][z]) :
                /\ audience' = [audience EXCEPT ![r] = @ \cup T]
                /\ used' = [used EXCEPT ![z] = T]
    /\ UNCHANGED status

(* An audience is closed when every zone that can give has given. *)
Close(r) ==
    /\ status[r] = "OPEN"
    /\ \A z \in Zones :
          Pool[z] # {} /\ Quota[r][z] > 0 => audience[r] \cap Pool[z] # {}
    /\ status' = [status EXCEPT ![r] = "READY"]
    /\ UNCHANGED <<audience, used>>

Start(r) ==
    /\ status[r] = "READY"
    /\ status' = [status EXCEPT ![r] = "RUNNING"]
    /\ UNCHANGED <<audience, used>>

Next ==
    \E r \in Runs : Close(r) \/ Start(r) \/ \E z \in Zones : Select(r, z)

Spec == Init /\ [][Next]_vars
=============================================================================
