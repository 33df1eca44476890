----------------------------- MODULE Campaigns -----------------------------
(***************************************************************************)
(* What a campaign is accepted with, and the quotas its zones get from it. *)
(* Both are functions of the form an operator fills in and of the rows     *)
(* there are, so there are operators here and no state.                    *)
(*                                                                         *)
(* The values of a form are numbers with a fraction: value stands for      *)
(* value / Unit.  Zone codes are numbers in the order of the codes.        *)
(***************************************************************************)
EXTENDS Integers, Sequences, FiniteSetsExt

CONSTANTS
    KnownZones,   \* zone_configs
    BaseRows,     \* bases
    WithVersion,  \* bases that have a current version
    ListRows,     \* dnd_lists
    NoList,
    Unit,         \* a value of one
    Tolerance     \* 0.0001, by which the percentages may exceed 100

ASSUME CampaignsAssumption ==
    /\ KnownZones \subseteq Nat
    /\ WithVersion \subseteq BaseRows
    /\ NoList \notin ListRows
    /\ Unit \in Nat \ {0} /\ Tolerance \in Nat

Hundred == 100 * Unit

ZonesOf(form) == {form.allocations[k].zone : k \in DOMAIN form.allocations}
Percentages(form) ==
    MapThenSumSet(LAMBDA k : form.allocations[k].value, DOMAIN form.allocations)

(* The answer of create_campaign; what the checks let through and the      *)
(* constraints of campaign_zone_allocations do not is an error 500.        *)
Answer(form) ==
    CASE form.base \notin BaseRows -> "base not found"
      [] form.base \notin WithVersion -> "no current version"
      [] form.list \notin ListRows \cup {NoList} -> "dnd list not found"
      [] form.allocations = <<>> -> "no allocation"
      [] ~(ZonesOf(form) \subseteq KnownZones) -> "unknown zone"
      [] form.mode = "PERCENT" /\ form.target <= 0 -> "no daily target"
      [] form.mode = "PERCENT" /\ Percentages(form) > Hundred + Tolerance -> "over 100"
      [] \E k \in DOMAIN form.allocations : form.allocations[k].value < 0 -> "error"
      [] Cardinality(ZonesOf(form)) < Len(form.allocations) -> "error"
      [] OTHER -> "CONFIGURED"

Value(form, z) ==
    form.allocations[CHOOSE k \in DOMAIN form.allocations : form.allocations[k].zone = z].value

(* A share that is whole may come out one short: a percentage that is none *)
(* in binary is multiplied as the float nearest to it.                     *)
Inexact(form) ==
    {z \in ZonesOf(form) : Value(form, z) % Unit # 0 /\ (form.target * Value(form, z)) % Hundred = 0}

Share(form, short, z) ==
    (form.target * Value(form, z)) \div Hundred - (IF z \in short THEN 1 ELSE 0)

LastZone(form) == Max(ZonesOf(form))

(* A variant that lets the last zone lose its fraction like the others. *)
QuotasDrifting(form, short) ==
    [z \in ZonesOf(form) |->
        IF form.mode = "ABSOLUTE" THEN Value(form, z) \div Unit ELSE Share(form, short, z)]

Quotas(form, short) ==
    LET others == ZonesOf(form) \ {LastZone(form)}
    IN [z \in ZonesOf(form) |->
           IF form.mode = "ABSOLUTE" THEN Value(form, z) \div Unit
           ELSE IF z \in others THEN Share(form, short, z)
           ELSE form.target - MapThenSumSet(LAMBDA y : Share(form, short, y), others)]
=============================================================================
