---------------------------- MODULE CampaignLaws ----------------------------
(***************************************************************************)
(* The law of the form of a campaign: what the zones of an accepted one    *)
(* get is what its operator has asked for.                                 *)
(***************************************************************************)
EXTENDS Campaigns

VARIABLE form

(* What a form is, as far as its quotas go.                                 *)
FormOK == form.target \in Int /\ form.allocations \in Seq([zone : Nat, value : Int])

(* The quotas of a PERCENT campaign that was accepted are its daily target, *)
(* no more and no less: every zone but the last gets its share less a       *)
(* fraction, or one less where the float is short, and the last at least    *)
(* its share, if the percentages are no more than 100, and never less than  *)
(* nothing, as long as the tolerance on the percentages is worth less than  *)
(* one message (_resolve_zone_quotas).                                      *)
QuotasMeetTarget ==
    Answer(form) = "CONFIGURED" /\ form.mode = "PERCENT" =>
        \A short \in SUBSET Inexact(form) :
            LET quotas == Quotas(form, short)
                last == LastZone(form)
                parts(z) == form.target * Value(form, z)
            IN  /\ MapThenSumSet(LAMBDA z : quotas[z], ZonesOf(form)) = form.target
                /\ \A z \in ZonesOf(form) \ {last} :
                       Hundred * quotas[z] <= parts(z) /\ parts(z) <= Hundred * (quotas[z] + 1)
                /\ Percentages(form) <= Hundred => Hundred * quotas[last] >= parts(last)
                /\ form.target * Tolerance < Hundred => quotas[last] >= 0
=============================================================================
