----------------------------- MODULE MCDelivery -----------------------------
(* Instances of Delivery for TLC: the chain dev -> staging -> prod. *)
EXTENDS Delivery

Chain(stages) == {pair \in stages \X stages :
                     pair \in {<<"dev", "staging">>, <<"staging", "prod">>}}

DevOnly   == {"dev"}
TwoStages == {"dev", "staging"}
Stages    == {"dev", "staging", "prod"}

NoPromotions  == Chain(DevOnly)
OnePromotion  == Chain(TwoStages)
TwoPromotions == Chain(Stages)

=============================================================================
