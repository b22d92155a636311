------------------------------ MODULE MCSettings ------------------------------
(* Instances of Settings for TLC. *)
EXTENDS Settings

RdsDefault == [storage |-> 20, retention |-> 1, version |-> <<9, 5, 4>>]

PlansOf(aurora, versions) ==
    [aurora : {aurora}, storage : {0, 10, 50}, retention : {0, 7}, version : versions]

OneDigit == {<<>>, <<9, 5, 4>>, <<9, 6, 1>>}
TwoDigits == {<<9, 6, 1>>, <<10, 1, 0>>}

OneDigitPlans == PlansOf(FALSE, OneDigit) \cup PlansOf(TRUE, OneDigit)
PostgresTen == PlansOf(FALSE, TwoDigits)
=============================================================================
