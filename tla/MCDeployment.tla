---------------------------- MODULE MCDeployment ----------------------------
(* The whole script with one lockup contract, interrupted twice: as it stands, with *)
(* some of its arguments corrected, and with all of them.                           *)
EXTENDS Deployment

MCBeneficiaries == <<"ACCOUNT_2">>

OneFeed      == <<"connect", "priceFeed">>
NoReward     == <<"connect", "rskSwapPool">>
ThreeDays    == <<"deploy", "ACCOUNT_2">>
MCRefusals == {{OneFeed, NoReward, ThreeDays}, {NoReward, ThreeDays}, {ThreeDays}, {}}
=============================================================================
