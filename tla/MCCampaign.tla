----------------------------- MODULE MCCampaign -----------------------------
(* Every driver, two trials each (Drivers says which have one), two        *)
(* packets two seconds apart.                                              *)
EXTENDS Campaign

TwoPackets == <<0, 2>>
Every == DOMAIN Script
OnlyE12b == {"e12b"}
=============================================================================
