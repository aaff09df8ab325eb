------------------------------ MODULE ServingMC ------------------------------
(* Values for the constants of Serving.                                    *)
EXTENDS Serving

CONSTANTS s1, s2, localhost, host

TwoServers == {s1, s2}
AllModes   == {"ca", "self", "iroh", "init"}
TwoNames   == {localhost, host}
Extra      == {host}
=============================================================================
