--------------------------- MODULE MCWifiProvision --------------------------
(* Requests for TLC, with areas of two bytes: short and full texts, a name  *)
(* and a password that are too long.                                        *)
EXTENDS WifiProvision

MCRouter == [ssid |-> <<1>>, pass |-> <<1, 1>>]

MCRequests == {MCRouter,
               [ssid |-> <<2, 2>>, pass |-> <<2>>],
               [ssid |-> <<3, 3, 3, 3>>, pass |-> <<3>>],
               [ssid |-> <<4>>, pass |-> <<4, 4, 4>>]}

=============================================================================
