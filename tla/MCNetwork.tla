------------------------------ MODULE MCNetwork ------------------------------
(* Instances of Network for TLC: WiFi with RS-485 or Ethernet behind it,     *)
(* Ethernet with WiFi behind it, and the radio kept for ESP-NOW.             *)
EXTENDS Network

OnWifi == [primary |-> "WIFI", fallback |-> "RS485", radio |-> "infra"]
OnWifiEth == [primary |-> "WIFI", fallback |-> "ETHERNET", radio |-> "infra"]
OnCable == [primary |-> "ETHERNET", fallback |-> "WIFI", radio |-> "infra"]
OnNow == [primary |-> "WIFI", fallback |-> "NONE", radio |-> "now"]

MCProfiles == {OnWifi, OnWifiEth, OnCable, OnNow}
MCUpsets == [p \in MCProfiles |-> IF p = OnWifiEth THEN 0 ELSE 1]
=============================================================================
