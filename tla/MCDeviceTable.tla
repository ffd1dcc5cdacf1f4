---------------------------- MODULE MCDeviceTable ----------------------------
(* Instances of DeviceTable for TLC: the numbers in the device tree.       *)
EXTENDS DeviceTable

CONSTANTS p1, p2

MCPdevs == {p1, p2}
MCIndex == [p \in MCPdevs |-> IF p = p1 THEN 0 ELSE 2]
=============================================================================
