------------------------- MODULE MCPlatformDevices -------------------------
(* One card and two devices made of parts of it.                          *)
EXTENDS PlatformDevices

Cards == <<"0000:01:00.0">>
Parts == {"part1", "part2"}
MadeOf == [d \in Parts |-> "0000:01:00.0"]
Nodes == <<"accel0", "accel1", "accel10">>
Handles == {[f |-> "runtime", q |-> 0], [f |-> "platform", q |-> 100]}
ComeBack == {"0000:01:00.0"}
=============================================================================
