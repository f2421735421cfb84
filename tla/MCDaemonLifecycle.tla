-------------------------- MODULE MCDaemonLifecycle --------------------------
(* Instances of DaemonLifecycle for TLC: two servers and configurations    *)
(* that differ by every kind of change a reload tells apart.               *)
EXTENDS DaemonLifecycle, TLC

TwoServers == {"a", "b"}
E(conf, vols, tools) == [conf |-> conf, vols |-> vols, tools |-> tools]
File(x, y) == ("a" :> x) @@ ("b" :> y)

OnlyA     == File(E(1, 1, {"x"}), Absent)
AChanged  == File(E(2, 1, {"x"}), Absent)
OnlyB     == File(Absent, E(1, 1, {"x"}))
Both      == File(E(1, 1, {"x", "y"}), E(1, 1, {"x"}))
NoTools   == File(E(1, 1, {}), Absent)
VolsMoved == File(E(1, 2, {"x"}), Absent)

AllConfigs   == {OnlyA, AChanged, OnlyB, Both, NoTools}
ValidConfigs == {OnlyA, AChanged, OnlyB, Both}
VolConfigs   == {OnlyA, VolsMoved, OnlyB}
BootOnlyA    == {OnlyA}
BootEither   == {OnlyA, Both}
AllFaults    == {"spawn", "init", "close", "ping", "api"}
SlowServers  == {"close", "ping"}
NoFaults     == {}
=============================================================================
