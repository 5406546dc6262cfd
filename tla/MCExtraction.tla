---------------------------- MODULE MCExtraction ----------------------------
(***************************************************************************)
(* A small device: a virtual with its pool (of the same name), a rule of   *)
(* another partition whose name is on the list, and a persistence profile  *)
(* of a kind that is not read, and the same virtual with an address that   *)
(* the emitter refuses; another pool with "min 1 of" a monitor at a path   *)
(* that the list has for an object of another kind.                        *)
(***************************************************************************)
EXTENDS Extraction

Object(kind, partition, name, uses) ==
    [kind |-> kind, partition |-> partition, name |-> name, uses |-> uses]

SourceAddr == Object("other_persist", "Common", "source_addr", {})
Squatter == Object("monitor", "Common", "dns", {})
Probe == Object("monitor", "Common", "probe", {})
Namesake == Object("rule", "Tenant", "dns", {})
Pool == Object("pool", "Common", "web", {PathOf(Probe)})
AnyOf == Object("pool", "Common", "any", {PathOf(Squatter)})
Web == Object("virtual", "Common", "web", {PathOf(Pool), PathOf(Namesake), PathOf(SourceAddr)})
WebRefused == Object("virtual", "Common", "web", {PathOf(Pool)})

LabObjects == {SourceAddr, Squatter, Probe, Namesake, Pool, AnyOf, Web, WebRefused}
LabStock == {SourceAddr}
LabMinOf == {AnyOf}
LabBadDestination == {WebRefused}
=============================================================================
