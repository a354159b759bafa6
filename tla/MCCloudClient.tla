--------------------------- MODULE MCCloudClient ----------------------------
(***************************************************************************)
(* Two callers, as there are: the worker and the sync.  One CIDR that they *)
(* fight over beside the default route, ids enough for every route and     *)
(* everyone who remembers one.                                             *)
(***************************************************************************)
EXTENDS CloudClient, TLC

CONSTANTS worker, sync, A, Default, i1, r1, r2, r3, r4, r5

MCCallers   == {worker, sync}
MCCidrs     == {A, Default}
MCInstances == {i1}
MCAlone     == {sync}
MCFewIds    == {r1, r2, r3, r4}
MCIds       == {r1, r2, r3, r4, r5}
MCAsks      == [op : {"create", "find", "list", "delete"}, cidr : {A}, inst : {i1}]
MCInitCloud == {[c \in MCCidrs |-> IF c = Default THEN i1 ELSE i] : i \in {i1, NoRoute}}

Interchangeable == Permutations(MCIds)
=============================================================================
