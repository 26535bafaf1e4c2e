--------------------------- MODULE MCProbeRunner ----------------------------
(* Instances of ProbeRunner for TLC. *)
EXTENDS ProbeRunner

CONSTANTS r1, r2, r3,     \* regions
          e1, e2, ec, k1, \* two extensions, their catalog's sentinel, a version
          cat, ver        \* a listing probe and a fixed probe

MCItems    == [p \in Probes |-> IF p = cat THEN <<e1, e2>> ELSE <<k1>>]
MCCatalog  == [p \in Probes |-> IF p = cat THEN "catalog" ELSE "fixed"]
MCSentinel == [p \in Probes |-> ec]
MCCategory == [f \in Features |-> IF f = k1 THEN "aksKubernetesVersions" ELSE "aksExtensions"]

MCCalls == <<<<r1, cat>>, <<r1, ver>>, <<r2, cat>>, <<r2, ver>>, <<r3, cat>>, <<r3, ver>>>>
=============================================================================
