--------------------------- MODULE MCOverlayMerge ---------------------------
(* Instances of OverlayMerge for TLC. *)
EXTENDS OverlayMerge

CONSTANTS r1, r2,         \* regions
          e1, e2, k1, o1, \* features: two extensions, a version, a retired measurement
          ext, ver        \* jobs

MCCategory == [f \in Features |-> CASE f \in {e1, e2} -> "aksExtensions"
                                    [] f = k1         -> "aksKubernetesVersions"
                                    [] OTHER          -> "modelLatency"]
MCProbed == [j \in Jobs |-> IF j = ext THEN {"aksExtensions"} ELSE {"aksKubernetesVersions"}]

(* What was published before is told apart from what is probed now.        *)
MCPublished == [Cells -> {"unavailable", Absent}]

(* The repository's sample lists one extension in one region.              *)
MCSample == [c \in Cells |-> IF c = <<r1, e1>> THEN "partial" ELSE Absent]
=============================================================================
