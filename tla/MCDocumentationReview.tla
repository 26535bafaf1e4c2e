----------------------- MODULE MCDocumentationReview -----------------------
(* Instances of DocumentationReview for TLC: three contents of the source, *)
(* and three days between general reviews, so that there is time for a     *)
(* review of a change, a deferred one and one that is lost.                *)
EXTENDS DocumentationReview
CONSTANTS s1, s2, s3
MCContents == {s1, s2, s3}
=============================================================================
