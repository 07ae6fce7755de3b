--------------------------- MODULE MCContentCache ---------------------------
(***************************************************************************)
(* Instances of ContentCache for TLC.                                      *)
(***************************************************************************)
EXTENDS ContentCache, TLC

CONSTANTS i1, r1, r2

\* A key of each service; no action but a sweep relates two keys.
MCContents == {{"planCategories"}, {"areaSubAreas"}, {"products"}, {"faqs"},
               {"siteSettings"}}

MCSymmetry == Permutations(Requests)
=============================================================================
