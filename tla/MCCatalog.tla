----------------------------- MODULE MCCatalog -----------------------------
(* Four releases, the third of which this engine cannot use.               *)
EXTENDS Catalog

SkipsOne == {3}
=============================================================================
