-------------------------------- MODULE MCDemo --------------------------------
(* The sample shop with its 25 orders, and two of its user for tea: all of the *)
(* second product, or of the sold-out first, which all of the second replaces. *)
EXTENDS DemoGuarantees
=============================================================================
