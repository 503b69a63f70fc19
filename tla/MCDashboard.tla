----------------------------- MODULE MCDashboard -----------------------------
(* One order the operator, its customer and other operators decide about.     *)
EXTENDS DashboardGuarantees

CONSTANT o1
OneOrderOf == [o \in {o1} |-> o1]
=============================================================================
