--------------------------- MODULE MCDashboardCache ---------------------------
(* Two requests, one tenant, a hard field and a soft one. *)
EXTENDS DashboardCache

FieldSeq == <<"total_assets", "energy_current_kw">>
SoftSet == {"energy_current_kw"}
Subjects == [f \in {"total_assets", "energy_current_kw"} |->
    IF f = "total_assets" THEN <<"asset", "created">> ELSE <<"asset", "updated">>]
==============================================================================
