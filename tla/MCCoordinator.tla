--------------------------- MODULE MCCoordinator ---------------------------
(* Two adapters at a time on a bus two events deep.  A behaviour explores   *)
(* either the announcements or budgets and turns: the two meet only in the  *)
(* adapters' lifecycles.                                                    *)
EXTENDS Coordinator

VARIABLE part

MCInit == Init /\ part \in {"announcements", "scheduling"}

MCNext ==
  /\ UNCHANGED part
  /\ \/ part = "announcements" /\ AnnouncementNext
     \/ part = "scheduling" /\ BudgetNext

MCSpec == MCInit /\ [][MCNext]_<<vars, part>>
=============================================================================
