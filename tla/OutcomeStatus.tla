--------------------------- MODULE OutcomeStatus ---------------------------
(* The statuses of an outcome row and the transitions its trigger allows.  *)
(* Mission and Attention both move one outcome through them.               *)

Terminal == {"completed", "failed", "cancelled"}
Statuses == {"proposed", "accepted", "queued", "running", "waiting_external",
             "waiting_user", "blocked", "verifying"} \cup Terminal

\* The transition guard's table (trigger outcomes_transition_guard).
LegalNext ==
    [s \in Statuses |->
        CASE s = "proposed"         -> {"accepted", "cancelled"}
          [] s = "accepted"         -> {"queued", "cancelled", "failed"}
          [] s = "queued"           -> {"running", "cancelled", "failed"}
          [] s = "running"          -> {"waiting_external", "waiting_user", "blocked",
                                        "verifying", "failed", "cancelled"}
          [] s = "waiting_external" -> {"running", "blocked", "failed", "cancelled"}
          [] s = "waiting_user"     -> {"running", "verifying", "blocked", "failed",
                                        "cancelled"}
          [] s = "blocked"          -> {"running", "waiting_external", "waiting_user",
                                        "verifying", "failed", "cancelled"}
          [] s = "verifying"        -> {"completed", "running", "blocked", "failed",
                                        "cancelled"}
          [] OTHER                  -> {}]

============================================================================
