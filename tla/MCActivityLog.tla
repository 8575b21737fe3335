--------------------------- MODULE MCActivityLog ---------------------------
(* One handler beside the thread, two flows kept with two places each, so  *)
(* that both rings wrap within five activities and four flows.             *)
EXTENDS ActivityLog

=============================================================================
