--------------------------- MODULE MCTimelineSync ---------------------------
(* TimelineSync on small timelines. *)
EXTENDS TimelineSync
==============================================================================
