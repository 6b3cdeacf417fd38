------------------------------- MODULE MCBatch -------------------------------
(***************************************************************************)
(* Two workers share three inputs; a fourth report is a skipped symlink.   *)
(***************************************************************************)
EXTENDS Batch

MCOutcomes ==
  {[status |-> "Sanitised", files |-> 2,
    subs |-> [NoSubs EXCEPT !["Clean"] = 1, !["SsrfBlocked"] = 1]],
   Failed("Refused"),
   Failed("SsrfBlocked")}
=============================================================================
