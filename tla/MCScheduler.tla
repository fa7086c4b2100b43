----------------------------- MODULE MCScheduler -----------------------------
(* Small instances of Scheduler for TLC.                                   *)
EXTENDS Scheduler
MCIDs == CommandIDs
MCAddresses == CommandAddresses
=============================================================================
