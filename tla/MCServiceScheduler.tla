------------------------ MODULE MCServiceScheduler -------------------------
(***************************************************************************)
(* Service schedulers of the texts of CronTexts, for TLC.                  *)
(***************************************************************************)
EXTENDS ServiceScheduler, CronTexts
=============================================================================
