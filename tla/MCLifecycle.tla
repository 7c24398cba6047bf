---------------------------- MODULE MCLifecycle ----------------------------
(***************************************************************************)
(* Values of Lifecycle's constants that a configuration file cannot write: *)
(* metrics may be negative.  A rank-IC of 8 is within 80% of 10 and not of *)
(* 13; one of -4 is within 80% of -5.                                      *)
(***************************************************************************)
EXTENDS Lifecycle

MCRankICs == {-5, 10}
MCDailyICs == {-2, 0, 2}
MCHard == -1

=============================================================================
