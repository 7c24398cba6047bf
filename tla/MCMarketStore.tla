--------------------------- MODULE MCMarketStore ---------------------------
(***************************************************************************)
(* What a clean-up finds bad: nothing, every row, one row or those of one  *)
(* day.                                                                    *)
(***************************************************************************)
EXTENDS MarketStore

MCGarbage(rows) ==
  {{}, rows} \cup {{r} : r \in rows} \cup {{r \in rows : r[3] = d} : d \in Days}

=============================================================================
