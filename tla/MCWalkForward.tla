--------------------------- MODULE MCWalkForward ---------------------------
(***************************************************************************)
(* A market of three symbols over nineteen days, two of them without       *)
(* trading: a trades throughout, b misses days 8 and 17, c joins the index *)
(* on day Joined and is known to the market before.  Two months are        *)
(* tested, retrained for on days 15 and 17.                                *)
(***************************************************************************)
EXTENDS WalkForward

CONSTANT Joined

MCTrading == (1..19) \ {5, 14}
MCMonth == [d \in 1..19 |-> (d - 2) \div 3]
MCBars == [s \in Symbols |->
             CASE s = "a" -> MCTrading
               [] s = "b" -> MCTrading \ {8, 17}
               [] OTHER -> MCTrading \ {1, 2}]
MCHighs == [s \in Symbols |-> [d \in 1..19 |->
              CASE s = "a" -> (d * d) % 5 [] s = "b" -> (7 * d) % 4 [] OTHER -> d % 3]]
MCSpells == [s \in Symbols |-> IF s = "c" THEN <<Joined, 99>> ELSE <<0, 99>>]
MCAnnounced == [s \in Symbols |-> IF s = "a" THEN {2, 9, 16} ELSE {}]
MCMacroDays == 1..19

=============================================================================
