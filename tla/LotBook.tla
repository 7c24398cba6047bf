------------------------------- MODULE LotBook -------------------------------
(***************************************************************************)
(* What the trading strategy promises of a book of lots, said without any  *)
(* process, database or order: a lot <<date, symbol>> is bought at the     *)
(* opening auction of its date and sold exactly once, either by its        *)
(* protective stop during a later part of a session or at the auction      *)
(* HoldingDays sessions on (header of services/alpaca/engine.py).          *)
(***************************************************************************)
EXTENDS Integers

CONSTANTS Symbols, HoldingDays, MaxDay

BookLots == (1..MaxDay) \X Symbols

VARIABLES
    today,   \* session number
    trading, \* TRUE from the opening auction to the end of the session day
    lot      \* state of every lot

bookVars == <<today, trading, lot>>

BookInit ==
    /\ today = 1
    /\ trading = FALSE
    /\ lot = [l \in BookLots |-> "none"]

\* Before the auction a lot of today may be ordered.
Enter(l) ==
    /\ ~trading
    /\ l[1] = today
    /\ lot[l] = "none"
    /\ lot' = [lot EXCEPT ![l] = "ordered"]
    /\ UNCHANGED <<today, trading>>

\* Every order fills, and every lot held for HoldingDays sessions is sold.
Auction ==
    /\ ~trading
    /\ trading' = TRUE
    /\ lot' = [l \in BookLots |->
                 IF lot[l] = "ordered" THEN "held"
                 ELSE IF lot[l] = "held" /\ l[1] + HoldingDays = today THEN "sold"
                 ELSE lot[l]]
    /\ UNCHANGED today

StopOut(l) ==
    /\ trading
    /\ lot[l] = "held"
    /\ lot' = [lot EXCEPT ![l] = "sold"]
    /\ UNCHANGED <<today, trading>>

NewSession ==
    /\ trading
    /\ trading' = FALSE
    /\ today' = today + 1
    /\ UNCHANGED lot

BookNext ==
    \/ \E l \in BookLots : Enter(l) \/ StopOut(l)
    \/ Auction
    \/ NewSession

BookSpec == BookInit /\ [][BookNext]_bookVars
=============================================================================
