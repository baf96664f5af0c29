---------------------------- MODULE MCWebMarket -----------------------------
(***************************************************************************)
(* A small instance of WebMarket: two symbols, one of them in the list     *)
(* that Redis starts with, the day and the year.                           *)
(***************************************************************************)
EXTENDS WebMarket

CONSTANTS A, B

MCRecMap == [g \in Granularities |-> IF g = "1d" THEN "15m" ELSE "1d"]
MCDefaults == <<A>>
=============================================================================
