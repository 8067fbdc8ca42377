---------------------------- MODULE MCFilingList ----------------------------
(* FilingList for TLC: MaxPages and MaxFilings bound the list, the two switches
   select what EDGAR and the network may do. *)
EXTENDS FilingList
=============================================================================
