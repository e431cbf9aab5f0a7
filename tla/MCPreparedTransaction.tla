------------------------ MODULE MCPreparedTransaction ------------------------
(* Every duration that fits, over a range of time that starts below zero.     *)
EXTENDS AdvertisedLimits

MCMinTime == -1
===============================================================================
