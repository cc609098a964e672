------------------------------ MODULE MCSinks ------------------------------
(***************************************************************************)
(* Sinks on a recording of three ticks: a reading without a value, one of  *)
(* two integers, one of a float and a text.                                *)
(***************************************************************************)
EXTENDS Sinks

Reading(i, t) == [id |-> i, type |-> t]

MCStream == <<<<Reading(1, "none")>>,
              <<Reading(2, "int"), Reading(3, "int")>>,
              <<Reading(4, "float"), Reading(5, "str")>>>>
=============================================================================
