--------------------------- MODULE MCHllEstimator ---------------------------
(***************************************************************************)
(* An instance of HllEstimator and HllInterpolation: the row for lg_k = 4, *)
(* sixteen registers with values up to five; searches for all nodes of the  *)
(* row, their neighbours on both sides and the middles between nodes.      *)
(*                                                                         *)
(* A search and the registers share nothing but the table, so the one is   *)
(* explored first and the other after it, instead of every pair of states. *)
(***************************************************************************)
EXTENDS HllEstimator, HllInterpolation, HllTableRow

Around ==
  {r \in UNION {{RowXValues[i] - 1, RowXValues[i], RowXValues[i] + 1,
                 (RowXValues[i] + RowXValues[i + 1]) \div 2} : i \in 0 .. RowLast - 1}
         \union {RowXValues[RowLast] - 1, RowXValues[RowLast]} :
     r >= RowXValues[0]}

MCInit == Init /\ SearchInit

LastSearch == place = "returned" /\ AtLast

MCNext ==
  \/ count = Empty /\ SearchNext /\ UNCHANGED vars
  \/ LastSearch /\ Next /\ UNCHANGED searchVars

MCSpec == MCInit /\ [][MCNext]_<<vars, searchVars>> /\ WF_<<vars, searchVars>>(Step /\ UNCHANGED vars)
=============================================================================
