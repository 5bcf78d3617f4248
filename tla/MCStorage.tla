----------------------------- MODULE MCStorage -----------------------------
(***************************************************************************)
(* The two parts that store something behind the back of the main thread,  *)
(* the database pool and the background file writer.  They share nothing,  *)
(* so each is checked by itself: the part is chosen at the start, and only *)
(* it takes steps.                                                         *)
(***************************************************************************)
EXTENDS DbPool, AioWriter

VARIABLE part

vars == <<part, dbVars, aioVars>>

Init ==
  /\ part \in {"database", "file"}
  /\ DbInit /\ AioInit
  /\ part # "file" => ~closes

Next ==
  /\ UNCHANGED part
  /\ \/ part = "database" /\ DbNext /\ UNCHANGED aioVars
     \/ part = "file" /\ AioNext /\ UNCHANGED dbVars

\* DbFairness and AioFairness, for the part that takes steps.
Fairness ==
  /\ WF_dbVars(part = "database" /\ Backup)
  /\ WF_dbVars(part = "database" /\ Worker)
  /\ WF_aioVars(part = "file" /\ Thread)
  /\ WF_aioVars(part = "file" /\ AioSignal)
  /\ WF_aioVars(part = "file" /\ Owner)

Spec == Init /\ [][Next]_vars /\ Fairness
=============================================================================
