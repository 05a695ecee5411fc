--------------------------- MODULE LifecycleStates ---------------------------
(***************************************************************************)
(* The three state graphs of the orchestration database: the status of a   *)
(* Task, of a Dispatch (one attempt of a Task on a terminal) and of the    *)
(* supervised worker that may run it.  LegalEdge is the allow-list every   *)
(* write of one of these columns goes through.                             *)
(***************************************************************************)

TaskStatuses ==
  {"pending", "ready", "dispatched", "completed", "failed", "blocked"}

ActiveDispatch  == {"pending", "dispatched"}
SettledDispatch == {"completed", "failed", "circuit_broken"}
DispatchStatuses == ActiveDispatch \cup SettledDispatch

UnprovenWorker == {"start_unknown", "stop_unknown"}
LiveWorker     == {"starting", "ready", "stopping"} \cup UnprovenWorker
SettledWorker  == {"succeeded", "failed", "stopped", "abandoned"}
WorkerStates   == LiveWorker \cup SettledWorker

(* A settled Dispatch keeps its status, an active one may take any status
   except that a dispatched one never returns to pending. *)
LegalDispatchEdge(from, to) ==
  \/ from = "pending"
  \/ from = "dispatched" /\ to # "pending"
  \/ from = to

LegalWorkerEdges ==
  [ starting      |-> {"ready", "start_unknown", "failed", "stopping", "stopped", "abandoned"},
    start_unknown |-> {"ready", "failed", "stopping", "stopped", "abandoned"},
    ready         |-> {"succeeded", "failed", "stopping", "abandoned"},
    stopping      |-> {"stopped", "stop_unknown", "ready", "failed", "abandoned"},
    stop_unknown  |-> {"ready", "failed", "stopped", "abandoned"},
    succeeded     |-> {},
    failed        |-> {},
    stopped       |-> {},
    abandoned     |-> {} ]

LegalWorkerEdge(from, to) == from = to \/ to \in LegalWorkerEdges[from]
=============================================================================
