----------------------------- MODULE MCWorkers -----------------------------
(***************************************************************************)
(* Instances of the background workers.  They keep tables and queues of    *)
(* their own: a behaviour is one of a single part, the others stand still. *)
(***************************************************************************)
EXTENDS SupportQueueProperties, ThreadTitlesProperties, DataExportProperties

VARIABLE part  \* which part moves

WorkersInit ==
  /\ part \in {"replies", "titles", "exports"}
  /\ SupportInit /\ TitleInit /\ ExportInit

Replies(A) == part = "replies" /\ A /\ UNCHANGED <<part, titleVars, exportVars>>
Titles(A)  == part = "titles" /\ A /\ UNCHANGED <<part, supportVars, exportVars>>
Exports(A) == part = "exports" /\ A /\ UNCHANGED <<part, supportVars, titleVars>>

WorkersNext ==
  Replies(SupportNext) \/ Titles(TitleNext) \/ Exports(ExportNext)

(* SupportFairness, TitleFairness and ExportFairness, each of its part.    *)
WorkersFairSpec ==
  /\ WorkersInit
  /\ [][WorkersNext]_<<part, supportVars, titleVars, exportVars>>
  /\ \A t \in Ticket : WF_supportVars(Replies(Reopen(t) \/ Enqueue(t)))
  /\ \A w \in Worker : WF_supportVars(Replies(WorkerStep(w)))
  /\ \A j \in Job : WF_supportVars(Replies(LapseAbandoned(j)))
  /\ \A w \in TitleWorker : WF_titleVars(Titles(WorkOnTitle(w)))
  /\ \A x \in Exporter : WF_exportVars(Exports(Fulfil(x)))

(* Whatever a worker has to do is done or given up in the end, unless the  *)
(* code has no way to take it up again.                                    *)
WorkSettles == JobSettles /\ TitleJobSettles /\ ExportSettles
=============================================================================
