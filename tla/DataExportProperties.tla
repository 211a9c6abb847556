------------------------ MODULE DataExportProperties -------------------------
(***************************************************************************)
(* What a data export is meant to be.                                      *)
(***************************************************************************)
EXTENDS DataExport

(* Types; only an export whose bundle was written is ready, and a worker   *)
(* only writes for an export that is still being processed.                *)
ExportTypeOK ==
  /\ request \in
       [Export -> [status: {"none", "pending", "processing", "ready",
                            "failed", "consumed"},
                   file: BOOLEAN, onDisk: BOOLEAN, expired: BOOLEAN,
                   count: 0..DownloadLimit]]
  /\ exporter \in
       [Exporter -> [pc: {"idle", "claimed", "built", "written"},
                     export: Export \union {NoExport}]]
  /\ broken \subseteq Export
  /\ \A x \in Exporter : exporter[x].pc # "idle" =>
       /\ exporter[x].export \in Export
       /\ request[exporter[x].export].status = "processing"
  /\ \A e \in Export : request[e].status \in {"ready", "consumed"} =>
       request[e].file

(* No export is built by two workers: the claim locks the row it reads and *)
(* nobody claims an export that is being processed (export-worker.ts).     *)
ExportTakenOnce ==
  \A x, y \in Exporter :
    exporter[x].pc # "idle" /\ exporter[x].export = exporter[y].export => x = y

(* However many downloads race, no more files go out than the limit: the   *)
(* claim is one conditional UPDATE (privacy-router.ts).                    *)
WithinDownloadLimit ==
  \A e \in Export : served[e] + Cardinality(click[e]) <= DownloadLimit

(* Types, no export built twice and no download beyond the limit, though   *)
(* workers and clicks race, files vanish and exports expire.               *)
ExportsSound == ExportTypeOK /\ ExportTakenOnce /\ WithinDownloadLimit

(* A requested export is ready or failed in the end, unless its worker     *)
(* died or lost its database meanwhile: nothing looks at it again.         *)
ExportSettles ==
  \A e \in Export :
    request[e].status \in {"pending", "processing"}
      ~> \/ request[e].status \notin {"pending", "processing"}
         \/ e \in broken
=============================================================================
