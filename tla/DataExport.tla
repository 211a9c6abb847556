----------------------------- MODULE DataExport ------------------------------
(***************************************************************************)
(* Data exports: the requests and the downloads                            *)
(* (src/src/routes/privacy-router.ts) and the worker that fulfils them     *)
(* (src/src/workers/export-worker.ts).                                     *)
(***************************************************************************)
EXTENDS Integers, FiniteSets

CONSTANTS
  Exporter,       \* export workers
  Export,         \* the requests there may be
  DownloadLimit,  \* download_limit
  MaxClicks,      \* bound: download requests
  MaxBreaks,      \* bound: crashes and database errors
  NoExport

ASSUME ExportAssumption ==
  /\ NoExport \notin Export
  /\ {DownloadLimit, MaxClicks, MaxBreaks} \subseteq Nat

VARIABLES
  request,   \* data_export_requests
  exporter,  \* what each worker does
  click,     \* downloads between the claim of one and its file
  served,    \* history: files streamed
  clicks,    \* history: download requests
  broken     \* history: exports a crash or a database error hit

exportVars == <<request, exporter, click, served, clicks, broken>>

NoRequest == [status |-> "none", file |-> FALSE, onDisk |-> FALSE,
              expired |-> FALSE, count |-> 0]
FreeExporter == [pc |-> "idle", export |-> NoExport]

SetStatus(e, status) == request' = [request EXCEPT ![e].status = status]
Busy(x, pc) == exporter[x].pc = pc
Dismiss(x) == exporter' = [exporter EXCEPT ![x] = FreeExporter]
Advance(x, pc) == exporter' = [exporter EXCEPT ![x].pc = pc]
UserKept == UNCHANGED <<click, served, clicks>>

-----------------------------------------------------------------------------
(* POST /export, and the worker *)

RequestExport(e) ==
  /\ request[e].status = "none"
  /\ SetStatus(e, "pending")
  /\ UNCHANGED <<exporter, broken>> /\ UserKept

(* FOR UPDATE SKIP LOCKED and the update are one transaction.              *)
ClaimPendingRow(x) ==
  \E e \in Export :
    /\ Busy(x, "idle") /\ request[e].status = "pending"
    /\ SetStatus(e, "processing")
    /\ exporter' = [exporter EXCEPT ![x] = [pc |-> "claimed", export |-> e]]
    /\ UNCHANGED broken /\ UserKept

(* The mail address is read and the bundle built, or either fails.         *)
Build(x) ==
  /\ Busy(x, "claimed")
  /\ \/ Advance(x, "built") /\ UNCHANGED request
     \/ Dismiss(x) /\ SetStatus(exporter[x].export, "failed")
  /\ UNCHANGED broken /\ UserKept

WriteZip(x) ==
  /\ Busy(x, "built")
  /\ \/ /\ Advance(x, "written")
        /\ request' = [request EXCEPT ![exporter[x].export].onDisk = TRUE]
     \/ Dismiss(x) /\ SetStatus(exporter[x].export, "failed")
  /\ UNCHANGED broken /\ UserKept

(* The mail that follows changes nothing, sent or not.                     *)
MarkReady(x) ==
  /\ Busy(x, "written")
  /\ request' = [request EXCEPT ![exporter[x].export].status = "ready",
                                ![exporter[x].export].file = TRUE]
  /\ Dismiss(x)
  /\ UNCHANGED broken /\ UserKept

(* A crash, or a query of processOne itself that throws: the loop logs it. *)
ExporterBreaks(x) ==
  /\ exporter[x].pc # "idle" /\ Cardinality(broken) < MaxBreaks
  /\ broken' = broken \union {exporter[x].export}
  /\ Dismiss(x)
  /\ UNCHANGED request /\ UserKept

-----------------------------------------------------------------------------
(* GET /export/download/:id *)

Downloadable(e) ==
  /\ request[e].status = "ready" /\ request[e].file
  /\ ~request[e].expired /\ request[e].count < DownloadLimit

DownloadReadFirst(e) ==
  /\ Downloadable(e) /\ clicks[e] < MaxClicks
  /\ clicks' = [clicks EXCEPT ![e] = @ + 1]
  /\ click' = [click EXCEPT ![e] = @ \union {[n |-> clicks[e],
                                     count |-> request[e].count + 1]}]
  /\ UNCHANGED <<request, exporter, served, broken>>

(* One UPDATE with every condition claims the download.                    *)
DownloadExport(e) ==
  /\ Downloadable(e) /\ clicks[e] < MaxClicks
  /\ clicks' = [clicks EXCEPT ![e] = @ + 1]
  /\ request' = [request EXCEPT ![e].count = @ + 1]
  /\ click' = [click EXCEPT ![e] = @ \union {[n |-> clicks[e],
                                     count |-> request[e].count + 1]}]
  /\ UNCHANGED <<exporter, served, broken>>

(* The file is looked for; the last download consumes the export.          *)
ServeFile(e) ==
  \E c \in click[e] :
    /\ click' = [click EXCEPT ![e] = @ \ {c}]
    /\ IF ~request[e].onDisk
       THEN SetStatus(e, "failed") /\ UNCHANGED served
       ELSE /\ served' = [served EXCEPT ![e] = @ + 1]
            /\ IF c.count >= DownloadLimit THEN SetStatus(e, "consumed")
               ELSE UNCHANGED request
    /\ UNCHANGED <<exporter, clicks, broken>>

(* expires_at passes; somebody removes the file.                           *)
ExportExpires(e) ==
  /\ request[e].status = "ready" /\ ~request[e].expired
  /\ request' = [request EXCEPT ![e].expired = TRUE]
  /\ UNCHANGED <<exporter, broken>> /\ UserKept

FileVanishes(e) ==
  /\ request[e].file /\ request[e].onDisk
  /\ request' = [request EXCEPT ![e].onDisk = FALSE]
  /\ UNCHANGED <<exporter, broken>> /\ UserKept

-----------------------------------------------------------------------------
ExportInit ==
  /\ request = [e \in Export |-> NoRequest]
  /\ exporter = [x \in Exporter |-> FreeExporter]
  /\ click = [e \in Export |-> {}]
  /\ served = [e \in Export |-> 0] /\ clicks = [e \in Export |-> 0]
  /\ broken = {}

Fulfil(x) == ClaimPendingRow(x) \/ Build(x) \/ WriteZip(x) \/ MarkReady(x)

ExportNext ==
  \/ \E e \in Export : \/ RequestExport(e) \/ DownloadExport(e) \/ ServeFile(e)
                       \/ ExportExpires(e) \/ FileVanishes(e)
  \/ \E x \in Exporter : Fulfil(x) \/ ExporterBreaks(x)

ExportSpec == ExportInit /\ [][ExportNext]_exportVars

(* The loop of each worker goes on; nobody need ask or download.           *)
ExportFairness == \A x \in Exporter : WF_exportVars(Fulfil(x))
ExportFairSpec == ExportSpec /\ ExportFairness
=============================================================================
