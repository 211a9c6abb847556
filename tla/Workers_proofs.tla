---------------------------- MODULE Workers_proofs ----------------------------
(***************************************************************************)
(* The export worker and the title workers, for any number of workers,     *)
(* requests, clicks, jobs, instances and faults.                           *)
(*                                                                         *)
(* ExportInv is inductive: a worker that is busy is alone with an export   *)
(* that is being processed, a click is one of an export that was ready,    *)
(* and clicks and files together were all counted in its row.              *)
(*                                                                         *)
(* TitleInv is: the jobs in the stream are weighed against the lock that   *)
(* is set and the faults so far, and while the user's name is safe nothing *)
(* is past the check that respects it.                                     *)
(***************************************************************************)
EXTENDS DataExportProperties, ThreadTitlesProperties, FiniteSetTheorems, TLAPS

-----------------------------------------------------------------------------
(* Exports *)

RequestRow == [status: {"none", "pending", "processing", "ready", "failed",
                        "consumed"},
               file: BOOLEAN, onDisk: BOOLEAN, expired: BOOLEAN,
               count: 0..DownloadLimit]
ExporterState == [pc: {"idle", "claimed", "built", "written"},
                  export: Export \union {NoExport}]
Counted == [n: Nat, count: Nat]

BusyOnProcessing ==
  \A x \in Exporter :
    \/ exporter[x] = FreeExporter
    \/ /\ exporter[x].pc # "idle" /\ exporter[x].export \in Export
       /\ request[exporter[x].export].status = "processing"

ReadyHasFile ==
  \A e \in Export : request[e].status \in {"ready", "consumed"} =>
    request[e].file

ClickedWasReady ==
  \A e \in Export : click[e] # {} =>
    /\ request[e].status \in {"ready", "failed", "consumed"}
    /\ request[e].file

ClicksCounted ==
  /\ click \in [Export -> SUBSET Counted]
  /\ served \in [Export -> Nat] /\ clicks \in [Export -> Nat]
  /\ \A e \in Export :
       /\ IsFiniteSet(click[e])
       /\ \A c \in click[e] : c.n < clicks[e]
       /\ served[e] + Cardinality(click[e]) <= request[e].count

ExportInv ==
  /\ request \in [Export -> RequestRow]
  /\ exporter \in [Exporter -> ExporterState]
  /\ broken \subseteq Export
  /\ BusyOnProcessing
  /\ ExportTakenOnce
  /\ ReadyHasFile
  /\ ClickedWasReady
  /\ ClicksCounted

-----------------------------------------------------------------------------
LEMMA ExportInitInv == ExportInit => ExportInv
<1>. SUFFICES ASSUME ExportInit  PROVE ExportInv
  OBVIOUS
<1>1. request \in [Export -> RequestRow] /\ exporter \in [Exporter -> ExporterState]
  BY ExportAssumption
  DEF ExportInit, NoRequest, FreeExporter, RequestRow, ExporterState
<1>2. BusyOnProcessing /\ ExportTakenOnce /\ ReadyHasFile
  BY DEF ExportInit, NoRequest, FreeExporter, BusyOnProcessing,
         ExportTakenOnce, ReadyHasFile
<1>3. ClickedWasReady /\ ClicksCounted
  BY FS_EmptySet
  DEF ExportInit, NoRequest, ClickedWasReady, ClicksCounted
<1>. QED  BY <1>1, <1>2, <1>3 DEF ExportInit, ExportInv

(* The rows change in what the clicks do not depend on.                    *)
LEMMA CountsStand ==
  ASSUME ExportInv, UNCHANGED <<click, served, clicks>>,
         \A e \in Export : request'[e].count = request[e].count
  PROVE  ClicksCounted'
  BY DEF ExportInv, ClicksCounted

LEMMA RequestExportInv ==
  ASSUME ExportInv, NEW e \in Export, RequestExport(e)
  PROVE  ExportInv'
<1>1. /\ request[e].status = "none"
      /\ request' = [request EXCEPT ![e].status = "pending"]
      /\ UNCHANGED <<exporter, broken, click, served, clicks>>
  BY DEF RequestExport, SetStatus, UserKept
<1>2. request' \in [Export -> RequestRow]
  BY <1>1 DEF ExportInv, RequestRow
<1>3. \A d \in Export : /\ request'[d].count = request[d].count
                        /\ request'[d].file = request[d].file
                        /\ d # e => request'[d] = request[d]
  BY <1>1 DEF ExportInv, RequestRow
<1>4. request'[e].status = "pending"
  BY <1>1 DEF ExportInv, RequestRow
<1>5. BusyOnProcessing' /\ ExportTakenOnce' /\ ReadyHasFile'
  BY <1>1, <1>3, <1>4
  DEF ExportInv, BusyOnProcessing, ExportTakenOnce, ReadyHasFile
<1>6. ClickedWasReady'
  BY <1>1, <1>3, <1>4 DEF ExportInv, ClickedWasReady
<1>7. ClicksCounted'
  BY <1>1, <1>3, CountsStand
<1>. QED  BY <1>1, <1>2, <1>5, <1>6, <1>7 DEF ExportInv

LEMMA ClaimInv ==
  ASSUME ExportInv, NEW x \in Exporter, ClaimPendingRow(x)
  PROVE  ExportInv'
<1>1. PICK e \in Export :
        /\ exporter[x].pc = "idle" /\ request[e].status = "pending"
        /\ request' = [request EXCEPT ![e].status = "processing"]
        /\ exporter' = [exporter EXCEPT ![x] =
                          [pc |-> "claimed", export |-> e]]
        /\ UNCHANGED <<broken, click, served, clicks>>
  BY DEF ClaimPendingRow, Busy, SetStatus, UserKept
<1>2. /\ request' \in [Export -> RequestRow]
      /\ exporter' \in [Exporter -> ExporterState]
  BY <1>1 DEF ExportInv, RequestRow, ExporterState
<1>3. \A d \in Export : /\ request'[d].count = request[d].count
                        /\ request'[d].file = request[d].file
                        /\ d # e => request'[d] = request[d]
  BY <1>1 DEF ExportInv, RequestRow
<1>4. request'[e].status = "processing"
  BY <1>1 DEF ExportInv, RequestRow
<1>5. /\ exporter'[x].pc = "claimed" /\ exporter'[x].export = e
      /\ \A y \in Exporter : y # x => exporter'[y] = exporter[y]
  BY <1>1 DEF ExportInv
<1>6. \A y \in Exporter : exporter[y].export # e
  BY <1>1, ExportAssumption DEF ExportInv, BusyOnProcessing, FreeExporter
<1>7. BusyOnProcessing' /\ ReadyHasFile'
  BY <1>3, <1>4, <1>5, <1>6 DEF ExportInv, BusyOnProcessing, ReadyHasFile
<1>8. ExportTakenOnce'
  BY <1>5, <1>6 DEF ExportInv, ExportTakenOnce
<1>9. ClickedWasReady'
  BY <1>1, <1>3, <1>4 DEF ExportInv, ClickedWasReady
<1>10. ClicksCounted'
  BY <1>1, <1>3, CountsStand
<1>. QED  BY <1>1, <1>2, <1>7, <1>8, <1>9, <1>10 DEF ExportInv

(* A busy worker goes on, or leaves its export failed or ready.            *)
LEMMA WorkInv ==
  ASSUME ExportInv, NEW x \in Exporter, Build(x) \/ WriteZip(x) \/ MarkReady(x)
  PROVE  ExportInv'
<1>. DEFINE e == exporter[x].export
<1>1. /\ exporter[x].pc # "idle"
      /\ e \in Export /\ request[e].status = "processing"
  BY DEF Build, WriteZip, MarkReady, Busy, ExportInv, BusyOnProcessing,
         FreeExporter
<1>2. UNCHANGED <<broken, click, served, clicks>>
  BY DEF Build, WriteZip, MarkReady, UserKept
<1>3. request' \in [Export -> RequestRow]
  <2>1. CASE request' = [request EXCEPT ![e].status = "ready", ![e].file = TRUE]
    <3>. DEFINE r == [request[e] EXCEPT !.status = "ready", !.file = TRUE]
    <3>1. r \in RequestRow
      BY <1>1 DEF ExportInv, RequestRow
    <3>2. request' = [request EXCEPT ![e] = r]
      BY <1>1, <2>1 DEF ExportInv, RequestRow
    <3>. HIDE DEF r
    <3>. QED  BY <1>1, <3>1, <3>2 DEF ExportInv
  <2>2. CASE \/ UNCHANGED request
             \/ request' = [request EXCEPT ![e].status = "failed"]
             \/ request' = [request EXCEPT ![e].onDisk = TRUE]
    <3>1. request[e] \in RequestRow /\ request \in [Export -> RequestRow]
      BY <1>1 DEF ExportInv
    <3>2. /\ [request[e] EXCEPT !.status = "failed"] \in RequestRow
          /\ [request[e] EXCEPT !.onDisk = TRUE] \in RequestRow
      BY <3>1 DEF RequestRow
    <3>. HIDE DEF e
    <3>. QED  BY <1>1, <2>2, <3>1, <3>2
  <2>3. CASE Build(x)
    BY <2>2, <2>3 DEF Build, SetStatus
  <2>4. CASE WriteZip(x)
    BY <2>2, <2>4 DEF WriteZip, SetStatus
  <2>5. CASE MarkReady(x)
    BY <2>1, <2>5 DEF MarkReady
  <2>. QED  BY <2>3, <2>4, <2>5
<1>4. exporter' \in [Exporter -> ExporterState]
  BY DEF Build, WriteZip, MarkReady, Advance, Dismiss, FreeExporter, ExportInv,
         ExporterState
<1>. HIDE DEF e
<1>5. /\ \A d \in Export : /\ request'[d].count = request[d].count
                           /\ d # e => request'[d] = request[d]
      /\ request'[e].status \in {"ready", "consumed"} => request'[e].file
  BY <1>1 DEF e, Build, WriteZip, MarkReady, SetStatus, ExportInv, RequestRow
<1>6. /\ \A y \in Exporter : y # x => exporter'[y] = exporter[y]
      /\ \/ exporter'[x] = FreeExporter
         \/ /\ exporter'[x].pc # "idle" /\ exporter'[x].export = e
            /\ request'[e].status = "processing"
  <2>1. CASE Dismiss(x)
    BY <2>1 DEF Dismiss, FreeExporter, ExportInv
  <2>2. CASE /\ \E pc \in {"built", "written"} : Advance(x, pc)
             /\ request'[e].status = request[e].status
    BY <1>1, <2>2 DEF e, Advance, ExportInv, ExporterState
  <2>. QED
    BY <1>1, <2>1, <2>2
    DEF e, Build, WriteZip, MarkReady, ExportInv, RequestRow
<1>7. \A y \in Exporter : y # x => exporter[y].export # e
  BY <1>1 DEF e, ExportInv, ExportTakenOnce
<1>8. BusyOnProcessing' /\ ReadyHasFile'
  <2>1. ASSUME NEW y \in Exporter, y # x, exporter[y] # FreeExporter
        PROVE  /\ exporter'[y].pc # "idle" /\ exporter'[y].export \in Export
               /\ request'[exporter'[y].export].status = "processing"
    BY <1>5, <1>6, <1>7, <2>1 DEF ExportInv, BusyOnProcessing
  <2>2. BusyOnProcessing'
    BY <1>1, <1>6, <2>1 DEF BusyOnProcessing, FreeExporter
  <2>3. ReadyHasFile'
    BY <1>5 DEF ExportInv, ReadyHasFile
  <2>. QED  BY <2>2, <2>3
<1>9. ExportTakenOnce'
  <2>. SUFFICES ASSUME NEW y \in Exporter, NEW z \in Exporter,
                       exporter'[y].pc # "idle",
                       exporter'[y].export = exporter'[z].export
                PROVE  y = z
    BY DEF ExportTakenOnce
  <2>1. exporter'[x] = FreeExporter => y # x
    BY DEF FreeExporter
  <2>2. \A w \in Exporter : w # x => exporter[w].export \notin {e}
    BY <1>7
  <2>3. CASE y = x
    <3>1. exporter'[z].export = e
      BY <1>6, <2>1, <2>3
    <3>. QED  BY <1>6, <2>2, <2>3, <3>1
  <2>4. CASE y # x /\ z = x
    <3>1. exporter'[x] = FreeExporter
      BY <1>6, <2>2, <2>4
    <3>2. exporter[y].export = NoExport /\ exporter[y].pc # "idle"
      BY <1>6, <2>4, <3>1 DEF FreeExporter
    <3>. QED
      BY <3>2, ExportAssumption DEF ExportInv, BusyOnProcessing, FreeExporter
  <2>5. CASE y # x /\ z # x
    BY <1>6, <2>5 DEF ExportInv, ExportTakenOnce
  <2>. QED  BY <2>3, <2>4, <2>5
<1>10. ClickedWasReady'
  BY <1>1, <1>2, <1>5 DEF ExportInv, ClickedWasReady
<1>11. ClicksCounted'
  BY <1>2, <1>5, CountsStand
<1>. QED  BY <1>2, <1>3, <1>4, <1>8, <1>9, <1>10, <1>11 DEF ExportInv

LEMMA BreakInv ==
  ASSUME ExportInv, NEW x \in Exporter, ExporterBreaks(x)
  PROVE  ExportInv'
<1>1. /\ exporter[x].pc # "idle"
      /\ broken' = broken \union {exporter[x].export}
      /\ exporter' = [exporter EXCEPT ![x] = FreeExporter]
      /\ UNCHANGED <<request, click, served, clicks>>
  BY DEF ExporterBreaks, Dismiss, UserKept
<1>2. broken' \subseteq Export /\ exporter' \in [Exporter -> ExporterState]
  BY <1>1 DEF ExportInv, BusyOnProcessing, FreeExporter, ExporterState
<1>3. BusyOnProcessing' /\ ExportTakenOnce'
  BY <1>1, ExportAssumption
  DEF ExportInv, BusyOnProcessing, ExportTakenOnce, FreeExporter
<1>4. ReadyHasFile' /\ ClickedWasReady' /\ ClicksCounted'
  BY <1>1 DEF ExportInv, ReadyHasFile, ClickedWasReady, ClicksCounted
<1>. QED  BY <1>1, <1>2, <1>3, <1>4 DEF ExportInv

-----------------------------------------------------------------------------
LEMMA DownloadInv ==
  ASSUME ExportInv, NEW e \in Export, DownloadExport(e)
  PROVE  ExportInv'
<1>. DEFINE c == [n |-> clicks[e], count |-> request[e].count + 1]
<1>1. /\ request[e].status = "ready" /\ request[e].file
      /\ request[e].count < DownloadLimit
      /\ clicks' = [clicks EXCEPT ![e] = @ + 1]
      /\ request' = [request EXCEPT ![e].count = @ + 1]
      /\ click' = [click EXCEPT ![e] = @ \union {c}]
      /\ UNCHANGED <<exporter, served, broken>>
  BY DEF DownloadExport, Downloadable
<1>2. request[e].count \in Nat /\ request[e].count + 1 \in 0..DownloadLimit
  BY <1>1, ExportAssumption DEF ExportInv, RequestRow
<1>3. request' \in [Export -> RequestRow]
  BY <1>1, <1>2 DEF ExportInv, RequestRow
<1>4. /\ \A d \in Export : /\ request'[d].status = request[d].status
                           /\ request'[d].file = request[d].file
                           /\ d # e => request'[d] = request[d]
      /\ request'[e].count = request[e].count + 1
  BY <1>1 DEF ExportInv, RequestRow
<1>5. BusyOnProcessing' /\ ExportTakenOnce' /\ ReadyHasFile'
  BY <1>1, <1>4
  DEF ExportInv, BusyOnProcessing, ExportTakenOnce, ReadyHasFile
<1>6. c \in Counted /\ c.n = clicks[e] /\ clicks[e] \in Nat
  BY <1>2 DEF ExportInv, ClicksCounted, Counted
<1>. HIDE DEF c
<1>7. /\ click[e] \in SUBSET Counted /\ IsFiniteSet(click[e])
      /\ \A d \in click[e] : d.n < clicks[e]
      /\ served[e] + Cardinality(click[e]) <= request[e].count
      /\ served[e] \in Nat
  BY DEF ExportInv, ClicksCounted
<1>8. c \notin click[e]
  BY <1>6, <1>7
<1>9. /\ IsFiniteSet(click[e] \union {c})
      /\ Cardinality(click[e] \union {c}) = Cardinality(click[e]) + 1
      /\ Cardinality(click[e]) \in Nat
  BY <1>7, <1>8, FS_AddElement, FS_CardinalityType
<1>10. /\ click'[e] = click[e] \union {c} /\ clicks'[e] = clicks[e] + 1
       /\ \A d \in Export : d # e => /\ click'[d] = click[d]
                                     /\ clicks'[d] = clicks[d]
  BY <1>1 DEF ExportInv, ClicksCounted
<1>11. ClickedWasReady'
  BY <1>1, <1>4, <1>10 DEF ExportInv, ClickedWasReady
<1>12. ClicksCounted'
  <2>1. /\ click' \in [Export -> SUBSET Counted]
        /\ served' \in [Export -> Nat] /\ clicks' \in [Export -> Nat]
    BY <1>1, <1>6 DEF ExportInv, ClicksCounted
  <2>2. ASSUME NEW d \in Export
        PROVE  /\ IsFiniteSet(click'[d])
               /\ \A k \in click'[d] : k.n < clicks'[d]
               /\ served'[d] + Cardinality(click'[d]) <= request'[d].count
    <3>1. CASE d # e
      BY <1>1, <1>4, <1>10, <3>1 DEF ExportInv, ClicksCounted
    <3>2. CASE d = e
      <4>1. \A k \in click[e] \union {c} : k.n < clicks[e] + 1
        BY <1>6, <1>7 DEF Counted
      <4>2. served[e] + Cardinality(click[e] \union {c}) <= request[e].count + 1
        BY <1>2, <1>7, <1>9
      <4>. QED  BY <1>1, <1>4, <1>9, <1>10, <3>2, <4>1, <4>2
    <3>. QED  BY <3>1, <3>2
  <2>. QED  BY <2>1, <2>2 DEF ClicksCounted
<1>. QED  BY <1>1, <1>3, <1>5, <1>11, <1>12 DEF ExportInv

LEMMA ServeInv ==
  ASSUME ExportInv, NEW e \in Export, ServeFile(e)
  PROVE  ExportInv'
<1>1. PICK c \in click[e] :
        /\ click' = [click EXCEPT ![e] = @ \ {c}]
        /\ IF ~request[e].onDisk
           THEN SetStatus(e, "failed") /\ UNCHANGED served
           ELSE /\ served' = [served EXCEPT ![e] = @ + 1]
                /\ IF c.count >= DownloadLimit THEN SetStatus(e, "consumed")
                   ELSE UNCHANGED request
        /\ UNCHANGED <<exporter, clicks, broken>>
  BY DEF ServeFile
<1>2. request[e].status \in {"ready", "failed", "consumed"} /\ request[e].file
  BY <1>1 DEF ExportInv, ClickedWasReady
<1>3. \/ UNCHANGED request
      \/ \E s \in {"failed", "consumed"} :
           request' = [request EXCEPT ![e].status = s]
  BY <1>1 DEF SetStatus
<1>4. /\ request' \in [Export -> RequestRow]
      /\ \A d \in Export : /\ request'[d].count = request[d].count
                           /\ request'[d].file = request[d].file
                           /\ d # e => request'[d] = request[d]
      /\ request'[e].status \in {"ready", "failed", "consumed"}
  BY <1>2, <1>3 DEF ExportInv, RequestRow
<1>5. BusyOnProcessing' /\ ExportTakenOnce'
  <2>1. \A x \in Exporter : exporter[x].export # e
    BY <1>2, ExportAssumption DEF ExportInv, BusyOnProcessing, FreeExporter
  <2>. QED
    BY <1>1, <1>4, <2>1 DEF ExportInv, BusyOnProcessing, ExportTakenOnce
<1>6. ReadyHasFile'
  BY <1>2, <1>4 DEF ExportInv, ReadyHasFile
<1>7. /\ click'[e] = click[e] \ {c}
      /\ \A d \in Export : d # e => click'[d] = click[d]
      /\ click' \in [Export -> SUBSET Counted]
  BY <1>1 DEF ExportInv, ClicksCounted
<1>8. ClickedWasReady'
  BY <1>2, <1>4, <1>7 DEF ExportInv, ClickedWasReady
<1>9. /\ IsFiniteSet(click[e] \ {c})
      /\ Cardinality(click[e] \ {c}) = Cardinality(click[e]) - 1
      /\ Cardinality(click[e]) \in Nat
  BY <1>1, FS_RemoveElement, FS_CardinalityType DEF ExportInv, ClicksCounted
<1>10. /\ served' \in [Export -> Nat]
       /\ served'[e] \in {served[e], served[e] + 1}
       /\ \A d \in Export : d # e => served'[d] = served[d]
  BY <1>1 DEF ExportInv, ClicksCounted
<1>11. ClicksCounted'
  <2>1. ASSUME NEW d \in Export
        PROVE  /\ IsFiniteSet(click'[d])
               /\ \A k \in click'[d] : k.n < clicks'[d]
               /\ served'[d] + Cardinality(click'[d]) <= request'[d].count
    <3>1. CASE d # e
      BY <1>1, <1>4, <1>7, <1>10, <3>1 DEF ExportInv, ClicksCounted
    <3>2. CASE d = e
      <4>1. /\ \A k \in click[e] : k.n < clicks[e]
            /\ served[e] + Cardinality(click[e]) <= request[e].count
            /\ served[e] \in Nat /\ request[e].count \in Nat
        BY DEF ExportInv, ClicksCounted, RequestRow
      <4>2. served'[e] + Cardinality(click'[e]) <= request'[e].count
        BY <1>4, <1>7, <1>9, <1>10, <4>1
      <4>. QED  BY <1>1, <1>7, <1>9, <3>2, <4>1, <4>2
    <3>. QED  BY <3>1, <3>2
  <2>. QED  BY <1>1, <1>7, <1>10, <2>1 DEF ExportInv, ClicksCounted
<1>. QED  BY <1>1, <1>4, <1>5, <1>6, <1>8, <1>11 DEF ExportInv

LEMMA WearInv ==
  ASSUME ExportInv, NEW e \in Export, ExportExpires(e) \/ FileVanishes(e)
  PROVE  ExportInv'
<1>1. /\ \/ request' = [request EXCEPT ![e].expired = TRUE]
         \/ request' = [request EXCEPT ![e].onDisk = FALSE]
      /\ UNCHANGED <<exporter, broken, click, served, clicks>>
  BY DEF ExportExpires, FileVanishes, UserKept
<1>2. request' \in [Export -> RequestRow]
  BY <1>1 DEF ExportInv, RequestRow
<1>3. \A d \in Export : /\ request'[d].count = request[d].count
                        /\ request'[d].file = request[d].file
                        /\ request'[d].status = request[d].status
  BY <1>1 DEF ExportInv, RequestRow
<1>4. BusyOnProcessing' /\ ExportTakenOnce' /\ ReadyHasFile' /\ ClickedWasReady'
  BY <1>1, <1>3
  DEF ExportInv, BusyOnProcessing, ExportTakenOnce, ReadyHasFile,
      ClickedWasReady
<1>5. ClicksCounted'
  BY <1>1, <1>3, CountsStand
<1>. QED  BY <1>1, <1>2, <1>4, <1>5 DEF ExportInv

-----------------------------------------------------------------------------
LEMMA ExportNextInv == ExportInv /\ [ExportNext]_exportVars => ExportInv'
<1>. SUFFICES ASSUME ExportInv, [ExportNext]_exportVars
              PROVE  ExportInv'
  OBVIOUS
<1>1. CASE UNCHANGED exportVars
  BY <1>1 DEF exportVars, ExportInv, BusyOnProcessing, ExportTakenOnce,
              ReadyHasFile, ClickedWasReady, ClicksCounted
<1>. QED
  BY <1>1, RequestExportInv, ClaimInv, WorkInv, BreakInv, DownloadInv,
     ServeInv, WearInv
  DEF ExportNext, Fulfil

LEMMA ExportInvariant == ExportSpec => []ExportInv
  BY ExportInitInv, ExportNextInv, PTL DEF ExportSpec

(* Types; whatever workers, crashes, clicks and expiries interleave, an    *)
(* export is built by one worker at a time, and no more files go out than  *)
(* the limit allows (export-worker.ts, privacy-router.ts).                 *)
THEOREM ExportsAreExclusive == ExportSpec => []ExportsSound
<1>1. ExportInv => ExportsSound
  <2>. SUFFICES ASSUME ExportInv  PROVE ExportsSound
    OBVIOUS
  <2>1. ExportTypeOK
    BY DEF ExportInv, ExportTypeOK, RequestRow, ExporterState,
           BusyOnProcessing, ReadyHasFile, FreeExporter
  <2>2. WithinDownloadLimit
    <3>1. ASSUME NEW e \in Export
          PROVE  served[e] + Cardinality(click[e]) <= DownloadLimit
      <4>1. /\ served[e] \in Nat /\ Cardinality(click[e]) \in Nat
            /\ served[e] + Cardinality(click[e]) <= request[e].count
        BY FS_CardinalityType DEF ExportInv, ClicksCounted
      <4>2. request[e].count \in 0..DownloadLimit
        BY DEF ExportInv, RequestRow
      <4>. QED  BY <4>1, <4>2, ExportAssumption
    <3>. QED  BY <3>1 DEF WithinDownloadLimit
  <2>. QED  BY <2>1, <2>2 DEF ExportInv, ExportsSound
<1>. QED  BY <1>1, ExportInvariant, PTL

-----------------------------------------------------------------------------
(* Titles *)

TitlerState == [pc: {"idle", "read", "checked", "titled", "stored"},
                job: SUBSET TitleJob, hit: BOOLEAN]

TitlerHolds ==
  \A w \in TitleWorker :
    /\ titler[w].pc = "idle" => titler[w].job = {}
    /\ \A v \in TitleWorker : w # v => titler[w].job \cap titler[v].job = {}

Streamed == {j \in TitleJob : InStream(j)}

StreamedCounted ==
  /\ IsFiniteSet(Streamed)
  /\ Cardinality(Streamed) <= titleFaults + (IF titleLock THEN 1 ELSE 0)

(* Since the user named the thread nothing is past the check, so nothing   *)
(* will write it again.                                                    *)
NameSafe ==
  renames > 0 /\ ~overtakenBy => thread = Named(renames) /\ ~PastCheck

TitleInv == TitleTypeOK /\ TitlerHolds /\ StreamedCounted /\ NameSafe

-----------------------------------------------------------------------------
LEMMA TitleInitInv == TitleInit => TitleInv
<1>. SUFFICES ASSUME TitleInit PROVE TitleInv
  OBVIOUS
<1>1. /\ Resting.pc = "idle" /\ Resting.job = {} /\ Resting \in TitlerState
      /\ \A w \in TitleWorker : titler[w] = Resting
  BY DEF TitleInit, Resting, TitlerState
<1>2. Streamed = {}
  BY DEF TitleInit, Streamed, InStream
<1>3. StreamedCounted
  <2>1. IsFiniteSet(Streamed) /\ Cardinality(Streamed) = 0
    BY <1>2, FS_EmptySet
  <2>. QED  BY <2>1 DEF StreamedCounted, TitleInit
<1>4. TitleTypeOK
  <2>1. titler \in [TitleWorker -> TitlerState]
    BY <1>1 DEF TitleInit
  <2>2. {j \in TitleJob : titleJobs[j] = "read"}
          = UNION {titler[w].job : w \in TitleWorker}
    BY <1>1 DEF TitleInit
  <2>3. thread \in Rows /\ {titleLock, titleCache, overtakenBy} \subseteq BOOLEAN
    BY DEF TitleInit, Rows
  <2>4. renames \in 0..MaxRenames /\ titleFaults \in 0..MaxTitleFaults
    <3>1. MaxRenames \in Nat /\ MaxTitleFaults \in Nat
      BY TitleAssumption
    <3>. QED  BY <3>1 DEF TitleInit
  <2>5. /\ titleJobs \in [TitleJob -> {"none", "locked", "queued", "read", "acked", "lost"}]
        /\ patches \in [Listener -> Nat]
    BY DEF TitleInit
  <2>. QED  BY <2>1, <2>2, <2>3, <2>4, <2>5 DEF TitleTypeOK, TitlerState
<1>. QED  BY <1>1, <1>3, <1>4 DEF TitleInv, TitlerHolds, NameSafe, TitleInit

(* What a step leaves in the stream: nothing new, or one job under a fresh *)
(* lock; a lapse of the lock is counted as a fault.                        *)
LEMMA StreamShrinks ==
  ASSUME TitleInv, Streamed' \subseteq Streamed,
         titleFaults \in Nat, titleFaults' \in Nat,
         \/ UNCHANGED <<titleLock, titleFaults>>
         \/ titleFaults' = titleFaults + 1
  PROVE  StreamedCounted'
<1>1. /\ IsFiniteSet(Streamed') /\ Cardinality(Streamed') <= Cardinality(Streamed)
      /\ Cardinality(Streamed) \in Nat /\ Cardinality(Streamed') \in Nat
  BY FS_Subset, FS_CardinalityType DEF TitleInv, StreamedCounted
<1>2. Cardinality(Streamed) <= titleFaults + (IF titleLock THEN 1 ELSE 0)
  BY DEF TitleInv, StreamedCounted
<1>3. Cardinality(Streamed') <= titleFaults' + (IF titleLock' THEN 1 ELSE 0)
  BY <1>1, <1>2
<1>. QED  BY <1>1, <1>3 DEF StreamedCounted

LEMMA TitleTypes ==
  ASSUME TitleInv
  PROVE  /\ titler \in [TitleWorker -> TitlerState]
         /\ titleJobs \in [TitleJob -> {"none", "locked", "queued", "read",
                                        "acked", "lost"}]
         /\ patches \in [Listener -> Nat] /\ titleFaults \in Nat /\ renames \in Nat
         /\ \A j \in TitleJob : titleJobs[j] = "read"
              <=> \E w \in TitleWorker : j \in titler[w].job
         /\ \A w \in TitleWorker : titler[w].job \subseteq TitleJob
  <1>1. titler \in [TitleWorker -> TitlerState]
    BY DEF TitleInv, TitleTypeOK, TitlerState
  <1>2. \A w \in TitleWorker : titler[w].job \subseteq TitleJob
    BY <1>1 DEF TitlerState
  <1>3. \A j \in TitleJob : titleJobs[j] = "read"
              <=> \E w \in TitleWorker : j \in titler[w].job
    BY DEF TitleInv, TitleTypeOK
  <1>. QED  BY <1>1, <1>2, <1>3, TitleAssumption DEF TitleInv, TitleTypeOK

(* What may happen to the jobs when nobody takes one up.                   *)
TitlesLetGo ==
  /\ titleJobs' \in [TitleJob -> {"none", "locked", "queued", "read",
                                  "acked", "lost"}]
  /\ titler' \in [TitleWorker -> TitlerState]
  /\ {j \in TitleJob : titleJobs'[j] = "read"}
       = UNION {titler'[v].job : v \in TitleWorker}
  /\ TitlerHolds' /\ Streamed' \subseteq Streamed
  /\ \A v \in TitleWorker : titler'[v] \in {titler[v], Resting}

(* A worker that lets go of its job, acknowledged or lost.                 *)
LEMMA LetGoOfTitle ==
  ASSUME TitleInv, NEW w \in TitleWorker, NEW s \in {"acked", "lost"},
         titleJobs' = [j \in TitleJob |-> IF j \in titler[w].job THEN s
                                          ELSE titleJobs[j]],
         titler' = [titler EXCEPT ![w] = Resting]
  PROVE  TitlesLetGo
<1>1. Resting \in TitlerState /\ Resting.pc = "idle" /\ Resting.job = {}
  BY DEF Resting, TitlerState
<1>2. /\ titler' \in [TitleWorker -> TitlerState] /\ titler'[w] = Resting
      /\ \A v \in TitleWorker \ {w} : titler'[v] = titler[v]
  BY <1>1, TitleTypes
<1>3. TitlerHolds'
  BY <1>1, <1>2 DEF TitleInv, TitlerHolds
<1>4. \A j \in TitleJob : titleJobs'[j] = "read"
        <=> \E v \in TitleWorker : j \in titler'[v].job
  BY <1>1, <1>2, TitleTypes DEF TitleInv, TitlerHolds
<1>5. \A v \in TitleWorker : titler'[v].job \subseteq TitleJob
  BY <1>1, <1>2, TitleTypes
<1>6. {j \in TitleJob : titleJobs'[j] = "read"}
        = UNION {titler'[v].job : v \in TitleWorker}
  BY <1>4, <1>5
<1>7. titleJobs' \in [TitleJob -> {"none", "locked", "queued", "read",
                                   "acked", "lost"}]
  BY TitleTypes
<1>8. Streamed' \subseteq Streamed
  BY DEF Streamed, InStream
<1>. QED  BY <1>2, <1>3, <1>6, <1>7, <1>8 DEF TitlesLetGo

-----------------------------------------------------------------------------
LEMMA EnqueueTitleInv ==
  ASSUME TitleInv, NEW j \in TitleJob, LockTitle(j) \/ EnqueueTitle(j)
  PROVE  TitleInv'
<1>1. /\ UNCHANGED <<thread, titleCache, titler, patches, titleFaults,
                     renames, overtakenBy>>
      /\ \E s \in {"locked", "queued"} :
           titleJobs' = [titleJobs EXCEPT ![j] = s]
      /\ titleJobs[j] # "read" /\ titleLock' \in BOOLEAN
  BY DEF LockTitle, EnqueueTitle, UserStill, TitleInv, TitleTypeOK
<1>2. /\ titleJobs' \in [TitleJob -> {"none", "locked", "queued", "read",
                                      "acked", "lost"}]
      /\ titleJobs'[j] \in {"locked", "queued"}
      /\ \A i \in TitleJob \ {j} : titleJobs'[i] = titleJobs[i]
  BY <1>1, TitleTypes
<1>3. {i \in TitleJob : titleJobs'[i] = "read"} = {i \in TitleJob : titleJobs[i] = "read"}
  BY <1>1, <1>2
<1>4. TitleTypeOK'
  BY <1>1, <1>2, <1>3 DEF TitleInv, TitleTypeOK
<1>5. NameSafe' /\ TitlerHolds'
  BY <1>1 DEF TitleInv, NameSafe, PastCheck, TitlerHolds
<1>6. StreamedCounted'
  <2>1. CASE LockTitle(j)
    <3>1. Streamed' = Streamed \union {j} /\ j \notin Streamed
      BY <1>2, <2>1 DEF LockTitle, Streamed, InStream
    <3>2. /\ IsFiniteSet(Streamed') /\ Cardinality(Streamed') = Cardinality(Streamed) + 1
          /\ Cardinality(Streamed) \in Nat
      BY <3>1, FS_AddElement, FS_CardinalityType DEF TitleInv, StreamedCounted
    <3>3. titleLock' /\ ~titleLock /\ titleFaults' = titleFaults /\ titleFaults \in Nat
      BY <2>1, TitleTypes DEF LockTitle
    <3>4. Cardinality(Streamed) <= titleFaults
      BY <3>3 DEF TitleInv, StreamedCounted
    <3>. QED  BY <3>2, <3>3, <3>4 DEF StreamedCounted
  <2>2. CASE EnqueueTitle(j)
    <3>1. Streamed' \subseteq Streamed
      BY <1>2, <2>2 DEF EnqueueTitle, Streamed, InStream
    <3>. QED  BY <1>1, <2>2, <3>1, StreamShrinks, TitleTypes DEF EnqueueTitle
  <2>. QED  BY <2>1, <2>2
<1>. QED  BY <1>4, <1>5, <1>6 DEF TitleInv

LEMMA ReadTitleInv ==
  ASSUME TitleInv, NEW w \in TitleWorker, ReadJob(w)
  PROVE  TitleInv'
<1>1. PICK j \in TitleJob :
    /\ titler[w].pc = "idle" /\ titleJobs[j] = "queued"
    /\ titleJobs' = [titleJobs EXCEPT ![j] = "read"]
    /\ titler' = [titler EXCEPT ![w] = [pc |-> "read", job |-> {j},
                                        hit |-> titleCache]]
    /\ UNCHANGED <<thread, titleLock, titleCache, patches, titleFaults,
                   renames, overtakenBy>>
  BY DEF ReadJob, Titling, UserStill
<1>. DEFINE r == [pc |-> "read", job |-> {j}, hit |-> titleCache]
<1>2. r \in TitlerState /\ r.pc = "read" /\ r.job = {j}
  BY DEF TitlerState, TitleInv, TitleTypeOK
<1>. HIDE DEF r
<1>3. /\ titler' \in [TitleWorker -> TitlerState] /\ titler'[w] = r
      /\ \A v \in TitleWorker \ {w} : titler'[v] = titler[v]
  BY <1>1, <1>2, TitleTypes DEF r
<1>4. /\ titleJobs' \in [TitleJob -> {"none", "locked", "queued", "read",
                                      "acked", "lost"}]
      /\ titleJobs'[j] = "read"
      /\ \A i \in TitleJob \ {j} : titleJobs'[i] = titleJobs[i]
  BY <1>1, TitleTypes
<1>5. /\ \A v \in TitleWorker : j \notin titler[v].job
      /\ titler[w].job = {}
  BY <1>1, TitleTypes DEF TitleInv, TitlerHolds
<1>6. TitlerHolds'
  BY <1>2, <1>3, <1>5 DEF TitleInv, TitlerHolds
<1>7. \A i \in TitleJob : titleJobs'[i] = "read"
        <=> \E v \in TitleWorker : i \in titler'[v].job
  BY <1>2, <1>3, <1>4, <1>5, TitleTypes
<1>8. \A v \in TitleWorker : titler'[v].job \subseteq TitleJob
  BY <1>2, <1>3, TitleTypes
<1>9. {i \in TitleJob : titleJobs'[i] = "read"}
        = UNION {titler'[v].job : v \in TitleWorker}
  BY <1>7, <1>8
<1>10. TitleTypeOK'
  BY <1>1, <1>3, <1>4, <1>9 DEF TitleInv, TitleTypeOK, TitlerState
<1>11. Streamed' \subseteq Streamed
  BY <1>1, <1>4 DEF Streamed, InStream
<1>12. StreamedCounted'
  BY <1>1, <1>11, StreamShrinks, TitleTypes
<1>13. NameSafe'
  BY <1>1, <1>2, <1>3 DEF TitleInv, NameSafe, PastCheck
<1>. QED  BY <1>6, <1>10, <1>12, <1>13 DEF TitleInv

(* A worker that goes on with its job.                                     *)
LEMMA TitlerGoesOn ==
  ASSUME TitleInv, NEW w \in TitleWorker, titler[w].pc # "idle",
         NEW pc \in {"checked", "titled", "stored"},
         titler' = [titler EXCEPT ![w].pc = pc], UNCHANGED titleJobs
  PROVE  /\ titler' \in [TitleWorker -> TitlerState]
         /\ {j \in TitleJob : titleJobs'[j] = "read"}
              = UNION {titler'[v].job : v \in TitleWorker}
         /\ TitlerHolds' /\ Streamed' \subseteq Streamed
         /\ titler'[w].pc = pc
         /\ \A v \in TitleWorker \ {w} : titler'[v] = titler[v]
<1>1. /\ titler' \in [TitleWorker -> TitlerState] /\ titler'[w].pc = pc
      /\ \A v \in TitleWorker : titler'[v].job = titler[v].job
      /\ \A v \in TitleWorker \ {w} : titler'[v] = titler[v]
  BY TitleTypes DEF TitlerState
<1>2. TitlerHolds'
  BY <1>1 DEF TitleInv, TitlerHolds
<1>3. {j \in TitleJob : titleJobs'[j] = "read"}
        = UNION {titler'[v].job : v \in TitleWorker}
  BY <1>1 DEF TitleInv, TitleTypeOK
<1>. QED  BY <1>1, <1>2, <1>3 DEF Streamed, InStream

LEMMA WorkOnTitleInv ==
  ASSUME TitleInv, NEW w \in TitleWorker, WorkOnTitle(w)
  PROVE  TitleInv'
<1>1. CASE ReadJob(w)
  BY <1>1, ReadTitleInv
<1>2. CASE CheckRenamed(w) /\ ~(~thread.auto /\ thread.title = "named")
  <2>1. /\ titler[w].pc = "read" /\ titler' = [titler EXCEPT ![w].pc = "checked"]
        /\ UNCHANGED <<thread, titleLock, titleCache, titleJobs, patches,
                       titleFaults, renames, overtakenBy>>
    BY <1>2 DEF CheckRenamed, Titling, TitlerTo, UserStill
  <2>2. /\ titler' \in [TitleWorker -> TitlerState]
        /\ {j \in TitleJob : titleJobs'[j] = "read"}
              = UNION {titler'[v].job : v \in TitleWorker}
        /\ TitlerHolds' /\ Streamed' \subseteq Streamed
    BY <2>1, TitlerGoesOn
  <2>3. ~(renames > 0 /\ ~overtakenBy)
    BY <1>2 DEF TitleInv, NameSafe, Named
  <2>4. TitleTypeOK'
    BY <2>1, <2>2 DEF TitleInv, TitleTypeOK, TitlerState
  <2>5. StreamedCounted'
    BY <2>1, <2>2, StreamShrinks, TitleTypes
  <2>. QED  BY <2>1, <2>2, <2>3, <2>4, <2>5 DEF TitleInv, NameSafe
<1>3. CASE Generate(w) \/ StoreTitle(w)
  <2>1. PICK pc \in {"titled", "stored"} :
        /\ titler[w].pc \in {"checked", "titled"}
        /\ titler' = [titler EXCEPT ![w].pc = pc]
        /\ thread' \in {thread, AutoTitled}
        /\ UNCHANGED <<titleLock, titleCache, titleJobs, patches,
                       titleFaults, renames, overtakenBy>>
    BY <1>3 DEF Generate, StoreTitle, Titling, TitlerTo, UserStill
  <2>2. /\ titler' \in [TitleWorker -> TitlerState]
        /\ {j \in TitleJob : titleJobs'[j] = "read"}
              = UNION {titler'[v].job : v \in TitleWorker}
        /\ TitlerHolds' /\ Streamed' \subseteq Streamed
    BY <2>1, TitlerGoesOn
  <2>3. ~(renames > 0 /\ ~overtakenBy)
    BY <2>1 DEF TitleInv, NameSafe, PastCheck
  <2>4. TitleTypeOK'
    BY <2>1, <2>2 DEF TitleInv, TitleTypeOK, TitlerState, Rows
  <2>5. StreamedCounted'
    BY <2>1, <2>2, StreamShrinks, TitleTypes
  <2>. QED  BY <2>1, <2>2, <2>3, <2>4, <2>5 DEF TitleInv, NameSafe
<1>4. CASE /\ Ack(w)
           /\ UNCHANGED <<thread, titleLock, titleFaults, renames, overtakenBy>>
           /\ titleCache' \in BOOLEAN
           /\ \/ UNCHANGED patches
              \/ titler[w].pc \in {"checked", "stored"} /\ Publish
  <2>1. TitlesLetGo
    BY <1>4, LetGoOfTitle DEF Ack
  <2>2. patches' \in [Listener -> Nat]
    BY <1>4, TitleTypes DEF Publish
  <2>3. TitleTypeOK'
    BY <1>4, <2>1, <2>2 DEF TitleInv, TitleTypeOK, TitlerState, TitlesLetGo
  <2>4. StreamedCounted'
    BY <1>4, <2>1, StreamShrinks, TitleTypes DEF TitlesLetGo
  <2>5. NameSafe'
    <3>1. CASE UNCHANGED patches
      BY <1>4, <2>1, <3>1 DEF TitleInv, NameSafe, PastCheck, Resting, TitlesLetGo
    <3>2. CASE titler[w].pc \in {"checked", "stored"}
      BY <1>4, <3>2 DEF TitleInv, NameSafe, PastCheck
    <3>. QED  BY <1>4, <3>1, <3>2
  <2>. QED  BY <2>1, <2>3, <2>4, <2>5 DEF TitleInv, TitlesLetGo
<1>5. titleCache \in BOOLEAN
  BY DEF TitleInv, TitleTypeOK
<1>6. CASE CheckRenamed(w) /\ ~thread.auto /\ thread.title = "named"
  BY <1>4, <1>5, <1>6 DEF CheckRenamed, UserStill
<1>7. CASE PublishHit(w)
  BY <1>4, <1>5, <1>7 DEF PublishHit, Titling, UserStill
<1>8. CASE DeadLetter(w)
  BY <1>4, <1>5, <1>8 DEF DeadLetter, UserStill
<1>9. CASE PublishTitle(w)
  BY <1>4, <1>5, <1>9 DEF PublishTitle, Titling, UserStill
<1>. QED  BY <1>1, <1>2, <1>3, <1>6, <1>7, <1>8, <1>9 DEF WorkOnTitle

LEMMA WritePatchInv ==
  ASSUME TitleInv, NEW i \in Listener, WritePatch(i)
  PROVE  TitleInv'
<1>1. /\ patches[i] > 0 /\ patches' = [patches EXCEPT ![i] = patches[i] - 1]
      /\ thread' = AutoTitled /\ titleCache' = TRUE
      /\ UNCHANGED <<titleLock, titleJobs, titler, titleFaults, renames, overtakenBy>>
  BY DEF WritePatch, UserStill
<1>2. patches' \in [Listener -> Nat]
  BY <1>1, TitleTypes
<1>3. TitleTypeOK'
  BY <1>1, <1>2 DEF TitleInv, TitleTypeOK, Rows
<1>4. NameSafe'
  BY <1>1 DEF TitleInv, NameSafe, PastCheck
<1>5. StreamedCounted' /\ TitlerHolds'
  BY <1>1 DEF TitleInv, StreamedCounted, Streamed, InStream, TitlerHolds
<1>. QED  BY <1>3, <1>4, <1>5 DEF TitleInv

LEMMA RenameThreadInv ==
  ASSUME TitleInv, RenameThread
  PROVE  TitleInv'
<1>1. /\ renames < MaxRenames /\ renames' = renames + 1
      /\ thread' = Named(renames + 1) /\ overtakenBy' = PastCheck
      /\ UNCHANGED <<titleLock, titleCache, titleJobs, titler, patches, titleFaults>>
  BY DEF RenameThread
<1>2. renames' \in 1..MaxRenames
  BY <1>1, TitleTypes, TitleAssumption DEF TitleInv, TitleTypeOK
<1>3. thread' \in Rows
  BY <1>1, <1>2 DEF Rows
<1>4. TitleTypeOK'
  BY <1>1, <1>2, <1>3 DEF TitleInv, TitleTypeOK, PastCheck
<1>5. NameSafe'
  BY <1>1 DEF NameSafe, PastCheck
<1>6. StreamedCounted' /\ TitlerHolds'
  BY <1>1 DEF TitleInv, StreamedCounted, Streamed, InStream, TitlerHolds
<1>. QED  BY <1>4, <1>5, <1>6 DEF TitleInv

LEMMA TitleFaultInv ==
  ASSUME TitleInv, TitleFault
  PROVE  TitleInv'
<1>1. /\ titleFaults' = titleFaults + 1 /\ titleFaults' \in 0..MaxTitleFaults
      /\ titleFaults' \in Nat /\ titleFaults \in Nat
      /\ UNCHANGED <<thread, patches, renames, overtakenBy>>
      /\ titleLock' \in BOOLEAN /\ titleCache' \in BOOLEAN
  <2>1. /\ MaxTitleFaults \in Nat /\ titleFaults \in 0..MaxTitleFaults
        /\ titleLock \in BOOLEAN /\ titleCache \in BOOLEAN
    BY TitleAssumption DEF TitleInv, TitleTypeOK
  <2>2. /\ titleFaults < MaxTitleFaults /\ titleFaults' = titleFaults + 1
        /\ UNCHANGED <<thread, patches, renames, overtakenBy>>
        /\ titleLock' = FALSE \/ titleLock' = titleLock
        /\ titleCache' = FALSE \/ titleCache' = titleCache
    BY DEF TitleFault, UserStill
  <2>3. titleLock' \in BOOLEAN /\ titleCache' \in BOOLEAN
    BY <2>1, <2>2, Zenon
  <2>4. /\ titleFaults' \in 0..MaxTitleFaults
        /\ titleFaults' \in Nat /\ titleFaults \in Nat
    BY <2>1, <2>2
  <2>. QED  BY <2>2, <2>3, <2>4
<1>2. TitlesLetGo
  <2>1. CASE UNCHANGED <<titleJobs, titler>>
    BY <2>1, TitleTypes
    DEF TitleInv, TitleTypeOK, TitlerHolds, Streamed, InStream, TitlesLetGo
  <2>2. ASSUME NEW w \in TitleWorker,
               titler' = [titler EXCEPT ![w] = Resting],
               titleJobs' = [j \in TitleJob |-> IF j \in titler[w].job
                                                THEN "lost" ELSE titleJobs[j]]
        PROVE  TitlesLetGo
    BY <2>2, LetGoOfTitle
  <2>3. ASSUME NEW j \in TitleJob, titleJobs[j] = "locked",
               titleJobs' = [titleJobs EXCEPT ![j] = "lost"], UNCHANGED titler
        PROVE  TitlesLetGo
    <3>1. /\ titleJobs' \in [TitleJob -> {"none", "locked", "queued", "read",
                                          "acked", "lost"}]
          /\ titleJobs'[j] = "lost"
          /\ \A i \in TitleJob \ {j} : titleJobs'[i] = titleJobs[i]
      BY <2>3, TitleTypes
    <3>2. /\ {i \in TitleJob : titleJobs'[i] = "read"}
               = {i \in TitleJob : titleJobs[i] = "read"}
          /\ Streamed' \subseteq Streamed
      BY <2>3, <3>1 DEF Streamed, InStream
    <3>. QED
      BY <2>3, <3>1, <3>2, TitleTypes
      DEF TitleInv, TitleTypeOK, TitlerHolds, TitlesLetGo
  <2>. QED  BY <2>1, <2>2, <2>3 DEF TitleFault
<1>3. TitleTypeOK'
  BY <1>1, <1>2 DEF TitleInv, TitleTypeOK, TitlerState, TitlesLetGo
<1>4. StreamedCounted'
  BY <1>1, <1>2, StreamShrinks DEF TitlesLetGo
<1>5. NameSafe'
  BY <1>1, <1>2 DEF TitleInv, NameSafe, PastCheck, Resting, TitlesLetGo
<1>. QED  BY <1>2, <1>3, <1>4, <1>5 DEF TitleInv, TitlesLetGo

LEMMA TitleNextInv == TitleInv /\ [TitleNext]_titleVars => TitleInv'
<1>. SUFFICES ASSUME TitleInv, [TitleNext]_titleVars  PROVE TitleInv'
  OBVIOUS
<1>1. CASE TitleNext
  BY <1>1, EnqueueTitleInv, WorkOnTitleInv, WritePatchInv, RenameThreadInv,
     TitleFaultInv DEF TitleNext
<1>2. CASE UNCHANGED titleVars
  BY <1>2
  DEF titleVars, TitleInv, TitleTypeOK, TitlerHolds, StreamedCounted, Streamed,
      InStream, NameSafe, PastCheck
<1>. QED  BY <1>1, <1>2

(* However many jobs, workers and instances there are: the jobs in the     *)
(* stream are at most one more than the faults (the lock that              *)
(* enqueueThreadTitleJob sets is never released, only lapses), and a name  *)
(* the user gave stays, unless a worker was past its look at auto_titled   *)
(* or a patch was on its way when he gave it.                              *)
THEOREM TitlesAreKept == TitleSpec => []TitlesSound
<1>1. TitleInv => TitlesSound
  <2>1. ASSUME TitleInv PROVE OneJobAtATime
    <3>1. Cardinality(Streamed) <= 1 + titleFaults
      <4>1. Cardinality(Streamed) \in Nat /\ titleFaults \in Nat
        BY <2>1, FS_CardinalityType, TitleTypes DEF TitleInv, StreamedCounted
      <4>. QED  BY <2>1, <4>1 DEF TitleInv, StreamedCounted
    <3>. QED  BY <3>1 DEF OneJobAtATime, Streamed
  <2>. QED  BY <2>1 DEF TitleInv, TitlesSound, NameKept, NameSafe
<1>2. TitleInit => TitleInv
  BY TitleInitInv
<1>3. TitleInv /\ [TitleNext]_titleVars => TitleInv'
  BY TitleNextInv
<1>. QED  BY <1>1, <1>2, <1>3, PTL DEF TitleSpec
=============================================================================
