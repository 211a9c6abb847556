----------------------- MODULE ThreadTitlesProperties ------------------------
(***************************************************************************)
(* What the title jobs of a thread are meant to do.                        *)
(***************************************************************************)
EXTENDS ThreadTitles

Rows == {New, AutoTitled} \union {Named(n) : n \in 1..MaxRenames}
InStream(j) == titleJobs[j] \in {"locked", "queued", "read"}

(* Types; a job is read exactly while a worker has it.                     *)
TitleTypeOK ==
  /\ thread \in Rows
  /\ {titleLock, titleCache, overtakenBy} \subseteq BOOLEAN
  /\ titleJobs \in
       [TitleJob -> {"none", "locked", "queued", "read", "acked", "lost"}]
  /\ titler \in
       [TitleWorker ->
          [pc: {"idle", "read", "checked", "titled", "stored"},
           job: SUBSET TitleJob, hit: BOOLEAN]]
  /\ patches \in [Listener -> Nat]
  /\ renames \in 0..MaxRenames /\ titleFaults \in 0..MaxTitleFaults
  /\ {j \in TitleJob : titleJobs[j] = "read"}
       = UNION {titler[w].job : w \in TitleWorker}

(* A name the user gave stays: a job that is read after he gave it is      *)
(* skipped by the check of title and auto_titled.  Only a title that was   *)
(* past the check, or published, when he gave it replaces his name.        *)
NameKept ==
  renames > 0 /\ ~overtakenBy => thread = Named(renames)

(* The lock keeps a second job away: two are in the stream only if the     *)
(* lock, which nobody releases, has lapsed in between.                     *)
OneJobAtATime ==
  Cardinality({j \in TitleJob : InStream(j)}) <= 1 + titleFaults

(* Types, one job at a time, and the user's names kept, however the two    *)
(* writers of titles are delayed.                                          *)
TitlesSound == TitleTypeOK /\ OneJobAtATime /\ NameKept

(* Every queued job is acknowledged in the end, titled or put in the dead  *)
(* letter queue, unless its worker dies: nothing reads its entry again.    *)
TitleJobSettles ==
  \A j \in TitleJob :
    titleJobs[j] = "queued" ~> titleJobs[j] \in {"acked", "lost"}
=============================================================================
