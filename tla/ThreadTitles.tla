---------------------------- MODULE ThreadTitles -----------------------------
(***************************************************************************)
(* The sidebar title of one thread: the jobs of activity-title.queue.ts    *)
(* (src/src/ai/activity), the workers of title-worker.ts, the instances    *)
(* that write what a worker published (StreamEngine.attachRedisOnce of     *)
(* ai/engines/stream-engine.ts) and the user who renames the thread        *)
(* (ThreadEngine.renameThread of ai/engines/thread.engine.ts).             *)
(*                                                                         *)
(* A title is "new" (New Chat), "auto", or the n-th name the user gave it. *)
(***************************************************************************)
EXTENDS Integers, FiniteSets

CONSTANTS
  TitleJob,       \* the jobs there may be
  TitleWorker,
  Listener,       \* the instances that hear the patches
  MaxRenames,     \* bound: names the user gives
  MaxTitleFaults  \* bound: crashes, locks and caches that lapse

ASSUME TitleAssumption == {MaxRenames, MaxTitleFaults} \subseteq Nat

VARIABLES
  thread,      \* conversation_threads: title, auto_titled
  titleLock,   \* yua:thread_title:lock
  titleCache,  \* whether yua:thread_title:cache holds a title
  titleJobs,   \* each job: none, locked, queued, read, acked or lost
  titler,      \* what each worker does, and the job it does it for
  patches,     \* patches each instance has received and not yet written
  renames,     \* the last name the user gave
  overtakenBy, \* history: what was under way when he gave it
  titleFaults

titleVars == <<thread, titleLock, titleCache, titleJobs, titler, patches,
               renames, overtakenBy, titleFaults>>

New  == [title |-> "new", name |-> 0, auto |-> FALSE]
AutoTitled == [title |-> "auto", name |-> 0, auto |-> TRUE]
Named(n) == [title |-> "named", name |-> n, auto |-> FALSE]

Resting == [pc |-> "idle", job |-> {}, hit |-> FALSE]
Titling(w, pc) == titler[w].pc = pc
TitlerTo(w, pc) == titler' = [titler EXCEPT ![w].pc = pc]
Ack(w) ==
  /\ titleJobs' = [j \in TitleJob |-> IF j \in titler[w].job THEN "acked"
                                      ELSE titleJobs[j]]
  /\ titler' = [titler EXCEPT ![w] = Resting]
(* Heard by the instances that have a reader of the thread.                *)
Publish ==
  \E heard \in SUBSET Listener :
    patches' = [i \in Listener |-> IF i \in heard THEN patches[i] + 1
                                   ELSE patches[i]]
UserStill == UNCHANGED <<renames, overtakenBy>>

-----------------------------------------------------------------------------
(* enqueueThreadTitleJob: SET NX, then XADD.                               *)

LockTitle(j) ==
  /\ titleJobs[j] = "none" /\ ~titleLock
  /\ titleLock' = TRUE
  /\ titleJobs' = [titleJobs EXCEPT ![j] = "locked"]
  /\ UNCHANGED <<thread, titleCache, titler, patches, titleFaults>> /\ UserStill

EnqueueTitle(j) ==
  /\ titleJobs[j] = "locked"
  /\ titleJobs' = [titleJobs EXCEPT ![j] = "queued"]
  /\ UNCHANGED <<thread, titleLock, titleCache, titler, patches, titleFaults>>
  /\ UserStill

-----------------------------------------------------------------------------
(* The worker: XREADGROUP of new entries, MGET of the cache, then whether  *)
(* the thread was renamed; a hit is published, else the model is asked.    *)

ReadJob(w) ==
  \E j \in TitleJob :
    /\ Titling(w, "idle") /\ titleJobs[j] = "queued"
    /\ titleJobs' = [titleJobs EXCEPT ![j] = "read"]
    /\ titler' = [titler EXCEPT ![w] = [pc |-> "read", job |-> {j},
                                        hit |-> titleCache]]
    /\ UNCHANGED <<thread, titleLock, titleCache, patches, titleFaults>>
    /\ UserStill

CheckNothing(w) ==
  /\ Titling(w, "read")
  /\ TitlerTo(w, "checked") /\ UNCHANGED titleJobs
  /\ UNCHANGED <<thread, titleLock, titleCache, patches, titleFaults>>
  /\ UserStill

CheckRenamed(w) ==
  /\ Titling(w, "read")
  /\ IF ~thread.auto /\ thread.title = "named" THEN Ack(w)
     ELSE TitlerTo(w, "checked") /\ UNCHANGED titleJobs
  /\ UNCHANGED <<thread, titleLock, titleCache, patches, titleFaults>>
  /\ UserStill

PublishHit(w) ==
  /\ Titling(w, "checked") /\ titler[w].hit
  /\ Publish /\ Ack(w)
  /\ UNCHANGED <<thread, titleLock, titleCache, titleFaults>> /\ UserStill

Generate(w) ==
  /\ Titling(w, "checked") /\ ~titler[w].hit
  /\ TitlerTo(w, "titled") /\ UNCHANGED titleJobs
  /\ UNCHANGED <<thread, titleLock, titleCache, patches, titleFaults>>
  /\ UserStill

Deferred(w) == \/ Titling(w, "checked") /\ ~titler[w].hit
               \/ titler[w].pc \in {"titled", "stored"}

(* A model that answers nothing, or an exception from then on.             *)
DeadLetter(w) ==
  /\ Deferred(w)
  /\ Ack(w)
  /\ UNCHANGED <<thread, titleLock, titleCache, patches, titleFaults>>
  /\ UserStill

(* The thread's row, whatever it says by now; the cache; the patch.        *)
StoreTitle(w) ==
  /\ Titling(w, "titled")
  /\ thread' = AutoTitled
  /\ TitlerTo(w, "stored")
  /\ UNCHANGED <<titleLock, titleCache, titleJobs, patches, titleFaults>>
  /\ UserStill

PublishTitle(w) ==
  /\ Titling(w, "stored")
  /\ titleCache' = TRUE
  /\ Publish /\ Ack(w)
  /\ UNCHANGED <<thread, titleLock, titleFaults>> /\ UserStill

(* A patch is written once more by every instance that hears it.           *)
WritePatch(i) ==
  /\ patches[i] > 0
  /\ patches' = [patches EXCEPT ![i] = @ - 1]
  /\ thread' = AutoTitled
  /\ titleCache' = TRUE
  /\ UNCHANGED <<titleLock, titleJobs, titler, titleFaults>> /\ UserStill

-----------------------------------------------------------------------------
(* What is past the check that respects a name.                            *)
PastCheck == \/ \E w \in TitleWorker : titler[w].pc \notin {"idle", "read"}
             \/ \E i \in Listener : patches[i] > 0

RenameThread ==
  /\ renames < MaxRenames
  /\ renames' = renames + 1
  /\ thread' = Named(renames + 1)
  /\ overtakenBy' = PastCheck
  /\ UNCHANGED <<titleLock, titleCache, titleJobs, titler, patches,
                 titleFaults>>

TitleFault ==
  /\ titleFaults < MaxTitleFaults /\ titleFaults' = titleFaults + 1
  /\ \/ titleLock /\ titleLock' = FALSE
        /\ UNCHANGED <<titleCache, titleJobs, titler>>
     \/ titleCache /\ titleCache' = FALSE
        /\ UNCHANGED <<titleLock, titleJobs, titler>>
     \/ \E w \in TitleWorker :
          /\ titler[w].pc # "idle"
          /\ titler' = [titler EXCEPT ![w] = Resting]
          /\ titleJobs' = [j \in TitleJob |-> IF j \in titler[w].job
                                              THEN "lost" ELSE titleJobs[j]]
          /\ UNCHANGED <<titleLock, titleCache>>
     \/ \E j \in TitleJob :
          /\ titleJobs[j] = "locked"
          /\ titleJobs' = [titleJobs EXCEPT ![j] = "lost"]
          /\ UNCHANGED <<titleLock, titleCache, titler>>
  /\ UNCHANGED <<thread, patches>> /\ UserStill

-----------------------------------------------------------------------------
TitleInit ==
  /\ thread = New /\ titleLock = FALSE /\ titleCache = FALSE
  /\ titleJobs = [j \in TitleJob |-> "none"]
  /\ titler = [w \in TitleWorker |-> Resting]
  /\ patches = [i \in Listener |-> 0]
  /\ renames = 0 /\ overtakenBy = FALSE /\ titleFaults = 0

WorkOnTitle(w) ==
  \/ ReadJob(w) \/ CheckRenamed(w) \/ PublishHit(w)
  \/ Generate(w) \/ DeadLetter(w) \/ StoreTitle(w) \/ PublishTitle(w)

TitleNext ==
  \/ \E j \in TitleJob : LockTitle(j) \/ EnqueueTitle(j)
  \/ \E w \in TitleWorker : WorkOnTitle(w)
  \/ \E i \in Listener : WritePatch(i)
  \/ RenameThread \/ TitleFault

TitleSpec == TitleInit /\ [][TitleNext]_titleVars

(* The loop of each worker goes on.                                        *)
TitleFairness == \A w \in TitleWorker : WF_titleVars(WorkOnTitle(w))
TitleFairSpec == TitleSpec /\ TitleFairness
=============================================================================
