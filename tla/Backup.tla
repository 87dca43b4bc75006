------------------------------- MODULE Backup -------------------------------
(***************************************************************************)
(* core/backup: full and User Manager backups of one router, each in a     *)
(* worker thread.  A full run saves a .backup and a .rsc on the router and *)
(* a User Manager run an .umb; each downloads, removes the router's older  *)
(* files and, the latter only, the host's.  Full runs hold the lock of the *)
(* router, User Manager runs hold nothing and name their file by second.   *)
(***************************************************************************)
EXTENDS Integers, FiniteSets

CONSTANTS
    Manual,         \* runs of _background_backup_job
    Rounds,         \* rounds of the daily job
    RouterKeep,     \* MAX_ROUTER_BACKUPS
    LocalKeep,      \* MAX_LOCAL_BACKUPS
    Seconds,        \* bound: seconds during which runs choose names
    Nobody

Runs == Manual \union Rounds

ASSUME RunsAssumption == Manual \intersect Rounds = {} /\ Nobody \notin Runs

ASSUME KeepAssumption == RouterKeep \in Nat /\ RouterKeep >= 2 /\ LocalKeep \in Nat \ {0}

ASSUME SecondsAssumption == Seconds \in Nat \ {0}

VARIABLES
    second,         \* the wall clock
    clock,          \* clock[d]: files written to d so far, the order of their times
    holder,         \* the run that holds _BACKUP_LOCKS[router_key]
    pc,             \* pc[r]: the next step of run r
    name,           \* name[r]: the second in its umb_filename
    got,            \* got[r]: download_backup_file returned True
    told,           \* told[r]: the result of its service
    onRouter,       \* files <router name>_* of the router
    umbs,           \* files User_Manager_* of the router
    staged,         \* files in uploads/<router key> of the host
    local,          \* files User_Manager_* of the host
    began           \* began[r]: when the host began to write r's file, moved on
                    \* by r's own later writes (history)

vars == <<second, clock, holder, pc, name, got, told, onRouter, umbs, staged, local, began>>

router == <<onRouter, umbs>>
host == <<staged, local, began>>

UmSteps == {"dumping", "pushing", "moving", "opening", "fetching", "trimming umbs", "pruning"}
FullSteps == {"saving", "exporting", "downloading", "trimming", "trimming exports"}

Parts == {"backup", "rsc"}

Places == {"router", "umbs", "host"}

Init ==
    /\ second = 1
    /\ clock = [d \in Places |-> 0]
    /\ holder = Nobody
    /\ pc = [r \in Runs |-> "idle"]
    /\ name = [r \in Runs |-> 0]
    /\ got = [r \in Runs |-> FALSE]
    /\ told = [r \in Runs |-> "none"]
    /\ onRouter \in {{}, {[part |-> "backup", run |-> Nobody, at |-> -1],
                         [part |-> "rsc", run |-> Nobody, at |-> 0]}}
    /\ umbs = {}
    /\ staged = {}
    /\ local \in {{}, {[name |-> 0, whole |-> TRUE, at |-> 0]}}
    /\ began = [r \in Runs |-> 0]

Goto(r, l) == pc' = [pc EXCEPT ![r] = l]

Written(d) == clock' = [clock EXCEPT ![d] = @ + 1]

(* The files of a directory that clean-up dooms: all but the keep newest.  *)
Doomed(files, keep) ==
    {f \in files : Cardinality({g \in files : g.at > f.at}) >= keep}

Others(files, n) == {f \in files : f.name # n}

Tick ==
    /\ second < Seconds
    /\ second' = second + 1
    /\ UNCHANGED <<clock, holder, pc, name, got, told, router, host>>

-----------------------------------------------------------------------------
(* A button's job runs one service; a round, once the router is found      *)
(* healthy, userman_backup and then full_backup whatever came of it.       *)
BeginUserman(r) ==
    /\ pc[r] = "idle" /\ told[r] = "none"
    /\ name' = [name EXCEPT ![r] = second]
    /\ Goto(r, "dumping")
    /\ UNCHANGED <<second, clock, holder, got, told, router, host>>

BeginFull(r) ==
    /\ pc[r] = "idle" /\ told[r] = "none"
    /\ r \in Manual
    /\ Goto(r, "locking")
    /\ UNCHANGED <<second, clock, holder, name, got, told, router, host>>

AfterUserman(r) == IF r \in Rounds THEN "locking" ELSE "idle"

Crash ==
    /\ \E r \in Runs : pc[r] # "idle"
    /\ holder' = Nobody
    /\ pc' = [r \in Runs |-> "idle"]
    /\ told' = [r \in Runs |-> IF pc[r] = "idle" THEN told[r] ELSE "lost"]
    /\ got' = [r \in Runs |-> FALSE]
    /\ began' = [r \in Runs |-> 0]
    /\ UNCHANGED <<second, clock, name, router, staged, local>>

-----------------------------------------------------------------------------
(* full_backup                                                             *)

(* Mutant: a run under way is not looked for.                              *)
AcquireAnyway(r) ==
    /\ pc[r] = "locking"
    /\ holder' = r
    /\ told' = [told EXCEPT ![r] = "none"]
    /\ Goto(r, "saving")
    /\ UNCHANGED <<second, clock, name, got, router, host>>

Acquire(r) ==
    /\ pc[r] = "locking"
    /\ holder = Nobody
    /\ holder' = r
    /\ told' = [told EXCEPT ![r] = "none"]
    /\ Goto(r, "saving")
    /\ UNCHANGED <<second, clock, name, got, router, host>>

Busy(r) ==
    /\ pc[r] = "locking"
    /\ holder # Nobody
    /\ told' = [told EXCEPT ![r] = "busy"]
    /\ Goto(r, "idle")
    /\ UNCHANGED <<second, clock, holder, name, got, router, host>>

Write(r, part) ==
    /\ Written("router")
    /\ onRouter' = onRouter \union {[part |-> part, run |-> r, at |-> clock["router"] + 1]}

Save(r) ==
    /\ pc[r] = "saving"
    /\ Write(r, "backup")
    /\ Goto(r, "exporting")
    /\ UNCHANGED <<second, holder, name, got, told, umbs, host>>

Export(r) ==
    /\ pc[r] = "exporting"
    /\ Write(r, "rsc")
    /\ Goto(r, "downloading")
    /\ UNCHANGED <<second, holder, name, got, told, umbs, host>>

(* Two calls of download_backup_file, into files no other run names.       *)
Download(r) ==
    /\ pc[r] = "downloading"
    /\ Goto(r, "trimming")
    /\ UNCHANGED <<second, clock, holder, name, got, told, router, host>>

(* cleanup_router_files: of the files listed any removal may fail, or the  *)
(* list itself.  Only the holder of the lock writes or removes these       *)
(* files, so that list and removals are one step.                          *)
Trim(r) ==
    /\ pc[r] = "trimming"
    /\ \E gone \in SUBSET Doomed(onRouter, RouterKeep) : onRouter' = onRouter \ gone
    /\ Goto(r, "trimming exports")
    /\ UNCHANGED <<second, clock, holder, name, got, told, umbs, host>>

(* The second call, for the exports; then the result and the lock.         *)
TrimExports(r) ==
    /\ pc[r] = "trimming exports"
    /\ \E gone \in SUBSET Doomed({f \in onRouter : f.part = "rsc"}, RouterKeep) :
          onRouter' = onRouter \ gone
    /\ told' = [told EXCEPT ![r] = "created"]
    /\ holder' = Nobody
    /\ Goto(r, "idle")
    /\ UNCHANGED <<second, clock, name, got, umbs, host>>

(* Mutant: an exception leaves the lock held.                              *)
FullFailsLocked(r) ==
    /\ pc[r] \in FullSteps \ {"downloading"}
    /\ told' = [told EXCEPT ![r] = "failed"]
    /\ Goto(r, "idle")
    /\ UNCHANGED <<second, clock, holder, name, got, router, host>>

(* An error of the host or of a command, the open circuit of a clean-up    *)
(* included; a save or export whose reply is lost has written its file.    *)
FullFails(r) ==
    /\ pc[r] \in FullSteps \ {"downloading"}
    /\ \/ UNCHANGED <<clock, onRouter>>
       \/ pc[r] = "saving" /\ Write(r, "backup")
       \/ pc[r] = "exporting" /\ Write(r, "rsc")
    /\ told' = [told EXCEPT ![r] = "failed"]
    /\ holder' = Nobody
    /\ Goto(r, "idle")
    /\ UNCHANGED <<second, name, got, umbs, host>>

-----------------------------------------------------------------------------
(* userman_backup                                                          *)
WriteUmb(r) ==
    /\ Written("umbs")
    /\ umbs' = Others(umbs, name[r]) \union {[name |-> name[r], at |-> clock["umbs"] + 1]}

(* Mutant: the file of the same second is not overwritten.                 *)
DumpBeside(r) ==
    /\ pc[r] = "dumping"
    /\ Written("umbs")
    /\ umbs' = umbs \union {[name |-> name[r], at |-> clock["umbs"] + 1]}
    /\ Goto(r, "pushing")
    /\ UNCHANGED <<second, holder, name, got, told, onRouter, host>>

(* database/save, overwrite=yes.                                           *)
Dump(r) ==
    /\ pc[r] = "dumping"
    /\ WriteUmb(r)
    /\ Goto(r, "pushing")
    /\ UNCHANGED <<second, holder, name, got, told, onRouter, host>>

(* The host starts to write the file of the run.                           *)
Begins(r) ==
    /\ Written("host")
    /\ began' = [began EXCEPT ![r] = clock["host"] + 1]

(* do_POST of the host's file server, in a thread of its own.              *)
Upload(r) ==
    /\ Begins(r)
    /\ staged' = Others(staged, name[r]) \union {[name |-> name[r], at |-> clock["host"] + 1]}

(* tool/fetch returns, or raises with the upload received or not.          *)
Push(r) ==
    /\ pc[r] = "pushing"
    /\ Upload(r) \/ UNCHANGED <<clock, staged, began>>
    /\ Goto(r, "moving") \/ Goto(r, "opening")
    /\ UNCHANGED <<second, holder, name, got, told, router, local>>

(* shutil.move keeps the time of the upload.                               *)
Move(r) ==
    /\ pc[r] = "moving"
    /\ \E f \in staged :
         /\ f.name = name[r]
         /\ staged' = staged \ {f}
         /\ local' = Others(local, name[r]) \union {[name |-> name[r], whole |-> TRUE, at |-> f.at]}
    /\ got' = [got EXCEPT ![r] = TRUE]
    /\ Goto(r, "trimming umbs")
    /\ UNCHANGED <<second, clock, holder, name, told, router, began>>

(* The file is not there, or the move raises.                              *)
NotMoved(r) ==
    /\ pc[r] = "moving"
    /\ Goto(r, "opening")
    /\ UNCHANGED <<second, clock, holder, name, got, told, router, host>>

(* download_files_via_ftp: no connection, or the local file truncated.     *)
Connect(r) ==
    /\ pc[r] = "opening"
    /\ Begins(r)
    /\ local' = Others(local, name[r])
                   \union {[name |-> name[r], whole |-> FALSE, at |-> clock["host"] + 1]}
    /\ Goto(r, "fetching")
    /\ UNCHANGED <<second, holder, name, got, told, router, staged>>

NoConnection(r) ==
    /\ pc[r] = "opening"
    /\ Goto(r, "trimming umbs")
    /\ UNCHANGED <<second, clock, holder, name, got, told, router, host>>

(* Another run still writing to the file leaves it partial.  Nothing tells *)
(* a run that the clean-up of another removed its file meanwhile.          *)
Fetched(r) ==
    /\ pc[r] = "fetching"
    /\ got' = [got EXCEPT ![r] = TRUE]
    /\ Written("host")
    /\ began' = [began EXCEPT ![r] = @ + 1]
    /\ local' = Others(local, name[r])
          \union {[f EXCEPT !.at = clock["host"] + 1,
                            !.whole = @ \/ \A s \in Runs \ {r} :
                                             pc[s] = "fetching" => name[s] # name[r]] :
                   f \in local \ Others(local, name[r])}
    /\ Goto(r, "trimming umbs")
    /\ UNCHANGED <<second, holder, name, told, router, staged>>

(* Mutant: an aborted transfer counts as a download.                       *)
FetchAccepted(r) ==
    /\ pc[r] = "fetching"
    /\ local' = Others(local, name[r])
    /\ got' = [got EXCEPT ![r] = TRUE]
    /\ Goto(r, "trimming umbs")
    /\ UNCHANGED <<second, clock, holder, name, told, router, staged, began>>

(* _remove_partial_file, which may fail.                                   *)
FetchFails(r) ==
    /\ pc[r] = "fetching"
    /\ local' \in {local, Others(local, name[r])}
    /\ Goto(r, "trimming umbs")
    /\ UNCHANGED <<second, clock, holder, name, got, told, router, staged, began>>

(* Runs that clean up at once doom the same oldest files, so that one step *)
(* with any removal failing stands for every interleaving of their steps.  *)
TrimUmbs(r) ==
    /\ pc[r] = "trimming umbs"
    /\ \E gone \in SUBSET Doomed(umbs, RouterKeep) : umbs' = umbs \ gone
    /\ Goto(r, "pruning")
    /\ UNCHANGED <<second, clock, holder, name, got, told, onRouter, host>>

(* cleanup_old_files, and the result.                                      *)
Prune(r) ==
    /\ pc[r] = "pruning"
    /\ \E gone \in SUBSET Doomed(local, LocalKeep) : local' = local \ gone
    /\ told' = [told EXCEPT ![r] = IF got[r] THEN "downloaded" ELSE "created"]
    /\ got' = [got EXCEPT ![r] = FALSE]
    /\ began' = [began EXCEPT ![r] = 0]
    /\ Goto(r, AfterUserman(r))
    /\ UNCHANGED <<second, clock, holder, name, router, staged>>

(* An error of the save, an open circuit in the clean-up of the router or  *)
(* an OSError in that of the host, as when another run removes a file      *)
(* between isfile and getmtime: _cleanup_partial_file removes the file, or *)
(* fails to.                                                               *)
UsermanFails(r) ==
    /\ pc[r] \in {"dumping", "trimming umbs", "pruning"}
    /\ \/ UNCHANGED <<clock, umbs>>
       \/ pc[r] = "dumping" /\ WriteUmb(r)
    /\ local' \in {local, Others(local, name[r])}
    /\ told' = [told EXCEPT ![r] = "failed"]
    /\ got' = [got EXCEPT ![r] = FALSE]
    /\ began' = [began EXCEPT ![r] = 0]
    /\ Goto(r, AfterUserman(r))
    /\ UNCHANGED <<second, holder, name, onRouter, staged>>

-----------------------------------------------------------------------------
FullStep(r) ==
    \/ Acquire(r) \/ Busy(r) \/ Save(r) \/ Export(r) \/ Download(r)
    \/ Trim(r) \/ TrimExports(r) \/ FullFails(r)

UsermanStep(r) ==
    \/ Dump(r) \/ Push(r) \/ Move(r) \/ NotMoved(r) \/ Connect(r) \/ NoConnection(r)
    \/ Fetched(r) \/ FetchFails(r) \/ TrimUmbs(r) \/ Prune(r) \/ UsermanFails(r)

Next ==
    \/ \E r \in Runs : BeginUserman(r) \/ BeginFull(r) \/ FullStep(r) \/ UsermanStep(r)
    \/ Tick \/ Crash

(* Commands, transfers and connections have time-outs; nobody has to ask   *)
(* for a backup.                                                           *)
Fairness == \A r \in Runs : WF_vars(FullStep(r) \/ UsermanStep(r))

Spec == Init /\ [][Next]_vars
FairSpec == Spec /\ Fairness

-----------------------------------------------------------------------------
(* Types; a name stands for one file of the router and one of the host.    *)
TypeOK ==
    /\ second \in 1 .. Seconds
    /\ clock \in [Places -> Nat]
    /\ pc \in [Runs -> UmSteps \union FullSteps \union {"idle", "locking"}]
    /\ name \in [Runs -> 0 .. Seconds]
    /\ got \in [Runs -> BOOLEAN]
    /\ told \in [Runs -> {"none", "busy", "failed", "lost", "created", "downloaded"}]
    /\ onRouter \subseteq [part : Parts, run : Runs \union {Nobody}, at : -1 .. clock["router"]]
    /\ umbs \subseteq [name : 1 .. Seconds, at : 0 .. clock["umbs"]]
    /\ staged \subseteq [name : 1 .. Seconds, at : 0 .. clock["host"]]
    /\ began \in [Runs -> 0 .. clock["host"]]
    /\ local \subseteq [name : 0 .. Seconds, whole : BOOLEAN, at : 0 .. clock["host"]]
    /\ \A f, g \in umbs : f.name = g.name => f = g
    /\ \A f, g \in local : f.name = g.name => f = g

(* full_backup under its lock: at most one full run of the router is under *)
(* way, and the lock never outlives it.                                    *)
LockHeldByRun ==
    \A r \in Runs : holder = r <=> pc[r] \in FullSteps

Has(r, part) == \E f \in onRouter : f.run = r /\ f.part = part

(* A full backup reported as created is whole: both of its files are on    *)
(* the router when the result is given, whatever other runs, failed        *)
(* removals and crashes left there.                                        *)
PairReported ==
    [][\A r \in Runs : pc[r] \in FullSteps /\ told'[r] = "created" /\ told[r] # "created"
          => Has(r, "backup")' /\ Has(r, "rsc")']_vars

SharesName(r) == \E s \in Runs \ {r} : name[s] = name[r]

(* A User Manager backup reported as downloaded is on the host, complete,  *)
(* unless two runs named their files in the same second, or retention took *)
(* it: the host began or finished LocalKeep files of others since it began *)
(* to write this one.                                                      *)
DownloadReported ==
    [][\A r \in Runs : pc[r] = "pruning" /\ told'[r] = "downloaded" /\ ~SharesName(r)
          => \/ \E f \in local' : f.name = name[r] /\ f.whole
             \/ clock["host"] - began[r] >= LocalKeep]_vars

(* A backup that fails or hangs on its time-outs never blocks later ones.  *)
LockReleased == \A r \in Runs : holder = r ~> holder # r
=============================================================================
