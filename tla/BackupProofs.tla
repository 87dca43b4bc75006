---------------------------- MODULE BackupProofs ----------------------------
(***************************************************************************)
(* What holds of the backups of a router for any number of overlapping     *)
(* runs: the types, the lock of full_backup, and that a full backup that   *)
(* is reported as created has both of its files on the router.             *)
(***************************************************************************)
EXTENDS Backup, FiniteSetTheorems, TLAPS

-----------------------------------------------------------------------------
(* Types.                                                                  *)
Files ==
    /\ clock \in [Places -> Nat]
    /\ onRouter \subseteq [part : Parts, run : Runs \union {Nobody}, at : -1 .. clock["router"]]
    /\ umbs \subseteq [name : 1 .. Seconds, at : 0 .. clock["umbs"]]
    /\ local \subseteq [name : 0 .. Seconds, whole : BOOLEAN, at : 0 .. clock["host"]]
    /\ staged \subseteq [name : 1 .. Seconds, at : 0 .. clock["host"]]
    /\ began \in [Runs -> 0 .. clock["host"]]

RunsOK ==
    /\ pc \in [Runs -> UmSteps \union FullSteps \union {"idle", "locking"}]
    /\ got \in [Runs -> BOOLEAN]
    /\ told \in [Runs -> {"none", "busy", "failed", "lost", "created", "downloaded"}]

(* A run under way has a name.                                             *)
NamesOK ==
    /\ second \in 1 .. Seconds
    /\ name \in [Runs -> 0 .. Seconds]
    /\ \A r \in Runs : pc[r] \in UmSteps => name[r] \in 1 .. Seconds

Single ==
    /\ \A f, g \in umbs : f.name = g.name => f = g
    /\ \A f, g \in local : f.name = g.name => f = g

Inv == Files /\ RunsOK /\ NamesOK /\ Single

LEMMA InvInit == Init => Inv
<1> SUFFICES ASSUME Init PROVE Inv
  OBVIOUS
<1>0. local \subseteq {[name |-> 0, whole |-> TRUE, at |-> 0]}
  BY DEF Init
<1>1. Files
  <2>1. clock \in [Places -> Nat] /\ clock["router"] = 0 /\ clock["umbs"] = 0 /\ clock["host"] = 0
    BY DEF Init, Places
  <2>2. onRouter \subseteq [part : Parts, run : Runs \union {Nobody}, at : -1 .. 0]
    BY DEF Init, Parts
  <2>3. [name |-> 0, whole |-> TRUE, at |-> 0] \in [name : 0 .. Seconds, whole : BOOLEAN, at : 0 .. 0]
    BY SecondsAssumption
  <2>4. umbs = {} /\ staged = {} /\ began \in [Runs -> 0 .. 0]
    BY DEF Init
  <2> QED
    BY <1>0, <2>1, <2>2, <2>3, <2>4 DEF Files
<1>2. RunsOK
  BY DEF Init, RunsOK
<1>3. NamesOK
  BY SecondsAssumption DEF Init, NamesOK, UmSteps
<1>4. Single
  BY <1>0 DEF Init, Single
<1> QED
  BY <1>1, <1>2, <1>3, <1>4 DEF Inv

LEMMA RunsNext == Inv /\ [Next]_vars => RunsOK'
<1> SUFFICES ASSUME Inv, [Next]_vars PROVE RunsOK'
  OBVIOUS
<1> USE DEF Inv, RunsOK, Goto
<1>1. ASSUME NEW r \in Runs, BeginUserman(r) \/ BeginFull(r) PROVE RunsOK'
  BY <1>1 DEF BeginUserman, BeginFull, UmSteps
<1>2. ASSUME NEW r \in Runs, FullStep(r) PROVE RunsOK'
  BY <1>2 DEF FullStep, Acquire, Busy, Save, Export, Download, Trim, TrimExports, FullFails,
              FullSteps
<1>3. ASSUME NEW r \in Runs, UsermanStep(r) PROVE RunsOK'
  <2>1. AfterUserman(r) \in {"idle", "locking"}
    BY DEF AfterUserman
  <2> QED
    BY <1>3, <2>1 DEF UsermanStep, Dump, Push, Move, NotMoved, Connect, NoConnection,
              Fetched, FetchFails, TrimUmbs, Prune, UsermanFails, UmSteps
<1>4. CASE Tick
  BY <1>4 DEF Tick
<1>5. CASE Crash
  <2>1. pc' \in [Runs -> {"idle"}] /\ got' \in [Runs -> BOOLEAN]
    BY <1>5 DEF Crash
  <2>2. told' = [r \in Runs |-> IF pc[r] = "idle" THEN told[r] ELSE "lost"]
    BY <1>5 DEF Crash
  <2> QED
    BY <2>1, <2>2
<1>6. CASE UNCHANGED vars
  BY <1>6 DEF vars
<1> QED
  BY <1>1, <1>2, <1>3, <1>4, <1>5, <1>6 DEF Next

LEMMA NamesNext == Inv /\ [Next]_vars => NamesOK'
<1> SUFFICES ASSUME Inv, [Next]_vars PROVE NamesOK'
  OBVIOUS
<1> USE SecondsAssumption DEF Inv, RunsOK, NamesOK, Goto
<1>1. ASSUME NEW r \in Runs, BeginUserman(r) PROVE NamesOK'
  <2>1. name'[r] \in 1 .. Seconds /\ name' \in [Runs -> 0 .. Seconds]
    BY <1>1 DEF BeginUserman
  <2>2. \A s \in Runs \ {r} : pc'[s] = pc[s] /\ name'[s] = name[s]
    BY <1>1 DEF BeginUserman
  <2>3. second' = second
    BY <1>1 DEF BeginUserman
  <2> QED
    BY <2>1, <2>2, <2>3
<1>2. ASSUME NEW r \in Runs, BeginFull(r) \/ FullStep(r) PROVE NamesOK'
  <2>1. second' = second /\ name' = name
    BY <1>2 DEF BeginFull, FullStep, Acquire, Busy, Save, Export, Download, Trim, TrimExports,
                FullFails
  <2>2. \A s \in Runs : pc'[s] \in UmSteps => pc[s] \in UmSteps
    BY <1>2 DEF BeginFull, FullStep, Acquire, Busy, Save, Export, Download, Trim, TrimExports,
                FullFails, UmSteps
  <2> QED
    BY <2>1, <2>2
<1>3. ASSUME NEW r \in Runs, UsermanStep(r) PROVE NamesOK'
  <2>1. AfterUserman(r) \in {"idle", "locking"}
    BY DEF AfterUserman
  <2>2. pc[r] \in UmSteps
    BY <1>3 DEF UsermanStep, Dump, Push, Move, NotMoved, Connect, NoConnection,
              Fetched, FetchFails, TrimUmbs, Prune, UsermanFails, UmSteps
  <2>3. second' = second /\ name' = name
    BY <1>3 DEF UsermanStep, Dump, Push, Move, NotMoved, Connect, NoConnection,
              Fetched, FetchFails, TrimUmbs, Prune, UsermanFails
  <2>4. \A s \in Runs : pc'[s] \in UmSteps => pc[s] \in UmSteps
    BY <1>3, <2>1, <2>2 DEF UsermanStep, Dump, Push, Move, NotMoved, Connect, NoConnection,
              Fetched, FetchFails, TrimUmbs, Prune, UsermanFails, UmSteps
  <2> QED
    BY <2>2, <2>3, <2>4
<1>4. CASE Tick
  <2>1. second' \in 1 .. Seconds
    BY <1>4 DEF Tick
  <2>2. pc' = pc /\ name' = name
    BY <1>4 DEF Tick
  <2> QED
    BY <2>1, <2>2
<1>6. CASE Crash
  <2>1. \A r \in Runs : pc'[r] \notin UmSteps
    BY <1>6 DEF Crash, UmSteps
  <2>2. second' = second /\ name' = name
    BY <1>6 DEF Crash
  <2> QED
    BY <2>1, <2>2
<1>5. CASE UNCHANGED vars
  BY <1>5 DEF vars
<1> QED
  BY <1>1, <1>2, <1>3, <1>4, <1>5, <1>6 DEF Next

(* What the steps that write or remove files do to each directory.         *)
LEMMA WritesRouter ==
    ASSUME Files, NEW r \in Runs, NEW part \in Parts, Write(r, part)
    PROVE  /\ clock' \in [Places -> Nat] /\ clock'["router"] = clock["router"] + 1
           /\ clock'["umbs"] = clock["umbs"] /\ clock'["host"] = clock["host"]
           /\ onRouter' \subseteq
                 [part : Parts, run : Runs \union {Nobody}, at : -1 .. clock'["router"]]
<1>1. /\ clock' \in [Places -> Nat] /\ clock'["router"] = clock["router"] + 1
      /\ clock'["umbs"] = clock["umbs"] /\ clock'["host"] = clock["host"]
  BY DEF Write, Written, Files, Places
<1>2. clock["router"] \in Nat
  BY DEF Files, Places
<1>3. [part |-> part, run |-> r, at |-> clock["router"] + 1] \in
         [part : Parts, run : Runs \union {Nobody}, at : -1 .. clock'["router"]]
  BY <1>1, <1>2
<1>4. \A f \in onRouter :
         f \in [part : Parts, run : Runs \union {Nobody}, at : -1 .. clock'["router"]]
  <2> SUFFICES ASSUME NEW f \in onRouter
               PROVE  f \in [part : Parts, run : Runs \union {Nobody}, at : -1 .. clock'["router"]]
    OBVIOUS
  <2>1. f \in [part : Parts, run : Runs \union {Nobody}, at : -1 .. clock["router"]]
    BY DEF Files
  <2>2. -1 .. clock["router"] \subseteq -1 .. clock'["router"]
    BY <1>1, <1>2
  <2> QED
    BY <2>1, <2>2
<1> QED
  BY <1>1, <1>3, <1>4 DEF Write

LEMMA WritesUmbs ==
    ASSUME Files, NEW r \in Runs, name[r] \in 1 .. Seconds, WriteUmb(r)
    PROVE  /\ clock' \in [Places -> Nat] /\ clock'["umbs"] = clock["umbs"] + 1
           /\ clock'["router"] = clock["router"] /\ clock'["host"] = clock["host"]
           /\ umbs' \subseteq [name : 1 .. Seconds, at : 0 .. clock'["umbs"]]
<1>1. /\ clock' \in [Places -> Nat] /\ clock'["umbs"] = clock["umbs"] + 1
      /\ clock'["router"] = clock["router"] /\ clock'["host"] = clock["host"]
  BY DEF WriteUmb, Written, Files, Places
<1>2. clock["umbs"] \in Nat
  BY DEF Files, Places
<1>3. [name |-> name[r], at |-> clock["umbs"] + 1] \in [name : 1 .. Seconds, at : 0 .. clock'["umbs"]]
  BY <1>1, <1>2
<1>4. \A f \in umbs : f \in [name : 1 .. Seconds, at : 0 .. clock'["umbs"]]
  <2> SUFFICES ASSUME NEW f \in umbs PROVE f \in [name : 1 .. Seconds, at : 0 .. clock'["umbs"]]
    OBVIOUS
  <2>1. f \in [name : 1 .. Seconds, at : 0 .. clock["umbs"]]
    BY DEF Files
  <2>2. 0 .. clock["umbs"] \subseteq 0 .. clock'["umbs"]
    BY <1>1, <1>2
  <2> QED
    BY <2>1, <2>2
<1> QED
  BY <1>1, <1>3, <1>4 DEF WriteUmb, Others

LEMMA WritesHost ==
    ASSUME Files, Written("host")
    PROVE  /\ clock' \in [Places -> Nat] /\ clock'["host"] = clock["host"] + 1
           /\ clock'["router"] = clock["router"] /\ clock'["umbs"] = clock["umbs"]
           /\ clock["host"] \in Nat
           /\ local \subseteq [name : 0 .. Seconds, whole : BOOLEAN, at : 0 .. clock'["host"]]
           /\ staged \subseteq [name : 1 .. Seconds, at : 0 .. clock'["host"]]
           /\ began \in [Runs -> 0 .. clock'["host"]]
<1>1. /\ clock' \in [Places -> Nat] /\ clock'["host"] = clock["host"] + 1
      /\ clock'["router"] = clock["router"] /\ clock'["umbs"] = clock["umbs"]
      /\ clock["host"] \in Nat
  BY DEF Written, Files, Places
<1>2. 0 .. clock["host"] \subseteq 0 .. clock'["host"]
  BY <1>1
<1>3. \A f \in local : f \in [name : 0 .. Seconds, whole : BOOLEAN, at : 0 .. clock'["host"]]
  <2> SUFFICES ASSUME NEW f \in local
               PROVE  f \in [name : 0 .. Seconds, whole : BOOLEAN, at : 0 .. clock'["host"]]
    OBVIOUS
  <2>1. f \in [name : 0 .. Seconds, whole : BOOLEAN, at : 0 .. clock["host"]]
    BY DEF Files
  <2> QED
    BY <1>2, <2>1
<1>4. \A f \in staged : f \in [name : 1 .. Seconds, at : 0 .. clock'["host"]]
  <2> SUFFICES ASSUME NEW f \in staged PROVE f \in [name : 1 .. Seconds, at : 0 .. clock'["host"]]
    OBVIOUS
  <2>1. f \in [name : 1 .. Seconds, at : 0 .. clock["host"]]
    BY DEF Files
  <2> QED
    BY <1>2, <2>1
<1>5. began \in [Runs -> 0 .. clock'["host"]]
  BY <1>2 DEF Files
<1> QED
  BY <1>1, <1>3, <1>4, <1>5

(* What a finished transfer leaves: its file, if it is still there, dated. *)
FetchedFile(r, f) ==
    [f EXCEPT !.at = clock["host"] + 1,
              !.whole = @ \/ \A s \in Runs \ {r} : pc[s] = "fetching" => name[s] # name[r]]

LEMMA FetchedOnce ==
    ASSUME Files, Single, NEW r \in Runs, Fetched(r)
    PROVE  \/ /\ \A f \in local : f.name # name[r]
              /\ local' = Others(local, name[r])
           \/ \E f \in local :
                 /\ f.name = name[r]
                 /\ local' = Others(local, name[r]) \union {FetchedFile(r, f)}
<1>1. local' = Others(local, name[r])
                  \union {FetchedFile(r, f) : f \in local \ Others(local, name[r])}
  BY DEF Fetched, FetchedFile
<1>2. CASE \A f \in local : f.name # name[r]
  <2>1. Others(local, name[r]) = local
    BY <1>2 DEF Others
  <2> QED
    BY <1>1, <1>2, <2>1
<1>3. CASE \E f \in local : f.name = name[r]
  <2>1. PICK f \in local : f.name = name[r]
    BY <1>3
  <2>2. local \ Others(local, name[r]) = {f}
    BY <2>1 DEF Others, Single
  <2>3. {FetchedFile(r, g) : g \in {f}} = {FetchedFile(r, f)}
    OBVIOUS
  <2> QED
    BY <1>1, <2>1, <2>2, <2>3
<1> QED
  BY <1>2, <1>3

LEMMA FetchedFileType ==
    ASSUME Files, NEW r \in Runs, NEW f \in local
    PROVE  /\ FetchedFile(r, f) \in
                 [name : 0 .. Seconds, whole : BOOLEAN, at : 0 .. clock["host"] + 1]
           /\ FetchedFile(r, f).name = f.name /\ FetchedFile(r, f).at = clock["host"] + 1
           /\ (\A s \in Runs \ {r} : name[s] # name[r]) => FetchedFile(r, f).whole
<1>1. f \in [name : 0 .. Seconds, whole : BOOLEAN, at : 0 .. clock["host"]] /\ clock["host"] \in Nat
  BY DEF Files, Places
<1>2. clock["host"] + 1 \in 0 .. clock["host"] + 1
  BY <1>1
<1> QED
  BY <1>1, <1>2 DEF FetchedFile

-----------------------------------------------------------------------------
(* Steps that write to one directory, or to none.                          *)
LEMMA RouterSteps ==
    ASSUME Files, NEW r \in Runs, Save(r) \/ Export(r) \/ FullFails(r)
    PROVE  Files' /\ umbs' = umbs /\ local' = local
<1>1. umbs' = umbs /\ local' = local /\ staged' = staged /\ began' = began
  BY DEF Save, Export, FullFails, host
<1>2. (UNCHANGED <<clock, onRouter>>) \/ \E part \in Parts : Write(r, part)
  BY DEF Save, Export, FullFails, Parts
<1>3. CASE UNCHANGED <<clock, onRouter>>
  BY <1>1, <1>3 DEF Files
<1>4. CASE \E part \in Parts : Write(r, part)
  BY <1>1, <1>4, WritesRouter DEF Files
<1> QED
  BY <1>2, <1>3, <1>4, <1>1

LEMMA UmbSteps ==
    ASSUME Files, NamesOK, Single, NEW r \in Runs, Dump(r) \/ UsermanFails(r)
    PROVE  Files' /\ Single'
<1>1. name[r] \in 1 .. Seconds
  BY DEF NamesOK, Dump, UsermanFails, UmSteps
<1>2. onRouter' = onRouter /\ local' \subseteq local /\ staged' = staged
  BY DEF Dump, UsermanFails, host, Others
<1>2a. began' \in [Runs -> 0 .. clock["host"]]
  <2>1. 0 \in 0 .. clock["host"]
    BY DEF Files, Places
  <2> QED
    BY <2>1 DEF Dump, UsermanFails, host, Files
<1>3. (UNCHANGED <<clock, umbs>>) \/ WriteUmb(r)
  BY DEF Dump, UsermanFails
<1>4. CASE UNCHANGED <<clock, umbs>>
  BY <1>2, <1>2a, <1>4 DEF Files, Single
<1>5. CASE WriteUmb(r)
  <2>1. Files'
    BY <1>1, <1>2, <1>2a, <1>5, WritesUmbs DEF Files
  <2>2. \A f, g \in umbs' : f.name = g.name => f = g
    BY <1>5 DEF WriteUmb, Others, Single
  <2> QED
    BY <1>2, <2>1, <2>2 DEF Single
<1> QED
  BY <1>3, <1>4, <1>5

LEMMA HostSteps ==
    ASSUME Files, NamesOK, Single, NEW r \in Runs, Push(r) \/ Move(r) \/ Connect(r) \/ Fetched(r)
    PROVE  Files' /\ Single'
<1> DEFINE LocalType(c) == [name : 0 .. Seconds, whole : BOOLEAN, at : 0 .. c]
<1>0. name[r] \in 1 .. Seconds /\ name[r] \in 0 .. Seconds
  BY SecondsAssumption DEF NamesOK, Push, Move, Connect, Fetched, UmSteps
<1>1. onRouter' = onRouter /\ umbs' = umbs
  BY DEF Push, Move, Connect, Fetched, router
<1>2. clock["host"] \in Nat /\ clock["host"] + 1 \in 0 .. clock["host"] + 1
  BY DEF Files, Places
<1>3. ASSUME Written("host"), local' \subseteq LocalType(clock["host"] + 1),
             staged' \subseteq [name : 1 .. Seconds, at : 0 .. clock["host"] + 1],
             began' \in [Runs -> 0 .. clock["host"] + 1]
      PROVE  Files'
  BY <1>1, <1>3, WritesHost DEF Files
<1>4. CASE Push(r) /\ Upload(r)
  <2>1. Written("host") /\ local' = local
    BY <1>4 DEF Push, Upload, Begins
  <2>2. [name |-> name[r], at |-> clock["host"] + 1]
           \in [name : 1 .. Seconds, at : 0 .. clock["host"] + 1]
    BY <1>0, <1>2
  <2>3. staged' \subseteq [name : 1 .. Seconds, at : 0 .. clock["host"] + 1]
    BY <1>4, <2>1, <2>2, WritesHost DEF Upload, Others
  <2>4. began' \in [Runs -> 0 .. clock["host"] + 1]
    BY <1>2, <1>4, <2>1, WritesHost DEF Upload, Begins
  <2> QED
    BY <1>1, <1>3, <2>1, <2>3, <2>4, WritesHost DEF Single
<1>5. CASE Push(r) /\ UNCHANGED <<clock, staged, began>>
  BY <1>1, <1>5 DEF Push, Files, Single
<1>6. CASE Move(r)
  <2>1. PICK f \in staged :
           /\ f.name = name[r]
           /\ staged' = staged \ {f}
           /\ local' = Others(local, name[r]) \union {[name |-> name[r], whole |-> TRUE, at |-> f.at]}
    BY <1>6 DEF Move
  <2>2. f.at \in 0 .. clock["host"]
    BY DEF Files
  <2>3. [name |-> name[r], whole |-> TRUE, at |-> f.at] \in LocalType(clock["host"])
    BY <1>0, <2>2
  <2>4. Files'
    BY <1>1, <1>6, <2>1, <2>3 DEF Move, Files, Others
  <2> DEFINE new == [name |-> name[r], whole |-> TRUE, at |-> f.at]
  <2>5. new.name = name[r] /\ local' = Others(local, name[r]) \union {new}
    BY <2>1
  <2> HIDE DEF new
  <2>6. \A g, h \in local' : g.name = h.name => g = h
    BY <2>5 DEF Single, Others
  <2> QED
    BY <1>1, <2>4, <2>6 DEF Single
<1>7. CASE Connect(r)
  <2> DEFINE new == [name |-> name[r], whole |-> FALSE, at |-> clock["host"] + 1]
  <2>1. Written("host") /\ staged' = staged /\ local' = Others(local, name[r]) \union {new}
    BY <1>7 DEF Connect, Begins
  <2>2. new \in LocalType(clock["host"] + 1) /\ new.name = name[r]
    BY <1>0, <1>2
  <2> HIDE DEF new
  <2>3. local' \subseteq LocalType(clock["host"] + 1)
    BY <2>1, <2>2, WritesHost DEF Others
  <2>4. began' \in [Runs -> 0 .. clock["host"] + 1]
    BY <1>2, <1>7, <2>1, WritesHost DEF Connect, Begins
  <2>5. staged' \subseteq [name : 1 .. Seconds, at : 0 .. clock["host"] + 1]
    BY <2>1, WritesHost
  <2>6. \A f, g \in local' : f.name = g.name => f = g
    BY <2>1, <2>2 DEF Single, Others
  <2> QED
    BY <1>1, <1>3, <2>1, <2>3, <2>4, <2>5, <2>6 DEF Single
<1>8. CASE Fetched(r)
  <2>1. Written("host") /\ staged' = staged
    BY <1>8 DEF Fetched
  <2>2. began' \in [Runs -> 0 .. clock["host"] + 1]
    <3>1. began[r] + 1 \in 0 .. clock["host"] + 1
      BY <1>2 DEF Files
    <3> QED
      BY <1>8, <2>1, <3>1, WritesHost DEF Fetched
  <2>3. /\ local' \subseteq LocalType(clock["host"] + 1)
        /\ \A f, g \in local' : f.name = g.name => f = g
    <3>1. Others(local, name[r]) \subseteq LocalType(clock["host"] + 1)
      BY <2>1, WritesHost DEF Others
    <3>2. CASE local' = Others(local, name[r])
      BY <3>1, <3>2 DEF Others, Single
    <3>3. ASSUME NEW f \in local, f.name = name[r],
                 local' = Others(local, name[r]) \union {FetchedFile(r, f)}
          PROVE  /\ local' \subseteq LocalType(clock["host"] + 1)
                 /\ \A g, h \in local' : g.name = h.name => g = h
      BY <3>1, <3>3, FetchedFileType DEF Others, Single
    <3> QED
      BY <1>8, <3>2, <3>3, FetchedOnce
  <2>4. staged' \subseteq [name : 1 .. Seconds, at : 0 .. clock["host"] + 1]
    BY <2>1, WritesHost
  <2> QED
    BY <1>1, <1>3, <2>1, <2>2, <2>3, <2>4 DEF Single
<1> QED
  BY <1>4, <1>5, <1>6, <1>7, <1>8 DEF Push

LEMMA RemovingSteps ==
    ASSUME Files, Single, clock' = clock, onRouter' \subseteq onRouter, umbs' \subseteq umbs,
           local' \subseteq local, staged' \subseteq staged,
           began' = began \/ (\E r \in Runs : began' = [began EXCEPT ![r] = 0])
           \/ began' = [r \in Runs |-> 0]
    PROVE  Files' /\ Single'
<1>1. 0 \in 0 .. clock["host"]
  BY DEF Files, Places
<1>2. began' \in [Runs -> 0 .. clock["host"]]
  BY <1>1 DEF Files
<1> QED
  BY <1>2 DEF Files, Single

LEMMA FilesNext == Inv /\ [Next]_vars => Files' /\ Single'
<1> SUFFICES ASSUME Inv, [Next]_vars PROVE Files' /\ Single'
  OBVIOUS
<1> USE DEF Inv
<1>1. ASSUME NEW r \in Runs, FullStep(r) PROVE Files' /\ Single'
  <2>1. CASE Save(r) \/ Export(r) \/ FullFails(r)
    BY <2>1, RouterSteps DEF Single
  <2>2. CASE Acquire(r) \/ Busy(r) \/ Download(r)
    BY <2>2, RemovingSteps DEF Acquire, Busy, Download, router, host
  <2>3. CASE Trim(r) \/ TrimExports(r)
    BY <2>3, RemovingSteps DEF Trim, TrimExports, host
  <2> QED
    BY <1>1, <2>1, <2>2, <2>3 DEF FullStep
<1>2. ASSUME NEW r \in Runs, UsermanStep(r) PROVE Files' /\ Single'
  <2>1. CASE Dump(r) \/ UsermanFails(r)
    BY <2>1, UmbSteps
  <2>2. CASE Push(r) \/ Move(r) \/ Connect(r) \/ Fetched(r)
    BY <2>2, HostSteps
  <2>4. CASE NotMoved(r) \/ NoConnection(r)
    BY <2>4, RemovingSteps DEF NotMoved, NoConnection, router, host
  <2>5. CASE FetchFails(r) \/ TrimUmbs(r) \/ Prune(r)
    BY <2>5, RemovingSteps DEF FetchFails, TrimUmbs, Prune, Others, router, host
  <2> QED
    BY <1>2, <2>1, <2>2, <2>4, <2>5 DEF UsermanStep
<1>3. CASE \E r \in Runs : BeginUserman(r) \/ BeginFull(r)
  BY <1>3, RemovingSteps DEF BeginUserman, BeginFull, router, host
<1>4. CASE Tick \/ Crash
  BY <1>4, RemovingSteps DEF Tick, Crash, router, host
<1>5. CASE UNCHANGED vars
  BY <1>5, RemovingSteps DEF vars, host
<1> QED
  BY <1>1, <1>2, <1>3, <1>4, <1>5 DEF Next

(* Types, and one file per name on the router and on the host.             *)
THEOREM BackupTypeCorrect == Spec => []TypeOK
<1>1. Inv /\ [Next]_vars => Inv'
  BY RunsNext, NamesNext, FilesNext DEF Inv
<1>2. Inv => TypeOK
  BY DEF Inv, Files, RunsOK, NamesOK, Single, TypeOK
<1> QED
  BY <1>1, <1>2, InvInit, PTL DEF Spec

-----------------------------------------------------------------------------
(* The lock.                                                               *)
LEMMA LockInit == Init => LockHeldByRun
BY RunsAssumption DEF Init, LockHeldByRun, FullSteps

(* What happens outside of the lock's region leaves both alone.            *)
LEMMA LockFrame ==
    ASSUME LockHeldByRun, holder' = holder,
           \A r \in Runs : pc'[r] \in FullSteps <=> pc[r] \in FullSteps
    PROVE  LockHeldByRun'
BY DEF LockHeldByRun

LEMMA UsermanOutside ==
    ASSUME Inv, NEW r \in Runs, BeginUserman(r) \/ BeginFull(r) \/ UsermanStep(r)
    PROVE  /\ holder' = holder /\ onRouter' = onRouter
           /\ pc[r] \notin FullSteps /\ pc'[r] \notin FullSteps
           /\ \A s \in Runs \ {r} : pc'[s] = pc[s]
<1>1. AfterUserman(r) \in {"idle", "locking"}
  BY DEF AfterUserman
<1>2. holder' = holder /\ onRouter' = onRouter
  BY DEF BeginUserman, BeginFull, UsermanStep, Dump, Push, Move, NotMoved, Connect,
         NoConnection, Fetched, FetchFails, TrimUmbs, Prune, UsermanFails, router
<1>3. PICK l \in UmSteps \union {"idle", "locking"} : Goto(r, l)
  BY <1>1 DEF BeginUserman, BeginFull, UsermanStep, Dump, Push, Move, NotMoved, Connect,
         NoConnection, Fetched, FetchFails, TrimUmbs, Prune, UsermanFails, UmSteps
<1>4. pc[r] \in UmSteps \union {"idle"}
  BY DEF BeginUserman, BeginFull, UsermanStep, Dump, Push, Move, NotMoved, Connect,
         NoConnection, Fetched, FetchFails, TrimUmbs, Prune, UsermanFails, UmSteps
<1>5. pc'[r] = l /\ \A s \in Runs \ {r} : pc'[s] = pc[s]
  BY <1>3 DEF Goto, Inv, RunsOK
<1> QED
  BY <1>2, <1>3, <1>4, <1>5 DEF UmSteps, FullSteps

LEMMA LockNext == Inv /\ LockHeldByRun /\ [Next]_vars => LockHeldByRun'
<1> SUFFICES ASSUME Inv, LockHeldByRun, [Next]_vars PROVE LockHeldByRun'
  OBVIOUS
<1>1. ASSUME NEW r \in Runs, BeginUserman(r) \/ BeginFull(r) \/ UsermanStep(r)
      PROVE  LockHeldByRun'
  BY <1>1, UsermanOutside, LockFrame
<1>2. ASSUME NEW r \in Runs, FullStep(r) PROVE LockHeldByRun'
  <2>1. CASE Acquire(r)
    <3>1. holder' = r /\ pc'[r] \in FullSteps /\ \A s \in Runs \ {r} : pc'[s] = pc[s]
      BY <2>1 DEF Acquire, Goto, Inv, RunsOK, FullSteps
    <3>2. \A s \in Runs : pc[s] \notin FullSteps
      BY <2>1, RunsAssumption DEF Acquire, LockHeldByRun
    <3> QED
      BY <3>1, <3>2 DEF LockHeldByRun
  <2>2. CASE Busy(r)
    BY <2>2, LockFrame DEF Busy, Goto, Inv, RunsOK, FullSteps
  <2>3. CASE Save(r) \/ Export(r) \/ Download(r) \/ Trim(r)
    BY <2>3, LockFrame DEF Save, Export, Download, Trim, Goto, Inv, RunsOK, FullSteps
  <2>4. CASE TrimExports(r) \/ FullFails(r)
    <3>1. holder = r /\ \A s \in Runs \ {r} : pc[s] \notin FullSteps
      BY <2>4 DEF TrimExports, FullFails, LockHeldByRun, FullSteps
    <3>2. holder' = Nobody /\ pc'[r] \notin FullSteps /\ \A s \in Runs \ {r} : pc'[s] = pc[s]
      BY <2>4 DEF TrimExports, FullFails, Goto, Inv, RunsOK, FullSteps
    <3> QED
      BY <3>1, <3>2, RunsAssumption DEF LockHeldByRun
  <2> QED
    BY <1>2, <2>1, <2>2, <2>3, <2>4 DEF FullStep
<1>3. CASE Tick
  BY <1>3, LockFrame DEF Tick
<1>4. CASE Crash
  BY <1>4, RunsAssumption DEF Crash, LockHeldByRun, FullSteps
<1>5. CASE UNCHANGED vars
  BY <1>5, LockFrame DEF vars
<1> QED
  BY <1>1, <1>2, <1>3, <1>4, <1>5 DEF Next

(* At most one full run of the router is under way and the lock never      *)
(* outlives it, however many runs overlap and wherever the process dies.   *)
THEOREM LockSound == Spec => []LockHeldByRun
<1>1. Inv /\ [Next]_vars => Inv'
  BY RunsNext, NamesNext, FilesNext DEF Inv
<1> QED
  BY <1>1, InvInit, LockInit, LockNext, PTL DEF Spec

-----------------------------------------------------------------------------
(* The pair.  Only the holder of the lock writes a full file, so that its  *)
(* own files are the newest there are, and clean-up spares the newest two. *)
IsPart(f, r, part) == f.run = r /\ f.part = part

SavedNewest(r) ==
    \E f \in onRouter : IsPart(f, r, "backup") /\ \A g \in onRouter : ~(g.at > f.at)

PairNewest(r) ==
    \E f, h \in onRouter :
       /\ IsPart(f, r, "backup") /\ IsPart(h, r, "rsc")
       /\ \A g \in onRouter : ~(g.at > h.at) /\ (g.at > f.at => g = h)

PairInv ==
    \A r \in Runs :
       /\ pc[r] = "exporting" => SavedNewest(r)
       /\ pc[r] \in {"downloading", "trimming", "trimming exports"} => PairNewest(r)

LEMMA DoomedSpares ==
    ASSUME NEW files, NEW keep \in Nat, keep >= 2, NEW f, NEW h,
           \A g \in files : g.at > f.at => g = h
    PROVE  f \notin Doomed(files, keep)
<1> DEFINE newer == {g \in files : g.at > f.at}
<1>1. newer \subseteq {h}
  OBVIOUS
<1>2. IsFiniteSet({h}) /\ Cardinality({h}) = 1
  BY FS_Singleton
<1>3. Cardinality(newer) \in Nat /\ Cardinality(newer) <= 1
  BY <1>1, <1>2, FS_Subset, FS_CardinalityType
<1>4. ~(Cardinality(newer) >= keep)
  BY <1>3
<1> QED
  BY <1>4 DEF Doomed

LEMMA SameFiles ==
    ASSUME onRouter' = onRouter, NEW r \in Runs
    PROVE  /\ SavedNewest(r) => SavedNewest(r)'
           /\ PairNewest(r) => PairNewest(r)'
<1>1. ASSUME SavedNewest(r) PROVE SavedNewest(r)'
  <2>1. PICK f \in onRouter : IsPart(f, r, "backup") /\ \A g \in onRouter : ~(g.at > f.at)
    BY <1>1 DEF SavedNewest
  <2> QED
    BY <2>1 DEF SavedNewest, IsPart
<1>2. ASSUME PairNewest(r) PROVE PairNewest(r)'
  <2>1. PICK f \in onRouter, h \in onRouter :
           /\ IsPart(f, r, "backup") /\ IsPart(h, r, "rsc")
           /\ \A g \in onRouter : ~(g.at > h.at) /\ (g.at > f.at => g = h)
    BY <1>2 DEF PairNewest
  <2> QED
    BY <2>1 DEF PairNewest, IsPart
<1> QED
  BY <1>1, <1>2

LEMMA PairFrame ==
    ASSUME PairInv, onRouter' = onRouter,
           \A r \in Runs : pc'[r] = pc[r] \/ pc'[r] \notin FullSteps
    PROVE  PairInv'
<1> SUFFICES ASSUME NEW r \in Runs
             PROVE  /\ pc'[r] = "exporting" => SavedNewest(r)'
                    /\ pc'[r] \in {"downloading", "trimming", "trimming exports"} => PairNewest(r)'
  BY DEF PairInv
<1>1. CASE pc'[r] = pc[r]
  BY <1>1, SameFiles DEF PairInv
<1>2. CASE pc'[r] \notin FullSteps
  BY <1>2 DEF FullSteps
<1> QED
  BY <1>1, <1>2

LEMMA TrimKeepsPair ==
    ASSUME NEW r \in Runs, PairNewest(r), Trim(r) \/ TrimExports(r)
    PROVE  PairNewest(r)'
<1>1. PICK f \in onRouter, h \in onRouter :
         /\ IsPart(f, r, "backup") /\ IsPart(h, r, "rsc")
         /\ \A g \in onRouter : ~(g.at > h.at) /\ (g.at > f.at => g = h)
  BY DEF PairNewest
<1>2. onRouter' \subseteq onRouter
  BY DEF Trim, TrimExports
<1>3. f \in onRouter' /\ h \in onRouter'
  <2> DEFINE exports == {g \in onRouter : g.part = "rsc"}
  <2>1. f \notin Doomed(onRouter, RouterKeep) /\ h \notin Doomed(onRouter, RouterKeep)
    BY <1>1, DoomedSpares, KeepAssumption
  <2>2. h \notin Doomed(exports, RouterKeep)
    BY <1>1, DoomedSpares, KeepAssumption
  <2>3. f \notin Doomed(exports, RouterKeep)
    BY <1>1 DEF Doomed, IsPart
  <2> QED
    BY <2>1, <2>2, <2>3 DEF Trim, TrimExports
<1> QED
  BY <1>1, <1>2, <1>3 DEF PairNewest, IsPart

LEMMA PairNext == Inv /\ LockHeldByRun /\ PairInv /\ [Next]_vars => PairInv'
<1> SUFFICES ASSUME Inv, LockHeldByRun, PairInv, [Next]_vars PROVE PairInv'
  OBVIOUS
<1>1. ASSUME NEW r \in Runs, BeginUserman(r) \/ BeginFull(r) \/ UsermanStep(r)
      PROVE  PairInv'
  BY <1>1, UsermanOutside, PairFrame
<1>2. ASSUME NEW r \in Runs, FullStep(r) PROVE PairInv'
  <2>1. ASSUME pc[r] \in FullSteps
        PROVE  \A s \in Runs \ {r} : pc[s] \notin FullSteps
    BY <2>1 DEF LockHeldByRun
  <2>2. \A s \in Runs \ {r} : pc'[s] = pc[s]
    BY <1>2 DEF FullStep, Acquire, Busy, Save, Export, Download, Trim, TrimExports, FullFails,
              Goto, Inv, RunsOK
  <2>3. \A g \in onRouter : g.at \in Int /\ g.at <= clock["router"] /\ clock["router"] \in Nat
    BY DEF Inv, Files, Places
  <2>3a. clock["router"] \in Nat
    BY DEF Inv, Files, Places
  <2>4. CASE Acquire(r)
    <3>1. pc'[r] = "saving"
      BY <2>4 DEF Acquire, Goto, Inv, RunsOK
    <3>2. onRouter' = onRouter
      BY <2>4 DEF Acquire, router
    <3>3. \A s \in Runs : SavedNewest(s) => SavedNewest(s)'
      BY <3>2, SameFiles
    <3>4. \A s \in Runs : PairNewest(s) => PairNewest(s)'
      BY <3>2, SameFiles
    <3> QED
      BY <2>2, <3>1, <3>3, <3>4 DEF PairInv
  <2>5. CASE Busy(r)
    BY <2>5, PairFrame DEF Busy, Goto, Inv, RunsOK, FullSteps, router
  <2>6. CASE Save(r)
    <3> DEFINE f == [part |-> "backup", run |-> r, at |-> clock["router"] + 1]
    <3>1. onRouter' = onRouter \union {f}
      BY <2>6 DEF Save, Write
    <3>2. SavedNewest(r)'
      <4>1. \A g \in onRouter' : ~(g.at > f.at)
        <5> SUFFICES ASSUME NEW g \in onRouter' PROVE ~(g.at > f.at)
          OBVIOUS
        <5>1. f.at = clock["router"] + 1 /\ clock["router"] \in Nat
          BY <2>3a
        <5>2. g \in onRouter \/ g = f
          BY <3>1
        <5> HIDE DEF f
        <5>3. CASE g = f
          BY <5>1, <5>3
        <5>4. CASE g \in onRouter
          BY <2>3, <5>1, <5>4
        <5> QED
          BY <5>2, <5>3, <5>4
      <4>2. f \in onRouter' /\ f.run = r /\ f.part = "backup"
        BY <3>1
      <4> HIDE DEF f
      <4> QED
        BY <4>1, <4>2 DEF SavedNewest, IsPart
    <3>3. pc'[r] = "exporting" /\ pc[r] \in FullSteps
      BY <2>6 DEF Save, Goto, Inv, RunsOK, FullSteps
    <3> QED
      BY <2>1, <2>2, <3>2, <3>3 DEF PairInv, FullSteps
  <2>7. CASE Export(r)
    <3> DEFINE h == [part |-> "rsc", run |-> r, at |-> clock["router"] + 1]
    <3>1. onRouter' = onRouter \union {h}
      BY <2>7 DEF Export, Write
    <3>2. PICK f \in onRouter : IsPart(f, r, "backup") /\ \A g \in onRouter : ~(g.at > f.at)
      BY <2>7 DEF Export, PairInv, SavedNewest
    <3>3. PairNewest(r)'
      <4>1. \A g \in onRouter' : ~(g.at > h.at) /\ (g.at > f.at => g = h)
        <5> SUFFICES ASSUME NEW g \in onRouter'
                     PROVE  ~(g.at > h.at) /\ (g.at > f.at => g = h)
          OBVIOUS
        <5>1. h.at = clock["router"] + 1 /\ clock["router"] \in Nat
          BY <2>3a
        <5>2. g \in onRouter \/ g = h
          BY <3>1
        <5> HIDE DEF h
        <5>3. CASE g = h
          BY <5>1, <5>3
        <5>4. CASE g \in onRouter
          BY <2>3, <3>2, <5>1, <5>4
        <5> QED
          BY <5>2, <5>3, <5>4
      <4>2. h \in onRouter' /\ h.run = r /\ h.part = "rsc" /\ f \in onRouter'
        BY <3>1
      <4> HIDE DEF h
      <4> QED
        BY <3>2, <4>1, <4>2 DEF PairNewest, IsPart
    <3>4. pc'[r] = "downloading" /\ pc[r] \in FullSteps
      BY <2>7 DEF Export, Goto, Inv, RunsOK, FullSteps
    <3> QED
      BY <2>1, <2>2, <3>3, <3>4 DEF PairInv, FullSteps
  <2>8. CASE Download(r)
    <3>1. PairNewest(r)'
      BY <2>8, SameFiles DEF Download, PairInv, router
    <3>2. pc'[r] = "trimming" /\ pc[r] \in FullSteps
      BY <2>8 DEF Download, Goto, Inv, RunsOK, FullSteps
    <3> QED
      BY <2>1, <2>2, <3>1, <3>2 DEF PairInv, FullSteps
  <2>9. CASE Trim(r)
    <3>1. PairNewest(r)'
      BY <2>9, TrimKeepsPair DEF Trim, PairInv
    <3>2. pc'[r] = "trimming exports" /\ pc[r] \in FullSteps
      BY <2>9 DEF Trim, Goto, Inv, RunsOK, FullSteps
    <3> QED
      BY <2>1, <2>2, <3>1, <3>2 DEF PairInv, FullSteps
  <2>10. CASE TrimExports(r) \/ FullFails(r)
    <3>1. pc'[r] = "idle" /\ pc[r] \in FullSteps
      BY <2>10 DEF TrimExports, FullFails, Goto, Inv, RunsOK, FullSteps
    <3> QED
      BY <2>1, <2>2, <3>1 DEF PairInv, FullSteps
  <2> QED
    BY <1>2, <2>4, <2>5, <2>6, <2>7, <2>8, <2>9, <2>10 DEF FullStep
<1>3. CASE Tick
  BY <1>3, PairFrame DEF Tick, router
<1>4. CASE Crash
  BY <1>4, PairFrame DEF Crash, router, FullSteps
<1>5. CASE UNCHANGED vars
  BY <1>5, PairFrame DEF vars
<1> QED
  BY <1>1, <1>2, <1>3, <1>4, <1>5 DEF Next

(* A full backup reported as created has both of its files on the router,  *)
(* for any number of overlapping runs and any of the clean-ups' failures.  *)
THEOREM PairsReported == Spec => PairReported
<1>1. Inv /\ [Next]_vars => Inv'
  BY RunsNext, NamesNext, FilesNext DEF Inv
<1>2. Init => PairInv
  BY DEF Init, PairInv
<1>3. Inv /\ LockHeldByRun /\ PairInv /\ [Next]_vars =>
        [\A r \in Runs : pc[r] \in FullSteps /\ told'[r] = "created" /\ told[r] # "created"
              => Has(r, "backup")' /\ Has(r, "rsc")']_vars
  <2> SUFFICES ASSUME Inv, PairInv, Next, NEW r \in Runs,
                      pc[r] \in FullSteps, told'[r] = "created", told[r] # "created"
               PROVE  Has(r, "backup")' /\ Has(r, "rsc")'
    BY DEF vars
  <2>1. TrimExports(r)
    <3>1. ASSUME NEW s \in Runs, s # r,
                 BeginUserman(s) \/ BeginFull(s) \/ FullStep(s) \/ UsermanStep(s)
          PROVE  told'[r] = told[r]
      BY <3>1 DEF BeginUserman, BeginFull, FullStep, Acquire, Busy, Save, Export, Download, Trim,
              TrimExports, FullFails, UsermanStep, Dump, Push, Move, NotMoved, Connect,
              NoConnection, Fetched, FetchFails, TrimUmbs, Prune, UsermanFails, Inv, RunsOK
    <3>2. ~(BeginUserman(r) \/ BeginFull(r) \/ UsermanStep(r))
      BY UsermanOutside
    <3>3. ~(Tick \/ Crash)
      BY DEF Tick, Crash, Inv, RunsOK, FullSteps
    <3>4. FullStep(r)
      BY <3>1, <3>2, <3>3 DEF Next
    <3> QED
      BY <3>4 DEF FullStep, Acquire, Busy, Save, Export, Download, Trim, FullFails, Inv, RunsOK
  <2>2. PairNewest(r)
    BY <2>1 DEF TrimExports, PairInv
  <2> QED
    BY <2>1, <2>2, TrimKeepsPair DEF PairNewest, IsPart, Has
<1> QED
  BY <1>1, <1>2, <1>3, InvInit, LockInit, LockNext, PairNext, PTL DEF Spec, PairReported

-----------------------------------------------------------------------------
(* A download that is reported is on the host.  A run names its file once, *)
(* no two files of the host have the same time, and the file a run awaits  *)
(* is as new as its transfer, or enough files of others are newer.         *)
NamedOnce ==
    \A s \in Runs : /\ pc[s] = "idle" /\ told[s] = "none" => name[s] = 0
                    /\ pc[s] \in UmSteps => told[s] = "none"

GotLater == \A r \in Runs : got[r] => pc[r] \in {"trimming umbs", "pruning"}

Stamped ==
    /\ \A f, g \in local : f.at = g.at => f = g
    /\ \A f, g \in staged : f.at = g.at => f = g
    /\ \A f \in staged, g \in local : f.at # g.at

Uploading == {"moving", "opening", "fetching", "trimming umbs", "pruning"}

Begun == \A r \in Runs : pc[r] \notin Uploading => began[r] = 0

Uploaded ==
    \A r \in Runs : pc[r] = "moving" /\ ~SharesName(r)
                      => \A f \in staged : f.name = name[r] => f.at >= began[r]

Fetching(r) == pc[r] = "fetching" \/ got[r]

Overtaken(r) == clock["host"] - began[r] >= LocalKeep

Arrived(r) == \E f \in local : f.name = name[r] /\ (got[r] => f.whole) /\ f.at >= began[r]

Arrivals == \A r \in Runs : Fetching(r) /\ ~SharesName(r) => Arrived(r) \/ Overtaken(r)

DownInv == NamedOnce /\ GotLater /\ Stamped /\ Begun /\ Uploaded /\ Arrivals

LEMMA DownInit == Init => DownInv
<1> SUFFICES ASSUME Init PROVE DownInv
  OBVIOUS
<1>1. Stamped
  BY DEF Init, Stamped
<1> QED
  BY <1>1 DEF Init, DownInv, NamedOnce, GotLater, Begun, Uploaded, Arrivals, Fetching, UmSteps

(* A file that clean-up dooms is older than LocalKeep others, each written *)
(* at a time of its own.                                                   *)
LEMMA DoomedIsOld ==
    ASSUME Files, Stamped, NEW f \in Doomed(local, LocalKeep)
    PROVE  clock["host"] - f.at >= LocalKeep
<1> DEFINE newer == {g \in local : g.at > f.at}
           times == (f.at + 1) .. clock["host"]
           time == [g \in newer |-> g.at]
<1>1. f \in local /\ Cardinality(newer) >= LocalKeep
  BY DEF Doomed
<1>2. clock["host"] \in Nat /\ \A g \in local : g.at \in 0 .. clock["host"]
  BY DEF Files, Places
<1>3. time \in [newer -> times]
  BY <1>1, <1>2
<1>4. \A g, h \in newer : time[g] = time[h] => g = h
  BY DEF Stamped
<1>5. time \in Injection(newer, times)
  BY <1>3, <1>4 DEF Injection, IsInjective
<1>6. /\ IsFiniteSet(times)
      /\ Cardinality(times) = IF f.at + 1 > clock["host"] THEN 0 ELSE clock["host"] - (f.at + 1) + 1
  <2>1. f.at + 1 \in Int /\ clock["host"] \in Int
    BY <1>1, <1>2
  <2> QED
    BY <2>1, FS_Interval
<1> HIDE DEF newer, times, time
<1>7. IsFiniteSet(newer) /\ Cardinality(newer) <= Cardinality(times)
  BY <1>5, <1>6, FS_Injection
<1>8. Cardinality(newer) \in Nat
  BY <1>7, FS_CardinalityType
<1> QED
  BY <1>1, <1>2, <1>6, <1>7, <1>8, KeepAssumption

LEMMA StampedNext == Inv /\ Stamped /\ [Next]_vars => Stamped'
<1> SUFFICES ASSUME Inv, Stamped, [Next]_vars PROVE Stamped'
  OBVIOUS
<1>0. /\ clock["host"] \in Nat
      /\ \A f \in local : f.at < clock["host"] + 1
      /\ \A f \in staged : f.at < clock["host"] + 1
  BY DEF Inv, Files, Places
<1>1. ASSUME local' \subseteq local, staged' \subseteq staged PROVE Stamped'
  BY <1>1 DEF Stamped
<1>2. ASSUME NEW f, f.at = clock["host"] + 1,
             \/ local' \subseteq local \union {f} /\ staged' = staged
             \/ staged' \subseteq staged \union {f} /\ local' = local
      PROVE  Stamped'
  BY <1>0, <1>2 DEF Stamped
<1>3. ASSUME NEW r \in Runs, Push(r) PROVE Stamped'
  <2>1. CASE Upload(r)
    <3> DEFINE f == [name |-> name[r], at |-> clock["host"] + 1]
    <3>1. staged' \subseteq staged \union {f} /\ local' = local
      BY <1>3, <2>1 DEF Push, Upload, Others
    <3>2. f.at = clock["host"] + 1
      OBVIOUS
    <3> HIDE DEF f
    <3> QED
      BY <1>2, <3>1, <3>2
  <2>2. CASE UNCHANGED <<clock, staged, began>>
    BY <1>1, <1>3, <2>2 DEF Push
  <2> QED
    BY <1>3, <2>1, <2>2 DEF Push
<1>4. ASSUME NEW r \in Runs, Move(r) PROVE Stamped'
  <2>1. PICK f \in staged :
           /\ staged' = staged \ {f}
           /\ local' = Others(local, name[r]) \union {[name |-> name[r], whole |-> TRUE, at |-> f.at]}
    BY <1>4 DEF Move
  <2> DEFINE new == [name |-> name[r], whole |-> TRUE, at |-> f.at]
  <2>2. new.at = f.at /\ local' \subseteq local \union {new}
    BY <2>1 DEF Others
  <2> HIDE DEF new
  <2>3. \A g, h \in local' : g.at = h.at => g = h
    BY <2>2 DEF Stamped
  <2>4. \A g \in staged', h \in local' : g.at # h.at
    BY <2>1, <2>2 DEF Stamped
  <2> QED
    BY <2>1, <2>3, <2>4 DEF Stamped
<1>5. ASSUME NEW r \in Runs, Connect(r) PROVE Stamped'
  <2> DEFINE f == [name |-> name[r], whole |-> FALSE, at |-> clock["host"] + 1]
  <2>1. local' \subseteq local \union {f} /\ staged' = staged
    BY <1>5 DEF Connect, Others
  <2>2. f.at = clock["host"] + 1
    OBVIOUS
  <2> HIDE DEF f
  <2> QED
    BY <1>2, <2>1, <2>2
<1>6. ASSUME NEW r \in Runs, Fetched(r) PROVE Stamped'
  <2>1. staged' = staged
    BY <1>6 DEF Fetched
  <2>2. CASE local' = Others(local, name[r])
    BY <1>1, <2>1, <2>2 DEF Others
  <2>3. ASSUME NEW f \in local, local' = Others(local, name[r]) \union {FetchedFile(r, f)}
        PROVE  Stamped'
    <3>1. FetchedFile(r, f).at = clock["host"] + 1
      BY FetchedFileType DEF Inv
    <3>2. local' \subseteq local \union {FetchedFile(r, f)}
      BY <2>3 DEF Others
    <3> QED
      BY <1>2, <2>1, <3>1, <3>2
  <2> QED
    BY <1>6, <2>2, <2>3, FetchedOnce DEF Inv
<1>7. ASSUME NEW r \in Runs,
             \/ BeginUserman(r) \/ BeginFull(r) \/ FullStep(r)
             \/ Dump(r) \/ NotMoved(r) \/ NoConnection(r) \/ FetchFails(r)
             \/ TrimUmbs(r) \/ Prune(r) \/ UsermanFails(r)
      PROVE  Stamped'
  <2>1. local' \subseteq local /\ staged' = staged
    BY <1>7 DEF BeginUserman, BeginFull, FullStep, Acquire, Busy, Save, Export, Download, Trim,
       TrimExports, FullFails, Dump, NotMoved, NoConnection, FetchFails, TrimUmbs, Prune,
       UsermanFails, Others, host
  <2> QED
    BY <1>1, <2>1
<1>8. CASE Tick \/ Crash \/ UNCHANGED vars
  BY <1>1, <1>8 DEF Tick, Crash, host, vars
<1> QED
  BY <1>3, <1>4, <1>5, <1>6, <1>7, <1>8 DEF Next, UsermanStep

(* Names, once taken, stay.                                                *)
LEMMA NamesStay ==
    ASSUME Inv, NamedOnce, [Next]_vars
    PROVE  \A s \in Runs : name'[s] = name[s] \/ (name[s] = 0 /\ pc'[s] = "dumping" /\ name'[s] >= 1)
<1>1. ASSUME NEW r \in Runs, BeginUserman(r)
      PROVE  \A s \in Runs : name'[s] = name[s]
                             \/ (name[s] = 0 /\ pc'[s] = "dumping" /\ name'[s] >= 1)
  BY <1>1 DEF BeginUserman, Goto, Inv, RunsOK, NamesOK, NamedOnce
<1>2. ASSUME NEW r \in Runs, BeginFull(r) \/ FullStep(r) PROVE name' = name
  BY <1>2 DEF BeginFull, FullStep, Acquire, Busy, Save, Export, Download, Trim, TrimExports, FullFails
<1>3. ASSUME NEW r \in Runs, UsermanStep(r) PROVE name' = name
  BY <1>3 DEF UsermanStep, Dump, Push, Move, NotMoved, Connect, NoConnection, Fetched, FetchFails,
     TrimUmbs, Prune, UsermanFails
<1>4. CASE Tick \/ Crash \/ UNCHANGED vars
  BY <1>4 DEF Tick, Crash, vars
<1> QED
  BY <1>1, <1>2, <1>3, <1>4 DEF Next

LEMMA NamedOnceNext == Inv /\ NamedOnce /\ [Next]_vars => NamedOnce'
<1> SUFFICES ASSUME Inv, NamedOnce, [Next]_vars PROVE NamedOnce'
  OBVIOUS
<1> USE DEF NamedOnce, Inv, RunsOK, Goto, UmSteps
<1>1. ASSUME NEW r \in Runs, BeginUserman(r) \/ BeginFull(r) PROVE NamedOnce'
  <2>1. pc'[r] # "idle" /\ told' = told /\ told[r] = "none"
        /\ \A s \in Runs \ {r} : pc'[s] = pc[s] /\ name'[s] = name[s]
    BY <1>1 DEF BeginUserman, BeginFull, NamesOK
  <2> QED
    BY <2>1
<1>2. ASSUME NEW r \in Runs, FullStep(r) PROVE NamedOnce'
  <2>1. name' = name /\ \A s \in Runs \ {r} : pc'[s] = pc[s] /\ told'[s] = told[s]
    BY <1>2 DEF FullStep, Acquire, Busy, Save, Export, Download, Trim, TrimExports, FullFails
  <2>2. pc'[r] \notin UmSteps /\ (pc'[r] = "idle" => told'[r] # "none")
    <3>1. CASE Acquire(r) \/ Busy(r) \/ Save(r) \/ Export(r)
      BY <3>1 DEF Acquire, Busy, Save, Export
    <3>2. CASE Download(r) \/ Trim(r) \/ TrimExports(r) \/ FullFails(r)
      BY <3>2 DEF Download, Trim, TrimExports, FullFails
    <3> QED
      BY <1>2, <3>1, <3>2 DEF FullStep
  <2> QED
    BY <2>1, <2>2
<1>3. ASSUME NEW r \in Runs, UsermanStep(r) PROVE NamedOnce'
  <2>1. name' = name /\ \A s \in Runs \ {r} : pc'[s] = pc[s] /\ told'[s] = told[s]
    BY <1>3 DEF UsermanStep, Dump, Push, Move, NotMoved, Connect, NoConnection, Fetched, FetchFails,
       TrimUmbs, Prune, UsermanFails
  <2>2. /\ pc'[r] \in UmSteps => told'[r] = "none"
        /\ pc'[r] = "idle" => told'[r] # "none"
    <3>1. CASE Dump(r) \/ Push(r) \/ Move(r) \/ NotMoved(r) \/ Connect(r) \/ NoConnection(r)
      BY <3>1 DEF Dump, Push, Move, NotMoved, Connect, NoConnection
    <3>2. CASE Fetched(r) \/ FetchFails(r) \/ TrimUmbs(r) \/ Prune(r) \/ UsermanFails(r)
      BY <3>2 DEF Fetched, FetchFails, TrimUmbs, Prune, UsermanFails, AfterUserman
    <3> QED
      BY <1>3, <3>1, <3>2 DEF UsermanStep
  <2> QED
    BY <2>1, <2>2
<1>4. CASE Tick \/ Crash \/ UNCHANGED vars
  BY <1>4 DEF Tick, Crash, vars
<1> QED
  BY <1>1, <1>2, <1>3, <1>4 DEF Next

LEMMA GotLaterNext == Inv /\ GotLater /\ [Next]_vars => GotLater'
<1> SUFFICES ASSUME Inv, GotLater, [Next]_vars PROVE GotLater'
  OBVIOUS
<1> USE DEF GotLater, Inv, RunsOK, Goto
<1>1. ASSUME NEW r \in Runs, BeginUserman(r) \/ BeginFull(r) PROVE GotLater'
  BY <1>1 DEF BeginUserman, BeginFull
<1>2. ASSUME NEW r \in Runs, FullStep(r) PROVE GotLater'
  BY <1>2 DEF FullStep, Acquire, Busy, Save, Export, Download, Trim, TrimExports, FullFails, FullSteps
<1>3. ASSUME NEW r \in Runs, UsermanStep(r) PROVE GotLater'
  BY <1>3 DEF UsermanStep, Dump, Push, Move, NotMoved, Connect, NoConnection, Fetched, FetchFails,
     TrimUmbs, Prune, UsermanFails
<1>4. CASE Tick \/ Crash \/ UNCHANGED vars
  BY <1>4 DEF Tick, Crash, vars
<1> QED
  BY <1>1, <1>2, <1>3, <1>4 DEF Next

(* A run other than r takes nothing of what r awaits but by clean-up.      *)
LEMMA OtherRun ==
    ASSUME Inv, NEW r \in Runs, NEW s \in Runs, s # r,
           BeginUserman(s) \/ BeginFull(s) \/ FullStep(s) \/ UsermanStep(s)
    PROVE  /\ pc'[r] = pc[r] /\ got'[r] = got[r] /\ began'[r] = began[r]
           /\ clock["host"] \in Nat /\ clock'["host"] \in Nat /\ clock'["host"] >= clock["host"]
           /\ name[s] # name[r] /\ UsermanStep(s) =>
                 /\ \A f \in local : f.name = name[r] => f \in local' \/ f \in Doomed(local, LocalKeep)
                 /\ \A f \in staged' : f.name = name[r] => f \in staged
           /\ ~UsermanStep(s) => local' = local /\ staged' = staged
<1>1. clock["host"] \in Nat
  BY DEF Inv, Files, Places
<1>2. ASSUME BeginUserman(s) \/ BeginFull(s) \/ FullStep(s)
      PROVE  /\ pc'[r] = pc[r] /\ got'[r] = got[r] /\ began'[r] = began[r]
             /\ clock'["host"] = clock["host"] /\ local' = local /\ staged' = staged
  BY <1>2 DEF BeginUserman, BeginFull, FullStep, Acquire, Busy, Save, Export, Write, Written,
     Download, Trim, TrimExports, FullFails, Goto, host, Inv, RunsOK, Files, Places
<1>3. ASSUME UsermanStep(s)
      PROVE  pc'[r] = pc[r] /\ got'[r] = got[r] /\ began'[r] = began[r]
  BY <1>3 DEF UsermanStep, Dump, Push, Upload, Begins, Move, NotMoved, Connect, NoConnection,
     Fetched, FetchFails, TrimUmbs, Prune, UsermanFails, Goto, host, Inv, RunsOK, Files
<1>4. ASSUME UsermanStep(s)
      PROVE  clock'["host"] \in Nat /\ clock'["host"] >= clock["host"]
  <2>1. \/ UNCHANGED clock \/ Written("host") \/ Written("umbs")
    BY <1>4 DEF UsermanStep, Dump, WriteUmb, Push, Upload, Begins, Move, NotMoved, Connect,
       NoConnection, Fetched, FetchFails, TrimUmbs, Prune, UsermanFails
  <2> QED
    BY <1>1, <2>1 DEF Written, Inv, Files, Places
<1>5. ASSUME UsermanStep(s), name[s] # name[r]
      PROVE  /\ \A f \in local : f.name = name[r] => f \in local' \/ f \in Doomed(local, LocalKeep)
             /\ \A f \in staged' : f.name = name[r] => f \in staged
  <2>1. Others(local, name[s]) \subseteq local' \/ local \ Doomed(local, LocalKeep) \subseteq local'
    <3>1. CASE Dump(s) \/ Push(s) \/ NotMoved(s) \/ NoConnection(s) \/ TrimUmbs(s)
      BY <3>1 DEF Dump, Push, NotMoved, NoConnection, TrimUmbs, Others, host
    <3>2. CASE Move(s) \/ Connect(s) \/ Fetched(s)
      BY <3>2 DEF Move, Connect, Fetched
    <3>3. CASE FetchFails(s) \/ UsermanFails(s)
      BY <3>3 DEF FetchFails, UsermanFails, Others
    <3>4. CASE Prune(s)
      BY <3>4 DEF Prune
    <3> QED
      BY <1>5, <3>1, <3>2, <3>3, <3>4 DEF UsermanStep
  <2>2. staged' \subseteq staged
        \/ staged' = Others(staged, name[s]) \union {[name |-> name[s], at |-> clock["host"] + 1]}
    BY <1>5 DEF UsermanStep, Dump, Push, Upload, Move, NotMoved, Connect, NoConnection,
       Fetched, FetchFails, TrimUmbs, Prune, UsermanFails, host
  <2> DEFINE new == [name |-> name[s], at |-> clock["host"] + 1]
  <2>3. new.name = name[s] /\ staged' \subseteq staged \union {new}
    BY <2>2 DEF Others
  <2> HIDE DEF new
  <2> QED
    BY <1>5, <2>1, <2>3 DEF Others
<1> QED
  BY <1>1, <1>2, <1>3, <1>4, <1>5

LEMMA BegunNext == Inv /\ Begun /\ [Next]_vars => Begun'
<1> SUFFICES ASSUME Inv, Begun, [Next]_vars PROVE Begun'
  OBVIOUS
<1> USE DEF Begun, Uploading, Inv, RunsOK, Files, Goto
<1>1. ASSUME NEW s \in Runs, BeginUserman(s) \/ BeginFull(s) \/ FullStep(s) \/ UsermanStep(s)
      PROVE  Begun'
  <2>1. \A r \in Runs \ {s} : pc'[r] = pc[r] /\ began'[r] = began[r]
    BY <1>1, OtherRun
  <2>2. CASE BeginUserman(s) \/ BeginFull(s) \/ FullStep(s)
    BY <2>1, <2>2 DEF BeginUserman, BeginFull, FullStep, Acquire, Busy, Save, Export, Download, Trim,
       TrimExports, FullFails, FullSteps, host
  <2>3. CASE Dump(s)
    BY <2>1, <2>3 DEF Dump, host
  <2>4. CASE UsermanStep(s) /\ ~Dump(s)
    <3>1. pc'[s] \in Uploading \/ began'[s] = 0
      BY <2>4 DEF UsermanStep, Push, Move, NotMoved, Connect, NoConnection, Fetched, FetchFails,
         TrimUmbs, Prune, UsermanFails
    <3> QED
      BY <2>1, <3>1
  <2> QED
    BY <1>1, <2>2, <2>3, <2>4
<1>2. CASE Tick \/ Crash \/ UNCHANGED vars
  BY <1>2 DEF Tick, Crash, host, vars
<1> QED
  BY <1>1, <1>2 DEF Next

LEMMA UploadedNext ==
    Inv /\ NamedOnce /\ Begun /\ Uploaded /\ [Next]_vars => Uploaded'
<1> SUFFICES ASSUME Inv, NamedOnce, Begun, Uploaded, [Next]_vars,
                    NEW r \in Runs, pc'[r] = "moving", ~SharesName(r)',
                    NEW f \in staged', f.name = name'[r]
             PROVE  f.at >= began'[r]
  BY DEF Uploaded
<1>1. name'[r] = name[r] /\ ~SharesName(r)
  <2>1. name'[r] = name[r] /\ name[r] >= 1
    <3>1. name'[r] = name[r]
      BY NamesStay
    <3>2. name'[r] \in 1 .. Seconds
      BY NamesNext DEF NamesOK, UmSteps
    <3> QED
      BY <3>1, <3>2, SecondsAssumption
  <2> QED
    BY <2>1, NamesStay DEF SharesName
<1>2. \A g \in staged : g.at \in Nat
  BY DEF Inv, Files
<1>3. ASSUME NEW s \in Runs, s # r,
             BeginUserman(s) \/ BeginFull(s) \/ FullStep(s) \/ UsermanStep(s)
      PROVE  f.at >= began'[r]
  <2>1. name[s] # name[r]
    BY <1>1, <1>3 DEF SharesName
  <2>2. pc[r] = "moving" /\ began'[r] = began[r] /\ f \in staged
    BY <1>1, <1>3, <2>1, OtherRun
  <2> QED
    BY <1>1, <2>2 DEF Uploaded
<1>4. CASE BeginUserman(r) \/ BeginFull(r) \/ FullStep(r)
  BY <1>4 DEF BeginUserman, BeginFull, FullStep, Acquire, Busy, Save, Export, Download, Trim,
     TrimExports, FullFails, Goto, Inv, RunsOK
<1>5. CASE Push(r)
  <2>1. CASE Upload(r)
    <3> DEFINE new == [name |-> name[r], at |-> clock["host"] + 1]
    <3>1. staged' = Others(staged, name[r]) \union {new}
      BY <2>1 DEF Upload
    <3>2. f = new
      BY <1>1, <3>1 DEF Others
    <3>3. began'[r] = clock["host"] + 1 /\ clock["host"] \in Nat
      BY <2>1 DEF Upload, Begins, Inv, Files, Places
    <3> QED
      BY <3>2, <3>3
  <2>2. CASE UNCHANGED <<clock, staged, began>>
    <3>1. pc[r] = "pushing" /\ began' = began /\ staged' = staged
      BY <1>5, <2>2 DEF Push
    <3>2. began[r] = 0
      BY <3>1 DEF Begun, Uploading
    <3> QED
      BY <1>2, <3>1, <3>2
  <2> QED
    BY <1>5, <2>1, <2>2 DEF Push
<1>6. CASE UsermanStep(r) /\ ~Push(r)
  <2>1. pc'[r] # "moving"
    BY <1>6 DEF UsermanStep, Dump, Move, NotMoved, Connect, NoConnection, Fetched, FetchFails,
       TrimUmbs, Prune, UsermanFails, AfterUserman, Goto, Inv, RunsOK
  <2> QED
    BY <2>1
<1>7. CASE Tick \/ UNCHANGED vars
  BY <1>1, <1>7 DEF Tick, host, vars, Uploaded
<1>8. CASE Crash
  BY <1>8 DEF Crash
<1> QED
  BY <1>3, <1>4, <1>5, <1>6, <1>7, <1>8 DEF Next

(* The steps of r itself that make its file or complete it.                *)
LEMMA OwnFile ==
    ASSUME Inv, DownInv, NEW r \in Runs, UsermanStep(r), Fetching(r)', ~SharesName(r)
    PROVE  Arrived(r)' \/ Overtaken(r)'
<1> USE DEF DownInv
<1>0. name' = name /\ clock["host"] \in Nat /\ began[r] \in 0 .. clock["host"]
  BY DEF UsermanStep, Dump, Push, Move, NotMoved, Connect, NoConnection, Fetched, FetchFails,
     TrimUmbs, Prune, UsermanFails, Inv, Files, Places
<1>1. CASE Move(r)
  <2>1. PICK f \in staged :
           /\ f.name = name[r]
           /\ local' = Others(local, name[r]) \union {[name |-> name[r], whole |-> TRUE, at |-> f.at]}
    BY <1>1 DEF Move
  <2>2. f.at >= began[r] /\ began' = began
    BY <1>1, <2>1 DEF Move, Uploaded
  <2> DEFINE g == [name |-> name[r], whole |-> TRUE, at |-> f.at]
  <2>3. g \in local' /\ g.name = name[r] /\ g.whole /\ g.at = f.at
    BY <2>1
  <2> HIDE DEF g
  <2> QED
    BY <1>0, <2>2, <2>3 DEF Arrived
<1>2. CASE Connect(r)
  <2> DEFINE g == [name |-> name[r], whole |-> FALSE, at |-> clock["host"] + 1]
  <2>1. g \in local' /\ g.name = name[r] /\ g.at = clock["host"] + 1
    BY <1>2 DEF Connect
  <2>2. ~got'[r] /\ began'[r] = clock["host"] + 1
    BY <1>2 DEF Connect, Begins, GotLater, Inv, Files
  <2> HIDE DEF g
  <2> QED
    BY <1>0, <2>1, <2>2 DEF Arrived
<1>3. CASE Fetched(r)
  <2>1. began'[r] = began[r] + 1 /\ clock'["host"] = clock["host"] + 1
    BY <1>3 DEF Fetched, Written, Inv, Files, Places
  <2>2. CASE Overtaken(r)
    BY <1>0, <2>1, <2>2, KeepAssumption DEF Overtaken
  <2>3. CASE Arrived(r)
    <3>1. PICK f \in local :
             f.name = name[r] /\ local' = Others(local, name[r]) \union {FetchedFile(r, f)}
      BY <1>3, <2>3, FetchedOnce DEF Arrived, Inv
    <3>2. /\ FetchedFile(r, f) \in local' /\ FetchedFile(r, f).name = name[r]
          /\ FetchedFile(r, f).at = clock["host"] + 1 /\ FetchedFile(r, f).whole
      BY <3>1, FetchedFileType DEF SharesName, Inv
    <3>3. clock["host"] + 1 >= began'[r]
      BY <1>0, <2>1
    <3> QED
      BY <1>0, <3>2, <3>3 DEF Arrived
  <2> QED
    BY <1>3, <2>2, <2>3 DEF Fetched, Arrivals, Fetching
<1>4. CASE TrimUmbs(r)
  <2>1. got' = got /\ local' = local /\ began' = began /\ clock' = clock /\ Fetching(r)
    BY <1>4 DEF TrimUmbs, host, Fetching, Goto, Inv, RunsOK
  <2> QED
    BY <1>0, <2>1 DEF Arrived, Overtaken, Arrivals
<1>5. CASE Dump(r) \/ Push(r) \/ NotMoved(r) \/ NoConnection(r) \/ FetchFails(r) \/ Prune(r)
           \/ UsermanFails(r)
  <2>1. pc'[r] # "fetching" /\ ~got'[r]
    BY <1>5 DEF Dump, Push, NotMoved, NoConnection, FetchFails, Prune, UsermanFails, AfterUserman,
       Goto, Inv, RunsOK, GotLater
  <2> QED
    BY <2>1 DEF Fetching
<1> QED
  BY <1>1, <1>2, <1>3, <1>4, <1>5 DEF UsermanStep

LEMMA ArrivalsNext == Inv /\ DownInv /\ [Next]_vars => Arrivals'
<1> SUFFICES ASSUME Inv, DownInv, [Next]_vars, NEW r \in Runs, Fetching(r)', ~SharesName(r)'
             PROVE  Arrived(r)' \/ Overtaken(r)'
  BY DEF Arrivals
<1> USE DEF DownInv
<1>1. name'[r] = name[r] /\ name[r] >= 1
  <2>1. pc'[r] \in {"fetching", "trimming umbs", "pruning"}
    BY GotLaterNext DEF Fetching, GotLater
  <2>2. name'[r] \in 1 .. Seconds
    BY <2>1, NamesNext DEF NamesOK, UmSteps
  <2>3. name'[r] = name[r]
    BY <2>1, NamesStay
  <2> QED
    BY <2>2, <2>3, SecondsAssumption
<1>2. ~SharesName(r)
  BY <1>1, NamesStay DEF SharesName
<1>3. began[r] \in 0 .. clock["host"] /\ \A f \in local : f.at \in 0 .. clock["host"]
  BY DEF Inv, Files
<1>4. ASSUME NEW s \in Runs, s # r,
             BeginUserman(s) \/ BeginFull(s) \/ FullStep(s) \/ UsermanStep(s)
      PROVE  Arrived(r)' \/ Overtaken(r)'
  <2>0. name[s] # name[r]
    BY <1>2, <1>4 DEF SharesName
  <2>1. /\ Fetching(r) /\ got'[r] = got[r] /\ began'[r] = began[r]
        /\ clock["host"] \in Nat /\ clock'["host"] \in Nat /\ clock'["host"] >= clock["host"]
        /\ \A f \in local : f.name = name[r] => f \in local' \/ f \in Doomed(local, LocalKeep)
    BY <1>4, <2>0, OtherRun DEF Fetching
  <2>2. CASE Overtaken(r)
    BY <1>3, <2>1, <2>2, KeepAssumption DEF Overtaken
  <2>3. CASE Arrived(r)
    <3>1. PICK f \in local : f.name = name[r] /\ (got[r] => f.whole) /\ f.at >= began[r]
      BY <2>3 DEF Arrived
    <3>2. CASE f \in local'
      BY <1>1, <2>1, <3>1, <3>2 DEF Arrived
    <3>3. CASE f \in Doomed(local, LocalKeep)
      <4>1. clock["host"] - f.at >= LocalKeep
        BY <3>3, DoomedIsOld DEF Inv
      <4> QED
        BY <1>3, <2>1, <3>1, <4>1, KeepAssumption DEF Overtaken
    <3> QED
      BY <2>1, <3>1, <3>2, <3>3
  <2> QED
    BY <1>2, <2>1, <2>2, <2>3 DEF Arrivals
<1>5. CASE UsermanStep(r)
  BY <1>2, <1>5, OwnFile
<1>6. CASE BeginUserman(r) \/ BeginFull(r) \/ FullStep(r)
  <2>1. got' = got /\ local' = local /\ began' = began
    BY <1>6 DEF BeginUserman, BeginFull, FullStep, Acquire, Busy, Save, Export, Download, Trim,
       TrimExports, FullFails, host
  <2>2. pc'[r] # "fetching"
    BY <1>6 DEF BeginUserman, BeginFull, FullStep, Acquire, Busy, Save, Export, Download, Trim,
       TrimExports, FullFails, Goto, Inv, RunsOK
  <2>3. pc[r] \notin {"trimming umbs", "pruning"}
    BY <1>6 DEF BeginUserman, BeginFull, FullStep, Acquire, Busy, Save, Export, Download, Trim,
       TrimExports, FullFails, FullSteps
  <2> QED
    BY <2>1, <2>2, <2>3 DEF Fetching, GotLater
<1>7. CASE Tick \/ UNCHANGED vars
  BY <1>2, <1>7 DEF Tick, host, vars, Fetching, Arrivals, Arrived, Overtaken
<1>8. CASE Crash
  BY <1>8 DEF Crash, Fetching
<1> QED
  BY <1>4, <1>5, <1>6, <1>7, <1>8 DEF Next

(* A backup that is reported as downloaded is there and complete, whatever *)
(* fails and whoever cleans up meanwhile, unless another used its name or  *)
(* the host began or finished as many files of others as it retains.       *)
THEOREM DownloadsReported == Spec => DownloadReported
<1>1. Inv /\ [Next]_vars => Inv'
  BY RunsNext, NamesNext, FilesNext DEF Inv
<1>2. Inv /\ DownInv /\ [Next]_vars => DownInv'
  BY NamedOnceNext, GotLaterNext, StampedNext, BegunNext, UploadedNext, ArrivalsNext DEF DownInv
<1>3. Inv /\ DownInv /\ [Next]_vars =>
        [\A r \in Runs : pc[r] = "pruning" /\ told'[r] = "downloaded" /\ ~SharesName(r)
              => \/ \E f \in local' : f.name = name[r] /\ f.whole
                 \/ clock["host"] - began[r] >= LocalKeep]_vars
  <2> SUFFICES ASSUME Inv, DownInv, Next, NEW r \in Runs,
                      pc[r] = "pruning", told'[r] = "downloaded", ~SharesName(r)
               PROVE  \/ \E f \in local' : f.name = name[r] /\ f.whole
                      \/ clock["host"] - began[r] >= LocalKeep
    BY DEF vars
  <2>1. told[r] = "none" /\ name[r] \in 1 .. Seconds
    BY DEF DownInv, NamedOnce, Inv, NamesOK, UmSteps
  <2>2. ASSUME NEW s \in Runs, s # r,
               BeginUserman(s) \/ BeginFull(s) \/ FullStep(s) \/ UsermanStep(s)
        PROVE  told'[r] = told[r]
    BY <2>2 DEF BeginUserman, BeginFull, FullStep, Acquire, Busy, Save, Export, Download, Trim,
       TrimExports, FullFails, UsermanStep, Dump, Push, Move, NotMoved, Connect, NoConnection,
       Fetched, FetchFails, TrimUmbs, Prune, UsermanFails, Inv, RunsOK
  <2>3. ~(Tick \/ Crash)
    BY <2>1 DEF Tick, Crash, Inv, RunsOK
  <2>4. BeginUserman(r) \/ BeginFull(r) \/ FullStep(r) \/ UsermanStep(r)
    BY <2>1, <2>2, <2>3 DEF Next
  <2>5. Prune(r) /\ got[r]
    BY <2>1, <2>4 DEF BeginUserman, BeginFull, FullStep, Acquire, Busy, Save, Export, Download, Trim,
       TrimExports, FullFails, FullSteps, UsermanStep, Dump, Push, Move, NotMoved, Connect,
       NoConnection, Fetched, FetchFails, TrimUmbs, Prune, UsermanFails, Inv, RunsOK
  <2>6. CASE Overtaken(r)
    BY <2>6 DEF Overtaken
  <2>7. CASE Arrived(r)
    <3>1. PICK f \in local : f.name = name[r] /\ f.whole /\ f.at >= began[r]
      BY <2>5, <2>7 DEF Arrived
    <3>2. CASE f \in Doomed(local, LocalKeep)
      <4>1. clock["host"] - f.at >= LocalKeep
        BY <3>2, DoomedIsOld DEF DownInv, Inv
      <4>2. f.at \in Nat /\ began[r] \in Nat /\ clock["host"] \in Nat
        BY DEF Inv, Files, Places
      <4> QED
        BY <3>1, <4>1, <4>2, KeepAssumption
    <3>3. CASE f \notin Doomed(local, LocalKeep)
      BY <2>5, <3>1, <3>3 DEF Prune
    <3> QED
      BY <3>2, <3>3
  <2> QED
    BY <2>5, <2>6, <2>7 DEF DownInv, Arrivals, Fetching
<1> QED
  BY <1>1, <1>2, <1>3, InvInit, DownInit, PTL DEF Spec, DownloadReported
-----------------------------------------------------------------------------
(* What clean-up leaves.  Of a file it dooms, keep newer ones stay: newest *)
(* of the doomed is one above which there is the smallest set of files,    *)
(* and these are spared.                                                   *)
Newer(files, f) == {g \in files : g.at > f.at}

LEMMA DoomedLeaves ==
    ASSUME NEW files, IsFiniteSet(files), \A g \in files : g.at \in Int,
           NEW keep \in Nat, NEW f \in Doomed(files, keep),
           NEW rest, IsFiniteSet(rest), files \ Doomed(files, keep) \subseteq rest
    PROVE  Cardinality(Newer(rest, f)) >= keep
<1> DEFINE D == Doomed(files, keep)
           T == {Newer(files, d) : d \in D}
           R == StrictSubsetOrdering(files)
<1>0. /\ D \subseteq files /\ f \in D /\ files \ D \subseteq rest
      /\ \A d \in D : Cardinality(Newer(files, d)) >= keep
  BY DEF Doomed, Newer
<1> HIDE DEF D
<1>1. T \subseteq FiniteSubsetsOf(files)
  <2>1. \A d : Newer(files, d) \subseteq files
    BY DEF Newer
  <2> QED
    BY <2>1, FS_Subset DEF FiniteSubsetsOf
<1>2. T # {}
  BY <1>0
<1> HIDE DEF T
<1>3. \E U \in T : \A V \in T : ~(<<V, U>> \in R)
  BY <1>1, <1>2, FS_StrictSubsetOrderingWellFounded, WFMin
<1> USE DEF T
<1>4. PICK d \in D : \A e \in D : ~(<<Newer(files, e), Newer(files, d)>> \in R)
  BY <1>3
<1>5. ASSUME NEW g \in D, g.at > d.at PROVE FALSE
  <2>1. Newer(files, g) \subseteq Newer(files, d)
    BY <1>0, <1>5 DEF Newer
  <2>2. g \in Newer(files, d) /\ g \notin Newer(files, g)
    BY <1>0, <1>5 DEF Newer
  <2>3. <<Newer(files, g), Newer(files, d)>> \in R
    BY <2>1, <2>2 DEF StrictSubsetOrdering, Newer
  <2> QED
    BY <1>4, <2>3
<1>6. Newer(files, d) \subseteq Newer(rest, f)
  <2>1. d.at \in Int /\ f.at \in Int /\ ~(f.at > d.at)
    BY <1>0, <1>5
  <2> SUFFICES ASSUME NEW g \in files, g.at > d.at PROVE g \in rest /\ g.at > f.at
    BY DEF Newer
  <2>2. g \in rest
    BY <1>0, <1>5
  <2> QED
    BY <2>1, <2>2
<1>7. IsFiniteSet(Newer(rest, f))
  BY FS_Subset DEF Newer
<1>8. /\ Cardinality(Newer(files, d)) <= Cardinality(Newer(rest, f))
      /\ Cardinality(Newer(files, d)) \in Nat /\ Cardinality(Newer(rest, f)) \in Nat
  BY <1>6, <1>7, FS_Subset, FS_CardinalityType
<1> QED
  BY <1>0, <1>8

Finite == IsFiniteSet(onRouter) /\ IsFiniteSet(umbs) /\ IsFiniteSet(local)

LEMMA FiniteInit == Init => Finite
<1> SUFFICES ASSUME Init PROVE Finite
  OBVIOUS
<1>1. IsFiniteSet({}) /\ \A x : IsFiniteSet({x})
  BY FS_EmptySet, FS_Singleton
<1>2. \A x, y : IsFiniteSet({x, y})
  <2> SUFFICES ASSUME NEW x, NEW y PROVE IsFiniteSet({x, y})
    OBVIOUS
  <2>1. {x, y} = {x} \union {y}
    OBVIOUS
  <2>2. IsFiniteSet({x} \union {y})
    BY <1>1, FS_Union
  <2> QED
    BY <2>1, <2>2
<1>3. onRouter = {} \/ \E x, y : onRouter = {x, y}
  BY DEF Init
<1>4. IsFiniteSet(local)
  BY <1>1 DEF Init
<1>5. IsFiniteSet(onRouter)
  <2>1. CASE onRouter = {}
    BY <1>1, <2>1
  <2>2. CASE \E x, y : onRouter = {x, y}
    BY <1>2, <2>2
  <2> QED
    BY <1>3, <2>1, <2>2
<1>6. umbs = {}
  BY DEF Init
<1> QED
  BY <1>1, <1>4, <1>5, <1>6 DEF Finite

LEMMA FiniteNext == Inv /\ Finite /\ [Next]_vars => Finite'
<1> SUFFICES ASSUME Inv, Finite, [Next]_vars PROVE Finite'
  OBVIOUS
<1>1. ASSUME NEW S, IsFiniteSet(S), NEW x, NEW U, U \subseteq S \union {x} PROVE IsFiniteSet(U)
  <2>1. IsFiniteSet({x})
    BY FS_Singleton
  <2>2. IsFiniteSet(S \union {x})
    BY <1>1, <2>1, FS_Union
  <2> QED
    BY <1>1, <2>2, FS_Subset
<1>2. \E x : onRouter' \subseteq onRouter \union {x}
  BY DEF Next, BeginUserman, BeginFull, FullStep, Acquire, Busy, Save, Export, Write, Download, Trim,
     TrimExports, FullFails, UsermanStep, Dump, Push, Move, NotMoved, Connect, NoConnection,
     Fetched, FetchFails, TrimUmbs, Prune, UsermanFails, Tick, Crash, router, vars
<1>3. \E x : umbs' \subseteq umbs \union {x}
  BY DEF Next, BeginUserman, BeginFull, FullStep, Acquire, Busy, Save, Export, Download, Trim,
     TrimExports, FullFails, UsermanStep, Dump, WriteUmb, Others, Push, Move, NotMoved, Connect,
     NoConnection, Fetched, FetchFails, TrimUmbs, Prune, UsermanFails, Tick, Crash, router, vars
<1>4. \E x : local' \subseteq local \union {x}
  <2>1. CASE \E r \in Runs : Fetched(r)
    BY <2>1, FetchedOnce DEF Others, Inv
  <2>2. CASE ~ \E r \in Runs : Fetched(r)
    BY <2>2 DEF Next, BeginUserman, BeginFull, FullStep, Acquire, Busy, Save, Export, Download,
       Trim, TrimExports, FullFails, UsermanStep, Dump, Push, Move, NotMoved, Connect, Others,
       NoConnection, FetchFails, TrimUmbs, Prune, UsermanFails, Tick, Crash, host, vars
  <2> QED
    BY <2>1, <2>2
<1> QED
  BY <1>1, <1>2, <1>3, <1>4 DEF Finite

(* cleanup_router_files and cleanup_old_files, of one run or of several at *)
(* once and however many of their removals fail, never take one of the     *)
(* files to be kept: a file of the router goes when it is written anew or  *)
(* RouterKeep newer files stay, one of the host when it is written anew,   *)
(* is the file of a run under way or LocalKeep newer files stay.           *)
NewestKept ==
    [][/\ \A f \in onRouter \ onRouter' : Cardinality(Newer(onRouter', f)) >= RouterKeep
       /\ \A f \in umbs \ umbs' :
             (\A g \in umbs' : g.name # f.name) => Cardinality(Newer(umbs', f)) >= RouterKeep
       /\ \A f \in local :
             /\ \A g \in local' : g.name # f.name
             /\ \A r \in Runs : pc[r] \in UmSteps => name[r] # f.name
             => Cardinality(Newer(local', f)) >= LocalKeep]_vars

THEOREM RetentionSparesNewest == Spec => NewestKept
<1>1. Inv /\ [Next]_vars => Inv'
  BY RunsNext, NamesNext, FilesNext DEF Inv
<1>2. Inv /\ Finite /\ [Next]_vars =>
      [/\ \A f \in onRouter \ onRouter' : Cardinality(Newer(onRouter', f)) >= RouterKeep
       /\ \A f \in umbs \ umbs' :
             (\A g \in umbs' : g.name # f.name) => Cardinality(Newer(umbs', f)) >= RouterKeep
       /\ \A f \in local :
             /\ \A g \in local' : g.name # f.name
             /\ \A r \in Runs : pc[r] \in UmSteps => name[r] # f.name
             => Cardinality(Newer(local', f)) >= LocalKeep]_vars
  <2> SUFFICES ASSUME Inv, Finite, Next
               PROVE
       /\ \A f \in onRouter \ onRouter' : Cardinality(Newer(onRouter', f)) >= RouterKeep
       /\ \A f \in umbs \ umbs' :
             (\A g \in umbs' : g.name # f.name) => Cardinality(Newer(umbs', f)) >= RouterKeep
       /\ \A f \in local :
             /\ \A g \in local' : g.name # f.name
             /\ \A r \in Runs : pc[r] \in UmSteps => name[r] # f.name
             => Cardinality(Newer(local', f)) >= LocalKeep
    BY DEF vars
  <2>0. Finite'
    BY FiniteNext
  <2>1. ASSUME NEW f \in onRouter, f \notin onRouter'
        PROVE  Cardinality(Newer(onRouter', f)) >= RouterKeep
    <3> DEFINE exports == {g \in onRouter : g.part = "rsc"}
    <3>1. \E files \in {onRouter, exports} :
             f \in Doomed(files, RouterKeep) /\ files \ Doomed(files, RouterKeep) \subseteq onRouter'
      BY <2>1 DEF Next, BeginUserman, BeginFull, FullStep, Acquire, Busy, Save, Export, Write, Download,
         Trim, TrimExports, FullFails, UsermanStep, Dump, Push, Move, NotMoved, Connect, NoConnection,
         Fetched, FetchFails, TrimUmbs, Prune, UsermanFails, Tick, Crash, router
    <3>2. \A g \in onRouter : g.at \in Int
      BY DEF Inv, Files
    <3>3. IsFiniteSet(onRouter) /\ IsFiniteSet(exports) /\ IsFiniteSet(onRouter')
      BY <2>0, FS_Subset DEF Finite
    <3> QED
      BY <3>1, <3>2, <3>3, DoomedLeaves, KeepAssumption
  <2>2. ASSUME NEW f \in umbs, \A g \in umbs' : g.name # f.name
        PROVE  Cardinality(Newer(umbs', f)) >= RouterKeep
    <3>0. f \notin umbs'
      BY <2>2
    <3>1. ASSUME NEW r \in Runs, WriteUmb(r) PROVE FALSE
      <4> DEFINE new == [name |-> name[r], at |-> clock["umbs"] + 1]
      <4>1. umbs' = Others(umbs, name[r]) \union {new}
        BY <3>1 DEF WriteUmb
      <4>2. new.name = name[r] /\ new \in umbs'
        BY <4>1
      <4>3. f.name # name[r]
        BY <2>2, <4>2
      <4> QED
        BY <3>0, <4>1, <4>3 DEF Others
    <3>2. umbs' # umbs
      BY <3>0
    <3>3. \E r \in Runs : TrimUmbs(r)
      BY <3>1, <3>2
      DEF Next, BeginUserman, BeginFull, FullStep, Acquire, Busy, Save, Export, Download, Trim,
         TrimExports, FullFails, UsermanStep, Dump, Push, Move, NotMoved, Connect,
         NoConnection, Fetched, FetchFails, Prune, UsermanFails, Tick, Crash, router
    <3>4. f \in Doomed(umbs, RouterKeep) /\ umbs \ Doomed(umbs, RouterKeep) \subseteq umbs'
      BY <3>0, <3>3 DEF TrimUmbs
    <3>5. \A g \in umbs : g.at \in Int
      BY DEF Inv, Files
    <3> QED
      BY <2>0, <3>4, <3>5, DoomedLeaves, KeepAssumption DEF Finite
  <2>3. ASSUME NEW f \in local, \A g \in local' : g.name # f.name,
               \A r \in Runs : pc[r] \in UmSteps => name[r] # f.name
        PROVE  Cardinality(Newer(local', f)) >= LocalKeep
    <3>1. ASSUME NEW r \in Runs, Fetched(r) PROVE FALSE
      <4>1. f \in Others(local, name[r])
        BY <2>3, <3>1 DEF Fetched, UmSteps, Others
      <4> QED
        BY <2>3, <3>1, <4>1 DEF Fetched
    <3>2. f \in Doomed(local, LocalKeep) /\ local \ Doomed(local, LocalKeep) \subseteq local'
      BY <2>3, <3>1 DEF Next, BeginUserman, BeginFull, FullStep, Acquire, Busy, Save, Export, Download,
         Trim, TrimExports, FullFails, UsermanStep, Dump, Push, Move, NotMoved, Connect,
         Others, NoConnection, FetchFails, TrimUmbs, Prune, UsermanFails, UmSteps, Tick, Crash, host
    <3>3. \A g \in local : g.at \in Int
      BY DEF Inv, Files
    <3> QED
      BY <2>0, <3>2, <3>3, DoomedLeaves, KeepAssumption DEF Finite
  <2> QED
    BY <2>1, <2>2, <2>3
<1> QED
  BY <1>1, <1>2, InvInit, FiniteInit, FiniteNext, PTL DEF Spec, NewestKept
=============================================================================
