---------------------------- MODULE PartsProofs ----------------------------
(***************************************************************************)
(* What holds of the atomic file write for every number of threads, names, *)
(* attempts and crashes, of a user's sessions for every length of their    *)
(* lives, every limit and every number of rows, of the event bus for every *)
(* number of events, hooks and changes and every depth of handlers, and of *)
(* what comes next on a cron schedule, for every schedule and time.        *)
(***************************************************************************)
EXTENDS AtomicFile, Sessions, EventBus, Cron, FiniteSetTheorems, SequenceTheorems,
        WellFoundedInduction, TLAPS

-----------------------------------------------------------------------------
(***************************************************************************)
(* The inductive invariant of ReplacedCleanly.  That the target is never   *)
(* a mix needs what a temporary is at each step of the call that owns it,  *)
(* and that the call owns one; that no two calls share one needs the       *)
(* counter to be past every name in use; and that a write that was         *)
(* reported as done stays needs the newest binding of the target to be at  *)
(* least that of every call that is about to report.                       *)
(***************************************************************************)
FilesTyped ==
    /\ bound \in Seq(File) /\ bound # <<>>
    /\ temps \in [DOMAIN temps -> File] /\ DOMAIN temps \subseteq 1 .. MaxNames
    /\ counter \in 1 .. MaxNames + 1 /\ job \in [Threads -> Job]
    /\ renames \in Nat /\ acked \in Nat /\ crashes \in Nat

Named ==
    /\ \A t \in Threads :
           /\ job[t].step \in {"idle", "open"} => job[t].name = NoName
           /\ job[t].step = "open" => job[t].tries < Attempts
           /\ job[t].step \in {"write", "sync", "rename"} => job[t].name \in DOMAIN temps
           /\ job[t].step = "dirsync" => job[t].name \notin DOMAIN temps
           /\ job[t].name < counter
    /\ NoLitter

Written ==
    \A t \in Threads :
        /\ job[t].step \in {"sync", "rename"} => Mine(t).whole
        /\ job[t].step = "rename" => Mine(t).synced

Numbered ==
    /\ OldOrNew /\ acked <= renames
    /\ \A i \in 1 .. Len(bound) : bound[i].serial <= renames
    /\ \A t \in Threads :
           /\ job[t].serial <= renames
           /\ job[t].step = "dirsync" => job[t].serial <= Newest.serial

FileInv == FilesTyped /\ Named /\ Written /\ Numbered

\* What a step may do to the call of one thread, and to no other's.
Aside(t) == \A u \in Threads \ {t} : job'[u] = job[u]

\* Every step of a thread leaves it a well-formed call, and the others theirs.
LEMMA JobSteps ==
    ASSUME FilesTyped, Named, NEW t \in Threads
    PROVE  /\ Begin(t) => /\ job' \in [Threads -> Job] /\ Aside(t) /\ job'[t].step = "open"
                          /\ job'[t].name = NoName /\ job'[t].tries = 0 /\ job'[t].serial = 0
           /\ Open(t) /\ Creates(t) =>
                  /\ job' \in [Threads -> Job] /\ Aside(t) /\ job'[t].step = "write"
                  /\ job'[t].name = counter /\ job'[t].serial = job[t].serial
           /\ Open(t) /\ StepsOver(t) =>
                  /\ job' \in [Threads -> Job] /\ Aside(t) /\ job'[t].step \in {"idle", "open"}
                  /\ job'[t].name = NoName /\ job'[t].serial \in {0, job[t].serial}
                  /\ job'[t].step = "open" => job'[t].tries < Attempts
           /\ Write(t) => /\ job' \in [Threads -> Job] /\ Aside(t) /\ job'[t].step = "sync"
                          /\ job'[t].name = job[t].name /\ job'[t].serial = job[t].serial
           /\ Sync(t) => /\ job' \in [Threads -> Job] /\ Aside(t) /\ job'[t].step = "rename"
                         /\ job'[t].name = job[t].name /\ job'[t].serial = job[t].serial
           /\ Rename(t) => /\ job' \in [Threads -> Job] /\ Aside(t) /\ job'[t].step = "dirsync"
                           /\ job'[t].name = job[t].name /\ job'[t].serial = renames + 1
           /\ Fails(t) => /\ job' \in [Threads -> Job] /\ Aside(t)
                          /\ \/ job'[t] = Idle /\ job[t].name = NoName
                             \/ /\ job'[t].step = "clean"
                                /\ job'[t].name = job[t].name /\ job'[t].serial = job[t].serial
           /\ SyncDirectory(t) \/ Cleans(t) =>
                  job' \in [Threads -> Job] /\ Aside(t) /\ job'[t] = Idle
<1> USE AtomicFileAssumption
<1>0. job \in [Threads -> Job] /\ job[t] \in Job /\ Idle \in Job
      /\ counter \in 1 .. MaxNames + 1 /\ renames \in Nat
  BY DEF FilesTyped, Job, Idle, NoName
<1>1. ASSUME NEW x \in Job, job' = [job EXCEPT ![t] = x]
      PROVE  job' \in [Threads -> Job] /\ Aside(t) /\ job'[t] = x
  BY <1>0, <1>1 DEF Aside
<1> DEFINE Stepped(s) == [job[t] EXCEPT !.step = s]
           Opened == [Idle EXCEPT !.step = "open"]
           Again == [job[t] EXCEPT !.tries = job[t].tries + 1]
           Made == [job[t] EXCEPT !.step = "write", !.name = counter]
           Renamed == [job[t] EXCEPT !.step = "dirsync", !.serial = renames + 1]
<1>2. \A s \in {"clean", "sync", "rename"} :
          /\ Stepped(s) \in Job /\ Stepped(s).step = s
          /\ Stepped(s).name = job[t].name /\ Stepped(s).serial = job[t].serial
          /\ [job EXCEPT ![t].step = s] = [job EXCEPT ![t] = Stepped(s)]
  BY <1>0 DEF Job
<1>3. /\ Opened \in Job /\ Opened.step = "open" /\ Opened.name = NoName
      /\ Opened.tries = 0 /\ Opened.serial = 0
  BY DEF Job, Idle, NoName
<1>4. Begin(t) => /\ job' \in [Threads -> Job] /\ Aside(t) /\ job'[t].step = "open"
                  /\ job'[t].name = NoName /\ job'[t].tries = 0 /\ job'[t].serial = 0
  BY <1>1, <1>3 DEF Begin
<1>5. Open(t) /\ Creates(t) =>
          /\ job' \in [Threads -> Job] /\ Aside(t) /\ job'[t].step = "write"
          /\ job'[t].name = counter /\ job'[t].serial = job[t].serial
  <2>1. counter <= MaxNames =>
            Made \in Job /\ Made.step = "write" /\ Made.name = counter /\ Made.serial = job[t].serial
    <3> DEFINE Names == 0 .. MaxNames
               Tries == 0 .. Attempts
    <3>1. counter <= MaxNames => counter \in Names
      BY <1>0
    <3>2. Job = [step : {"idle", "open", "write", "sync", "rename", "dirsync", "clean"},
                 name : Names, tries : Tries, serial : Nat]
      BY DEF Job
    <3> HIDE DEF Names, Tries
    <3> QED
      BY <1>0, <3>1, <3>2
  <2>2. Creates(t) => job' = [job EXCEPT ![t] = Made]
    BY <1>0 DEF Creates, Job
  <2> HIDE DEF Made
  <2> QED
    BY <1>1, <2>1, <2>2 DEF Open
<1>6. Open(t) /\ StepsOver(t) =>
          /\ job' \in [Threads -> Job] /\ Aside(t) /\ job'[t].step \in {"idle", "open"}
          /\ job'[t].name = NoName /\ job'[t].serial \in {0, job[t].serial}
          /\ job'[t].step = "open" => job'[t].tries < Attempts
  <2>1. CASE Open(t) /\ StepsOver(t) /\ job[t].tries + 1 = Attempts
    <3>1. job' = [job EXCEPT ![t] = Idle]
      BY <1>0, <2>1 DEF StepsOver
    <3> QED
      BY <1>0, <1>1, <3>1 DEF Idle, NoName
  <2>2. CASE Open(t) /\ StepsOver(t) /\ job[t].tries + 1 # Attempts
    <3>1. job' = [job EXCEPT ![t] = Again]
      BY <1>0, <2>2 DEF StepsOver, Job
    <3>2. job[t].step = "open" /\ job[t].name = NoName /\ job[t].tries < Attempts
      BY <2>2 DEF Open, Named
    <3>3. /\ Again \in Job /\ Again.step = "open" /\ Again.name = NoName
          /\ Again.serial = job[t].serial /\ Again.tries < Attempts
      BY <1>0, <2>2, <3>2 DEF Job
    <3> HIDE DEF Again
    <3> QED
      BY <1>1, <3>1, <3>3
  <2> QED
    BY <2>1, <2>2
<1>7. Write(t) => /\ job' \in [Threads -> Job] /\ Aside(t) /\ job'[t].step = "sync"
                  /\ job'[t].name = job[t].name /\ job'[t].serial = job[t].serial
  BY <1>1, <1>2 DEF Write, Goes
<1>8. Sync(t) => /\ job' \in [Threads -> Job] /\ Aside(t) /\ job'[t].step = "rename"
                 /\ job'[t].name = job[t].name /\ job'[t].serial = job[t].serial
  BY <1>1, <1>2 DEF Sync, Goes
<1>9. Rename(t) => /\ job' \in [Threads -> Job] /\ Aside(t) /\ job'[t].step = "dirsync"
                   /\ job'[t].name = job[t].name /\ job'[t].serial = renames + 1
  <2>1. /\ Renamed \in Job /\ Renamed.step = "dirsync" /\ Renamed.name = job[t].name
        /\ Renamed.serial = renames + 1
    <3> DEFINE Names == 0 .. MaxNames
               Tries == 0 .. Attempts
               number == renames + 1
    <3>1. number \in Nat
      BY <1>0
    <3>2. Job = [step : {"idle", "open", "write", "sync", "rename", "dirsync", "clean"},
                 name : Names, tries : Tries, serial : Nat]
      BY DEF Job
    <3> HIDE DEF Names, Tries, number
    <3> QED
      BY <1>0, <3>1, <3>2 DEF number
  <2>2. Rename(t) => job' = [job EXCEPT ![t] = Renamed]
    BY <1>0 DEF Rename, Job
  <2> HIDE DEF Renamed
  <2> QED
    BY <1>1, <2>1, <2>2
<1>10. Fails(t) => /\ job' \in [Threads -> Job] /\ Aside(t)
                   /\ \/ job'[t] = Idle /\ job[t].name = NoName
                      \/ /\ job'[t].step = "clean"
                         /\ job'[t].name = job[t].name /\ job'[t].serial = job[t].serial
  BY <1>0, <1>1, <1>2 DEF Fails
<1>11. SyncDirectory(t) \/ Cleans(t) =>
           job' \in [Threads -> Job] /\ Aside(t) /\ job'[t] = Idle
  BY <1>0, <1>1 DEF SyncDirectory, Cleans
<1> QED
  BY <1>4, <1>5, <1>6, <1>7, <1>8, <1>9, <1>10, <1>11

\* What a step of a thread does to the temporaries: it touches its own only.
LEMMA TempSteps ==
    ASSUME FilesTyped, Named, NEW t \in Threads
    PROVE  LET n == job[t].name IN
           /\ Creates(t) => /\ DOMAIN temps' = DOMAIN temps \cup {counter}
                            /\ temps'[counter] = Blank
                            /\ \A m \in DOMAIN temps : temps'[m] = temps[m]
           /\ Write(t) \/ Sync(t) =>
                  /\ n \in DOMAIN temps /\ DOMAIN temps' = DOMAIN temps /\ temps'[n] \in File
                  /\ \A m \in DOMAIN temps \ {n} : temps'[m] = temps[m]
           /\ Write(t) => temps'[n].whole
           /\ Sync(t) => temps'[n].synced /\ temps'[n].whole = temps[n].whole
           /\ Rename(t) \/ Cleans(t) =>
                  /\ DOMAIN temps' = DOMAIN temps \ {n}
                  /\ \A m \in DOMAIN temps' : temps'[m] = temps[m]
<1> DEFINE n == job[t].name
<1>0. temps \in [DOMAIN temps -> File]
  BY DEF FilesTyped
<1>1. Creates(t) => /\ DOMAIN temps' = DOMAIN temps \cup {counter}
                    /\ temps'[counter] = Blank
                    /\ \A m \in DOMAIN temps : temps'[m] = temps[m]
  BY DEF Creates
<1>2. ASSUME n \in DOMAIN temps,
             \/ temps' = [temps EXCEPT ![n].whole = TRUE]
             \/ temps' = [temps EXCEPT ![n].synced = TRUE]
      PROVE  /\ DOMAIN temps' = DOMAIN temps /\ temps'[n] \in File
             /\ \A m \in DOMAIN temps \ {n} : temps'[m] = temps[m]
  <2>1. temps[n] \in File
    BY <1>0, <1>2
  <2>2. ASSUME NEW f \in File, temps' = [temps EXCEPT ![n] = f]
        PROVE  /\ DOMAIN temps' = DOMAIN temps /\ temps'[n] \in File
               /\ \A m \in DOMAIN temps \ {n} : temps'[m] = temps[m]
    BY <1>2, <2>2
  <2> DEFINE w == [temps[n] EXCEPT !.whole = TRUE]
             y == [temps[n] EXCEPT !.synced = TRUE]
  <2>3. w \in File /\ y \in File
    BY <2>1 DEF File
  <2>4. temps' = [temps EXCEPT ![n] = w] \/ temps' = [temps EXCEPT ![n] = y]
    BY <1>2
  <2> HIDE DEF w, y
  <2> QED
    BY <2>2, <2>3, <2>4, Zenon
<1>3. Write(t) \/ Sync(t) =>
          /\ n \in DOMAIN temps /\ DOMAIN temps' = DOMAIN temps /\ temps'[n] \in File
          /\ \A m \in DOMAIN temps \ {n} : temps'[m] = temps[m]
  BY <1>2 DEF Write, Sync, Named
<1>4. Write(t) => temps'[n].whole
  BY <1>0 DEF Write, File, Named
<1>5. Sync(t) => temps'[n].synced /\ temps'[n].whole = temps[n].whole
  BY <1>0 DEF Sync, File, Named
<1>6. Rename(t) \/ Cleans(t) =>
          /\ DOMAIN temps' = DOMAIN temps \ {n}
          /\ \A m \in DOMAIN temps' : temps'[m] = temps[m]
  BY DEF Rename, Cleans, Drop
<1> QED
  BY <1>1, <1>3, <1>4, <1>5, <1>6

\* The target as it was, no temporary and no call: the invariant holds.
LEMMA FileInvInit == FileInit => FileInv
<1> SUFFICES ASSUME FileInit PROVE FileInv
  OBVIOUS
<1> USE AtomicFileAssumption
<1> DEFINE first == [whole |-> TRUE, synced |-> TRUE, serial |-> 0]
<1>1. first \in File /\ bound = <<first>>
  BY DEF FileInit, File
<1>2. /\ Idle \in Job /\ Idle.step = "idle" /\ Idle.name = NoName /\ Idle.serial = 0
      /\ \A t \in Threads : job[t] = Idle
  BY DEF FileInit, Idle, Job, NoName
<1>3. bound \in Seq(File) /\ Len(bound) = 1 /\ bound[1] = first
  BY <1>1
<1>4. FilesTyped
  BY <1>2, <1>3 DEF FileInit, FilesTyped
<1>5. Named
  BY <1>2 DEF FileInit, Named, NoLitter, NoName
<1>6. Written
  BY <1>2 DEF Written
<1>7. Numbered
  BY <1>2, <1>3 DEF FileInit, Numbered, OldOrNew
<1> QED
  BY <1>4, <1>5, <1>6, <1>7 DEF FileInv

\* The target is always bound to a file.
LEMMA NewestType == FilesTyped => Len(bound) \in Nat \ {0} /\ Newest \in File
<1> SUFFICES ASSUME FilesTyped PROVE Len(bound) \in Nat \ {0} /\ Newest \in File
  OBVIOUS
<1>1. bound \in Seq(File) /\ bound # <<>>
  BY DEF FilesTyped
<1>2. Len(bound) \in Nat \ {0}
  BY <1>1
<1> QED
  BY <1>1, <1>2 DEF Newest

\* The renamed file and the file a power loss leaves are files.
LEMMA RenamedFile ==
    ASSUME FilesTyped, Named, Written, NEW t \in Threads, Rename(t)
    PROVE  \E new \in File :
               /\ bound' = Append(bound, new) /\ new.serial = renames + 1
               /\ new.whole /\ new.synced
<1> DEFINE new == [Mine(t) EXCEPT !.serial = renames + 1]
           number == renames + 1
<1>1. Mine(t) \in File /\ Mine(t).whole /\ Mine(t).synced
  BY DEF FilesTyped, Named, Written, Rename, Mine
<1>2. number \in Nat
  BY DEF FilesTyped
<1>3. new = [Mine(t) EXCEPT !.serial = number]
  OBVIOUS
<1> HIDE DEF number
<1>4. new \in File /\ new.serial = number /\ new.whole /\ new.synced
  BY <1>1, <1>2, <1>3 DEF File
<1> HIDE DEF new
<1> QED
  BY <1>4 DEF Rename, new, number

\* A power cut leaves the target bound to one of its files, whole as far as it was synced.
LEMMA LostFile ==
    ASSUME FilesTyped, Numbered, PowerLoss
    PROVE  \E i \in 1 .. Len(bound) : \E new \in File :
               /\ bound' = <<new>> /\ new.serial = bound[i].serial
               /\ new.whole /\ new.synced
<1>1. PICK i \in 1 .. Len(bound) :
          bound' = <<[bound[i] EXCEPT !.whole = @ /\ bound[i].synced, !.synced = TRUE]>>
  BY DEF PowerLoss
<1>2. bound[i] \in File /\ bound[i].whole /\ bound[i].synced
  BY DEF FilesTyped, Numbered, OldOrNew
<1> DEFINE kept == bound[i].whole /\ bound[i].synced
           new == [bound[i] EXCEPT !.whole = kept, !.synced = TRUE]
<1>3. bound' = <<new>>
  BY <1>1
<1>4. kept = TRUE
  BY <1>2 DEF File
<1>5. new \in File /\ new.serial = bound[i].serial /\ new.whole /\ new.synced
  <2> HIDE DEF kept
  <2> QED
    BY <1>2, <1>4 DEF File
<1> HIDE DEF new
<1> QED
  BY <1>3, <1>5

\* Every step keeps the types.
LEMMA FilesTypedStep ==
    ASSUME FileInv, [FileNext]_fileVars
    PROVE  FilesTyped'
<1> USE AtomicFileAssumption
<1>0. FilesTyped /\ Named /\ Written /\ Numbered
  BY DEF FileInv
<1>1. /\ bound \in Seq(File) /\ bound # <<>>
      /\ temps \in [DOMAIN temps -> File] /\ DOMAIN temps \subseteq 1 .. MaxNames
      /\ counter \in 1 .. MaxNames + 1 /\ job \in [Threads -> Job]
      /\ renames \in Nat /\ acked \in Nat /\ crashes \in Nat
  BY <1>0 DEF FilesTyped
<1>2. Blank \in File /\ Idle \in Job
  BY DEF Blank, File, Idle, Job, NoName
<1>3. \A new \in File : /\ Append(bound, new) \in Seq(File) /\ Append(bound, new) # <<>>
                        /\ <<new>> \in Seq(File) /\ <<new>> # <<>>
  BY <1>1
<1>4. ASSUME NEW t \in Threads, Begin(t) PROVE FilesTyped'
  BY <1>0, <1>1, <1>4, JobSteps DEF Begin, FilesTyped
<1>5. ASSUME NEW t \in Threads, Open(t) PROVE FilesTyped'
  <2>1. job' \in [Threads -> Job]
    BY <1>0, <1>5, JobSteps DEF Open
  <2>2. temps' \in [DOMAIN temps' -> File] /\ DOMAIN temps' \subseteq 1 .. MaxNames
    BY <1>1, <1>2, <1>5 DEF Open, Creates, StepsOver
  <2>3. counter' \in 1 .. MaxNames + 1
    BY <1>1, <1>5 DEF Open
  <2> QED
    BY <1>1, <1>5, <2>1, <2>2, <2>3 DEF Open, FilesTyped
<1>6. ASSUME NEW t \in Threads, Write(t) \/ Sync(t) PROVE FilesTyped'
  <2>1. job' \in [Threads -> Job]
    BY <1>0, <1>6, JobSteps
  <2>2. temps' \in [DOMAIN temps' -> File] /\ DOMAIN temps' \subseteq 1 .. MaxNames
    <3> DEFINE n == job[t].name
    <3>1. n \in DOMAIN temps /\ temps'[n] \in File
      BY <1>0, <1>6, TempSteps
    <3>2. temps' = [temps EXCEPT ![n] = temps'[n]]
      <4>1. \/ temps' = [temps EXCEPT ![n].whole = TRUE]
            \/ temps' = [temps EXCEPT ![n].synced = TRUE]
        BY <1>6 DEF Write, Sync
      <4> QED
        BY <1>1, <3>1, <4>1
    <3> QED
      BY <1>1, <3>1, <3>2
  <2> QED
    BY <1>1, <1>6, <2>1, <2>2 DEF Write, Sync, FilesTyped
<1>7. ASSUME NEW t \in Threads, Rename(t) PROVE FilesTyped'
  <2>1. job' \in [Threads -> Job]
    BY <1>0, <1>7, JobSteps
  <2>2. temps' \in [DOMAIN temps' -> File] /\ DOMAIN temps' \subseteq 1 .. MaxNames
    BY <1>1, <1>7 DEF Rename, Drop
  <2>3. bound' \in Seq(File) /\ bound' # <<>>
    BY <1>0, <1>3, <1>7, RenamedFile
  <2> QED
    BY <1>1, <1>7, <2>1, <2>2, <2>3 DEF Rename, FilesTyped
<1>8. ASSUME NEW t \in Threads, SyncDirectory(t) PROVE FilesTyped'
  <2>1. job' \in [Threads -> Job]
    BY <1>0, <1>8, JobSteps
  <2>2. bound' \in Seq(File) /\ bound' # <<>>
    BY <1>0, <1>3, <1>8, NewestType DEF SyncDirectory
  <2>3. acked' \in Nat
    BY <1>1, <1>8 DEF SyncDirectory, Job
  <2> QED
    BY <1>1, <1>8, <2>1, <2>2, <2>3 DEF SyncDirectory, FilesTyped
<1>9. ASSUME NEW t \in Threads, Fails(t) \/ Cleans(t) PROVE FilesTyped'
  <2>1. job' \in [Threads -> Job]
    BY <1>0, <1>9, JobSteps
  <2>2. temps' \in [DOMAIN temps' -> File] /\ DOMAIN temps' \subseteq 1 .. MaxNames
    BY <1>1, <1>9 DEF Fails, Cleans, Drop
  <2> QED
    BY <1>1, <1>9, <2>1, <2>2 DEF Fails, Cleans, FilesTyped
<1>10. CASE Killed \/ PowerLoss
  <2>1. bound' \in Seq(File) /\ bound' # <<>>
    BY <1>0, <1>1, <1>3, <1>10, LostFile DEF Killed
  <2>2. temps' \in [DOMAIN temps' -> File] /\ DOMAIN temps' \subseteq 1 .. MaxNames
    <3>1. PICK left \in SUBSET (1 .. MaxNames) : temps' = [n \in left |-> Blank]
      <4>1. CASE Killed
        BY <1>1, <4>1 DEF Killed
      <4>2. CASE PowerLoss
        <5>1. PICK left \in SUBSET (DOMAIN temps \cup 1 .. counter - 1) :
                  temps' = [n \in left |-> Blank]
          BY <4>2 DEF PowerLoss
        <5>2. 1 .. counter - 1 \subseteq 1 .. MaxNames
          BY <1>1
        <5> QED
          BY <1>1, <5>1, <5>2
      <4> QED
        BY <1>10, <4>1, <4>2
    <3> QED
      BY <1>2, <3>1
  <2>3. Crashes
    BY <1>10 DEF Killed, PowerLoss
  <2>4. /\ job' \in [Threads -> Job] /\ counter' \in 1 .. MaxNames + 1 /\ crashes' \in Nat
        /\ renames' \in Nat /\ acked' \in Nat
    BY <1>1, <1>2, <2>3 DEF Crashes
  <2> QED
    BY <2>1, <2>2, <2>4 DEF FilesTyped
<1>11. CASE UNCHANGED fileVars
  BY <1>1, <1>11 DEF fileVars, FilesTyped
<1> QED
  BY <1>4, <1>5, <1>6, <1>7, <1>8, <1>9, <1>10, <1>11 DEF FileNext

\* A call owns its temporary from the creation to the rename or the clean-up.
LEMMA NamedStep ==
    ASSUME FileInv, [FileNext]_fileVars
    PROVE  Named'
<1> USE AtomicFileAssumption DEF NoName
<1>0. FilesTyped /\ Named
  BY DEF FileInv
<1>1. /\ counter \in 1 .. MaxNames + 1 /\ job \in [Threads -> Job]
      /\ \A t \in Threads : job[t].name \in 0 .. MaxNames
      /\ 0 \notin DOMAIN temps
  BY <1>0 DEF FilesTyped, Job
<1>2. Idle.step = "idle" /\ Idle.name = NoName
  BY DEF Idle
<1>3. ASSUME NEW t \in Threads, Aside(t), job'[t].name = job[t].name \/ job'[t].name = NoName,
             job'[t].step \in {"idle", "open"} => job'[t].name = NoName,
             job'[t].step = "open" => job'[t].tries < Attempts,
             job'[t].step \in {"write", "sync", "rename"} => job'[t].name \in DOMAIN temps',
             job'[t].step = "dirsync" => job'[t].name \notin DOMAIN temps',
             counter' >= counter, counter' \in Nat, stale' = stale,
             DOMAIN temps' \subseteq DOMAIN temps,
             \A n \in DOMAIN temps \ DOMAIN temps' : n = job[t].name,
             job'[t].name = NoName => job[t].name \notin DOMAIN temps' \ stale
      PROVE  Named'
  <2>1. ASSUME NEW u \in Threads \ {t}
        PROVE  /\ job'[u] = job[u]
               /\ job[u].step \in {"write", "sync", "rename"} => job[u].name \in DOMAIN temps'
    <3>1. job'[u] = job[u]
      BY <1>3, <2>1 DEF Aside
    <3>2. job[u].name # NoName => job[u].name # job[t].name
      BY <1>0, <2>1 DEF Named, NoLitter
    <3> QED
      BY <1>0, <1>1, <1>3, <2>1, <3>1, <3>2 DEF Named
  <2>2. ASSUME NEW u \in Threads
        PROVE  /\ job'[u].step \in {"idle", "open"} => job'[u].name = NoName
               /\ job'[u].step = "open" => job'[u].tries < Attempts
               /\ job'[u].step \in {"write", "sync", "rename"} => job'[u].name \in DOMAIN temps'
               /\ job'[u].step = "dirsync" => job'[u].name \notin DOMAIN temps'
               /\ job'[u].name < counter'
    BY <1>0, <1>1, <1>3, <2>1 DEF Named
  <2>3. NoLitter'
    BY <1>0, <1>3, <2>1 DEF Named, NoLitter
  <2> QED
    BY <2>2, <2>3 DEF Named
<1>4. ASSUME NEW t \in Threads, Begin(t) PROVE Named'
  <2>1. job[t].name = NoName
    BY <1>0, <1>4 DEF Begin, Named
  <2>2. /\ Aside(t) /\ job'[t].step = "open" /\ job'[t].name = NoName /\ job'[t].tries = 0
    BY <1>0, <1>4, JobSteps
  <2>3. temps' = temps /\ counter' = counter /\ stale' = stale
    BY <1>4 DEF Begin
  <2> QED
    BY <1>1, <1>3, <2>1, <2>2, <2>3
<1>5. ASSUME NEW t \in Threads, Open(t), StepsOver(t) PROVE Named'
  <2>1. job[t].name = NoName
    BY <1>0, <1>5 DEF Open, Named
  <2>2. /\ Aside(t) /\ job'[t].step \in {"idle", "open"} /\ job'[t].name = NoName
        /\ job'[t].step = "open" => job'[t].tries < Attempts
    BY <1>0, <1>5, JobSteps
  <2>3. temps' = temps /\ counter' = counter + 1 /\ stale' = stale
    BY <1>5 DEF Open, StepsOver
  <2> QED
    BY <1>1, <1>3, <2>1, <2>2, <2>3
<1>6. ASSUME NEW t \in Threads, Open(t), Creates(t) PROVE Named'
  <2>1. /\ Aside(t) /\ job'[t].step = "write" /\ job'[t].name = counter
        /\ DOMAIN temps' = DOMAIN temps \cup {counter}
        /\ counter' = counter + 1 /\ stale' = stale
    BY <1>0, <1>6, JobSteps, TempSteps DEF Open
  <2>2. \A u \in Threads \ {t} : job'[u] = job[u] /\ job[u].name # counter
    BY <1>0, <1>1, <2>1 DEF Aside, Named
  <2>3. job[t].name = NoName
    BY <1>0, <1>6 DEF Open, Named
  <2>4. 0 \notin DOMAIN temps
    BY <1>0 DEF FilesTyped
  <2>5. NoLitter'
    BY <1>0, <2>1, <2>2, <2>3, <2>4 DEF Named, NoLitter
  <2>6. ASSUME NEW u \in Threads
        PROVE  /\ job'[u].step \in {"idle", "open"} => job'[u].name = NoName
               /\ job'[u].step = "open" => job'[u].tries < Attempts
               /\ job'[u].step \in {"write", "sync", "rename"} => job'[u].name \in DOMAIN temps'
               /\ job'[u].step = "dirsync" => job'[u].name \notin DOMAIN temps'
               /\ job'[u].name < counter'
    BY <1>0, <1>1, <2>1, <2>2 DEF Named
  <2> QED
    BY <2>5, <2>6 DEF Named
<1>7. ASSUME NEW t \in Threads, Write(t) \/ Sync(t) PROVE Named'
  <2>1. /\ Aside(t) /\ job'[t].step \in {"sync", "rename"} /\ job'[t].name = job[t].name
        /\ job[t].name \in DOMAIN temps /\ DOMAIN temps' = DOMAIN temps
    BY <1>0, <1>7, JobSteps, TempSteps
  <2>2. counter' = counter /\ stale' = stale
    BY <1>7 DEF Write, Sync
  <2>3. job[t].name # NoName
    BY <1>0, <2>1 DEF FilesTyped
  <2> QED
    BY <1>1, <1>3, <2>1, <2>2, <2>3
<1>8. ASSUME NEW t \in Threads, Rename(t) PROVE Named'
  <2>1. /\ Aside(t) /\ job'[t].step = "dirsync" /\ job'[t].name = job[t].name
        /\ DOMAIN temps' = DOMAIN temps \ {job[t].name}
    BY <1>0, <1>8, JobSteps, TempSteps
  <2>2. counter' = counter /\ stale' = stale
    BY <1>8 DEF Rename
  <2> QED
    BY <1>1, <1>3, <2>1, <2>2
<1>9. ASSUME NEW t \in Threads, SyncDirectory(t) PROVE Named'
  <2>1. Aside(t) /\ job'[t] = Idle
    BY <1>0, <1>9, JobSteps
  <2>2. temps' = temps /\ counter' = counter /\ stale' = stale
    BY <1>9 DEF SyncDirectory
  <2>3. job[t].name \notin DOMAIN temps
    BY <1>0, <1>9 DEF SyncDirectory, Named
  <2> QED
    BY <1>1, <1>2, <1>3, <2>1, <2>2, <2>3
<1>10. ASSUME NEW t \in Threads, Fails(t) PROVE Named'
  <2>1. /\ Aside(t)
        /\ \/ job'[t] = Idle /\ job[t].name = NoName
           \/ job'[t].step = "clean" /\ job'[t].name = job[t].name
    BY <1>0, <1>10, JobSteps
  <2>2. temps' = temps /\ counter' = counter /\ stale' = stale
    BY <1>10 DEF Fails
  <2>3. 0 \notin DOMAIN temps
    BY <1>0 DEF FilesTyped
  <2> QED
    BY <1>1, <1>2, <1>3, <2>1, <2>2, <2>3
<1>11. ASSUME NEW t \in Threads, Cleans(t) PROVE Named'
  <2>1. /\ Aside(t) /\ job'[t] = Idle
        /\ DOMAIN temps' = DOMAIN temps \ {job[t].name}
    BY <1>0, <1>11, JobSteps, TempSteps
  <2>2. counter' = counter /\ stale' = stale
    BY <1>11 DEF Cleans
  <2> QED
    BY <1>1, <1>2, <1>3, <2>1, <2>2
<1>12. CASE Killed \/ PowerLoss
  <2>1. /\ \A t \in Threads : job'[t] = Idle
        /\ counter' = 1 /\ DOMAIN temps' \subseteq stale'
    BY <1>12 DEF Killed, PowerLoss, Crashes
  <2> QED
    BY <1>2, <2>1 DEF Named, NoLitter
<1>13. CASE UNCHANGED fileVars
  BY <1>0, <1>13 DEF fileVars, Named, NoLitter
<1> QED
  BY <1>4, <1>5, <1>6, <1>7, <1>8, <1>9, <1>10, <1>11, <1>12, <1>13 DEF FileNext, Open

\* What a call renames over the target was written whole, then synced, by that call.
LEMMA WrittenStep ==
    ASSUME FileInv, [FileNext]_fileVars
    PROVE  Written'
<1> USE DEF NoName
<1>0. FilesTyped /\ Named /\ Written /\ 0 \notin DOMAIN temps
  BY DEF FileInv, FilesTyped
<1>1. Idle.step = "idle"
  BY DEF Idle
<1>2. ASSUME NEW t \in Threads, Aside(t),
             \A n \in DOMAIN temps' \ {job[t].name} : n \in DOMAIN temps => temps'[n] = temps[n],
             DOMAIN temps \ {job[t].name} \subseteq DOMAIN temps',
             job'[t].step \in {"sync", "rename"} => temps'[job'[t].name].whole,
             job'[t].step = "rename" => temps'[job'[t].name].synced
      PROVE  Written'
  <2>1. ASSUME NEW u \in Threads \ {t}, job[u].step \in {"sync", "rename"}
        PROVE  job'[u] = job[u] /\ temps'[job[u].name] = temps[job[u].name]
    <3>1. job'[u] = job[u]
      BY <1>2 DEF Aside
    <3>2. job[u].name \in DOMAIN temps /\ job[u].name # NoName
      BY <1>0, <2>1 DEF Named
    <3>3. job[u].name # job[t].name
      BY <1>0, <3>2 DEF Named, NoLitter
    <3> QED
      BY <1>2, <3>1, <3>2, <3>3
  <2>2. \A u \in Threads \ {t} : job'[u] = job[u]
    BY <1>2 DEF Aside
  <2> QED
    BY <1>0, <1>2, <2>1, <2>2 DEF Written, Mine
<1>3. ASSUME NEW t \in Threads, Begin(t) \/ (Open(t) /\ StepsOver(t)) \/ SyncDirectory(t) \/ Fails(t)
      PROVE  Written'
  <2>1. Aside(t) /\ job'[t].step \notin {"sync", "rename"}
    BY <1>0, <1>1, <1>3, JobSteps
  <2>2. temps' = temps
    BY <1>3 DEF Begin, StepsOver, SyncDirectory, Fails
  <2> QED
    BY <1>2, <2>1, <2>2
<1>4. ASSUME NEW t \in Threads, Open(t), Creates(t) PROVE Written'
  <2>1. Aside(t) /\ job'[t].step = "write"
    BY <1>0, <1>4, JobSteps
  <2>2. DOMAIN temps' = DOMAIN temps \cup {counter} /\ \A m \in DOMAIN temps : temps'[m] = temps[m]
    BY <1>0, <1>4, TempSteps
  <2> QED
    BY <1>2, <2>1, <2>2
<1>5. ASSUME NEW t \in Threads, Write(t) PROVE Written'
  <2>1. Aside(t) /\ job'[t].step = "sync" /\ job'[t].name = job[t].name
    BY <1>0, <1>5, JobSteps
  <2>2. /\ DOMAIN temps' = DOMAIN temps /\ temps'[job[t].name].whole
        /\ \A m \in DOMAIN temps \ {job[t].name} : temps'[m] = temps[m]
    BY <1>0, <1>5, TempSteps
  <2> QED
    BY <1>2, <2>1, <2>2
<1>6. ASSUME NEW t \in Threads, Sync(t) PROVE Written'
  <2>1. Aside(t) /\ job'[t].step = "rename" /\ job'[t].name = job[t].name
    BY <1>0, <1>6, JobSteps
  <2>2. /\ DOMAIN temps' = DOMAIN temps /\ temps'[job[t].name].synced
        /\ temps'[job[t].name].whole = temps[job[t].name].whole
        /\ \A m \in DOMAIN temps \ {job[t].name} : temps'[m] = temps[m]
    BY <1>0, <1>6, TempSteps
  <2>3. temps[job[t].name].whole
    BY <1>0, <1>6 DEF Sync, Written, Mine
  <2> QED
    BY <1>2, <2>1, <2>2, <2>3
<1>7. ASSUME NEW t \in Threads, Rename(t) \/ Cleans(t) PROVE Written'
  <2>1. Aside(t) /\ job'[t].step \notin {"sync", "rename"}
    BY <1>0, <1>1, <1>7, JobSteps
  <2>2. /\ DOMAIN temps' = DOMAIN temps \ {job[t].name}
        /\ \A m \in DOMAIN temps' : temps'[m] = temps[m]
    BY <1>0, <1>7, TempSteps
  <2> QED
    BY <1>2, <2>1, <2>2
<1>8. CASE Killed \/ PowerLoss
  <2>1. \A t \in Threads : job'[t] = Idle
    BY <1>8 DEF Killed, PowerLoss, Crashes
  <2> QED
    BY <1>1, <2>1 DEF Written
<1>9. CASE UNCHANGED fileVars
  BY <1>0, <1>9 DEF fileVars, Written, Mine
<1> QED
  BY <1>3, <1>4, <1>5, <1>6, <1>7, <1>8, <1>9 DEF FileNext, Open

\* Every binding of the target a crash could leave is whole, synced and no older than
\* the last write that was reported as done.
LEMMA NumberedStep ==
    ASSUME FileInv, [FileNext]_fileVars
    PROVE  Numbered'
<1>0. FilesTyped /\ Named /\ Written /\ Numbered
  BY DEF FileInv
<1>1. /\ renames \in Nat /\ acked \in Nat /\ acked <= renames
      /\ \A t \in Threads : job[t].serial \in Nat /\ job[t].serial <= renames
      /\ bound \in Seq(File) /\ Len(bound) \in Nat \ {0} /\ Newest \in File
      /\ \A i \in 1 .. Len(bound) : bound[i].serial \in Nat /\ bound[i].serial <= renames
  <2>1. \A i \in 1 .. Len(bound) : bound[i] \in File
    BY <1>0 DEF FilesTyped
  <2> QED
    BY <1>0, <2>1, NewestType DEF FilesTyped, Numbered, Job, File
<1>2. Newest.serial \in Nat /\ Newest.serial <= renames /\ Newest.serial >= acked
      /\ Newest.whole /\ Newest.synced
  BY <1>0, <1>1 DEF Newest, Numbered, OldOrNew
<1>3. Idle.step = "idle" /\ Idle.serial = 0
  BY DEF Idle
<1>4. ASSUME NEW t \in Threads, Aside(t), bound' = bound, acked' = acked, renames' = renames,
             job'[t].serial \in {0, job[t].serial}, job'[t].step # "dirsync"
      PROVE  Numbered'
  <2>1. OldOrNew' /\ Newest' = Newest
    BY <1>0, <1>4 DEF Numbered, OldOrNew, Newest
  <2>2. \A u \in Threads \ {t} : job'[u] = job[u]
    BY <1>4 DEF Aside
  <2>3. ASSUME NEW u \in Threads
        PROVE  /\ job'[u].serial <= renames
               /\ job'[u].step = "dirsync" => job'[u].serial <= Newest.serial
    BY <1>0, <1>1, <1>4, <2>2 DEF Numbered
  <2> QED
    BY <1>0, <1>4, <2>1, <2>3 DEF Numbered
<1>5. ASSUME NEW t \in Threads, \/ Begin(t) \/ Open(t) \/ Write(t) \/ Sync(t)
                                \/ Fails(t) \/ Cleans(t)
      PROVE  Numbered'
  <2>1. /\ Aside(t) /\ job'[t].serial \in {0, job[t].serial} /\ job'[t].step # "dirsync"
    BY <1>0, <1>3, <1>5, JobSteps DEF Open
  <2>2. bound' = bound /\ acked' = acked /\ renames' = renames
    BY <1>5 DEF Begin, Open, Write, Sync, Fails, Cleans
  <2> QED
    BY <1>4, <2>1, <2>2
<1>6. ASSUME NEW t \in Threads, Rename(t) PROVE Numbered'
  <2>1. PICK new \in File : /\ bound' = Append(bound, new) /\ new.serial = renames + 1
                            /\ new.whole /\ new.synced
    BY <1>0, <1>6, RenamedFile
  <2>2. /\ Len(bound') = Len(bound) + 1 /\ bound'[Len(bound) + 1] = new
        /\ \A i \in 1 .. Len(bound) : bound'[i] = bound[i]
    BY <1>1, <2>1
  <2>3. renames' = renames + 1 /\ acked' = acked
    BY <1>6 DEF Rename
  <2>4. Newest' = new
    BY <2>2 DEF Newest
  <2>5. ASSUME NEW i \in 1 .. Len(bound')
        PROVE  /\ bound'[i].whole /\ bound'[i].synced
               /\ bound'[i].serial >= acked /\ bound'[i].serial <= renames + 1
    <3>1. CASE i \in 1 .. Len(bound)
      BY <1>0, <1>1, <2>2, <3>1 DEF Numbered, OldOrNew
    <3>2. CASE i = Len(bound) + 1
      BY <1>1, <2>1, <2>2, <3>2
    <3> QED
      BY <1>1, <2>2, <3>1, <3>2
  <2>6. Aside(t) /\ job'[t].serial = renames + 1
    BY <1>0, <1>6, JobSteps
  <2>7. \A u \in Threads : job'[u].serial <= renames + 1
    BY <1>1, <2>6 DEF Aside
  <2> QED
    BY <1>1, <2>1, <2>3, <2>4, <2>5, <2>7 DEF Numbered, OldOrNew
<1>7. ASSUME NEW t \in Threads, SyncDirectory(t) PROVE Numbered'
  <2>1. /\ bound' = <<Newest>> /\ renames' = renames
        /\ acked' = IF job[t].serial > acked THEN job[t].serial ELSE acked
        /\ job[t].step = "dirsync"
    BY <1>7 DEF SyncDirectory
  <2>2. Len(bound') = 1 /\ bound'[1] = Newest /\ Newest' = Newest
    BY <2>1 DEF Newest
  <2>3. acked' <= Newest.serial /\ acked' <= renames
    BY <1>0, <1>1, <1>2, <2>1 DEF Numbered
  <2>4. Aside(t) /\ job'[t] = Idle
    BY <1>0, <1>7, JobSteps
  <2>5. ASSUME NEW u \in Threads
        PROVE  /\ job'[u].serial <= renames
               /\ job'[u].step = "dirsync" => job'[u].serial <= Newest.serial
    BY <1>0, <1>1, <1>3, <2>4 DEF Aside, Numbered
  <2>6. OldOrNew'
    BY <1>1, <1>2, <2>2, <2>3 DEF OldOrNew
  <2> QED
    BY <1>2, <2>1, <2>2, <2>3, <2>5, <2>6 DEF Numbered
<1>8. CASE Killed
  <2>1. /\ \A t \in Threads : job'[t] = Idle
        /\ renames' = renames /\ acked' = acked /\ bound' = bound
    BY <1>8 DEF Killed, Crashes
  <2>2. OldOrNew'
    BY <1>0, <2>1 DEF Numbered, OldOrNew
  <2> QED
    BY <1>0, <1>1, <1>3, <2>1, <2>2 DEF Numbered
<1>9. CASE PowerLoss
  <2>1. PICK i \in 1 .. Len(bound) : \E new \in File :
            bound' = <<new>> /\ new.serial = bound[i].serial /\ new.whole /\ new.synced
    BY <1>0, <1>9, LostFile
  <2>2. PICK new \in File :
            bound' = <<new>> /\ new.serial = bound[i].serial /\ new.whole /\ new.synced
    BY <2>1
  <2>3. Len(bound') = 1 /\ bound'[1] = new
    BY <2>2
  <2>4. bound[i].serial <= renames /\ bound[i].serial >= acked
    BY <1>0 DEF Numbered, OldOrNew
  <2>5. /\ \A t \in Threads : job'[t] = Idle
        /\ renames' = renames /\ acked' = acked
    BY <1>9 DEF PowerLoss, Crashes
  <2>6. OldOrNew'
    BY <2>2, <2>3, <2>4, <2>5 DEF OldOrNew
  <2> QED
    BY <1>1, <1>3, <2>2, <2>3, <2>4, <2>5, <2>6 DEF Numbered
<1>10. CASE UNCHANGED fileVars
  <2>1. OldOrNew' /\ Newest' = Newest
    BY <1>0, <1>10 DEF fileVars, Numbered, OldOrNew, Newest
  <2> QED
    BY <1>0, <1>10, <2>1 DEF fileVars, Numbered
<1> QED
  BY <1>5, <1>6, <1>7, <1>8, <1>9, <1>10 DEF FileNext

\* Every step keeps the invariant of the file write.
LEMMA FileInvStep == FileInv /\ [FileNext]_fileVars => FileInv'
  BY FilesTypedStep, NamedStep, WrittenStep, NumberedStep DEF FileInv

\* The files, the names and the calls keep their types.
THEOREM FileTypeCorrect == FileSpec => []FileTypeOK
<1>1. FileInv => FileTypeOK
  <2> SUFFICES ASSUME FileInv PROVE FileTypeOK
    OBVIOUS
  <2>1. FilesTyped
    BY DEF FileInv
  <2>2. Len(bound) > 0 /\ \A i \in 1 .. Len(bound) : bound[i] \in File
    BY <2>1 DEF FilesTyped
  <2> QED
    BY <2>1, <2>2 DEF FilesTyped, FileTypeOK
<1> QED
  BY <1>1, FileInvInit, FileInvStep, PTL DEF FileSpec

\* nya_file_write_atomic: however many threads replace the file, whatever fails and
\* whenever the process or the machine dies, the target is the whole of one write
\* or the old bytes, a write reported as done is not undone, and a call that ends
\* leaves no temporary of its own.
THEOREM ReplacedCleanlyAlways == FileSpec => []ReplacedCleanly
<1>1. FileInv => ReplacedCleanly
  BY DEF FileInv, Named, Numbered, ReplacedCleanly
<1> QED
  BY <1>1, FileInvInit, FileInvStep, PTL DEF FileSpec

-----------------------------------------------------------------------------
(***************************************************************************)
(* The inductive invariant of LivesAsPromised.  That the limit holds needs *)
(* the room an issue has made once it ended all it set out to end; that a  *)
(* session in use does not run out needs how far its dates may lag behind  *)
(* its last use; and that what was ended stays so needs a revoke of all to *)
(* have every session that is not revoked before it.                       *)
(***************************************************************************)
Calls == {"none", "issue", "revoke_all", "sweep", "delete", "purge"}

Rows ==
    /\ now \in Nat /\ lastId \in 0 .. MaxIds /\ DOMAIN sessions \subseteq 1 .. lastId
    /\ sessions \in [DOMAIN sessions -> Session]
    /\ work \in [call : Calls, left : SUBSET DOMAIN sessions]
    /\ work.call = "issue" => lastId < MaxIds
    /\ lastUse \in [Ids -> Nat] /\ ended \subseteq 1 .. lastId

Dated(s, use) ==
    /\ s.expires <= s.used + IdleFor
    /\ s.expires >= Sooner(s.used + IdleFor, s.created + Absolute)
    /\ use <= s.used + Slack

Promised == \A i \in DOMAIN sessions : Dated(sessions[i], lastUse[i])

Capped ==
    /\ SessionCap
    /\ work.call = "issue" => Cardinality(LiveIds \ work.left) <= MaxSessions - 1

Ending == EndedForGood /\ (work.call = "revoke_all" => Unrevoked \subseteq work.left)

Sparing == work.call \in {"sweep", "delete"} => \A i \in work.left : ~Live(sessions[i])

SessionsInv == Rows /\ Promised /\ Capped /\ Ending /\ Sparing

\* There are finitely many sessions.
LEMMA FewLive == Rows => IsFiniteSet(DOMAIN sessions) /\ IsFiniteSet(LiveIds)
<1> SUFFICES ASSUME Rows PROVE IsFiniteSet(DOMAIN sessions) /\ IsFiniteSet(LiveIds)
  OBVIOUS
<1>1. lastId \in Nat /\ DOMAIN sessions \subseteq 1 .. lastId
  BY SessionsAssumption DEF Rows
<1>2. IsFiniteSet(1 .. lastId)
  BY <1>1, FS_Interval
<1>3. IsFiniteSet(DOMAIN sessions)
  BY <1>1, <1>2, FS_Subset
<1> QED
  BY <1>3, FS_Subset DEF LiveIds

\* The order the sessions are trimmed in is total.
LEMMA OlderIsTotal ==
    ASSUME Rows, NEW i \in DOMAIN sessions, NEW j \in DOMAIN sessions, i # j
    PROVE  /\ Older(i, j) \/ Older(j, i)
           /\ ~Older(i, i)
           /\ \A k \in DOMAIN sessions : Older(i, j) /\ Older(j, k) => Older(i, k)
<1>1. \A k \in DOMAIN sessions : k \in Nat /\ sessions[k].used \in Nat
  BY DEF Rows, Session
<1> QED
  BY <1>1 DEF Older

\* What an issue leaves of the live sessions leaves room for one more: each of
\* them has a rank of its own, its number of younger ones, below the limit.
LEMMA TrimmedLeavesRoom ==
    ASSUME Rows
    PROVE  Cardinality(LiveIds \ Trimmed) <= MaxSessions - 1
<1> USE SessionsAssumption
<1> DEFINE Younger(i) == {j \in LiveIds : Older(i, j)}
           Kept == LiveIds \ Trimmed
           Rank == [i \in Kept |-> Cardinality(Younger(i))]
           Ranks == 0 .. MaxSessions - 2
<1>1. IsFiniteSet(LiveIds) /\ LiveIds \subseteq DOMAIN sessions
  BY FewLive DEF LiveIds
<1>2. \A i \in LiveIds : IsFiniteSet(Younger(i)) /\ Cardinality(Younger(i)) \in Nat
  BY <1>1, FS_Subset, FS_CardinalityType
<1>3. IsFiniteSet(Kept) /\ Cardinality(Kept) \in Nat
  BY <1>1, FS_Subset, FS_CardinalityType
<1>4. Rank \in [Kept -> Ranks]
  <2>1. ASSUME NEW i \in Kept PROVE Cardinality(Younger(i)) \in Ranks
    <3>1. ~(Cardinality(Younger(i)) >= MaxSessions - 1)
      BY <2>1 DEF Trimmed
    <3> QED
      BY <1>2, <2>1, <3>1
  <2> HIDE DEF Younger, Ranks, Kept
  <2> QED
    BY <2>1
<1>5. ASSUME NEW i \in Kept, NEW j \in Kept, Older(i, j)
      PROVE  Rank[i] # Rank[j]
  <2>1. i \in LiveIds /\ j \in LiveIds /\ i # j
    BY <1>1, <1>5 DEF Older, Rows, Session
  <2>2. Younger(j) \subseteq Younger(i)
    BY <1>1, <1>5, <2>1, OlderIsTotal
  <2>3. j \in Younger(i) /\ j \notin Younger(j)
    BY <1>1, <1>5, <2>1, OlderIsTotal
  <2>4. Cardinality(Younger(j)) # Cardinality(Younger(i))
    <3> HIDE DEF Younger
    <3> QED
      BY <1>2, <2>1, <2>2, <2>3, FS_Subset
  <2> QED
    BY <1>5, <2>4
<1>6. \A i, j \in Kept : i # j => Rank[i] # Rank[j]
  <2>1. \A i, j \in Kept : i # j => Older(i, j) \/ Older(j, i)
    BY <1>1, OlderIsTotal
  <2> HIDE DEF Rank, Kept
  <2> QED
    BY <1>5, <2>1
<1>7. IsFiniteSet(Ranks) /\ Cardinality(Ranks) = MaxSessions - 1
  BY FS_Interval
<1>8. ~(Cardinality(Ranks) < Cardinality(Kept))
  <2> HIDE DEF Rank, Kept, Ranks
  <2> QED
    BY <1>3, <1>4, <1>6, <1>7, FS_PigeonHole
<1> QED
  BY <1>3, <1>7, <1>8

-----------------------------------------------------------------------------
(* What the steps do to the rows *)

\* A step that revokes or deletes, or only lets time pass.
Shrinks ==
    /\ now' \in Nat /\ now' >= now /\ lastId' = lastId
    /\ DOMAIN sessions' \subseteq DOMAIN sessions
    /\ sessions' \in [DOMAIN sessions' -> Session]
    /\ \A i \in DOMAIN sessions' :
           /\ sessions'[i].used = sessions[i].used /\ sessions'[i].expires = sessions[i].expires
           /\ sessions'[i].created = sessions[i].created
           /\ sessions[i].revoked => sessions'[i].revoked

\* A step that pushes the dates of the one live session whose token it accepted.
Extends(i) ==
    /\ now' = now /\ lastId' = lastId
    /\ i \in DOMAIN sessions /\ Live(sessions[i])
    /\ DOMAIN sessions' = DOMAIN sessions
    /\ sessions' \in [DOMAIN sessions' -> Session]
    /\ \A j \in DOMAIN sessions \ {i} : sessions'[j] = sessions[j]
    /\ ~sessions'[i].revoked

\* One row is revoked.
LEMMA RevokedRow ==
    ASSUME Rows, NEW i \in DOMAIN sessions,
           sessions' = [sessions EXCEPT ![i].revoked = TRUE], now' = now, lastId' = lastId
    PROVE  /\ Shrinks /\ DOMAIN sessions' = DOMAIN sessions /\ sessions'[i].revoked
           /\ \A j \in DOMAIN sessions \ {i} : sessions'[j] = sessions[j]
<1> DEFINE x == [sessions[i] EXCEPT !.revoked = TRUE]
<1>1. sessions \in [DOMAIN sessions -> Session] /\ now \in Nat /\ sessions[i] \in Session
  BY DEF Rows
<1>2. /\ x \in Session /\ x.revoked
      /\ x.used = sessions[i].used /\ x.expires = sessions[i].expires
      /\ x.created = sessions[i].created
  <2> DEFINE Turns == 0 .. MaxTurns
  <2>1. Session = [turn : Turns, created : Nat, used : Nat, expires : Nat, revoked : BOOLEAN]
    BY DEF Session
  <2> HIDE DEF Turns
  <2> QED
    BY <1>1, <2>1
<1>3. sessions' = [sessions EXCEPT ![i] = x]
  BY <1>1
<1> HIDE DEF x
<1>4. /\ DOMAIN sessions' = DOMAIN sessions /\ sessions'[i] = x
      /\ sessions' \in [DOMAIN sessions' -> Session]
      /\ \A j \in DOMAIN sessions \ {i} : sessions'[j] = sessions[j]
  BY <1>1, <1>2, <1>3
<1>5. \A j \in DOMAIN sessions' :
          /\ sessions'[j].used = sessions[j].used /\ sessions'[j].expires = sessions[j].expires
          /\ sessions'[j].created = sessions[j].created
          /\ sessions[j].revoked => sessions'[j].revoked
  BY <1>2, <1>4
<1>6. now' \in Nat /\ now' >= now
  BY <1>1
<1> QED
  BY <1>2, <1>4, <1>5, <1>6 DEF Shrinks

\* The row a use of its token leaves.
LEMMA PushedRow ==
    ASSUME Rows, NEW i \in DOMAIN sessions, ~sessions[i].revoked
    PROVE  /\ Pushed(sessions[i]) \in Session /\ ~Pushed(sessions[i]).revoked
           /\ Dated(Pushed(sessions[i]), now)
           /\ \A turn \in 0 .. MaxTurns :
                  LET turned == [Pushed(sessions[i]) EXCEPT !.turn = turn]
                  IN  turned \in Session /\ ~turned.revoked /\ Dated(turned, now)
<1> USE SessionsAssumption
<1> DEFINE s == sessions[i]
           end == Sooner(now + IdleFor, s.created + Absolute)
           p == [s EXCEPT !.used = now, !.expires = end]
           Turns == 0 .. MaxTurns
<1>1. s \in Session /\ now \in Nat
  BY DEF Rows
<1>2. Session = [turn : Turns, created : Nat, used : Nat, expires : Nat, revoked : BOOLEAN]
  BY DEF Session
<1>3. end \in Nat /\ end <= now + IdleFor
  BY <1>1 DEF Sooner, Session
<1>4. Pushed(s) = p
  BY DEF Pushed
<1>5. p \in Session /\ ~p.revoked /\ p.used = now /\ p.created = s.created /\ p.expires = end
  <2> HIDE DEF Turns, end
  <2> QED
    BY <1>1, <1>2, <1>3
<1>6. end >= Sooner(now + IdleFor, s.created + Absolute)
  BY <1>3
<1> HIDE DEF p, Turns
<1>7. Dated(p, now)
  BY <1>1, <1>3, <1>5, <1>6 DEF Dated
<1>8. ASSUME NEW turn \in 0 .. MaxTurns
      PROVE  LET turned == [p EXCEPT !.turn = turn]
             IN  turned \in Session /\ ~turned.revoked /\ Dated(turned, now)
  <2> DEFINE turned == [p EXCEPT !.turn = turn]
  <2>1. turn \in Turns
    BY <1>8 DEF Turns
  <2>2. /\ turned \in Session /\ turned.revoked = p.revoked /\ turned.used = p.used
        /\ turned.created = p.created /\ turned.expires = p.expires
    <3> HIDE DEF end
    <3> QED
      BY <1>2, <1>5, <2>1
  <2> HIDE DEF turned
  <2>3. Dated(turned, now)
    BY <1>7, <2>2 DEF Dated
  <2> QED
    BY <1>5, <2>2, <2>3 DEF turned
<1> QED
  BY <1>4, <1>5, <1>7, <1>8

\* A use that is not written is within the slack of the last one that was.
LEMMA Unwritten ==
    ASSUME Rows, Promised, NEW i \in DOMAIN sessions, ~(now > sessions[i].used + Slack)
    PROVE  Dated(sessions[i], now)
<1>1. sessions[i] \in Session /\ now \in Nat
  BY DEF Rows
<1> QED
  BY <1>1, SessionsAssumption DEF Promised, Dated, Session

\* A validate and a rotate push one session's dates, and record its use.
LEMMA UseSteps ==
    ASSUME Rows, Promised, NEW i \in Ids, NEW turn \in 0 .. MaxTurns,
           Validate(i, turn) \/ Rotate(i, turn)
    PROVE  /\ Extends(i) /\ Dated(sessions'[i], now)
           /\ lastUse' = [lastUse EXCEPT ![i] = now] /\ work' = work /\ ended' = ended
           /\ Free /\ ~sessions[i].revoked
<1> USE SessionsAssumption
<1>1. /\ sessions \in [DOMAIN sessions -> Session] /\ i \in DOMAIN sessions
      /\ Live(sessions[i]) /\ ~sessions[i].revoked
  BY DEF Rows, Validate, Rotate, Accepts, Live
<1>2. /\ now' = now /\ lastId' = lastId /\ work' = work /\ ended' = ended
      /\ lastUse' = [lastUse EXCEPT ![i] = now] /\ Free
  BY DEF Validate, Rotate
<1>3. ASSUME NEW x \in Session, ~x.revoked, Dated(x, now), sessions' = [sessions EXCEPT ![i] = x]
      PROVE  Extends(i) /\ Dated(sessions'[i], now)
  BY <1>1, <1>2, <1>3 DEF Extends
<1>4. CASE Validate(i, turn) /\ now > sessions[i].used + Slack
  <2>1. sessions' = [sessions EXCEPT ![i] = Pushed(sessions[i])]
    BY <1>4 DEF Validate
  <2> QED
    BY <1>1, <1>2, <1>3, <2>1, PushedRow
<1>5. CASE Validate(i, turn) /\ ~(now > sessions[i].used + Slack)
  <2>1. sessions' = sessions
    BY <1>5 DEF Validate
  <2>2. Dated(sessions'[i], now)
    BY <1>1, <1>5, <2>1, Unwritten
  <2> QED
    BY <1>1, <1>2, <2>1, <2>2 DEF Extends
<1>6. CASE Rotate(i, turn)
  <2> DEFINE turned == [Pushed(sessions[i]) EXCEPT !.turn = turn + 1]
  <2>1. sessions' = [sessions EXCEPT ![i] = turned]
    BY <1>6 DEF Rotate
  <2>2. turn + 1 \in 0 .. MaxTurns
    BY <1>6 DEF Rotate
  <2>3. turned \in Session /\ ~turned.revoked /\ Dated(turned, now)
    BY <1>1, <2>2, PushedRow
  <2> HIDE DEF turned
  <2> QED
    BY <1>1, <1>2, <1>3, <2>1, <2>3
<1> QED
  BY <1>4, <1>5, <1>6

\* Revoking, deleting and waiting let no session live that did not.
LEMMA ShrinksLive ==
    ASSUME Rows, Shrinks
    PROVE  /\ LiveIds' \subseteq LiveIds
           /\ \A i \in DOMAIN sessions' : ~Live(sessions[i]) => ~Live(sessions[i])'
<1>1. ASSUME NEW i \in DOMAIN sessions', Live(sessions[i])' PROVE Live(sessions[i])
  <2>1. i \in DOMAIN sessions /\ sessions[i] \in Session /\ sessions'[i] \in Session
    BY DEF Rows, Shrinks
  <2> QED
    BY <1>1, <2>1, SessionsAssumption DEF Live, Shrinks, Rows, Session
<1> QED
  BY <1>1 DEF LiveIds, Shrinks

\* A use lets no other session live.
LEMMA ExtendsLive ==
    ASSUME Rows, NEW i, Extends(i)
    PROVE  LiveIds' \subseteq LiveIds
  BY DEF LiveIds, Extends, Live

\* Every step but an insert and a use shrinks the table.
LEMMA ShrinkingSteps ==
    ASSUME Rows, Promised,
           \/ Issue \/ (\E disables \in BOOLEAN : RevokeAll(disables)) \/ RevokedAll \/ Enable
           \/ Sweep \/ Forgets \/ (\E keepFor \in 0 .. IdleFor : Prune(keepFor)) \/ Purge
           \/ Deleted \/ Abandons \/ SessionsTick
           \/ (\E i \in Ids : Revoke(i) \/ EndsOne(i) \/ DeletesOne(i))
           \/ (\E i \in Ids, turn \in 0 .. MaxTurns : Replay(i, turn))
           \/ UNCHANGED sessionVars
    PROVE  Shrinks /\ lastUse' = lastUse
<1>1. sessions \in [DOMAIN sessions -> Session] /\ now \in Nat
  BY DEF Rows
<1>2. ASSUME sessions' = sessions, now' \in {now, now + 1}, lastId' = lastId PROVE Shrinks
  BY <1>1, <1>2 DEF Shrinks
<1>3. CASE \/ Issue \/ (\E disables \in BOOLEAN : RevokeAll(disables)) \/ RevokedAll \/ Enable
           \/ Sweep \/ Forgets \/ (\E keepFor \in 0 .. IdleFor : Prune(keepFor)) \/ Purge
           \/ Deleted \/ Abandons \/ SessionsTick \/ UNCHANGED sessionVars
  BY <1>2, <1>3 DEF Issue, RevokeAll, RevokedAll, Enable, Sweep, Forgets, Prune, Purge,
      Deleted, Abandons, SessionsTick, sessionVars
<1>4. ASSUME NEW i \in Ids, \/ Revoke(i) \/ EndsOne(i)
                            \/ (\E turn \in 0 .. MaxTurns : Replay(i, turn))
      PROVE  Shrinks /\ lastUse' = lastUse
  <2>1. i \in DOMAIN sessions
    BY <1>4 DEF Revoke, EndsOne, Replay, Retired, Rows
  <2>2. /\ sessions' = [sessions EXCEPT ![i].revoked = TRUE]
        /\ now' = now /\ lastId' = lastId /\ lastUse' = lastUse
    BY <1>4 DEF Revoke, EndsOne, Replay
  <2> QED
    BY <2>1, <2>2, RevokedRow
<1>5. ASSUME NEW i \in Ids, DeletesOne(i) PROVE Shrinks /\ lastUse' = lastUse
  BY <1>1, <1>5 DEF DeletesOne, Shrinks
<1> QED
  BY <1>3, <1>4, <1>5

\* The row an issue inserts, beside the others.
LEMMA InsertSteps ==
    ASSUME Rows, Inserts
    PROVE  LET i == lastId + 1 IN
           /\ i \in Ids /\ i \notin DOMAIN sessions /\ DOMAIN sessions' = DOMAIN sessions \cup {i}
           /\ sessions' \in [DOMAIN sessions' -> Session]
           /\ \A j \in DOMAIN sessions : sessions'[j] = sessions[j]
           /\ ~sessions'[i].revoked /\ Dated(sessions'[i], now)
           /\ now' = now /\ lastId' = i /\ lastUse' = [lastUse EXCEPT ![i] = now]
           /\ work' = NoWork /\ ended' = ended /\ work.call = "issue" /\ work.left = {}
<1> USE SessionsAssumption
<1> DEFINE i == lastId + 1
           new == [turn |-> 0, created |-> now, used |-> now,
                   expires |-> now + IdleFor, revoked |-> FALSE]
<1>1. now \in Nat /\ sessions \in [DOMAIN sessions -> Session] /\ lastId \in 0 .. MaxIds
      /\ DOMAIN sessions \subseteq 1 .. lastId
      /\ lastId < MaxIds
  BY DEF Rows, Inserts
<1>2. new \in Session /\ ~new.revoked /\ Dated(new, now)
  BY <1>1 DEF Session, Dated, Sooner
<1> HIDE DEF new
<1>3. sessions' = [j \in DOMAIN sessions \cup {i} |->
                       IF j \in DOMAIN sessions THEN sessions[j] ELSE new]
  BY DEF Inserts, new
<1>4. i \notin DOMAIN sessions
  BY <1>1
<1>5. i \in Ids
  BY <1>1 DEF Ids
<1>6. /\ DOMAIN sessions' = DOMAIN sessions \cup {i} /\ sessions'[i] = new
      /\ sessions' \in [DOMAIN sessions' -> Session]
      /\ \A j \in DOMAIN sessions : sessions'[j] = sessions[j]
  BY <1>1, <1>2, <1>3, <1>4
<1> QED
  BY <1>2, <1>4, <1>5, <1>6 DEF Inserts

\* Every step is one of the three: it shrinks the table, extends a session, or inserts.
LEMMA SessionSteps ==
    ASSUME Rows, Promised, [SessionsNext]_sessionVars
    PROVE  \/ Shrinks /\ lastUse' = lastUse
           \/ \E i \in Ids, turn \in 0 .. MaxTurns : Validate(i, turn) \/ Rotate(i, turn)
           \/ Inserts
<1>1. CASE \/ Issue \/ (\E disables \in BOOLEAN : RevokeAll(disables)) \/ RevokedAll \/ Enable
           \/ Sweep \/ Forgets \/ (\E keepFor \in 0 .. IdleFor : Prune(keepFor)) \/ Purge
           \/ Deleted \/ Abandons \/ SessionsTick
           \/ (\E i \in Ids : Revoke(i) \/ EndsOne(i) \/ DeletesOne(i))
           \/ (\E i \in Ids, turn \in 0 .. MaxTurns : Replay(i, turn))
           \/ UNCHANGED sessionVars
  BY <1>1, ShrinkingSteps
<1>2. CASE \/ Inserts
           \/ \E i \in Ids, turn \in 0 .. MaxTurns : Validate(i, turn) \/ Rotate(i, turn)
  BY <1>2
<1> QED
  BY <1>1, <1>2 DEF SessionsNext

\* Only these steps change what a call has left to do, and what was ended.
LEMMA WorkSteps ==
    ASSUME Rows, Promised, [SessionsNext]_sessionVars
    PROVE  /\ \/ work' = work /\ DOMAIN sessions' = DOMAIN sessions
              \/ work' = NoWork
              \/ Free /\ (\E disables \in BOOLEAN : RevokeAll(disables))
              \/ Free /\ Issue
              \/ Free /\ Sweep
              \/ Forgets
              \/ Free /\ \E keepFor \in 0 .. IdleFor : Prune(keepFor)
              \/ Free /\ Purge
              \/ \E i \in Ids : EndsOne(i) \/ DeletesOne(i)
           /\ \/ ended' = ended
              \/ RevokedAll
              \/ \E i \in Ids : \/ Revoke(i)
                                \/ \E turn \in 0 .. MaxTurns : Replay(i, turn)
  BY DEF Rows, SessionsNext, sessionVars, Issue, Inserts, Validate, Replay, Rotate, Revoke, RevokeAll,
      RevokedAll, Enable, Sweep, Forgets, Prune, Purge, EndsOne, DeletesOne, Deleted, Abandons,
      SessionsTick

-----------------------------------------------------------------------------
(* The invariant is kept *)

\* Every step keeps the rows and the call in progress.
LEMMA RowsStep ==
    ASSUME Rows, Promised, [SessionsNext]_sessionVars
    PROVE  Rows'
<1> USE SessionsAssumption
<1>0. /\ now \in Nat /\ lastId \in 0 .. MaxIds /\ DOMAIN sessions \subseteq 1 .. lastId
      /\ sessions \in [DOMAIN sessions -> Session]
      /\ work \in [call : Calls, left : SUBSET DOMAIN sessions]
      /\ work.call = "issue" => lastId < MaxIds
      /\ lastUse \in [Ids -> Nat] /\ ended \subseteq 1 .. lastId
  BY DEF Rows
<1>1. CASE Shrinks /\ lastUse' = lastUse
  <2>1. work' \in [call : Calls, left : SUBSET DOMAIN sessions']
    <3>1. CASE work' = NoWork
      BY <3>1 DEF NoWork, Calls
    <3>2. CASE Free /\ Issue
      BY <1>0, <3>2 DEF Issue, Starts, Trimmed, LiveIds, Calls
    <3>3. CASE Free /\ (Sweep \/ Purge \/ \/ \E disables \in BOOLEAN : RevokeAll(disables)
                                          \/ \E keepFor \in 0 .. IdleFor : Prune(keepFor))
      BY <1>0, <3>3 DEF Sweep, Purge, RevokeAll, Prune, Starts, Abandoned, Unrevoked, Calls
    <3>4. CASE Forgets
      BY <1>0, <3>4 DEF Forgets, Starts, Unrevoked, Calls
    <3>5. CASE \E i \in Ids : EndsOne(i) \/ DeletesOne(i)
      <4>1. PICK i \in Ids : EndsOne(i) \/ DeletesOne(i)
        BY <3>5
      <4>2. work' = [work EXCEPT !.left = work.left \ {i}]
        BY <4>1 DEF EndsOne, DeletesOne
      <4>3. work.left \ {i} \subseteq DOMAIN sessions'
        BY <1>0, <4>1 DEF EndsOne, DeletesOne
      <4> QED
        BY <1>0, <4>2, <4>3
    <3>6. CASE work' = work /\ DOMAIN sessions' = DOMAIN sessions
      BY <1>0, <3>6
    <3> QED
      BY <3>1, <3>2, <3>3, <3>4, <3>5, <3>6, WorkSteps
  <2>2. ended' \subseteq 1 .. lastId
    <3>1. CASE RevokedAll
      BY <1>0, <3>1 DEF RevokedAll
    <3>2. ASSUME NEW i \in Ids, Revoke(i) \/ \E turn \in 0 .. MaxTurns : Replay(i, turn)
          PROVE  ended' \subseteq 1 .. lastId
      BY <1>0, <3>2 DEF Revoke, Replay, Retired
    <3> QED
      BY <1>0, <3>1, <3>2, WorkSteps
  <2>3. work'.call = "issue" => lastId < MaxIds
    <3>1. ASSUME NEW i \in Ids, EndsOne(i) \/ DeletesOne(i) PROVE work'.call = work.call
      BY <1>0, <3>1 DEF EndsOne, DeletesOne
    <3> QED
      BY <1>0, <3>1, WorkSteps
      DEF Issue, Sweep, Purge, RevokeAll, Prune, Forgets, Starts, NoWork
  <2> QED
    BY <1>0, <1>1, <2>1, <2>2, <2>3 DEF Rows, Shrinks
<1>2. CASE \E i \in Ids, turn \in 0 .. MaxTurns : Validate(i, turn) \/ Rotate(i, turn)
  <2>1. PICK i \in Ids, turn \in 0 .. MaxTurns : Validate(i, turn) \/ Rotate(i, turn)
    BY <1>2
  <2>2. /\ Extends(i) /\ lastUse' = [lastUse EXCEPT ![i] = now]
        /\ work' = work /\ ended' = ended
    BY <2>1, UseSteps
  <2> QED
    BY <1>0, <2>2 DEF Rows, Extends
<1>3. CASE Inserts
  BY <1>0, <1>3, InsertSteps DEF Rows, NoWork, Calls
<1> QED
  BY <1>1, <1>2, <1>3, SessionSteps

\* The dates of a session lag its uses by the slack at most, whoever ends another.
LEMMA PromisedStep ==
    ASSUME Rows, Promised, [SessionsNext]_sessionVars
    PROVE  Promised'
<1>0. lastUse \in [Ids -> Nat] /\ DOMAIN sessions \subseteq Ids
  BY SessionsAssumption DEF Rows, Ids
<1>1. ASSUME Shrinks, lastUse' = lastUse PROVE Promised'
  BY <1>1 DEF Promised, Shrinks, Dated
<1>2. ASSUME NEW i \in Ids, NEW turn \in 0 .. MaxTurns, Validate(i, turn) \/ Rotate(i, turn)
      PROVE  Promised'
  <2>1. /\ Extends(i) /\ Dated(sessions'[i], now) /\ lastUse' = [lastUse EXCEPT ![i] = now]
    BY <1>2, UseSteps
  <2>2. ASSUME NEW j \in DOMAIN sessions' PROVE Dated(sessions'[j], lastUse'[j])
    BY <1>0, <2>1, <2>2 DEF Promised, Extends
  <2> QED
    BY <2>2 DEF Promised, Dated
<1>3. CASE Inserts
  <2> DEFINE i == lastId + 1
  <2>1. /\ i \in Ids /\ i \notin DOMAIN sessions /\ DOMAIN sessions' = DOMAIN sessions \cup {i}
        /\ \A j \in DOMAIN sessions : sessions'[j] = sessions[j]
        /\ Dated(sessions'[i], now) /\ lastUse' = [lastUse EXCEPT ![i] = now]
    BY <1>3, InsertSteps
  <2> HIDE DEF i
  <2>2. ASSUME NEW j \in DOMAIN sessions' PROVE Dated(sessions'[j], lastUse'[j])
    BY <1>0, <2>1, <2>2 DEF Promised
  <2> QED
    BY <2>2 DEF Promised, Dated
<1> QED
  BY <1>1, <1>2, <1>3, SessionSteps

\* An issue makes room before it inserts, and nothing else adds a live session.
LEMMA CappedStep ==
    ASSUME Rows, Promised, Capped, [SessionsNext]_sessionVars
    PROVE  Capped'
<1> USE SessionsAssumption
<1>0. /\ IsFiniteSet(LiveIds) /\ Cardinality(LiveIds) \in Nat
      /\ Cardinality(LiveIds) <= MaxSessions
  BY FewLive, FS_CardinalityType DEF Capped, SessionCap
<1>1. ASSUME NEW S, S \subseteq LiveIds
      PROVE  Cardinality(S) <= Cardinality(LiveIds)
  BY <1>0, <1>1, FS_Subset
<1>2. ASSUME LiveIds' \subseteq LiveIds PROVE SessionCap'
  <2>1. Cardinality(LiveIds') \in Nat /\ Cardinality(LiveIds') <= Cardinality(LiveIds)
    BY <1>0, <1>2, FS_Subset, FS_CardinalityType
  <2> QED
    BY <1>0, <2>1 DEF SessionCap
<1>3. ASSUME work.call = "issue", LiveIds' \ work'.left \subseteq LiveIds \ work.left
      PROVE  Cardinality(LiveIds' \ work'.left) <= MaxSessions - 1
  <2> DEFINE S == LiveIds' \ work'.left
             T == LiveIds \ work.left
  <2>1. IsFiniteSet(T) /\ Cardinality(T) \in Nat /\ Cardinality(T) <= MaxSessions - 1
    BY <1>0, <1>3, FS_Subset, FS_CardinalityType DEF Capped
  <2>2. S \subseteq T
    BY <1>3
  <2> HIDE DEF S, T
  <2>3. Cardinality(S) \in Nat /\ Cardinality(S) <= Cardinality(T)
    BY <2>1, <2>2, FS_Subset, FS_CardinalityType
  <2> QED
    BY <2>1, <2>3 DEF S
<1>4. CASE Shrinks /\ lastUse' = lastUse
  <2>1. LiveIds' \subseteq LiveIds
    BY <1>4, ShrinksLive
  <2>2. CASE work' = work
    BY <1>2, <1>3, <2>1, <2>2 DEF Capped
  <2>3. CASE Issue
    <3>1. LiveIds' = LiveIds /\ work'.left = Trimmed
      BY <2>3 DEF Issue, Starts, LiveIds, Live
    <3> QED
      BY <1>2, <3>1, TrimmedLeavesRoom DEF Capped
  <2>4. ASSUME NEW i \in Ids, EndsOne(i) PROVE Capped'
    <3>1. /\ i \in work.left /\ sessions' = [sessions EXCEPT ![i].revoked = TRUE]
          /\ now' = now /\ lastId' = lastId /\ work' = [work EXCEPT !.left = work.left \ {i}]
      BY <2>4 DEF EndsOne
    <3>2. i \in DOMAIN sessions /\ work'.left = work.left \ {i} /\ work'.call = work.call
      BY <3>1 DEF Rows
    <3>3. i \notin LiveIds'
      BY <3>1, <3>2, RevokedRow DEF LiveIds, Live
    <3> QED
      BY <1>2, <1>3, <2>1, <3>2, <3>3 DEF Capped
  <2>5. ASSUME work'.call # "issue" PROVE Capped'
    BY <1>2, <2>1, <2>5 DEF Capped
  <2>6. ASSUME NEW i \in Ids, DeletesOne(i) PROVE work'.call # "issue"
    BY <2>6 DEF DeletesOne, Rows
  <2> QED
    BY <2>2, <2>3, <2>4, <2>5, <2>6, WorkSteps
    DEF NoWork, RevokeAll, Sweep, Forgets, Prune, Purge, Starts
<1>5. ASSUME NEW i \in Ids, NEW turn \in 0 .. MaxTurns, Validate(i, turn) \/ Rotate(i, turn)
      PROVE  Capped'
  <2>1. Extends(i) /\ work' = work /\ work.call = "none"
    BY <1>5, UseSteps DEF Free
  <2> QED
    BY <1>2, <2>1, ExtendsLive DEF Capped
<1>6. CASE Inserts
  <2> DEFINE i == lastId + 1
  <2>1. /\ DOMAIN sessions' = DOMAIN sessions \cup {i} /\ now' = now
        /\ \A j \in DOMAIN sessions : sessions'[j] = sessions[j]
        /\ work' = NoWork /\ work.call = "issue" /\ work.left = {}
    BY <1>6, InsertSteps
  <2>2. LiveIds' \subseteq LiveIds \cup {i}
    BY <2>1 DEF LiveIds, Live
  <2>3. Cardinality(LiveIds) <= MaxSessions - 1
    <3>1. LiveIds \ work.left = LiveIds
      BY <2>1
    <3> QED
      BY <2>1, <3>1 DEF Capped
  <2>4. /\ IsFiniteSet(LiveIds \cup {i}) /\ Cardinality(LiveIds \cup {i}) \in Nat
        /\ Cardinality(LiveIds \cup {i}) <= MaxSessions
    BY <1>0, <2>3, FS_AddElement
  <2>5. Cardinality(LiveIds') \in Nat /\ Cardinality(LiveIds') <= Cardinality(LiveIds \cup {i})
    <3> HIDE DEF i
    <3> QED
      BY <2>2, <2>4, FS_Subset, FS_CardinalityType
  <2>6. SessionCap'
    BY <2>4, <2>5 DEF SessionCap
  <2> QED
    BY <2>1, <2>6 DEF Capped, NoWork
<1> QED
  BY <1>4, <1>5, <1>6, SessionSteps

\* A revoke of all has every session before it that is not revoked yet.
LEMMA EndingStep ==
    ASSUME Rows, Promised, Ending, [SessionsNext]_sessionVars
    PROVE  Ending'
<1>0. DOMAIN sessions \subseteq 1 .. lastId /\ ended \subseteq 1 .. lastId /\ lastId \in Nat
  BY SessionsAssumption DEF Rows
<1>1. CASE Shrinks /\ lastUse' = lastUse
  <2>1. \A i \in DOMAIN sessions' : i \in DOMAIN sessions /\ (sessions[i].revoked => sessions'[i].revoked)
    BY <1>1 DEF Shrinks
  <2>2. Unrevoked' \subseteq Unrevoked
    BY <2>1 DEF Unrevoked
  <2>3. EndedForGood'
    <3>1. CASE ended' = ended
      BY <2>1, <3>1 DEF Ending, EndedForGood
    <3>2. CASE RevokedAll
      <4>1. sessions' = sessions /\ ended' = ended \cup DOMAIN sessions
        BY <3>2 DEF RevokedAll
      <4>2. \A i \in DOMAIN sessions : sessions[i].revoked
        BY <3>2 DEF RevokedAll, Ending, Unrevoked
      <4> QED
        BY <4>1, <4>2 DEF EndedForGood
    <3>3. ASSUME NEW i \in Ids, Revoke(i) \/ \E turn \in 0 .. MaxTurns : Replay(i, turn)
          PROVE  EndedForGood'
      <4>1. /\ i \in DOMAIN sessions /\ sessions' = [sessions EXCEPT ![i].revoked = TRUE]
            /\ ended' = ended \cup {i} /\ now' = now /\ lastId' = lastId
        BY <3>3 DEF Revoke, Replay, Retired
      <4>2. sessions'[i].revoked
        BY <4>1, RevokedRow
      <4> QED
        BY <2>1, <4>1, <4>2 DEF Ending, EndedForGood
    <3> QED
      BY <3>1, <3>2, <3>3, WorkSteps
  <2>4. work'.call = "revoke_all" => Unrevoked' \subseteq work'.left
    <3>1. CASE work' = work
      BY <2>2, <3>1 DEF Ending
    <3>2. ASSUME NEW disables \in BOOLEAN, RevokeAll(disables)
          PROVE  Unrevoked' \subseteq work'.left
      BY <2>2, <3>2 DEF RevokeAll, Starts
    <3>3. ASSUME NEW i \in Ids, EndsOne(i), work'.call = "revoke_all"
          PROVE  Unrevoked' \subseteq work'.left
      <4>1. /\ i \in work.left /\ sessions' = [sessions EXCEPT ![i].revoked = TRUE]
            /\ now' = now /\ lastId' = lastId /\ work' = [work EXCEPT !.left = work.left \ {i}]
        BY <3>3 DEF EndsOne
      <4>2. i \in DOMAIN sessions /\ work'.left = work.left \ {i} /\ work'.call = work.call
        BY <4>1 DEF Rows
      <4>3. i \notin Unrevoked'
        BY <4>1, <4>2, RevokedRow DEF Unrevoked
      <4> QED
        BY <2>2, <3>3, <4>2, <4>3 DEF Ending
    <3>4. ASSUME NEW i \in Ids, DeletesOne(i) PROVE work'.call # "revoke_all"
      BY <3>4 DEF DeletesOne, Rows
    <3> QED
      BY <3>1, <3>2, <3>3, <3>4, WorkSteps
      DEF NoWork, Issue, Sweep, Forgets, Prune, Purge, Starts
  <2> QED
    BY <2>3, <2>4 DEF Ending
<1>2. ASSUME NEW i \in Ids, NEW turn \in 0 .. MaxTurns, Validate(i, turn) \/ Rotate(i, turn)
      PROVE  Ending'
  <2>1. /\ Extends(i) /\ ended' = ended /\ work' = work /\ work.call = "none"
        /\ ~sessions[i].revoked
    BY <1>2, UseSteps DEF Free
  <2> QED
    BY <2>1 DEF Ending, EndedForGood, Extends
<1>3. CASE Inserts
  <2>1. /\ DOMAIN sessions' = DOMAIN sessions \cup {lastId + 1}
        /\ \A j \in DOMAIN sessions : sessions'[j] = sessions[j]
        /\ work' = NoWork /\ ended' = ended
    BY <1>3, InsertSteps
  <2>2. lastId + 1 \notin ended
    BY <1>0
  <2> QED
    BY <2>1, <2>2 DEF Ending, EndedForGood, NoWork
<1> QED
  BY <1>1, <1>2, <1>3, SessionSteps

\* What the housekeeping set out to end or delete was over when it looked.
LEMMA OverWhenChosen ==
    ASSUME Rows, Promised
    PROVE  /\ \A i \in Abandoned : ~Live(sessions[i])
           /\ \A keepFor \in 0 .. IdleFor, i \in DOMAIN sessions :
                  LET cutoff == IF now > keepFor THEN now - keepFor ELSE 0
                  IN  sessions[i].expires <= cutoff => ~Live(sessions[i])
<1> USE SessionsAssumption
<1>1. now \in Nat /\ \A i \in DOMAIN sessions : sessions[i] \in Session
  BY DEF Rows
<1>2. ASSUME NEW i \in Abandoned PROVE ~Live(sessions[i])
  <2>1. i \in DOMAIN sessions /\ sessions[i].used <= now - IdleFor
    BY DEF Abandoned, Unrevoked
  <2>2. sessions[i].expires <= sessions[i].used + IdleFor
    BY <2>1 DEF Promised, Dated
  <2> QED
    BY <1>1, <2>1, <2>2 DEF Live, Session
<1>3. ASSUME NEW keepFor \in 0 .. IdleFor, NEW i \in DOMAIN sessions,
             sessions[i].expires <= (IF now > keepFor THEN now - keepFor ELSE 0)
      PROVE  ~Live(sessions[i])
  BY <1>1, <1>3 DEF Live, Session
<1> QED
  BY <1>2, <1>3

\* What a sweep or a deletion still has to do stays over.
LEMMA SparingStep ==
    ASSUME Rows, Promised, Sparing, [SessionsNext]_sessionVars
    PROVE  Sparing'
<1>1. CASE Shrinks /\ lastUse' = lastUse
  <2>1. \A i \in DOMAIN sessions' : ~Live(sessions[i]) => ~Live(sessions[i])'
    BY <1>1, ShrinksLive
  <2>2. work'.left \subseteq DOMAIN sessions'
    BY RowsStep DEF Rows
  <2>3. ASSUME work'.call \in {"sweep", "delete"}, NEW i \in work'.left PROVE ~Live(sessions[i])
    <3>1. CASE work' = work
      BY <2>3, <3>1 DEF Sparing
    <3>2. CASE Sweep
      BY <2>3, <3>2, OverWhenChosen DEF Sweep, Starts
    <3>3. CASE Forgets
      BY <2>3, <3>3 DEF Forgets, Starts, Unrevoked, Live
    <3>4. ASSUME NEW keepFor \in 0 .. IdleFor, Prune(keepFor) PROVE ~Live(sessions[i])
      BY <2>3, <3>4, OverWhenChosen DEF Prune, Starts, Live
    <3>5. ASSUME NEW k \in Ids, EndsOne(k) \/ DeletesOne(k) PROVE ~Live(sessions[i])
      <4>1. work' = [work EXCEPT !.left = work.left \ {k}]
        BY <3>5 DEF EndsOne, DeletesOne
      <4>2. i \in work.left /\ work.call = work'.call
        BY <2>3, <4>1 DEF Rows
      <4> QED
        BY <2>3, <4>2 DEF Sparing
    <3> QED
      BY <2>3, <3>1, <3>2, <3>3, <3>4, <3>5, WorkSteps
      DEF NoWork, Issue, RevokeAll, Purge, Starts
  <2> QED
    BY <2>1, <2>2, <2>3 DEF Sparing
<1>2. ASSUME NEW i \in Ids, NEW turn \in 0 .. MaxTurns, Validate(i, turn) \/ Rotate(i, turn)
      PROVE  Sparing'
  BY <1>2, UseSteps DEF Free, Sparing
<1>3. CASE Inserts
  BY <1>3, InsertSteps DEF Sparing, NoWork
<1> QED
  BY <1>1, <1>2, <1>3, SessionSteps

\* A user without sessions.
LEMMA SessionsInvInit == SessionsInit => SessionsInv
<1> SUFFICES ASSUME SessionsInit PROVE SessionsInv
  OBVIOUS
<1> USE SessionsAssumption
<1>1. /\ DOMAIN sessions = {} /\ sessions \in [{} -> Session] /\ work = NoWork /\ lastId = 0
      /\ lastUse \in [Ids -> Nat] /\ ended = {} /\ now \in Nat
  BY DEF SessionsInit
<1>2. Rows
  BY <1>1 DEF Rows, NoWork, Calls
<1>3. LiveIds = {}
  BY <1>1 DEF LiveIds
<1>4. Capped
  BY <1>1, <1>3, FS_EmptySet DEF Capped, SessionCap, NoWork
<1> QED
  BY <1>1, <1>2, <1>4 DEF SessionsInv, Promised, Ending, EndedForGood, Sparing, NoWork

\* Every step keeps the invariant of the sessions.
LEMMA SessionsInvStep == SessionsInv /\ [SessionsNext]_sessionVars => SessionsInv'
  BY RowsStep, PromisedStep, CappedStep, EndingStep, SparingStep DEF SessionsInv

\* While its last use lags the dates by the slack at most, a session in use is live.
LEMMA PromisedStays == Rows /\ Promised => UsedStays
<1> SUFFICES ASSUME Rows, Promised, NEW i \in Unrevoked,
                    now < lastUse[i] + IdleFor - Slack,
                    now < sessions[i].created + Absolute
             PROVE  Live(sessions[i])
  BY DEF UsedStays
<1>1. /\ i \in DOMAIN sessions /\ i \in Ids /\ sessions[i] \in Session /\ ~sessions[i].revoked
      /\ now \in Nat /\ lastUse[i] \in Nat
  BY SessionsAssumption DEF Rows, Unrevoked, Ids
<1>2. Dated(sessions[i], lastUse[i])
  BY <1>1 DEF Promised
<1> QED
  BY <1>1, <1>2, SessionsAssumption DEF Dated, Sooner, Live, Session

\* The rows, the call in progress and the histories keep their types.
THEOREM SessionsTypeCorrect == SessionsSpec => []SessionsTypeOK
<1>1. SessionsInv => SessionsTypeOK
  BY SessionsAssumption DEF SessionsInv, Rows, SessionsTypeOK, Ids
<1> QED
  BY <1>1, SessionsInvInit, SessionsInvStep, PTL DEF SessionsSpec

\* A session lives as it was promised: never more of one user's than the limit,
\* none in use runs out before its absolute end, and what was ended stays ended,
\* wherever a call of several statements is cut off.
THEOREM LivesAsPromisedAlways == SessionsSpec => []LivesAsPromised
<1>1. SessionsInv => LivesAsPromised
  BY PromisedStays DEF SessionsInv, Capped, Ending, LivesAsPromised
<1> QED
  BY <1>1, SessionsInvInit, SessionsInvStep, PTL DEF SessionsSpec

\* The sweep and the prune neither revoke nor delete a session that is live, though
\* they choose the rows in one statement and write them in others.
THEOREM HousekeepingSparesLiveAlways == SessionsSpec => HousekeepingSparesLive
<1> DEFINE Spares == \A i \in DOMAIN sessions :
                         /\ work.call \in {"sweep", "delete"}
                         /\ i \notin DOMAIN sessions' \/ (sessions'[i].revoked /\ ~sessions[i].revoked)
                         => ~Live(sessions[i])
<1>1. SessionsInv /\ [SessionsNext]_sessionVars => [Spares]_sessionVars
  <2> SUFFICES ASSUME SessionsInv, [SessionsNext]_sessionVars,
                      NEW i \in DOMAIN sessions, work.call \in {"sweep", "delete"},
                      i \notin DOMAIN sessions' \/ (sessions'[i].revoked /\ ~sessions[i].revoked)
               PROVE  ~Live(sessions[i])
    OBVIOUS
  <2>1. ~Free /\ work.call # "issue" /\ Rows /\ Promised
    BY DEF Free, SessionsInv
  <2>2. sessions' # sessions
    OBVIOUS
  <2>3. PICK k \in Ids : EndsOne(k) \/ DeletesOne(k)
    BY <2>1, <2>2 DEF SessionsNext, sessionVars, Issue, Inserts, Validate, Replay, Rotate,
        Revoke, RevokeAll, RevokedAll, Enable, Sweep, Forgets, Prune, Purge, Deleted,
        Abandons, SessionsTick
  <2>4. i = k
    BY <2>1, <2>3 DEF EndsOne, DeletesOne, Rows
  <2>5. i \in work.left
    BY <2>3, <2>4 DEF EndsOne, DeletesOne
  <2> QED
    BY <2>5 DEF SessionsInv, Sparing
<1>2. SessionsSpec => []SessionsInv
  BY SessionsInvInit, SessionsInvStep, PTL DEF SessionsSpec
<1> QED
  BY <1>1, <1>2, PTL DEF SessionsSpec, HousekeepingSparesLive

-----------------------------------------------------------------------------
(* The event bus: lists of hooks, and taking hooks out of them *)

\* Where hook h stands in a list, up to place b, and how often.
Standing(s, h, b) == {j \in 1 .. Len(s) : j <= b /\ s[j] = h}
Times(s, h) == Cardinality(Standing(s, h, Len(s)))

\* Induction up to N, over the set of the numbers a claim holds of.
LEMMA UpTo ==
    ASSUME NEW N \in Nat, NEW G, 0 \in G, \A n \in 0 .. N - 1 : n \in G => n + 1 \in G
    PROVE  \A n \in 0 .. N : n \in G
<1> DEFINE Out == {n \in 0 .. N : n \notin G}
           R == OpToRel(<, Nat)
<1>1. IsWellFoundedOn(R, Nat)
  BY NatLessThanWellFounded
<1>2. \A x, y \in Nat : <<y, x>> \in R <=> y < x
  BY DEF OpToRel
<1> SUFFICES ASSUME Out # {} PROVE FALSE
  OBVIOUS
<1> HIDE DEF R
<1>3. Out \in SUBSET Nat
  OBVIOUS
<1> HIDE DEF Out
<1>4. PICK x \in Out : \A y \in Out : ~ (<<y, x>> \in R)
  BY <1>1, <1>3, WFMin
<1>5. \A y \in Out : x \in Nat /\ y \in Nat /\ ~ (y < x)
  BY <1>2, <1>3, <1>4, Zenon
<1>6. x \in 1 .. N /\ x \notin G
  BY <1>4, <1>5 DEF Out
<1>7. x - 1 \in 0 .. N - 1 /\ x - 1 \notin Out
  BY <1>5, <1>6
<1> QED
  BY <1>6, <1>7 DEF Out

\* Taking a hook out takes the first that is equal, and moves up what follows it.
LEMMA RemovedList ==
    ASSUME NEW s \in Seq(Hooks), NEW h
    PROVE  LET t == ItemRemoved(s, h)
           IN  /\ t \in Seq(Hooks)
               /\ ~ Contains(s, h) => t = s
               /\ Contains(s, h) =>
                      \E r \in 1 .. Len(s) :
                          /\ s[r] = h /\ \A j \in 1 .. r - 1 : s[j] # h
                          /\ Len(t) = Len(s) - 1
                          /\ \A j \in 1 .. Len(t) : t[j] = IF j < r THEN s[j] ELSE s[j + 1]
<1> DEFINE t == ItemRemoved(s, h)
<1>0. Len(s) \in Nat /\ \A j \in 1 .. Len(s) : s[j] \in Hooks
  BY LenProperties, ElementOfSeq
<1>1. CASE ~ Contains(s, h)
  BY <1>1 DEF ItemRemoved
<1>2. CASE Contains(s, h)
  <2> DEFINE I == {j \in 1 .. Len(s) : s[j] = h}
             R == OpToRel(<, Nat)
             r == Min(I)
             a == SubSeq(s, 1, r - 1)
             b == SubSeq(s, r + 1, Len(s))
  <2>1. I # {} /\ I \in SUBSET Nat
    BY <1>2 DEF Contains
  <2>2. r \in I /\ \A y \in I : r <= y
    <3>1. IsWellFoundedOn(R, Nat)
      BY NatLessThanWellFounded
    <3>2. \A x, y \in Nat : <<y, x>> \in R <=> y < x
      BY DEF OpToRel
    <3> HIDE DEF R, I
    <3>3. PICK x \in I : \A y \in I : ~ (<<y, x>> \in R)
      BY <2>1, <3>1, WFMin
    <3>4. \A y \in I : x \in Nat /\ y \in Nat /\ ~ (y < x)
      BY <2>1, <3>2, <3>3, Zenon
    <3>5. \A y \in I : x <= y
      BY <3>4
    <3> QED
      BY <3>5 DEF Min
  <2>3. t = a \o b
    <3>1. SelectInSeq(s, LAMBDA v : v = h) = r
      BY <2>1 DEF SelectInSeq
    <3>2. t = RemoveAt(s, SelectInSeq(s, LAMBDA v : v = h))
      BY <1>2 DEF ItemRemoved, RemoveFirst, Contains
    <3> QED
      BY <3>1, <3>2 DEF RemoveAt
  <2> HIDE DEF r, t
  <2>4. r \in 1 .. Len(s) /\ s[r] = h /\ \A j \in 1 .. r - 1 : s[j] # h
    BY <1>0, <2>2
  <2>5. /\ a \in Seq(Hooks) /\ Len(a) = r - 1
        /\ \A j \in 1 .. r - 1 : a[j] = s[j]
    <3>1. 1 \in Int /\ r - 1 \in Int /\ \A j \in 1 .. r - 1 : s[j] \in Hooks
      BY <1>0, <2>4
    <3>2. /\ a \in Seq(Hooks) /\ Len(a) = IF 1 <= r - 1 THEN r - 1 - 1 + 1 ELSE 0
          /\ \A j \in 1 .. r - 1 - 1 + 1 : a[j] = s[1 + j - 1]
      BY <3>1, SubSeqProperties
    <3> QED
      BY <2>4, <3>2
  <2>6. /\ b \in Seq(Hooks) /\ Len(b) = Len(s) - r
        /\ \A j \in 1 .. Len(s) - r : b[j] = s[r + j]
    <3>1. r + 1 \in Int /\ Len(s) \in Int /\ \A j \in r + 1 .. Len(s) : s[j] \in Hooks
      BY <1>0, <2>4
    <3>2. /\ b \in Seq(Hooks) /\ Len(b) = IF r + 1 <= Len(s) THEN Len(s) - (r + 1) + 1 ELSE 0
          /\ \A j \in 1 .. Len(s) - (r + 1) + 1 : b[j] = s[r + 1 + j - 1]
      BY <3>1, SubSeqProperties
    <3> QED
      BY <1>0, <2>4, <3>2
  <2> HIDE DEF a, b
  <2>7. /\ t \in Seq(Hooks) /\ Len(t) = Len(a) + Len(b)
        /\ \A j \in 1 .. Len(a) + Len(b) : t[j] = IF j <= Len(a) THEN a[j] ELSE b[j - Len(a)]
    BY <2>3, <2>5, <2>6, ConcatProperties
  <2>8. Len(t) = Len(s) - 1
    BY <1>0, <2>4, <2>5, <2>6, <2>7
  <2>9. ASSUME NEW j \in 1 .. Len(t)
        PROVE  t[j] = IF j < r THEN s[j] ELSE s[j + 1]
    <3>1. j \in Nat /\ r \in Nat /\ j \in 1 .. Len(a) + Len(b)
      BY <1>0, <2>4, <2>7
    <3>2. CASE j < r
      <4>1. j \in 1 .. r - 1 /\ j <= Len(a)
        BY <2>5, <3>1, <3>2
      <4> QED
        BY <2>5, <2>7, <3>1, <3>2, <4>1
    <3>3. CASE ~ (j < r)
      <4>1. ~ (j <= Len(a)) /\ j - Len(a) = j + 1 - r
        BY <2>5, <3>1, <3>3
      <4>2. j + 1 - r \in 1 .. Len(s) - r /\ r + (j + 1 - r) = j + 1
        BY <1>0, <2>5, <2>6, <3>1, <3>3
      <4>3. t[j] = b[j + 1 - r]
        BY <2>7, <3>1, <4>1
      <4>4. b[j + 1 - r] = s[r + (j + 1 - r)]
        BY <2>6, <4>2
      <4> QED
        BY <3>3, <4>2, <4>3, <4>4
    <3> QED
      BY <3>2, <3>3
  <2> QED
    BY <1>2, <2>4, <2>7, <2>8, <2>9 DEF t
<1> QED
  BY <1>1, <1>2

\* Places in a list are finitely many.
LEMMA StandingType ==
    ASSUME NEW s \in Seq(Hooks), NEW h, NEW b
    PROVE  IsFiniteSet(Standing(s, h, b)) /\ Cardinality(Standing(s, h, b)) \in Nat
<1>1. Standing(s, h, b) \in SUBSET (1 .. Len(s)) /\ Len(s) \in Int
  BY LenProperties DEF Standing
<1>2. IsFiniteSet(1 .. Len(s))
  BY <1>1, FS_Interval
<1> QED
  BY <1>1, <1>2, FS_Subset, FS_CardinalityType

\* Taking one out counts for that hook alone, and no other one moves away from the front.
LEMMA RemovedTimes ==
    ASSUME NEW s \in Seq(Hooks), NEW h, NEW g
    PROVE  LET t == ItemRemoved(s, h)
           IN  /\ Times(t, g) = IF g = h /\ Contains(s, h) THEN Times(s, g) - 1 ELSE Times(s, g)
               /\ g # h => \A b \in Nat : Cardinality(Standing(s, g, b))
                                            <= Cardinality(Standing(t, g, b))
<1> DEFINE t == ItemRemoved(s, h)
<1>1. t \in Seq(Hooks) /\ (~ Contains(s, h) => t = s)
  BY RemovedList
<1>2. CASE ~ Contains(s, h)
  <2>1. \A b \in Nat : Cardinality(Standing(s, g, b)) \in Nat
    BY StandingType
  <2> QED
    BY <1>1, <1>2, <2>1
<1>3. CASE Contains(s, h)
  <2>1. PICK r \in 1 .. Len(s) :
             /\ s[r] = h /\ \A j \in 1 .. r - 1 : s[j] # h
             /\ Len(t) = Len(s) - 1
             /\ \A j \in 1 .. Len(t) : t[j] = IF j < r THEN s[j] ELSE s[j + 1]
    BY <1>3, RemovedList
  <2> HIDE DEF t
  <2>2. Len(s) \in Nat /\ Len(t) \in Nat /\ r \in Nat
    BY <1>1, LenProperties
  <2> DEFINE S(b) == Standing(s, g, b) \ {r}
             T(b) == Standing(t, g, b)
             up(j) == IF j < r THEN j ELSE j - 1
             f(b) == [j \in S(b) |-> up(j)]
  <2>3. ASSUME NEW b \in Nat, NEW j \in S(b)
        PROVE  up(j) \in T(b)
    <3>1. j \in 1 .. Len(s) /\ j <= b /\ s[j] = g /\ j # r
      BY DEF Standing
    <3>2. up(j) \in 1 .. Len(t) /\ up(j) <= b
      BY <2>1, <2>2, <3>1
    <3>3. t[up(j)] = s[j]
      BY <2>1, <2>2, <3>1, <3>2
    <3> QED
      BY <3>1, <3>2, <3>3 DEF Standing
  <2>4. ASSUME NEW b \in Nat
        PROVE  f(b) \in Injection(S(b), T(b))
    <3>1. \A i, j \in S(b) : up(i) = up(j) => i = j
      <4>1. \A j \in S(b) : j \in Nat /\ j # r
        BY <2>2 DEF Standing
      <4> HIDE DEF S
      <4> QED
        BY <2>2, <4>1
    <3> HIDE DEF S, T, up
    <3> QED
      BY <2>3, <3>1 DEF Injection, IsInjective
  <2>5. \A b \in Nat : IsFiniteSet(S(b)) /\ IsFiniteSet(T(b))
    BY <1>1, StandingType, FS_RemoveElement
  <2>6. \A b \in Nat : Cardinality(S(b)) <= Cardinality(T(b))
    <3> HIDE DEF S, T, f
    <3> QED
      BY <2>4, <2>5, FS_Injection
  <2>7. Cardinality(T(Len(s))) = Cardinality(S(Len(s)))
    <3> DEFINE B == Len(s)
    <3>1. ASSUME NEW k \in T(B)
          PROVE  \E j \in S(B) : up(j) = k
      <4>1. k \in 1 .. Len(t) /\ t[k] = g
        BY DEF Standing
      <4>2. CASE k < r
        <5>1. k \in S(B) /\ up(k) = k
          BY <2>1, <2>2, <4>1, <4>2 DEF Standing
        <5> QED
          BY <5>1
      <4>3. CASE ~ (k < r)
        <5>1. k + 1 \in S(B) /\ up(k + 1) = k
          BY <2>1, <2>2, <4>1, <4>3 DEF Standing
        <5> QED
          BY <5>1
      <4> QED
        BY <4>2, <4>3
    <3>2. f(B) \in Injection(S(B), T(B)) /\ IsFiniteSet(S(B))
      BY <2>2, <2>4, <2>5
    <3>3. f(B) \in Surjection(S(B), T(B))
      <4>1. f(B) \in [S(B) -> T(B)] /\ \A j \in S(B) : f(B)[j] = up(j)
        BY <3>2 DEF Injection
      <4> HIDE DEF S, T, f, up
      <4> QED
        BY <3>1, <4>1 DEF Surjection
    <3> HIDE DEF S, T, f
    <3> QED
      BY <3>2, <3>3, FS_Surjection
  <2>8. \A b \in Nat : /\ Cardinality(Standing(s, g, b)) \in Nat
                       /\ Cardinality(S(b)) = IF r \in Standing(s, g, b)
                                              THEN Cardinality(Standing(s, g, b)) - 1
                                              ELSE Cardinality(Standing(s, g, b))
    BY StandingType, FS_RemoveElement
  <2>9. T(Len(s)) = Standing(t, g, Len(t))
    BY <2>1, <2>2 DEF Standing
  <2>10. \A b \in Nat : r \in Standing(s, g, b) <=> g = h /\ r <= b
    BY <2>1 DEF Standing
  <2>11. g # h => \A b \in Nat : Cardinality(Standing(s, g, b)) <= Cardinality(T(b))
    BY <2>6, <2>8, <2>10
  <2>12. Times(t, g) = IF g = h THEN Times(s, g) - 1 ELSE Times(s, g)
    BY <2>2, <2>7, <2>8, <2>9, <2>10 DEF Times
  <2> QED
    BY <1>3, <2>11, <2>12 DEF t
<1> QED
  BY <1>2, <1>3

\* Taking h out from behind place b leaves the list up to b as it was, and moves what
\* is behind it no farther back.
LEMMA RemovedBehind ==
    ASSUME NEW s \in Seq(Hooks), NEW h, NEW b \in Nat, b <= Len(s), \A j \in 1 .. b : s[j] # h
    PROVE  LET t == ItemRemoved(s, h)
           IN  /\ b <= Len(t) /\ \A j \in 1 .. b : t[j] = s[j]
               /\ \A j \in 1 .. Len(s) :
                      b < j /\ s[j] # h => \E k \in 1 .. Len(t) : b < k /\ k <= j /\ t[k] = s[j]
<1> DEFINE t == ItemRemoved(s, h)
<1>1. t \in Seq(Hooks) /\ (~ Contains(s, h) => t = s)
  BY RemovedList
<1>0. Len(s) \in Nat
  BY LenProperties
<1>2. CASE ~ Contains(s, h)
  BY <1>0, <1>1, <1>2
<1>3. CASE Contains(s, h)
  <2>1. PICK r \in 1 .. Len(s) :
             /\ s[r] = h /\ \A j \in 1 .. r - 1 : s[j] # h
             /\ Len(t) = Len(s) - 1
             /\ \A j \in 1 .. Len(t) : t[j] = IF j < r THEN s[j] ELSE s[j + 1]
    BY <1>3, RemovedList
  <2> HIDE DEF t
  <2>2. b < r
    BY <1>0, <2>1
  <2>3. b <= Len(t) /\ \A j \in 1 .. b : t[j] = s[j]
    BY <1>0, <2>1, <2>2
  <2>4. ASSUME NEW j \in 1 .. Len(s), b < j, s[j] # h
        PROVE  \E k \in 1 .. Len(t) : b < k /\ k <= j /\ t[k] = s[j]
    <3>1. CASE j < r
      <4>1. j \in 1 .. Len(t) /\ t[j] = s[j]
        BY <1>0, <2>1, <3>1
      <4> QED
        BY <1>0, <2>4, <4>1
    <3>2. CASE r < j
      <4>1. j - 1 \in 1 .. Len(t) /\ b < j - 1 /\ j - 1 <= j
        BY <1>0, <2>1, <2>2, <3>2
      <4>2. t[j - 1] = s[j]
        BY <1>0, <2>1, <3>2, <4>1
      <4> QED
        BY <4>1, <4>2
    <3> QED
      BY <1>0, <2>1, <2>4, <3>1, <3>2
  <2> QED
    BY <2>3, <2>4 DEF t
<1> QED
  BY <1>2, <1>3

\* How often a hook is in a list grows place by place.
LEMMA StandingGrows ==
    ASSUME NEW s \in Seq(Hooks), NEW h
    PROVE  /\ Cardinality(Standing(s, h, 0)) = 0
           /\ \A n \in 1 .. Len(s) :
                  /\ Cardinality(Standing(s, h, n))
                       = Cardinality(Standing(s, h, n - 1)) + (IF s[n] = h THEN 1 ELSE 0)
                  /\ Cardinality(Standing(s, h, n)) <= Times(s, h)
           /\ Times(s, h) \in Nat /\ (Times(s, h) = 0 <=> ~ Contains(s, h))
<1>0. Len(s) \in Nat
  BY LenProperties
<1>1. Standing(s, h, 0) = {}
  BY <1>0 DEF Standing
<1>2. ASSUME NEW n \in 1 .. Len(s)
      PROVE  /\ Cardinality(Standing(s, h, n))
                  = Cardinality(Standing(s, h, n - 1)) + (IF s[n] = h THEN 1 ELSE 0)
             /\ Cardinality(Standing(s, h, n)) <= Times(s, h)
  <2>1. IsFiniteSet(Standing(s, h, n - 1)) /\ Cardinality(Standing(s, h, n - 1)) \in Nat
    BY StandingType
  <2>2. ASSUME s[n] = h
        PROVE  Cardinality(Standing(s, h, n))
                 = Cardinality(Standing(s, h, n - 1)) + (IF s[n] = h THEN 1 ELSE 0)
    <3>1. /\ Standing(s, h, n) = Standing(s, h, n - 1) \cup {n}
          /\ n \notin Standing(s, h, n - 1)
      BY <1>0, <2>2 DEF Standing
    <3> QED
      BY <2>1, <2>2, <3>1, FS_AddElement
  <2>3. ASSUME s[n] # h
        PROVE  Cardinality(Standing(s, h, n))
                 = Cardinality(Standing(s, h, n - 1)) + (IF s[n] = h THEN 1 ELSE 0)
    <3>1. Standing(s, h, n) = Standing(s, h, n - 1)
      BY <1>0, <2>3 DEF Standing
    <3> QED
      BY <2>1, <2>3, <3>1
  <2>4. Cardinality(Standing(s, h, n)) <= Times(s, h)
    <3>1. Standing(s, h, n) \in SUBSET Standing(s, h, Len(s))
      BY <1>0 DEF Standing
    <3> QED
      BY <3>1, StandingType, FS_Subset DEF Times
  <2> QED
    BY <2>2, <2>3, <2>4
<1>3. Times(s, h) = 0 <=> Standing(s, h, Len(s)) = {}
  BY StandingType, FS_EmptySet DEF Times
<1>4. Standing(s, h, Len(s)) = {} <=> ~ Contains(s, h)
  BY <1>0 DEF Standing, Contains
<1>5. Times(s, h) \in Nat
  BY StandingType DEF Times
<1> QED
  BY <1>1, <1>2, <1>3, <1>4, <1>5, FS_EmptySet

\* A hook at the end of a list counts for itself.
LEMMA AppendTimes ==
    ASSUME NEW s \in Seq(Hooks), NEW e \in Hooks, NEW h
    PROVE  LET t == Append(s, e)
           IN  /\ t \in Seq(Hooks) /\ Len(t) = Len(s) + 1 /\ t[Len(s) + 1] = e
               /\ \A j \in 1 .. Len(s) : t[j] = s[j]
               /\ Times(t, h) = Times(s, h) + (IF e = h THEN 1 ELSE 0)
               /\ \A b \in Nat : Cardinality(Standing(s, h, b)) <= Cardinality(Standing(t, h, b))
               /\ ToSet(t) = ToSet(s) \cup {e}
<1> DEFINE t == Append(s, e)
<1>1. /\ t \in Seq(Hooks) /\ Len(t) = Len(s) + 1 /\ t[Len(s) + 1] = e
      /\ \A j \in 1 .. Len(s) : t[j] = s[j]
  BY AppendProperties
<1>2. Len(s) \in Nat /\ DOMAIN s = 1 .. Len(s) /\ DOMAIN t = 1 .. Len(s) + 1
  BY <1>1, LenProperties
<1> HIDE DEF t
<1>3. Standing(t, h, Len(t) - 1) = Standing(s, h, Len(s))
  BY <1>1, <1>2 DEF Standing
<1>4. Times(t, h) = Times(s, h) + (IF e = h THEN 1 ELSE 0)
  <2>1. Len(t) \in 1 .. Len(t)
    BY <1>1, <1>2
  <2>2. \A n \in 1 .. Len(t) :
           Cardinality(Standing(t, h, n))
             = Cardinality(Standing(t, h, n - 1)) + (IF t[n] = h THEN 1 ELSE 0)
    <3>1. t \in Seq(Hooks)
      BY <1>1
    <3> QED
      BY <3>1, StandingGrows, Zenon
  <2>3. Cardinality(Standing(t, h, Len(t)))
          = Cardinality(Standing(t, h, Len(t) - 1)) + (IF t[Len(t)] = h THEN 1 ELSE 0)
    BY <2>1, <2>2, Zenon
  <2> QED
    BY <1>1, <1>3, <2>3 DEF Times
<1>5. ASSUME NEW b \in Nat
      PROVE  Cardinality(Standing(s, h, b)) <= Cardinality(Standing(t, h, b))
  <2>1. Standing(s, h, b) \in SUBSET Standing(t, h, b)
    BY <1>1, <1>2 DEF Standing
  <2> QED
    BY <1>1, <2>1, StandingType, FS_Subset
<1>6. ToSet(t) = ToSet(s) \cup {e}
  BY <1>1, <1>2 DEF ToSet
<1> QED
  BY <1>1, <1>4, <1>5, <1>6 DEF t

\* The list without the spent, one after another.
LEMMA CleanedSteps ==
    ASSUME NEW w, Len(w.spent) \in Nat
    PROVE  \E left : /\ left[0] = hooks[w.list]
                     /\ \A n \in 1 .. Len(w.spent) : left[n] = ItemRemoved(left[n - 1], w.spent[n])
                     /\ Cleaned(w) = left[Len(w.spent)]
<1> DEFINE N == Len(w.spent)
           s == hooks[w.list]
           e(n) == w.spent[n]
           Solves(f, m) == f = [n \in 0 .. m |-> IF n = 0 THEN s ELSE ItemRemoved(f[n - 1], e(n))]
           G == {m \in 0 .. N : \E f : Solves(f, m)}
<1>0. N \in Nat
  OBVIOUS
<1>1. N \in G
  <2>1. 0 \in G
    <3> DEFINE g == [n \in 0 .. 0 |-> s]
    <3>1. \A n \in 0 .. 0 : n = 0
      OBVIOUS
    <3>2. g = [n \in 0 .. 0 |-> IF n = 0 THEN s ELSE ItemRemoved(g[n - 1], e(n))]
      BY <3>1
    <3>3. 0 \in 0 .. N
      BY <1>0
    <3> QED
      BY <3>2, <3>3
  <2>2. ASSUME NEW m \in 0 .. N - 1, m \in G
        PROVE  m + 1 \in G
    <3>1. PICK f : Solves(f, m)
      BY <2>2
    <3> DEFINE g == [n \in 0 .. m + 1 |-> IF n = m + 1 THEN ItemRemoved(f[m], e(m + 1)) ELSE f[n]]
    <3>2. \A n \in 0 .. m : f[n] = IF n = 0 THEN s ELSE ItemRemoved(f[n - 1], e(n))
      BY <3>1
    <3>3. m \in Nat /\ m + 1 \in 0 .. N
      BY <1>0
    <3> HIDE DEF s, e, N
    <3>4. ASSUME NEW n \in 0 .. m + 1
          PROVE  g[n] = IF n = 0 THEN s ELSE ItemRemoved(g[n - 1], e(n))
      <4>1. CASE n = m + 1
        <5>1. n # 0 /\ n - 1 = m /\ m \in 0 .. m + 1 /\ m # m + 1
          BY <3>3, <4>1
        <5> QED
          BY <4>1, <5>1
      <4>2. CASE n # m + 1
        <5>1. n \in 0 .. m
          BY <3>3, <4>2
        <5>2. CASE n = 0
          BY <3>2, <3>3, <4>2, <5>1, <5>2
        <5>3. CASE n # 0
          <6>1. n - 1 \in 0 .. m + 1 /\ n - 1 # m + 1
            BY <3>3, <5>1, <5>3
          <6> QED
            BY <3>2, <4>2, <5>1, <5>3, <6>1
        <5> QED
          BY <5>2, <5>3
      <4> QED
        BY <4>1, <4>2
    <3>5. g = [n \in 0 .. m + 1 |-> g[n]]
      OBVIOUS
    <3> HIDE DEF g
    <3>6. g = [n \in 0 .. m + 1 |-> IF n = 0 THEN s ELSE ItemRemoved(g[n - 1], e(n))]
      BY <3>4, <3>5
    <3> QED
      BY <3>3, <3>6
  <2> HIDE DEF G, N
  <2>3. N \in 0 .. N
    BY <1>0
  <2> QED
    BY <1>0, <2>1, <2>2, <2>3, UpTo
<1> DEFINE left == CHOOSE f : Solves(f, N)
<1>2. Cleaned(w) = left[N]
  BY Zenon DEF Cleaned
<1>3. Solves(left, N)
  <2> HIDE DEF Solves
  <2> QED
    BY <1>1
<1> HIDE DEF left
<1>4. \A n \in 0 .. N : left[n] = IF n = 0 THEN s ELSE ItemRemoved(left[n - 1], e(n))
  <2> HIDE DEF s, e
  <2> QED
    BY <1>3
<1>5. 0 \in 0 .. N /\ \A n \in 1 .. N : n \in 0 .. N /\ n # 0
  BY <1>0
<1> QED
  BY <1>2, <1>4, <1>5

\* What a walk leaves of its list: of every hook as many as it spent are gone, hooks it
\* did not spend stay at least as far in front, and if it spent none up to place b, the
\* list is as it was up to there.
LEMMA CleanedList ==
    ASSUME NEW w, w.spent \in Seq(Hooks), hooks[w.list] \in Seq(Hooks)
    PROVE  LET s == hooks[w.list]
               t == Cleaned(w)
           IN  /\ t \in Seq(Hooks)
               /\ \A g : Times(w.spent, g) <= Times(s, g)
                             => Times(t, g) = Times(s, g) - Times(w.spent, g)
               /\ \A g : ~ Contains(w.spent, g) =>
                      \A b \in Nat : Cardinality(Standing(s, g, b)) <= Cardinality(Standing(t, g, b))
               /\ \A b \in Nat :
                      b <= Len(s) /\ (\A h \in ToSet(w.spent) : \A j \in 1 .. b : s[j] # h) =>
                          /\ b <= Len(t)
                          /\ \A j \in 1 .. Len(s) :
                                 b < j /\ s[j] \notin ToSet(w.spent) =>
                                     \E k \in 1 .. Len(t) : b < k /\ k <= j /\ t[k] = s[j]
<1> DEFINE N == Len(w.spent)
           s == hooks[w.list]
           t == Cleaned(w)
<1>0. N \in Nat /\ DOMAIN w.spent = 1 .. N
  BY LenProperties
<1>1. PICK left : /\ left[0] = s
                  /\ \A n \in 1 .. N : left[n] = ItemRemoved(left[n - 1], w.spent[n])
                  /\ t = left[N]
  BY <1>0, CleanedSteps
<1>2. s \in Seq(Hooks)
  OBVIOUS
<1> HIDE DEF s, t
<1>3. \A n \in 0 .. N - 1 : /\ n + 1 \in 1 .. N /\ n \in Nat
                            /\ left[n + 1] = ItemRemoved(left[n], w.spent[n + 1])
  <2> SUFFICES ASSUME NEW n \in 0 .. N - 1
               PROVE  /\ n + 1 \in 1 .. N /\ n \in Nat
                      /\ left[n + 1] = ItemRemoved(left[n], w.spent[n + 1])
    OBVIOUS
  <2>1. n + 1 \in 1 .. N /\ n \in Nat /\ n + 1 - 1 = n
    BY <1>0
  <2> QED
    BY <1>1, <2>1
<1>4. \A n \in 0 .. N : left[n] \in Seq(Hooks)
  <2> DEFINE G == {n \in 0 .. N : left[n] \in Seq(Hooks)}
  <2>1. 0 \in G
    BY <1>0, <1>1, <1>2
  <2>2. \A n \in 0 .. N - 1 : n \in G => n + 1 \in G
    BY <1>0, <1>3, RemovedList
  <2>3. \A n \in 0 .. N : n \in G
    <3> HIDE DEF G
    <3> QED
      BY <1>0, <2>1, <2>2, UpTo
  <2> QED
    BY <2>3
<1>5. N \in 0 .. N /\ 0 \in 0 .. N /\ \A n \in 0 .. N - 1 : n \in 0 .. N
  BY <1>0
<1>6. ASSUME NEW g, Times(w.spent, g) <= Times(s, g)
      PROVE  Times(t, g) = Times(s, g) - Times(w.spent, g)
  <2> DEFINE C(n) == Cardinality(Standing(w.spent, g, n))
             G == {n \in 0 .. N : Times(left[n], g) = Times(s, g) - C(n)}
  <2>1. C(0) = 0 /\ Times(s, g) \in Nat
    BY <1>2, StandingGrows
  <2>2. \A n \in 0 .. N : C(n) \in Nat
    BY StandingType
  <2>3. 0 \in G
    BY <1>1, <1>5, <2>1
  <2>4. ASSUME NEW n \in 0 .. N - 1, n \in G
        PROVE  n + 1 \in G
    <3> DEFINE h == w.spent[n + 1]
    <3>1. /\ n + 1 \in 1 .. N /\ left[n + 1] = ItemRemoved(left[n], h)
          /\ left[n] \in Seq(Hooks) /\ C(n) \in Nat /\ n + 1 - 1 = n
      BY <1>3, <1>4, <1>5, <2>2
    <3>2. C(n + 1) = C(n) + (IF h = g THEN 1 ELSE 0) /\ C(n + 1) <= Times(w.spent, g)
      <4>0. \A m \in 1 .. N :
                /\ Cardinality(Standing(w.spent, g, m))
                     = Cardinality(Standing(w.spent, g, m - 1))
                         + (IF w.spent[m] = g THEN 1 ELSE 0)
                /\ Cardinality(Standing(w.spent, g, m)) <= Times(w.spent, g)
        BY StandingGrows
      <4>1. /\ Cardinality(Standing(w.spent, g, n + 1))
                 = Cardinality(Standing(w.spent, g, n + 1 - 1))
                     + (IF w.spent[n + 1] = g THEN 1 ELSE 0)
            /\ Cardinality(Standing(w.spent, g, n + 1)) <= Times(w.spent, g)
        BY <3>1, <4>0
      <4> QED
        BY <3>1, <4>1
    <3>3. /\ Times(left[n + 1], g)
                = IF g = h /\ Contains(left[n], h) THEN Times(left[n], g) - 1 ELSE Times(left[n], g)
          /\ Times(left[n], g) \in Nat /\ Times(w.spent, g) \in Nat
          /\ Times(left[n], g) = 0 <=> ~ Contains(left[n], g)
      BY <3>1, RemovedTimes, StandingGrows
    <3>4. Times(left[n], g) = Times(s, g) - C(n)
      BY <2>4
    <3> HIDE DEF C, h
    <3>5. Times(left[n + 1], g) = Times(s, g) - C(n + 1)
      <4>1. CASE g = h
        <5>1. Times(left[n], g) # 0
          BY <1>6, <2>1, <3>1, <3>2, <3>3, <3>4, <4>1
        <5>2. Contains(left[n], h)
          BY <3>3, <4>1, <5>1
        <5> QED
          BY <2>1, <3>1, <3>2, <3>3, <3>4, <4>1, <5>2
      <4>2. CASE g # h
        BY <2>1, <3>1, <3>2, <3>3, <3>4, <4>2
      <4> QED
        BY <4>1, <4>2
    <3> QED
      BY <1>0, <3>1, <3>5
  <2>5. \A n \in 0 .. N : n \in G
    <3> HIDE DEF G
    <3> QED
      BY <1>0, <2>3, <2>4, UpTo
  <2> QED
    BY <1>1, <1>5, <2>5 DEF Times
<1>7. ASSUME NEW g, ~ Contains(w.spent, g), NEW b \in Nat
      PROVE  Cardinality(Standing(s, g, b)) <= Cardinality(Standing(t, g, b))
  <2> DEFINE C(n) == Cardinality(Standing(left[n], g, b))
             G == {n \in 0 .. N : C(0) <= C(n)}
  <2>1. \A n \in 0 .. N : C(n) \in Nat
    BY <1>4, StandingType
  <2>2. 0 \in G
    BY <1>5, <2>1
  <2>3. ASSUME NEW n \in 0 .. N - 1, n \in G
        PROVE  n + 1 \in G
    <3>1. /\ n + 1 \in 1 .. N /\ left[n + 1] = ItemRemoved(left[n], w.spent[n + 1])
          /\ left[n] \in Seq(Hooks) /\ n \in 0 .. N /\ n + 1 \in 0 .. N
      BY <1>0, <1>3, <1>4, <1>5
    <3>2. g # w.spent[n + 1]
      BY <1>7, <3>1 DEF Contains
    <3>3. C(n) <= C(n + 1)
      BY <3>1, <3>2, RemovedTimes
    <3>4. C(0) <= C(n) /\ C(0) \in Nat /\ C(n) \in Nat /\ C(n + 1) \in Nat
      BY <1>5, <2>1, <2>3, <3>1
    <3> HIDE DEF C
    <3> QED
      BY <3>1, <3>3, <3>4
  <2>4. \A n \in 0 .. N : n \in G
    <3> HIDE DEF G
    <3> QED
      BY <1>0, <2>2, <2>3, UpTo
  <2> QED
    BY <1>1, <1>5, <2>4
<1>8. ASSUME NEW b \in Nat, b <= Len(s), \A h \in ToSet(w.spent) : \A j \in 1 .. b : s[j] # h
      PROVE  /\ b <= Len(t)
             /\ \A j \in 1 .. Len(s) :
                    b < j /\ s[j] \notin ToSet(w.spent) =>
                        \E k \in 1 .. Len(t) : b < k /\ k <= j /\ t[k] = s[j]
  <2> DEFINE Fine(q) ==
                /\ b <= Len(q) /\ \A j \in 1 .. b : q[j] = s[j]
                /\ \A j \in 1 .. Len(s) :
                       b < j /\ s[j] \notin ToSet(w.spent) =>
                           \E k \in 1 .. Len(q) : b < k /\ k <= j /\ q[k] = s[j]
             G == {n \in 0 .. N : Fine(left[n])}
  <2>1. Len(s) \in Nat
    BY <1>2, LenProperties
  <2>2. Fine(s)
    BY <1>8, <2>1
  <2>3. 0 \in G
    BY <1>1, <1>5, <2>2
  <2>4. ASSUME NEW n \in 0 .. N - 1, n \in G
        PROVE  n + 1 \in G
    <3> DEFINE q == left[n]
               r == left[n + 1]
               h == w.spent[n + 1]
    <3>1. /\ n + 1 \in 1 .. N /\ r = ItemRemoved(q, h)
          /\ q \in Seq(Hooks) /\ n + 1 \in 0 .. N
      BY <1>0, <1>3, <1>4, <1>5
    <3>2. h \in ToSet(w.spent)
      BY <1>0, <3>1 DEF ToSet
    <3>3. Fine(q)
      BY <2>4
    <3>4. Len(q) \in Nat
      BY <3>1, LenProperties
    <3> HIDE DEF q, r, h
    <3>5. b <= Len(q) /\ \A j \in 1 .. b : q[j] # h
      BY <1>8, <3>2, <3>3
    <3>6. /\ b <= Len(r) /\ \A j \in 1 .. b : r[j] = q[j]
          /\ \A j \in 1 .. Len(q) :
                 b < j /\ q[j] # h => \E k \in 1 .. Len(r) : b < k /\ k <= j /\ r[k] = q[j]
      BY <3>1, <3>5, RemovedBehind, SMTT(60)
    <3>7. Len(r) \in Nat
      BY <3>1, RemovedList, LenProperties
    <3>8. ASSUME NEW j \in 1 .. Len(s), b < j, s[j] \notin ToSet(w.spent)
          PROVE  \E k \in 1 .. Len(r) : b < k /\ k <= j /\ r[k] = s[j]
      <4>1. PICK m \in 1 .. Len(q) : b < m /\ m <= j /\ q[m] = s[j]
        BY <3>3, <3>8
      <4>2. q[m] # h
        BY <3>2, <3>8, <4>1
      <4>3. PICK k \in 1 .. Len(r) : b < k /\ k <= m /\ r[k] = q[m]
        BY <3>6, <4>1, <4>2
      <4>4. k <= j
        BY <2>1, <3>4, <3>7, <4>1, <4>3
      <4> QED
        BY <4>1, <4>3, <4>4
    <3>9. Fine(r)
      BY <3>3, <3>6, <3>8
    <3> QED
      BY <3>1, <3>9 DEF r
  <2>5. \A n \in 0 .. N : n \in G
    <3> HIDE DEF G
    <3> QED
      BY <1>0, <2>3, <2>4, UpTo
  <2>6. Fine(left[N])
    BY <1>5, <2>5
  <2> QED
    BY <1>1, <2>6
<1>9. t \in Seq(Hooks)
  BY <1>1, <1>4, <1>5
<1> QED
  BY <1>6, <1>7, <1>8, <1>9 DEF s, t

-----------------------------------------------------------------------------
(* The event bus: its inductive invariant *)

EventType == [id : Nat, type : Types]
WalkType == [list : Lists, at : {"walk", "handler"}, i : Nat \ {0}, count : Nat,
             spent : Seq(Hooks), owed : SUBSET Hooks, moved : BOOLEAN]
HistoryType == [dispatched : Seq(Nat), polled : Seq(Nat), changes : Nat,
                due : [Lists -> [Hooks -> 0 .. 1]], doubled : SUBSET Hooks]

BusTyped ==
    /\ hooks \in [Lists -> Seq(Hooks)] /\ queue \in Seq(EventType) /\ readIndex \in 0 .. Len(queue)
    /\ walks \in Seq(WalkType) /\ history \in HistoryType

\* Every walk but the innermost waits for a handler of its own.
WalksNest == \A k \in 1 .. Len(walks) : k < Len(walks) => walks[k].at = "handler"

\* The places of its list a walk has passed, or is at with its handler.
Reached(w) == IF w.at = "handler" THEN w.i ELSE w.i - 1

\* Every hook a walk owes the event to is ahead of it, unless the list moved under it.
Ahead(w, list) ==
    ~ w.moved => /\ w.at = "handler" => w.i <= Len(list)
                 /\ \A g \in w.owed : \E j \in 1 .. Len(list) :
                        Reached(w) < j /\ j <= w.count /\ list[j] = g

\* A list holds what is due and what the one walk that spent it will take out, and
\* that walk has passed as many as it spent.
Counted(h, lists, ws, due) ==
    /\ \A k \in 1 .. Len(ws) :
           /\ Times(ws[k].spent, h)
                <= Cardinality(Standing(lists[ws[k].list], h, Reached(ws[k])))
           /\ Contains(ws[k].spent, h) =>
                  Times(lists[ws[k].list], h) = due[ws[k].list][h] + Times(ws[k].spent, h)
    /\ \A j, k \in 1 .. Len(ws) :
           ws[j].list = ws[k].list /\ Contains(ws[j].spent, h) /\ Contains(ws[k].spent, h) => j = k
    /\ \A l \in Lists :
           (\A k \in 1 .. Len(ws) : ws[k].list = l => ~ Contains(ws[k].spent, h))
               => Times(lists[l], h) = due[l][h]

WalksInv ==
    /\ WalksNest
    /\ \A k \in 1 .. Len(walks) : Ahead(walks[k], hooks[walks[k].list])
    /\ \A h \in Hooks \ history.doubled : Counted(h, hooks, walks, history.due)

BusInv == BusTyped /\ PolledOnce /\ WalksInv

\* The innermost walk is one, and so is every other.
LEMMA WalkParts ==
    ASSUME BusTyped, NEW k \in 1 .. Len(walks)
    PROVE  /\ walks[k] \in WalkType /\ walks[k].list \in Lists /\ walks[k].spent \in Seq(Hooks)
           /\ walks[k].i \in Nat \ {0} /\ walks[k].owed \in SUBSET Hooks
           /\ walks[k].moved \in BOOLEAN /\ hooks[walks[k].list] \in Seq(Hooks)
           /\ Reached(walks[k]) \in Nat /\ walks[k].count \in Nat
<1>1. walks[k] \in WalkType
  BY ElementOfSeq DEF BusTyped
<1>2. /\ walks[k].list \in Lists /\ walks[k].spent \in Seq(Hooks)
      /\ walks[k].i \in Nat \ {0} /\ walks[k].owed \in SUBSET Hooks
      /\ walks[k].moved \in BOOLEAN /\ walks[k].count \in Nat
  BY <1>1 DEF WalkType
<1>3. hooks[walks[k].list] \in Seq(Hooks)
  BY <1>2 DEF BusTyped
<1>4. Reached(walks[k]) \in Nat
  BY <1>2 DEF Reached
<1> QED
  BY <1>1, <1>2, <1>3, <1>4

\* A walk that goes on over the same list and spends nothing keeps the invariant.
LEMMA InnermostMoves ==
    ASSUME BusInv, walks # <<>>, NEW v \in WalkType, walks' = [walks EXCEPT ![Len(walks)] = v],
           v.list = Innermost.list, v.spent = Innermost.spent, Ahead(v, hooks[v.list]),
           Reached(Innermost) <= Reached(v), UNCHANGED <<hooks, queue, readIndex, history>>
    PROVE  BusInv'
<1> DEFINE n == Len(walks)
<1>0. walks \in Seq(WalkType) /\ n \in Nat \ {0} /\ n \in 1 .. n
  BY EmptySeq, LenProperties DEF BusInv, BusTyped
<1>1. /\ walks' \in Seq(WalkType) /\ Len(walks') = n
      /\ \A k \in 1 .. n : walks'[k] = IF k = n THEN v ELSE walks[k]
  BY <1>0, ExceptSeq
<1>2. BusTyped'
  BY <1>1 DEF BusInv, BusTyped
<1>3. PolledOnce'
  BY DEF BusInv, PolledOnce
<1>4. WalksNest'
  BY <1>0, <1>1 DEF BusInv, WalksInv, WalksNest
<1>5. \A k \in 1 .. n : Ahead(walks'[k], hooks'[walks'[k].list])
  BY <1>1 DEF BusInv, WalksInv
<1>6. ASSUME NEW h \in Hooks \ history.doubled
      PROVE  Counted(h, hooks, walks', history.due)
  <2>1. Counted(h, hooks, walks, history.due)
    BY DEF BusInv, WalksInv
  <2>2. \A k \in 1 .. n : walks'[k].list = walks[k].list /\ walks'[k].spent = walks[k].spent
    BY <1>1 DEF Innermost
  <2>3. ASSUME NEW k \in 1 .. n
        PROVE  Cardinality(Standing(hooks[walks[k].list], h, Reached(walks[k])))
                 <= Cardinality(Standing(hooks[walks[k].list], h, Reached(walks'[k])))
    <3>1. /\ hooks[walks[k].list] \in Seq(Hooks) /\ Reached(walks[k]) \in Nat
      BY WalkParts DEF BusInv
    <3>2. Reached(walks[k]) <= Reached(walks'[k]) /\ Reached(v) \in Nat
      <4>1. Reached(v) \in Nat
        BY DEF Reached, WalkType
      <4>2. CASE k = n
        <5>1. walks'[k] = v /\ walks[k] = Innermost
          BY <1>1, <4>2 DEF Innermost
        <5> QED
          BY <4>1, <5>1
      <4>3. CASE k # n
        <5>1. walks'[k] = walks[k]
          BY <1>1, <4>3
        <5> QED
          BY <3>1, <4>1, <5>1
      <4> QED
        BY <4>2, <4>3
    <3>3. Reached(walks'[k]) \in Nat
      BY <1>1, <3>1, <3>2
    <3>4. Standing(hooks[walks[k].list], h, Reached(walks[k]))
            \in SUBSET Standing(hooks[walks[k].list], h, Reached(walks'[k]))
      BY <3>1, <3>2, <3>3, LenProperties DEF Standing
    <3> QED
      BY <3>1, <3>4, StandingType, FS_Subset
  <2>4. \A k \in 1 .. n :
           /\ Cardinality(Standing(hooks[walks[k].list], h, Reached(walks[k]))) \in Nat
           /\ Cardinality(Standing(hooks[walks[k].list], h, Reached(walks'[k]))) \in Nat
           /\ Times(walks[k].spent, h) \in Nat
    BY WalkParts, StandingType, StandingGrows DEF BusInv
  <2>5. \A k \in 1 .. n : Times(walks[k].spent, h)
             <= Cardinality(Standing(hooks[walks[k].list], h, Reached(walks'[k])))
    BY <2>1, <2>3, <2>4 DEF Counted
  <2>6. \A k \in 1 .. n :
           /\ Times(walks'[k].spent, h)
                <= Cardinality(Standing(hooks[walks'[k].list], h, Reached(walks'[k])))
           /\ Contains(walks'[k].spent, h) =>
                  Times(hooks[walks'[k].list], h)
                    = history.due[walks'[k].list][h] + Times(walks'[k].spent, h)
    <3>1. \A k \in 1 .. n : Contains(walks[k].spent, h) =>
             Times(hooks[walks[k].list], h) = history.due[walks[k].list][h] + Times(walks[k].spent, h)
      BY <2>1 DEF Counted
    <3> QED
      BY ONLY <2>2, <2>5, <3>1, Zenon
  <2>7. \A j, k \in 1 .. n :
           walks'[j].list = walks'[k].list /\ Contains(walks'[j].spent, h)
             /\ Contains(walks'[k].spent, h) => j = k
    <3>1. \A j, k \in 1 .. n :
             walks[j].list = walks[k].list /\ Contains(walks[j].spent, h)
               /\ Contains(walks[k].spent, h) => j = k
      BY <2>1 DEF Counted
    <3> QED
      BY ONLY <2>2, <3>1, Zenon
  <2>8. \A l \in Lists :
           (\A k \in 1 .. n : walks'[k].list = l => ~ Contains(walks'[k].spent, h))
             => Times(hooks[l], h) = history.due[l][h]
    <3>1. \A l \in Lists :
             (\A k \in 1 .. n : walks[k].list = l => ~ Contains(walks[k].spent, h))
               => Times(hooks[l], h) = history.due[l][h]
      BY <2>1 DEF Counted
    <3> QED
      BY ONLY <2>2, <3>1, Zenon
  <2> QED
    BY <1>1, <2>6, <2>7, <2>8, Zenon DEF Counted
<1> QED
  BY <1>1, <1>2, <1>3, <1>4, <1>5, <1>6 DEF BusInv, WalksInv

\* A walk of a list begins, with all of its hooks ahead of it.
LEMMA WalkBegins ==
    ASSUME BusTyped, WalksInv, Application, NEW l \in Lists, walks' = Append(walks, WalkOver(l)),
           hooks' = hooks, history'.due = history.due, history'.doubled = history.doubled
    PROVE  walks' \in Seq(WalkType) /\ WalksInv'
<1> DEFINE n == Len(walks)
           v == WalkOver(l)
<1>0. walks \in Seq(WalkType) /\ n \in Nat
  BY LenProperties DEF BusTyped
<1>1. hooks[l] \in Seq(Hooks) /\ Len(hooks[l]) \in Nat /\ DOMAIN hooks[l] = 1 .. Len(hooks[l])
  BY LenProperties DEF BusTyped
<1>2. ToSet(hooks[l]) \in SUBSET Hooks
  BY <1>1, ElementOfSeq DEF ToSet
<1>3. v \in WalkType
  BY <1>1, <1>2, EmptySeq DEF WalkOver, WalkType
<1>4. /\ v.list = l /\ v.at = "walk" /\ v.i = 1 /\ v.count = Len(hooks[l]) /\ v.spent = <<>>
      /\ v.owed = ToSet(hooks[l])
  BY DEF WalkOver
<1> HIDE DEF v
<1>5. /\ walks' \in Seq(WalkType) /\ Len(walks') = n + 1 /\ walks'[n + 1] = v
      /\ \A k \in 1 .. n : walks'[k] = walks[k]
  BY <1>0, <1>3, AppendProperties DEF v
<1>6. \A k \in 1 .. n + 1 : k \in 1 .. n \/ k = n + 1
  BY <1>0
<1>7. WalksNest'
  <2>1. walks = <<>> => n = 0
    BY EmptySeq
  <2>2. \A k \in 1 .. n : walks[k].at = "handler"
    BY <1>0, <2>1 DEF Application, Innermost, WalksInv, WalksNest
  <2> QED
    BY <1>0, <1>5, <1>6, <2>2 DEF WalksNest
<1>8. Ahead(v, hooks[l])
  BY <1>1, <1>4 DEF Ahead, Reached, ToSet
<1>9. \A k \in 1 .. n + 1 : Ahead(walks'[k], hooks'[walks'[k].list])
  BY <1>4, <1>5, <1>6, <1>8 DEF WalksInv
<1>10. ASSUME NEW h \in Hooks \ history.doubled
       PROVE  Counted(h, hooks, walks', history.due)
  <2>1. Counted(h, hooks, walks, history.due)
    BY DEF WalksInv
  <2>2. ~ Contains(v.spent, h) /\ Times(v.spent, h) = 0
    <3>1. v.spent \in Seq(Hooks) /\ Len(v.spent) = 0
      BY <1>4, EmptySeq
    <3>2. ~ Contains(v.spent, h)
      BY <3>1 DEF Contains
    <3> QED
      BY <3>1, <3>2, StandingGrows
  <2>3. Cardinality(Standing(hooks[l], h, Reached(v))) \in Nat
    BY <1>1, StandingType
  <2>4. \A k \in 1 .. n + 1 :
           /\ Times(walks'[k].spent, h)
                <= Cardinality(Standing(hooks[walks'[k].list], h, Reached(walks'[k])))
           /\ Contains(walks'[k].spent, h) =>
                  Times(hooks[walks'[k].list], h)
                    = history.due[walks'[k].list][h] + Times(walks'[k].spent, h)
    <3> SUFFICES ASSUME NEW k \in 1 .. n + 1
                 PROVE  /\ Times(walks'[k].spent, h)
                             <= Cardinality(Standing(hooks[walks'[k].list], h, Reached(walks'[k])))
                        /\ Contains(walks'[k].spent, h) =>
                               Times(hooks[walks'[k].list], h)
                                 = history.due[walks'[k].list][h] + Times(walks'[k].spent, h)
      OBVIOUS
    <3>1. CASE k \in 1 .. n
      BY <1>5, <2>1, <3>1 DEF Counted
    <3>2. CASE k = n + 1
      BY <1>4, <1>5, <2>2, <2>3, <3>2
    <3> QED
      BY <1>6, <3>1, <3>2
  <2>5. \A j, k \in 1 .. n + 1 :
           walks'[j].list = walks'[k].list /\ Contains(walks'[j].spent, h)
             /\ Contains(walks'[k].spent, h) => j = k
    BY <1>5, <1>6, <2>1, <2>2 DEF Counted
  <2>6. ASSUME NEW m \in Lists,
               \A k \in 1 .. n + 1 : walks'[k].list = m => ~ Contains(walks'[k].spent, h)
        PROVE  Times(hooks[m], h) = history.due[m][h]
    <3>1. \A k \in 1 .. n : k \in 1 .. n + 1
      BY <1>0
    <3> QED
      BY <1>5, <2>1, <2>6, <3>1 DEF Counted
  <2> QED
    BY <1>5, <2>4, <2>5, <2>6 DEF Counted
<1> QED
  BY <1>5, <1>7, <1>9, <1>10 DEF WalksInv

\* Three lists of numbers, joined either way.
LEMMA Joined ==
    ASSUME NEW p \in Seq(Nat), NEW q \in Seq(Nat), NEW r \in Seq(Nat)
    PROVE  (p \o q) \o r = p \o (q \o r)
<1> QED
  BY ConcatAssociative, SMTT(60)

\* What waits in the queue is events.
LEMMA QueueParts ==
    ASSUME BusTyped, NEW k \in 1 .. Len(queue)
    PROVE  queue[k] \in EventType /\ queue[k].id \in Nat /\ queue[k].type \in Types
<1>1. queue[k] \in EventType
  BY ElementOfSeq DEF BusTyped
<1> QED
  BY <1>1 DEF EventType

\* Dispatching an event adds it to those not polled yet.
LEMMA EventQueued ==
    ASSUME BusTyped, PolledOnce, NEW type \in Types, Enqueues(type)
    PROVE  /\ queue' \in Seq(EventType) /\ readIndex' \in 0 .. Len(queue')
           /\ history' \in HistoryType
           /\ history'.due = history.due /\ history'.doubled = history.doubled
           /\ PolledOnce'
<1> DEFINE L == Len(queue)
           r == readIndex
           e == [id |-> Nth, type |-> type]
           U == [k \in 1 .. L - r |-> queue[r + k].id]
           V == [k \in 1 .. L + 1 - r |-> queue'[r + k].id]
           p == history.polled
           d == history.dispatched
<1>0. /\ L \in Nat /\ r \in 0 .. L /\ queue \in Seq(EventType)
      /\ p \in Seq(Nat) /\ d \in Seq(Nat) /\ Len(d) \in Nat
  BY LenProperties DEF BusTyped, HistoryType
<1>1. Nth \in Nat /\ e \in EventType /\ e.id = Nth
  BY <1>0 DEF Nth, EventType
<1>2. queue' = Append(queue, e) /\ readIndex' = r
  BY DEF Enqueues
<1>3. history' = [history EXCEPT !.dispatched = Append(@, Nth)]
  BY DEF Enqueues
<1>4. /\ queue' \in Seq(EventType) /\ Len(queue') = L + 1 /\ queue'[L + 1] = e
      /\ \A k \in 1 .. L : queue'[k] = queue[k]
  BY <1>0, <1>1, <1>2, AppendProperties
<1>5. Append(d, Nth) \in Seq(Nat)
  BY <1>0, <1>1, AppendProperties
<1>6. /\ history' \in HistoryType /\ history'.dispatched = Append(d, Nth) /\ history'.polled = p
      /\ history'.due = history.due /\ history'.doubled = history.doubled
  BY <1>3, <1>5 DEF BusTyped, HistoryType
<1>7. \A k \in 1 .. L : queue[k].id \in Nat
  BY QueueParts
<1>8. U \in Seq(Nat) /\ Len(U) = L - r /\ \A k \in 1 .. L - r : U[k] = queue[r + k].id
  <2>1. L - r \in Nat /\ \A k \in 1 .. L - r : queue[r + k].id \in Nat
    BY <1>0, <1>7
  <2> QED
    BY <2>1, IsASeq
<1>9. V \in Seq(Nat) /\ Len(V) = L + 1 - r /\ \A k \in 1 .. L + 1 - r : V[k] = queue'[r + k].id
  <2>1. \A k \in 1 .. L + 1 : queue'[k].id \in Nat
    BY <1>1, <1>4, <1>7
  <2>2. L + 1 - r \in Nat /\ \A k \in 1 .. L + 1 - r : queue'[r + k].id \in Nat
    BY <1>0, <2>1
  <2> QED
    BY <2>2, IsASeq
<1> HIDE DEF U, V, e
<1>10. V = Append(U, Nth)
  <2>1. /\ Append(U, Nth) \in Seq(Nat) /\ Len(Append(U, Nth)) = L + 1 - r
        /\ \A k \in 1 .. L - r : Append(U, Nth)[k] = U[k]
        /\ Append(U, Nth)[L - r + 1] = Nth
    <3>1. /\ Append(U, Nth) \in Seq(Nat) /\ Len(Append(U, Nth)) = Len(U) + 1
          /\ \A k \in 1 .. Len(U) : Append(U, Nth)[k] = U[k]
          /\ Append(U, Nth)[Len(U) + 1] = Nth
      BY <1>1, <1>8, AppendProperties
    <3> QED
      BY <1>0, <1>8, <3>1
  <2>2. ASSUME NEW k \in 1 .. L + 1 - r
        PROVE  V[k] = Append(U, Nth)[k]
    <3>1. CASE k \in 1 .. L - r
      <4>1. r + k \in 1 .. L
        BY <1>0, <3>1
      <4> QED
        BY <1>4, <1>8, <1>9, <2>1, <3>1, <4>1
    <3>3. k \in 1 .. L - r \/ k = L - r + 1
      BY <1>0
    <3>2. CASE k = L - r + 1
      <4>1. r + k = L + 1
        BY <1>0, <3>2
      <4> QED
        BY <1>1, <1>4, <1>9, <2>1, <3>2, <4>1
    <3> QED
      BY <3>1, <3>2, <3>3
  <2> QED
    BY <1>9, <2>1, <2>2, SeqEqual
<1>11. p \o V = Append(d, Nth)
  <2>1. p \o U = d
    BY DEF PolledOnce, U
  <2> DEFINE T == <<Nth>>
  <2>2. T \in Seq(Nat)
    BY <1>1
  <2> HIDE DEF T
  <2>3. p \o V = p \o (U \o <<Nth>>)
    BY <1>1, <1>8, <1>10, AppendIsConcat
  <2>4. (p \o U) \o T = p \o (U \o T)
    BY <1>0, <1>8, <2>2, Joined
  <2>5. Append(d, Nth) = d \o <<Nth>>
    BY <1>0, <1>1, AppendIsConcat
  <2> QED
    BY <2>1, <2>3, <2>4, <2>5 DEF T
<1>12. PolledOnce'
  <2>1. V = [k \in 1 .. Len(queue') - readIndex' |-> queue'[readIndex' + k].id]
    <3>1. readIndex' = r /\ Len(queue') - readIndex' = L + 1 - r
      BY <1>0, <1>2, <1>4
    <3> HIDE DEF L
    <3> QED
      BY <3>1 DEF V
  <2> QED
    BY <1>6, <1>11, <2>1 DEF PolledOnce
<1>13. readIndex' \in 0 .. Len(queue')
  BY <1>0, <1>2, <1>4
<1> QED
  BY <1>4, <1>6, <1>12, <1>13

\* An event is dispatched, by the main thread or by another one.
LEMMA DispatchKeeps ==
    ASSUME BusInv, NEW type \in Types, Dispatch(type) \/ DispatchElsewhere(type)
    PROVE  BusInv'
<1>0. BusTyped /\ PolledOnce /\ WalksInv
  BY DEF BusInv
<1>1. Enqueues(type) /\ hooks' = hooks
  BY DEF Dispatch, DispatchElsewhere, Enqueues
<1>2. /\ queue' \in Seq(EventType) /\ readIndex' \in 0 .. Len(queue')
      /\ history' \in HistoryType
      /\ history'.due = history.due /\ history'.doubled = history.doubled
      /\ PolledOnce'
  BY <1>0, <1>1, EventQueued
<1>3. walks' \in Seq(WalkType) /\ WalksInv'
  <2>1. CASE Dispatch(type)
    <3>1. [kind |-> "immediate", type |-> type] \in Lists
      BY DEF Lists, Kinds
    <3> QED
      BY <1>0, <1>1, <1>2, <2>1, <3>1, WalkBegins DEF Dispatch
  <2>2. CASE DispatchElsewhere(type)
    <3>1. walks' = walks
      BY <2>2 DEF DispatchElsewhere
    <3> QED
      BY <1>0, <1>1, <1>2, <3>1 DEF BusTyped, WalksInv, WalksNest, Counted
  <2> QED
    BY <2>1, <2>2
<1> QED
  BY <1>0, <1>1, <1>2, <1>3 DEF BusInv, BusTyped

\* The next event is polled, or a queue that was read to its end is emptied.
LEMMA PollKeeps ==
    ASSUME BusInv, Poll
    PROVE  BusInv'
<1> DEFINE L == Len(queue)
           r == readIndex
           U == [k \in 1 .. L - r |-> queue[r + k].id]
           p == history.polled
           d == history.dispatched
<1>0. /\ BusTyped /\ PolledOnce /\ WalksInv /\ walks = <<>> /\ hooks' = hooks
      /\ L \in Nat /\ r \in 0 .. L /\ queue \in Seq(EventType) /\ p \in Seq(Nat) /\ d \in Seq(Nat)
  BY LenProperties DEF BusInv, BusTyped, HistoryType, Poll
<1>1. p \o U = d
  BY <1>0 DEF PolledOnce
<1>2. U \in Seq(Nat) /\ Len(U) = L - r /\ \A k \in 1 .. L - r : U[k] = queue[r + k].id
  <2>1. \A k \in 1 .. L : queue[k].id \in Nat
    BY <1>0, QueueParts
  <2>2. L - r \in Nat /\ \A k \in 1 .. L - r : queue[r + k].id \in Nat
    BY <1>0, <2>1
  <2> QED
    BY <2>2, IsASeq
<1>3. CASE r >= L
  <2>1. queue' = <<>> /\ readIndex' = 0 /\ walks' = walks /\ history' = history
    BY <1>3 DEF Poll
  <2>2. Len(queue') = 0 /\ queue' \in Seq(EventType)
    BY <2>1, EmptySeq
  <2>3. PolledOnce'
    <3>1. L - r = Len(queue') - readIndex' /\ 1 .. L - r = {}
      BY <1>0, <1>3, <2>1, <2>2
    <3>2. U = [k \in 1 .. Len(queue') - readIndex' |-> queue'[readIndex' + k].id]
      BY <3>1
    <3> QED
      BY <1>1, <2>1, <3>2 DEF PolledOnce
  <2>4. BusTyped'
    BY <1>0, <2>1, <2>2 DEF BusTyped
  <2>5. WalksInv'
    BY <1>0, <2>1 DEF WalksInv, WalksNest, Counted
  <2> QED
    BY <2>3, <2>4, <2>5 DEF BusInv
<1>4. CASE r < L
  <2> DEFINE e == queue[r + 1]
             l == [kind |-> "deferred", type |-> e.type]
             V == [k \in 1 .. L - (r + 1) |-> queue[r + 1 + k].id]
  <2>1. e \in EventType /\ e.id \in Nat /\ e.type \in Types
    <3>1. r + 1 \in 1 .. L
      BY <1>0, <1>4
    <3> QED
      BY <1>0, <3>1, QueueParts
  <2>2. /\ queue' = queue /\ readIndex' = r + 1 /\ walks' = <<WalkOver(l)>>
        /\ history' = [history EXCEPT !.polled = Append(@, e.id)]
    BY <1>0, <1>4 DEF Poll
  <2>3. Append(p, e.id) \in Seq(Nat)
    BY <1>0, <2>1, AppendProperties
  <2>4. /\ history' \in HistoryType /\ history'.dispatched = d /\ history'.polled = Append(p, e.id)
        /\ history'.due = history.due /\ history'.doubled = history.doubled
    BY <1>0, <2>2, <2>3 DEF BusTyped, HistoryType
  <2>5. walks' \in Seq(WalkType) /\ WalksInv'
    <3>1. l \in Lists
      BY <2>1 DEF Lists, Kinds
    <3>2. walks' = Append(walks, WalkOver(l)) /\ Application
      BY <1>0, <2>2 DEF Application
    <3> QED
      BY <1>0, <2>4, <3>1, <3>2, WalkBegins
  <2>6. V \in Seq(Nat) /\ Len(V) = L - (r + 1) /\ \A k \in 1 .. L - (r + 1) : V[k] = queue[r + 1 + k].id
    <3>1. \A k \in 1 .. L : queue[k].id \in Nat
      BY <1>0, QueueParts
    <3>2. L - (r + 1) \in Nat /\ \A k \in 1 .. L - (r + 1) : queue[r + 1 + k].id \in Nat
      BY <1>0, <1>4, <3>1
    <3> QED
      BY <3>2, IsASeq
  <2>7. U = <<e.id>> \o V
    <3>1. <<e.id>> \in Seq(Nat) /\ Len(<<e.id>>) = 1 /\ <<e.id>>[1] = e.id
      BY <2>1
    <3> HIDE DEF U, V, e
    <3>2. /\ <<e.id>> \o V \in Seq(Nat) /\ Len(<<e.id>> \o V) = 1 + (L - (r + 1))
          /\ \A k \in 1 .. 1 + (L - (r + 1)) :
                 (<<e.id>> \o V)[k] = IF k <= 1 THEN <<e.id>>[k] ELSE V[k - 1]
      BY <2>6, <3>1, ConcatProperties
    <3>3. ASSUME NEW k \in 1 .. L - r
          PROVE  U[k] = (<<e.id>> \o V)[k]
      <4>1. k \in 1 .. 1 + (L - (r + 1))
        BY <1>0
      <4>2. CASE k = 1
        <5>1. U[1] = queue[r + 1].id
          BY <1>2, <4>2
        <5> QED
          BY <3>1, <3>2, <4>1, <4>2, <5>1 DEF e
      <4>3. CASE k # 1
        <5>1. ~ (k <= 1) /\ k - 1 \in 1 .. L - (r + 1) /\ r + 1 + (k - 1) = r + k
          BY <1>0, <4>3
        <5>2. V[k - 1] = queue[r + 1 + (k - 1)].id
          BY <2>6, <5>1
        <5>3. (<<e.id>> \o V)[k] = V[k - 1]
          BY <3>2, <4>1, <5>1
        <5> QED
          BY <1>2, <5>1, <5>2, <5>3
      <4> QED
        BY <4>2, <4>3
    <3>4. Len(<<e.id>> \o V) = L - r
      BY <1>0, <3>2
    <3> QED
      BY <1>2, <3>2, <3>3, <3>4, SeqEqual
  <2>8. Append(p, e.id) \o V = d
    <3> DEFINE T == <<e.id>>
    <3>1. T \in Seq(Nat)
      BY <2>1
    <3> HIDE DEF U, V, e, T
    <3>2. Append(p, e.id) = p \o <<e.id>>
      BY <1>0, <2>1, AppendIsConcat
    <3>3. (p \o T) \o V = p \o (T \o V)
      BY <1>0, <2>6, <3>1, Joined
    <3> QED
      BY <1>1, <2>7, <3>2, <3>3 DEF T
  <2>9. PolledOnce'
    <3> HIDE DEF e
    <3> QED
      BY <2>2, <2>4, <2>8 DEF PolledOnce
  <2>10. BusTyped'
    BY <1>0, <1>4, <2>2, <2>4, <2>5 DEF BusTyped
  <2> QED
    BY <2>5, <2>9, <2>10 DEF BusInv
<1> QED
  BY <1>0, <1>3, <1>4

\* What becomes of a walk: it passes its hook, its handler returned, it enters its hook's
\* handler, hooks are taken out of the list it walks.
Declined(w, h) == [[w EXCEPT !.i = @ + 1] EXCEPT !.owed = @ \ {h}]
Returned(w) == [[w EXCEPT !.at = "walk"] EXCEPT !.i = @ + 1]
Entered(w, h) == [[[w EXCEPT !.at = "handler"] EXCEPT !.owed = @ \ {h}]
                      EXCEPT !.spent = IF h \in Once THEN Append(@, h) ELSE @]
LeftOut(w, S, b) == [[w EXCEPT !.owed = @ \ S] EXCEPT !.moved = b]

\* A walk that passed its hook.
LEMMA DeclinedStep ==
    ASSUME NEW w \in WalkType, NEW h
    PROVE  LET v == Declined(w, h)
           IN  /\ v \in WalkType /\ v.list = w.list /\ v.spent = w.spent
               /\ v.at = w.at /\ v.i = w.i + 1
               /\ v.count = w.count /\ v.moved = w.moved /\ v.owed = w.owed \ {h}
<1>1. w.i + 1 \in Nat \ {0}
  BY DEF WalkType
<1> QED
  BY <1>1 DEF Declined, WalkType

\* A walk whose handler returned.
LEMMA ReturnedStep ==
    ASSUME NEW w \in WalkType
    PROVE  LET v == Returned(w)
           IN  /\ v \in WalkType /\ v.list = w.list /\ v.spent = w.spent
               /\ v.at = "walk" /\ v.i = w.i + 1
               /\ v.count = w.count /\ v.moved = w.moved /\ v.owed = w.owed
<1>1. w.i + 1 \in Nat \ {0}
  BY DEF WalkType
<1> QED
  BY <1>1 DEF Returned, WalkType

\* A walk in the handler of its hook.
LEMMA EnteredStep ==
    ASSUME NEW w \in WalkType, NEW h \in Hooks
    PROVE  LET v == Entered(w, h)
           IN  /\ v \in WalkType /\ v.list = w.list /\ v.at = "handler" /\ v.i = w.i
               /\ v.count = w.count /\ v.moved = w.moved /\ v.owed = w.owed \ {h}
               /\ v.spent = IF h \in Once THEN Append(w.spent, h) ELSE w.spent
<1>1. Append(w.spent, h) \in Seq(Hooks)
  BY AppendProperties DEF WalkType
<1> QED
  BY <1>1 DEF Entered, WalkType

\* A walk some hooks of whose list are gone.
LEMMA LeftOutStep ==
    ASSUME NEW w \in WalkType, NEW S, NEW b \in BOOLEAN
    PROVE  LET v == LeftOut(w, S, b)
           IN  /\ v \in WalkType /\ v.list = w.list /\ v.spent = w.spent /\ v.at = w.at
               /\ v.i = w.i /\ v.count = w.count /\ v.moved = b /\ v.owed = w.owed \ S
<1> QED
  BY DEF LeftOut, WalkType

\* The innermost walk is one of them.
LEMMA InnermostParts ==
    ASSUME BusTyped, walks # <<>>
    PROVE  /\ Len(walks) \in Nat \ {0} /\ Len(walks) \in 1 .. Len(walks)
           /\ Innermost \in WalkType /\ Innermost.list \in Lists /\ Innermost.spent \in Seq(Hooks)
           /\ Innermost.i \in Nat \ {0} /\ Innermost.owed \in SUBSET Hooks
           /\ Innermost.moved \in BOOLEAN /\ Innermost.count \in Nat
           /\ hooks[Innermost.list] \in Seq(Hooks) /\ Len(hooks[Innermost.list]) \in Nat
           /\ AtHook => Current \in Hooks
<1>1. Len(walks) \in Nat \ {0} /\ Len(walks) \in 1 .. Len(walks)
  BY EmptySeq DEF BusTyped
<1>2. /\ Innermost \in WalkType /\ Innermost.list \in Lists /\ Innermost.spent \in Seq(Hooks)
      /\ Innermost.i \in Nat \ {0} /\ Innermost.owed \in SUBSET Hooks
      /\ Innermost.moved \in BOOLEAN /\ Innermost.count \in Nat
      /\ hooks[Innermost.list] \in Seq(Hooks)
  BY <1>1, WalkParts DEF Innermost
<1>3. Len(hooks[Innermost.list]) \in Nat
  BY <1>2, LenProperties
<1>4. AtHook => Current \in Hooks
  BY <1>2, <1>3, ElementOfSeq DEF AtHook, Current
<1> QED
  BY <1>1, <1>2, <1>3, <1>4

\* A hook declines.
LEMMA DeclinesKeeps ==
    ASSUME BusInv, Declines
    PROVE  BusInv'
<1> DEFINE w == Innermost
           h == Current
           v == Declined(w, h)
           s == hooks[w.list]
<1>0. BusTyped /\ walks # <<>> /\ w.at = "walk" /\ AtHook
  BY DEF BusInv, Declines
<1>1. /\ Len(walks) \in 1 .. Len(walks) /\ w \in WalkType /\ h \in Hooks
      /\ w.i \in Nat \ {0} /\ s \in Seq(Hooks) /\ w.count \in Nat /\ w.moved \in BOOLEAN
  BY <1>0, InnermostParts
<1>2. /\ v \in WalkType /\ v.list = w.list /\ v.spent = w.spent /\ v.at = w.at /\ v.i = w.i + 1
      /\ v.count = w.count /\ v.moved = w.moved /\ v.owed = w.owed \ {h}
  BY <1>1, DeclinedStep
<1>3. walks' = [walks EXCEPT ![Len(walks)] = v]
  BY Zenon DEF Declines, Declined, Innermost
<1>4. Ahead(w, s)
  BY <1>0, <1>1 DEF BusInv, WalksInv, Innermost
<1>5. s[w.i] = h /\ Reached(w) = w.i - 1 /\ Reached(v) = w.i
  BY <1>0, <1>1, <1>2 DEF Current, Reached
<1> HIDE DEF w, v, h, s
<1>6. Ahead(v, s)
  <2> SUFFICES ASSUME ~ v.moved
               PROVE  \A g \in v.owed : \E j \in 1 .. Len(s) :
                          Reached(v) < j /\ j <= v.count /\ s[j] = g
    BY <1>0, <1>2 DEF Ahead
  <2> TAKE g \in v.owed
  <2>1. g \in w.owed /\ g # h /\ ~ w.moved
    BY <1>2
  <2>2. PICK j \in 1 .. Len(s) : Reached(w) < j /\ j <= w.count /\ s[j] = g
    BY <1>4, <2>1 DEF Ahead
  <2>3. j # w.i
    BY <1>5, <2>1, <2>2
  <2>4. Reached(v) < j
    BY <1>1, <1>5, <2>2, <2>3
  <2> QED
    BY <1>2, <2>2, <2>4
<1>7. UNCHANGED <<hooks, queue, readIndex, history>>
  BY DEF Declines
<1>8. Reached(w) <= Reached(v)
  BY <1>1, <1>5
<1> QED
  BY <1>0, <1>2, <1>3, <1>6, <1>7, <1>8, InnermostMoves DEF w, s

\* A handler returns to its walk.
LEMMA ReturnsKeeps ==
    ASSUME BusInv, HandlerReturns
    PROVE  BusInv'
<1> DEFINE w == Innermost
           v == Returned(w)
           s == hooks[w.list]
<1>0. BusTyped /\ walks # <<>> /\ w.at = "handler"
  BY DEF BusInv, HandlerReturns
<1>1. /\ Len(walks) \in 1 .. Len(walks) /\ w \in WalkType
      /\ w.i \in Nat \ {0} /\ s \in Seq(Hooks) /\ w.count \in Nat /\ w.moved \in BOOLEAN
  BY <1>0, InnermostParts
<1>2. /\ v \in WalkType /\ v.list = w.list /\ v.spent = w.spent /\ v.at = "walk" /\ v.i = w.i + 1
      /\ v.count = w.count /\ v.moved = w.moved /\ v.owed = w.owed
  BY <1>1, ReturnedStep
<1>3. walks' = [walks EXCEPT ![Len(walks)] = v]
  BY Zenon DEF HandlerReturns, Returned, Innermost
<1>4. Ahead(w, s)
  BY <1>0, <1>1 DEF BusInv, WalksInv, Innermost
<1>5. Reached(w) = w.i /\ Reached(v) = w.i
  BY <1>0, <1>1, <1>2 DEF Reached
<1> HIDE DEF w, v, s
<1>6. Ahead(v, s)
  BY <1>2, <1>4, <1>5 DEF Ahead
<1>7. UNCHANGED <<hooks, queue, readIndex, history>>
  BY DEF HandlerReturns
<1>8. Reached(w) <= Reached(v)
  BY <1>1, <1>5
<1> QED
  BY <1>0, <1>2, <1>3, <1>6, <1>7, <1>8, InnermostMoves DEF w, s

\* A walk enters the handler of its hook; a one-shot is spent.
LEMMA EntersKeeps ==
    ASSUME BusInv, Enters
    PROVE  BusInv'
<1> DEFINE n == Len(walks)
           w == Innermost
           l == w.list
           h == Current
           v == Entered(w, h)
           s == hooks[l]
           due == history.due
           D == IF Spent(l, h, n - 1) THEN history.doubled \cup {h} ELSE history.doubled
           d == IF h \in Once THEN 0 ELSE due[l][h]
<1>0. BusTyped /\ PolledOnce /\ WalksInv /\ walks # <<>> /\ w.at = "walk" /\ AtHook
  BY DEF BusInv, Enters
<1>1. /\ n \in Nat \ {0} /\ n \in 1 .. n /\ w \in WalkType /\ h \in Hooks /\ l \in Lists
      /\ w.i \in Nat \ {0} /\ s \in Seq(Hooks) /\ w.count \in Nat /\ w.moved \in BOOLEAN
      /\ w.spent \in Seq(Hooks) /\ walks \in Seq(WalkType) /\ walks[n] = w
  BY <1>0, InnermostParts DEF BusTyped, Innermost
<1>2. /\ v \in WalkType /\ v.list = l /\ v.at = "handler" /\ v.i = w.i
      /\ v.count = w.count /\ v.moved = w.moved /\ v.owed = w.owed \ {h}
      /\ v.spent = IF h \in Once THEN Append(w.spent, h) ELSE w.spent
  BY <1>1, EnteredStep
<1>3. walks' = [walks EXCEPT ![n] = v]
  BY Zenon DEF Enters, Entered, Innermost
<1>4. history' = [history EXCEPT !.due[l][h] = d, !.doubled = D]
  BY DEF Enters
<1>5. hooks' = hooks /\ queue' = queue /\ readIndex' = readIndex
  BY DEF Enters
<1>6. /\ due \in [Lists -> [Hooks -> 0 .. 1]] /\ history.doubled \in SUBSET Hooks
      /\ d \in 0 .. 1 /\ D \in SUBSET Hooks
  BY <1>0, <1>1 DEF BusTyped, HistoryType
<1>7. s[w.i] = h /\ Reached(w) = w.i - 1 /\ Reached(v) = w.i /\ w.i \in 1 .. Len(s)
  BY <1>0, <1>1, <1>2, LenProperties DEF Current, Reached, AtHook
<1>8. history.doubled \subseteq D /\ (h \notin D => ~ Spent(l, h, n - 1))
  OBVIOUS
<1>20. d = IF h \in Once THEN 0 ELSE due[l][h]
  OBVIOUS
<1> HIDE DEF w, v, h, s, l, D, d
<1>9. /\ history' \in HistoryType /\ history'.dispatched = history.dispatched
      /\ history'.polled = history.polled /\ history'.doubled = D
      /\ \A m \in Lists, g \in Hooks :
             history'.due[m][g] = IF m = l /\ g = h THEN d ELSE due[m][g]
  <2>1. history \in HistoryType
    BY <1>0 DEF BusTyped
  <2>2. [due EXCEPT ![l] = [due[l] EXCEPT ![h] = d]] \in [Lists -> [Hooks -> 0 .. 1]]
    BY <1>1, <1>6
  <2>3. history' = [[history EXCEPT !.due = [due EXCEPT ![l] = [due[l] EXCEPT ![h] = d]]]
                        EXCEPT !.doubled = D]
    BY <1>4, <2>1 DEF HistoryType
  <2>4. history'.due = [due EXCEPT ![l] = [due[l] EXCEPT ![h] = d]]
    BY <2>1, <2>3 DEF HistoryType
  <2>5. /\ history' \in HistoryType /\ history'.dispatched = history.dispatched
        /\ history'.polled = history.polled /\ history'.doubled = D
    BY <1>6, <2>1, <2>2, <2>3 DEF HistoryType
  <2>6. \A m \in Lists, g \in Hooks :
            history'.due[m][g] = IF m = l /\ g = h THEN d ELSE due[m][g]
    BY <1>1, <1>6, <2>4
  <2> QED
    BY <2>5, <2>6
<1>10. /\ walks' \in Seq(WalkType) /\ Len(walks') = n
       /\ \A k \in 1 .. n : walks'[k] = IF k = n THEN v ELSE walks[k]
  BY <1>1, <1>2, <1>3, ExceptSeq
<1>11. BusTyped'
  BY <1>0, <1>5, <1>9, <1>10 DEF BusTyped
<1>12. PolledOnce'
  BY <1>0, <1>5, <1>9 DEF PolledOnce
<1>13. WalksNest'
  BY <1>0, <1>1, <1>10 DEF WalksInv, WalksNest
<1>14. Ahead(v, s)
  <2>1. Ahead(w, s)
    BY <1>0, <1>1 DEF WalksInv, s, l
  <2> SUFFICES ASSUME ~ v.moved
               PROVE  /\ v.i <= Len(s)
                      /\ \A g \in v.owed : \E j \in 1 .. Len(s) :
                          Reached(v) < j /\ j <= v.count /\ s[j] = g
    BY DEF Ahead
  <2>2. v.i <= Len(s)
    BY <1>2, <1>7
  <2>3. ASSUME NEW g \in v.owed
        PROVE  \E j \in 1 .. Len(s) : Reached(v) < j /\ j <= v.count /\ s[j] = g
    <3>1. g \in w.owed /\ g # h /\ ~ w.moved
      BY <1>2, <2>3
    <3>2. PICK j \in 1 .. Len(s) : Reached(w) < j /\ j <= w.count /\ s[j] = g
      BY <2>1, <3>1 DEF Ahead
    <3>3. j # w.i
      BY <1>7, <3>1, <3>2
    <3>4. Reached(v) < j
      BY <1>1, <1>7, <3>2, <3>3
    <3> QED
      BY <1>2, <3>2, <3>4
  <2> QED
    BY <2>2, <2>3
<1>15. \A k \in 1 .. n : Ahead(walks'[k], hooks'[walks'[k].list])
  <2> SUFFICES ASSUME NEW k \in 1 .. n
               PROVE  Ahead(walks'[k], hooks'[walks'[k].list])
    OBVIOUS
  <2>1. CASE k = n
    BY <1>2, <1>5, <1>10, <1>14, <2>1 DEF s
  <2>2. CASE k # n
    BY <1>0, <1>5, <1>10, <2>2 DEF WalksInv
  <2> QED
    BY <2>1, <2>2
<1>16. ASSUME NEW g \in Hooks \ D
       PROVE  Counted(g, hooks, walks', history'.due)
  <2>1. Counted(g, hooks, walks, due)
    BY <1>0, <1>8 DEF WalksInv
  <2>2. ASSUME g = h
        PROVE  \A k \in 1 .. n : k # n /\ walks[k].list = l => ~ Contains(walks[k].spent, h)
    <3>1. \A k \in 1 .. n : k # n => k \in 1 .. n - 1
      BY <1>1
    <3> QED
      BY <1>8, <2>2, <3>1 DEF Spent
  <2>3. v.spent \in Seq(Hooks)
    BY <1>2 DEF WalkType
  <2>4. Times(v.spent, g) = IF g = h /\ h \in Once THEN Times(w.spent, g) + 1 ELSE Times(w.spent, g)
    <3>1. CASE h \in Once
      <4>1. Times(v.spent, g) = Times(w.spent, g) + (IF h = g THEN 1 ELSE 0)
        BY <1>1, <1>2, <3>1, AppendTimes
      <4> QED
        BY <1>1, <3>1, <4>1, StandingGrows
    <3>2. CASE h \notin Once
      BY <1>2, <3>2
    <3> QED
      BY <3>1, <3>2
  <2>5. /\ Times(v.spent, g) = 0 <=> ~ Contains(v.spent, g)
        /\ Times(w.spent, g) = 0 <=> ~ Contains(w.spent, g)
        /\ Times(v.spent, g) \in Nat /\ Times(w.spent, g) \in Nat /\ Times(s, g) \in Nat
    BY <1>1, <2>3, StandingGrows
  <2>6. /\ Cardinality(Standing(s, g, w.i)) \in Nat /\ Cardinality(Standing(s, g, w.i - 1)) \in Nat
        /\ Cardinality(Standing(s, g, w.i))
             = Cardinality(Standing(s, g, w.i - 1)) + (IF g = h THEN 1 ELSE 0)
        /\ Cardinality(Standing(s, g, w.i)) <= Times(s, g)
    <3>1. \A m \in 1 .. Len(s) :
              /\ Cardinality(Standing(s, g, m))
                   = Cardinality(Standing(s, g, m - 1)) + (IF s[m] = g THEN 1 ELSE 0)
              /\ Cardinality(Standing(s, g, m)) <= Times(s, g)
      BY <1>1, StandingGrows
    <3>2. Cardinality(Standing(s, g, w.i)) \in Nat /\ Cardinality(Standing(s, g, w.i - 1)) \in Nat
      BY <1>1, StandingType
    <3> QED
      BY <1>7, <3>1, <3>2
  <2>7. /\ Times(w.spent, g) <= Cardinality(Standing(s, g, w.i - 1))
        /\ Contains(w.spent, g) => Times(s, g) = due[l][g] + Times(w.spent, g)
    BY <1>1, <1>7, <2>1 DEF Counted, s, l
  <2>8. Times(v.spent, g) <= Cardinality(Standing(s, g, Reached(v)))
    BY <1>7, <2>4, <2>5, <2>6, <2>7
  <2>9. ASSUME g = h, h \in Once
        PROVE  Times(s, g) = 0 + Times(v.spent, g)
    <3>1. Times(s, g) = due[l][g] + Times(w.spent, g)
      <4>1. CASE Contains(w.spent, g)
        BY <2>7, <4>1
      <4>2. CASE ~ Contains(w.spent, g)
        <5>1. \A k \in 1 .. n : walks[k].list = l => ~ Contains(walks[k].spent, g)
          BY <1>1, <2>2, <2>9, <4>2
        <5>2. Times(s, g) = due[l][g]
          BY <1>1, <2>1, <5>1 DEF Counted, s
        <5> QED
          BY <1>1, <1>6, <2>5, <4>2, <5>2
      <4> QED
        BY <4>1, <4>2
    <3>2. due[l][g] \in 0 .. 1
      BY <1>1, <1>6
    <3> QED
      BY <2>4, <2>5, <2>6, <2>7, <2>9, <3>1, <3>2
  <2>10. Contains(v.spent, g) => Times(s, g) = history'.due[l][g] + Times(v.spent, g)
    <3>1. CASE g = h /\ h \in Once
      BY <1>1, <1>9, <1>20, <2>9, <3>1
    <3>2. CASE ~ (g = h /\ h \in Once)
      <4>1. history'.due[l][g] = due[l][g]
        BY <1>1, <1>9, <1>20, <3>2
      <4> QED
        BY <2>4, <2>5, <2>7, <3>2, <4>1
    <3> QED
      BY <3>1, <3>2
  <2>11. \A k \in 1 .. n :
             k # n /\ Contains(walks[k].spent, g) =>
                 history'.due[walks[k].list][g] = due[walks[k].list][g]
    <3>1. \A k \in 1 .. n : walks[k].list \in Lists
      BY <1>0, WalkParts
    <3> QED
      BY <1>9, <2>2, <3>1
  <2>12. \A k \in 1 .. n :
            /\ Times(walks'[k].spent, g)
                 <= Cardinality(Standing(hooks[walks'[k].list], g, Reached(walks'[k])))
            /\ Contains(walks'[k].spent, g) =>
                   Times(hooks[walks'[k].list], g)
                     = history'.due[walks'[k].list][g] + Times(walks'[k].spent, g)
    <3> SUFFICES ASSUME NEW k \in 1 .. n
                 PROVE  /\ Times(walks'[k].spent, g)
                             <= Cardinality(Standing(hooks[walks'[k].list], g, Reached(walks'[k])))
                        /\ Contains(walks'[k].spent, g) =>
                               Times(hooks[walks'[k].list], g)
                                 = history'.due[walks'[k].list][g] + Times(walks'[k].spent, g)
      OBVIOUS
    <3>1. CASE k = n
      BY <1>2, <1>10, <2>8, <2>10, <3>1 DEF s
    <3>2. CASE k # n
      BY <1>10, <2>1, <2>11, <3>2 DEF Counted
    <3> QED
      BY <3>1, <3>2
  <2>13. \A j, k \in 1 .. n :
            walks'[j].list = walks'[k].list /\ Contains(walks'[j].spent, g)
              /\ Contains(walks'[k].spent, g) => j = k
    <3>1. ASSUME g = h
          PROVE  \A k \in 1 .. n : k # n /\ walks'[k].list = l => ~ Contains(walks'[k].spent, g)
      BY <1>10, <2>2, <3>1
    <3>2. g # h => (Contains(v.spent, g) <=> Contains(w.spent, g))
      BY <2>4, <2>5
    <3>3. \A j, k \in 1 .. n :
              walks[j].list = walks[k].list /\ Contains(walks[j].spent, g)
                /\ Contains(walks[k].spent, g) => j = k
      BY <2>1 DEF Counted
    <3>4. \A k \in 1 .. n :
              g # h => (Contains(walks'[k].spent, g) <=> Contains(walks[k].spent, g))
                       /\ walks'[k].list = walks[k].list
      BY <1>1, <1>2, <1>10, <3>2 DEF l
    <3>5. CASE g # h
      BY <3>3, <3>4, <3>5
    <3>6. CASE g = h
      <4>1. CASE h \in Once
        <5>1. \A k \in 1 .. n : k # n /\ Contains(walks'[k].spent, g) =>
                                   walks'[k].list # l /\ walks'[k] = walks[k]
          BY <1>10, <3>1, <3>6
        <5>2. walks'[n].list = l
          BY <1>1, <1>2, <1>10
        <5> QED
          BY <3>3, <5>1, <5>2
      <4>2. CASE h \notin Once
        <5>1. \A k \in 1 .. n : walks'[k].spent = walks[k].spent /\ walks'[k].list = walks[k].list
          BY <1>1, <1>2, <1>10, <4>2 DEF l
        <5> QED
          BY <3>3, <5>1
      <4> QED
        BY <4>1, <4>2
    <3> QED
      BY <3>5, <3>6
  <2>14. ASSUME NEW m \in Lists,
                \A k \in 1 .. n : walks'[k].list = m => ~ Contains(walks'[k].spent, g)
         PROVE  Times(hooks[m], g) = history'.due[m][g]
    <3>1. m = l => ~ Contains(v.spent, g)
      BY <1>1, <1>2, <1>10, <2>14
    <3>2. ~ (m = l /\ g = h /\ h \in Once)
      BY <2>4, <2>5, <3>1
    <3>3. history'.due[m][g] = due[m][g]
      BY <1>9, <1>20, <3>2
    <3>4. \A k \in 1 .. n : walks[k].list = m => ~ Contains(walks[k].spent, g)
      <4> SUFFICES ASSUME NEW k \in 1 .. n, walks[k].list = m
                   PROVE  ~ Contains(walks[k].spent, g)
        OBVIOUS
      <4>1. CASE k = n
        <5>1. m = l /\ walks[k].spent = w.spent
          BY <1>1, <4>1 DEF l
        <5>2. Times(v.spent, g) = 0
          BY <2>5, <3>1, <5>1
        <5> QED
          BY <2>4, <2>5, <5>1, <5>2
      <4>2. CASE k # n
        BY <1>10, <2>14, <4>2
      <4> QED
        BY <4>1, <4>2
    <3> QED
      BY <2>1, <3>3, <3>4 DEF Counted
  <2> QED
    BY <1>10, <2>12, <2>13, <2>14 DEF Counted
<1>17. WalksInv'
  BY <1>5, <1>9, <1>10, <1>13, <1>15, <1>16 DEF WalksInv
<1> QED
  BY <1>11, <1>12, <1>17 DEF BusInv

\* The history with d registrations of h due in list l.
Recorded(x, l, h, d, D) == [x EXCEPT !.changes = @ + 1, !.due[l][h] = d, !.doubled = D]

\* What a change of one registration leaves of the history.
LEMMA DueRecorded ==
    ASSUME history \in HistoryType, NEW l \in Lists, NEW h \in Hooks, NEW d \in 0 .. 1,
           NEW D \in SUBSET Hooks,
           history' = Recorded(history, l, h, d, D)
    PROVE  /\ history' \in HistoryType /\ history'.dispatched = history.dispatched
           /\ history'.polled = history.polled /\ history'.doubled = D
           /\ \A m \in Lists, g \in Hooks :
                  history'.due[m][g] = IF m = l /\ g = h THEN d ELSE history.due[m][g]
<1> DEFINE due == history.due
           e == [due EXCEPT ![l] = [due[l] EXCEPT ![h] = d]]
<1>1. due \in [Lists -> [Hooks -> 0 .. 1]] /\ history.changes + 1 \in Nat
  BY DEF HistoryType
<1>2. e \in [Lists -> [Hooks -> 0 .. 1]]
  BY <1>1
<1>3. history' = [[[history EXCEPT !.changes = history.changes + 1] EXCEPT !.due = e]
                      EXCEPT !.doubled = D]
  BY DEF HistoryType, Recorded
<1> HIDE DEF e
<1>4. /\ history' \in HistoryType /\ history'.dispatched = history.dispatched
      /\ history'.polled = history.polled /\ history'.doubled = D /\ history'.due = e
  BY <1>1, <1>2, <1>3 DEF HistoryType
<1>5. \A m \in Lists, g \in Hooks : e[m][g] = IF m = l /\ g = h THEN d ELSE due[m][g]
  BY <1>1 DEF e
<1> QED
  BY <1>4, <1>5

\* A hook is registered.
LEMMA RegisterKeeps ==
    ASSUME BusInv, NEW l \in Lists, NEW h \in Hooks, Register(l, h)
    PROVE  BusInv'
<1> DEFINE n == Len(walks)
           s == hooks[l]
           t == Append(s, h)
           due == history.due
<1>0. BusTyped /\ PolledOnce /\ WalksInv
  BY DEF BusInv
<1>20. hooks' = [hooks EXCEPT ![l] = t]
  BY DEF Register
<1>1. s \in Seq(Hooks) /\ hooks \in [Lists -> Seq(Hooks)] /\ history \in HistoryType
  BY <1>0 DEF BusTyped
<1>2. /\ due \in [Lists -> [Hooks -> 0 .. 1]] /\ history.doubled \in SUBSET Hooks
      /\ due[l][h] = 0
  BY <1>1 DEF HistoryType, Register
<1>21. \A m \in Lists : m = l => hooks[m] = s
  OBVIOUS
<1> HIDE DEF s
<1>3. /\ hooks' = [hooks EXCEPT ![l] = t] /\ walks' = walks /\ queue' = queue
      /\ readIndex' = readIndex
  BY <1>20 DEF Register
<1>4. /\ history' \in HistoryType /\ history'.dispatched = history.dispatched
      /\ history'.polled = history.polled /\ history'.doubled = history.doubled
      /\ \A m \in Lists, g \in Hooks :
             history'.due[m][g] = IF m = l /\ g = h THEN 1 ELSE due[m][g]
  <2>1. history' = [history EXCEPT !.changes = @ + 1, !.due[l][h] = 1]
    BY DEF Register
  <2>2. history' = Recorded(history, l, h, 1, history.doubled)
    BY <1>1, <2>1 DEF HistoryType, Recorded
  <2>3. 1 \in 0 .. 1
    OBVIOUS
  <2> QED
    BY <1>1, <1>2, <2>2, <2>3, DueRecorded
<1>5. t \in Seq(Hooks) /\ Len(t) = Len(s) + 1 /\ \A j \in 1 .. Len(s) : t[j] = s[j]
  BY <1>1, AppendTimes
<1>6. ASSUME NEW g
      PROVE  /\ Times(t, g) = Times(s, g) + (IF h = g THEN 1 ELSE 0)
             /\ \A b \in Nat : Cardinality(Standing(s, g, b)) <= Cardinality(Standing(t, g, b))
  <2>1. Times(t, g) = Times(s, g) + (IF h = g THEN 1 ELSE 0)
    BY <1>1, AppendTimes
  <2>2. \A b \in Nat : Cardinality(Standing(s, g, b)) <= Cardinality(Standing(t, g, b))
    BY <1>1, AppendTimes
  <2> QED
    BY <2>1, <2>2
<1> HIDE DEF t
<1>7. \A m \in Lists : hooks'[m] = IF m = l THEN t ELSE hooks[m]
  BY <1>1, <1>3
<1>8. hooks' \in [Lists -> Seq(Hooks)]
  BY <1>1, <1>3, <1>5
<1>9. BusTyped'
  BY <1>0, <1>3, <1>4, <1>8 DEF BusTyped
<1>10. PolledOnce'
  BY <1>0, <1>3, <1>4 DEF PolledOnce
<1>11. ASSUME NEW k \in 1 .. n
       PROVE  Ahead(walks[k], hooks'[walks[k].list])
  <2>1. Ahead(walks[k], hooks[walks[k].list]) /\ walks[k].list \in Lists /\ walks[k].i \in Nat
    BY <1>0, WalkParts DEF WalksInv
  <2>2. CASE walks[k].list # l
    BY <1>7, <2>1, <2>2
  <2>3. CASE walks[k].list = l
    <3>1. Ahead(walks[k], s)
      BY <1>21, <2>1, <2>3
    <3>2. Len(s) \in Nat /\ \A j \in 1 .. Len(s) : j \in 1 .. Len(t)
      BY <1>1, <1>5, LenProperties
    <3>3. walks[k].i <= Len(s) => walks[k].i <= Len(t)
      BY <1>5, <2>1, <3>2
    <3>4. Ahead(walks[k], t)
      BY <1>5, <3>1, <3>2, <3>3, Zenon DEF Ahead
    <3> QED
      BY <1>7, <2>3, <3>4
  <2> QED
    BY <2>2, <2>3
<1>12. ASSUME NEW g \in Hooks \ history.doubled
       PROVE  Counted(g, hooks', walks, history'.due)
  <2>1. Counted(g, hooks, walks, due)
    BY <1>0 DEF WalksInv
  <2>2. ASSUME NEW m \in Lists
        PROVE  /\ Times(hooks'[m], g) = Times(hooks[m], g) + (IF m = l /\ g = h THEN 1 ELSE 0)
               /\ history'.due[m][g] = due[m][g] + (IF m = l /\ g = h THEN 1 ELSE 0)
               /\ Times(hooks'[m], g) \in Nat /\ Times(hooks[m], g) \in Nat
               /\ history'.due[m][g] \in Nat /\ due[m][g] \in Nat
               /\ \A b \in Nat : /\ Cardinality(Standing(hooks[m], g, b)) \in Nat
                                 /\ Cardinality(Standing(hooks'[m], g, b)) \in Nat
                                 /\ Cardinality(Standing(hooks[m], g, b))
                                      <= Cardinality(Standing(hooks'[m], g, b))
    <3>0. due[m][g] \in 0 .. 1
      BY <1>2
    <3>1. hooks[m] \in Seq(Hooks) /\ hooks'[m] \in Seq(Hooks) /\ due[m][g] \in Nat
      BY <1>1, <1>8, <3>0
    <3>2. Times(hooks'[m], g) \in Nat /\ Times(hooks[m], g) \in Nat
      BY <3>1, StandingGrows
    <3>3. \A b \in Nat : /\ Cardinality(Standing(hooks[m], g, b)) \in Nat
                         /\ Cardinality(Standing(hooks'[m], g, b)) \in Nat
      BY <3>1, StandingType
    <3>4. history'.due[m][g] = due[m][g] + (IF m = l /\ g = h THEN 1 ELSE 0)
      BY <1>2, <1>4, <3>0
    <3>5. ASSUME m = l
          PROVE  /\ Times(hooks'[m], g) = Times(hooks[m], g) + (IF m = l /\ g = h THEN 1 ELSE 0)
                 /\ \A b \in Nat : Cardinality(Standing(hooks[m], g, b))
                                     <= Cardinality(Standing(hooks'[m], g, b))
      <4>1. hooks[m] = s /\ hooks'[m] = t
        BY <1>7, <1>21, <3>5
      <4> QED
        BY <1>6, <3>5, <4>1
    <3>6. ASSUME m # l
          PROVE  /\ Times(hooks'[m], g) = Times(hooks[m], g) + (IF m = l /\ g = h THEN 1 ELSE 0)
                 /\ \A b \in Nat : Cardinality(Standing(hooks[m], g, b))
                                     <= Cardinality(Standing(hooks'[m], g, b))
      <4>1. hooks'[m] = hooks[m]
        BY <1>7, <3>6
      <4> QED
        BY <3>2, <3>3, <3>6, <4>1
    <3>7. history'.due[m][g] \in Nat
      BY <3>1, <3>4
    <3> QED
      BY <3>1, <3>2, <3>3, <3>4, <3>5, <3>6, <3>7
  <2>3. ASSUME NEW k \in 1 .. n
        PROVE  /\ Times(walks[k].spent, g)
                    <= Cardinality(Standing(hooks'[walks[k].list], g, Reached(walks[k])))
               /\ Contains(walks[k].spent, g) =>
                      Times(hooks'[walks[k].list], g)
                        = history'.due[walks[k].list][g] + Times(walks[k].spent, g)
    <3>1. /\ walks[k].list \in Lists /\ Reached(walks[k]) \in Nat
          /\ Times(walks[k].spent, g) \in Nat
      BY <1>0, WalkParts, StandingGrows
    <3>2. /\ Times(walks[k].spent, g)
               <= Cardinality(Standing(hooks[walks[k].list], g, Reached(walks[k])))
          /\ Contains(walks[k].spent, g) =>
                 Times(hooks[walks[k].list], g)
                   = due[walks[k].list][g] + Times(walks[k].spent, g)
      BY <2>1 DEF Counted
    <3> DEFINE m == walks[k].list
               b == Reached(walks[k])
    <3>3. /\ Times(hooks'[m], g) = Times(hooks[m], g) + (IF m = l /\ g = h THEN 1 ELSE 0)
          /\ history'.due[m][g] = due[m][g] + (IF m = l /\ g = h THEN 1 ELSE 0)
          /\ due[m][g] \in Nat
      BY <2>2, <3>1
    <3>4. /\ Cardinality(Standing(hooks[m], g, b)) \in Nat
          /\ Cardinality(Standing(hooks'[m], g, b)) \in Nat
          /\ Cardinality(Standing(hooks[m], g, b)) <= Cardinality(Standing(hooks'[m], g, b))
      BY <2>2, <3>1
    <3>5. m \in Lists /\ b \in Nat /\ Times(walks[k].spent, g) \in Nat
      BY <3>1
    <3>6. /\ Times(walks[k].spent, g) <= Cardinality(Standing(hooks[m], g, b))
          /\ Contains(walks[k].spent, g) => Times(hooks[m], g) = due[m][g] + Times(walks[k].spent, g)
      BY <3>2
    <3> HIDE DEF m, b
    <3>7. Times(walks[k].spent, g) <= Cardinality(Standing(hooks'[m], g, b))
      BY <3>4, <3>5, <3>6
    <3>8. Contains(walks[k].spent, g) =>
              Times(hooks'[m], g) = history'.due[m][g] + Times(walks[k].spent, g)
      BY <3>3, <3>5, <3>6
    <3> QED
      BY <3>7, <3>8 DEF m, b
  <2>4. \A m \in Lists :
           (\A k \in 1 .. n : walks[k].list = m => ~ Contains(walks[k].spent, g))
               => Times(hooks'[m], g) = history'.due[m][g]
    <3>1. \A m \in Lists :
             (\A k \in 1 .. n : walks[k].list = m => ~ Contains(walks[k].spent, g))
                 => Times(hooks[m], g) = due[m][g]
      BY <2>1 DEF Counted
    <3>2. \A m \in Lists : Times(hooks[m], g) = due[m][g] => Times(hooks'[m], g) = history'.due[m][g]
      BY <2>2
    <3> QED
      BY <3>1, <3>2
  <2>5. \A j, k \in 1 .. n :
            walks[j].list = walks[k].list /\ Contains(walks[j].spent, g)
              /\ Contains(walks[k].spent, g) => j = k
    BY <2>1 DEF Counted
  <2> QED
    BY <2>3, <2>4, <2>5 DEF Counted
<1>13. WalksInv'
  BY <1>0, <1>3, <1>4, <1>11, <1>12 DEF WalksInv, WalksNest
<1> QED
  BY <1>9, <1>10, <1>13 DEF BusInv

\* A hook is unregistered, under the walks that wait for their handlers.
LEMMA UnregisterKeeps ==
    ASSUME BusInv, NEW l \in Lists, NEW h \in Hooks, Unregister(l, h)
    PROVE  BusInv'
<1> DEFINE n == Len(walks)
           s == hooks[l]
           t == ItemRemoved(s, h)
           due == history.due
           D == IF Spent(l, h, n) THEN history.doubled \cup {h} ELSE history.doubled
           B(k) == walks[k].moved \/ Moves(walks[k], l, h)
           v(k) == IF walks[k].list = l THEN LeftOut(walks[k], {h}, B(k)) ELSE walks[k]
<1>0. BusTyped /\ PolledOnce /\ WalksInv
  BY DEF BusInv
<1>1. /\ s \in Seq(Hooks) /\ hooks \in [Lists -> Seq(Hooks)] /\ history \in HistoryType
      /\ walks \in Seq(WalkType) /\ n \in Nat /\ DOMAIN walks = 1 .. n
  BY <1>0, LenProperties DEF BusTyped
<1>2. /\ due \in [Lists -> [Hooks -> 0 .. 1]] /\ history.doubled \in SUBSET Hooks /\ D \in SUBSET Hooks
  BY <1>1 DEF HistoryType
<1>3. /\ hooks' = [hooks EXCEPT ![l] = t] /\ queue' = queue /\ readIndex' = readIndex
      /\ Contains(s, h)
  BY DEF Unregister
<1>4. history' = Recorded(history, l, h, 0, D)
  BY <1>1 DEF Unregister, Recorded, HistoryType
<1>5. walks' = [k \in 1 .. n |-> v(k)]
  BY <1>1, Zenon DEF Unregister, LeftOut
<1>6. \A k \in 1 .. n : walks[k].at = "handler"
  <2>1. ASSUME NEW k \in 1 .. n
        PROVE  walks[k].at = "handler"
    <3>1. walks # <<>>
      BY EmptySeq
    <3>2. walks[n].at = "handler"
      BY <3>1 DEF Unregister, Changing, Application, Innermost
    <3>3. k < n => walks[k].at = "handler"
      BY <1>0 DEF WalksInv, WalksNest
    <3> QED
      BY <1>1, <3>2, <3>3
  <2> QED
    BY <2>1
<1>7. ASSUME NEW k \in 1 .. n
      PROVE  /\ v(k) \in WalkType /\ v(k).list = walks[k].list /\ v(k).spent = walks[k].spent
             /\ v(k).at = "handler" /\ v(k).i = walks[k].i /\ v(k).count = walks[k].count
             /\ walks[k].list = l => /\ v(k).owed = walks[k].owed \ {h}
                                     /\ v(k).moved = B(k)
             /\ walks[k].list # l => v(k) = walks[k]
  <2>1. walks[k] \in WalkType /\ walks[k].moved \in BOOLEAN
    BY <1>0, WalkParts
  <2>2. B(k) \in BOOLEAN
    BY <2>1 DEF Moves, Contains
  <2> DEFINE x == LeftOut(walks[k], {h}, B(k))
  <2>3. /\ x \in WalkType /\ x.list = walks[k].list /\ x.spent = walks[k].spent
        /\ x.at = walks[k].at
        /\ x.i = walks[k].i /\ x.count = walks[k].count /\ x.moved = B(k)
        /\ x.owed = walks[k].owed \ {h}
    <3> HIDE DEF B
    <3> QED
      BY <2>1, <2>2, LeftOutStep
  <2>4. walks[k].list = l => v(k) = x
    OBVIOUS
  <2>5. walks[k].list # l => v(k) = walks[k]
    OBVIOUS
  <2> HIDE DEF x, v, B
  <2> QED
    BY <1>6, <2>1, <2>3, <2>4, <2>5
<1>8. h \notin D => \A k \in 1 .. n : walks[k].list = l => ~ Contains(walks[k].spent, h)
  BY DEF Spent
<1>9. history.doubled \subseteq D
  OBVIOUS
<1>10. t \in Seq(Hooks)
  BY <1>1, RemovedList
<1>11. ASSUME NEW g
       PROVE  /\ Times(t, g) = IF g = h THEN Times(s, g) - 1 ELSE Times(s, g)
              /\ g # h => \A b \in Nat : Cardinality(Standing(s, g, b))
                                           <= Cardinality(Standing(t, g, b))
  <2>1. Times(t, g) = IF g = h /\ Contains(s, h) THEN Times(s, g) - 1 ELSE Times(s, g)
    BY <1>1, RemovedTimes
  <2>2. g # h => \A b \in Nat : Cardinality(Standing(s, g, b)) <= Cardinality(Standing(t, g, b))
    BY <1>1, RemovedTimes
  <2> QED
    BY <1>3, <2>1, <2>2
<1>12. \A k \in 1 .. n : B(k) <=> walks[k].moved \/ Contains(SubSeq(s, 1, walks[k].i), h)
  BY DEF Moves
<1>13. ASSUME NEW b \in Nat, b <= Len(s), \A j \in 1 .. b : s[j] # h
       PROVE  /\ b <= Len(t) /\ \A j \in 1 .. b : t[j] = s[j]
              /\ \A j \in 1 .. Len(s) :
                      b < j /\ s[j] # h => \E k \in 1 .. Len(t) : b < k /\ k <= j /\ t[k] = s[j]
  <2>1. s \in Seq(Hooks)
    BY <1>1
  <2> HIDE DEF s
  <2>2. b <= Len(t) /\ \A j \in 1 .. b : t[j] = s[j]
    BY <1>13, <2>1, RemovedBehind
  <2>3. \A j \in 1 .. Len(s) :
            b < j /\ s[j] # h => \E k \in 1 .. Len(t) : b < k /\ k <= j /\ t[k] = s[j]
    BY <1>13, <2>1, RemovedBehind
  <2> QED
    BY <2>2, <2>3
<1>14. \A m \in Lists : hooks'[m] = IF m = l THEN t ELSE hooks[m]
  BY <1>1, <1>3
<1>15. \A m \in Lists : m = l => hooks[m] = s
  OBVIOUS
<1>16. Times(s, h) # 0
  BY <1>1, <1>3, StandingGrows
<1> HIDE DEF t, s, v, B, D
<1>17. /\ history' \in HistoryType /\ history'.dispatched = history.dispatched
       /\ history'.polled = history.polled /\ history'.doubled = D
       /\ \A m \in Lists, g \in Hooks :
              history'.due[m][g] = IF m = l /\ g = h THEN 0 ELSE due[m][g]
  <2>1. 0 \in 0 .. 1
    OBVIOUS
  <2> QED
    BY <1>1, <1>2, <1>4, <2>1, DueRecorded
<1>18. /\ walks' \in Seq(WalkType) /\ Len(walks') = n
       /\ \A k \in 1 .. n : walks'[k] = v(k)
  <2>1. \A k \in 1 .. n : v(k) \in WalkType
    BY <1>7
  <2>2. walks' \in Seq(WalkType)
    BY <1>1, <1>5, <2>1, IsASeq
  <2> QED
    BY <1>1, <1>5, <2>2
<1>19. hooks' \in [Lists -> Seq(Hooks)]
  BY <1>1, <1>3, <1>10
<1>20. BusTyped'
  BY <1>0, <1>3, <1>17, <1>18, <1>19 DEF BusTyped
<1>21. PolledOnce'
  BY <1>0, <1>3, <1>17 DEF PolledOnce
<1>22. WalksNest'
  BY <1>7, <1>18 DEF WalksNest
<1>23. ASSUME NEW k \in 1 .. n
       PROVE  Ahead(v(k), hooks'[walks[k].list])
  <2>1. /\ Ahead(walks[k], hooks[walks[k].list]) /\ walks[k].list \in Lists
        /\ walks[k].i \in Nat \ {0} /\ walks[k].count \in Nat
    BY <1>0, WalkParts DEF WalksInv
  <2>2. CASE walks[k].list # l
    BY <1>7, <1>14, <2>1, <2>2
  <2>3. CASE walks[k].list = l
    <3> DEFINE w == walks[k]
               b == w.i
    <3>1. Ahead(w, s) /\ Reached(w) = b /\ Reached(v(k)) = b /\ v(k).at = "handler"
          /\ v(k).i = b /\ v(k).count = w.count /\ w.at = "handler"
      BY <1>6, <1>7, <1>15, <2>1, <2>3 DEF Reached
    <3>2. Ahead(v(k), t)
      <4> SUFFICES ASSUME ~ v(k).moved
                   PROVE  /\ b <= Len(t)
                          /\ \A g \in v(k).owed : \E j \in 1 .. Len(t) :
                                 b < j /\ j <= w.count /\ t[j] = g
        BY <3>1 DEF Ahead
      <4>1. ~ w.moved /\ ~ Contains(SubSeq(s, 1, b), h)
        BY <1>7, <1>12, <2>3
      <4>2. b <= Len(s) /\ b \in Nat /\ Len(s) \in Nat
        BY <1>1, <2>1, <3>1, <4>1, LenProperties DEF Ahead
      <4>3. \A j \in 1 .. b : s[j] # h
        <5>1. \A j \in 1 .. b : s[j] \in Hooks
          BY <1>1, <4>2, ElementOfSeq
        <5>2. /\ Len(SubSeq(s, 1, b)) = (IF 1 <= b THEN b - 1 + 1 ELSE 0)
              /\ \A j \in 1 .. b - 1 + 1 : SubSeq(s, 1, b)[j] = s[1 + j - 1]
          <6>1. 1 \in Int /\ b \in Int
            BY <4>2
          <6> HIDE DEF b
          <6> QED
            BY <5>1, <6>1, SubSeqProperties
        <5>3. Len(SubSeq(s, 1, b)) = b /\ \A j \in 1 .. b : SubSeq(s, 1, b)[j] = s[j]
          BY <2>1, <5>2
        <5> QED
          BY <4>1, <5>3 DEF Contains
      <4>4. /\ b <= Len(t)
            /\ \A j \in 1 .. Len(s) :
                  b < j /\ s[j] # h => \E i \in 1 .. Len(t) : b < i /\ i <= j /\ t[i] = s[j]
        BY <1>13, <4>2, <4>3
      <4>5. ASSUME NEW g \in v(k).owed
            PROVE  \E j \in 1 .. Len(t) : b < j /\ j <= w.count /\ t[j] = g
        <5>1. g \in w.owed /\ g # h
          BY <1>7, <2>3
        <5>2. PICK j \in 1 .. Len(s) : b < j /\ j <= w.count /\ s[j] = g
          BY <3>1, <4>1, <5>1 DEF Ahead
        <5>3. PICK i \in 1 .. Len(t) : b < i /\ i <= j /\ t[i] = s[j]
          BY <4>4, <5>1, <5>2
        <5>4. Len(t) \in Nat
          BY <1>10, LenProperties
        <5>5. i <= w.count
          BY <2>1, <4>2, <5>2, <5>3, <5>4
        <5> QED
          BY <5>2, <5>3, <5>5
      <4> QED
        BY <4>4, <4>5
    <3> QED
      BY <1>14, <2>1, <2>3, <3>2
  <2> QED
    BY <2>2, <2>3
<1>24. ASSUME NEW g \in Hooks \ D
       PROVE  Counted(g, hooks', walks', history'.due)
  <2>1. Counted(g, hooks, walks, due)
    BY <1>0, <1>9 DEF WalksInv
  <2>2. ASSUME NEW m \in Lists, ~ (m = l /\ g = h)
        PROVE  /\ Times(hooks'[m], g) = Times(hooks[m], g)
               /\ history'.due[m][g] = due[m][g]
               /\ \A b \in Nat : /\ Cardinality(Standing(hooks[m], g, b)) \in Nat
                                 /\ Cardinality(Standing(hooks'[m], g, b)) \in Nat
                                 /\ Cardinality(Standing(hooks[m], g, b))
                                      <= Cardinality(Standing(hooks'[m], g, b))
    <3>1. hooks[m] \in Seq(Hooks) /\ hooks'[m] \in Seq(Hooks)
      BY <1>1, <1>19
    <3>2. \A b \in Nat : /\ Cardinality(Standing(hooks[m], g, b)) \in Nat
                         /\ Cardinality(Standing(hooks'[m], g, b)) \in Nat
      BY <3>1, StandingType
    <3>3. history'.due[m][g] = due[m][g]
      BY <1>17, <2>2
    <3>4. ASSUME m = l
          PROVE  /\ Times(hooks'[m], g) = Times(hooks[m], g)
                 /\ \A b \in Nat : Cardinality(Standing(hooks[m], g, b))
                                     <= Cardinality(Standing(hooks'[m], g, b))
      <4>1. hooks[m] = s /\ hooks'[m] = t /\ g # h
        BY <1>14, <1>15, <2>2, <3>4
      <4> QED
        BY <1>11, <4>1
    <3>5. ASSUME m # l
          PROVE  /\ Times(hooks'[m], g) = Times(hooks[m], g)
                 /\ \A b \in Nat : Cardinality(Standing(hooks[m], g, b))
                                     <= Cardinality(Standing(hooks'[m], g, b))
      <4>1. hooks'[m] = hooks[m]
        BY <1>14, <3>5
      <4> QED
        BY <3>2, <4>1
    <3> QED
      BY <3>2, <3>3, <3>4, <3>5
  <2>3. ASSUME NEW k \in 1 .. n
        PROVE  /\ Times(walks[k].spent, g)
                    <= Cardinality(Standing(hooks'[walks[k].list], g, Reached(walks[k])))
               /\ Contains(walks[k].spent, g) =>
                      Times(hooks'[walks[k].list], g)
                        = history'.due[walks[k].list][g] + Times(walks[k].spent, g)
    <3> DEFINE m == walks[k].list
               b == Reached(walks[k])
    <3>1. m \in Lists /\ b \in Nat /\ Times(walks[k].spent, g) \in Nat
      BY <1>0, WalkParts, StandingGrows
    <3>2. /\ Times(walks[k].spent, g) <= Cardinality(Standing(hooks[m], g, b))
          /\ Contains(walks[k].spent, g) => Times(hooks[m], g) = due[m][g] + Times(walks[k].spent, g)
      BY <2>1 DEF Counted
    <3>3. /\ Times(walks[k].spent, g) = 0 <=> ~ Contains(walks[k].spent, g)
          /\ m = l /\ g = h => ~ Contains(walks[k].spent, g)
      BY <1>0, <1>8, <2>1, WalkParts, StandingGrows
    <3>4. hooks'[m] \in Seq(Hooks)
      BY <1>19, <3>1
    <3> HIDE DEF m, b
    <3>5. Cardinality(Standing(hooks'[m], g, b)) \in Nat
      BY <3>1, <3>4, StandingType
    <3>6. CASE m = l /\ g = h
      BY <3>3, <3>5, <3>6 DEF m, b
    <3>7. CASE ~ (m = l /\ g = h)
      <4>1. /\ Times(hooks'[m], g) = Times(hooks[m], g) /\ history'.due[m][g] = due[m][g]
            /\ Cardinality(Standing(hooks[m], g, b)) \in Nat
            /\ Cardinality(Standing(hooks[m], g, b)) <= Cardinality(Standing(hooks'[m], g, b))
        BY <2>2, <3>1, <3>7
      <4>2. Times(walks[k].spent, g) <= Cardinality(Standing(hooks'[m], g, b))
        BY <3>1, <3>2, <3>5, <4>1
      <4> QED
        BY <3>2, <4>1, <4>2 DEF m, b
    <3> QED
      BY <3>6, <3>7
  <2>4. ASSUME NEW m \in Lists,
               \A k \in 1 .. n : walks[k].list = m => ~ Contains(walks[k].spent, g)
        PROVE  Times(hooks'[m], g) = history'.due[m][g]
    <3>1. Times(hooks[m], g) = due[m][g]
      BY <2>1, <2>4 DEF Counted
    <3>2. CASE m = l /\ g = h
      <4>1. Times(hooks[m], g) # 0 /\ hooks'[m] = t /\ hooks[m] = s
        BY <1>14, <1>15, <1>16, <3>2
      <4>2. due[m][g] \in 0 .. 1
        BY <1>2
      <4>3. Times(t, g) = Times(s, g) - 1
        BY <1>11, <3>2
      <4>4. history'.due[m][g] = 0
        BY <1>17, <3>2
      <4> QED
        BY <3>1, <4>1, <4>2, <4>3, <4>4
    <3>3. CASE ~ (m = l /\ g = h)
      BY <2>2, <3>1, <3>3
    <3> QED
      BY <3>2, <3>3
  <2>5. \A j, k \in 1 .. n :
            walks[j].list = walks[k].list /\ Contains(walks[j].spent, g)
              /\ Contains(walks[k].spent, g) => j = k
    BY <2>1 DEF Counted
  <2>6. \A k \in 1 .. n : /\ walks'[k].list = walks[k].list /\ walks'[k].spent = walks[k].spent
                          /\ Reached(walks'[k]) = Reached(walks[k])
    BY <1>6, <1>7, <1>18 DEF Reached
  <2> QED
    BY <1>18, <2>3, <2>4, <2>5, <2>6 DEF Counted
<1>25. \A k \in 1 .. n : Ahead(walks'[k], hooks'[walks'[k].list])
  BY <1>7, <1>18, <1>23
<1>26. WalksInv'
  BY <1>17, <1>18, <1>22, <1>24, <1>25 DEF WalksInv
<1> QED
  BY <1>20, <1>21, <1>26 DEF BusInv

\* A walk ends, and takes its spent one-shots out under the walks it is inside of.
LEMMA WalkEndsKeeps ==
    ASSUME BusInv, walks # <<>>, WalkEnds(Innermost), UNCHANGED <<queue, readIndex, history>>
    PROVE  BusInv'
<1> DEFINE n == Len(walks)
           w == Innermost
           l == w.list
           s == hooks[l]
           t == Cleaned(w)
           S == ToSet(w.spent)
           due == history.due
           B(k) == walks[k].moved \/ \E h \in S : Moves(walks[k], l, h)
           v(k) == IF walks[k].list = l THEN LeftOut(walks[k], S, B(k)) ELSE walks[k]
<1>0. BusTyped /\ PolledOnce /\ WalksInv
  BY DEF BusInv
<1>1. /\ n \in Nat \ {0} /\ n \in 1 .. n /\ l \in Lists /\ s \in Seq(Hooks)
      /\ w.spent \in Seq(Hooks) /\ walks[n] = w /\ Reached(w) \in Nat
      /\ hooks \in [Lists -> Seq(Hooks)] /\ history \in HistoryType
      /\ \A k \in 1 .. n - 1 : k \in 1 .. n /\ k # n
  <2>1. n \in Nat \ {0} /\ n \in 1 .. n /\ l \in Lists /\ s \in Seq(Hooks) /\ w.spent \in Seq(Hooks)
    BY <1>0, InnermostParts
  <2>2. walks[n] = w
    BY DEF Innermost
  <2>3. Reached(w) \in Nat
    BY <1>0, <2>1, <2>2, WalkParts
  <2> QED
    BY <1>0, <2>1, <2>2, <2>3 DEF BusTyped
<1>2. due \in [Lists -> [Hooks -> 0 .. 1]]
  BY <1>1 DEF HistoryType
<1>3. hooks' = [hooks EXCEPT ![l] = t]
  BY DEF WalkEnds
<1>4. queue' = queue /\ readIndex' = readIndex /\ history' = history
  OBVIOUS
<1>5. walks' = [k \in 1 .. n - 1 |-> v(k)]
  BY Zenon DEF WalkEnds, LeftOut
<1>6. \A k \in 1 .. n - 1 : walks[k].at = "handler"
  BY <1>0, <1>1 DEF WalksInv, WalksNest
<1>7. ASSUME NEW k \in 1 .. n - 1
      PROVE  /\ v(k) \in WalkType /\ v(k).list = walks[k].list /\ v(k).spent = walks[k].spent
             /\ v(k).at = "handler" /\ v(k).i = walks[k].i /\ v(k).count = walks[k].count
             /\ walks[k].list = l => /\ v(k).owed = walks[k].owed \ S
                                     /\ v(k).moved = B(k)
             /\ walks[k].list # l => v(k) = walks[k]
  <2>1. walks[k] \in WalkType /\ walks[k].moved \in BOOLEAN
    BY <1>0, <1>1, WalkParts
  <2>2. B(k) \in BOOLEAN
    BY <2>1
  <2> DEFINE x == LeftOut(walks[k], S, B(k))
  <2>3. /\ x \in WalkType /\ x.list = walks[k].list /\ x.spent = walks[k].spent
        /\ x.at = walks[k].at
        /\ x.i = walks[k].i /\ x.count = walks[k].count /\ x.moved = B(k)
        /\ x.owed = walks[k].owed \ S
    <3> HIDE DEF B, S
    <3> QED
      BY <2>1, <2>2, LeftOutStep
  <2>4. walks[k].list = l => v(k) = x
    OBVIOUS
  <2>5. walks[k].list # l => v(k) = walks[k]
    OBVIOUS
  <2> HIDE DEF x, v, B, S, l
  <2> QED
    BY <1>6, <2>1, <2>3, <2>4, <2>5
<1>8. \A g : g \in S <=> Contains(w.spent, g)
  <2>1. DOMAIN w.spent = 1 .. Len(w.spent)
    BY <1>1, LenProperties
  <2> HIDE DEF w
  <2> QED
    BY <2>1 DEF ToSet, Contains
<1>9. /\ t \in Seq(Hooks)
      /\ \A g : Times(w.spent, g) <= Times(s, g) => Times(t, g) = Times(s, g) - Times(w.spent, g)
      /\ \A g : ~ Contains(w.spent, g) =>
             \A b \in Nat : Cardinality(Standing(s, g, b)) <= Cardinality(Standing(t, g, b))
      /\ \A b \in Nat :
             b <= Len(s) /\ (\A h \in S : \A j \in 1 .. b : s[j] # h) =>
                 /\ b <= Len(t)
                 /\ \A j \in 1 .. Len(s) :
                        b < j /\ s[j] \notin S =>
                            \E k \in 1 .. Len(t) : b < k /\ k <= j /\ t[k] = s[j]
  <2>1. w.spent \in Seq(Hooks) /\ hooks[w.list] \in Seq(Hooks)
    BY <1>1
  <2> HIDE DEF w
  <2>2. t \in Seq(Hooks)
    BY <2>1, CleanedList
  <2>3. \A g : Times(w.spent, g) <= Times(s, g) => Times(t, g) = Times(s, g) - Times(w.spent, g)
    BY <2>1, CleanedList
  <2>4. \A g : ~ Contains(w.spent, g) =>
            \A b \in Nat : Cardinality(Standing(s, g, b)) <= Cardinality(Standing(t, g, b))
    BY <2>1, CleanedList
  <2>5. \A b \in Nat :
            b <= Len(s) /\ (\A h \in S : \A j \in 1 .. b : s[j] # h) =>
                /\ b <= Len(t)
                /\ \A j \in 1 .. Len(s) :
                       b < j /\ s[j] \notin S =>
                           \E k \in 1 .. Len(t) : b < k /\ k <= j /\ t[k] = s[j]
    BY <2>1, CleanedList
  <2> QED
    BY <2>2, <2>3, <2>4, <2>5
<1>10. \A k \in 1 .. n - 1 :
          B(k) <=> walks[k].moved \/ \E h \in S : Contains(SubSeq(s, 1, walks[k].i), h)
  BY DEF Moves
<1>11. \A m \in Lists : hooks'[m] = IF m = l THEN t ELSE hooks[m]
  BY <1>1, <1>3
<1>12. \A m \in Lists : m = l => hooks[m] = s
  OBVIOUS
<1>13. \A k \in 1 .. n : k \in 1 .. n - 1 \/ k = n
  BY <1>1
<1> HIDE DEF t, s, v, B, S, w, l
<1>14. /\ walks' \in Seq(WalkType) /\ Len(walks') = n - 1
       /\ \A k \in 1 .. n - 1 : walks'[k] = v(k)
  <2>1. \A k \in 1 .. n - 1 : v(k) \in WalkType
    BY <1>7
  <2>2. n - 1 \in Nat
    BY <1>1
  <2>3. walks' \in Seq(WalkType)
    BY <1>5, <2>1, <2>2, IsASeq
  <2> QED
    BY <1>5, <2>2, <2>3
<1>15. hooks' \in [Lists -> Seq(Hooks)]
  BY <1>1, <1>3, <1>9
<1>16. BusTyped'
  BY <1>0, <1>4, <1>14, <1>15 DEF BusTyped
<1>17. PolledOnce'
  BY <1>0, <1>4 DEF PolledOnce
<1>18. WalksNest'
  BY <1>7, <1>14 DEF WalksNest
<1>19. ASSUME NEW k \in 1 .. n - 1
       PROVE  Ahead(v(k), hooks'[walks[k].list])
  <2>1. /\ Ahead(walks[k], hooks[walks[k].list]) /\ walks[k].list \in Lists
        /\ walks[k].i \in Nat \ {0} /\ walks[k].count \in Nat
    BY <1>0, <1>1, WalkParts DEF WalksInv
  <2>2. CASE walks[k].list # l
    BY <1>7, <1>11, <2>1, <2>2
  <2>3. CASE walks[k].list = l
    <3> DEFINE q == walks[k]
               b == q.i
    <3>1. Ahead(q, s) /\ Reached(q) = b /\ Reached(v(k)) = b /\ v(k).at = "handler"
          /\ v(k).i = b /\ v(k).count = q.count /\ q.at = "handler"
      BY <1>6, <1>7, <1>12, <2>1, <2>3 DEF Reached
    <3>2. Ahead(v(k), t)
      <4> SUFFICES ASSUME ~ v(k).moved
                   PROVE  /\ b <= Len(t)
                          /\ \A g \in v(k).owed : \E j \in 1 .. Len(t) :
                                 b < j /\ j <= q.count /\ t[j] = g
        BY <3>1 DEF Ahead
      <4>1. ~ q.moved /\ (\A h \in S : ~ Contains(SubSeq(s, 1, b), h))
        BY <1>7, <1>10, <2>3
      <4>2. b <= Len(s) /\ b \in Nat /\ Len(s) \in Nat
        BY <1>1, <2>1, <3>1, <4>1, LenProperties DEF Ahead
      <4>3. \A h \in S : \A j \in 1 .. b : s[j] # h
        <5>1. \A j \in 1 .. b : s[j] \in Hooks
          BY <1>1, <4>2, ElementOfSeq, SMTT(60)
        <5>2. /\ Len(SubSeq(s, 1, b)) = (IF 1 <= b THEN b - 1 + 1 ELSE 0)
              /\ \A j \in 1 .. b - 1 + 1 : SubSeq(s, 1, b)[j] = s[1 + j - 1]
          <6>1. 1 \in Int /\ b \in Int
            BY <4>2
          <6> HIDE DEF b
          <6> QED
            BY <5>1, <6>1, SubSeqProperties
        <5>3. Len(SubSeq(s, 1, b)) = b /\ \A j \in 1 .. b : SubSeq(s, 1, b)[j] = s[j]
          BY <2>1, <5>2
        <5> QED
          BY <4>1, <5>3 DEF Contains
      <4>4. /\ b <= Len(t)
            /\ \A j \in 1 .. Len(s) :
                  b < j /\ s[j] \notin S => \E i \in 1 .. Len(t) : b < i /\ i <= j /\ t[i] = s[j]
        BY <1>9, <4>2, <4>3
      <4>5. ASSUME NEW g \in v(k).owed
            PROVE  \E j \in 1 .. Len(t) : b < j /\ j <= q.count /\ t[j] = g
        <5>1. g \in q.owed /\ g \notin S
          BY <1>7, <2>3
        <5>2. PICK j \in 1 .. Len(s) : b < j /\ j <= q.count /\ s[j] = g
          BY <3>1, <4>1, <5>1 DEF Ahead
        <5>3. PICK i \in 1 .. Len(t) : b < i /\ i <= j /\ t[i] = s[j]
          BY <4>4, <5>1, <5>2
        <5>4. Len(t) \in Nat
          BY <1>9, LenProperties
        <5>5. i <= q.count
          BY <2>1, <4>2, <5>2, <5>3, <5>4
        <5> QED
          BY <5>2, <5>3, <5>5
      <4> QED
        BY <4>4, <4>5
    <3> QED
      BY <1>11, <2>1, <2>3, <3>2
  <2> QED
    BY <2>2, <2>3
<1>20. ASSUME NEW g \in Hooks \ history.doubled
       PROVE  Counted(g, hooks', walks', due)
  <2>1. Counted(g, hooks, walks, due)
    BY <1>0 DEF WalksInv
  <2>2. \A k \in 1 .. n - 1 :
            walks[k].list = l /\ Contains(walks[k].spent, g) => ~ Contains(w.spent, g)
    BY <1>1, <2>1 DEF Counted, l
  <2>3. /\ Times(w.spent, g) \in Nat /\ (Times(w.spent, g) = 0 <=> ~ Contains(w.spent, g))
        /\ Times(s, g) \in Nat
    BY <1>1, StandingGrows
  <2>4. Times(t, g) = Times(s, g) - Times(w.spent, g)
    <3>1. Times(w.spent, g) <= Cardinality(Standing(s, g, Reached(w)))
      BY <1>1, <2>1 DEF Counted, s, l
    <3>2. Standing(s, g, Reached(w)) \in SUBSET Standing(s, g, Len(s))
      BY <1>1, LenProperties DEF Standing
    <3>3. /\ Cardinality(Standing(s, g, Reached(w))) <= Times(s, g)
          /\ Cardinality(Standing(s, g, Reached(w))) \in Nat
      BY <1>1, <3>2, StandingType, FS_Subset DEF Times
    <3>4. Times(w.spent, g) <= Times(s, g)
      BY <2>3, <3>1, <3>3
    <3> QED
      BY <1>9, <3>4
  <2>5. ASSUME NEW m \in Lists, ~ (m = l /\ Contains(w.spent, g))
        PROVE  /\ Times(hooks'[m], g) = Times(hooks[m], g)
               /\ \A b \in Nat : /\ Cardinality(Standing(hooks[m], g, b)) \in Nat
                                 /\ Cardinality(Standing(hooks'[m], g, b)) \in Nat
                                 /\ Cardinality(Standing(hooks[m], g, b))
                                      <= Cardinality(Standing(hooks'[m], g, b))
    <3>1. hooks[m] \in Seq(Hooks) /\ hooks'[m] \in Seq(Hooks)
      BY <1>1, <1>15
    <3>2. \A b \in Nat : /\ Cardinality(Standing(hooks[m], g, b)) \in Nat
                         /\ Cardinality(Standing(hooks'[m], g, b)) \in Nat
      BY <3>1, StandingType
    <3>3. ASSUME m = l
          PROVE  /\ Times(hooks'[m], g) = Times(hooks[m], g)
                 /\ \A b \in Nat : Cardinality(Standing(hooks[m], g, b))
                                     <= Cardinality(Standing(hooks'[m], g, b))
      <4>1. hooks[m] = s /\ hooks'[m] = t /\ ~ Contains(w.spent, g)
        BY <1>11, <1>12, <2>5, <3>3
      <4>2. Times(t, g) = Times(s, g)
        BY <2>3, <2>4, <4>1
      <4> QED
        BY <1>9, <4>1, <4>2
    <3>4. ASSUME m # l
          PROVE  /\ Times(hooks'[m], g) = Times(hooks[m], g)
                 /\ \A b \in Nat : Cardinality(Standing(hooks[m], g, b))
                                     <= Cardinality(Standing(hooks'[m], g, b))
      <4>1. hooks'[m] = hooks[m]
        BY <1>11, <3>4
      <4> QED
        BY <3>2, <4>1
    <3> QED
      BY <3>2, <3>3, <3>4
  <2>6. ASSUME NEW k \in 1 .. n - 1
        PROVE  /\ Times(walks[k].spent, g)
                    <= Cardinality(Standing(hooks'[walks[k].list], g, Reached(walks[k])))
               /\ Contains(walks[k].spent, g) =>
                      Times(hooks'[walks[k].list], g)
                        = due[walks[k].list][g] + Times(walks[k].spent, g)
    <3> DEFINE m == walks[k].list
               b == Reached(walks[k])
    <3>1. m \in Lists /\ b \in Nat /\ Times(walks[k].spent, g) \in Nat
      BY <1>0, <1>1, WalkParts, StandingGrows
    <3>2. /\ Times(walks[k].spent, g) <= Cardinality(Standing(hooks[m], g, b))
          /\ Contains(walks[k].spent, g) => Times(hooks[m], g) = due[m][g] + Times(walks[k].spent, g)
      BY <1>1, <2>1 DEF Counted
    <3>3. /\ Times(walks[k].spent, g) = 0 <=> ~ Contains(walks[k].spent, g)
          /\ m = l /\ Contains(w.spent, g) => ~ Contains(walks[k].spent, g)
      BY <1>0, <1>1, <2>2, WalkParts, StandingGrows
    <3>4. hooks'[m] \in Seq(Hooks)
      BY <1>15, <3>1
    <3> HIDE DEF m, b
    <3>5. Cardinality(Standing(hooks'[m], g, b)) \in Nat
      BY <3>1, <3>4, StandingType
    <3>6. CASE m = l /\ Contains(w.spent, g)
      BY <3>3, <3>5, <3>6 DEF m, b
    <3>7. CASE ~ (m = l /\ Contains(w.spent, g))
      <4>1. /\ Times(hooks'[m], g) = Times(hooks[m], g)
            /\ Cardinality(Standing(hooks[m], g, b)) \in Nat
            /\ Cardinality(Standing(hooks[m], g, b)) <= Cardinality(Standing(hooks'[m], g, b))
        BY <2>5, <3>1, <3>7
      <4>2. Times(walks[k].spent, g) <= Cardinality(Standing(hooks'[m], g, b))
        BY <3>1, <3>2, <3>5, <4>1
      <4> QED
        BY <3>2, <4>1, <4>2 DEF m, b
    <3> QED
      BY <3>6, <3>7
  <2>7. ASSUME NEW m \in Lists,
               \A k \in 1 .. n - 1 : walks[k].list = m => ~ Contains(walks[k].spent, g)
        PROVE  Times(hooks'[m], g) = due[m][g]
    <3>1. CASE m = l /\ Contains(w.spent, g)
      <4>1. Times(hooks[m], g) = due[m][g] + Times(w.spent, g)
        BY <1>1, <2>1, <3>1 DEF Counted, l
      <4>2. hooks'[m] = t /\ hooks[m] = s
        BY <1>11, <1>12, <3>1
      <4>3. due[m][g] \in 0 .. 1
        BY <1>2
      <4> QED
        BY <2>3, <2>4, <4>1, <4>2, <4>3
    <3>2. CASE ~ (m = l /\ Contains(w.spent, g))
      <4>1. \A k \in 1 .. n : walks[k].list = m => ~ Contains(walks[k].spent, g)
        BY <1>1, <1>13, <2>7, <3>2 DEF l
      <4>2. Times(hooks[m], g) = due[m][g]
        BY <2>1, <4>1 DEF Counted
      <4> QED
        BY <2>5, <3>2, <4>2
    <3> QED
      BY <3>1, <3>2
  <2>8. \A j, k \in 1 .. n - 1 :
            walks[j].list = walks[k].list /\ Contains(walks[j].spent, g)
              /\ Contains(walks[k].spent, g) => j = k
    BY <1>1, <2>1 DEF Counted
  <2>9. \A k \in 1 .. n - 1 : /\ walks'[k].list = walks[k].list /\ walks'[k].spent = walks[k].spent
                              /\ Reached(walks'[k]) = Reached(walks[k])
    BY <1>6, <1>7, <1>14 DEF Reached
  <2> QED
    BY <1>14, <2>6, <2>7, <2>8, <2>9 DEF Counted
<1>21. \A k \in 1 .. n - 1 : Ahead(walks'[k], hooks'[walks'[k].list])
  BY <1>7, <1>14, <1>19
<1>22. WalksInv'
  BY <1>4, <1>14, <1>18, <1>20, <1>21 DEF WalksInv
<1> QED
  BY <1>16, <1>17, <1>22 DEF BusInv

\* The bus starts in it.
LEMMA BusInit ==
    ASSUME EventInit
    PROVE  BusInv
<1>1. Len(<<>>) = 0 /\ \A S : <<>> \in Seq(S)
  BY EmptySeq
<1>2. hooks = [l \in Lists |-> <<>>] /\ queue = <<>> /\ readIndex = 0 /\ walks = <<>>
  BY DEF EventInit
<1>3. history = [dispatched |-> <<>>, polled |-> <<>>, changes |-> 0,
                 due |-> [l \in Lists |-> [h \in Hooks |-> 0]], doubled |-> {}]
  BY DEF EventInit
<1>4. BusTyped
  <2>1. history \in HistoryType
    BY <1>1, <1>3 DEF HistoryType
  <2>2. hooks \in [Lists -> Seq(Hooks)]
    BY <1>1, <1>2
  <2> QED
    BY <1>1, <1>2, <2>1, <2>2 DEF BusTyped
<1>5. PolledOnce
  <2>1. Len(queue) - readIndex = 0
    BY <1>1, <1>2
  <2> DEFINE U == [k \in 1 .. (Len(queue) - readIndex) |-> queue[readIndex + k].id]
  <2>2. U = <<>>
    BY <2>1
  <2>3. history.polled = <<>> /\ history.dispatched = <<>>
    BY <1>3
  <2>4. <<>> \o <<>> = <<>>
    BY ConcatEmptySeq, EmptySeq
  <2> HIDE DEF U
  <2>5. history.polled \o U = history.dispatched
    BY <2>2, <2>3, <2>4
  <2> QED
    BY <2>5 DEF PolledOnce, U
<1>6. ASSUME NEW h
      PROVE  Times(<<>>, h) = 0
  <2>1. Standing(<<>>, h, Len(<<>>)) = {}
    BY <1>1 DEF Standing
  <2> QED
    BY <2>1, FS_EmptySet DEF Times
<1>7. \A l \in Lists : hooks[l] = <<>>
  BY <1>2
<1>8. \A l \in Lists, h \in Hooks : history.due[l][h] = 0
  BY <1>3
<1>9. 1 .. Len(walks) = {}
  BY <1>1, <1>2
<1>10. WalksInv
  BY <1>6, <1>7, <1>8, <1>9 DEF WalksInv, WalksNest, Counted
<1> QED
  BY <1>4, <1>5, <1>10 DEF BusInv

\* Every step keeps it.
LEMMA BusStep ==
    ASSUME BusInv, [EventNext]_eventVars
    PROVE  BusInv'
<1>1. ASSUME NEW type \in Types, Dispatch(type) \/ DispatchElsewhere(type)
      PROVE  BusInv'
  BY <1>1, DispatchKeeps
<1>2. ASSUME NEW l \in Lists, NEW h \in Hooks, Register(l, h) \/ Unregister(l, h)
      PROVE  BusInv'
  BY <1>2, RegisterKeeps, UnregisterKeeps
<1>3. ASSUME Exhausted \/ Handles
      PROVE  BusInv'
  <2>1. walks # <<>> /\ WalkEnds(Innermost) /\ UNCHANGED <<queue, readIndex, history>>
    BY <1>3 DEF Exhausted, Handles
  <2> QED
    BY <2>1, WalkEndsKeeps
<1>4. ASSUME UNCHANGED eventVars
      PROVE  BusInv'
  BY <1>4 DEF eventVars, BusInv, BusTyped, PolledOnce, WalksInv, WalksNest, Counted
<1> QED
  BY <1>1, <1>2, <1>3, <1>4, PollKeeps, DeclinesKeeps, EntersKeeps, ReturnsKeeps DEF EventNext

\* The invariant holds throughout.
THEOREM BusInvariant == EventSpec => []BusInv
<1>1. EventInit => BusInv
  BY BusInit
<1>2. BusInv /\ [EventNext]_eventVars => BusInv'
  BY BusStep
<1> QED
  BY <1>1, <1>2, PTL DEF EventSpec

\* However many handlers dispatch, register and unregister under however many walks, an
\* event is polled once and in its turn, and the lists hold what was registered and
\* neither unregistered nor spent.
THEOREM BusIsHonest == EventSpec => []BusHonest
<1>1. BusInv => BusHonest
  <2> SUFFICES ASSUME BusInv
               PROVE  BusHonest
    OBVIOUS
  <2>1. ASSUME walks = <<>>, NEW l \in Lists, NEW h \in Hooks \ history.doubled
        PROVE  Cardinality({k \in DOMAIN hooks[l] : hooks[l][k] = h}) = history.due[l][h]
    <3>1. 1 .. Len(walks) = {}
      <4>1. Len(<<>>) = 0
        BY EmptySeq
      <4> QED
        BY <2>1, <4>1
    <3>2. Times(hooks[l], h) = history.due[l][h]
      BY <3>1 DEF BusInv, WalksInv, Counted
    <3>3. hooks[l] \in Seq(Hooks)
      BY DEF BusInv, BusTyped
    <3>4. DOMAIN hooks[l] = 1 .. Len(hooks[l]) /\ Len(hooks[l]) \in Nat
      BY <3>3, LenProperties
    <3>5. Standing(hooks[l], h, Len(hooks[l])) = {k \in DOMAIN hooks[l] : hooks[l][k] = h}
      BY <3>4 DEF Standing
    <3> QED
      BY <3>2, <3>5 DEF Times
  <2>2. HooksKept
    BY <2>1 DEF HooksKept
  <2> QED
    BY <2>2 DEF BusHonest, BusInv
<1> QED
  BY <1>1, BusInvariant, PTL

\* A walk that no handler ended, and whose list did not move under it, has passed over
\* none of the hooks its event was owed to.
THEOREM EveryHookIsHeard == EventSpec => HooksHeard
<1>1. BusInv => (Exhausted => Innermost.moved \/ Innermost.owed = {})
  <2> SUFFICES ASSUME BusInv, Exhausted, ~ Innermost.moved
               PROVE  Innermost.owed = {}
    OBVIOUS
  <2> DEFINE w == Innermost
             s == hooks[w.list]
  <2>1. BusTyped /\ walks # <<>> /\ w.at = "walk" /\ ~ AtHook
    BY DEF BusInv, Exhausted
  <2>2. /\ Len(walks) \in 1 .. Len(walks) /\ w.i \in Nat \ {0} /\ w.count \in Nat
        /\ Len(s) \in Nat
    BY <2>1, InnermostParts
  <2>3. Ahead(w, s)
    BY <2>2 DEF BusInv, WalksInv, Innermost
  <2>4. ~ (w.i <= w.count /\ w.i <= Len(s))
    BY <2>1 DEF AtHook
  <2>5. Reached(w) = w.i - 1
    BY <2>1 DEF Reached
  <2> HIDE DEF w, s
  <2>6. ~ w.moved
    BY DEF w
  <2>7. \A g \in w.owed : \E j \in 1 .. Len(s) : w.i - 1 < j /\ j <= w.count
    BY <2>3, <2>5, <2>6 DEF Ahead
  <2>8. w.owed = {}
    BY <2>2, <2>4, <2>7
  <2> QED
    BY <2>8 DEF w
<1> QED
  BY <1>1, BusInvariant, PTL DEF EventSpec, HooksHeard

-----------------------------------------------------------------------------
(* Cron: division, the calendar, the fields *)

\* What division leaves.
LEMMA Division ==
    ASSUME NEW a \in Nat, NEW b \in Nat \ {0}
    PROVE  /\ a \div b \in Nat /\ a % b \in 0 .. b - 1
           /\ a = b * (a \div b) + (a % b)
<1>1. a = b * (a \div b) + (a % b)
  OBVIOUS
<1>2. a % b \in 0 .. b - 1
  OBVIOUS
<1>3. a \div b \in Int
  OBVIOUS
<1>4. a \div b >= 0
  <2> DEFINE q == a \div b
             r == a % b
  <2>1. q \in Int /\ r \in 0 .. b - 1 /\ a = b * q + r
    BY <1>1, <1>2, <1>3
  <2> HIDE DEF q, r
  <2>2. ASSUME q <= -1 PROVE FALSE
    <3>1. b * q <= b * (-1)
      BY <2>1, <2>2
    <3> QED
      BY <2>1, <3>1
  <2>3. q >= 0
    BY <2>1, <2>2
  <2> QED
    BY <2>3 DEF q
<1> QED
  BY <1>1, <1>2, <1>3, <1>4

\* Quotient and remainder are the only ones.
LEMMA DivisionUnique ==
    ASSUME NEW b \in Nat \ {0}, NEW q \in Nat, NEW r \in 0 .. b - 1
    PROVE  (b * q + r) \div b = q /\ (b * q + r) % b = r
<1> DEFINE a == b * q + r
           p == a \div b
           s == a % b
<1>1. a \in Nat
  OBVIOUS
<1>2. p \in Nat /\ s \in 0 .. b - 1 /\ a = b * p + s
  <2> HIDE DEF a
  <2> QED
    BY <1>1, Division
<1> HIDE DEF p, s
<1>3. b * (p - q) = r - s
  BY <1>2
<1>4. p = q
  <2>1. CASE p > q
    <3>1. b * (p - q) >= b
      BY <2>1, <1>2
    <3> QED
      BY <1>2, <1>3, <3>1
  <2>2. CASE p < q
    <3>1. b * (q - p) >= b
      BY <2>2, <1>2
    <3>2. b * (p - q) = - (b * (q - p))
      BY <1>2
    <3> QED
      BY <1>2, <1>3, <3>1, <3>2
  <2> QED
    BY <1>2, <2>1, <2>2
<1>5. r = s
  BY <1>2, <1>3, <1>4
<1> QED
  BY <1>4, <1>5 DEF p, s

\* An instant is before a minute exactly if the minute it first asks for is not later.
LEMMA CandidateIs ==
    ASSUME NEW t \in Nat, NEW e \in Nat, TicksPerMinute \in Nat \ {0}
    PROVE  /\ Candidate(t) \in Nat \ {0}
           /\ e * TicksPerMinute > t <=> e >= Candidate(t)
           /\ (e * TicksPerMinute) \div TicksPerMinute = e
           /\ (e * TicksPerMinute) % TicksPerMinute = 0
<1> DEFINE b == TicksPerMinute
           q == t \div b
           r == t % b
<1>1. q \in Nat /\ r \in 0 .. b - 1 /\ t = b * q + r
  BY Division
<1> HIDE DEF q
<1>2. (t - r) + b = b * (q + 1) + 0
  BY <1>1
<1>3. Candidate(t) = (b * (q + 1) + 0) \div b
  BY <1>2 DEF Candidate
<1>4. 0 \in 0 .. b - 1 /\ q + 1 \in Nat
  BY <1>1
<1>5. Candidate(t) = q + 1
  BY <1>3, <1>4, DivisionUnique
<1>6. (b * e + 0) \div b = e /\ (b * e + 0) % b = 0
  BY <1>4, DivisionUnique
<1>7. b * e + 0 = e * TicksPerMinute
  OBVIOUS
<1>8. ASSUME e >= q + 1 PROVE b * e > t
  <2>1. b * e >= b * (q + 1)
    BY <1>1, <1>8
  <2> QED
    BY <1>1, <2>1
<1>9. ASSUME e <= q PROVE b * e <= t
  <2>1. b * e <= b * q
    BY <1>1, <1>9
  <2> QED
    BY <1>1, <2>1
<1> HIDE DEF r
<1>10. e * TicksPerMinute > t <=> e >= q + 1
  BY <1>1, <1>7, <1>8, <1>9
<1> QED
  BY <1>1, <1>5, <1>6, <1>7, <1>10

\* The days before a month are those before the last one and its own.
LEMMA DaysBeforeIs ==
    /\ DaysBefore[1] = 0
    /\ \A m \in 1 .. Months : DaysBefore[m + 1] = DaysBefore[m] + MonthLengths[m]
<1> DEFINE N == Months
           Solves(f, k) ==
               f = [m \in 1 .. k + 1 |-> IF m = 1 THEN 0 ELSE f[m - 1] + MonthLengths[m - 1]]
           G == {k \in 0 .. N : \E f : Solves(f, k)}
<1>0. N \in Nat
  BY CronAssumption, LenProperties DEF Months
<1> HIDE DEF N
<1>1. 0 \in G
  <2> DEFINE f == [m \in 1 .. 0 + 1 |-> 0]
  <2>1. f = [m \in 1 .. 0 + 1 |-> IF m = 1 THEN 0 ELSE f[m - 1] + MonthLengths[m - 1]]
    OBVIOUS
  <2> HIDE DEF f
  <2> QED
    BY <1>0, <2>1
<1>2. ASSUME NEW k \in 0 .. N - 1, k \in G
      PROVE  k + 1 \in G
  <2>1. PICK f : Solves(f, k)
    BY <1>2
  <2> DEFINE g == [m \in 1 .. (k + 1) + 1 |->
                     IF m = k + 2 THEN f[k + 1] + MonthLengths[k + 1] ELSE f[m]]
  <2>2. ASSUME NEW m \in 1 .. (k + 1) + 1
        PROVE  g[m] = IF m = 1 THEN 0 ELSE g[m - 1] + MonthLengths[m - 1]
    <3>1. CASE m = k + 2
      <4>1. k + 1 \in 1 .. (k + 1) + 1 /\ k + 1 # k + 2 /\ k + 1 = m - 1 /\ m # 1
        BY <3>1
      <4>2. g[k + 1] = f[k + 1] /\ g[m] = f[k + 1] + MonthLengths[k + 1]
        BY <3>1, <4>1
      <4> QED
        BY <3>1, <4>1, <4>2
    <3>2. CASE m # k + 2
      <4>1. m \in 1 .. k + 1 /\ g[m] = f[m]
        BY <3>2
      <4>2. f[m] = IF m = 1 THEN 0 ELSE f[m - 1] + MonthLengths[m - 1]
        BY <2>1, <4>1
      <4>3. m # 1 => g[m - 1] = f[m - 1]
        <5>1. m # 1 => m - 1 \in 1 .. (k + 1) + 1 /\ m - 1 # k + 2
          BY <4>1
        <5> QED
          BY <5>1
      <4> QED
        BY <4>1, <4>2, <4>3
    <3> QED
      BY <3>1, <3>2
  <2>3. g = [m \in 1 .. (k + 1) + 1 |-> g[m]]
    OBVIOUS
  <2> HIDE DEF g
  <2>4. g = [m \in 1 .. (k + 1) + 1 |-> IF m = 1 THEN 0 ELSE g[m - 1] + MonthLengths[m - 1]]
    BY <2>2, <2>3
  <2>5. k + 1 \in 0 .. N
    BY <1>0
  <2> QED
    BY <2>4, <2>5
<1>3. N \in G
  <2>1. N \in 0 .. N
    BY <1>0
  <2> HIDE DEF G
  <2> QED
    BY <1>0, <1>1, <1>2, <2>1, UpTo
<1> DEFINE v == CHOOSE f : Solves(f, N)
<1>4. DaysBefore = v
  BY Zenon DEF DaysBefore, N
<1>5. Solves(v, N)
  <2>1. \E f : Solves(f, N)
    BY <1>3
  <2> HIDE DEF Solves
  <2> QED
    BY <2>1
<1> HIDE DEF v
<1>6. /\ v[1] = 0
      /\ \A m \in 1 .. N : v[m + 1] = v[m] + MonthLengths[m]
  BY <1>0, <1>5
<1> QED
  BY <1>4, <1>6 DEF N

\* The months and the longest of them.
LEMMA MonthsAre ==
    /\ Months \in Nat \ {0} /\ \A m \in 1 .. Months : MonthLengths[m] \in Nat \ {0}
    /\ MaxDom \in Nat /\ \A m \in 1 .. Months : MonthLengths[m] <= MaxDom
<1>1. Months \in Nat \ {0} /\ \A m \in 1 .. Months : MonthLengths[m] \in Nat \ {0}
  BY CronAssumption, LenProperties DEF Months
<1> DEFINE G == {k \in 0 .. Months : k = 0 \/ \E i \in 1 .. k : \A j \in 1 .. k :
                                                  MonthLengths[j] <= MonthLengths[i]}
<1>2. 0 \in G
  BY <1>1
<1>3. ASSUME NEW k \in 0 .. Months - 1, k \in G
      PROVE  k + 1 \in G
  <2>1. k + 1 \in 1 .. Months /\ k + 1 \in 1 .. k + 1
    BY <1>1
  <2>2. \A j \in 1 .. k + 1 : j \in 1 .. Months /\ (j \in 1 .. k \/ j = k + 1)
    BY <1>1
  <2>3. CASE k = 0
    BY <1>1, <2>1, <2>2, <2>3
  <2>4. CASE k # 0
    <3>1. PICK i \in 1 .. k : \A j \in 1 .. k : MonthLengths[j] <= MonthLengths[i]
      BY <1>3, <2>4
    <3>2. i \in 1 .. k + 1 /\ i \in 1 .. Months
      BY <1>1
    <3>3. CASE MonthLengths[i] >= MonthLengths[k + 1]
      BY <2>1, <2>2, <3>1, <3>2, <3>3, <1>1
    <3>4. CASE MonthLengths[i] < MonthLengths[k + 1]
      <4>1. \A j \in 1 .. k + 1 : MonthLengths[j] <= MonthLengths[k + 1]
        BY <1>1, <2>1, <2>2, <3>1, <3>2, <3>4
      <4> QED
        BY <1>1, <2>1, <4>1
    <3> QED
      BY <1>1, <2>1, <3>2, <3>3, <3>4
  <2> QED
    BY <2>3, <2>4
<1>4. Months \in G
  <2>1. Months \in 0 .. Months
    BY <1>1
  <2> HIDE DEF G
  <2> QED
    BY <1>1, <1>2, <1>3, <2>1, UpTo
<1>5. PICK i \in 1 .. Months : \A j \in 1 .. Months : MonthLengths[j] <= MonthLengths[i]
  BY <1>1, <1>4
<1>6. /\ MaxDom \in {MonthLengths[m] : m \in 1 .. Months}
      /\ \A m \in 1 .. Months : MonthLengths[m] <= MaxDom
  BY <1>5 DEF MaxDom
<1> QED
  BY <1>1, <1>6

\* Every day has a month, a day of it and a day of the week.
LEMMA CalendarIs ==
    ASSUME NEW n \in Nat
    PROVE  MonthOf(n) \in 1 .. Months /\ DomOf(n) \in 1 .. MaxDom /\ DowOf(n) \in 0 .. WeekLength - 1
<1> DEFINE D == DaysBefore
           x == n % YearLength
           M(m) == D[m] <= x /\ x < D[m + 1]
           P == {k \in 0 .. Months : D[k + 1] \in Nat /\ D[k + 1] >= k}
           G == {k \in 0 .. Months : x < D[k + 1] => \E m \in 1 .. k : M(m)}
<1> HIDE DEF D
<1>1. /\ Months \in Nat \ {0} /\ \A m \in 1 .. Months : MonthLengths[m] \in Nat \ {0}
      /\ MaxDom \in Nat /\ \A m \in 1 .. Months : MonthLengths[m] <= MaxDom
  BY MonthsAre
<1>2. D[1] = 0 /\ \A m \in 1 .. Months : D[m + 1] = D[m] + MonthLengths[m]
  BY DaysBeforeIs DEF D
<1>3. \A k \in 0 .. Months : k \in P
  <2>1. 0 \in P
    BY <1>1, <1>2
  <2>2. ASSUME NEW k \in 0 .. Months - 1, k \in P PROVE k + 1 \in P
    <3>1. k + 1 \in 1 .. Months
      BY <1>1
    <3> QED
      BY <1>1, <1>2, <2>2, <3>1
  <2> HIDE DEF P
  <2> QED
    BY <1>1, <2>1, <2>2, UpTo
<1>4. \A m \in 1 .. Months : D[m] \in Nat /\ D[m + 1] \in Nat
  <2> TAKE m \in 1 .. Months
  <2>1. m - 1 \in 0 .. Months /\ m \in 0 .. Months /\ (m - 1) + 1 = m
    BY <1>1
  <2> QED
    BY <1>3, <2>1
<1>5. YearLength \in Nat \ {0}
  <2>1. Months \in 0 .. Months
    BY <1>1
  <2> QED
    BY <1>1, <1>3, <2>1 DEF YearLength, D
<1>6. x \in 0 .. YearLength - 1
  BY <1>5, Division
<1> HIDE DEF x
<1>7. \A k \in 0 .. Months : k \in G
  <2>1. 0 \in G
    BY <1>1, <1>2, <1>6
  <2>2. ASSUME NEW k \in 0 .. Months - 1, k \in G PROVE k + 1 \in G
    <3>1. k + 1 \in 1 .. Months /\ k + 1 \in 1 .. k + 1 /\ k + 1 \in 0 .. Months
      BY <1>1
    <3>2. D[k + 1] \in Nat
      BY <1>4, <3>1
    <3>3. CASE x < D[k + 1]
      <4>1. PICK m \in 1 .. k : M(m)
        BY <2>2, <3>3
      <4>2. m \in 1 .. k + 1
        OBVIOUS
      <4> QED
        BY <3>1, <4>1, <4>2
    <3>4. CASE ~ (x < D[k + 1])
      <4>1. D[k + 1] <= x
        BY <1>6, <3>2, <3>4
      <4> QED
        BY <3>1, <4>1
    <3> QED
      BY <3>3, <3>4
  <2> HIDE DEF G
  <2> QED
    BY <1>1, <2>1, <2>2, UpTo
<1>8. \E m \in 1 .. Months : M(m)
  <2>1. Months \in 0 .. Months /\ x < D[Months + 1]
    BY <1>1, <1>5, <1>6 DEF YearLength, D
  <2> QED
    BY <1>7, <2>1
<1>9. MonthOf(n) \in 1 .. Months /\ M(MonthOf(n))
  BY <1>8 DEF MonthOf, D, x
<1> DEFINE m == MonthOf(n)
<1>10. DomOf(n) = (x - D[m]) + 1
  BY DEF DomOf, D, x
<1> HIDE DEF m
<1>11. /\ m \in 1 .. Months /\ D[m] <= x /\ x < D[m] + MonthLengths[m] /\ D[m] \in Nat
       /\ MonthLengths[m] \in Nat /\ MonthLengths[m] <= MaxDom
  BY <1>1, <1>2, <1>4, <1>9 DEF m
<1>12. DomOf(n) \in 1 .. MaxDom
  BY <1>1, <1>6, <1>10, <1>11
<1>13. DowOf(n) \in 0 .. WeekLength - 1
  BY CronAssumption, Division DEF DowOf
<1> QED
  BY <1>9, <1>12, <1>13

\* A number is reached by steps from another exactly if they divide the distance.
LEMMA StepsReach ==
    ASSUME NEW v \in Nat, NEW a \in Nat, NEW n \in Nat \ {0}, NEW hi \in Nat, v <= hi
    PROVE  (a <= v /\ (v - a) % n = 0) <=> \E k \in 0 .. hi : v = a + k * n
<1>1. ASSUME a <= v, (v - a) % n = 0
      PROVE  \E k \in 0 .. hi : v = a + k * n
  <2> DEFINE d == v - a
             k == d \div n
  <2>1. d \in Nat /\ d <= hi
    BY <1>1
  <2>2. k \in Nat /\ d = n * k + (d % n) /\ d % n = 0
    <3>1. d % n = 0
      BY <1>1
    <3> HIDE DEF d
    <3> QED
      BY <2>1, <3>1, Division
  <2>3. v = a + d
    OBVIOUS
  <2> HIDE DEF k, d
  <2>4. d = n * k
    BY <2>1, <2>2
  <2>5. k <= n * k
    BY <2>2
  <2>6. k \in 0 .. hi
    BY <2>1, <2>2, <2>4, <2>5
  <2>7. v = a + k * n
    BY <2>2, <2>3, <2>4
  <2> QED
    BY <2>6, <2>7
<1>2. ASSUME NEW k \in 0 .. hi, v = a + k * n
      PROVE  a <= v /\ (v - a) % n = 0
  <2>1. v - a = n * k + 0 /\ 0 \in 0 .. n - 1
    BY <1>2
  <2>2. (n * k + 0) % n = 0
    BY <2>1, DivisionUnique
  <2>3. n * k >= 0
    OBVIOUS
  <2> QED
    BY <2>1, <2>2, <2>3
<1> QED
  BY <1>1, <1>2

\* What one term of a field names, as the header reads it.
Names(t, v, lo, hi) ==
    LET n == IF t.step = NoStep THEN 1 ELSE t.step
    IN  \/ t.kind = "star" /\ \E k \in 0 .. hi : v = lo + k * n
        \/ t.kind = "one" /\ v = t.a
        \/ t.kind = "one" /\ t.step # NoStep /\ \E k \in 0 .. hi : v = t.a + k * n
        \/ t.kind = "span" /\ v <= t.b /\ \E k \in 0 .. hi : v = t.a + k * n

\* A term that was accepted is parsed as it reads.
LEMMA TermIsRead ==
    ASSUME NEW t \in Term, NEW lo \in Nat, NEW hi \in Nat, TermValid(t, lo, hi), NEW v \in lo .. hi
    PROVE  v \in TermMask(t, lo, hi) <=> Names(t, v, lo, hi)
<1> DEFINE n == IF t.step = NoStep THEN 1 ELSE t.step
           s == Start(t, lo)
<1>1. /\ t.kind \in {"star", "one", "span"} /\ t.a \in Nat /\ t.b \in Nat
      /\ t.step \in Nat \/ t.step = NoStep
  BY DEF Term
<1>2. t.step # 0 /\ s >= lo /\ End(t, hi) <= hi
  BY DEF TermValid
<1>3. s \in Nat /\ n \in Nat \ {0} /\ v \in Nat /\ v <= hi
  BY <1>1, <1>2 DEF Start
<1>4. (t.step = NoStep \/ (v - s) % t.step = 0) <=> (v - s) % n = 0
  <2>1. CASE t.step = NoStep
    <3>1. (v - s) % 1 = 0
      BY <1>3
    <3> QED
      BY <2>1, <3>1
  <2>2. CASE t.step # NoStep
    BY <2>2
  <2> QED
    BY <2>1, <2>2
<1>5. v \in TermMask(t, lo, hi) <=> s <= v /\ v <= End(t, hi) /\ (v - s) % n = 0
  BY <1>1, <1>2, <1>3, <1>4 DEF TermMask, End
<1>6. (s <= v /\ (v - s) % n = 0) <=> \E k \in 0 .. hi : v = s + k * n
  <2> HIDE DEF s, n
  <2> QED
    BY <1>3, StepsReach
<1>7. CASE t.kind = "star"
  <2>1. s = lo /\ End(t, hi) = hi
    BY <1>7 DEF Start, End
  <2> HIDE DEF n
  <2>2. Names(t, v, lo, hi) <=> \E k \in 0 .. hi : v = lo + k * n
    BY <1>7 DEF Names, n
  <2> QED
    BY <1>3, <1>5, <1>6, <2>1, <2>2
<1>8. CASE t.kind = "span"
  <2>1. s = t.a /\ End(t, hi) = t.b
    BY <1>8 DEF Start, End
  <2> HIDE DEF n
  <2>2. Names(t, v, lo, hi) <=> v <= t.b /\ \E k \in 0 .. hi : v = t.a + k * n
    BY <1>8 DEF Names, n
  <2> QED
    BY <1>3, <1>5, <1>6, <2>1, <2>2
<1>9. CASE t.kind = "one" /\ t.step = NoStep
  <2>1. s = t.a /\ End(t, hi) = t.a
    BY <1>9 DEF Start, End
  <2>2. Names(t, v, lo, hi) <=> v = t.a
    BY <1>9 DEF Names
  <2>3. v = t.a => (v - s) % n = 0
    BY <1>3, <1>9, <2>1
  <2> QED
    BY <1>1, <1>3, <1>5, <2>1, <2>2, <2>3
<1>10. CASE t.kind = "one" /\ t.step # NoStep
  <2>1. s = t.a /\ End(t, hi) = hi
    BY <1>10 DEF Start, End
  <2> HIDE DEF n
  <2>2. Names(t, v, lo, hi) <=> v = t.a \/ \E k \in 0 .. hi : v = t.a + k * n
    BY <1>10 DEF Names, n
  <2>3. v = t.a => \E k \in 0 .. hi : v = t.a + k * n
    <3>1. 0 \in 0 .. hi /\ t.a + 0 * n = t.a
      BY <1>1, <1>3
    <3> QED
      BY <3>1
  <2> QED
    BY <1>3, <1>5, <1>6, <2>1, <2>2, <2>3
<1> QED
  BY <1>1, <1>7, <1>8, <1>9, <1>10

\* And so is a field.
LEMMA FieldIsRead ==
    ASSUME NEW f \in Field, NEW lo \in Nat, NEW hi \in Nat, FieldValid(f, lo, hi), NEW v \in lo .. hi
    PROVE  v \in Mask(f, lo, hi) <=> Allows(f, v, lo, hi)
<1>1. \A i \in 1 .. Len(f) : f[i] \in Term /\ TermValid(f[i], lo, hi)
  <2>1. f \in Seq(Term)
    BY DEF Field
  <2>2. \A i \in 1 .. Len(f) : f[i] \in Term
    BY <2>1
  <2> QED
    BY <2>2 DEF FieldValid
<1>2. v \in Mask(f, lo, hi) <=> \E i \in 1 .. Len(f) : v \in TermMask(f[i], lo, hi)
  BY DEF Mask
<1>3. Allows(f, v, lo, hi) <=> \E i \in 1 .. Len(f) : Names(f[i], v, lo, hi)
  BY Zenon DEF Allows, Names
<1> QED
  BY <1>1, <1>2, <1>3, TermIsRead

\* A bare star allows everything.
LEMMA StarAllows ==
    ASSUME NEW lo \in Nat, NEW hi \in Nat, NEW v \in lo .. hi
    PROVE  Allows(<<Star>>, v, lo, hi)
<1>1. Len(<<Star>>) = 1 /\ <<Star>>[1] = Star
  OBVIOUS
<1>2. v - lo \in 0 .. hi /\ v = lo + (v - lo) * 1
  OBVIOUS
<1>3. Star.kind = "star" /\ Star.step = NoStep
  BY DEF Star
<1>4. \E k \in 0 .. hi : v = lo + k * 1
  BY <1>2
<1>5. Names(Star, v, lo, hi)
  BY <1>3, <1>4 DEF Names
<1>6. Allows(<<Star>>, v, lo, hi) <=> \E i \in 1 .. Len(<<Star>>) : Names(<<Star>>[i], v, lo, hi)
  BY Zenon DEF Allows, Names
<1>7. 1 \in 1 .. 1
  OBVIOUS
<1> QED
  BY <1>1, <1>5, <1>6, <1>7

\* A minute's day, hour and minute of the hour.
HourOf(m) == (m \div MinutesPerHour) % HoursPerDay
MinuteOf(m) == m % MinutesPerHour

\* The day, the hour and the minute of a time written by them.
LEMMA ClockIs ==
    ASSUME NEW n \in Nat, NEW h \in 0 .. HoursPerDay - 1, NEW i \in 0 .. MinutesPerHour - 1
    PROVE  LET m == n * MinutesPerDay + h * MinutesPerHour + i
           IN  /\ m \in Nat /\ m \div MinutesPerDay = n /\ HourOf(m) = h /\ MinuteOf(m) = i
               /\ m % MinutesPerDay = h * MinutesPerHour + i
<1> DEFINE M == MinutesPerHour
           H == HoursPerDay
           m == n * MinutesPerDay + h * MinutesPerHour + i
<1>1. M \in Nat \ {0} /\ H \in Nat \ {0}
  BY CronAssumption
<1>2. MinutesPerDay = M * H /\ M * H \in Nat \ {0}
  BY <1>1 DEF MinutesPerDay
<1>3. H * n + h \in Nat
  BY <1>1
<1>4. n * (M * H) + h * M = M * (H * n + h)
  BY <1>1
<1>5. m = M * (H * n + h) + i
  BY <1>2, <1>4
<1>6. m \div M = H * n + h /\ m % M = i
  BY <1>1, <1>3, <1>5, DivisionUnique
<1>7. (H * n + h) \div H = n /\ (H * n + h) % H = h
  BY <1>1, DivisionUnique
<1>8. h * M + i \in 0 .. M * H - 1
  <2>1. h * M <= (H - 1) * M
    BY <1>1
  <2>2. (H - 1) * M = M * H - M
    BY <1>1
  <2>3. h * M \in Nat
    BY <1>1
  <2> HIDE DEF M, H
  <2> QED
    BY <1>1, <1>2, <2>1, <2>2, <2>3 DEF M
<1>9. m = (M * H) * n + (h * M + i)
  BY <1>1, <1>2
<1>10. m \div (M * H) = n /\ m % (M * H) = h * M + i
  <2> DEFINE D == M * H
             r == h * M + i
  <2>1. D \in Nat \ {0} /\ r \in 0 .. D - 1 /\ m = D * n + r
    BY <1>2, <1>8, <1>9
  <2> HIDE DEF D, r, m
  <2>2. m \div D = n /\ m % D = r
    BY <2>1, DivisionUnique
  <2> QED
    BY <2>2 DEF D, r
<1>11. m \in Nat
  BY <1>1, <1>3, <1>5
<1> QED
  BY <1>2, <1>6, <1>7, <1>10, <1>11 DEF HourOf, MinuteOf

\* Every minute is one of a day.
LEMMA MinuteIs ==
    ASSUME NEW m \in Nat
    PROVE  /\ m \div MinutesPerDay \in Nat /\ HourOf(m) \in 0 .. HoursPerDay - 1
           /\ MinuteOf(m) \in 0 .. MinutesPerHour - 1
           /\ m = (m \div MinutesPerDay) * MinutesPerDay + HourOf(m) * MinutesPerHour + MinuteOf(m)
<1> DEFINE M == MinutesPerHour
           H == HoursPerDay
           q == m \div M
           n == q \div H
<1>1. M \in Nat \ {0} /\ H \in Nat \ {0}
  BY CronAssumption
<1>2. q \in Nat /\ MinuteOf(m) \in 0 .. M - 1 /\ m = M * q + MinuteOf(m)
  BY <1>1, Division DEF MinuteOf
<1>3. n \in Nat /\ HourOf(m) \in 0 .. H - 1 /\ q = H * n + HourOf(m)
  <2> HIDE DEF q
  <2>1. n \in Nat /\ q % H \in 0 .. H - 1 /\ q = H * n + (q % H)
    BY <1>1, <1>2, Division
  <2> QED
    BY <2>1 DEF HourOf, q
<1> HIDE DEF q, n
<1>4. M * (H * n + HourOf(m)) = n * (M * H) + HourOf(m) * M
  BY <1>1, <1>3
<1>5. m = n * MinutesPerDay + HourOf(m) * M + MinuteOf(m)
  BY <1>2, <1>3, <1>4 DEF MinutesPerDay
<1>6. m \div MinutesPerDay = n
  BY <1>2, <1>3, <1>5, ClockIs
<1> QED
  BY <1>2, <1>3, <1>5, <1>6

\* The order of the loops, hours outermost, is the order of time.
LEMMA LoopOrder ==
    ASSUME NEW b \in Nat \ {0}, NEW h \in Nat, NEW i \in 0 .. b - 1, NEW g \in Nat, NEW j \in 0 .. b - 1
    PROVE  h * b + i <= g * b + j <=> (h < g \/ (h = g /\ i <= j))
<1>1. ASSUME h < g PROVE h * b + i <= g * b + j
  <2>1. (h + 1) * b <= g * b
    BY <1>1
  <2>2. (h + 1) * b = h * b + b
    OBVIOUS
  <2> QED
    BY <2>1, <2>2
<1>2. ASSUME g < h PROVE ~ (h * b + i <= g * b + j)
  <2>1. (g + 1) * b <= h * b
    BY <1>2
  <2>2. (g + 1) * b = g * b + b
    OBVIOUS
  <2> QED
    BY <2>1, <2>2
<1>3. ASSUME h = g PROVE h * b + i <= g * b + j <=> i <= j
  <2>1. g * b \in Nat
    OBVIOUS
  <2> QED
    BY <1>3, <2>1
<1> QED
  BY <1>1, <1>2, <1>3

\* What a spec that was accepted is parsed to is what it reads.
LEMMA DayIsRead ==
    ASSUME NEW s \in Specs, SpecValid(s), NEW n \in Nat
    PROVE  DayOk(Parse(s), n) <=>
               /\ Allows(s.month, MonthOf(n), 1, Months)
               /\ LET dom == Allows(s.dom, DomOf(n), 1, MaxDom)
                      dow == \/ Allows(s.dow, DowOf(n), 0, WeekLength)
                             \/ DowOf(n) = 0 /\ Allows(s.dow, WeekLength, 0, WeekLength)
                  IN  IF s.dom # <<Star>> /\ s.dow # <<Star>> THEN dom \/ dow ELSE dom /\ dow
<1> DEFINE c == Parse(s)
           dom == Allows(s.dom, DomOf(n), 1, MaxDom)
           dow == \/ Allows(s.dow, DowOf(n), 0, WeekLength)
                  \/ DowOf(n) = 0 /\ Allows(s.dow, WeekLength, 0, WeekLength)
<1>1. s.dom \in Field /\ s.month \in Field /\ s.dow \in Field
  BY SpecsAssumption
<1>2. /\ FieldValid(s.dom, 1, MaxDom) /\ FieldValid(s.month, 1, Months)
      /\ FieldValid(s.dow, 0, WeekLength)
  BY DEF SpecValid
<1>3. MonthOf(n) \in 1 .. Months /\ DomOf(n) \in 1 .. MaxDom /\ DowOf(n) \in 0 .. WeekLength - 1
  BY CalendarIs
<1>4. Months \in Nat /\ MaxDom \in Nat /\ WeekLength \in Nat \ {0} /\ 0 \in Nat /\ 1 \in Nat
  BY MonthsAre, CronAssumption
<1>5. /\ c.month = Mask(s.month, 1, Months) /\ c.dom = Mask(s.dom, 1, MaxDom)
      /\ c.dow = FoldSunday(Mask(s.dow, 0, WeekLength))
      /\ c.domRestricted = (s.dom # <<Star>>) /\ c.dowRestricted = (s.dow # <<Star>>)
  BY DEF Parse, Restricted
<1>6. MonthOf(n) \in c.month <=> Allows(s.month, MonthOf(n), 1, Months)
  BY <1>1, <1>2, <1>3, <1>4, <1>5, FieldIsRead
<1>7. DomOf(n) \in c.dom <=> dom
  BY <1>1, <1>2, <1>3, <1>4, <1>5, FieldIsRead
<1>8. DowOf(n) \in c.dow <=> dow
  <2> DEFINE A == Mask(s.dow, 0, WeekLength)
  <2>1. \A v \in 0 .. WeekLength : v \in A <=> Allows(s.dow, v, 0, WeekLength)
    BY <1>1, <1>2, <1>4, FieldIsRead
  <2> HIDE DEF A
  <2>2. /\ DowOf(n) \in 0 .. WeekLength /\ DowOf(n) # WeekLength
        /\ WeekLength \in 0 .. WeekLength
    BY <1>3, <1>4
  <2>3. DowOf(n) \in FoldSunday(A) <=> DowOf(n) \in A \/ (DowOf(n) = 0 /\ WeekLength \in A)
    BY <2>2 DEF FoldSunday
  <2> QED
    BY <1>5, <2>1, <2>2, <2>3 DEF A
<1>9. s.dom = <<Star>> => dom
  BY <1>3, <1>4, StarAllows
<1>10. s.dow = <<Star>> => dow
  <2>1. DowOf(n) \in 0 .. WeekLength
    BY <1>3, <1>4
  <2> QED
    BY <1>4, <2>1, StarAllows
<1> HIDE DEF c, dom, dow
<1>11. DayOk(c, n) <=> /\ MonthOf(n) \in c.month
                       /\ \/ ~c.domRestricted /\ ~c.dowRestricted
                          \/ c.domRestricted /\ DomOf(n) \in c.dom
                          \/ c.dowRestricted /\ DowOf(n) \in c.dow
  BY DEF DayOk
<1>12. DayOk(c, n) <=> /\ Allows(s.month, MonthOf(n), 1, Months)
                       /\ IF s.dom # <<Star>> /\ s.dow # <<Star>> THEN dom \/ dow ELSE dom /\ dow
  BY <1>5, <1>6, <1>7, <1>8, <1>9, <1>10, <1>11, Zenon
<1> QED
  BY <1>12 DEF c, dom, dow

\* The loops' minutes of a day are in it.
LEMMA FiringsIn ==
    ASSUME NEW s \in Specs, SpecValid(s)
    PROVE  Parse(s).hour \subseteq 0 .. HoursPerDay - 1 /\ Parse(s).minute \subseteq 0 .. MinutesPerHour - 1
<1>1. s.hour \in Field /\ s.minute \in Field
  BY SpecsAssumption
<1>2. \A f, lo, hi : f \in Field /\ lo \in Nat /\ hi \in Nat /\ FieldValid(f, lo, hi)
                       => Mask(f, lo, hi) \subseteq lo .. hi
  <2> SUFFICES ASSUME NEW f, NEW lo, NEW hi, f \in Field, lo \in Nat, hi \in Nat,
                      FieldValid(f, lo, hi), NEW v \in Mask(f, lo, hi)
               PROVE  v \in lo .. hi
    OBVIOUS
  <2>1. PICK i \in 1 .. Len(f) : v \in TermMask(f[i], lo, hi)
    BY DEF Mask
  <2>2. f[i] \in Term /\ TermValid(f[i], lo, hi)
    BY DEF FieldValid, Field
  <2>3. Start(f[i], lo) \in Nat /\ End(f[i], hi) \in Nat
    BY <2>2 DEF Start, End, Term
  <2> QED
    BY <2>1, <2>2, <2>3 DEF TermMask, TermValid
<1>3. HoursPerDay - 1 \in Nat /\ MinutesPerHour - 1 \in Nat
  BY CronAssumption
<1>4. FieldValid(s.minute, 0, MinutesPerHour - 1) /\ FieldValid(s.hour, 0, HoursPerDay - 1)
  BY DEF SpecValid
<1>5. Parse(s).hour = Mask(s.hour, 0, HoursPerDay - 1) /\ Parse(s).minute = Mask(s.minute, 0, MinutesPerHour - 1)
  BY DEF Parse
<1>6. 0 \in Nat
  OBVIOUS
<1> QED
  BY <1>1, <1>2, <1>3, <1>4, <1>5, <1>6

\* The first minute asked for, and its place in its day.
LEMMA FirstIs ==
    ASSUME NEW t \in Nat
    PROVE  /\ Candidate(t) \in Nat /\ FirstDay(t) \in Nat
           /\ FirstDay(t) = Candidate(t) \div MinutesPerDay
           /\ LET first == Candidate(t) % MinutesPerDay
              IN  first \div MinutesPerHour = HourOf(Candidate(t))
                  /\ first % MinutesPerHour = MinuteOf(Candidate(t))
<1> DEFINE c == Candidate(t)
           h == HourOf(c)
           i == MinuteOf(c)
           n == c \div MinutesPerDay
<1>1. c \in Nat
  BY CandidateIs, CronAssumption
<1> HIDE DEF c
<1>2. /\ n \in Nat /\ h \in 0 .. HoursPerDay - 1 /\ i \in 0 .. MinutesPerHour - 1
      /\ c = n * MinutesPerDay + h * MinutesPerHour + i
  BY <1>1, MinuteIs
<1> HIDE DEF h, i, n
<1>3. c % MinutesPerDay = h * MinutesPerHour + i
  BY <1>2, ClockIs
<1>4. MinutesPerHour \in Nat \ {0} /\ h \in Nat
  BY <1>2, CronAssumption
<1>5. h * MinutesPerHour + i = MinutesPerHour * h + i
  BY <1>2, <1>4
<1>6. (MinutesPerHour * h + i) \div MinutesPerHour = h /\ (MinutesPerHour * h + i) % MinutesPerHour = i
  BY <1>2, <1>4, DivisionUnique
<1> QED
  BY <1>1, <1>2, <1>3, <1>5, <1>6 DEF c, n, h, i, FirstDay

\* A minute not before the first one asked for fires, by the header's reading, exactly
\* if the search would stop at its day and the loops would come to it.
LEMMA FiringIsMet ==
    ASSUME NEW s \in Specs, SpecValid(s), NEW t \in Nat, NEW d \in Nat, NEW e \in Nat,
           e \div MinutesPerDay = FirstDay(t) + d, e >= Candidate(t)
    PROVE  Fires(s, e) <=> /\ DayOk(Parse(s), FirstDay(t) + d)
                           /\ <<HourOf(e), MinuteOf(e)>> \in Firings(Parse(s), d, t)
<1> DEFINE n == e \div MinutesPerDay
           c == Parse(s)
           h == HourOf(e)
           i == MinuteOf(e)
           fh == HourOf(Candidate(t))
           fi == MinuteOf(Candidate(t))
<1>1. n \in Nat /\ h \in 0 .. HoursPerDay - 1 /\ i \in 0 .. MinutesPerHour - 1
  BY MinuteIs
<1>2. /\ Candidate(t) \in Nat /\ FirstDay(t) \in Nat
      /\ FirstDay(t) = Candidate(t) \div MinutesPerDay
      /\ LET first == Candidate(t) % MinutesPerDay
         IN  first \div MinutesPerHour = fh /\ first % MinutesPerHour = fi
  BY FirstIs
<1>3. h \in c.hour <=> Allows(s.hour, h, 0, HoursPerDay - 1)
  <2>1. s.hour \in Field /\ FieldValid(s.hour, 0, HoursPerDay - 1) /\ HoursPerDay - 1 \in Nat /\ 0 \in Nat
    BY SpecsAssumption, CronAssumption DEF SpecValid
  <2>2. c.hour = Mask(s.hour, 0, HoursPerDay - 1)
    BY DEF Parse
  <2> QED
    BY <1>1, <2>1, <2>2, FieldIsRead
<1>4. i \in c.minute <=> Allows(s.minute, i, 0, MinutesPerHour - 1)
  <2>1. /\ s.minute \in Field /\ FieldValid(s.minute, 0, MinutesPerHour - 1)
        /\ MinutesPerHour - 1 \in Nat /\ 0 \in Nat
    BY SpecsAssumption, CronAssumption DEF SpecValid
  <2>2. c.minute = Mask(s.minute, 0, MinutesPerHour - 1)
    BY DEF Parse
  <2> QED
    BY <1>1, <2>1, <2>2, FieldIsRead
<1>5. d = 0 => h > fh \/ (h = fh /\ i >= fi)
  <2> SUFFICES ASSUME d = 0 PROVE h > fh \/ (h = fh /\ i >= fi)
    OBVIOUS
  <2>1. /\ fh \in 0 .. HoursPerDay - 1 /\ fi \in 0 .. MinutesPerHour - 1
        /\ Candidate(t) = FirstDay(t) * MinutesPerDay + fh * MinutesPerHour + fi
    BY <1>2, MinuteIs
  <2>2. e = FirstDay(t) * MinutesPerDay + h * MinutesPerHour + i
    <3>1. e \div MinutesPerDay = FirstDay(t)
      BY <1>2
    <3> QED
      BY <3>1, MinuteIs
  <2>3. /\ fh \in Nat /\ h \in Nat /\ MinutesPerHour \in Nat \ {0} /\ MinutesPerDay \in Nat
        /\ fi \in Nat /\ i \in Nat
    BY <1>1, <2>1, CronAssumption DEF MinutesPerDay
  <2> HIDE DEF h, i, fh, fi
  <2>4. fh * MinutesPerHour + fi <= h * MinutesPerHour + i
    <3>1. /\ FirstDay(t) * MinutesPerDay \in Nat /\ fh * MinutesPerHour \in Nat
          /\ h * MinutesPerHour \in Nat
      BY <1>2, <2>3
    <3> QED
      BY <2>1, <2>2, <2>3, <3>1
  <2>5. fh < h \/ (fh = h /\ fi <= i)
    BY <1>1, <2>1, <2>3, <2>4, LoopOrder
  <2> QED
    BY <2>3, <2>5
<1>6. <<h, i>> \in Firings(c, d, t) <=> h \in c.hour /\ i \in c.minute
  <2> HIDE DEF h, i, fh, fi, c
  <2>1. <<h, i>> \in Firings(c, d, t) <=>
            /\ h \in c.hour /\ i \in c.minute
            /\ d = 0 => h > fh \/ (h = fh /\ i >= fi)
    BY <1>2 DEF Firings
  <2> QED
    BY <1>5, <2>1
<1>7. DayOk(c, n) <=>
               /\ Allows(s.month, MonthOf(n), 1, Months)
               /\ LET dom == Allows(s.dom, DomOf(n), 1, MaxDom)
                      dow == \/ Allows(s.dow, DowOf(n), 0, WeekLength)
                             \/ DowOf(n) = 0 /\ Allows(s.dow, WeekLength, 0, WeekLength)
                  IN  IF s.dom # <<Star>> /\ s.dow # <<Star>> THEN dom \/ dow ELSE dom /\ dow
  <2> HIDE DEF n
  <2> QED
    BY <1>1, DayIsRead
<1>8. Fires(s, e) <=> /\ Allows(s.minute, i, 0, MinutesPerHour - 1)
                      /\ Allows(s.hour, h, 0, HoursPerDay - 1)
                      /\ DayOk(c, n)
  <2> HIDE DEF c
  <2> QED
    BY <1>7, Zenon DEF Fires, HourOf, MinuteOf
<1> HIDE DEF c, h, i
<1>9. n = FirstDay(t) + d
  OBVIOUS
<1> QED
  BY <1>3, <1>4, <1>6, <1>8, <1>9 DEF c, h, i

\* The minutes of a day have a first one.
LEMMA EarliestIs ==
    ASSUME NEW S, S \subseteq Nat \X (0 .. MinutesPerHour - 1), S # {}
    PROVE  /\ Earliest(S) \in S
           /\ \A y \in S : Earliest(S)[1] < y[1] \/ (Earliest(S)[1] = y[1] /\ Earliest(S)[2] <= y[2])
<1> DEFINE Key(x) == x[1] * MinutesPerHour + x[2]
           Keys == {Key(x) : x \in S}
           R == OpToRel(<, Nat)
<1>1. MinutesPerHour \in Nat \ {0}
  BY CronAssumption
<1>2. \A x \in S : x[1] \in Nat /\ x[2] \in 0 .. MinutesPerHour - 1 /\ Key(x) \in Nat
  <2> TAKE x \in S
  <2>1. x[1] \in Nat /\ x[2] \in 0 .. MinutesPerHour - 1
    OBVIOUS
  <2>2. x[1] * MinutesPerHour \in Nat /\ x[2] \in Nat
    BY <1>1, <2>1
  <2> QED
    BY <2>1, <2>2
<1>3. Keys \in SUBSET Nat /\ Keys # {}
  BY <1>2
<1>4. IsWellFoundedOn(R, Nat) /\ \A x, y \in Nat : <<y, x>> \in R <=> y < x
  <2>1. IsWellFoundedOn(R, Nat)
    BY NatLessThanWellFounded
  <2>2. \A x, y \in Nat : <<y, x>> \in R <=> y < x
    BY DEF OpToRel
  <2> QED
    BY <2>1, <2>2
<1> HIDE DEF R
<1>5. PICK k \in Keys : \A j \in Keys : ~ (<<j, k>> \in R)
  <2> HIDE DEF Keys
  <2> QED
    BY <1>3, <1>4, WFMin
<1>6. PICK x \in S : Key(x) = k
  OBVIOUS
<1>7. ASSUME NEW y \in S PROVE x[1] < y[1] \/ (x[1] = y[1] /\ x[2] <= y[2])
  <2>1. Key(y) \in Keys /\ Key(x) \in Nat /\ Key(y) \in Nat /\ k \in Nat
    BY <1>2, <1>6
  <2>2. ~ (Key(y) < Key(x))
    <3> HIDE DEF Keys, Key
    <3> QED
      BY <1>4, <1>5, <1>6, <2>1
  <2>3. Key(x) <= Key(y)
    <3> HIDE DEF Key
    <3> QED
      BY <2>1, <2>2
  <2>4. /\ x[1] \in Nat /\ x[2] \in 0 .. MinutesPerHour - 1
        /\ y[1] \in Nat /\ y[2] \in 0 .. MinutesPerHour - 1
    BY <1>2
  <2> DEFINE h == x[1]
             i == x[2]
             g == y[1]
             j == y[2]
  <2>5. h * MinutesPerHour + i <= g * MinutesPerHour + j
    BY <2>3
  <2>6. h \in Nat /\ i \in 0 .. MinutesPerHour - 1 /\ g \in Nat /\ j \in 0 .. MinutesPerHour - 1
    BY <2>4
  <2> HIDE DEF h, i, g, j
  <2>7. h < g \/ (h = g /\ i <= j)
    BY ONLY <1>1, <2>5, <2>6, LoopOrder
  <2> QED
    BY <2>7 DEF h, i, g, j
<1>8. \E z \in S : \A y \in S : z[1] < y[1] \/ (z[1] = y[1] /\ z[2] <= y[2])
  BY <1>7
<1> QED
  BY <1>8 DEF Earliest

(***************************************************************************)
(* The invariant of AnswerIsRight: no day that was passed has a firing.    *)
(***************************************************************************)
FiresOn(d) == DayOk(Parse(spec), FirstDay(after) + d) /\ Firings(Parse(spec), d, after) # {}

SearchInv ==
    /\ spec \in Specs /\ after \in Instants /\ day \in 0 .. HorizonDays
    /\ status \in {"searching", "found", "not_found", "invalid"}
    /\ status # "invalid" => SpecValid(spec)
    /\ \A d \in 0 .. day - 1 : ~ FiresOn(d)
    /\ status = "found" =>
           FiresOn(day) /\ answer = InstantOf(Today, Earliest(Firings(Parse(spec), day, after)))
    /\ status = "not_found" => day = HorizonDays

\* It holds at first.
LEMMA SearchInvInit ==
    Init => SearchInv
<1> SUFFICES ASSUME Init PROVE SearchInv
  OBVIOUS
<1>1. 0 \in 0 .. HorizonDays /\ \A d \in 0 .. 0 - 1 : FALSE
  BY CronAssumption
<1>2. CASE SpecValid(spec)
  BY <1>1, <1>2 DEF Init, SearchInv
<1>3. CASE ~ SpecValid(spec)
  BY <1>1, <1>3 DEF Init, SearchInv
<1> QED
  BY <1>2, <1>3

\* Every step of the search keeps it.
LEMMA SearchInvStep ==
    SearchInv /\ [Next]_vars => SearchInv'
<1> SUFFICES ASSUME SearchInv, [Next]_vars
             PROVE  SearchInv'
  OBVIOUS
<1> USE DEF SearchInv
<1>0. HorizonDays \in Nat \ {0}
  BY CronAssumption
<1>1. CASE Found
  <2>1. /\ spec' = spec /\ after' = after /\ day' = day /\ status' = "found" /\ status = "searching"
        /\ FiresToday /\ answer' = InstantOf(Today, Earliest(Firings(Parse(spec), day, after)))
    BY <1>1 DEF Found
  <2>2. Today' = Today /\ \A d : FiresOn(d)' <=> FiresOn(d)
    BY <2>1 DEF Today, FiresOn
  <2>3. FiresOn(day)
    BY <2>1 DEF FiresToday, FiresOn, Today
  <2> QED
    BY <2>1, <2>2, <2>3
<1>2. CASE NextDay
  <2>1. /\ spec' = spec /\ after' = after /\ day' = day + 1 /\ status' = status /\ status = "searching"
        /\ day < HorizonDays /\ ~ FiresToday
    BY <1>2 DEF NextDay
  <2>2. \A d : FiresOn(d)' <=> FiresOn(d)
    BY <2>1 DEF FiresOn
  <2>3. ~ FiresOn(day)
    BY <2>1 DEF FiresToday, FiresOn, Today
  <2>4. \A d \in 0 .. day' - 1 : d \in 0 .. day - 1 \/ d = day
    BY <2>1
  <2>5. day' \in 0 .. HorizonDays
    BY <1>0, <2>1
  <2>6. \A d \in 0 .. day' - 1 : ~ FiresOn(d)'
    BY <2>2, <2>3, <2>4
  <2> QED
    BY <2>1, <2>5, <2>6
<1>3. CASE NotFound
  <2>1. /\ spec' = spec /\ after' = after /\ day' = day /\ status' = "not_found"
        /\ status = "searching" /\ day = HorizonDays
    BY <1>3 DEF NotFound
  <2>2. \A d : FiresOn(d)' <=> FiresOn(d)
    BY <2>1 DEF FiresOn
  <2> QED
    BY <2>1, <2>2
<1>4. CASE UNCHANGED vars
  <2>1. /\ spec' = spec /\ after' = after /\ day' = day /\ status' = status /\ answer' = answer
    BY <1>4 DEF vars
  <2>2. Today' = Today /\ \A d : FiresOn(d)' <=> FiresOn(d)
    BY <2>1 DEF Today, FiresOn
  <2> QED
    BY <2>1, <2>2
<1> QED
  BY <1>1, <1>2, <1>3, <1>4 DEF Next

\* No minute of a day that was passed fires.
LEMMA PassedDays ==
    ASSUME SearchInv, status # "invalid", NEW e \in Nat, e >= Candidate(after),
           e < (FirstDay(after) + day) * MinutesPerDay
    PROVE  ~ Fires(spec, e)
<1> DEFINE n == e \div MinutesPerDay
           f == FirstDay(after)
<1>1. after \in Nat /\ spec \in Specs /\ SpecValid(spec) /\ day \in Nat
  BY CronAssumption DEF SearchInv
<1>2. /\ Candidate(after) \in Nat /\ f \in Nat /\ f = Candidate(after) \div MinutesPerDay
  BY <1>1, FirstIs
<1>3. MinutesPerDay \in Nat \ {0}
  BY CronAssumption DEF MinutesPerDay
<1>4. n \in Nat /\ e = MinutesPerDay * n + (e % MinutesPerDay) /\ e % MinutesPerDay \in 0 .. MinutesPerDay - 1
  BY <1>3, Division
<1>5. /\ Candidate(after) = MinutesPerDay * f + (Candidate(after) % MinutesPerDay)
      /\ Candidate(after) % MinutesPerDay \in 0 .. MinutesPerDay - 1
  BY <1>2, <1>3, Division
<1> HIDE DEF n, f
<1>6. f <= n
  <2> SUFFICES ASSUME n <= f - 1 PROVE FALSE
    BY <1>2, <1>4
  <2>1. MinutesPerDay * n <= MinutesPerDay * (f - 1)
    BY <1>2, <1>3, <1>4
  <2>2. MinutesPerDay * (f - 1) = MinutesPerDay * f - MinutesPerDay
    BY <1>2, <1>3
  <2>3. MinutesPerDay * f \in Nat /\ MinutesPerDay * n \in Nat
    BY <1>2, <1>3, <1>4
  <2> QED
    BY <1>2, <1>3, <1>4, <1>5, <2>1, <2>2, <2>3
<1>7. n < f + day
  <2> SUFFICES ASSUME n >= f + day PROVE FALSE
    BY <1>1, <1>2, <1>4
  <2>1. MinutesPerDay * n >= (f + day) * MinutesPerDay
    BY <1>1, <1>2, <1>3, <1>4
  <2>2. (f + day) * MinutesPerDay \in Nat /\ MinutesPerDay * n \in Nat
    BY <1>1, <1>2, <1>3, <1>4
  <2> QED
    BY <1>3, <1>4, <2>1, <2>2 DEF f
<1> DEFINE d == n - f
<1>8. d \in 0 .. day - 1 /\ n = f + d /\ d \in Nat
  BY <1>1, <1>2, <1>4, <1>6, <1>7
<1> HIDE DEF d
<1>9. ~ FiresOn(d)
  BY <1>8 DEF SearchInv
<1> QED
  BY <1>1, <1>8, <1>9, FiringIsMet DEF n, f, FiresOn

\* NOT_FOUND is an answer only where there is nothing to find.
LEMMA NothingMissed ==
    SearchInv => NotFoundIsEmpty
<1> SUFFICES ASSUME SearchInv, status = "not_found",
                    NEW e \in Candidate(after) .. (FirstDay(after) + HorizonDays) * MinutesPerDay - 1
             PROVE  ~ Fires(spec, e)
  BY DEF NotFoundIsEmpty
<1>1. day = HorizonDays /\ after \in Nat /\ HorizonDays \in Nat
  BY CronAssumption DEF SearchInv
<1>2. Candidate(after) \in Nat /\ FirstDay(after) \in Nat
  BY <1>1, FirstIs
<1>3. (FirstDay(after) + HorizonDays) * MinutesPerDay \in Nat
  BY <1>1, <1>2, CronAssumption DEF MinutesPerDay
<1>4. e \in Nat /\ e >= Candidate(after) /\ e < (FirstDay(after) + day) * MinutesPerDay
  BY <1>1, <1>2, <1>3
<1> QED
  BY <1>4, PassedDays

\* What is found is the earliest firing there is.
LEMMA FoundIsEarliest ==
    SearchInv => EarliestFiring
<1> SUFFICES ASSUME SearchInv, status = "found"
             PROVE  LET m == answer \div TicksPerMinute
                    IN  /\ answer % TicksPerMinute = 0 /\ answer > after
                        /\ Fires(spec, m)
                        /\ \A e \in 0 .. m - 1 : e * TicksPerMinute > after => ~Fires(spec, e)
  BY Zenon DEF EarliestFiring
<1> DEFINE S == Firings(Parse(spec), day, after)
           x == Earliest(S)
           n == FirstDay(after) + day
           M == MinutesPerHour
           m == n * MinutesPerDay + x[1] * M + x[2]
<1>1. /\ after \in Nat /\ spec \in Specs /\ SpecValid(spec) /\ day \in Nat
      /\ S # {} /\ DayOk(Parse(spec), n) /\ answer = m * TicksPerMinute
  <2>1. after \in Nat /\ spec \in Specs /\ SpecValid(spec) /\ day \in Nat
    BY CronAssumption DEF SearchInv
  <2>2. FiresOn(day) /\ answer = InstantOf(Today, Earliest(Firings(Parse(spec), day, after)))
    BY DEF SearchInv
  <2>3. S # {} /\ DayOk(Parse(spec), n)
    BY <2>2 DEF FiresOn
  <2>4. answer = m * TicksPerMinute
    BY <2>2 DEF InstantOf, Today
  <2> QED
    BY <2>1, <2>3, <2>4
<1>2. S \subseteq (0 .. HoursPerDay - 1) \X (0 .. M - 1)
  BY <1>1, FiringsIn DEF Firings
<1>3. /\ x \in S
      /\ \A y \in S : x[1] < y[1] \/ (x[1] = y[1] /\ x[2] <= y[2])
  <2>1. S \subseteq Nat \X (0 .. M - 1)
    BY <1>2
  <2> HIDE DEF S
  <2> QED
    BY <1>1, <2>1, EarliestIs
<1>4. /\ Candidate(after) \in Nat /\ FirstDay(after) \in Nat
      /\ FirstDay(after) = Candidate(after) \div MinutesPerDay
      /\ LET first == Candidate(after) % MinutesPerDay
         IN  first \div M = HourOf(Candidate(after)) /\ first % M = MinuteOf(Candidate(after))
  BY <1>1, FirstIs
<1>5. /\ M \in Nat \ {0} /\ HoursPerDay \in Nat \ {0} /\ TicksPerMinute \in Nat \ {0}
      /\ MinutesPerDay \in Nat \ {0}
  BY CronAssumption DEF MinutesPerDay
<1>6. x[1] \in 0 .. HoursPerDay - 1 /\ x[2] \in 0 .. M - 1 /\ x = <<x[1], x[2]>>
  <2> HIDE DEF S, x
  <2> QED
    BY <1>2, <1>3
<1>7. n \in Nat
  BY <1>1, <1>4
<1> HIDE DEF x, n
<1>8. /\ m \in Nat /\ m \div MinutesPerDay = n /\ HourOf(m) = x[1] /\ MinuteOf(m) = x[2]
  BY <1>6, <1>7, ClockIs
<1>9. day = 0 => x[1] > HourOf(Candidate(after)) \/ (x[1] = HourOf(Candidate(after)) /\ x[2] >= MinuteOf(Candidate(after)))
  <2> SUFFICES ASSUME day = 0 PROVE x[1] > HourOf(Candidate(after)) \/ (x[1] = HourOf(Candidate(after)) /\ x[2] >= MinuteOf(Candidate(after)))
    OBVIOUS
  <2> QED
    BY <1>3, <1>4 DEF Firings
<1>10. m >= Candidate(after)
  <2> DEFINE c == Candidate(after)
             g == HourOf(c)
             j == MinuteOf(c)
             f == FirstDay(after)
             D == MinutesPerDay
  <2>1. g \in 0 .. HoursPerDay - 1 /\ j \in 0 .. M - 1 /\ c = f * D + g * M + j
    BY <1>4, MinuteIs
  <2>2. /\ g \in Nat /\ j \in Nat /\ x[1] \in Nat /\ x[2] \in Nat /\ f \in Nat
        /\ g * M \in Nat /\ x[1] * M \in Nat /\ f * D \in Nat /\ D \in Nat
    BY <1>4, <1>5, <1>6, <2>1
  <2>3. CASE day = 0
    <3>1. g < x[1] \/ (g = x[1] /\ j <= x[2])
      BY <1>9, <2>2, <2>3
    <3> HIDE DEF g, j, f, D, c
    <3>2. g * M + j <= x[1] * M + x[2]
      BY <1>5, <1>6, <2>1, <2>2, <3>1, LoopOrder
    <3>3. n = f
      BY <2>2, <2>3 DEF n, f
    <3>4. m = f * D + x[1] * M + x[2]
      BY <3>3 DEF D
    <3> QED
      BY <2>1, <2>2, <3>2, <3>4 DEF c
  <2>4. CASE day # 0
    <3>1. n >= f + 1
      BY <1>1, <2>2, <2>4 DEF n
    <3>2. n * D >= (f + 1) * D
      BY <1>7, <2>2, <3>1
    <3>3. (f + 1) * D = f * D + D
      BY <2>2
    <3>4. g * M + j <= D - 1
      <4>1. g * M <= (HoursPerDay - 1) * M
        BY <1>5, <2>1, <2>2
      <4>2. (HoursPerDay - 1) * M = D - M
        BY <1>5 DEF MinutesPerDay
      <4> HIDE DEF g, j, f, D, c
      <4>3. M \in Nat /\ j <= M - 1
        BY <1>5, <2>1
      <4> QED
        BY <2>2, <4>1, <4>2, <4>3
    <3>5. n * D \in Nat
      BY <1>7, <2>2
    <3> HIDE DEF g, j, f, D, c
    <3>6. m = n * D + x[1] * M + x[2]
      BY DEF D
    <3> QED
      BY <2>1, <2>2, <3>2, <3>3, <3>4, <3>5, <3>6 DEF c
  <2> QED
    BY <2>3, <2>4
<1>11. Fires(spec, m)
  <2>1. <<HourOf(m), MinuteOf(m)>> \in S
    BY <1>3, <1>6, <1>8 DEF x
  <2> HIDE DEF m, S
  <2>2. m \div MinutesPerDay = FirstDay(after) + day
    BY <1>8 DEF n
  <2>3. m \in Nat /\ DayOk(Parse(spec), FirstDay(after) + day)
    BY <1>1, <1>8 DEF n
  <2> QED
    BY <1>1, <1>10, <2>1, <2>2, <2>3, FiringIsMet DEF S
<1>12. ASSUME NEW e \in 0 .. m - 1, e * TicksPerMinute > after
       PROVE  ~ Fires(spec, e)
  <2>1. e \in Nat /\ e < m
    BY <1>8
  <2>2. e >= Candidate(after)
    BY <1>1, <1>5, <1>12, <2>1, CandidateIs
  <2>3. CASE e < n * MinutesPerDay
    BY <2>1, <2>2, <2>3, PassedDays DEF n
  <2>4. CASE e >= n * MinutesPerDay
    <3> DEFINE h == HourOf(e)
               i == MinuteOf(e)
               D == MinutesPerDay
               k == e \div D
    <3>1. k \in Nat /\ h \in 0 .. HoursPerDay - 1 /\ i \in 0 .. M - 1 /\ e = k * D + h * M + i
      BY <2>1, MinuteIs
    <3>2. e = D * k + (e % D) /\ e % D \in 0 .. D - 1
      BY <2>1, <1>5, Division
    <3>3. m = D * n + (m % D) /\ m % D \in 0 .. D - 1
      <4>1. m \in Nat /\ m \div D = n
        BY <1>8
      <4> HIDE DEF m
      <4> QED
        BY <1>5, <4>1, Division
    <3> HIDE DEF k, D, m
    <3>4. D \in Nat \ {0} /\ m \in Nat
      BY <1>5, <1>8 DEF D, m
    <3>5. k = n
      <4>1. ASSUME k >= n + 1 PROVE FALSE
        <5>1. D * k >= D * (n + 1)
          BY <1>7, <3>1, <3>4, <4>1
        <5>2. D * (n + 1) = D * n + D
          BY <1>7, <3>4
        <5>3. D * k \in Nat /\ D * n \in Nat
          BY <1>7, <3>1, <3>4
        <5> QED
          BY <2>1, <3>2, <3>3, <3>4, <5>1, <5>2, <5>3
      <4>2. ASSUME k <= n - 1 PROVE FALSE
        <5>1. D * k <= D * (n - 1)
          BY <1>7, <3>1, <3>4, <4>2
        <5>2. D * (n - 1) = D * n - D /\ D * n = n * D
          BY <1>7, <3>4
        <5>3. D * k \in Nat /\ D * n \in Nat
          BY <1>7, <3>1, <3>4
        <5> QED
          BY <2>1, <2>4, <3>2, <3>4, <5>1, <5>2, <5>3 DEF D
      <4> QED
        BY <1>7, <3>1, <4>1, <4>2
    <3>6. SUFFICES ASSUME Fires(spec, e) PROVE FALSE
      OBVIOUS
    <3>7. <<h, i>> \in S
      <4>1. e \div MinutesPerDay = FirstDay(after) + day
        BY <3>5 DEF n, k, D
      <4> QED
        BY <1>1, <2>1, <2>2, <3>6, <4>1, FiringIsMet
    <3> HIDE DEF h, i, S
    <3>8. x[1] < h \/ (x[1] = h /\ x[2] <= i)
      <4>1. <<h, i>>[1] = h /\ <<h, i>>[2] = i
        OBVIOUS
      <4> QED
        BY <1>3, <3>7, <4>1
    <3>9. x[1] * M + x[2] <= h * M + i
      <4>1. x[1] \in Nat /\ h \in Nat
        BY <1>6, <3>1
      <4> HIDE DEF M
      <4> QED
        BY <1>5, <1>6, <3>1, <3>8, <4>1, LoopOrder DEF M
    <3>10. m = n * D + x[1] * M + x[2] /\ e = n * D + h * M + i
      BY <3>1, <3>5 DEF m, D
    <3>11. n * D \in Nat /\ x[1] * M \in Nat /\ h * M \in Nat /\ x[2] \in Nat /\ i \in Nat
      BY <1>5, <1>6, <1>7, <3>1, <3>4
    <3> QED
      BY <2>1, <3>9, <3>10, <3>11
  <2> QED
    <3>1. n * MinutesPerDay \in Nat
      BY <1>5, <1>7
    <3> QED
      BY <2>1, <2>3, <2>4, <3>1
<1> HIDE DEF m
<1>13. answer \div TicksPerMinute = m /\ answer % TicksPerMinute = 0 /\ answer > after
  BY <1>1, <1>5, <1>8, <1>10, CandidateIs
<1> QED
  BY <1>11, <1>12, <1>13

\* What nya_cron_next answers is the first minute after its argument that the spec
\* names by the header's reading, and NOT_FOUND only if the horizon has none, for every
\* calendar, spec and instant.
THEOREM AnswerIsRightAlways ==
    Spec => []AnswerIsRight
<1>1. SearchInv => AnswerIsRight
  BY NothingMissed, FoundIsEarliest DEF AnswerIsRight
<1> QED
  BY <1>1, SearchInvInit, SearchInvStep, PTL DEF Spec

=============================================================================
