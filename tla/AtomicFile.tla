----------------------------- MODULE AtomicFile -----------------------------
(***************************************************************************)
(* nya_file_write_atomic (nyangine-std/base/base_file.c) over              *)
(* nya_filesystem_replace (base_filesystem.c): threads of one process      *)
(* replace one file, by way of a temporary beside it.  Any step may fail;  *)
(* the process may be killed and the power may go between any two steps.   *)
(* The disk keeps its promises: what was synced stays; of what was not,    *)
(* file contents and directory entries, anything may be lost.              *)
(***************************************************************************)
EXTENDS Integers, Sequences, FiniteSets

CONSTANTS
    Threads,
    Attempts,       \* NYA_FILE_ATOMIC_ATTEMPTS_MAX
    MaxNames,       \* bound: temporary names tried by one process
    MaxCrashes      \* bound

ASSUME AtomicFileAssumption ==
    /\ Attempts \in Nat \ {0} /\ MaxNames \in Nat \ {0} /\ MaxCrashes \in Nat

NoName == 0

VARIABLES
    bound,     \* the files the target was bound to since its directory was synced
    temps,     \* the temporaries: [name -> file]
    counter,   \* _nya_file_atomic_counter, plus one; the process id is the same every time
    job,       \* what each thread is doing
    stale,     \* history: temporaries a crash left
    renames,   \* history: how often the target was replaced
    acked,     \* history: the last replacement a call reported as done
    crashes

fileVars == <<bound, temps, counter, job, stale, renames, acked, crashes>>

\* A file: all of what one call wrote (or the old bytes), or less; the serial of
\* the replacement stands for the bytes.
File == [whole : BOOLEAN, synced : BOOLEAN, serial : Nat]
Job == [step : {"idle", "open", "write", "sync", "rename", "dirsync", "clean"},
        name : 0 .. MaxNames, tries : 0 .. Attempts, serial : Nat]
Idle == [step |-> "idle", name |-> NoName, tries |-> 0, serial |-> 0]
Blank == [whole |-> FALSE, synced |-> FALSE, serial |-> 0]

FileInit ==
    /\ bound = <<[whole |-> TRUE, synced |-> TRUE, serial |-> 0]>>
    /\ temps = [n \in {} |-> Idle]
    /\ counter = 1
    /\ job = [t \in Threads |-> Idle]
    /\ stale = {} /\ renames = 0 /\ acked = 0 /\ crashes = 0

Goes(t, step) == job' = [job EXCEPT ![t].step = step]
Drop(n) == [m \in DOMAIN temps \ {n} |-> temps[m]]
Mine(t) == temps[job[t].name]

Begin(t) ==
    /\ job[t].step = "idle" /\ counter <= MaxNames
    /\ job' = [job EXCEPT ![t] = [Idle EXCEPT !.step = "open"]]
    /\ UNCHANGED <<bound, temps, counter, stale, renames, acked, crashes>>

\* Exclusive: nobody else holds the name.
Creates(t) ==
    /\ counter \notin DOMAIN temps
    /\ temps' = [n \in DOMAIN temps \cup {counter} |->
                    IF n = counter THEN Blank ELSE temps[n]]
    /\ job' = [job EXCEPT ![t].step = "write", ![t].name = counter]

\* A name a dead process left is stepped over, a few times.
StepsOver(t) ==
    /\ counter \in DOMAIN temps
    /\ job' = IF job[t].tries + 1 = Attempts THEN [job EXCEPT ![t] = Idle]
              ELSE [job EXCEPT ![t].tries = @ + 1]
    /\ UNCHANGED temps

Open(t) ==
    /\ job[t].step = "open" /\ counter <= MaxNames
    /\ Creates(t) \/ StepsOver(t)
    /\ counter' = counter + 1
    /\ UNCHANGED <<bound, stale, renames, acked, crashes>>

\* Until this step the file holds part of the bytes.
Write(t) ==
    /\ job[t].step = "write"
    /\ temps' = [temps EXCEPT ![job[t].name].whole = TRUE]
    /\ Goes(t, "sync")
    /\ UNCHANGED <<bound, counter, stale, renames, acked, crashes>>

\* MUTANT of Sync: the file is closed without an fsync.
SyncCloses(t) ==
    /\ job[t].step = "sync"
    /\ Goes(t, "rename")
    /\ UNCHANGED <<bound, temps, counter, stale, renames, acked, crashes>>

Sync(t) ==
    /\ job[t].step = "sync"
    /\ temps' = [temps EXCEPT ![job[t].name].synced = TRUE]
    /\ Goes(t, "rename")
    /\ UNCHANGED <<bound, counter, stale, renames, acked, crashes>>

\* The rename is atomic for everyone looking, and not yet on the disk.
Rename(t) ==
    /\ job[t].step = "rename"
    /\ bound' = Append(bound, [Mine(t) EXCEPT !.serial = renames + 1])
    /\ temps' = Drop(job[t].name)
    /\ renames' = renames + 1
    /\ job' = [job EXCEPT ![t].step = "dirsync", ![t].serial = renames + 1]
    /\ UNCHANGED <<counter, stale, acked, crashes>>

Newest == bound[Len(bound)]

\* The directory is on the disk, and the call reports success.
SyncDirectory(t) ==
    /\ job[t].step = "dirsync"
    /\ bound' = <<Newest>>
    /\ acked' = IF job[t].serial > acked THEN job[t].serial ELSE acked
    /\ job' = [job EXCEPT ![t] = Idle]
    /\ UNCHANGED <<temps, counter, stale, renames, crashes>>

\* MUTANT of Fails: a failed sync or rename returns at once.
FailsAtOnce(t) ==
    /\ job[t].step \in {"open", "write", "sync", "rename", "dirsync"}
    /\ job' = IF job[t].step = "write" THEN [job EXCEPT ![t].step = "clean"]
              ELSE [job EXCEPT ![t] = Idle]
    /\ UNCHANGED <<bound, temps, counter, stale, renames, acked, crashes>>

\* A step returns an error: the disk is full, the directory may not be synced.
Fails(t) ==
    /\ job[t].step \in {"open", "write", "sync", "rename", "dirsync"}
    /\ job' = IF job[t].name = NoName THEN [job EXCEPT ![t] = Idle]
              ELSE [job EXCEPT ![t].step = "clean"]
    /\ UNCHANGED <<bound, temps, counter, stale, renames, acked, crashes>>

\* Already gone when only the directory sync failed.
Cleans(t) ==
    /\ job[t].step = "clean"
    /\ temps' = Drop(job[t].name)
    /\ job' = [job EXCEPT ![t] = Idle]
    /\ UNCHANGED <<bound, counter, stale, renames, acked, crashes>>

Crashes ==
    /\ crashes < MaxCrashes /\ crashes' = crashes + 1
    /\ job' = [t \in Threads |-> Idle] /\ counter' = 1
    /\ UNCHANGED <<renames, acked>>

\* The process dies: what it wrote is still in the system's caches.
Killed == /\ Crashes
          /\ stale' = DOMAIN temps /\ temps' = [n \in DOMAIN temps |-> Blank] /\ UNCHANGED bound

\* The machine dies: one of the unsynced renames, or none, was the last to reach
\* the disk, a file that was not synced holds anything, and a temporary may be
\* there though it was renamed or removed.
PowerLoss ==
    /\ Crashes
    /\ \E i \in 1 .. Len(bound) :
           bound' = <<[bound[i] EXCEPT !.whole = @ /\ bound[i].synced, !.synced = TRUE]>>
    /\ \E left \in SUBSET (DOMAIN temps \cup 1 .. counter - 1) :
           temps' = [n \in left |-> Blank] /\ stale' = left

FileNext ==
    \/ \E t \in Threads :
           \/ Begin(t) \/ Open(t) \/ Write(t) \/ Sync(t)
           \/ Rename(t) \/ SyncDirectory(t) \/ Fails(t) \/ Cleans(t)
    \/ Killed \/ PowerLoss

FileSpec == FileInit /\ [][FileNext]_fileVars

-----------------------------------------------------------------------------

FileTypeOK ==
    /\ Len(bound) > 0 /\ \A i \in 1 .. Len(bound) : bound[i] \in File
    /\ DOMAIN temps \subseteq 1 .. MaxNames /\ \A n \in DOMAIN temps : temps[n] \in File
    /\ counter \in 1 .. MaxNames + 1 /\ job \in [Threads -> Job]

\* Whatever a crash here would leave the target bound to, and what a reader sees
\* now, is the whole of what some call wrote or the old bytes, never a mix; and
\* a write that was reported as done is not undone: it is that one or a later.
OldOrNew ==
    \A i \in 1 .. Len(bound) :
        bound[i].whole /\ bound[i].synced /\ bound[i].serial >= acked

\* A write that fails removes its temporary: only those a crash left, or a call
\* still uses, are there; and no two calls use the same one.
NoLitter ==
    /\ DOMAIN temps \subseteq stale \cup {job[t].name : t \in Threads}
    /\ \A t, u \in Threads : t # u /\ job[t].name # NoName => job[t].name # job[u].name

\* A file is replaced whole or not at all, and the attempt leaves nothing behind.
ReplacedCleanly == OldOrNew /\ NoLitter

=============================================================================
