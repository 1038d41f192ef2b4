---------------------------- MODULE DurableLease ----------------------------
(***************************************************************************)
(* The lease on the durable world (runtime_authority.py,                   *)
(* DurableStateLease) and the processes that take it: the persistent       *)
(* runtime (runtime.py), which hydrates once and then writes snapshot      *)
(* after snapshot, and the one-shot cic-self (app.py), which writes one.   *)
(* Any number of them start, compete, crash and start again.               *)
(*                                                                         *)
(* A process is given the directory entry of the snapshot.  The lock file  *)
(* and the temporary file live beside it.  An entry may be a symbolic link *)
(* to another one: resolving and reading follow it, renaming over it does  *)
(* not.                                                                    *)
(***************************************************************************)
CONSTANTS
  Proc,         \* processes
  Entry,        \* directory entries that name a snapshot
  LinkAtStart,  \* where each entry points at first: to itself if no symlink
  Fact,         \* the observations the processes may make
  NoProc        \* nobody

ASSUME LinkAssumption ==
  /\ LinkAtStart \in [Entry -> Entry]
  /\ \A e \in Entry : LinkAtStart[LinkAtStart[e]] = LinkAtStart[e]
ASSUME NoProcAssumption == NoProc \notin Proc

VARIABLES
  pc,       \* where each process is
  path,     \* the entry each process was given
  lockKey,  \* the entry beside which each process expects its lock file
  mem,      \* the observations in the world each process holds in memory
  flock,    \* the process that holds the lock on each lock file
  record,   \* the owner record in each lock file; NoProc when it is empty
  link,     \* where each entry points
  file,     \* the observations in the snapshot stored at each entry
  tmp       \* the observations in the temporary file beside each entry

vars == <<pc, path, lockKey, mem, flock, record, link, file, tmp>>

\* "marking": the lock is held, the owner record is not yet written.  "held":
\* acquire has returned.  "live": hydrated.  "pending": the temporary file is
\* written and not yet renamed.
ProcState == {"idle", "locking", "marking", "held", "live", "pending"}

Leased(p) == pc[p] \in {"marking", "held", "live", "pending"}

TypeOK ==
  /\ pc \in [Proc -> ProcState]
  /\ path \in [Proc -> Entry]
  /\ lockKey \in [Proc -> Entry]
  /\ mem \in [Proc -> SUBSET Fact]
  /\ flock \in [Entry -> Proc \union {NoProc}]
  /\ record \in [Entry -> Proc \union {NoProc}]
  /\ link \in [Entry -> Entry]
  /\ file \in [Entry -> SUBSET Fact]
  /\ tmp \in [Entry -> SUBSET Fact]

-----------------------------------------------------------------------------
Goto(p, from, to) == pc[p] = from /\ pc' = [pc EXCEPT ![p] = to]

\* DurableStateLease.__init__: the lock target is resolved here, once.
Start(p, e) ==
  /\ Goto(p, "idle", "locking")
  /\ path' = [path EXCEPT ![p] = e]
  /\ lockKey' = [lockKey EXCEPT ![p] = link[e]]
  /\ UNCHANGED <<mem, flock, record, link, file, tmp>>

\* Slip: a shared lock, which another process does not keep out.
LockShared(p) ==
  /\ Goto(p, "locking", "marking")
  /\ flock' = [flock EXCEPT ![lockKey[p]] = p]
  /\ UNCHANGED <<path, lockKey, mem, record, link, file, tmp>>

\* acquire: open without truncating, flock without waiting.
Lock(p) ==
  /\ flock[lockKey[p]] = NoProc
  /\ Goto(p, "locking", "marking")
  /\ flock' = [flock EXCEPT ![lockKey[p]] = p]
  /\ UNCHANGED <<path, lockKey, mem, record, link, file, tmp>>

\* Slip: the lock file is opened for writing, which empties it.
RefuseAndTruncate(p) ==
  /\ flock[lockKey[p]] # NoProc
  /\ Goto(p, "locking", "idle")
  /\ record' = [record EXCEPT ![lockKey[p]] = NoProc]
  /\ UNCHANGED <<path, lockKey, mem, flock, link, file, tmp>>

\* BlockingIOError: the owner record is read for the message, and the process
\* ends with DurableStateLeaseError.
Refuse(p) ==
  /\ flock[lockKey[p]] # NoProc
  /\ Goto(p, "locking", "idle")
  /\ UNCHANGED <<path, lockKey, mem, flock, record, link, file, tmp>>

Mark(p) ==
  /\ Goto(p, "marking", "held")
  /\ record' = [record EXCEPT ![lockKey[p]] = p]
  /\ UNCHANGED <<path, lockKey, mem, flock, link, file, tmp>>

\* The lock goes with the descriptor: closed by release, dropped with the
\* handle when acquire raises, or taken back by the kernel when the process
\* dies.  The lock file and what it says stay.
Unlocked(p) ==
  flock' = [e \in Entry |-> IF flock[e] = p THEN NoProc ELSE flock[e]]

\* The record cannot be written: acquire raises before it stores the handle.
MarkFails(p) ==
  /\ Goto(p, "marking", "idle")
  /\ Unlocked(p)
  /\ \E left \in {NoProc, record[lockKey[p]]} :
        record' = [record EXCEPT ![lockKey[p]] = left]
  /\ UNCHANGED <<path, lockKey, mem, link, file, tmp>>

\* hydrate_json reads through a link.
Hydrate(p) ==
  /\ Goto(p, "held", "live")
  /\ mem' = [mem EXCEPT ![p] = file[link[path[p]]]]
  /\ UNCHANGED <<path, lockKey, flock, record, link, file, tmp>>

\* Slip: a batch is stored as one member instead of being merged.
ObserveNested(p, f) ==
  /\ pc[p] \in {"live", "pending"}
  /\ mem' = [mem EXCEPT ![p] = @ \union {{f}}]
  /\ UNCHANGED <<pc, path, lockKey, flock, record, link, file, tmp>>

\* The world in memory grows, also while a snapshot is being written.
Observe(p, f) ==
  /\ pc[p] \in {"live", "pending"}
  /\ mem' = [mem EXCEPT ![p] = @ \union {f}]
  /\ UNCHANGED <<pc, path, lockKey, flock, record, link, file, tmp>>

\* Slip: a temporary file left by a crash is taken for the one just written.
WriteUnlessPresent(p) ==
  /\ Goto(p, "live", "pending")
  /\ tmp' = IF tmp[path[p]] = {} THEN [tmp EXCEPT ![path[p]] = mem[p]] ELSE tmp
  /\ UNCHANGED <<path, lockKey, mem, flock, record, link, file>>

\* write_json, first half; the name of the temporary file is not unique.
Write(p) ==
  /\ Goto(p, "live", "pending")
  /\ tmp' = [tmp EXCEPT ![path[p]] = mem[p]]
  /\ UNCHANGED <<path, lockKey, mem, flock, record, link, file>>

\* write_json, second half: after the rename the entry is a regular file.
Rename(p) ==
  /\ Goto(p, "pending", "live")
  /\ file' = [file EXCEPT ![path[p]] = tmp[path[p]]]
  /\ link' = [link EXCEPT ![path[p]] = path[p]]
  /\ tmp' = [tmp EXCEPT ![path[p]] = {}]
  /\ UNCHANGED <<path, lockKey, mem, flock, record>>

\* Orderly end, or an exception while constructing the context.
Release(p) ==
  /\ pc[p] \in {"held", "live"}
  /\ pc' = [pc EXCEPT ![p] = "idle"]
  /\ Unlocked(p)
  /\ mem' = [mem EXCEPT ![p] = {}]
  /\ UNCHANGED <<path, lockKey, record, link, file, tmp>>

Crash(p) ==
  /\ pc[p] # "idle"
  /\ pc' = [pc EXCEPT ![p] = "idle"]
  /\ Unlocked(p)
  /\ mem' = [mem EXCEPT ![p] = {}]
  /\ UNCHANGED <<path, lockKey, record, link, file, tmp>>

-----------------------------------------------------------------------------
Init ==
  /\ pc = [p \in Proc |-> "idle"]
  /\ path \in [Proc -> Entry]
  /\ lockKey = path
  /\ mem = [p \in Proc |-> {}]
  /\ flock = [e \in Entry |-> NoProc]
  /\ record = [e \in Entry |-> NoProc]
  /\ link = LinkAtStart
  /\ file = [e \in Entry |-> {}]
  /\ tmp = [e \in Entry |-> {}]

Step(p) ==
  \/ \E e \in Entry : Start(p, e)
  \/ Lock(p) \/ Refuse(p) \/ Mark(p) \/ MarkFails(p)
  \/ Hydrate(p) \/ (\E f \in Fact : Observe(p, f))
  \/ Write(p) \/ Rename(p) \/ Release(p) \/ Crash(p)

Next == \E p \in Proc : Step(p)

Spec == Init /\ [][Next]_vars

-----------------------------------------------------------------------------
\* While a process has the lease, the record in its lock file names it; a
\* process that was refused in the meantime has not touched it.
HolderIsOnRecord ==
  \A p \in Proc :
    pc[p] \in {"held", "live", "pending"} => record[lockKey[p]] = p

\* A snapshot about to be renamed is the process's own, whatever a crashed
\* predecessor left under the same temporary name, and it drops nothing of
\* the snapshot it replaces.
PendingWriteIsOwn ==
  \A p \in Proc : pc[p] = "pending" =>
    /\ tmp[path[p]] \subseteq mem[p]
    /\ file[path[p]] \subseteq tmp[path[p]]

\* Each snapshot is a durable world with a single writer that loses nothing.
Embodied == INSTANCE Embodiment
              WITH World <- Entry, NoOwner <- NoProc,
                   owner <- flock, world <- file
EmbodimentSpec == Embodied!Spec

\* runtime_authority.py:143-144: however the snapshot is spelled, two writers
\* never have the lease of the same durable embodiment at once.
OneWriterHoweverSpelled ==
  \A p, q \in Proc :
    Leased(p) /\ Leased(q) /\ p # q => path[p] # path[q]
=============================================================================
