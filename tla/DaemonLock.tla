----------------------------- MODULE DaemonLock -----------------------------
(***************************************************************************)
(* The lock file of the daemon (daemon/lock.py) and the life of the        *)
(* processes that compete for it (daemon/main.py): acquire, the state      *)
(* updates of the startup, the HTTP port, the ownership watch, release.    *)
(*                                                                         *)
(* Every system call on the file is an action: the processes interleave    *)
(* between any two of them.                                                *)
(***************************************************************************)
EXTENDS Naturals, FiniteSets

CONSTANTS
    Daemons,        \* processes: each starts once, with a pid and a nonce of its own
    Nobody,         \* no file, no owner
    max_retries,    \* of acquire
    SlowWriter,     \* whether a writer may need longer than the three re-reads
    MaxCrashes,     \* bound: processes killed
    MaxStops        \* bound: SIGTERM / SIGINT

ASSUME DaemonAssumption == Nobody \notin Daemons /\ SlowWriter \in BOOLEAN
ASSUME BoundAssumption == max_retries \in Nat \ {0} /\ MaxCrashes \in Nat /\ MaxStops \in Nat

VARIABLES
    owner,      \* who created the lock file, Nobody without a file
    written,    \* the file holds its JSON
    pc,         \* where each process is
    seen,       \* the owner a process read in the file
    tries,      \* iterations of the loop of acquire
    rereads,    \* re-reads of an unreadable file
    port,       \* the process that listens on the HTTP port
    crashes, stops

vars == <<owner, written, pc, seen, tries, rereads, port, crashes, stops>>

PCs == {"off", "read", "exists", "reread", "unlink_corrupt", "check", "unlink_stale", "create",
        "write", "starting", "migrating", "warming_up", "bound", "ready", "release",
        "unlink_own", "exit"}

\* acquire has returned and the daemon has not given up its work.
Holding == {d \in Daemons : pc[d] \in {"starting", "migrating", "warming_up", "bound", "ready"}}

\* owner_alive: pid and process start time match a living process.
Alive(d) == pc[d] \notin {"off", "exit"}

TypeOK ==
    /\ owner \in Daemons \cup {Nobody}
    /\ written \in BOOLEAN
    /\ pc \in [Daemons -> PCs]
    /\ seen \in [Daemons -> Daemons \cup {Nobody}]
    /\ tries \in [Daemons -> 0 .. max_retries]
    /\ rereads \in [Daemons -> 0 .. 3]
    /\ port \in Daemons \cup {Nobody}
    /\ crashes \in 0 .. MaxCrashes
    /\ stops \in 0 .. MaxStops

\* The file is missing, or left by a daemon that was killed.
Init ==
    /\ owner \in Daemons \cup {Nobody}
    /\ written = (owner # Nobody)
    /\ pc = [d \in Daemons |-> IF d = owner THEN "exit" ELSE "off"]
    /\ seen = [d \in Daemons |-> Nobody]
    /\ tries = [d \in Daemons |-> 0]
    /\ rereads = [d \in Daemons |-> 0]
    /\ port = Nobody
    /\ crashes = 0
    /\ stops = 0

Goto(d, l) == pc' = [pc EXCEPT ![d] = l]

\* read_lock: the owner in the file, Nobody when it is missing or unreadable.
read_lock == IF written THEN owner ELSE Nobody

-----------------------------------------------------------------------------
(* acquire *)

Start(d) ==
    /\ pc[d] = "off"
    /\ Goto(d, "read")
    /\ UNCHANGED <<owner, written, seen, tries, rereads, port, crashes, stops>>

ReadLock(d) ==
    /\ pc[d] = "read"
    /\ seen' = [seen EXCEPT ![d] = read_lock]
    /\ Goto(d, IF read_lock = Nobody THEN "exists" ELSE "check")
    /\ UNCHANGED <<owner, written, tries, rereads, port, crashes, stops>>

\* self._path.exists()
Exists(d) ==
    /\ pc[d] = "exists"
    /\ Goto(d, IF owner = Nobody THEN "create" ELSE "reread")
    /\ rereads' = [rereads EXCEPT ![d] = 0]
    /\ UNCHANGED <<owner, written, seen, tries, port, crashes, stops>>

\* Three re-reads, 20 ms apart, while the file may still be being written.
Reread(d) ==
    /\ pc[d] = "reread"
    /\ rereads[d] < 3
    /\ rereads[d] = 2 /\ owner # Nobody /\ ~written => SlowWriter \/ ~Alive(owner)
    /\ rereads' = [rereads EXCEPT ![d] = @ + 1]
    /\ seen' = [seen EXCEPT ![d] = read_lock]
    /\ Goto(d, IF read_lock # Nobody THEN "check"
               ELSE IF rereads[d] = 2 THEN "unlink_corrupt" ELSE "reread")
    /\ UNCHANGED <<owner, written, tries, port, crashes, stops>>

UnlinkCorrupt(d) ==
    /\ pc[d] = "unlink_corrupt"
    /\ owner' = Nobody /\ written' = FALSE
    /\ Goto(d, "create")
    /\ UNCHANGED <<seen, tries, rereads, port, crashes, stops>>

\* A living owner ends the process (LockHeldError), a dead one is removed.
CheckOwner(d) ==
    /\ pc[d] = "check"
    /\ Goto(d, IF Alive(seen[d]) THEN "exit" ELSE "unlink_stale")
    /\ UNCHANGED <<owner, written, seen, tries, rereads, port, crashes, stops>>

\* `continue`: the next iteration, or LockHeldError after the last.
Retry(d) ==
    /\ tries' = [tries EXCEPT ![d] = @ + 1]
    /\ Goto(d, IF tries[d] + 1 = max_retries THEN "exit" ELSE "read")

\* The path is removed, whatever file it names by now.
UnlinkStale(d) ==
    /\ pc[d] = "unlink_stale"
    /\ owner' = Nobody /\ written' = FALSE
    /\ Retry(d)
    /\ UNCHANGED <<seen, rereads, port, crashes, stops>>

\* os.open with O_CREAT | O_EXCL
Create(d) ==
    /\ pc[d] = "create"
    /\ \/ owner = Nobody /\ owner' = d /\ Goto(d, "write") /\ UNCHANGED tries
       \/ owner # Nobody /\ Retry(d) /\ UNCHANGED owner
    /\ UNCHANGED <<written, seen, rereads, port, crashes, stops>>

\* The JSON goes to the file that was opened, even if its name is gone.
Write(d) ==
    /\ pc[d] = "write"
    /\ written' = (written \/ owner = d)
    /\ Goto(d, "starting")
    /\ UNCHANGED <<owner, seen, tries, rereads, port, crashes, stops>>

-----------------------------------------------------------------------------
(* The startup sequence and the run *)

\* update_state: an atomic replace of whatever is there.
UpdateState(d, from, to) ==
    /\ pc[d] = from
    /\ owner' = d /\ written' = TRUE
    /\ Goto(d, to)
    /\ UNCHANGED <<seen, tries, rereads, port, crashes, stops>>

Migrate(d) == UpdateState(d, "starting", "migrating")
WarmUp(d)  == UpdateState(d, "migrating", "warming_up")
Ready(d)   == UpdateState(d, "bound", "ready")

\* Mutant: a taken port is waited for.
StartHttpWaits(d) ==
    /\ pc[d] = "warming_up"
    /\ port = Nobody
    /\ port' = d
    /\ Goto(d, "bound")
    /\ UNCHANGED <<owner, written, seen, tries, rereads, crashes, stops>>

\* _start_http: the reconciles have run, site.start() needs the port.
StartHttp(d) ==
    /\ pc[d] = "warming_up"
    /\ \/ port = Nobody /\ port' = d /\ Goto(d, "bound")
       \/ port # Nobody /\ Goto(d, "release") /\ UNCHANGED port
    /\ UNCHANGED <<owner, written, seen, tries, rereads, crashes, stops>>

\* Mutant: only a missing file is noticed.
WatchMissingOnly(d) ==
    /\ pc[d] = "ready"
    /\ owner = Nobody
    /\ Goto(d, "release")
    /\ port' = Nobody
    /\ UNCHANGED <<owner, written, seen, tries, rereads, crashes, stops>>

\* _ownership_watch: the file is gone, unreadable or a successor's.
OwnershipWatch(d) ==
    /\ pc[d] = "ready"
    /\ read_lock # d
    /\ Goto(d, "release")
    /\ port' = Nobody
    /\ UNCHANGED <<owner, written, seen, tries, rereads, crashes, stops>>

Stop(d) ==
    /\ pc[d] = "ready"
    /\ stops < MaxStops
    /\ stops' = stops + 1
    /\ Goto(d, "release")
    /\ port' = Nobody
    /\ UNCHANGED <<owner, written, seen, tries, rereads, crashes>>

\* release: read the file, and remove it only if it is ours.
Release(d) ==
    /\ pc[d] = "release"
    /\ Goto(d, IF read_lock = d THEN "unlink_own" ELSE "exit")
    /\ UNCHANGED <<owner, written, seen, tries, rereads, port, crashes, stops>>

UnlinkOwn(d) ==
    /\ pc[d] = "unlink_own"
    /\ owner' = Nobody /\ written' = FALSE
    /\ Goto(d, "exit")
    /\ UNCHANGED <<seen, tries, rereads, port, crashes, stops>>

\* The process is killed: its file stays, its port does not.
Crash(d) ==
    /\ Alive(d)
    /\ crashes < MaxCrashes
    /\ crashes' = crashes + 1
    /\ Goto(d, "exit")
    /\ port' = IF port = d THEN Nobody ELSE port
    /\ UNCHANGED <<owner, written, seen, tries, rereads, stops>>

-----------------------------------------------------------------------------

DaemonStep(d) ==
    \/ ReadLock(d) \/ Exists(d) \/ Reread(d) \/ UnlinkCorrupt(d) \/ CheckOwner(d)
    \/ UnlinkStale(d) \/ Create(d) \/ Write(d)
    \/ Migrate(d) \/ WarmUp(d) \/ StartHttp(d) \/ Ready(d)
    \/ OwnershipWatch(d) \/ Release(d) \/ UnlinkOwn(d)

Next == \E d \in Daemons : Start(d) \/ DaemonStep(d) \/ Stop(d) \/ Crash(d)

Spec == Init /\ [][Next]_vars

-----------------------------------------------------------------------------
(* Properties *)

\* A second daemon is never there for good, although a stale file or a daemon too
\* slow for the adapters' probes lets two of them acquire the lock: whoever does
\* not own the file, or finds the port taken, steps down.
SecondDaemonStops == []<>(Cardinality(Holding) <= 1)

\* A daemon that serves is in the end the one the lock file names, with the
\* token the adapters read there, or it serves no longer.
ServerOwnsLock == \A d \in Daemons : []<>(pc[d] = "ready" => read_lock = d)
=============================================================================
