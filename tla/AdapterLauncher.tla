--------------------------- MODULE AdapterLauncher ---------------------------
(***************************************************************************)
(* The adapters (adapter/launcher.py) composed with the daemons they find  *)
(* or start (module DaemonLock).  An adapter reads the lock file, removes  *)
(* it when its owner is dead or does not answer, spawns a daemon and waits *)
(* for it; it and the daemons share the file and the HTTP port and nothing *)
(* else, and interleave between any two system calls.                      *)
(***************************************************************************)
EXTENDS DaemonLock

CONSTANTS
    Adapters,
    lock_probe_retries      \* probes of a living owner after the first

ASSUME ProbeAssumption == lock_probe_retries \in Nat \ {0}

VARIABLE adapter    \* where each adapter is, the lock it read, failed probes

allVars == <<vars, adapter>>

AdapterPCs == {"off", "cleanup", "read", "recheck", "unlink_dead", "probe", "unlink_mute",
               "spawn", "wait_lock", "wait_ready", "served", "failed"}

AdapterTypeOK ==
    adapter \in [Adapters -> [pc : AdapterPCs, lock : Daemons \cup {Nobody},
                              probes : 0 .. lock_probe_retries]]

Off == [pc |-> "off", lock |-> Nobody, probes |-> 0]

AdapterInit ==
    /\ Init
    /\ adapter = [c \in Adapters |-> Off]

At(c, l) == adapter[c].pc = l
Move(c, l) == adapter' = [adapter EXCEPT ![c].pc = l]
MoveWith(c, l, d) == adapter' = [adapter EXCEPT ![c].pc = l, ![c].lock = d]

\* ensure_daemon returns the token or raises.
End(c, l) == adapter' = [adapter EXCEPT ![c] = [Off EXCEPT !.pc = l]]

\* lock_path.unlink(missing_ok=True): the path, whatever file it names by now.
UnlinkPath ==
    /\ owner' = Nobody /\ written' = FALSE
    /\ UNCHANGED <<pc, seen, tries, rereads, port, crashes, stops>>

-----------------------------------------------------------------------------
(* ensure_daemon *)

\* _cleanup_stale_lock: the file is read and its owner found dead.
EnsureDaemon(c) ==
    /\ At(c, "off")
    /\ Move(c, IF read_lock # Nobody /\ ~Alive(read_lock) THEN "cleanup" ELSE "read")
    /\ UNCHANGED vars

\* _cleanup_stale_lock: the file is removed.
CleanupStaleLock(c) ==
    /\ At(c, "cleanup")
    /\ UnlinkPath
    /\ Move(c, "read")

\* The file is read again: no lock, a dead owner, or a living one to probe.
ReadLockAgain(c) ==
    /\ At(c, "read")
    /\ MoveWith(c, IF read_lock = Nobody THEN "spawn"
                   ELSE IF Alive(read_lock) THEN "probe" ELSE "recheck", read_lock)
    /\ UNCHANGED vars

\* "Check again for a race": a file that is still there is removed.
Recheck(c) ==
    /\ At(c, "recheck")
    /\ Move(c, IF read_lock = Nobody THEN "spawn" ELSE "unlink_dead")
    /\ UNCHANGED vars

UnlinkDead(c) ==
    /\ At(c, "unlink_dead")
    /\ UnlinkPath
    /\ Move(c, "spawn")

\* _http_probe_ok, GET /health with the token that was read: only the daemon that
\* wrote it and has the port can answer.
Answers(d) == port = d

\* _http_state
SaysReady(d) == Answers(d) /\ pc[d] = "ready"

\* The first probe and the retries; any exception counts as no answer, a timeout of a
\* daemon that has the port too.
HttpProbe(c) ==
    /\ At(c, "probe")
    /\ \/ Answers(adapter[c].lock) /\ Move(c, "wait_ready")
       \/ adapter[c].probes = lock_probe_retries /\ Move(c, "unlink_mute")
       \/ adapter[c].probes < lock_probe_retries /\ adapter' = [adapter EXCEPT ![c].probes = @ + 1]
    /\ UNCHANGED vars

\* "treating lock as stale": the owner lives, its file is removed.
UnlinkMute(c) ==
    /\ At(c, "unlink_mute")
    /\ UnlinkPath
    /\ Move(c, "spawn")

\* _spawn_daemon; with every process of the bound used, one that dies at once.
SpawnDaemon(c) ==
    /\ At(c, "spawn")
    /\ Move(c, "wait_lock")
    /\ \/ \E d \in Daemons : Start(d)
       \/ (\A d \in Daemons : pc[d] # "off") /\ UNCHANGED vars

\* _wait_for_lock: whichever living owner appears first.
WaitForLock(c) ==
    /\ At(c, "wait_lock")
    /\ read_lock # Nobody
    /\ Alive(read_lock)
    /\ MoveWith(c, "wait_ready", read_lock)
    /\ UNCHANGED vars

\* _wait_until_ready: the daemon of the token says `ready`.
WaitUntilReady(c) ==
    /\ At(c, "wait_ready")
    /\ SaysReady(adapter[c].lock)
    /\ End(c, "served")
    /\ UNCHANGED vars

\* The deadline of either wait passes.
Deadline(c) ==
    /\ At(c, "wait_lock") \/ At(c, "wait_ready")
    /\ End(c, "failed")
    /\ UNCHANGED vars

-----------------------------------------------------------------------------

AdapterStep(c) ==
    \/ CleanupStaleLock(c) \/ ReadLockAgain(c) \/ Recheck(c) \/ UnlinkDead(c) \/ HttpProbe(c)
    \/ UnlinkMute(c) \/ SpawnDaemon(c) \/ WaitForLock(c) \/ WaitUntilReady(c) \/ Deadline(c)

\* The daemons are the ones the adapters spawn.
AdapterNext ==
    \/ \E d \in Daemons : (DaemonStep(d) \/ Stop(d) \/ Crash(d)) /\ UNCHANGED adapter
    \/ \E c \in Adapters : EnsureDaemon(c) \/ AdapterStep(c)

\* Every process that runs keeps running, its 5 s watch included.
AdapterSpec ==
    /\ AdapterInit
    /\ [][AdapterNext]_allVars
    /\ \A d \in Daemons : WF_allVars(DaemonStep(d) /\ UNCHANGED adapter)
    /\ \A c \in Adapters : WF_allVars(AdapterStep(c))
=============================================================================
