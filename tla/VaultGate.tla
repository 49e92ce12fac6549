------------------------------ MODULE VaultGate ------------------------------
(***************************************************************************)
(* Which process may use the vault, and how it stops using it.             *)
(*                                                                         *)
(* A launch opens the vault's .lock file, takes its flock, proves that it  *)
(* has it and starts the API, which proves it again (and probes the        *)
(* device) before it serves.  From then on the gate of the process is ON   *)
(* until it is revoked: by a signal, or by a later proof that fails        *)
(* because the file at the path is no longer the one that is locked.       *)
(* Rechecks that overlap share one proof.                                  *)
(*                                                                         *)
(* Uploads, reads and erasures ask for a recheck, enter the registry       *)
(* (erasures do not) and then do file operations one at a time, looking at *)
(* the gate before each.  A stop seals the registry, aborts what is in it  *)
(* and waits for it, for a limited time; the lock is held until the        *)
(* process exits.                                                          *)
(*                                                                         *)
(* The kernel's part (inodes, flock, a path somebody replaces) is modelled *)
(* from how the code uses it.                                              *)
(***************************************************************************)
EXTENDS Naturals

CONSTANTS
  Process,    \* launches of the API
  Inode,      \* lock files that are ever at the path
  Work,       \* what one process can have in hand at once
  Erasure,    \* those of Work that erase: they hold no lease of the registry
  Operations, \* bound on the file operations of one piece of work
  MaxReplace, \* bound on how often somebody replaces the lock file
  NoInode, Nobody

ASSUME GateAssumption ==
  /\ Erasure \subseteq Work
  /\ Operations \in Nat
  /\ MaxReplace \in Nat
  /\ NoInode \notin Inode
  /\ Nobody \notin Process

VARIABLES
  path,     \* the inode at VAULT_DIR/.lock
  holder,   \* holder[i]: the process that has inode i's flock
  replaced, \* how often somebody replaced the lock file
  fd,       \* fd[p]: the inode open as descriptor 9
  stage,    \* how far launch p is
  gate,     \* the outcome of its VaultBootHandle, PENDING until it is done
  proof,    \* the lock facts being collected
  registry, \* its VaultFdRegistry: OPEN, or sealed and how its drain stands
  work      \* work[p][w]: where w is, and the operations it has left

vars == <<path, holder, replaced, fd, stage, gate, proof, registry, work>>

----------------------------------------------------------------------------
Stages == {"absent", "prepared", "opened", "locked", "booting", "serving",
           "closing", "exited"}
\* Processes whose kernel lock is taken.
Locked == {"locked", "booting", "serving", "closing"}
Registries == {"OPEN", "DRAINING", "DRAINED", "TIMEOUT"}

\* collectLockFacts: the path is read first, the owner of the lock after it.
NoProof == [step |-> "none", path |-> NoInode, owner |-> Nobody]
Places == {"idle", "asking", "granted", "entered", "operating", "closing", "stuck"}
Idle == [at |-> "idle", left |-> 0]

\* Mutant: the recheck only asks whether the lock is owned.
HoldsOwner(p) == proof[p].owner = p

\* decideLockProof, together with the comparison to the identity of the boot:
\* descriptor 9 is never closed or reopened, so that both are the same inode.
Holds(p) == proof[p].path = fd[p] /\ proof[p].owner = p

\* Work with a lease of the registry.
Leased(p) == {w \in Work \ Erasure :
                work[p][w].at \in {"entered", "operating", "closing", "stuck"}}
\* Work that has, or can still do, a file operation.
Using(p) == {w \in Work : work[p][w].at \in {"entered", "operating"}}

Init ==
  /\ path \in Inode \cup {NoInode}
  /\ holder = [i \in Inode |-> Nobody]
  /\ replaced = 0
  /\ fd = [p \in Process |-> NoInode]
  /\ stage = [p \in Process |-> "absent"]
  /\ gate = [p \in Process |-> "PENDING"]
  /\ proof = [p \in Process |-> NoProof]
  /\ registry = [p \in Process |-> "OPEN"]
  /\ work = [p \in Process |-> [w \in Work |-> Idle]]

----------------------------------------------------------------------------
(* The launch *)

\* Mutant: every launch makes a lock file of its own.
PrepareAnew(p) ==
  /\ stage[p] = "absent"
  /\ stage' = [stage EXCEPT ![p] = "prepared"]
  /\ \E i \in Inode : (\A q \in Process : fd[q] # i) /\ path' = i
  /\ UNCHANGED <<holder, replaced, fd, gate, proof, registry, work>>

\* The lock file is created if there is none, never replaced.
Prepare(p) ==
  /\ stage[p] = "absent"
  /\ stage' = [stage EXCEPT ![p] = "prepared"]
  /\ IF path = NoInode
     THEN \E i \in Inode : (\A q \in Process : fd[q] # i) /\ path' = i
     ELSE UNCHANGED path
  /\ UNCHANGED <<holder, replaced, fd, gate, proof, registry, work>>

\* exec 9< .lock, without creating it.
Open(p) ==
  /\ stage[p] = "prepared"
  /\ fd' = [fd EXCEPT ![p] = path]
  /\ stage' = [stage EXCEPT ![p] = IF path = NoInode THEN "exited" ELSE "opened"]
  /\ UNCHANGED <<path, holder, replaced, gate, proof, registry, work>>

\* flock --exclusive --nonblock 9
Flock(p) ==
  /\ stage[p] = "opened"
  /\ IF holder[fd[p]] = Nobody
     THEN /\ holder' = [holder EXCEPT ![fd[p]] = p]
          /\ stage' = [stage EXCEPT ![p] = "locked"]
          /\ UNCHANGED fd
     ELSE /\ stage' = [stage EXCEPT ![p] = "exited"]
          /\ fd' = [fd EXCEPT ![p] = NoInode]
          /\ UNCHANGED holder
  /\ UNCHANGED <<path, replaced, gate, proof, registry, work>>

\* What the kernel does when a process is gone: its lock is free, and what it
\* had in hand is finished or never will be.
Gone(p) ==
  /\ stage' = [stage EXCEPT ![p] = "exited"]
  /\ holder' = [i \in Inode |-> IF holder[i] = p THEN Nobody ELSE holder[i]]
  /\ fd' = [fd EXCEPT ![p] = NoInode]
  /\ proof' = [proof EXCEPT ![p] = NoProof]
  /\ work' = [work EXCEPT ![p] = [w \in Work |-> Idle]]
  /\ UNCHANGED <<path, replaced, gate, registry>>

\* The launcher proves the lock once more, migrates, and becomes the API, whose
\* gate starts its own proof at once; or it gives up.
Launch(p) ==
  /\ stage[p] = "locked"
  /\ path = fd[p]
  /\ stage' = [stage EXCEPT ![p] = "booting"]
  /\ proof' = [proof EXCEPT ![p].step = "path"]
  /\ UNCHANGED <<path, holder, replaced, fd, gate, registry, work>>
GiveUp(p) == stage[p] = "locked" /\ Gone(p)

----------------------------------------------------------------------------
(* The gate *)

\* registry.shutdown: no entry from now on, every entry is aborted; it is
\* drained at once if there is none.
Sealed(p) == IF registry[p] # "OPEN" THEN registry[p]
             ELSE IF Leased(p) = {} THEN "DRAINED" ELSE "DRAINING"

\* Whoever waits for a recheck is answered when the gate stops.
Refused(p) == [w \in Work |-> IF work[p][w].at = "asking" THEN Idle ELSE work[p][w]]

\* settle and terminate with OFF.  The registry listens to the stop.
Stop(p) ==
  /\ gate' = [gate EXCEPT ![p] = "OFF"]
  /\ registry' = [registry EXCEPT ![p] = Sealed(p)]
  /\ work' = [work EXCEPT ![p] = Refused(p)]

\* settle with ON: whoever is first decides.
Settle(p) == gate' = [gate EXCEPT ![p] = IF @ = "PENDING" THEN "ON" ELSE @]

\* isSettled, and current: what was collected too late decides nothing.
Collecting(p) == IF stage[p] = "booting" THEN gate[p] = "PENDING" ELSE gate[p] = "ON"

ReadPath(p) ==
  /\ proof[p].step = "path"
  /\ proof' = [proof EXCEPT ![p] = IF Collecting(p)
                                   THEN [@ EXCEPT !.step = "owner", !.path = path]
                                   ELSE NoProof]
  /\ UNCHANGED <<path, holder, replaced, fd, stage, gate, registry, work>>

ReadOwner(p) ==
  /\ proof[p].step = "owner"
  /\ proof' = [proof EXCEPT ![p] = IF Collecting(p)
                                   THEN [@ EXCEPT !.step = "decide",
                                                  !.owner = holder[fd[p]]]
                                   ELSE NoProof]
  /\ UNCHANGED <<path, holder, replaced, fd, stage, gate, registry, work>>

\* The boot's proof: the root, the sync and the free space of the device are
\* probed after it.
Decide(p) ==
  /\ proof[p].step = "decide" /\ stage[p] = "booting"
  /\ IF ~Collecting(p)
     THEN proof' = [proof EXCEPT ![p] = NoProof] /\ UNCHANGED <<gate, registry, work>>
     ELSE IF Holds(p)
     THEN proof' = [proof EXCEPT ![p].step = "device"] /\ UNCHANGED <<gate, registry, work>>
     ELSE proof' = [proof EXCEPT ![p] = NoProof] /\ Stop(p)
  /\ UNCHANGED <<path, holder, replaced, fd, stage>>

Probe(p) ==
  /\ proof[p].step = "device"
  /\ proof' = [proof EXCEPT ![p] = NoProof]
  /\ Settle(p)
  /\ UNCHANGED <<path, holder, replaced, fd, stage, registry, work>>

\* A recheck's proof answers everybody who joined it.
Answer(p) ==
  /\ proof[p].step = "decide" /\ stage[p] # "booting"
  /\ proof' = [proof EXCEPT ![p] = NoProof]
  /\ IF ~Collecting(p)
     THEN UNCHANGED <<gate, registry, work>>
     ELSE IF Holds(p)
     THEN /\ work' = [work EXCEPT ![p] =
                        [w \in Work |-> IF work[p][w].at = "asking"
                                        THEN [work[p][w] EXCEPT !.at = "granted"]
                                        ELSE work[p][w]]]
          /\ UNCHANGED <<gate, registry>>
     ELSE Stop(p)
  /\ UNCHANGED <<path, holder, replaced, fd, stage>>

\* A system call of the proof or of the probes fails, or says no.
CheckFails(p) ==
  /\ proof[p].step # "none"
  /\ proof' = [proof EXCEPT ![p] = NoProof]
  /\ IF Collecting(p) THEN Stop(p) ELSE UNCHANGED <<gate, registry, work>>
  /\ UNCHANGED <<path, holder, replaced, fd, stage>>

\* VAULT_BOOT_DEADLINE_MS, whatever the kernel is doing.
BootTimeout(p) ==
  /\ stage[p] = "booting" /\ gate[p] = "PENDING"
  /\ Stop(p)
  /\ UNCHANGED <<path, holder, replaced, fd, stage, proof>>

\* bootstrap: it listens only once the gate is ON.
Serve(p) ==
  /\ stage[p] = "booting" /\ gate[p] # "PENDING"
  /\ stage' = [stage EXCEPT ![p] = IF gate[p] = "ON" THEN "serving" ELSE "closing"]
  /\ UNCHANGED <<path, holder, replaced, fd, gate, proof, registry, work>>

\* SIGTERM, at any time after the launch.
Terminate(p) ==
  /\ stage[p] \in {"booting", "serving"}
  /\ stage' = [stage EXCEPT ![p] = "closing"]
  /\ IF gate[p] = "OFF" THEN UNCHANGED <<gate, registry, work>> ELSE Stop(p)
  /\ UNCHANGED <<path, holder, replaced, fd, proof>>

----------------------------------------------------------------------------
(* Work *)

Move(p, w, to) == work' = [work EXCEPT ![p][w] = to]

Ask(p, w) ==
  /\ stage[p] = "serving" /\ gate[p] = "ON"
  /\ work[p][w].at = "idle"
  /\ \E n \in 1..Operations : Move(p, w, [at |-> "asking", left |-> n])
  /\ proof' = [proof EXCEPT ![p].step = IF @ = "none" THEN "path" ELSE @]
  /\ UNCHANGED <<path, holder, replaced, fd, stage, gate, registry>>

\* VaultFdRegistry.enter; an erasure only looks at the gate.
Enter(p, w) ==
  /\ work[p][w].at = "granted"
  /\ Move(p, w, IF gate[p] = "ON" /\ (w \in Erasure \/ registry[p] = "OPEN")
                THEN [work[p][w] EXCEPT !.at = "entered"] ELSE Idle)
  /\ UNCHANGED <<path, holder, replaced, fd, stage, gate, proof, registry>>

\* check() before every operation.
Begin(p, w) ==
  /\ work[p][w].at = "entered"
  /\ IF gate[p] = "ON" /\ work[p][w].left > 0
     THEN Move(p, w, [at |-> "operating", left |-> work[p][w].left - 1])
     ELSE Move(p, w, IF w \in Erasure THEN Idle ELSE [work[p][w] EXCEPT !.at = "closing"])
  /\ UNCHANGED <<path, holder, replaced, fd, stage, gate, proof, registry>>

\* The operation ends, well or not.
End(p, w) ==
  /\ work[p][w].at = "operating"
  /\ Move(p, w, [work[p][w] EXCEPT !.at = "entered"])
  /\ UNCHANGED <<path, holder, replaced, fd, stage, gate, proof, registry>>

\* The file is closed and the lease exits; a file that may still be open keeps
\* its lease.
Close(p, w) ==
  /\ work[p][w].at = "closing"
  /\ Move(p, w, Idle) \/ Move(p, w, [work[p][w] EXCEPT !.at = "stuck"])
  /\ UNCHANGED <<path, holder, replaced, fd, stage, gate, proof, registry>>

\* Mutant: a file that is being closed is not waited for.
DrainUnclosed(p) ==
  /\ registry[p] = "DRAINING" /\ Using(p) \subseteq Erasure
  /\ registry' = [registry EXCEPT ![p] = "DRAINED"]
  /\ UNCHANGED <<path, holder, replaced, fd, stage, gate, proof, work>>

Drain(p) ==
  /\ registry[p] = "DRAINING" /\ Leased(p) = {}
  /\ registry' = [registry EXCEPT ![p] = "DRAINED"]
  /\ UNCHANGED <<path, holder, replaced, fd, stage, gate, proof, work>>

\* Mutant: the drain has no timeout.
DrainTimeoutNever(p) ==
  /\ registry[p] = "DRAINING" /\ Leased(p) = {}
  /\ registry' = [registry EXCEPT ![p] = "TIMEOUT"]
  /\ UNCHANGED <<path, holder, replaced, fd, stage, gate, proof, work>>

DrainTimeout(p) ==
  /\ registry[p] = "DRAINING"
  /\ registry' = [registry EXCEPT ![p] = "TIMEOUT"]
  /\ UNCHANGED <<path, holder, replaced, fd, stage, gate, proof, work>>

\* onModuleDestroy waits for the registry.
Exit(p) == stage[p] = "closing" /\ registry[p] \in {"DRAINED", "TIMEOUT"} /\ Gone(p)

Crash(p) == stage[p] \in {"prepared", "opened", "locked", "booting", "serving", "closing"}
            /\ Gone(p)

----------------------------------------------------------------------------
\* Somebody removes the lock file, or puts another one in its place.
Replace ==
  /\ replaced < MaxReplace
  /\ \E i \in (Inode \cup {NoInode}) \ {path} : path' = i
  /\ replaced' = replaced + 1
  /\ UNCHANGED <<holder, fd, stage, gate, proof, registry, work>>

Reads(p) == ReadPath(p) \/ ReadOwner(p) \/ Decide(p) \/ Probe(p) \/ Answer(p)
Proceeds(p, w) == Enter(p, w) \/ Begin(p, w) \/ End(p, w) \/ Close(p, w)
Stops(p) == BootTimeout(p) \/ Serve(p) \/ DrainTimeout(p) \/ Exit(p)

Next ==
  \/ \E p \in Process :
       \/ Prepare(p) \/ Open(p) \/ Flock(p) \/ Launch(p) \/ GiveUp(p)
       \/ ReadPath(p) \/ ReadOwner(p) \/ Decide(p) \/ Probe(p) \/ Answer(p)
       \/ CheckFails(p) \/ BootTimeout(p) \/ Serve(p) \/ Terminate(p)
       \/ Drain(p) \/ DrainTimeout(p) \/ Exit(p) \/ Crash(p)
       \/ \E w \in Work :
            Ask(p, w) \/ Enter(p, w) \/ Begin(p, w) \/ End(p, w) \/ Close(p, w)
  \/ Replace

Spec == Init /\ [][Next]_vars

\* Timers fire and what they resume goes on.  Nothing is said of the kernel.
TimerSpec == Spec /\ \A p \in Process : WF_vars(BootTimeout(p)) /\ WF_vars(Serve(p))
                                        /\ WF_vars(DrainTimeout(p)) /\ WF_vars(Exit(p))
\* The kernel answers as well.
KernelAnswers ==
  \A p \in Process : WF_vars(Reads(p)) /\ \A w \in Work : WF_vars(Proceeds(p, w))

----------------------------------------------------------------------------
TypeOK ==
  /\ path \in Inode \cup {NoInode}
  /\ holder \in [Inode -> Process \cup {Nobody}]
  /\ replaced \in 0..MaxReplace
  /\ fd \in [Process -> Inode \cup {NoInode}]
  /\ stage \in [Process -> Stages]
  /\ gate \in [Process -> {"PENDING", "ON", "OFF"}]
  /\ proof \in [Process -> [step : {"none", "path", "owner", "decide", "device"},
                            path : Inode \cup {NoInode}, owner : Process \cup {Nobody}]]
  /\ registry \in [Process -> Registries]
  /\ work \in [Process -> [Work -> [at : Places, left : 0..Operations]]]

\* Two processes never use the vault at the same time, an operation that is
\* still in the kernel when its process stops included, as long as nobody
\* replaces the lock file: launches, deploys and crashes in any order.
SoleUser ==
  \A p, q \in Process : Using(p) # {} /\ Using(q) # {} /\ p # q => replaced > 0

\* A gate that stopped stays stopped, whatever probe, proof or timer answers
\* later, and no process goes back to PENDING.
StopIsFinal == [][\A p \in Process : gate[p] # "PENDING" => gate'[p] \in {gate[p], "OFF"}]_vars

\* When the gate is OFF, the registry lets nobody in any more and nobody waits
\* for a recheck that may hang.
StoppedIsSealed ==
  \A p \in Process : gate[p] = "OFF" =>
    /\ registry[p] # "OPEN"
    /\ \A w \in Work : work[p][w].at # "asking"

\* DRAINED is true when it is reported and for ever after: no upload and no
\* read has, or gets, a file of the vault.
DrainedIsQuiet == \A p \in Process : registry[p] = "DRAINED" => Leased(p) = {}

\* A boot is decided and a process that was told to stop exits, even when the
\* kernel never answers.
BootIsDecided == \A p \in Process : stage[p] = "booting" ~> stage[p] # "booting"
CloseEnds == \A p \in Process : stage[p] = "closing" ~> stage[p] = "exited"

\* As long as the kernel answers, a process whose lock file was replaced for good
\* falls silent: what it had in hand ends, and whatever comes next finds the
\* other file first.
ReplacedFallsSilent ==
  KernelAnswers => \A p \in Process : <>[](path # fd[p]) => <>[](Using(p) = {})

\* A process that stopped using the vault neither lets work in nor leaves it behind.
StoppedIsQuiet == StoppedIsSealed /\ DrainedIsQuiet

\* A process neither hangs in its boot nor in its end.
EndsAreReached == BootIsDecided /\ CloseEnds
=============================================================================
