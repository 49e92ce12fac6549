------------------------------ MODULE Quiesce ------------------------------
(***************************************************************************)
(* A migration-recovery window.  The API is stopped; the machine runs a    *)
(* watchdog instead, and operators publish commands for the database       *)
(* through op-wrap.  The watchdog claims a command and starts a supervisor *)
(* that runs it as a chain of processes, one known process group, under a  *)
(* time limit.  At an absolute deadline, when disarmed, or after a restart *)
(* of the machine the watchdog brings Node back.  Node and a chain never   *)
(* share the database: each runs under the same file lock, and a lock that *)
(* was inherited is held until the last process that has it is gone.       *)
(*                                                                         *)
(* One tick of the clock is longer than the polling interval and the short *)
(* sleeps of both scripts: what is due happens before the clock goes on.   *)
(***************************************************************************)
EXTENDS Integers, Sequences

CONSTANTS
  Clients,                                        \* sessions that run op-wrap
  TTL, OpTimeout, KillAfter, Margin, LockWait,    \* QUIESCE_* settings
  Commands,                                       \* how many processes each action runs in turn
  MaxTime, MaxRequests, MaxFaults                 \* bounds of the model

Absent == 0
Files == {"RUN", "RUN.active", "REQUEST", "REQUEST.active", "DISARM"}
Requests == 1..MaxRequests
Actions == {"dryrun", "apply"}
Faults == {"machine", "watchdog", "supervisor", "kill"}
Members == {"leader", "child"}  \* sh, timeout and op-wrap __execute; the process it waits for

ASSUME QuiesceAssumption ==
  /\ {TTL, OpTimeout, KillAfter, Margin, LockWait} \subseteq Nat \ {0}
  /\ {MaxTime, MaxRequests, MaxFaults} \subseteq Nat
  /\ Commands \in [Actions -> Nat \ {0}]

VARIABLES
  now, deadline,    \* the clock; the deadline on the volume, Absent before it is written
  file,             \* the files of the volume; each holds the request it belongs to
  asked,            \* history: requests in the order they were asked for
  pointer,          \* manifest.current: the dry run whose manifest it names
  client,           \* op-wrap processes
  watchdog,         \* pc, since, and whether it waits for a supervisor
  sup,              \* the supervisor: pc and since
  group,            \* living processes of the chain
  job,              \* what the chain does: request, command, start
  faults,           \* how often the machine restarted, a process died, or a kill failed
  acked, settled, ran, complete, restored   \* history

clientVars == <<asked, client, acked>>
chainVars == <<group, job, ran, complete, pointer>>
vars == <<now, deadline, file, asked, pointer, client, watchdog, sup, group, job, faults,
          acked, settled, ran, complete, restored>>

Idle == [pc |-> "idle", id |-> Absent, next |-> 0]
NoJob == [id |-> Absent, command |-> 0, started |-> 0]

Init ==
  /\ now = 0 /\ deadline = Absent /\ file = [f \in Files |-> Absent]
  /\ asked = <<>> /\ pointer = Absent /\ client = [c \in Clients |-> Idle]
  /\ watchdog = [pc |-> "off", since |-> 0, waits |-> FALSE]
  /\ sup = [pc |-> "none", since |-> 0] /\ group = {} /\ job = NoJob /\ faults = [f \in Faults |-> 0]
  /\ acked = {} /\ settled = {} /\ ran = {} /\ complete = {} /\ restored = FALSE

(* The lock belongs to an open file: the supervisor opens it, its chain    *)
(* inherits it, and Node is the watchdog itself after exec.                *)
SupHolds == sup.pc \in {"locked", "waiting", "grace", "killed", "stuck"}

\* Mutant: a process of the chain does not inherit the lock.
BusySupervisor == SupHolds \/ watchdog.pc = "node"

Busy == SupHolds \/ group # {} \/ watchdog.pc = "node"

-----------------------------------------------------------------------------
(* op-wrap                                                                 *)

Checks == <<"RUN", "RUN.active", "REQUEST", "REQUEST.active">>

(* The manifest of an apply is the one that the pointer names now.         *)
Ask(c, action) ==
  /\ client[c].pc = "idle" /\ deadline # Absent /\ Len(asked) < MaxRequests
  /\ action = "apply" => pointer # Absent
  /\ LET id == Len(asked) + 1 IN
       /\ asked' = Append(asked, [action |-> action, manifest |-> IF action = "apply" THEN pointer ELSE id])
       /\ client' = [client EXCEPT ![c] = [pc |-> "waiting", id |-> id, next |-> 0]]
  /\ UNCHANGED <<now, deadline, file, watchdog, sup, chainVars, faults, acked, settled, restored>>

\* Mutant: publishing is not serialized.
PublishUnlocked(c) ==
  /\ client[c].pc = "waiting"
  /\ client' = [client EXCEPT ![c].pc = "checking", ![c].next = 1]
  /\ UNCHANGED <<now, deadline, file, asked, watchdog, sup, chainVars, faults, acked, settled, restored>>

PublishLock(c) ==
  /\ client[c].pc = "waiting" /\ \A d \in Clients : client[d].pc \in {"idle", "waiting"}
  /\ client' = [client EXCEPT ![c].pc = "checking", ![c].next = 1]
  /\ UNCHANGED <<now, deadline, file, asked, watchdog, sup, chainVars, faults, acked, settled, restored>>

CheckFile(c) ==
  /\ client[c].pc = "checking"
  /\ client' = [client EXCEPT ![c] =
       IF file[Checks[@.next]] # Absent THEN Idle
       ELSE IF @.next = Len(Checks) THEN [@ EXCEPT !.pc = "request"] ELSE [@ EXCEPT !.next = client[c].next + 1]]
  /\ UNCHANGED <<now, deadline, file, asked, watchdog, sup, chainVars, faults, acked, settled, restored>>

PutRequest(c) ==
  /\ client[c].pc = "request"
  /\ file' = [file EXCEPT !["REQUEST"] = client[c].id]
  /\ client' = [client EXCEPT ![c].pc = "run"]
  /\ UNCHANGED <<now, deadline, asked, watchdog, sup, chainVars, faults, acked, settled, restored>>

PutRun(c) ==
  /\ client[c].pc = "run"
  /\ file' = [file EXCEPT !["RUN"] = client[c].id]
  /\ client' = [client EXCEPT ![c] = Idle] /\ acked' = acked \cup {client[c].id}
  /\ UNCHANGED <<now, deadline, asked, watchdog, sup, chainVars, faults, settled, restored>>

(* An error before RUN exists takes the request back.                      *)
PutRunFails(c) ==
  /\ client[c].pc = "run"
  /\ file' = [file EXCEPT !["REQUEST"] = Absent]
  /\ client' = [client EXCEPT ![c] = Idle]
  /\ UNCHANGED <<now, deadline, asked, watchdog, sup, chainVars, faults, acked, settled, restored>>

ClientDies(c) ==
  /\ client[c].pc # "idle"
  /\ client' = [client EXCEPT ![c] = Idle]
  /\ UNCHANGED <<now, deadline, file, asked, watchdog, sup, chainVars, faults, acked, settled, restored>>

Disarm ==
  /\ deadline # Absent /\ file["DISARM"] = Absent
  /\ file' = [file EXCEPT !["DISARM"] = 1]
  /\ UNCHANGED <<now, deadline, clientVars, watchdog, sup, chainVars, faults, settled, restored>>

Strikes(fault) ==
  /\ faults["machine"] + faults["watchdog"] + faults["supervisor"] + faults["kill"] < MaxFaults
  /\ faults' = [faults EXCEPT ![fault] = @ + 1]

-----------------------------------------------------------------------------
(* The watchdog                                                            *)

Open == file["DISARM"] = Absent /\ now < deadline
Goto(pc) == [watchdog EXCEPT !.pc = pc]
Restoring == [watchdog EXCEPT !.pc = "restore", !.since = now]

(* The deadline is written once; a restart with no chain under way closes  *)
(* the window.                                                             *)
Boot ==
  /\ watchdog.pc = "off"
  /\ deadline' = IF deadline = Absent THEN now + TTL ELSE deadline
  /\ watchdog' = [pc |-> IF deadline # Absent /\ ~Busy THEN "restore" ELSE "loop",
                  since |-> now, waits |-> FALSE]
  /\ UNCHANGED <<now, file, clientVars, sup, chainVars, faults, settled, restored>>

Restore ==
  /\ watchdog.pc = "loop" /\ ~Open
  /\ watchdog' = Restoring
  /\ UNCHANGED <<now, deadline, file, clientVars, sup, chainVars, faults, settled, restored>>

TakeLock ==
  /\ watchdog.pc = "restore" /\ ~Busy
  /\ watchdog' = Goto("node") /\ restored' = TRUE
  /\ UNCHANGED <<now, deadline, file, clientVars, sup, chainVars, faults, settled>>

\* Mutant: the return of Node does not wait for the lock.
GiveUpAtOnce ==
  /\ watchdog.pc = "restore" /\ Busy
  /\ watchdog' = Goto("stuck")
  /\ UNCHANGED <<now, deadline, file, clientVars, sup, chainVars, faults, settled, restored>>

GiveUp ==
  /\ watchdog.pc = "restore" /\ Busy /\ now >= watchdog.since + LockWait
  /\ watchdog' = Goto("stuck")
  /\ UNCHANGED <<now, deadline, file, clientVars, sup, chainVars, faults, settled, restored>>

(* One file is removed after the other.                                    *)
ClearRun ==
  /\ watchdog.pc = "loop" /\ Open /\ watchdog.waits /\ sup.pc = "none"
  /\ file' = [file EXCEPT !["RUN.active"] = Absent]
  /\ watchdog' = Goto("clear")
  /\ UNCHANGED <<now, deadline, clientVars, sup, chainVars, faults, settled, restored>>

ClearRequest ==
  /\ watchdog.pc = "clear"
  /\ file' = [file EXCEPT !["REQUEST.active"] = Absent]
  /\ settled' = settled \cup {file["REQUEST.active"]}
  /\ watchdog' = [watchdog EXCEPT !.pc = "loop", !.waits = FALSE]
  /\ UNCHANGED <<now, deadline, clientVars, sup, chainVars, faults, restored>>

Claim ==
  /\ watchdog.pc = "loop" /\ Open /\ ~watchdog.waits
  /\ file["RUN"] # Absent /\ file["RUN.active"] = Absent
  /\ file' = [file EXCEPT !["RUN.active"] = file["RUN"], !["RUN"] = Absent]
  /\ watchdog' = Goto("claimed")
  /\ UNCHANGED <<now, deadline, clientVars, sup, chainVars, faults, settled, restored>>

\* Mutant: the time to kill the chain is not reserved.
AdmissibleTimeout == now + OpTimeout < deadline

Admissible == now + OpTimeout + KillAfter + Margin < deadline

RefuseRun ==
  /\ watchdog.pc = "claimed" /\ ~Admissible
  /\ file' = [file EXCEPT !["RUN.active"] = Absent]
  /\ watchdog' = Goto("refused")
  /\ UNCHANGED <<now, deadline, clientVars, sup, chainVars, faults, settled, restored>>

RefuseRequest ==
  /\ watchdog.pc = "refused"
  /\ file' = [file EXCEPT !["REQUEST"] = Absent]
  /\ settled' = settled \cup {file["REQUEST"]}
  /\ watchdog' = Goto("loop")
  /\ UNCHANGED <<now, deadline, clientVars, sup, chainVars, faults, restored>>

Defer ==
  /\ watchdog.pc = "claimed" /\ Admissible /\ Busy
  /\ file' = [file EXCEPT !["RUN"] = file["RUN.active"], !["RUN.active"] = Absent]
  /\ watchdog' = Goto("loop")
  /\ UNCHANGED <<now, deadline, clientVars, sup, chainVars, faults, settled, restored>>

ClaimRequest ==
  /\ watchdog.pc = "claimed" /\ Admissible /\ ~Busy
  /\ file' = [file EXCEPT !["REQUEST.active"] = IF file["REQUEST"] # Absent THEN file["REQUEST"] ELSE @,
                          !["REQUEST"] = Absent]
  /\ watchdog' = Goto("starting")
  /\ UNCHANGED <<now, deadline, clientVars, sup, chainVars, faults, settled, restored>>

StartSupervisor ==
  /\ watchdog.pc = "starting"
  /\ sup' = [pc |-> "locking", since |-> now]
  /\ watchdog' = [watchdog EXCEPT !.pc = "loop", !.waits = TRUE]
  /\ UNCHANGED <<now, deadline, file, clientVars, chainVars, faults, settled, restored>>

-----------------------------------------------------------------------------
(* The supervisor and its chain                                            *)

SupLock ==
  /\ sup.pc = "locking" /\ ~Busy
  /\ sup' = [sup EXCEPT !.pc = "locked"]
  /\ UNCHANGED <<now, deadline, file, clientVars, watchdog, chainVars, faults, settled, restored>>

SupGivesUp ==
  /\ sup.pc = "locking" /\ Busy /\ now >= sup.since + LockWait
  /\ sup' = [sup EXCEPT !.pc = "none"]
  /\ UNCHANGED <<now, deadline, file, clientVars, watchdog, chainVars, faults, settled, restored>>

LaunchChain ==
  /\ sup.pc = "locked"
  /\ sup' = [sup EXCEPT !.pc = "waiting"]
  /\ group' = {"leader"} /\ job' = [NoJob EXCEPT !.started = now]
  /\ UNCHANGED <<now, deadline, file, clientVars, watchdog, pointer, ran, complete, faults, settled, restored>>

\* Mutant: the pointer is written before the dry run.
ExecuteNames ==
  /\ "leader" \in group /\ job.command = 0
  /\ LET id == file["REQUEST.active"] IN
       IF id = Absent THEN group' = group \ {"leader"} /\ UNCHANGED <<job, ran, pointer>>
       ELSE /\ group' = group \cup {"child"} /\ ran' = ran \cup {id}
            /\ job' = [job EXCEPT !.id = id, !.command = 1]
            /\ pointer' = IF asked[id].action = "dryrun" THEN id ELSE pointer
  /\ UNCHANGED <<now, deadline, file, clientVars, watchdog, sup, complete, faults, settled, restored>>

(* Without an active request the chain ends at once.                       *)
Execute ==
  /\ "leader" \in group /\ job.command = 0
  /\ LET id == file["REQUEST.active"] IN
       IF id = Absent THEN group' = group \ {"leader"} /\ UNCHANGED <<job, ran>>
       ELSE /\ group' = group \cup {"child"} /\ ran' = ran \cup {id}
            /\ job' = [job EXCEPT !.id = id, !.command = 1]
  /\ UNCHANGED <<now, deadline, file, clientVars, watchdog, sup, pointer, complete, faults, settled, restored>>

(* The next command of the chain, or, after the normalizer's dry run, the  *)
(* pointer to its manifest.                                                *)
CommandSucceeds ==
  /\ "child" \in group
  /\ LET action == asked[job.id].action IN
       /\ complete' = IF action = "dryrun" /\ "leader" \in group THEN complete \cup {job.id} ELSE complete
       /\ IF "leader" \notin group THEN group' = group \ {"child"} /\ UNCHANGED job
          ELSE IF job.command < Commands[action]
          THEN job' = [job EXCEPT !.command = @ + 1] /\ UNCHANGED group
          ELSE job' = [job EXCEPT !.command = -1] /\ group' = group \ {"child"}
  /\ UNCHANGED <<now, deadline, file, clientVars, watchdog, sup, pointer, ran, faults, settled, restored>>

(* The chain ends with the command that fails; a process that the command  *)
(* has started may outlive both.                                           *)
CommandFails ==
  /\ "child" \in group /\ group' \in {{}, {"child"}}
  /\ UNCHANGED <<now, deadline, file, clientVars, watchdog, sup, pointer, job, ran, complete, faults, settled, restored>>

ChainEnds ==
  /\ "leader" \in group /\ job.command = -1
  /\ pointer' = IF asked[job.id].action = "dryrun" THEN job.id ELSE pointer
  /\ group' = {}
  /\ UNCHANGED <<now, deadline, file, clientVars, watchdog, sup, job, ran, complete, faults, settled, restored>>

(* timeout signals only the process it started; others live on.            *)
TimesOut ==
  /\ "leader" \in group /\ now >= job.started + OpTimeout
  /\ group' = group \ {"leader"}
  /\ UNCHANGED <<now, deadline, file, clientVars, watchdog, sup, pointer, job, ran, complete, faults, settled, restored>>

TermGroup ==
  /\ sup.pc = "waiting" /\ "leader" \notin group
  /\ sup' = [pc |-> "grace", since |-> now]
  /\ group' \in SUBSET group
  /\ UNCHANGED <<now, deadline, file, clientVars, watchdog, pointer, job, ran, complete, faults, settled, restored>>

KillGroup ==
  /\ sup.pc = "grace" /\ (group = {} \/ now >= sup.since + KillAfter)
  /\ sup' = [sup EXCEPT !.pc = "killed"]
  /\ \/ group' = {} /\ UNCHANGED faults
     \/ group' \in (SUBSET group) \ {{}} /\ Strikes("kill")
  /\ UNCHANGED <<now, deadline, file, clientVars, watchdog, pointer, job, ran, complete, settled, restored>>

(* A group that survives keeps its supervisor, and so the lock.            *)
Release ==
  /\ sup.pc = "killed"
  /\ sup' = [sup EXCEPT !.pc = IF group = {} THEN "none" ELSE "stuck"]
  /\ UNCHANGED <<now, deadline, file, clientVars, watchdog, chainVars, faults, settled, restored>>

-----------------------------------------------------------------------------
(* Faults and time                                                         *)

MachineRestarts ==
  /\ watchdog.pc # "off" /\ Strikes("machine")
  /\ watchdog' = Goto("off") /\ sup' = [sup EXCEPT !.pc = "none"] /\ group' = {}
  /\ client' = [c \in Clients |-> Idle]
  /\ UNCHANGED <<now, deadline, file, asked, pointer, job, acked, settled, ran, complete, restored>>

WatchdogDies ==
  /\ watchdog.pc \notin {"off", "node"} /\ Strikes("watchdog")
  /\ watchdog' = Goto("off")
  /\ UNCHANGED <<now, deadline, file, clientVars, sup, chainVars, settled, restored>>

SupervisorDies ==
  /\ sup.pc # "none" /\ Strikes("supervisor")
  /\ sup' = [sup EXCEPT !.pc = "none"]
  /\ UNCHANGED <<now, deadline, file, clientVars, watchdog, chainVars, settled, restored>>

Due ==
  \/ deadline = Absent
  \/ watchdog.pc \in {"clear", "claimed", "refused", "starting"} \/ (watchdog.pc = "restore" /\ ~Busy)
  \/ sup.pc \in {"locked", "killed"} \/ (sup.pc = "locking" /\ ~Busy)
  \/ sup.pc = "waiting" /\ "leader" \notin group
  \/ sup.pc = "grace" /\ (group = {} \/ now >= sup.since + KillAfter)
  \/ "leader" \in group /\ now >= job.started + OpTimeout + KillAfter

Tick ==
  /\ now < MaxTime /\ ~Due /\ now' = now + 1
  /\ UNCHANGED <<deadline, file, clientVars, watchdog, sup, chainVars, faults, settled, restored>>

-----------------------------------------------------------------------------
ClientStep ==
  \/ Disarm
  \/ \E c \in Clients, a \in Actions : Ask(c, a)
  \/ \E c \in Clients : \/ PublishLock(c) \/ CheckFile(c) \/ PutRequest(c)
                        \/ PutRun(c) \/ PutRunFails(c) \/ ClientDies(c)
WatchdogStep ==
  \/ Boot \/ Restore \/ TakeLock \/ GiveUp \/ ClearRun \/ ClearRequest
  \/ Claim \/ RefuseRun \/ RefuseRequest \/ Defer \/ ClaimRequest \/ StartSupervisor
SupervisorStep == SupLock \/ SupGivesUp \/ LaunchChain \/ TermGroup \/ KillGroup \/ Release
ChainStep == Execute \/ CommandSucceeds \/ CommandFails \/ ChainEnds \/ TimesOut
Fault == MachineRestarts \/ WatchdogDies \/ SupervisorDies

Next == ClientStep \/ WatchdogStep \/ SupervisorStep \/ ChainStep \/ Fault \/ Tick

Spec == Init /\ [][Next]_vars

(* The kernel schedules the watchdog and the supervisor, its timers fire,  *)
(* and it delivers the signals of timeout; nothing else has to happen.     *)
FairSpec ==
  /\ Spec /\ WF_vars(WatchdogStep) /\ WF_vars(SupervisorStep) /\ WF_vars(TimesOut) /\ SF_vars(Tick)

-----------------------------------------------------------------------------
TypeOK ==
  /\ now \in 0..MaxTime /\ deadline \in Nat /\ file \in [Files -> Nat]
  /\ pointer \in 0..MaxRequests /\ group \subseteq Members
  /\ \A c \in Clients : client[c].id \in 0..MaxRequests
  /\ watchdog.pc \in {"off", "loop", "restore", "node", "stuck", "clear", "claimed", "refused", "starting"}
  /\ sup.pc \in {"none", "locking", "locked", "waiting", "grace", "killed", "stuck"}
  /\ faults \in [Faults -> 0..MaxFaults]
  /\ job.id \in 0..MaxRequests /\ job.started \in 0..MaxTime
  /\ job.command > 0 => job.command <= Commands[asked[job.id].action]

(* Node never runs beside a process of a chain, nor is a chain launched    *)
(* beside the remains of another, whoever of the three dies first.         *)
OneWriter ==
  /\ watchdog.pc = "node" => group = {} /\ ~SupHolds
  /\ sup.pc = "locked" => group = {}

(* Once Node has been back no chain runs in this window again, even if the *)
(* machine restarts with a command still queued.                           *)
WindowStaysClosed == restored => group = {}

(* A chain that was admitted is over, its last descendant included, when   *)
(* the deadline comes, and the return of Node does not wait for it, unless *)
(* its supervisor died or a process survived its kill.                     *)
Supervised == faults["supervisor"] = 0 /\ faults["kill"] = 0
ChainOverByDeadline == Supervised /\ group # {} => now < deadline

(* A command that was reported as queued is never overwritten or dropped:  *)
(* it waits, runs, or was refused or finished.                             *)
RequestsAreKept ==
  \A id \in acked : id \in settled \/ id \in {file["REQUEST"], file["REQUEST.active"]}

(* A chain executes the request that was published with the RUN it was     *)
(* launched for, and no request is executed a second time.                 *)
RightRequest ==
  sup.pc \in {"waiting", "grace"} /\ watchdog.waits /\ job.id # Absent => file["RUN.active"] = job.id
RunsOnce == [][\A id \in Requests : job'.id = id /\ job.id # id => id \notin ran]_vars

(* manifest.current, and every apply that was asked for, names a manifest  *)
(* whose dry run succeeded, whatever was killed when.                      *)
PointerIsComplete ==
  /\ pointer \in complete \cup {Absent}
  /\ \A id \in 1..Len(asked) : asked[id].action = "apply" => asked[id].manifest \in complete

(* Node comes back, also over restarts of the machine, unless the watchdog *)
(* or the supervisor died or a process survived its kill.                  *)
NodeComesBack == <>(watchdog.pc = "node" \/ ~Supervised \/ faults["watchdog"] > 0)

(* The database has one user: Node or one chain, and after Node no chain.  *)
WindowIsSafe == OneWriter /\ WindowStaysClosed

(* A command that was queued waits, and runs as it was published, once.    *)
RequestsAreHonoured == [](TypeOK /\ RequestsAreKept /\ RightRequest) /\ RunsOnce
=============================================================================
