--------------------------- MODULE QuiesceProofs ---------------------------
(***************************************************************************)
(* What the scripts of the recovery window promise, for every number of    *)
(* operators and commands and every setting of the time limits.            *)
(***************************************************************************)
EXTENDS Quiesce, TLAPS

WatchdogPCs == {"off", "loop", "restore", "node", "stuck", "clear", "claimed", "refused", "starting"}
SupPCs == {"none", "locking", "locked", "waiting", "grace", "killed", "stuck"}

\* The part of the type invariant that the proofs need: the watchdog, the
\* supervisor, the times, and the shape of the job.
Types ==
  /\ now \in Nat /\ deadline \in Nat /\ restored \in BOOLEAN
  /\ watchdog \in [pc : WatchdogPCs, since : Nat, waits : BOOLEAN]
  /\ sup \in [pc : SupPCs, since : Nat]
  /\ job = [id |-> job.id, command |-> job.command, started |-> job.started] /\ job.started \in Nat
  /\ group \subseteq Members /\ faults \in [Faults -> Nat]

\* Nothing runs before the deadline is written.
Armed == deadline = Absent => watchdog.pc = "off" /\ sup.pc = "none" /\ group = {}

\* Node has the lock to itself, and a supervisor that has just got it finds no
\* process of an earlier chain.
Alone ==
  /\ watchdog.pc = "node" => group = {} /\ ~SupHolds
  /\ sup.pc = "locked" => group = {}

\* After the return of Node: Node, or a restart on its way back to it.
Closed ==
  restored => /\ deadline # Absent /\ group = {}
              /\ \/ watchdog.pc = "node" /\ ~SupHolds
                 \/ watchdog.pc \in {"off", "restore"} /\ sup.pc = "none"

Inv == Types /\ Armed /\ Alone /\ Closed

----------------------------------------------------------------------------
\* Operators change the files and their own processes only.
LEMMA ClientFrame ==
  ASSUME ClientStep
  PROVE  UNCHANGED <<now, deadline, watchdog, sup, group, job, faults, restored>>
BY DEF ClientStep, Disarm, Ask, PublishLock, CheckFile, PutRequest, PutRun, PutRunFails,
       ClientDies, chainVars, clientVars

LEMMA Settings ==
  TTL \in Nat \ {0} /\ OpTimeout \in Nat \ {0} /\ KillAfter \in Nat \ {0} /\ Margin \in Nat \ {0}
BY QuiesceAssumption DEF QuiesceAssumption

\* A fault is counted, and counts are never taken back.
LEMMA Strike ==
  ASSUME faults \in [Faults -> Nat], NEW f \in Faults, Strikes(f)
  PROVE  faults' \in [Faults -> Nat] /\ faults'[f] > 0
BY DEF Strikes

LEMMA InitInv == Init => Inv
<1> SUFFICES ASSUME Init PROVE Inv
  OBVIOUS
<1>1. Types
  BY DEF Init, Types, WatchdogPCs, SupPCs, NoJob, Absent, Faults
<1>2. Armed /\ Alone /\ Closed
  BY DEF Init, Armed, Alone, Closed, SupHolds
<1> QED
  BY <1>1, <1>2 DEF Inv

LEMMA ClientInv ==
  ASSUME Inv, ClientStep
  PROVE  Inv'
BY ClientFrame DEF Inv, Types, Armed, Alone, Closed, SupHolds

\* Only Boot, TakeLock and StartSupervisor reach what Node or a supervisor
\* depends on; every other step of the watchdog moves it within its loop.
LEMMA WatchdogInv ==
  ASSUME Inv, WatchdogStep
  PROVE  Inv'
<1> USE DEF Inv, Types, Armed, Alone, Closed, SupHolds, Busy, Absent, WatchdogPCs, SupPCs, chainVars, clientVars, Goto
<1>1. CASE Boot
  BY <1>1, Settings DEF Boot
<1>2. CASE Restore
  BY <1>2 DEF Restore, Restoring
<1>3. CASE TakeLock
  BY <1>3 DEF TakeLock
<1>4. CASE GiveUp
  BY <1>4 DEF GiveUp
<1>5. CASE ClearRun
  BY <1>5 DEF ClearRun
<1>6. CASE ClearRequest
  BY <1>6 DEF ClearRequest
<1>7. CASE Claim
  BY <1>7 DEF Claim
<1>8. CASE RefuseRun
  BY <1>8 DEF RefuseRun
<1>9. CASE RefuseRequest
  BY <1>9 DEF RefuseRequest
<1>10. CASE Defer
  BY <1>10 DEF Defer
<1>11. CASE ClaimRequest
  BY <1>11 DEF ClaimRequest
<1>12. CASE StartSupervisor
  BY <1>12 DEF StartSupervisor
<1> QED
  BY <1>1, <1>2, <1>3, <1>4, <1>5, <1>6, <1>7, <1>8, <1>9, <1>10, <1>11, <1>12 DEF WatchdogStep

LEMMA SupervisorInv ==
  ASSUME Inv, SupervisorStep
  PROVE  Inv'
<1> USE DEF Inv, Types, Armed, Alone, Closed, SupHolds, Busy, Absent, WatchdogPCs, SupPCs, Members, chainVars, clientVars
<1>1. CASE SupLock
  BY <1>1 DEF SupLock
<1>2. CASE SupGivesUp
  BY <1>2 DEF SupGivesUp
<1>3. CASE LaunchChain
  BY <1>3 DEF LaunchChain, NoJob
<1>4. CASE TermGroup
  BY <1>4 DEF TermGroup
<1>5. CASE KillGroup
  BY <1>5, Strike DEF KillGroup, Faults
<1>6. CASE Release
  BY <1>6 DEF Release
<1> QED
  BY <1>1, <1>2, <1>3, <1>4, <1>5, <1>6 DEF SupervisorStep

\* A chain changes nothing but its own processes, and only while it has some.
LEMMA ChainFrame ==
  ASSUME Types, ChainStep
  PROVE  /\ UNCHANGED <<now, deadline, watchdog, sup, faults, restored>>
         /\ group # {} /\ group' \subseteq Members
         /\ job' = [id |-> job'.id, command |-> job'.command, started |-> job.started]
<1> USE DEF Types, Members, chainVars, clientVars
<1>1. CASE Execute
  BY <1>1 DEF Execute
<1>2. CASE CommandSucceeds
  BY <1>2 DEF CommandSucceeds
<1>3. CASE CommandFails
  BY <1>3 DEF CommandFails
<1>4. CASE ChainEnds
  BY <1>4 DEF ChainEnds
<1>5. CASE TimesOut
  BY <1>5 DEF TimesOut
<1> QED
  BY <1>1, <1>2, <1>3, <1>4, <1>5 DEF ChainStep

LEMMA ChainInv ==
  ASSUME Inv, ChainStep
  PROVE  Inv'
BY ChainFrame DEF Inv, Types, Armed, Alone, Closed, SupHolds

LEMMA FaultInv ==
  ASSUME Inv, Fault \/ Tick
  PROVE  Inv'
<1> USE DEF Inv, Types, Armed, Alone, Closed, SupHolds, WatchdogPCs, SupPCs, chainVars, clientVars, Goto
<1>1. CASE MachineRestarts
  BY <1>1, Strike DEF Faults, MachineRestarts
<1>2. CASE WatchdogDies
  BY <1>2, Strike DEF Faults, WatchdogDies
<1>3. CASE SupervisorDies
  BY <1>3, Strike DEF Faults, SupervisorDies
<1>4. CASE Tick
  BY <1>4 DEF Tick
<1> QED
  BY <1>1, <1>2, <1>3, <1>4 DEF Fault

LEMMA SpecInv == Spec => []Inv
<1>1. Inv /\ [Next]_vars => Inv'
  <2> SUFFICES ASSUME Inv, [Next]_vars PROVE Inv'
    OBVIOUS
  <2>1. CASE UNCHANGED vars
    BY <2>1 DEF vars, chainVars, clientVars, Inv, Types, Armed, Alone, Closed, SupHolds
  <2> QED
    BY <2>1, ClientInv, WatchdogInv, SupervisorInv, ChainInv, FaultInv DEF Next
<1> QED
  BY InitInv, <1>1, PTL DEF Spec

\* Node never runs beside a process of a chain, no chain is launched beside the
\* remains of another, and none runs after the return of Node, whatever dies when
\* (watchdog.sh: the lock and the deadline).
THEOREM WindowIsKept == Spec => []WindowIsSafe
<1>1. Inv => WindowIsSafe
  BY DEF Inv, Alone, Closed, WindowIsSafe, OneWriter, WindowStaysClosed
<1> QED
  BY <1>1, SpecInv, PTL

----------------------------------------------------------------------------
\* The margin covers the time between the signals of the supervisor.
Bounded == KillAfter <= Margin

Longest == OpTimeout + KillAfter + Margin

\* The supervisor of a chain is there as long as the chain is, and each of its
\* stages begins early enough.
Punctual ==
  /\ watchdog.pc = "starting" => sup.pc = "none" /\ now + Longest < deadline
  /\ sup.pc = "locking" =>
       /\ group = {}
       /\ watchdog.pc = "node" \/ now + Longest < deadline
       /\ watchdog.pc = "loop" => watchdog.waits
       /\ watchdog.pc \notin {"clear", "claimed", "refused", "starting"}
  /\ sup.pc = "locked" => group = {} /\ now + Longest < deadline
  /\ sup.pc = "waiting" => /\ job.started + Longest < deadline
                           /\ now <= job.started + OpTimeout + KillAfter
  /\ sup.pc = "grace" => /\ job.started + Longest < deadline
                         /\ sup.since <= job.started + OpTimeout + KillAfter
                         /\ now <= sup.since + KillAfter
  /\ group # {} => sup.pc \in {"waiting", "grace"}

Timely == Inv /\ (Supervised => Punctual)

LEMMA WatchdogTimely ==
  ASSUME Inv, Punctual, WatchdogStep
  PROVE  Punctual'
<1> USE Settings DEF Inv, Types, Armed, Alone, Punctual, SupHolds, Busy, Open, Longest, Absent,
                     WatchdogPCs, SupPCs, chainVars, clientVars, Goto
<1>1. CASE Boot
  BY <1>1 DEF Boot
<1>2. CASE Restore
  BY <1>2 DEF Restore, Restoring
<1>3. CASE TakeLock
  BY <1>3 DEF TakeLock
<1>4. CASE GiveUp
  BY <1>4 DEF GiveUp
<1>5. CASE ClearRun
  BY <1>5 DEF ClearRun
<1>6. CASE ClearRequest
  BY <1>6 DEF ClearRequest
<1>7. CASE Claim
  BY <1>7 DEF Claim
<1>8. CASE RefuseRun
  BY <1>8 DEF RefuseRun
<1>9. CASE RefuseRequest
  BY <1>9 DEF RefuseRequest
<1>10. CASE Defer
  BY <1>10 DEF Defer
<1>11. CASE ClaimRequest
  BY <1>11 DEF ClaimRequest, Admissible
<1>12. CASE StartSupervisor
  BY <1>12 DEF StartSupervisor
<1> QED
  BY <1>1, <1>2, <1>3, <1>4, <1>5, <1>6, <1>7, <1>8, <1>9, <1>10, <1>11, <1>12 DEF WatchdogStep

LEMMA SupervisorTimely ==
  ASSUME Inv, Punctual, Bounded, Supervised', SupervisorStep
  PROVE  Punctual'
<1> USE Settings DEF Inv, Types, Punctual, SupHolds, Busy, Longest, Bounded,
                     WatchdogPCs, SupPCs, Members, chainVars, clientVars
<1>1. CASE SupLock
  BY <1>1 DEF SupLock
<1>2. CASE SupGivesUp
  BY <1>2 DEF SupGivesUp
<1>3. CASE LaunchChain
  BY <1>3 DEF LaunchChain, NoJob
<1>4. CASE TermGroup
  BY <1>4 DEF TermGroup
<1>5. CASE KillGroup
  BY <1>5, Strike DEF KillGroup, Supervised, Faults
<1>6. CASE Release
  BY <1>6 DEF Release
<1> QED
  BY <1>1, <1>2, <1>3, <1>4, <1>5, <1>6 DEF SupervisorStep

LEMMA ChainTimely ==
  ASSUME Inv, Punctual, ChainStep
  PROVE  Punctual'
BY ChainFrame, Settings DEF Inv, Types, Punctual, Longest

\* The clock waits for every stage that is due.
LEMMA FaultTimely ==
  ASSUME Inv, Punctual, Bounded, Supervised', Fault \/ Tick
  PROVE  Punctual'
<1> USE Settings DEF Inv, Types, Punctual, SupHolds, Longest, Bounded, WatchdogPCs, SupPCs,
                     Members, chainVars, clientVars, Goto
<1>1. CASE MachineRestarts
  BY <1>1 DEF MachineRestarts
<1>2. CASE WatchdogDies
  BY <1>2 DEF WatchdogDies
<1>3. CASE SupervisorDies
  BY <1>3, Strike DEF SupervisorDies, Supervised, Faults
<1>4. CASE Tick
  BY <1>4 DEF Tick, Due, Busy
<1> QED
  BY <1>1, <1>2, <1>3, <1>4 DEF Fault

\* Nobody forgets a fault.
LEMMA StillSupervised ==
  ASSUME Inv, [Next]_vars, Supervised'
  PROVE  Supervised
<1> USE DEF Inv, Types, Supervised, Faults
<1>1. CASE ClientStep \/ ChainStep
  BY <1>1, ClientFrame, ChainFrame
<1>2. CASE WatchdogStep
  BY <1>2 DEF WatchdogStep, Boot, Restore, TakeLock, GiveUp, ClearRun, ClearRequest, Claim, RefuseRun,
              RefuseRequest, Defer, ClaimRequest, StartSupervisor
<1>3. CASE SupervisorStep
  BY <1>3 DEF SupervisorStep, SupLock, SupGivesUp, LaunchChain, TermGroup, KillGroup, Release, Strikes
<1>4. CASE Fault \/ Tick
  BY <1>4 DEF Fault, MachineRestarts, WatchdogDies, SupervisorDies, Tick, Strikes
<1> QED
  BY <1>1, <1>2, <1>3, <1>4 DEF Next, vars

\* An admitted chain is over when the deadline comes, whatever its commands do,
\* as long as kills work, its supervisor lives and the margin covers the time
\* to kill (watchdog.sh: "gap between op hard-kill and deadline").
THEOREM DeadlineIsFree ==
  ASSUME Bounded
  PROVE  Spec => []ChainOverByDeadline
<1>1. Init => Timely
  BY InitInv DEF Init, Timely, Punctual
<1>2. Timely /\ [Next]_vars => Timely'
  <2> SUFFICES ASSUME Timely, [Next]_vars PROVE Timely'
    OBVIOUS
  <2>1. Inv'
    BY ClientInv, WatchdogInv, SupervisorInv, ChainInv, FaultInv
       DEF Timely, Next, vars, chainVars, clientVars, Inv, Types, Armed, Alone, Closed, SupHolds
  <2>2. ASSUME Supervised' PROVE Punctual'
    <3>1. Punctual
      BY <2>2, StillSupervised DEF Timely
    <3>2. CASE ClientStep \/ UNCHANGED vars
      BY <3>1, <3>2, ClientFrame DEF Punctual, vars, chainVars, clientVars
    <3> QED
      BY <2>2, <3>1, <3>2, WatchdogTimely, SupervisorTimely, ChainTimely, FaultTimely DEF Next, Timely
  <2> QED
    BY <2>1, <2>2 DEF Timely
<1>3. Timely => ChainOverByDeadline
  BY Settings DEF Timely, Inv, Types, Punctual, Longest, Bounded, ChainOverByDeadline
<1> QED
  BY <1>1, <1>2, <1>3, PTL DEF Spec

----------------------------------------------------------------------------
(* The requests.  A request is one of at most four files at a time, and the *)
(* files go through one order: the publisher puts REQUEST and then RUN, the *)
(* watchdog moves or removes RUN first and REQUEST after it.                *)

ClientPCs == {"idle", "waiting", "checking", "request", "run"}
Record == [action : Actions, manifest : Nat]
Publishing(c) == client[c].pc \in {"checking", "request", "run"}
Empty == \A f \in {"RUN", "RUN.active", "REQUEST", "REQUEST.active"} : file[f] = Absent

\* The types of what the operators write, and the bounds of the model.
Shapes ==
  /\ file \in [Files -> Nat]
  /\ client \in [Clients -> [pc : ClientPCs, id : Nat, next : 0..4]]
  /\ asked \in Seq(Record) /\ Len(asked) <= MaxRequests
  /\ acked \subseteq 1..Len(asked) /\ ran \subseteq 1..Len(asked) /\ complete \subseteq 1..Len(asked)
  /\ now <= MaxTime /\ job.started <= MaxTime /\ faults \in [Faults -> 0..MaxFaults]

\* A request of an operator who is not done yet is nobody else's; who publishes
\* found the volume empty, REQUEST before REQUEST.active.
PublisherOf(c) ==
  /\ client[c].pc = "idle" => client[c].id = Absent
  /\ client[c].pc # "idle" => /\ client[c].id \in 1..Len(asked)
                              /\ client[c].id \notin acked \cup ran
                              /\ file["REQUEST.active"] # client[c].id
  /\ client[c].pc \in {"waiting", "checking", "request"} => file["REQUEST"] # client[c].id
  /\ client[c].pc = "checking" => client[c].next \in 1..4
  /\ client[c].pc = "checking" /\ client[c].next = 4 => file["REQUEST"] = Absent
  /\ client[c].pc = "request" => Empty
  /\ client[c].pc = "run" => /\ file["REQUEST"] = client[c].id /\ file["RUN"] = Absent
                             /\ file["RUN.active"] = Absent
                             /\ watchdog.pc # "refused"
Strangers(c, d) ==
  /\ ~(Publishing(c) /\ Publishing(d))
  /\ client[c].pc # "idle" /\ client[d].pc # "idle" => client[c].id # client[d].id
Publishers ==
  /\ \A c \in Clients : PublisherOf(c)
  /\ \A c, d \in Clients : c # d => Strangers(c, d)

\* RUN goes with REQUEST, RUN.active with REQUEST and then with REQUEST.active.
Volume ==
  /\ file["REQUEST"] <= Len(asked) /\ file["REQUEST.active"] <= Len(asked)
  /\ file["REQUEST"] # Absent => file["REQUEST.active"] = Absent
  /\ file["RUN"] # Absent => /\ file["REQUEST"] = file["RUN"] /\ file["RUN.active"] = Absent
                             /\ watchdog.pc \notin {"claimed", "refused", "starting", "clear"}
  /\ file["RUN.active"] # Absent =>
       file["RUN.active"] \in {file["REQUEST"], file["REQUEST.active"]}
  /\ watchdog.pc = "claimed" => /\ file["RUN.active"] # Absent
                                /\ file["REQUEST"] = file["RUN.active"]
  /\ watchdog.pc = "refused" => file["RUN.active"] = Absent /\ file["REQUEST"] # Absent
  /\ watchdog.pc = "starting" => /\ file["RUN.active"] # Absent
                                 /\ file["REQUEST.active"] = file["RUN.active"]
  /\ watchdog.pc = "clear" => watchdog.waits /\ file["RUN.active"] = Absent
  /\ watchdog.waits => /\ file["REQUEST.active"] # Absent
                       /\ \/ file["RUN.active"] = file["REQUEST.active"]
                          \/ file["RUN.active"] = Absent /\ sup.pc = "none"

\* A supervisor is started when no other one is there, and on its own request.
Sole ==
  /\ watchdog.pc = "starting" => sup.pc = "none" /\ group = {}
  /\ sup.pc = "locking" =>
       /\ group = {}
       /\ watchdog.pc = "loop" => watchdog.waits
       /\ watchdog.pc \notin {"clear", "claimed", "refused", "starting"}

\* The request that a chain will execute was never executed.
Launchable ==
  \/ watchdog.pc = "starting"
  \/ sup.pc \in {"locking", "locked"}
  \/ "leader" \in group /\ job.command = 0
Fresh ==
  /\ file["REQUEST"] \notin ran
  /\ Launchable => file["REQUEST.active"] \notin ran

\* What a chain is at.
Underway ==
  /\ job.command \in Int /\ job.id \in 0..Len(asked)
  /\ job.command # 0 => job.id # Absent
  /\ job.command > 0 => job.command <= Commands[asked[job.id].action]
  /\ Members \subseteq group => job.command > 0
  /\ job.command = -1 /\ asked[job.id].action = "dryrun" => job.id \in complete

QInv == /\ Inv /\ Shapes /\ Publishers /\ Volume /\ Sole /\ Fresh /\ Underway
        /\ RequestsAreKept /\ RightRequest /\ PointerIsComplete

\* A record appended to the requests that were asked for.
LEMMA Appended ==
  ASSUME asked \in Seq(Record), NEW r \in Record
  PROVE  /\ Append(asked, r) \in Seq(Record) /\ Len(Append(asked, r)) = Len(asked) + 1
         /\ Len(asked) \in Nat
         /\ \A i \in 1..Len(asked) : Append(asked, r)[i] = asked[i]
         /\ Append(asked, r)[Len(asked) + 1] = r
OBVIOUS

\* The types of what a request is.
LEMMA AskedType ==
  ASSUME asked \in Seq(Record)
  PROVE  /\ Len(asked) \in Nat
         /\ \A i \in 1..Len(asked) :
              asked[i].action \in Actions /\ Commands[asked[i].action] \in Nat \ {0}
<1>1. Len(asked) \in Nat
  OBVIOUS
<1>2. ASSUME NEW i \in 1..Len(asked) PROVE asked[i].action \in Actions
  <2>1. asked[i] \in Record
    OBVIOUS
  <2> QED BY <2>1 DEF Record
<1>3. \A a \in Actions : Commands[a] \in Nat \ {0}
  BY QuiesceAssumption
<1> QED BY <1>1, <1>2, <1>3

LEMMA AskHonoured ==
  ASSUME QInv, NEW c \in Clients, NEW action \in Actions, Ask(c, action)
  PROVE  QInv'
<1>1. Inv'
  BY ClientInv DEF QInv, ClientStep
<1> DEFINE id == Len(asked) + 1
           r == [action |-> action, manifest |-> IF action = "apply" THEN pointer ELSE id]
<1>2. /\ asked \in Seq(Record) /\ Len(asked) \in Nat /\ pointer \in Nat /\ Len(asked) < MaxRequests
      /\ MaxRequests \in Nat
  BY QuiesceAssumption DEF QInv, Shapes, PointerIsComplete, Absent, Ask
<1>3. r \in Record  BY <1>2 DEF Record
<1>4. asked' = Append(asked, r)  BY DEF Ask
<1>5. /\ asked' \in Seq(Record) /\ Len(asked') = id /\ asked'[id] = r
      /\ \A i \in 1..Len(asked) : asked'[i] = asked[i]
  <2> HIDE DEF r
  <2> QED BY <1>2, <1>3, <1>4, Appended
<1>6. /\ client' = [client EXCEPT ![c] = [pc |-> "waiting", id |-> id, next |-> 0]]
      /\ client[c].pc = "idle"
      /\ UNCHANGED <<now, deadline, file, watchdog, sup, group, job, ran, complete, pointer, faults,
                     acked, settled, restored>>
  BY DEF Ask, chainVars
<1>7. Shapes'
  BY <1>2, <1>5, <1>6 DEF QInv, Shapes, ClientPCs
<1>8. Publishers'
  <2>1. /\ client \in [Clients -> [pc : ClientPCs, id : Nat, next : 0..4]]
        /\ file \in [Files -> Nat] /\ acked \cup ran \subseteq 1..Len(asked)
        /\ file["REQUEST"] <= Len(asked) /\ file["REQUEST.active"] <= Len(asked)
    BY DEF QInv, Shapes, Volume
  <2>2. /\ client'[c].pc = "waiting" /\ client'[c].id = id
        /\ \A d \in Clients : d # c => client'[d] = client[d]
    BY <1>6, <2>1
  <2>3. ASSUME NEW d \in Clients PROVE PublisherOf(d)'
    <3>1. CASE d = c
      <4>1. file["REQUEST"] \in Nat /\ file["REQUEST.active"] \in Nat
        BY <2>1 DEF Files
      <4> QED BY <1>2, <1>5, <1>6, <2>1, <2>2, <3>1, <4>1 DEF PublisherOf
    <3>2. CASE d # c
      <4>1. PublisherOf(d)  BY DEF QInv, Publishers
      <4> QED BY <1>2, <1>5, <1>6, <2>2, <3>2, <4>1 DEF PublisherOf, Empty
    <3> QED BY <3>1, <3>2
  <2>4. ASSUME NEW d \in Clients, NEW e \in Clients, d # e PROVE Strangers(d, e)'
    <3>1. Strangers(d, e) /\ PublisherOf(d) /\ PublisherOf(e)
      BY <2>4 DEF QInv, Publishers
    <3>2. CASE d = c
      BY <1>2, <2>2, <2>4, <3>1, <3>2 DEF Strangers, Publishing, PublisherOf
    <3>3. CASE e = c
      BY <1>2, <2>2, <2>4, <3>1, <3>3 DEF Strangers, Publishing, PublisherOf
    <3>4. CASE d # c /\ e # c
      BY <2>2, <3>1, <3>4 DEF Strangers, Publishing
    <3> QED BY <3>2, <3>3, <3>4
  <2> QED BY <2>3, <2>4 DEF Publishers
<1>9. Volume'
  <2>1. file \in [Files -> Nat]  BY DEF QInv, Shapes
  <2>2. file["REQUEST"] \in Nat /\ file["REQUEST.active"] \in Nat
    BY <2>1 DEF Files
  <2> QED BY <1>2, <1>5, <1>6, <2>2 DEF QInv, Volume
<1>12. Sole' /\ Fresh' /\ RequestsAreKept' /\ RightRequest'
  BY <1>6 DEF QInv, Sole, SupHolds, Fresh, Launchable, RequestsAreKept, RightRequest
<1>10. Underway'
  <2>1. Underway  BY DEF QInv
  <2>2. job' = job /\ group' = group /\ complete' = complete  BY <1>6
  <2>3. job.id \in 0..Len(asked)  BY <2>1 DEF Underway
  <2>4. job.id # Absent => asked'[job.id] = asked[job.id]
    BY <1>2, <1>5, <2>3 DEF Absent
  <2>5. job.id \in 0..Len(asked')  BY <1>2, <1>5, <2>3
  <2> QED BY <2>1, <2>2, <2>4, <2>5 DEF Underway
<1>11. PointerIsComplete'
  <2>1. action = "apply" => pointer \in complete
    BY DEF QInv, PointerIsComplete, Ask
  <2> QED BY <1>2, <1>5, <1>6, <2>1 DEF QInv, PointerIsComplete
<1> QED BY <1>1, <1>7, <1>8, <1>9, <1>10, <1>11, <1>12 DEF QInv

\* One operator moves on, or is done.
LEMMA OneClient ==
  ASSUME Publishers, NEW c \in Clients,
         \A d \in Clients : d # c => client'[d] = client[d],
         \/ client'[c].pc = "idle"
         \/ /\ client[c].pc # "idle" /\ client'[c].id = client[c].id
            /\ \A d \in Clients : d # c => ~Publishing(d),
         \A d \in Clients : PublisherOf(d)'
  PROVE  Publishers'
<1>1. ASSUME NEW d \in Clients, NEW e \in Clients, d # e PROVE Strangers(d, e)'
  <2>1. Strangers(d, e)  BY <1>1 DEF Publishers
  <2>2. CASE d # c /\ e # c  BY <2>1, <2>2 DEF Strangers, Publishing
  <2>3. CASE d = c  BY <1>1, <2>1, <2>3 DEF Strangers, Publishing
  <2>4. CASE e = c  BY <1>1, <2>1, <2>4 DEF Strangers, Publishing
  <2> QED BY <2>2, <2>3, <2>4
<1> QED BY <1>1 DEF Publishers

\* The operators' steps on the volume; asked and the chain stay as they are.
LEMMA PublishHonoured ==
  ASSUME QInv,
         \/ Disarm
         \/ \E c \in Clients : \/ PublishLock(c) \/ CheckFile(c) \/ PutRequest(c)
                               \/ PutRun(c) \/ PutRunFails(c) \/ ClientDies(c)
  PROVE  QInv'
<1>1. Inv'
  BY ClientInv DEF QInv, ClientStep
<1>2. /\ UNCHANGED <<now, asked, watchdog, sup, group, job, ran, complete, pointer, faults, settled>>
      /\ file'["RUN.active"] = file["RUN.active"]
      /\ file'["REQUEST.active"] = file["REQUEST.active"]
  BY DEF Disarm, PublishLock, CheckFile, PutRequest, PutRun, PutRunFails, ClientDies, chainVars,
         clientVars, QInv, Shapes, Files
<1>3. Sole' /\ Underway' /\ PointerIsComplete' /\ RightRequest'
  BY <1>2 DEF QInv, Sole, Underway, PointerIsComplete, RightRequest
<1>4. /\ file \in [Files -> Nat] /\ client \in [Clients -> [pc : ClientPCs, id : Nat, next : 0..4]]
      /\ Len(asked) \in Nat /\ ran \subseteq 1..Len(asked) /\ acked \subseteq 1..Len(asked)
      /\ \A f \in Files : file[f] \in Nat
  BY DEF QInv, Shapes
<1>5. ASSUME file' = file, acked' = acked, client' \in [Clients -> [pc : ClientPCs, id : Nat, next : 0..4]],
             Publishers'
      PROVE  QInv'
  BY <1>1, <1>2, <1>3, <1>5
     DEF QInv, Shapes, Volume, Fresh, Launchable, RequestsAreKept
<1>6. CASE Disarm
  <2>1. /\ file' \in [Files -> Nat] /\ client' = client /\ acked' = acked
        /\ \A f \in Files : f # "DISARM" => file'[f] = file[f]
    BY <1>4, <1>6 DEF Disarm, clientVars
  <2> QED BY <1>1, <1>2, <1>3, <2>1
     DEF QInv, Shapes, Publishers, PublisherOf, Strangers, Publishing, Empty, Volume, Fresh, Launchable,
         RequestsAreKept, Files
<1>8. ASSUME NEW c \in Clients, client[c].pc # "idle",
             file' = file, acked' = acked, NEW r \in [pc : ClientPCs, id : Nat, next : 0..4],
             client' = [client EXCEPT ![c] = r],
             r = Idle \/ (r.id = client[c].id /\ \A d \in Clients : d # c => ~Publishing(d)),
             PublisherOf(c)'
      PROVE  QInv'
  <2>1. /\ client' \in [Clients -> [pc : ClientPCs, id : Nat, next : 0..4]]
        /\ client'[c] = r /\ \A d \in Clients : d # c => client'[d] = client[d]
    BY <1>4, <1>8
  <2>2. ASSUME NEW d \in Clients PROVE PublisherOf(d)'
    <3>1. CASE d = c  BY <1>8, <3>1
    <3>2. CASE d # c
      <4>1. PublisherOf(d)  BY DEF QInv, Publishers
      <4> QED BY <1>2, <1>8, <2>1, <3>2, <4>1 DEF PublisherOf, Empty
    <3> QED BY <3>1, <3>2
  <2>3. Publishers'
    BY <1>8, <2>1, <2>2, OneClient DEF QInv, Idle
  <2> QED BY <1>5, <1>8, <2>1, <2>3
<1>9. Idle \in [pc : ClientPCs, id : Nat, next : 0..4]
  BY DEF Idle, ClientPCs, Absent
<1>10. ASSUME NEW c \in Clients, PublishLock(c) PROVE QInv'
  <2> DEFINE r1 == [client[c] EXCEPT !.pc = "checking"]
             r == [r1 EXCEPT !.next = 1]
  <2>1. r1 \in [pc : ClientPCs, id : Nat, next : 0..4]
    BY <1>4 DEF ClientPCs
  <2>2. /\ r \in [pc : ClientPCs, id : Nat, next : 0..4]
        /\ r.pc = "checking" /\ r.next = 1 /\ r.id = client[c].id
    <3>1. r1.pc = "checking" /\ r1.id = client[c].id  BY <1>4
    <3> HIDE DEF r1
    <3> QED BY <2>1, <3>1
  <2>3. client' = [client EXCEPT ![c] = r] /\ file' = file /\ acked' = acked
    BY <1>4, <1>10 DEF PublishLock
  <2> HIDE DEF r
  <2>4. client'[c] = r  BY <1>4, <2>3
  <2>5. PublisherOf(c)  BY DEF QInv, Publishers
  <2>6. client[c].pc = "waiting" /\ \A d \in Clients : d # c => ~Publishing(d)
    BY <1>10 DEF PublishLock, Publishing
  <2>7. PublisherOf(c)'
    BY <1>2, <2>2, <2>3, <2>4, <2>5, <2>6 DEF PublisherOf
  <2> QED BY <1>8, <2>2, <2>3, <2>6, <2>7
<1>11. ASSUME NEW c \in Clients, client[c].pc # "idle", file' = file, acked' = acked,
              client' = [client EXCEPT ![c] = Idle]
       PROVE  QInv'
  <2>1. client'[c] = Idle  BY <1>4, <1>11
  <2>2. PublisherOf(c)'  BY <2>1 DEF PublisherOf, Idle
  <2> QED BY <1>8, <1>9, <1>11, <2>2
<1>12. ASSUME NEW c \in Clients, CheckFile(c) PROVE QInv'
  <2> DEFINE n == client[c].next
             further == [client[c] EXCEPT !.next = client[c].next + 1]
             ready == [client[c] EXCEPT !.pc = "request"]
  <2>1. PublisherOf(c)  BY DEF QInv, Publishers
  <2>2. /\ file' = file /\ acked' = acked /\ client[c].pc = "checking" /\ n \in 1..4
        /\ client' = [client EXCEPT ![c] =
                        IF file[Checks[n]] # Absent THEN Idle
                        ELSE IF n = Len(Checks) THEN ready ELSE further]
    BY <1>12, <2>1 DEF CheckFile, PublisherOf
  <2>3. Len(Checks) = 4 /\ Checks[3] = "REQUEST" /\ Checks[4] = "REQUEST.active"
    BY DEF Checks
  <2>4. ASSUME NEW d \in Clients, d # c PROVE ~Publishing(d)
    <3>1. Strangers(c, d)  BY <2>4 DEF QInv, Publishers
    <3> QED BY <2>2, <3>1 DEF Strangers, Publishing
  <2>5. CASE file[Checks[n]] # Absent
    <3>1. client' = [client EXCEPT ![c] = Idle]  BY <2>2, <2>5
    <3> QED BY <1>11, <2>2, <3>1
  <2>6. CASE file[Checks[n]] = Absent /\ n = 4
    <3>1. file["REQUEST"] = Absent /\ file["REQUEST.active"] = Absent
      BY <2>1, <2>2, <2>3, <2>6 DEF PublisherOf
    <3>2. Empty
      BY <3>1 DEF QInv, Volume, Empty, Absent
    <3>3. /\ ready \in [pc : ClientPCs, id : Nat, next : 0..4]
          /\ ready.pc = "request" /\ ready.id = client[c].id
      BY <1>4 DEF ClientPCs
    <3>4. client' = [client EXCEPT ![c] = ready]
      BY <2>2, <2>3, <2>6
    <3> HIDE DEF ready
    <3>5. client'[c] = ready  BY <1>4, <3>4
    <3>6. PublisherOf(c)'
      BY <1>2, <2>1, <2>2, <3>2, <3>3, <3>5 DEF PublisherOf, Empty
    <3> QED BY <1>8, <2>2, <2>4, <3>3, <3>4, <3>6
  <2>7. CASE file[Checks[n]] = Absent /\ n # 4
    <3>1. n + 1 \in 1..4 /\ (n + 1 = 4 => file["REQUEST"] = Absent)
      BY <2>2, <2>3, <2>7
    <3>2. /\ further \in [pc : ClientPCs, id : Nat, next : 0..4]
          /\ further.pc = "checking" /\ further.id = client[c].id /\ further.next = n + 1
      <4>1. n + 1 \in 0..4  BY <3>1
      <4>2. client[c] \in [pc : ClientPCs, id : Nat, next : 0..4]  BY <1>4
      <4>3. further \in [pc : ClientPCs, id : Nat, next : 0..4]  BY <4>1, <4>2
      <4>4. further.next = n + 1 /\ further.id = client[c].id /\ further.pc = client[c].pc
        BY <4>2
      <4> QED BY <2>2, <4>3, <4>4
    <3>3. client' = [client EXCEPT ![c] = further]
      BY <2>2, <2>3, <2>7
    <3> HIDE DEF further
    <3>4. client'[c] = further  BY <1>4, <3>3
    <3>5. PublisherOf(c)'
      BY <1>2, <2>1, <2>2, <3>1, <3>2, <3>4 DEF PublisherOf
    <3> QED BY <1>8, <2>2, <2>4, <3>2, <3>3, <3>5
  <2> QED BY <2>5, <2>6, <2>7
<1>13. ASSUME NEW c \in Clients, PutRequest(c) PROVE QInv'
  <2> DEFINE id == client[c].id
  <2>0. PublisherOf(c)  BY DEF QInv, Publishers
  <2>1. /\ client[c].pc = "request" /\ Empty /\ id \in 1..Len(asked) /\ id \notin acked \cup ran
        /\ file["REQUEST.active"] # id
    BY <1>13, <2>0 DEF PutRequest, PublisherOf
  <2>2. /\ file' \in [Files -> Nat] /\ acked' = acked
        /\ file'["REQUEST"] = id /\ file'["RUN"] = file["RUN"]
        /\ client' \in [Clients -> [pc : ClientPCs, id : Nat, next : 0..4]]
        /\ client'[c].pc = "run" /\ client'[c].id = id
        /\ \A d \in Clients : d # c => client'[d] = client[d]
    BY <1>4, <1>13 DEF PutRequest, Files, ClientPCs
  <2>3. watchdog.pc # "refused"  BY <2>1 DEF QInv, Volume, Empty
  <2>4. ASSUME NEW d \in Clients, d # c
        PROVE  client[d].pc \in {"idle", "waiting"} /\ (client[d].pc # "idle" => client[d].id # id)
    <3>1. Strangers(c, d)  BY <2>4 DEF QInv, Publishers
    <3> QED BY <1>4, <2>1, <3>1 DEF Strangers, Publishing, ClientPCs
  <2>5. ASSUME NEW d \in Clients PROVE PublisherOf(d)'
    <3>1. CASE d = c
      BY <1>2, <2>1, <2>2, <2>3, <3>1 DEF PublisherOf, Empty
    <3>2. CASE d # c
      <4>1. PublisherOf(d)  BY DEF QInv, Publishers
      <4> QED BY <1>2, <2>2, <2>4, <3>2, <4>1 DEF PublisherOf
    <3> QED BY <3>1, <3>2
  <2>6. Publishers'
    BY <2>1, <2>2, <2>4, <2>5, OneClient DEF QInv, Publishing
  <2>7. Shapes'
    BY <1>2, <2>2 DEF QInv, Shapes
  <2>8. Volume'
    BY <1>2, <1>4, <2>1, <2>2 DEF QInv, Volume, Empty, Absent
  <2>9. Fresh' /\ RequestsAreKept'
    <3>1. Absent \notin acked  BY <1>4 DEF Absent
    <3> QED BY <1>2, <2>1, <2>2, <3>1 DEF QInv, Fresh, Launchable, RequestsAreKept, Empty
  <2> QED BY <1>1, <1>3, <2>6, <2>7, <2>8, <2>9 DEF QInv
<1>14. ASSUME NEW c \in Clients, PutRun(c) PROVE QInv'
  <2> DEFINE id == client[c].id
  <2>0. PublisherOf(c)  BY DEF QInv, Publishers
  <2>1. /\ client[c].pc = "run" /\ id \in 1..Len(asked) /\ id \notin acked \cup ran
        /\ file["REQUEST"] = id /\ file["RUN"] = Absent /\ file["RUN.active"] = Absent
        /\ watchdog.pc # "refused" /\ file["REQUEST.active"] # id
    BY <1>14, <2>0 DEF PutRun, PublisherOf
  <2>2. /\ file' \in [Files -> Nat] /\ acked' = acked \cup {id}
        /\ file'["RUN"] = id /\ file'["REQUEST"] = file["REQUEST"]
        /\ client' \in [Clients -> [pc : ClientPCs, id : Nat, next : 0..4]]
        /\ client'[c] = Idle
        /\ \A d \in Clients : d # c => client'[d] = client[d]
    BY <1>4, <1>9, <1>14 DEF PutRun, Files
  <2>3. ASSUME NEW d \in Clients, d # c
        PROVE  client[d].pc \in {"idle", "waiting"} /\ (client[d].pc # "idle" => client[d].id # id)
    <3>1. Strangers(c, d)  BY <2>3 DEF QInv, Publishers
    <3> QED BY <1>4, <2>1, <3>1 DEF Strangers, Publishing, ClientPCs
  <2>4. ASSUME NEW d \in Clients PROVE PublisherOf(d)'
    <3>1. CASE d = c
      BY <2>2, <3>1 DEF PublisherOf, Idle
    <3>2. CASE d # c
      <4>1. PublisherOf(d)  BY DEF QInv, Publishers
      <4> QED BY <1>2, <2>2, <2>3, <3>2, <4>1 DEF PublisherOf
    <3> QED BY <3>1, <3>2
  <2>5. Publishers'
    BY <2>2, <2>4, OneClient DEF QInv, Idle
  <2>6. Shapes'
    BY <1>2, <2>1, <2>2 DEF QInv, Shapes
  <2>7. Volume'
    <3>1. watchdog.pc \notin {"claimed", "refused", "starting", "clear"}
      BY <1>4, <2>1 DEF QInv, Volume, Absent
    <3> QED BY <1>2, <1>4, <2>1, <2>2, <3>1 DEF QInv, Volume, Absent
  <2>8. Fresh' /\ RequestsAreKept'
    BY <1>2, <2>1, <2>2 DEF QInv, Fresh, Launchable, RequestsAreKept
  <2> QED BY <1>1, <1>3, <2>5, <2>6, <2>7, <2>8 DEF QInv
<1>15. ASSUME NEW c \in Clients, PutRunFails(c) PROVE QInv'
  <2> DEFINE id == client[c].id
  <2>0. PublisherOf(c)  BY DEF QInv, Publishers
  <2>1. /\ client[c].pc = "run" /\ id \in 1..Len(asked) /\ id \notin acked \cup ran
        /\ file["REQUEST"] = id /\ file["RUN"] = Absent /\ file["RUN.active"] = Absent
        /\ watchdog.pc # "refused"
    BY <1>15, <2>0 DEF PutRunFails, PublisherOf
  <2>2. /\ file' \in [Files -> Nat] /\ acked' = acked
        /\ file'["REQUEST"] = Absent /\ file'["RUN"] = file["RUN"]
        /\ client' \in [Clients -> [pc : ClientPCs, id : Nat, next : 0..4]]
        /\ client'[c] = Idle
        /\ \A d \in Clients : d # c => client'[d] = client[d]
    BY <1>4, <1>9, <1>15 DEF PutRunFails, Files, Absent
  <2>3. ASSUME NEW d \in Clients, d # c
        PROVE  client[d].pc \in {"idle", "waiting"}
    <3>1. Strangers(c, d)  BY <2>3 DEF QInv, Publishers
    <3> QED BY <1>4, <2>1, <3>1 DEF Strangers, Publishing, ClientPCs
  <2>4. ASSUME NEW d \in Clients PROVE PublisherOf(d)'
    <3>1. CASE d = c
      BY <2>2, <3>1 DEF PublisherOf, Idle
    <3>2. CASE d # c
      <4>1. PublisherOf(d)  BY DEF QInv, Publishers
      <4> QED BY <1>2, <1>4, <2>2, <2>3, <3>2, <4>1 DEF PublisherOf, Absent
    <3> QED BY <3>1, <3>2
  <2>5. Publishers'
    BY <2>2, <2>4, OneClient DEF QInv, Idle
  <2>6. Shapes'
    BY <1>2, <2>2 DEF QInv, Shapes
  <2>7. Volume'
    BY <1>2, <1>4, <2>1, <2>2 DEF QInv, Volume, Absent
  <2>8. Fresh' /\ RequestsAreKept'
    BY <1>2, <1>4, <2>1, <2>2 DEF QInv, Fresh, Launchable, RequestsAreKept, Absent
  <2> QED BY <1>1, <1>3, <2>5, <2>6, <2>7, <2>8 DEF QInv
<1>16. ASSUME NEW c \in Clients, ClientDies(c) PROVE QInv'
  BY <1>11, <1>16 DEF ClientDies
<1> QED BY <1>6, <1>10, <1>12, <1>13, <1>14, <1>15, <1>16

\* The watchdog moves files, and starts supervisors.
LEMMA WatchdogFrame ==
  ASSUME WatchdogStep
  PROVE  UNCHANGED <<now, asked, client, acked, group, job, ran, complete, pointer, faults>>
BY DEF WatchdogStep, Boot, Restore, TakeLock, GiveUp, ClearRun, ClearRequest, Claim, RefuseRun,
       RefuseRequest, Defer, ClaimRequest, StartSupervisor, chainVars, clientVars

\* What is left to show of a step that leaves the operators and the chain alone.
LEMMA VolumeFrame ==
  ASSUME QInv, Inv',
         UNCHANGED <<asked, client, acked, group, job, ran, complete, pointer>>,
         now' <= MaxTime, faults' \in [Faults -> 0..MaxFaults],
         file' \in [Files -> Nat],
         \A d \in Clients : PublisherOf(d) => PublisherOf(d)',
         Volume', Sole', Fresh', RequestsAreKept', RightRequest'
  PROVE  QInv'
<1>1. Shapes' /\ Underway' /\ PointerIsComplete'
  BY DEF QInv, Shapes, Underway, PointerIsComplete
<1>2. Publishers'
  BY DEF QInv, Publishers, Strangers, Publishing
<1> QED BY <1>1, <1>2 DEF QInv

LEMMA WatchdogHonoured ==
  ASSUME QInv, WatchdogStep
  PROVE  QInv'
<1>1. Inv'
  BY WatchdogInv DEF QInv
<1>2. UNCHANGED <<now, asked, client, acked, group, job, ran, complete, pointer, faults>>
  BY WatchdogFrame
<1>3. /\ file \in [Files -> Nat] /\ Len(asked) \in Nat
      /\ ran \subseteq 1..Len(asked) /\ acked \subseteq 1..Len(asked)
      /\ \A f \in Files : file[f] \in Nat
      /\ now' <= MaxTime /\ faults' \in [Faults -> 0..MaxFaults]
      /\ watchdog = [pc |-> watchdog.pc, since |-> watchdog.since, waits |-> watchdog.waits]
      /\ watchdog.pc \in WatchdogPCs /\ sup.pc \in SupPCs
      /\ Absent \notin ran /\ Absent \notin acked
  BY <1>2 DEF QInv, Shapes, Inv, Types, Absent
<1>4. /\ Volume /\ Sole /\ Fresh /\ RequestsAreKept /\ RightRequest
      /\ \A d \in Clients : PublisherOf(d)
  BY DEF QInv, Publishers
<1> DEFINE Rest == /\ file' \in [Files -> Nat]
                   /\ \A d \in Clients : PublisherOf(d) => PublisherOf(d)'
                   /\ Volume' /\ Sole' /\ Fresh' /\ RequestsAreKept' /\ RightRequest'
<1> SUFFICES Rest
  BY <1>1, <1>2, <1>3, VolumeFrame
<1> USE DEF WatchdogPCs
\* The files stay.
<1>5. CASE Boot
  <2>1. file' = file /\ sup' = sup /\ settled' = settled /\ watchdog'.pc \in {"loop", "restore"} /\ ~watchdog'.waits
    BY <1>5 DEF Boot
  <2>2. sup.pc = "locking" => watchdog'.pc = "restore"
    BY <1>4, <1>5 DEF QInv, Inv, Armed, Boot, Busy, SupHolds, Sole
  <2> QED BY <1>2, <1>3, <1>4, <2>1, <2>2
     DEF PublisherOf, Empty, Volume, Sole, Fresh, Launchable, RequestsAreKept, RightRequest
<1>6. CASE Restore
  <2>1. /\ UNCHANGED <<file, sup, settled>>
        /\ watchdog.pc = "loop" /\ watchdog'.pc = "restore" /\ watchdog'.waits = watchdog.waits
    BY <1>3, <1>6 DEF Restore, Restoring
  <2> QED BY <1>2, <1>3, <1>4, <2>1
     DEF PublisherOf, Empty, Volume, Sole, Fresh, Launchable, RequestsAreKept, RightRequest
<1>7. CASE TakeLock \/ GiveUp
  <2>1. /\ UNCHANGED <<file, sup, settled>>
        /\ watchdog.pc = "restore" /\ watchdog'.pc \in {"node", "stuck"} /\ watchdog'.waits = watchdog.waits
    BY <1>3, <1>7 DEF TakeLock, GiveUp, Goto
  <2> QED BY <1>2, <1>3, <1>4, <2>1
     DEF PublisherOf, Empty, Volume, Sole, Fresh, Launchable, RequestsAreKept, RightRequest
<1>8. CASE StartSupervisor
  <2>1. /\ UNCHANGED <<file, settled>> /\ sup'.pc = "locking"
        /\ watchdog.pc = "starting" /\ watchdog'.pc = "loop" /\ watchdog'.waits = TRUE
    BY <1>3, <1>8 DEF StartSupervisor
  <2> QED BY <1>2, <1>3, <1>4, <2>1
     DEF PublisherOf, Empty, Volume, Sole, Fresh, Launchable, RequestsAreKept, RightRequest, Absent
\* The files move.
<1>9. CASE ClearRun
  <2>1. /\ UNCHANGED <<sup, settled>> /\ sup.pc = "none" /\ watchdog.waits
        /\ watchdog.pc = "loop" /\ watchdog'.pc = "clear" /\ watchdog'.waits = watchdog.waits
        /\ file' = [file EXCEPT !["RUN.active"] = Absent]
    BY <1>3, <1>9 DEF ClearRun, Goto
  <2>2. /\ file' \in [Files -> Nat] /\ file'["RUN.active"] = Absent /\ file'["RUN"] = file["RUN"]
        /\ file'["REQUEST"] = file["REQUEST"] /\ file'["REQUEST.active"] = file["REQUEST.active"]
    BY <1>3, <2>1 DEF Files, Absent
  <2>3. file["RUN"] = Absent
    BY <1>4, <2>1 DEF Volume
  <2>4. Volume'
    BY <1>2, <1>3, <1>4, <2>1, <2>2, <2>3 DEF Volume
  <2> QED BY <1>2, <1>3, <1>4, <2>1, <2>2, <2>3, <2>4
     DEF PublisherOf, Empty, Sole, Fresh, Launchable, RequestsAreKept, RightRequest
<1>10. CASE ClearRequest
  <2>1. /\ UNCHANGED <<sup>> /\ settled' = settled \cup {file["REQUEST.active"]}
        /\ watchdog.pc = "clear" /\ watchdog'.pc = "loop" /\ watchdog'.waits = FALSE
        /\ file' = [file EXCEPT !["REQUEST.active"] = Absent]
    BY <1>3, <1>10 DEF ClearRequest
  <2>2. /\ file' \in [Files -> Nat] /\ file'["RUN.active"] = file["RUN.active"] /\ file'["RUN"] = file["RUN"]
        /\ file'["REQUEST"] = file["REQUEST"] /\ file'["REQUEST.active"] = Absent
    BY <1>3, <2>1 DEF Files, Absent
  <2>3. Volume'
    BY <1>2, <1>3, <1>4, <2>1, <2>2 DEF Volume, Absent
  <2>4. ASSUME NEW d \in Clients PROVE PublisherOf(d)'
    BY <1>2, <1>3, <1>4, <2>1, <2>2 DEF PublisherOf, Empty, Absent
  <2> QED BY <1>2, <1>3, <1>4, <2>1, <2>2, <2>3, <2>4
     DEF Sole, Fresh, Launchable, RequestsAreKept, RightRequest
<1>11. CASE Claim
  <2>1. /\ UNCHANGED <<sup, settled>> /\ ~watchdog.waits /\ file["RUN"] # Absent
        /\ watchdog.pc = "loop" /\ watchdog'.pc = "claimed" /\ watchdog'.waits = watchdog.waits
        /\ file' = [file EXCEPT !["RUN.active"] = file["RUN"], !["RUN"] = Absent]
    BY <1>3, <1>11 DEF Claim, Goto
  <2>2. /\ file' \in [Files -> Nat] /\ file'["RUN.active"] = file["RUN"] /\ file'["RUN"] = Absent
        /\ file'["REQUEST"] = file["REQUEST"] /\ file'["REQUEST.active"] = file["REQUEST.active"]
    BY <1>3, <2>1 DEF Files, Absent
  <2>3. Volume'
    BY <1>2, <1>3, <1>4, <2>1, <2>2 DEF Volume
  <2>4. ASSUME NEW d \in Clients PROVE PublisherOf(d)'
    BY <1>2, <1>4, <2>1, <2>2 DEF PublisherOf, Empty
  <2>5. Sole' /\ Fresh'
    BY <1>2, <1>4, <2>1, <2>2 DEF Sole, Fresh, Launchable
  <2>6. RequestsAreKept' /\ RightRequest'
    BY <1>2, <1>4, <2>1, <2>2 DEF RequestsAreKept, RightRequest
  <2> QED BY <2>2, <2>3, <2>4, <2>5, <2>6
<1>12. CASE RefuseRun
  <2>1. /\ UNCHANGED <<sup, settled>>
        /\ watchdog.pc = "claimed" /\ watchdog'.pc = "refused" /\ watchdog'.waits = watchdog.waits
        /\ file' = [file EXCEPT !["RUN.active"] = Absent]
    BY <1>3, <1>12 DEF RefuseRun, Goto
  <2>2. /\ file' \in [Files -> Nat] /\ file'["RUN.active"] = Absent /\ file'["RUN"] = file["RUN"]
        /\ file'["REQUEST"] = file["REQUEST"] /\ file'["REQUEST.active"] = file["REQUEST.active"]
    BY <1>3, <2>1 DEF Files, Absent
  <2>3. Volume' /\ ~watchdog.waits
    BY <1>2, <1>3, <1>4, <2>1, <2>2 DEF Volume
  <2>4. file["RUN.active"] # Absent  BY <1>4, <2>1 DEF Volume
  <2>5. ASSUME NEW d \in Clients PROVE PublisherOf(d)'
    BY <1>2, <1>4, <2>1, <2>2, <2>4 DEF PublisherOf, Empty
  <2>6. Sole' /\ Fresh'
    BY <1>2, <1>4, <2>1, <2>2 DEF Sole, Fresh, Launchable
  <2>7. RequestsAreKept' /\ RightRequest'
    BY <1>2, <1>4, <2>1, <2>2, <2>3 DEF RequestsAreKept, RightRequest
  <2> QED BY <2>2, <2>3, <2>5, <2>6, <2>7
<1>13. CASE RefuseRequest
  <2>1. /\ UNCHANGED <<sup>> /\ settled' = settled \cup {file["REQUEST"]}
        /\ watchdog.pc = "refused" /\ watchdog'.pc = "loop" /\ watchdog'.waits = watchdog.waits
        /\ file' = [file EXCEPT !["REQUEST"] = Absent]
    BY <1>3, <1>13 DEF RefuseRequest, Goto
  <2>2. /\ file' \in [Files -> Nat] /\ file'["RUN.active"] = file["RUN.active"] /\ file'["RUN"] = file["RUN"]
        /\ file'["REQUEST"] = Absent /\ file'["REQUEST.active"] = file["REQUEST.active"]
    BY <1>3, <2>1 DEF Files, Absent
  <2>3. Volume'
    BY <1>2, <1>3, <1>4, <2>1, <2>2 DEF Volume, Absent
  <2>4. ASSUME NEW d \in Clients PROVE PublisherOf(d)'
    BY <1>2, <1>3, <1>4, <2>1, <2>2 DEF PublisherOf, Empty, Absent
  <2> QED BY <1>2, <1>3, <1>4, <2>1, <2>2, <2>3, <2>4
     DEF Sole, Fresh, Launchable, RequestsAreKept, RightRequest
<1>14. CASE Defer
  <2>1. /\ UNCHANGED <<sup, settled>>
        /\ watchdog.pc = "claimed" /\ watchdog'.pc = "loop" /\ watchdog'.waits = watchdog.waits
        /\ file' = [file EXCEPT !["RUN"] = file["RUN.active"], !["RUN.active"] = Absent]
    BY <1>3, <1>14 DEF Defer, Goto
  <2>2. /\ file' \in [Files -> Nat] /\ file'["RUN"] = file["RUN.active"] /\ file'["RUN.active"] = Absent
        /\ file'["REQUEST"] = file["REQUEST"] /\ file'["REQUEST.active"] = file["REQUEST.active"]
    BY <1>3, <2>1 DEF Files, Absent
  <2>3. Volume' /\ ~watchdog.waits
    BY <1>2, <1>3, <1>4, <2>1, <2>2 DEF Volume
  <2>4. file["RUN.active"] # Absent  BY <1>4, <2>1 DEF Volume
  <2>5. ASSUME NEW d \in Clients PROVE PublisherOf(d)'
    BY <1>2, <1>4, <2>1, <2>2, <2>4 DEF PublisherOf, Empty
  <2>6. Sole' /\ Fresh'
    BY <1>2, <1>4, <2>1, <2>2 DEF Sole, Fresh, Launchable
  <2>7. RequestsAreKept' /\ RightRequest'
    BY <1>2, <1>4, <2>1, <2>2, <2>3 DEF RequestsAreKept, RightRequest
  <2> QED BY <2>2, <2>3, <2>5, <2>6, <2>7
<1>15. CASE ClaimRequest
  <2>1. /\ UNCHANGED <<sup, settled>>
        /\ watchdog.pc = "claimed" /\ watchdog'.pc = "starting" /\ watchdog'.waits = watchdog.waits
        /\ file["REQUEST"] # Absent
        /\ file' = [file EXCEPT !["REQUEST.active"] = file["REQUEST"], !["REQUEST"] = Absent]
    BY <1>3, <1>4, <1>15 DEF ClaimRequest, Goto, Volume
  <2>2. /\ file' \in [Files -> Nat] /\ file'["RUN.active"] = file["RUN.active"] /\ file'["RUN"] = file["RUN"]
        /\ file'["REQUEST"] = Absent /\ file'["REQUEST.active"] = file["REQUEST"]
    BY <1>3, <2>1 DEF Files, Absent
  <2>3. sup.pc = "none" /\ group = {}
    BY <1>3, <1>4, <1>15 DEF ClaimRequest, Busy, SupHolds, Sole, SupPCs
  <2>4. Volume'
    BY <1>2, <1>3, <1>4, <2>1, <2>2, <2>3 DEF Volume, Absent
  <2>5. file["RUN.active"] # Absent /\ ~watchdog.waits /\ file["REQUEST.active"] = Absent
    BY <1>4, <2>1 DEF Volume
  <2>6. ASSUME NEW d \in Clients PROVE PublisherOf(d)'
    <3>1. PublisherOf(d)  BY <1>4
    <3>2. client[d].pc \in ClientPCs  BY DEF QInv, Shapes
    <3> QED BY <1>2, <2>1, <2>2, <2>5, <3>1, <3>2 DEF PublisherOf, Empty, ClientPCs
  <2>7. Sole' /\ Fresh'
    <3>1. file["REQUEST"] \notin ran /\ Absent \notin ran  BY <1>3, <1>4 DEF Fresh
    <3> QED BY <1>2, <2>1, <2>2, <2>3, <3>1 DEF Sole, Fresh
  <2>8. RequestsAreKept' /\ RightRequest'
    BY <1>2, <1>3, <1>4, <2>1, <2>2, <2>5 DEF RequestsAreKept, RightRequest
  <2> QED BY <2>2, <2>4, <2>6, <2>7, <2>8
<1> QED
  BY <1>5, <1>6, <1>7, <1>8, <1>9, <1>10, <1>11, <1>12, <1>13, <1>14, <1>15 DEF WatchdogStep

\* The supervisor works through its stages; the volume stays as it is.
LEMMA SupervisorHonoured ==
  ASSUME QInv, SupervisorStep
  PROVE  QInv'
<1>1. Inv'
  BY SupervisorInv DEF QInv
<1>2. UNCHANGED <<now, asked, client, acked, file, watchdog, ran, complete, pointer, settled>>
  BY DEF SupervisorStep, SupLock, SupGivesUp, LaunchChain, TermGroup, KillGroup, Release, chainVars, clientVars
<1>3. /\ Volume /\ Sole /\ Fresh /\ RequestsAreKept /\ RightRequest /\ Underway /\ Publishers
      /\ PointerIsComplete
  BY DEF QInv
<1>4. sup = [pc |-> sup.pc, since |-> sup.since] /\ group \subseteq Members /\ Alone
  BY DEF QInv, Inv, Types
<1> DEFINE Moved == /\ sup.pc # "none" /\ sup'.pc \notin {"locking"}
                    /\ sup'.pc = "locked" => sup.pc = "locking"
                    /\ sup'.pc \in {"waiting", "grace"} => job'.id = Absent \/ (sup.pc = "waiting" /\ job' = job)
                    /\ \/ job' = job /\ group' \subseteq group
                       \/ /\ job' = [NoJob EXCEPT !.started = now] /\ group' = {"leader"}
                          /\ sup.pc = "locked"
                    /\ faults' \in [Faults -> 0..MaxFaults]
<1>5. Moved
  <2>1. faults \in [Faults -> 0..MaxFaults]  BY DEF QInv, Shapes
  <2>2. CASE SupLock  BY <1>4, <2>1, <2>2 DEF SupLock, chainVars
  <2>3. CASE SupGivesUp  BY <1>4, <2>1, <2>3 DEF SupGivesUp, chainVars
  <2>4. CASE LaunchChain  BY <1>4, <2>1, <2>4 DEF LaunchChain, NoJob
  <2>5. CASE TermGroup  BY <1>4, <2>1, <2>5 DEF TermGroup
  <2>6. CASE KillGroup
    <3>1. faults' \in [Faults -> 0..MaxFaults]
      BY <2>1, <2>6, QuiesceAssumption DEF KillGroup, Strikes, Faults
    <3> QED BY <1>4, <2>6, <3>1 DEF KillGroup
  <2>7. CASE Release  BY <1>4, <2>1, <2>7 DEF Release, chainVars
  <2> QED BY <2>2, <2>3, <2>4, <2>5, <2>6, <2>7 DEF SupervisorStep
<1> HIDE DEF Moved
<1>6. Shapes'
  <2>1. job' = job \/ job'.started = now  BY <1>5 DEF Moved, NoJob
  <2> QED BY <1>2, <1>5, <2>1 DEF QInv, Shapes, Moved
<1>7. Publishers'
  BY <1>2, <1>3 DEF Publishers, PublisherOf, Strangers, Publishing, Empty
<1>8. Volume'
  BY <1>2, <1>3, <1>5 DEF Volume, Moved
<1>9. Sole'
  BY <1>2, <1>3, <1>5 DEF Sole, Moved
<1>10. Fresh'
  BY <1>2, <1>3, <1>5 DEF Fresh, Launchable, Moved
<1>11. Underway'
  <2>1. CASE job' = job /\ group' \subseteq group
    BY <1>2, <1>3, <2>1 DEF Underway
  <2>2. CASE job' = [NoJob EXCEPT !.started = now] /\ group' = {"leader"}
    BY <1>2, <2>2, AskedType DEF Underway, NoJob, Members, Absent, QInv, Shapes
  <2> QED BY <1>5, <2>1, <2>2 DEF Moved
<1>12. RequestsAreKept' /\ PointerIsComplete'
  BY <1>2, <1>3 DEF RequestsAreKept, PointerIsComplete
<1>13. RightRequest'
  BY <1>2, <1>3, <1>5 DEF RightRequest, Moved
<1> QED BY <1>1, <1>6, <1>7, <1>8, <1>9, <1>10, <1>11, <1>12, <1>13 DEF QInv

\* What is left to show of a step of the chain.
LEMMA ChainRest ==
  ASSUME QInv, ChainStep,
         ran' = ran \/ (file["REQUEST.active"] # Absent /\ ran' = ran \cup {file["REQUEST.active"]}),
         complete \subseteq complete', complete' \subseteq 1..Len(asked), group' \subseteq Members,
         Fresh', Underway', RightRequest', pointer' \in complete' \cup {Absent}
  PROVE  QInv'
<1>1. Inv'
  BY ChainInv DEF QInv
<1>2. UNCHANGED <<now, asked, client, acked, file, watchdog, sup, faults, settled>>
  BY DEF ChainStep, Execute, CommandSucceeds, CommandFails, ChainEnds, TimesOut, clientVars
<1>3. group # {}
  BY ChainFrame DEF QInv, Inv
<1>4. Shapes'
  <2>1. job'.started = job.started  BY ChainFrame DEF QInv, Inv
  <2>2. /\ file["REQUEST.active"] \in Nat /\ file["REQUEST.active"] <= Len(asked) /\ Len(asked) \in Nat
        /\ ran \subseteq 1..Len(asked)
    BY DEF QInv, Shapes, Volume, Files
  <2>3. file["REQUEST.active"] # Absent => file["REQUEST.active"] \in 1..Len(asked)
    BY <2>2 DEF Absent
  <2>4. ran' \subseteq 1..Len(asked)
    <3>1. CASE ran' = ran  BY <2>2, <3>1
    <3>2. CASE file["REQUEST.active"] # Absent /\ ran' = ran \cup {file["REQUEST.active"]}
      BY <2>2, <2>3, <3>2
    <3> QED BY <3>1, <3>2
  <2> QED BY <1>2, <2>1, <2>4 DEF QInv, Shapes
<1>5. Publishers'
  <2>1. ASSUME NEW d \in Clients PROVE PublisherOf(d)'
    <3>1. PublisherOf(d)  BY DEF QInv, Publishers
    <3> QED BY <1>2, <3>1 DEF PublisherOf, Empty
  <2> QED BY <1>2, <2>1 DEF QInv, Publishers, Strangers, Publishing
<1>6. Volume'
  BY <1>2 DEF QInv, Volume
<1>7. Sole'
  BY <1>2, <1>3 DEF QInv, Sole
<1>8. RequestsAreKept' /\ PointerIsComplete'
  BY <1>2 DEF QInv, RequestsAreKept, PointerIsComplete
<1> QED BY <1>1, <1>4, <1>5, <1>6, <1>7, <1>8 DEF QInv

LEMMA ChainHonoured ==
  ASSUME QInv, ChainStep
  PROVE  QInv'
<1>1. UNCHANGED <<asked, file, watchdog, sup>>
  BY DEF ChainStep, Execute, CommandSucceeds, CommandFails, ChainEnds, TimesOut, clientVars
<1>2. /\ Volume /\ Sole /\ Fresh /\ RightRequest /\ Underway
      /\ pointer \in complete \cup {Absent} /\ complete \subseteq 1..Len(asked)
      /\ Len(asked) \in Nat /\ group \subseteq Members /\ file["REQUEST.active"] \in Nat
      /\ job = [id |-> job.id, command |-> job.command, started |-> job.started]
  BY DEF QInv, PointerIsComplete, Shapes, Inv, Types, Files
<1>3. \A i \in 1..Len(asked) : asked[i].action \in Actions /\ Commands[asked[i].action] \in Nat \ {0}
  BY AskedType DEF QInv, Shapes
<1>4. /\ watchdog.pc # "starting" /\ sup.pc \notin {"locking", "locked"}
  <2>1. group # {}  BY ChainFrame DEF QInv, Inv
  <2> QED BY <2>1 DEF QInv, Sole, Inv, Alone
\* Processes that are gone, and nothing else.
<1>5. ASSUME group' \subseteq group, UNCHANGED <<job, ran, complete>>, pointer' \in complete \cup {Absent}
      PROVE  QInv'
  <2>1. Fresh' /\ Underway' /\ RightRequest'
    BY <1>1, <1>2, <1>5 DEF Fresh, Launchable, Underway, RightRequest
  <2> QED BY <1>2, <1>5, <2>1, ChainRest
<1>6. CASE Execute
  <2> DEFINE id == file["REQUEST.active"]
  <2>1. UNCHANGED <<pointer, complete>> /\ "leader" \in group /\ job.command = 0
    BY <1>6 DEF Execute
  <2>2. CASE id = Absent
    <3>1. UNCHANGED <<job, ran>> /\ group' = group \ {"leader"}  BY <1>6, <2>2 DEF Execute
    <3> QED BY <1>2, <1>5, <2>1, <3>1
  <2>3. CASE id # Absent
    <3>1. /\ group' = group \cup {"child"} /\ ran' = ran \cup {id}
          /\ job' = [job EXCEPT !.id = id, !.command = 1]
      BY <1>6, <2>3 DEF Execute
    <3>2. job'.id = id /\ job'.command = 1  BY <1>2, <3>1
    <3>3. id \in 1..Len(asked)  BY <1>2, <2>3 DEF Volume, Absent
    <3>4. Fresh'
      <4>1. file["REQUEST"] = Absent  BY <1>2, <2>3 DEF Volume
      <4> QED BY <1>1, <1>2, <1>4, <2>3, <3>1, <3>2, <4>1 DEF Fresh, Launchable
    <3>5. Underway'
      BY <1>1, <1>3, <3>2, <3>3 DEF Underway, Absent
    <3>6. RightRequest'
      BY <1>1, <1>2, <3>2 DEF RightRequest, Volume
    <3>7. group' \subseteq Members  BY <1>2, <3>1 DEF Members
    <3> QED BY <1>2, <2>1, <2>3, <3>1, <3>4, <3>5, <3>6, <3>7, ChainRest
  <2> QED BY <2>2, <2>3
<1>7. CASE CommandSucceeds
  <2> DEFINE action == asked[job.id].action
  <2>1. "child" \in group /\ UNCHANGED <<pointer, ran>>  BY <1>7 DEF CommandSucceeds
  <2>2. CASE "leader" \notin group
    <3>1. /\ group' = group \ {"child"} /\ UNCHANGED <<job, complete>>
      BY <1>7, <2>2 DEF CommandSucceeds
    <3> QED BY <1>2, <1>5, <2>1, <3>1
  <2>3. CASE "leader" \in group
    <3>1. Members \subseteq group  BY <2>1, <2>3 DEF Members
    <3>2. /\ job.command \in Int /\ job.command > 0 /\ job.id \in 1..Len(asked)
          /\ Commands[action] \in Nat \ {0}
      <4>1. job.command \in Int /\ job.command > 0 /\ job.id \in 1..Len(asked)
        BY <1>2, <3>1 DEF Underway, Absent
      <4> QED BY <1>3, <4>1
    <3>3. /\ complete' = IF action = "dryrun" THEN complete \cup {job.id} ELSE complete
          /\ \/ /\ job.command < Commands[action] /\ group' = group
                /\ job' = [job EXCEPT !.command = job.command + 1]
             \/ job' = [job EXCEPT !.command = -1] /\ group' = group \ {"child"}
      BY <1>7, <2>3 DEF CommandSucceeds
    <3>4. /\ job'.id = job.id /\ job'.command # 0 /\ job'.command \in Int
          /\ job'.command > 0 => job'.command <= Commands[action]
          /\ Members \subseteq group' => job'.command > 0
      <4>1. CASE /\ job.command < Commands[action] /\ group' = group
                 /\ job' = [job EXCEPT !.command = job.command + 1]
        <5>1. job'.id = job.id /\ job'.command = job.command + 1  BY <1>2, <4>1
        <5> QED BY <3>2, <4>1, <5>1
      <4>2. CASE job' = [job EXCEPT !.command = -1] /\ group' = group \ {"child"}
        <5>1. job'.id = job.id /\ job'.command = -1  BY <1>2, <4>2
        <5> QED BY <3>2, <4>2, <5>1 DEF Members
      <4> QED BY <3>3, <4>1, <4>2
    <3>5. Underway'
      BY <1>1, <1>2, <3>2, <3>3, <3>4 DEF Underway, Absent
    <3>6. Fresh' /\ RightRequest'
      BY <1>1, <1>2, <1>4, <2>1, <3>4 DEF Fresh, Launchable, RightRequest
    <3> QED BY <1>2, <2>1, <3>2, <3>3, <3>5, <3>6, ChainRest
  <2> QED BY <2>2, <2>3
<1>8. CASE CommandFails
  <2>1. group' \subseteq group  BY <1>8 DEF CommandFails
  <2> QED BY <1>2, <1>5, <1>8, <2>1 DEF CommandFails
<1>9. CASE ChainEnds
  <2>1. job.command = -1 /\ group' = {} /\ UNCHANGED <<job, ran, complete>>
    BY <1>9 DEF ChainEnds
  <2>2. pointer' \in complete \cup {Absent}
    BY <1>2, <1>9 DEF ChainEnds, Underway
  <2> QED BY <1>5, <2>1, <2>2
<1>10. CASE TimesOut
  BY <1>2, <1>5, <1>10 DEF TimesOut
<1> QED BY <1>6, <1>7, <1>8, <1>9, <1>10 DEF ChainStep

\* Whatever dies, the files stay; a publisher that dies leaves what it has put.
LEMMA FaultHonoured ==
  ASSUME QInv, Fault \/ Tick
  PROVE  QInv'
<1>1. Inv'
  BY FaultInv DEF QInv
<1>2. /\ UNCHANGED <<asked, file, acked, settled, job, ran, complete, pointer>>
      /\ group' \subseteq group /\ now' <= MaxTime
  <2>1. now \in Nat /\ now <= MaxTime /\ MaxTime \in Nat
    BY QuiesceAssumption DEF QInv, Inv, Types, Shapes
  <2>2. CASE MachineRestarts \/ WatchdogDies \/ SupervisorDies
    BY <2>1, <2>2 DEF MachineRestarts, WatchdogDies, SupervisorDies, clientVars, chainVars
  <2>3. CASE Tick
    BY <2>1, <2>3 DEF Tick, clientVars, chainVars
  <2> QED BY <2>2, <2>3 DEF Fault
<1>3. faults' \in [Faults -> 0..MaxFaults]
  <2>1. faults \in [Faults -> 0..MaxFaults]  BY DEF QInv, Shapes
  <2>2. ASSUME NEW f \in Faults, Strikes(f) PROVE faults' \in [Faults -> 0..MaxFaults]
    BY <2>1, <2>2, QuiesceAssumption DEF Strikes, Faults
  <2> QED BY <2>1, <2>2 DEF Fault, MachineRestarts, WatchdogDies, SupervisorDies, Tick, Faults
<1>4. /\ watchdog' = watchdog \/ (watchdog'.pc = "off" /\ watchdog'.waits = watchdog.waits)
      /\ sup' = sup \/ sup'.pc = "none"
  BY DEF Fault, MachineRestarts, WatchdogDies, SupervisorDies, Tick, Goto, QInv, Inv, Types
<1>5. client' = client \/ client' = [c \in Clients |-> Idle]
  BY DEF Fault, MachineRestarts, WatchdogDies, SupervisorDies, Tick, clientVars
<1>6. /\ Volume /\ Sole /\ Fresh /\ RequestsAreKept /\ RightRequest /\ Underway /\ Publishers
      /\ PointerIsComplete
  BY DEF QInv
<1>7. Publishers'
  <2>1. CASE client' = client
    <3>1. ASSUME NEW d \in Clients PROVE PublisherOf(d)'
      BY <1>2, <1>4, <1>6, <2>1 DEF Publishers, PublisherOf, Empty
    <3> QED BY <1>6, <2>1, <3>1 DEF Publishers, Strangers, Publishing
  <2>2. CASE client' = [c \in Clients |-> Idle]
    BY <2>2 DEF Publishers, PublisherOf, Strangers, Publishing, Idle
  <2> QED BY <1>5, <2>1, <2>2
<1>8. Shapes'
  <2>1. client' \in [Clients -> [pc : ClientPCs, id : Nat, next : 0..4]]
    BY <1>5 DEF QInv, Shapes, Idle, ClientPCs, Absent
  <2> QED BY <1>2, <1>3, <2>1 DEF QInv, Shapes
<1>9. Volume'
  BY <1>2, <1>4, <1>6 DEF Volume
<1>10. Sole' /\ Fresh'
  BY <1>2, <1>4, <1>6 DEF Sole, Fresh, Launchable
<1>11. Underway' /\ RequestsAreKept' /\ PointerIsComplete'
  BY <1>2, <1>6 DEF Underway, RequestsAreKept, PointerIsComplete
<1>12. RightRequest'
  BY <1>2, <1>4, <1>6 DEF RightRequest
<1> QED BY <1>1, <1>7, <1>8, <1>9, <1>10, <1>11, <1>12 DEF QInv

LEMMA InitHonoured == Init => QInv
<1> SUFFICES ASSUME Init PROVE QInv
  OBVIOUS
<1>1. Inv  BY InitInv
<1>2. Shapes
  BY QuiesceAssumption DEF Init, Shapes, Files, Faults, Idle, ClientPCs, Absent, NoJob
<1>3. Publishers
  BY DEF Init, Publishers, PublisherOf, Strangers, Publishing, Idle
<1>4. Volume /\ Sole /\ Fresh /\ RequestsAreKept /\ RightRequest /\ PointerIsComplete
  BY DEF Init, Volume, Sole, Fresh, Launchable, RequestsAreKept, RightRequest, PointerIsComplete, Files, Absent
<1>5. Underway
  BY DEF Init, Underway, NoJob, Members, Absent
<1> QED BY <1>1, <1>2, <1>3, <1>4, <1>5 DEF QInv

LEMMA StepHonoured == QInv /\ [Next]_vars => QInv'
<1> SUFFICES ASSUME QInv, [Next]_vars PROVE QInv'
  OBVIOUS
<1>1. CASE UNCHANGED vars
  BY <1>1 DEF vars, chainVars, clientVars, QInv, Inv, Types, Armed, Alone, Closed, SupHolds, Shapes, Publishers,
     PublisherOf, Strangers, Publishing, Empty, Volume, Sole, Fresh, Launchable, Underway, RequestsAreKept,
     RightRequest, PointerIsComplete
<1>2. CASE ClientStep
  BY <1>2, AskHonoured, PublishHonoured DEF ClientStep
<1> QED
  BY <1>1, <1>2, WatchdogHonoured, SupervisorHonoured, ChainHonoured, FaultHonoured DEF Next

\* manifest.current, and every apply that was asked for, names a manifest whose dry
\* run succeeded, whichever process is killed when (op-wrap: the pointer is written
\* last, by the chain that has run the dry run).
THEOREM ManifestsAreComplete == Spec => []PointerIsComplete
<1>1. QInv => PointerIsComplete
  BY DEF QInv
<1> QED
  BY <1>1, InitHonoured, StepHonoured, PTL DEF Spec

\* The bounds of the types, from those of the shapes.
LEMMA HonouredTypes ==
  ASSUME QInv
  PROVE  TypeOK
<1>1. /\ now \in Nat /\ now <= MaxTime /\ deadline \in Nat /\ file \in [Files -> Nat]
      /\ group \subseteq Members /\ watchdog.pc \in WatchdogPCs /\ sup.pc \in SupPCs
      /\ faults \in [Faults -> 0..MaxFaults] /\ job.started \in Nat /\ job.started <= MaxTime
      /\ Len(asked) \in Nat /\ Len(asked) <= MaxRequests /\ complete \subseteq 1..Len(asked)
      /\ MaxTime \in Nat /\ MaxRequests \in Nat
  BY QuiesceAssumption DEF QInv, Inv, Types, Shapes
<1>2. pointer \in 0..MaxRequests
  BY <1>1 DEF QInv, PointerIsComplete, Absent
<1>3. ASSUME NEW c \in Clients PROVE client[c].id \in 0..MaxRequests
  <2>1. PublisherOf(c)  BY DEF QInv, Publishers
  <2> QED BY <1>1, <2>1 DEF PublisherOf, Absent
<1>4. job.id \in 0..MaxRequests /\ (job.command > 0 => job.command <= Commands[asked[job.id].action])
  BY <1>1 DEF QInv, Underway
<1> QED BY <1>1, <1>2, <1>3, <1>4 DEF TypeOK, WatchdogPCs, SupPCs

\* Only a chain that has just begun takes up a request, and nobody has run it.
LEMMA RunsNewRequest ==
  ASSUME QInv, [Next]_vars, NEW id \in Requests, job'.id = id, job.id # id
  PROVE  id \notin ran
<1>1. id # Absent  BY QuiesceAssumption DEF Requests, Absent
<1>2. ~UNCHANGED job  OBVIOUS
<1>3. \/ LaunchChain \/ Execute \/ CommandSucceeds
  BY <1>2 DEF Next, vars, chainVars, clientVars, ClientStep, Disarm, Ask, PublishLock, CheckFile, PutRequest, PutRun,
     PutRunFails, ClientDies, WatchdogStep, Boot, Restore, TakeLock, GiveUp, ClearRun, ClearRequest, Claim,
     RefuseRun, RefuseRequest, Defer, ClaimRequest, StartSupervisor, SupervisorStep, SupLock, SupGivesUp,
     TermGroup, KillGroup, Release, ChainStep, CommandFails, ChainEnds, TimesOut, Fault, MachineRestarts,
     WatchdogDies, SupervisorDies, Tick
<1>4. job = [id |-> job.id, command |-> job.command, started |-> job.started]
  BY DEF QInv, Inv, Types
<1>5. ~LaunchChain
  BY <1>1 DEF LaunchChain, NoJob
<1>6. ~CommandSucceeds
  BY <1>4 DEF CommandSucceeds
<1>7. Execute
  BY <1>3, <1>5, <1>6
<1>8. id = file["REQUEST.active"]
  BY <1>4, <1>7 DEF Execute
<1> QED
  BY <1>7, <1>8 DEF Execute, QInv, Fresh, Launchable

\* A command that was reported as queued waits, runs, or was refused or finished; a
\* chain executes the request that was published with its RUN, and none is executed
\* a second time (op-wrap publish_request, watchdog.sh process_run and clear_active).
THEOREM RequestsRunOnce == Spec => RequestsAreHonoured
<1>1. QInv => TypeOK /\ RequestsAreKept /\ RightRequest
  BY HonouredTypes DEF QInv
<1>2. QInv /\ [Next]_vars => [\A id \in Requests : job'.id = id /\ job.id # id => id \notin ran]_vars
  BY RunsNewRequest
<1> QED
  BY <1>1, <1>2, InitHonoured, StepHonoured, PTL DEF Spec, RequestsAreHonoured, RunsOnce
=============================================================================
