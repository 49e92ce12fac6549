-------------------------- MODULE ApiProcessProofs --------------------------
(***************************************************************************)
(* The API process, for any number of launches, pieces of work, scopes     *)
(* and rows.                                                               *)
(*                                                                         *)
(* The gate of the vault: one process uses the vault, a stop is final,     *)
(* and what was reported as drained is.                                    *)
(*                                                                         *)
(* The retention job: its pages are bounded, and harmless when stale.      *)
(***************************************************************************)
EXTENDS VaultGate, RetentionJob, FiniteSetTheorems, WellFoundedInduction, TLAPS

\* A process past its flock has the lock of the file it opened; before, it has
\* nothing.
Held ==
  \A p \in Process :
    /\ stage[p] \in Locked => fd[p] \in Inode /\ holder[fd[p]] = p
    /\ stage[p] = "opened" => fd[p] \in Inode
    /\ stage[p] \in {"absent", "prepared", "exited"} => fd[p] = NoInode

\* Until somebody replaces it, there is one lock file.
Unreplaced ==
  replaced = 0 => \A p \in Process : fd[p] # NoInode => fd[p] = path

\* Only a process that has its lock has anything in hand, or looks at the lock.
Busy ==
  /\ \A p \in Process, w \in Work : work[p][w].at # "idle" => stage[p] \in Locked
  /\ \A p \in Process : proof[p].step # "none" => stage[p] \in Locked

\* The registry is open until the gate stops.
SealedByStop == \A p \in Process : registry[p] # "OPEN" => gate[p] = "OFF"

LockInv == TypeOK /\ Held /\ Unreplaced /\ Busy
GateInv == LockInv /\ SealedByStop /\ StoppedIsSealed /\ DrainedIsQuiet

----------------------------------------------------------------------------
Proofs == [step : {"none", "path", "owner", "decide", "device"},
           path : Inode \cup {NoInode}, owner : Process \cup {Nobody}]

\* A collection that goes on, or none, is a collection.
LEMMA ProofTypes ==
  /\ NoProof \in Proofs /\ NoProof.step = "none"
  /\ \A f \in Proofs, s \in {"none", "path", "owner", "decide", "device"} :
       [f EXCEPT !.step = s] \in Proofs
BY DEF NoProof, Proofs

LEMMA InitGate == Init => GateInv
BY GateAssumption DEF Init, GateInv, LockInv, TypeOK, Held, Unreplaced, Busy, SealedByStop,
   StoppedIsSealed, DrainedIsQuiet, Stages, Locked, Registries, Places, Idle, NoProof, Leased

LEMMA SealedIsRegistry ==
  ASSUME TypeOK, NEW p \in Process
  PROVE  Sealed(p) \in Registries \ {"OPEN"}
BY DEF TypeOK, Sealed, Registries

\* Stopping answers those who wait and changes nothing else that is in hand.
LEMMA StopKeepsWork ==
  ASSUME TypeOK, Busy, NEW p \in Process, Stop(p)
  PROVE  /\ gate' \in [Process -> {"PENDING", "ON", "OFF"}]
         /\ registry' \in [Process -> Registries]
         /\ work' \in [Process -> [Work -> [at : Places, left : 0..Operations]]]
         /\ \A q \in Process, w \in Work : work'[q][w].at # "idle" => stage[q] \in Locked
<1>1. Sealed(p) \in Registries
  BY SealedIsRegistry
<1>2. Idle \in [at : Places, left : 0..Operations]
  BY GateAssumption DEF Idle, Places
<1>3. Refused(p) \in [Work -> [at : Places, left : 0..Operations]]
  BY <1>2 DEF Refused, TypeOK
<1>4. \A w \in Work : Refused(p)[w].at # "idle" => work[p][w].at # "idle"
  BY DEF Refused, Idle
<1> QED
  BY <1>1, <1>3, <1>4 DEF Stop, TypeOK, Busy

LEMMA GoneKeeps ==
  ASSUME LockInv, NEW p \in Process, Gone(p)
  PROVE  LockInv'
<1>1. Idle \in [at : Places, left : 0..Operations] /\ NoProof.step = "none"
      /\ NoProof \in [step : {"none", "path", "owner", "decide", "device"},
                      path : Inode \cup {NoInode}, owner : Process \cup {Nobody}]
  BY GateAssumption DEF Idle, Places, NoProof
<1>2. TypeOK'
  BY <1>1 DEF LockInv, TypeOK, Gone, Stages
<1>3. Held'
  BY GateAssumption DEF LockInv, TypeOK, Held, Gone, Locked
<1>4. Unreplaced' /\ Busy'
  <2>1. \A q \in Process : proof'[q].step # "none" => q # p /\ proof[q].step # "none"
    BY <1>1 DEF LockInv, TypeOK, Gone
  <2>2. \A q \in Process, w \in Work :
          work'[q][w].at # "idle" => q # p /\ work[q][w].at # "idle"
    BY DEF LockInv, TypeOK, Gone, Idle
  <2>3. \A q \in Process : q # p => stage'[q] = stage[q] /\ fd'[q] = fd[q]
    BY DEF LockInv, TypeOK, Gone
  <2>4. fd'[p] = NoInode /\ UNCHANGED <<path, replaced>>
    BY DEF LockInv, TypeOK, Gone
  <2> QED
    BY <2>1, <2>2, <2>3, <2>4 DEF LockInv, Unreplaced, Busy
<1> QED
  BY <1>2, <1>3, <1>4 DEF LockInv

LEMMA LaunchKeeps ==
  ASSUME LockInv, NEW p \in Process,
         Prepare(p) \/ Open(p) \/ Flock(p) \/ Launch(p)
  PROVE  LockInv'
<1>1. CASE Prepare(p)
  <2>1. TypeOK'
    BY <1>1 DEF Prepare, LockInv, TypeOK, Stages
  <2>2. Held' /\ Busy'
    BY <1>1 DEF Prepare, LockInv, TypeOK, Held, Busy, Locked
  <2>3. Unreplaced'
    BY <1>1, GateAssumption DEF Prepare, LockInv, Unreplaced, TypeOK
  <2> QED
    BY <2>1, <2>2, <2>3 DEF LockInv
<1>2. CASE Open(p)
  BY <1>2 DEF Open, LockInv, TypeOK, Held, Unreplaced, Busy, Stages, Locked
<1>3. CASE Flock(p)
  <2>1. fd[p] \in Inode
    BY <1>3 DEF Flock, LockInv, Held
  <2>2. TypeOK'
    BY <1>3, <2>1 DEF Flock, LockInv, TypeOK, Stages
  <2>3. Held'
    BY <1>3, <2>1, GateAssumption DEF Flock, LockInv, TypeOK, Held, Locked
  <2>4. Unreplaced' /\ Busy'
    BY <1>3, <2>1 DEF Flock, LockInv, TypeOK, Unreplaced, Busy, Locked
  <2> QED
    BY <2>2, <2>3, <2>4 DEF LockInv
<1>4. CASE Launch(p)
  <2>1. [proof[p] EXCEPT !.step = "path"] \in Proofs /\ proof \in [Process -> Proofs]
    BY ProofTypes DEF LockInv, TypeOK, Proofs
  <2>2. proof' = [proof EXCEPT ![p] = [proof[p] EXCEPT !.step = "path"]]
    BY <1>4 DEF Launch
  <2>3. TypeOK'
    BY <1>4, <2>1, <2>2 DEF Launch, LockInv, TypeOK, Stages, Proofs
  <2>4. Held' /\ Unreplaced'
    BY <1>4 DEF Launch, LockInv, TypeOK, Held, Unreplaced, Locked
  <2>5. Busy'
    BY <1>4, <2>1, <2>2 DEF Launch, LockInv, TypeOK, Busy, Locked
  <2> QED
    BY <2>3, <2>4, <2>5 DEF LockInv
<1> QED
  BY <1>1, <1>2, <1>3, <1>4

LEMMA ProofKeeps ==
  ASSUME LockInv, NEW p \in Process,
         \/ ReadPath(p) \/ ReadOwner(p) \/ Decide(p) \/ Probe(p) \/ Answer(p)
         \/ CheckFails(p) \/ BootTimeout(p) \/ Serve(p) \/ Terminate(p)
  PROVE  LockInv'
<1>1. NoProof \in Proofs
  BY ProofTypes
<1>2. UNCHANGED <<path, holder, replaced, fd>>
  BY DEF ReadPath, ReadOwner, Decide, Probe, Answer, CheckFails, BootTimeout, Serve, Terminate
<1>3. proof' \in [Process -> Proofs]
  <2>1. proof \in [Process -> Proofs]
    BY DEF LockInv, TypeOK, Proofs
  <2>2. CASE ReadPath(p)
    BY <1>1, <2>1, <2>2 DEF ReadPath, LockInv, TypeOK, Proofs
  <2>3. CASE ReadOwner(p)
    <3>1. proof[p].step # "none"
      BY <2>3 DEF ReadOwner
    <3>2. CASE Collecting(p)
      <4>1. holder[fd[p]] \in Process \cup {Nobody}
        BY <3>1 DEF LockInv, TypeOK, Held, Busy
      <4> QED
        BY <1>1, <2>1, <2>3, <4>1, <3>2 DEF ReadOwner, Proofs
    <3>3. CASE ~Collecting(p)
      BY <1>1, <2>1, <2>3, <3>3 DEF ReadOwner
    <3> QED
      BY <3>2, <3>3
  <2>4. CASE Decide(p) \/ Probe(p) \/ Answer(p) \/ CheckFails(p)
    <3>1. [proof[p] EXCEPT !.step = "device"] \in Proofs
      BY <2>1, ProofTypes
    <3> QED
      BY <1>1, <2>1, <2>4, <3>1 DEF Decide, Probe, Answer, CheckFails
  <2>5. CASE BootTimeout(p) \/ Serve(p) \/ Terminate(p)
    BY <2>1, <2>5 DEF BootTimeout, Serve, Terminate
  <2> QED
    BY <2>2, <2>3, <2>4, <2>5
<1>4. /\ stage' \in [Process -> Stages]
      /\ \A q \in Process : stage[q] \in Locked <=> stage'[q] \in Locked
      /\ \A q \in Process : stage[q] \notin Locked => stage'[q] = stage[q]
  BY DEF ReadPath, ReadOwner, Decide, Probe, Answer, CheckFails, BootTimeout, Serve,
     Terminate, LockInv, TypeOK, Stages, Locked
<1>5. /\ gate' \in [Process -> {"PENDING", "ON", "OFF"}]
      /\ registry' \in [Process -> Registries]
      /\ work' \in [Process -> [Work -> [at : Places, left : 0..Operations]]]
      /\ \A q \in Process, w \in Work : work'[q][w].at # "idle" => stage[q] \in Locked
  <2>1. CASE Stop(p)
    BY <2>1, StopKeepsWork DEF LockInv
  <2>2. CASE UNCHANGED <<gate, registry, work>>
    BY <2>2 DEF LockInv, TypeOK, Busy
  <2>3. CASE Settle(p) /\ UNCHANGED <<registry, work>>
    BY <2>3 DEF LockInv, TypeOK, Busy, Settle
  <2>4. CASE /\ work' = [work EXCEPT ![p] =
                           [w \in Work |-> IF work[p][w].at = "asking"
                                           THEN [work[p][w] EXCEPT !.at = "granted"]
                                           ELSE work[p][w]]]
             /\ UNCHANGED <<gate, registry>>
    <3>1. \A w \in Work : work[p][w] \in [at : Places, left : 0..Operations]
      BY DEF LockInv, TypeOK
    <3>2. \A i \in [at : Places, left : 0..Operations] :
            [i EXCEPT !.at = "granted"] \in [at : Places, left : 0..Operations]
      BY DEF Places
    <3>3. work'[p] \in [Work -> [at : Places, left : 0..Operations]]
      BY <2>4, <3>1, <3>2 DEF LockInv, TypeOK
    <3>4. work' \in [Process -> [Work -> [at : Places, left : 0..Operations]]]
      BY <2>4, <3>3 DEF LockInv, TypeOK
    <3>5. \A q \in Process, w \in Work : work'[q][w].at # "idle" => work[q][w].at # "idle"
      BY <2>4, <3>1 DEF LockInv, TypeOK
    <3> QED
      BY <2>4, <3>4, <3>5 DEF LockInv, TypeOK, Busy
  <2> QED
    BY <2>1, <2>2, <2>3, <2>4 DEF ReadPath, ReadOwner, Decide, Probe, Answer, CheckFails,
       BootTimeout, Serve, Terminate
<1>6. TypeOK'
  BY <1>2, <1>3, <1>4, <1>5 DEF LockInv, TypeOK, Proofs
<1>7. Held'
  BY <1>2, <1>4 DEF LockInv, Held, Locked
<1>8. \A q \in Process : proof'[q].step # "none" => proof[q].step # "none"
  BY DEF ReadPath, ReadOwner, Decide, Probe, Answer, CheckFails, BootTimeout, Serve,
     Terminate, LockInv, TypeOK, NoProof
<1>9. Unreplaced' /\ Busy'
  BY <1>2, <1>4, <1>5, <1>8 DEF LockInv, Unreplaced, Busy
<1> QED
  BY <1>6, <1>7, <1>9 DEF LockInv

LEMMA WorkKeeps ==
  ASSUME LockInv, NEW p \in Process, NEW w \in Work,
         Ask(p, w) \/ Enter(p, w) \/ Begin(p, w) \/ End(p, w) \/ Close(p, w)
  PROVE  LockInv'
<1> DEFINE Item == [at : Places, left : 0..Operations]
<1>1. UNCHANGED <<path, holder, replaced, fd, stage, gate, registry>>
  BY DEF Ask, Enter, Begin, End, Close
<1>2. stage[p] \in Locked
  BY DEF Ask, Enter, Begin, End, Close, LockInv, Busy, Locked
<1>3. \E i \in Item : work' = [work EXCEPT ![p][w] = i]
  <2>1. Idle \in Item /\ work[p][w] \in Item /\ Operations \in Nat
    BY GateAssumption DEF Idle, Places, LockInv, TypeOK
  <2>2. CASE Ask(p, w)
    <3>1. PICK n \in 1..Operations : work' = [work EXCEPT ![p][w] = [at |-> "asking", left |-> n]]
      BY <2>2 DEF Ask, Move
    <3>2. [at |-> "asking", left |-> n] \in Item
      BY <2>1 DEF Places
    <3> QED
      BY <3>1, <3>2
  <2>3. CASE Enter(p, w)
    BY <2>1, <2>3 DEF Enter, Move, Places
  <2>4. CASE Begin(p, w)
    BY <2>1, <2>4 DEF Begin, Move, Places
  <2>5. CASE End(p, w) \/ Close(p, w)
    BY <2>1, <2>5 DEF End, Close, Move, Places
  <2> QED
    BY <2>2, <2>3, <2>4, <2>5
<1>4. /\ proof' \in [Process -> Proofs]
      /\ \A q \in Process : proof'[q].step # "none" => q = p \/ proof[q].step # "none"
  <2>1. proof \in [Process -> Proofs]
    BY DEF LockInv, TypeOK, Proofs
  <2>2. CASE Ask(p, w)
    <3>1. PICK s \in {"none", "path", "owner", "decide", "device"} :
            proof' = [proof EXCEPT ![p].step = s]
      BY <2>1, <2>2 DEF Ask, Proofs
    <3>2. proof' = [proof EXCEPT ![p] = [proof[p] EXCEPT !.step = s]]
      BY <3>1
    <3>3. [proof[p] EXCEPT !.step = s] \in Proofs
      BY <2>1, ProofTypes
    <3> QED
      BY <2>1, <3>2, <3>3
  <2>3. CASE UNCHANGED proof
    BY <2>1, <2>3
  <2> QED
    BY <2>2, <2>3 DEF Enter, Begin, End, Close
<1>5. TypeOK'
  <2>1. work' \in [Process -> [Work -> Item]]
    BY <1>3 DEF LockInv, TypeOK
  <2> QED
    BY <1>1, <1>4, <2>1 DEF LockInv, TypeOK, Proofs
<1>6. Held' /\ Unreplaced'
  BY <1>1 DEF LockInv, Held, Unreplaced
<1>7. Busy'
  <2>1. \A q \in Process, v \in Work : work'[q][v].at # "idle" => q = p \/ work[q][v].at # "idle"
    BY <1>3 DEF LockInv, TypeOK
  <2> QED
    BY <1>1, <1>2, <1>4, <2>1 DEF LockInv, Busy
<1> QED
  BY <1>5, <1>6, <1>7 DEF LockInv

LEMMA DrainKeeps ==
  ASSUME LockInv, NEW p \in Process, Drain(p) \/ DrainTimeout(p)
  PROVE  LockInv'
BY DEF Drain, DrainTimeout, LockInv, TypeOK, Held, Unreplaced, Busy, Registries

LEMMA ReplaceKeeps == ASSUME LockInv, Replace PROVE LockInv'
<1>1. replaced' \in 0..MaxReplace /\ replaced' # 0
  BY GateAssumption DEF Replace, LockInv, TypeOK
<1> QED
  BY <1>1 DEF Replace, LockInv, TypeOK, Held, Unreplaced, Busy

LEMMA LockInvIsInductive ==
  ASSUME LockInv, [Next]_vars
  PROVE  LockInv'
<1>1. CASE \E p \in Process : Prepare(p) \/ Open(p) \/ Flock(p) \/ Launch(p)
  BY <1>1, LaunchKeeps
<1>2. CASE \E p \in Process : GiveUp(p) \/ Exit(p) \/ Crash(p)
  BY <1>2, GoneKeeps DEF GiveUp, Exit, Crash
<1>3. CASE \E p \in Process :
             \/ ReadPath(p) \/ ReadOwner(p) \/ Decide(p) \/ Probe(p) \/ Answer(p)
             \/ CheckFails(p) \/ BootTimeout(p) \/ Serve(p) \/ Terminate(p)
  BY <1>3, ProofKeeps
<1>4. CASE \E p \in Process, w \in Work :
             Ask(p, w) \/ Enter(p, w) \/ Begin(p, w) \/ End(p, w) \/ Close(p, w)
  BY <1>4, WorkKeeps
<1>5. CASE \E p \in Process : Drain(p) \/ DrainTimeout(p)
  BY <1>5, DrainKeeps
<1>6. CASE Replace
  BY <1>6, ReplaceKeeps
<1>7. CASE UNCHANGED vars
  BY <1>7 DEF vars, LockInv, TypeOK, Held, Unreplaced, Busy
<1> QED
  BY <1>1, <1>2, <1>3, <1>4, <1>5, <1>6, <1>7 DEF Next

\* The lock of the one lock file has one holder.
LEMMA OneHolder == LockInv => SoleUser
<1> SUFFICES ASSUME LockInv, NEW p \in Process, NEW q \in Process,
                    Using(p) # {}, Using(q) # {}, p # q
             PROVE  replaced > 0
  BY DEF SoleUser
<1>1. stage[p] \in Locked /\ stage[q] \in Locked
  BY DEF Using, LockInv, Busy
<1>2. /\ fd[p] \in Inode /\ holder[fd[p]] = p
      /\ fd[q] \in Inode /\ holder[fd[q]] = q
  BY <1>1 DEF LockInv, Held
<1>3. replaced # 0
  BY <1>2, GateAssumption DEF LockInv, Unreplaced
<1> QED
  BY <1>3, GateAssumption DEF LockInv, TypeOK

\* The types of the gate: launches, stops, work and replaced lock files.
THEOREM GateTypes == Spec => []TypeOK
<1>1. Init => LockInv
  BY InitGate DEF GateInv
<1>2. LockInv /\ [Next]_vars => LockInv'
  BY LockInvIsInductive
<1>3. LockInv => TypeOK
  BY DEF LockInv
<1> QED
  BY <1>1, <1>2, <1>3, PTL DEF Spec

\* Flock, the launch and the exit of any number of processes: one at a time uses
\* the vault until somebody replaces its lock file.
THEOREM OneProcessUsesTheVault == Spec => []SoleUser
<1>1. Init => LockInv
  BY InitGate DEF GateInv
<1>2. LockInv /\ [Next]_vars => LockInv'
  BY LockInvIsInductive
<1> QED
  BY <1>1, <1>2, OneHolder, PTL DEF Spec

----------------------------------------------------------------------------
(* The stop *)

\* A stop seals the registry, answers whoever waits and drains at once only if
\* there is nothing to drain.
LEMMA StopSeals ==
  ASSUME TypeOK, SealedByStop, StoppedIsSealed, DrainedIsQuiet, NEW p \in Process, Stop(p)
  PROVE  /\ \A q \in Process : gate[q] # "PENDING" => gate'[q] \in {gate[q], "OFF"}
         /\ SealedByStop' /\ StoppedIsSealed' /\ DrainedIsQuiet'
<1>1. /\ \A q \in Process : q # p => gate'[q] = gate[q] /\ registry'[q] = registry[q] /\ work'[q] = work[q]
      /\ gate'[p] = "OFF" /\ registry'[p] = Sealed(p) /\ work'[p] = Refused(p)
  BY DEF Stop, TypeOK
<1>2. Sealed(p) # "OPEN"
  BY SealedIsRegistry
<1>3. \A w \in Work : Refused(p)[w].at # "asking"
  BY DEF Refused, Idle
<1>4. Sealed(p) = "DRAINED" => Leased(p) = {}
  BY DEF Sealed, DrainedIsQuiet
<1>5. \A w \in Work : Refused(p)[w].at \in {"entered", "operating", "closing", "stuck"}
                         => work[p][w].at \in {"entered", "operating", "closing", "stuck"}
  BY DEF Refused, Idle
<1>6. Leased(p)' \subseteq Leased(p)
  BY <1>1, <1>5 DEF Leased
<1>7. \A q \in Process : q # p => Leased(q)' = Leased(q)
  BY <1>1 DEF Leased
<1>8. SealedByStop' /\ StoppedIsSealed'
  BY <1>1, <1>2, <1>3 DEF SealedByStop, StoppedIsSealed
<1>9. DrainedIsQuiet'
  BY <1>1, <1>4, <1>6, <1>7 DEF DrainedIsQuiet
<1> QED
  BY <1>1, <1>8, <1>9

\* What happens to the gate and the registry of a process otherwise, in terms of
\* what it has in hand.
Calm(p) ==
  /\ \A q \in Process : q # p =>
       gate'[q] = gate[q] /\ registry'[q] = registry[q] /\ work'[q] = work[q]
  /\ gate'[p] = gate[p] \/ (gate[p] = "PENDING" /\ gate'[p] = "ON")
  /\ registry'[p] = registry[p] \/ (gate[p] = "OFF" /\ registry'[p] # "OPEN")
  /\ registry'[p] = "DRAINED" => Leased(p)' = {}
  /\ gate[p] = "OFF" => \A w \in Work : work'[p][w].at = "asking" => work[p][w].at = "asking"

LEMMA CalmKeeps ==
  ASSUME SealedByStop, StoppedIsSealed, DrainedIsQuiet, NEW p \in Process, Calm(p)
  PROVE  /\ \A q \in Process : gate[q] # "PENDING" => gate'[q] \in {gate[q], "OFF"}
         /\ SealedByStop' /\ StoppedIsSealed' /\ DrainedIsQuiet'
<1>1. \A q \in Process : q # p => Leased(q)' = Leased(q)
  BY DEF Calm, Leased
<1>2. DrainedIsQuiet'
  BY <1>1 DEF Calm, DrainedIsQuiet
<1>3. SealedByStop' /\ StoppedIsSealed'
  BY DEF Calm, SealedByStop, StoppedIsSealed
<1> QED
  BY <1>2, <1>3 DEF Calm

LEMMA QuietStepIsCalm ==
  ASSUME LockInv, SealedByStop, StoppedIsSealed, DrainedIsQuiet, NEW p \in Process,
         \/ Gone(p)
         \/ UNCHANGED <<gate, registry, work>>
         \/ Settle(p) /\ UNCHANGED <<registry, work>>
         \/ Drain(p) \/ DrainTimeout(p)
  PROVE  Calm(p)
<1>1. CASE Gone(p)
  <2>1. Leased(p)' = {}
    BY <1>1 DEF Gone, Leased, Idle, LockInv, TypeOK
  <2> QED
    <3>1. /\ \A q \in Process : q # p => work'[q] = work[q]
          /\ \A w \in Work : work'[p][w].at # "asking"
      BY <1>1 DEF Gone, Idle, LockInv, TypeOK
    <3> QED
      BY <1>1, <2>1, <3>1 DEF Gone, Calm
<1>2. CASE UNCHANGED <<gate, registry, work>>
  <2>1. Leased(p)' = Leased(p)
    BY <1>2 DEF Leased
  <2> QED
    BY <1>2, <2>1 DEF Calm, DrainedIsQuiet
<1>3. CASE Settle(p) /\ UNCHANGED <<registry, work>>
  <2>1. Leased(p)' = Leased(p)
    BY <1>3 DEF Leased
  <2>2. /\ \A q \in Process : q # p => gate'[q] = gate[q]
        /\ gate'[p] = gate[p] \/ (gate[p] = "PENDING" /\ gate'[p] = "ON")
    BY <1>3 DEF Settle, LockInv, TypeOK
  <2> QED
    BY <1>3, <2>1, <2>2 DEF Calm, DrainedIsQuiet
<1>4. CASE Drain(p) \/ DrainTimeout(p)
  <2>1. gate[p] = "OFF" /\ UNCHANGED <<gate, work>>
    BY <1>4 DEF Drain, DrainTimeout, SealedByStop
  <2> QED
    <3>1. Leased(p)' = Leased(p)
      BY <2>1 DEF Leased
    <3>2. /\ \A q \in Process : q # p => registry'[q] = registry[q]
          /\ registry'[p] # "OPEN"
          /\ registry'[p] = "DRAINED" => Leased(p) = {}
      BY <1>4 DEF Drain, DrainTimeout, LockInv, TypeOK
    <3> QED
      BY <2>1, <3>1, <3>2 DEF Calm
<1> QED
  BY <1>1, <1>2, <1>3, <1>4

LEMMA AnswerIsCalm ==
  ASSUME LockInv, DrainedIsQuiet, NEW p \in Process,
         UNCHANGED <<gate, registry>>,
         work' = [work EXCEPT ![p] =
                    [w \in Work |-> IF work[p][w].at = "asking"
                                    THEN [work[p][w] EXCEPT !.at = "granted"]
                                    ELSE work[p][w]]]
  PROVE  Calm(p)
<1>1. \A w \in Work : work[p][w] \in [at : Places, left : 0..Operations]
  BY DEF LockInv, TypeOK
<1>2. \A w \in Work : /\ work'[p][w].at # "asking"
                       /\ work'[p][w].at # "granted" => work'[p][w] = work[p][w]
  BY <1>1 DEF LockInv, TypeOK
<1>3. Leased(p)' = Leased(p)
  BY <1>1, <1>2 DEF Leased
<1> QED
  <2>1. \A q \in Process : q # p => work'[q] = work[q]
    BY DEF LockInv, TypeOK
  <2> QED
    BY <1>2, <1>3, <2>1 DEF Calm, DrainedIsQuiet

LEMMA WorkIsCalm ==
  ASSUME LockInv, SealedByStop, DrainedIsQuiet, NEW p \in Process, NEW w \in Work,
         Ask(p, w) \/ Enter(p, w) \/ Begin(p, w) \/ End(p, w) \/ Close(p, w)
  PROVE  Calm(p)
<1>1. UNCHANGED <<gate, registry>>
  BY DEF Ask, Enter, Begin, End, Close
<1>2. PICK i : work' = [work EXCEPT ![p][w] = i]
  BY DEF Ask, Enter, Begin, End, Close, Move
<1>3. work'[p][w] = i /\ \A v \in Work : v # w => work'[p][v] = work[p][v]
  BY <1>2 DEF LockInv, TypeOK
<1>4. gate[p] = "OFF" => i.at # "asking"
  <2>1. CASE Ask(p, w)
    BY <2>1 DEF Ask
  <2>2. CASE Enter(p, w) \/ Begin(p, w) \/ End(p, w) \/ Close(p, w)
    <3>1. work[p][w] \in [at : Places, left : 0..Operations]
      BY DEF LockInv, TypeOK
    <3> QED
      BY <1>3, <2>2, <3>1 DEF Enter, Begin, End, Close, Move, Idle, LockInv, TypeOK
  <2> QED
    BY <2>1, <2>2
<1>5. registry[p] # "OPEN" => Leased(p)' \subseteq Leased(p)
  <2>1. work[p][w] \in [at : Places, left : 0..Operations]
    BY DEF LockInv, TypeOK
  <2>2. SUFFICES ASSUME registry[p] # "OPEN", w \notin Erasure,
                        i.at \in {"entered", "operating", "closing", "stuck"}
                 PROVE  work[p][w].at \in {"entered", "operating", "closing", "stuck"}
    BY <1>3 DEF Leased
  <2>3. gate[p] = "OFF"
    BY <2>2 DEF SealedByStop
  <2> QED
    BY <1>3, <2>1, <2>2, <2>3 DEF Ask, Enter, Begin, End, Close, Move, Idle, LockInv, TypeOK
<1>6. registry[p] = "DRAINED" => Leased(p)' = {}
  BY <1>5 DEF DrainedIsQuiet
<1> QED
  <2>1. \A q \in Process : q # p => work'[q] = work[q]
    BY <1>2 DEF LockInv, TypeOK
  <2> QED
    BY <1>1, <1>3, <1>4, <1>6, <2>1 DEF Calm

\* Every step keeps the stop final and the sealed registry sealed.
LEMMA StepSeals ==
  ASSUME GateInv, [Next]_vars
  PROVE  /\ \A q \in Process : gate[q] # "PENDING" => gate'[q] \in {gate[q], "OFF"}
         /\ SealedByStop' /\ StoppedIsSealed' /\ DrainedIsQuiet'
<1> DEFINE Final == /\ \A q \in Process : gate[q] # "PENDING" => gate'[q] \in {gate[q], "OFF"}
                    /\ SealedByStop' /\ StoppedIsSealed' /\ DrainedIsQuiet'
<1> USE DEF GateInv
<1>1. ASSUME NEW p \in Process, Stop(p) PROVE Final
  BY <1>1, StopSeals DEF LockInv
<1>2. ASSUME NEW p \in Process, Calm(p) PROVE Final
  BY <1>2, CalmKeeps
<1>3. CASE UNCHANGED <<gate, registry, work>>
  BY <1>3 DEF SealedByStop, StoppedIsSealed, DrainedIsQuiet, Leased
<1>4. ASSUME NEW p \in Process, GiveUp(p) \/ Exit(p) \/ Crash(p) \/ Drain(p) \/ DrainTimeout(p)
      PROVE  Final
  <2>1. Gone(p) \/ Drain(p) \/ DrainTimeout(p)
    BY <1>4 DEF GiveUp, Exit, Crash
  <2> QED
    BY <2>1, <1>2, QuietStepIsCalm
<1>5. ASSUME NEW p \in Process, NEW w \in Work,
             Ask(p, w) \/ Enter(p, w) \/ Begin(p, w) \/ End(p, w) \/ Close(p, w)
      PROVE  Final
  BY <1>5, <1>2, WorkIsCalm
<1>6. ASSUME NEW p \in Process, Probe(p) PROVE Final
  BY <1>6, <1>2, QuietStepIsCalm DEF Probe
<1>7. ASSUME NEW p \in Process, Answer(p) PROVE Final
  BY <1>7, <1>1, <1>2, <1>3, AnswerIsCalm DEF Answer
<1>8. ASSUME NEW p \in Process,
             \/ Prepare(p) \/ Open(p) \/ Flock(p) \/ Launch(p) \/ ReadPath(p) \/ ReadOwner(p)
             \/ Decide(p) \/ CheckFails(p) \/ BootTimeout(p) \/ Serve(p) \/ Terminate(p)
      PROVE  Final
  <2>1. UNCHANGED <<gate, registry, work>> \/ Stop(p)
    BY <1>8 DEF Prepare, Open, Flock, Launch, ReadPath, ReadOwner, Decide, CheckFails,
       BootTimeout, Serve, Terminate
  <2> QED
    BY <2>1, <1>1, <1>3
<1>9. CASE Replace
  BY <1>9, <1>3 DEF Replace
<1>10. CASE UNCHANGED vars
  BY <1>10, <1>3 DEF vars
<1> QED
  BY <1>4, <1>5, <1>6, <1>7, <1>8, <1>9, <1>10 DEF Next

LEMMA GateInvIsInductive == ASSUME GateInv, [Next]_vars PROVE GateInv'
<1>1. LockInv'
  BY LockInvIsInductive DEF GateInv
<1> QED
  BY <1>1, StepSeals DEF GateInv

\* Late answers of the boot, of a recheck or of a timer never bring a stopped gate
\* back, in startVaultBoot's settle, fail, terminate and recheck.
THEOREM StopStays == Spec => StopIsFinal
<1>1. Init => GateInv
  BY InitGate
<1>2. GateInv /\ [Next]_vars => GateInv'
  BY GateInvIsInductive
<1>3. GateInv /\ [Next]_vars =>
        [\A p \in Process : gate[p] # "PENDING" => gate'[p] \in {gate[p], "OFF"}]_vars
  BY StepSeals
<1> QED
  BY <1>1, <1>2, <1>3, PTL DEF Spec, StopIsFinal

\* A gate that is OFF lets nobody in and keeps nobody waiting, and a registry that
\* reported DRAINED has no open lease and never gets one.
THEOREM StopIsClean == Spec => []StoppedIsQuiet
<1>1. Init => GateInv
  BY InitGate
<1>2. GateInv /\ [Next]_vars => GateInv'
  BY GateInvIsInductive
<1>3. GateInv => StoppedIsQuiet
  BY DEF GateInv, StoppedIsQuiet
<1> QED
  BY <1>1, <1>2, <1>3, PTL DEF Spec

----------------------------------------------------------------------------
(* The retention job: pages *)

LEMMA LeastNumber ==
  ASSUME NEW S \in SUBSET Nat, S # {}
  PROVE  \E m \in S : \A n \in S : m <= n
<1> DEFINE T == {S \cap (0..n) : n \in S}
<1>1. T \subseteq FiniteSubsetsOf(S) /\ T # {}
  <2>1. ASSUME NEW n \in S PROVE IsFiniteSet(S \cap (0..n))
    <3>1. IsFiniteSet(0..n)
      BY FS_Interval
    <3>2. (S \cap (0..n)) \in SUBSET (0..n)
      OBVIOUS
    <3> QED BY <3>1, <3>2, FS_Subset
  <2> QED BY <2>1 DEF FiniteSubsetsOf
<1>2. IsWellFoundedOn(StrictSubsetOrdering(S), FiniteSubsetsOf(S))
  BY FS_StrictSubsetOrderingWellFounded
<1> HIDE DEF T
<1>3. PICK X \in T : \A Y \in T : ~ (<<Y, X>> \in StrictSubsetOrdering(S))
  BY <1>1, <1>2, WFMin
<1>4. PICK m \in S : X = S \cap (0..m)
  BY DEF T
<1>5. ASSUME NEW n \in S, n < m PROVE FALSE
  <2>1. S \cap (0..n) \in T
    BY DEF T
  <2>2. S \cap (0..n) \subseteq X /\ m \in X /\ m \notin S \cap (0..n)
    BY <1>4, <1>5
  <2>3. <<S \cap (0..n), X>> \in StrictSubsetOrdering(S)
    BY <2>2, <1>4 DEF StrictSubsetOrdering
  <2> QED BY <1>3, <2>1, <2>3
<1> QED BY <1>5


LEMMA MinIsLeast ==
  ASSUME NEW S \in SUBSET Nat, S # {}
  PROVE  Min(S) \in S /\ \A n \in S : Min(S) <= n
BY LeastNumber DEF Min

\* The ranks of the rows of a page are below n and no two rows have the same.
LEMMA PageIsBounded ==
  ASSUME NEW S \in SUBSET Nat, IsFiniteSet(S), NEW n \in Nat
  PROVE  LET P == {x \in S : Cardinality({y \in S : y < x}) < n}
         IN  IsFiniteSet(P) /\ P \subseteq S /\ Cardinality(P) <= n
<1> DEFINE Below(x) == {y \in S : y < x}
           P == {x \in S : Cardinality(Below(x)) < n}
           rank == [x \in P |-> Cardinality(Below(x))]
<1>1. \A x \in S : IsFiniteSet(Below(x)) /\ Cardinality(Below(x)) \in Nat
  BY FS_Subset, FS_CardinalityType
<1>2. ASSUME NEW x \in S, NEW y \in S, x < y
      PROVE  Cardinality(Below(x)) < Cardinality(Below(y))
  <2>1. Below(x) \in SUBSET Below(y) /\ x \in Below(y) /\ x \notin Below(x)
    <3>1. x \in Nat /\ y \in Nat
      OBVIOUS
    <3>2. \A z \in Nat : z < x => z < y
      BY <1>2, <3>1
    <3>3. ~(x < x)
      BY <3>1
    <3> QED BY <1>2, <3>2, <3>3
  <2>2. IsFiniteSet(Below(x)) /\ IsFiniteSet(Below(y))
    BY <1>1
  <2> HIDE DEF Below
  <2>3. Cardinality(Below(x)) <= Cardinality(Below(y)) /\ Cardinality(Below(x)) # Cardinality(Below(y))
    BY <2>1, <2>2, FS_Subset
  <2> QED BY <2>3, <1>1
<1>3. rank \in Injection(P, 0 .. n - 1)
  <2> HIDE DEF Below
  <2>1. \A x \in P : rank[x] \in 0 .. n - 1
    BY <1>1
  <2>2. ASSUME NEW x \in P, NEW y \in P, rank[x] = rank[y] PROVE x = y
    <3>1. x \in Nat /\ y \in Nat /\ Cardinality(Below(x)) = Cardinality(Below(y))
          /\ Cardinality(Below(x)) \in Nat
      BY <2>2, <1>1
    <3>2. ~(x < y) /\ ~(y < x)
      BY <3>1, <1>2
    <3> QED BY <3>1, <3>2
  <2>3. rank \in [P -> 0 .. n - 1]
    BY <2>1
  <2> HIDE DEF P, rank
  <2> QED BY <2>2, <2>3 DEF Injection, IsInjective
<1>4. IsFiniteSet(0 .. n - 1) /\ Cardinality(0 .. n - 1) = n
  BY FS_Interval
<1> HIDE DEF rank
<1>5. IsFiniteSet(P) /\ Cardinality(P) <= n
  <2> HIDE DEF P
  <2> QED BY <1>3, <1>4, FS_Injection
<1> QED BY <1>5

LEMMA PagesAreBounded ==
  /\ \A n \in 0..Limit, S \in SUBSET Ids :
       Page(n, S) \in SUBSET Ids /\ IsFiniteSet(Page(n, S)) /\ Cardinality(Page(n, S)) \in 0..n
  /\ \A S \in SUBSET Scopes :
       /\ Rotation!First(ScopesPerCycle, S) \subseteq S
       /\ Cardinality(Rotation!First(ScopesPerCycle, S)) <= ScopesPerCycle
<1>1. ASSUME NEW n \in 0..Limit, NEW S \in SUBSET Ids
      PROVE  Page(n, S) \in SUBSET Ids /\ IsFiniteSet(Page(n, S)) /\ Cardinality(Page(n, S)) \in 0..n
  <2>1. IsFiniteSet(S) /\ S \in SUBSET Nat /\ n \in Nat /\ n \in 0..Limit
    <3>1. IsFiniteSet(S)
      BY ReaperAssumption, FS_Subset
    <3> QED BY <3>1, ReaperAssumption
  <2>2. IsFiniteSet(Page(n, S)) /\ Page(n, S) \subseteq S /\ Cardinality(Page(n, S)) <= n
    BY <2>1, PageIsBounded DEF Page
  <2>3. Cardinality(Page(n, S)) \in Nat
    BY <2>2, FS_CardinalityType
  <2>4. Page(n, S) \in SUBSET Ids
    BY <2>2
  <2> HIDE DEF Page
  <2> QED BY <2>1, <2>2, <2>3, <2>4
<1>2. ASSUME NEW S \in SUBSET Scopes
      PROVE  /\ Rotation!First(ScopesPerCycle, S) \subseteq S
             /\ Cardinality(Rotation!First(ScopesPerCycle, S)) <= ScopesPerCycle
  <2>1. IsFiniteSet(S) /\ S \in SUBSET Nat /\ ScopesPerCycle \in Nat
    <3>1. IsFiniteSet(S)
      BY JobAssumption, FS_Subset
    <3> QED BY <3>1, JobAssumption
  <2>2. Rotation!First(ScopesPerCycle, S) = {x \in S : Cardinality({y \in S : y < x}) < ScopesPerCycle}
    BY DEF Rotation!First, Rotation!Cardinality, Cardinality
  <2>3. LET P == {x \in S : Cardinality({y \in S : y < x}) < ScopesPerCycle}
        IN  P \subseteq S /\ Cardinality(P) <= ScopesPerCycle
    BY <2>1, PageIsBounded
  <2> QED BY <2>2, <2>3
<1> QED BY <1>1, <1>2

LEMMA SameOperators ==
  \A S : Rotation!Cardinality(S) = Cardinality(S) /\ Rotation!Min(S) = Min(S)
BY DEF Rotation!Cardinality, Cardinality, Rotation!Min, Min

----------------------------------------------------------------------------
(* The cycle of one scope *)

\* While late sessions are closed, the rest of the page is paid for out of the limit.
ReaperInv == ReaperTypeOK /\ (phase = "EXPIRE" => Cardinality(page) <= left)

LEMMA InitReaper == ReaperInit => ReaperInv
BY ReaperAssumption DEF ReaperInit, ReaperInv, ReaperTypeOK

LEMMA SubsetsOfIds ==
  /\ DueFiles \in SUBSET Ids /\ DueDocs \in SUBSET Ids /\ LateSessions \in SUBSET Ids
  /\ {i \in Ids : text[i] = "DUE"} \in SUBSET Ids
BY DEF DueFiles, DueDocs, LateSessions

\* A row of a page is handled, and the page gets shorter by it.
LEMMA HandledRow ==
  ASSUME ReaperInv, NEW p, NEW i \in Ids, Handle(p, i)
  PROVE  /\ phase = p /\ phase' = p
         /\ i \in page /\ page' = page \ {i} /\ page' \subseteq Ids
         /\ Cardinality(page) \in Nat /\ Cardinality(page') = Cardinality(page) - 1
<1>1. page \in SUBSET Ids /\ page # {} /\ i = Min(page) /\ page' = page \ {i}
      /\ phase = p /\ phase' = p
  BY DEF Handle, AtRow, ReaperInv, ReaperTypeOK
<1>2. i \in page
  BY <1>1, MinIsLeast, ReaperAssumption
<1>3. IsFiniteSet(page)
  BY <1>1, FS_Subset, ReaperAssumption
<1>4. Cardinality(page) \in Nat /\ Cardinality(page \ {i}) = Cardinality(page) - 1
  BY <1>2, <1>3, FS_CardinalityType, FS_RemoveElement
<1> QED BY <1>1, <1>2, <1>4

LEMMA RestIsSound ==
  ASSUME ReaperInv, Rest, UNCHANGED rows, mishaps' \in 0..MaxMishaps
  PROVE  ReaperInv'
BY ReaperAssumption DEF ReaperInv, ReaperTypeOK, Rest, rows

LEMMA PageReadIsSound ==
  ASSUME ReaperInv, NEW p \in {"TEXT", "EXPIRE", "FILES", "DOCS"}, NEW n \in 0..Limit,
         NEW S \in SUBSET Ids, ReadPage(p, Page(n, S)), UNCHANGED <<rows, mishaps>>,
         left' \in 0..Limit, p = "EXPIRE" => n = left'
  PROVE  ReaperInv'
<1>1. page' = Page(n, S) /\ phase' = p
  BY DEF ReadPage
<1>2. page' \subseteq Ids /\ Cardinality(page') \in 0..n
  BY <1>1, PagesAreBounded
<1>3. ReaperTypeOK'
  BY <1>1, <1>2 DEF ReaperInv, ReaperTypeOK, rows
<1> HIDE DEF Page
<1>4. p = "EXPIRE" => Cardinality(page') <= left'
  BY <1>2
<1> QED BY <1>1, <1>3, <1>4 DEF ReaperInv

LEMMA ReadsAreSound ==
  ASSUME ReaperInv, BeginCycle \/ ReadLate \/ ReadFiles \/ ReadDocs
  PROVE  ReaperInv'
<1>1. left \in 0..Limit /\ Limit \in 0..Limit /\ left \in Nat /\ mishaps \in 0..MaxMishaps
  BY ReaperAssumption DEF ReaperInv, ReaperTypeOK
<1>2. CASE BeginCycle
  <2>1. ReadPage("TEXT", Page(Limit, {i \in Ids : text[i] = "DUE"})) /\ UNCHANGED <<rows, mishaps>>
        /\ left' \in 0..Limit
    BY <1>1, <1>2 DEF BeginCycle
  <2> QED BY <1>1, <2>1, SubsetsOfIds, PageReadIsSound
<1>3. CASE ReadLate
  <2>1. ReadPage("EXPIRE", Page(left, LateSessions)) /\ UNCHANGED <<rows, left, mishaps>>
    BY <1>3 DEF ReadLate
  <2> QED BY <1>1, <2>1, SubsetsOfIds, PageReadIsSound
<1>4. CASE ReadFiles
  <2>1. UNCHANGED <<rows, mishaps>>
    BY <1>4 DEF ReadFiles
  <2>2. CASE Rest
    BY <1>1, <2>1, <2>2, RestIsSound
  <2>3. CASE ReadPage("FILES", Page(left, DueFiles)) /\ left' = left - Cardinality(page')
    <3>1. page' = Page(left, DueFiles)
      BY <2>3 DEF ReadPage
    <3>2. Cardinality(page') \in 0..left
      BY <1>1, <3>1, SubsetsOfIds, PagesAreBounded
    <3>3. left' \in 0..Limit
      BY <1>1, <2>3, <3>2
    <3> QED BY <1>1, <2>1, <2>3, <3>3, SubsetsOfIds, PageReadIsSound
  <2> QED BY <1>4, <2>2, <2>3 DEF ReadFiles
<1>5. CASE ReadDocs
  <2>1. UNCHANGED <<rows, mishaps>>
    BY <1>5 DEF ReadDocs
  <2>2. CASE Rest
    BY <1>1, <2>1, <2>2, RestIsSound
  <2>3. CASE ReadPage("DOCS", Page(left, DueDocs)) /\ UNCHANGED left
    BY <1>1, <2>1, <2>3, SubsetsOfIds, PageReadIsSound
  <2> QED BY <1>5, <2>2, <2>3 DEF ReadDocs
<1> QED BY <1>2, <1>3, <1>4, <1>5

LEMMA ThrowIsSound == ReaperInv /\ Throw => ReaperInv'
BY RestIsSound DEF Throw, ReaperInv, ReaperTypeOK

LEMMA RowsAreSound ==
  ASSUME ReaperInv, NEW i \in Ids, EraseText(i) \/ Expire(i) \/ PurgeFile(i) \/ PurgeDoc(i)
  PROVE  ReaperInv'
<1>1. CASE EraseText(i) /\ ~Throw
  <2>1. Handle("TEXT", i) /\ UNCHANGED <<sess, file, doc, requested, left, mishaps>>
        /\ text' = [text EXCEPT ![i] = IF @ = "DUE" THEN "PURGED" ELSE @]
    BY <1>1 DEF EraseText
  <2> QED BY <2>1, HandledRow DEF ReaperInv, ReaperTypeOK
<1>2. CASE Expire(i) /\ ~Throw
  <2>1. Handle("EXPIRE", i) /\ left' = left - 1 /\ UNCHANGED <<text, requested, mishaps>>
        /\ (Closing(i) \/ UNCHANGED <<sess, file, doc>>)
    BY <1>2 DEF Expire
  <2>2. phase = "EXPIRE" /\ phase' = "EXPIRE" /\ i \in page /\ page' \subseteq Ids
        /\ Cardinality(page) \in Nat /\ Cardinality(page') = Cardinality(page) - 1
    BY <2>1, HandledRow
  <2>3. IsFiniteSet(page') /\ Cardinality(page') \in Nat
    BY <2>2, FS_Subset, FS_CardinalityType, ReaperAssumption
  <2>4. left \in 0..Limit /\ Cardinality(page) <= left /\ left' = left - 1
    BY <2>1, <2>2 DEF ReaperInv, ReaperTypeOK
  <2>5. left' \in 0..Limit /\ Cardinality(page') <= left'
    <3> DEFINE c == Cardinality(page)  d == Cardinality(page')
    <3>1. c \in Nat /\ d \in Nat /\ d = c - 1 /\ c <= left
      BY <2>2, <2>3, <2>4
    <3> HIDE DEF c, d
    <3>2. left' \in 0..Limit /\ d <= left'
      BY <2>4, <3>1, ReaperAssumption
    <3> QED BY <3>2 DEF d
  <2>6. /\ sess' \in [Ids -> {"OPEN", "LATE", "CLOSED"}]
        /\ file' \in [Ids -> {"NONE", "RESERVED", "LAPSED", "PENDING"}]
        /\ doc' \in [Ids -> {"NONE", "ATTACHED", "FREE", "PURGED"}]
        /\ UNCHANGED <<text, requested, mishaps>>
    BY <2>1 DEF Closing, ReaperInv, ReaperTypeOK
  <2> QED BY <2>2, <2>5, <2>6 DEF ReaperInv, ReaperTypeOK
<1>3. CASE PurgeFile(i)
  <2>1. Handle("FILES", i)
    BY <1>3 DEF PurgeFile
  <2> QED BY <1>3, <2>1, HandledRow DEF PurgeFile, ReaperInv, ReaperTypeOK
<1>4. CASE PurgeDoc(i)
  <2>1. Handle("DOCS", i)
    BY <1>4 DEF PurgeDoc
  <2> QED BY <1>4, <2>1, HandledRow DEF PurgeDoc, ReaperInv, ReaperTypeOK
<1> QED BY <1>1, <1>2, <1>3, <1>4, ThrowIsSound

LEMMA CycleIsSound == ReaperInv /\ Cycle => ReaperInv'
<1> SUFFICES ASSUME ReaperInv, Cycle PROVE ReaperInv'
  OBVIOUS
<1>1. CASE EndCycle
  BY <1>1, RestIsSound DEF EndCycle, ReaperInv, ReaperTypeOK
<1>2. CASE Fail
  <2>1. mishaps' \in 0..MaxMishaps
    BY <1>2, ReaperAssumption DEF Fail, ReaperInv, ReaperTypeOK
  <2> QED BY <1>2, <2>1, RestIsSound DEF Fail
<1> QED BY <1>1, <1>2, ReadsAreSound, RowsAreSound DEF Cycle

LEMMA OthersAreSound == ReaperInv /\ Others => ReaperInv'
<1> SUFFICES ASSUME ReaperInv, NEW i \in Ids,
                    \/ LeaseLapses(i) \/ Finalize(i) \/ OcrAttempt(i) \/ TextAges(i) \/ UserLooks(i)
                    \/ Confirm(i) \/ DeadlinePasses(i) \/ CloseSession(i) \/ Apply(i)
                    \/ Reattach(i) \/ Detach(i)
             PROVE  ReaperInv'
  BY DEF Others
<1>1. UNCHANGED cycle /\ mishaps' \in 0..MaxMishaps
  BY ReaperAssumption DEF ReaperInv, ReaperTypeOK, LeaseLapses, Finalize, OcrAttempt, TextAges, UserLooks,
     Confirm, DeadlinePasses, CloseSession, Apply, Reattach, Detach, Outside, cycle
<1>2. /\ sess' \in [Ids -> {"OPEN", "LATE", "CLOSED"}]
      /\ file' \in [Ids -> {"NONE", "RESERVED", "LAPSED", "PENDING"}]
      /\ doc' \in [Ids -> {"NONE", "ATTACHED", "FREE", "PURGED"}]
  BY DEF ReaperInv, ReaperTypeOK, LeaseLapses, Finalize, OcrAttempt, TextAges, UserLooks,
     Confirm, DeadlinePasses, CloseSession, Apply, Closing, Reattach, Detach
<1>3. text' \in [Ids -> {"NONE", "KEPT", "DUE", "PURGED"}] /\ requested' \subseteq Ids
  BY DEF ReaperInv, ReaperTypeOK, LeaseLapses, Finalize, OcrAttempt, TextAges, UserLooks,
     Confirm, DeadlinePasses, CloseSession, Apply, Reattach, Detach
<1> QED BY <1>1, <1>2, <1>3 DEF ReaperInv, ReaperTypeOK, cycle

----------------------------------------------------------------------------
(* The rotation *)

LEMMA FewerAreBounded ==
  ASSUME Rotation!TypeOK, NEW S \in SUBSET queue
  PROVE  Rotation!Cardinality(S) <= ScopesPerCycle
<1>1. IsFiniteSet(queue) /\ IsFiniteSet(S)
  <2>1. queue \in SUBSET Scopes
    BY DEF Rotation!TypeOK
  <2> QED BY <2>1, FS_Subset, JobAssumption
<1>2. Cardinality(queue) <= ScopesPerCycle
  BY SameOperators DEF Rotation!TypeOK
<1>3. Cardinality(S) <= Cardinality(queue) /\ Cardinality(S) \in Nat /\ Cardinality(queue) \in Nat
  BY <1>1, FS_Subset, FS_CardinalityType
<1>4. Cardinality(S) <= ScopesPerCycle
  <2> DEFINE c == Cardinality(S)  d == Cardinality(queue)
  <2>1. c <= d /\ c \in Nat /\ d \in Nat /\ d <= ScopesPerCycle /\ ScopesPerCycle \in Nat
    BY <1>2, <1>3, JobAssumption
  <2> HIDE DEF c, d
  <2>2. c <= ScopesPerCycle
    BY <2>1
  <2> QED BY <2>2 DEF c
<1> QED BY <1>4, SameOperators

\* The next scope is the least of those ahead of the cursor.
LEMMA NextIsAhead ==
  ASSUME Rotation!TypeOK, queue # {}
  PROVE  Rotation!NextScope \in queue /\ \A x \in queue : Rotation!NextScope <= x
<1>1. queue \in SUBSET Nat
  BY JobAssumption DEF Rotation!TypeOK
<1>2. Rotation!NextScope = Min(queue)
  BY SameOperators DEF Rotation!NextScope
<1> QED BY <1>1, <1>2, MinIsLeast

LEMMA RotationIsSound ==
  ASSUME Rotation!TypeOK,
         Rotation!Pass \/ Rotation!Restart \/ \E x \in Scopes : Rotation!NewScope(x)
  PROVE  Rotation!TypeOK'
<1>0. known \subseteq Scopes /\ Scopes \subseteq Nat \ {0}
  BY JobAssumption DEF Rotation!TypeOK
<1>1. CASE Rotation!Start
  <2>1. PICK S : S = {x \in known : x > after}
    OBVIOUS
  <2>2. queue' = Rotation!First(ScopesPerCycle, S) /\ S \in SUBSET Scopes
    BY <1>0, <1>1, <2>1 DEF Rotation!Start
  <2>3. queue' \subseteq S /\ Cardinality(queue') <= ScopesPerCycle
    BY <2>2, PagesAreBounded
  <2>4. Rotation!Cardinality(queue') <= ScopesPerCycle
    BY <2>3, SameOperators
  <2>5. short' \in BOOLEAN
    BY <1>1 DEF Rotation!Start
  <2> QED BY <1>1, <2>1, <2>3, <2>4, <2>5 DEF Rotation!Start, Rotation!TypeOK
<1>2. CASE Rotation!Serve
  <2>1. queue # {} /\ after' = Rotation!NextScope /\ queue' = queue \ {Rotation!NextScope}
        /\ UNCHANGED <<known, running, short, failures, restarts>>
    BY <1>2 DEF Rotation!Serve
  <2>2. PICK m : m = Rotation!NextScope
    OBVIOUS
  <2>3. m \in queue /\ \A x \in queue : m <= x
    BY <2>1, <2>2, NextIsAhead
  <2>4. queue \subseteq known /\ m \in Scopes
    BY <1>0, <2>3 DEF Rotation!TypeOK
  <2>5. \A x \in queue \ {m} : x > m
    BY <1>0, <2>3, <2>4
  <2>6. Rotation!Cardinality(queue') <= ScopesPerCycle
    BY <2>1, FewerAreBounded
  <2> QED BY <2>1, <2>2, <2>4, <2>5, <2>6 DEF Rotation!TypeOK
<1>3. ASSUME queue' = {} PROVE Rotation!Cardinality(queue') <= ScopesPerCycle
  BY <1>3, FewerAreBounded
<1>4. CASE Rotation!Fail
  <2>1. queue' = {} /\ running' = FALSE /\ UNCHANGED <<known, after, short, restarts>>
    BY <1>4 DEF Rotation!Fail
  <2>2. failures' \in 0..MaxFailures
    BY <1>4, JobAssumption DEF Rotation!Fail, Rotation!TypeOK
  <2> QED BY <1>3, <2>1, <2>2 DEF Rotation!TypeOK
<1>5. CASE Rotation!Finish
  BY <1>3, <1>5 DEF Rotation!Finish, Rotation!TypeOK
<1>6. CASE Rotation!Restart
  <2>1. queue' = {} /\ running' = FALSE /\ after' = 0 /\ UNCHANGED <<known, short, failures>>
    BY <1>6 DEF Rotation!Restart
  <2>2. restarts' \in 0..MaxRestarts
    BY <1>6, JobAssumption DEF Rotation!Restart, Rotation!TypeOK
  <2> QED BY <1>3, <2>1, <2>2 DEF Rotation!TypeOK
<1>7. ASSUME NEW x \in Scopes, Rotation!NewScope(x) PROVE Rotation!TypeOK'
  <2>1. known' = known \cup {x} /\ UNCHANGED <<after, running, queue, short, failures, restarts>>
    BY <1>7 DEF Rotation!NewScope
  <2>2. Rotation!Cardinality(queue') <= ScopesPerCycle
    BY <2>1, FewerAreBounded
  <2> QED BY <2>1, <2>2 DEF Rotation!TypeOK
<1> QED BY <1>1, <1>2, <1>4, <1>5, <1>6, <1>7 DEF Rotation!Pass

----------------------------------------------------------------------------
(* The job *)

JobInv == ReaperInv /\ Rotation!TypeOK /\ drained \in BOOLEAN /\ (phase # "IDLE" => Turn)

LEMMA InitJob == JobInit => JobInv
<1> SUFFICES ASSUME JobInit PROVE JobInv
  OBVIOUS
<1>1. Rotation!Cardinality({}) = 0
  BY SameOperators, FS_EmptySet
<1>2. Rotation!TypeOK
  <2>1. known = {} /\ after = 0 /\ running = FALSE /\ queue = {} /\ short = FALSE
        /\ failures = 0 /\ restarts = 0
    BY DEF JobInit, Rotation!Init
  <2>2. 0 \in 0..MaxFailures /\ 0 \in 0..MaxRestarts
    BY JobAssumption
  <2>3. 0 <= ScopesPerCycle
    BY JobAssumption
  <2>4. Rotation!Cardinality(queue) <= ScopesPerCycle
    BY <1>1, <2>1, <2>3
  <2> QED BY <2>1, <2>2, <2>4 DEF Rotation!TypeOK
<1> QED BY <1>2, InitReaper DEF JobInit, JobInv, ReaperInit

LEMMA RotationStays ==
  ASSUME UNCHANGED rotation
  PROVE  Turn' = Turn /\ Rotation!TypeOK' = Rotation!TypeOK
BY DEF rotation, Turn, Rotation!TypeOK, Rotation!NextScope

LEMMA ReaperStays ==
  ASSUME UNCHANGED reaperVars
  PROVE  ReaperInv' = ReaperInv /\ phase' = phase
BY DEF reaperVars, rows, cycle, ReaperInv, ReaperTypeOK

LEMMA NextKeepsJob == JobInv /\ [JobNext]_jobVars => JobInv'
<1> SUFFICES ASSUME JobInv, [JobNext]_jobVars PROVE JobInv'
  OBVIOUS
<1>1. CASE CycleOfMine
  <2>1. ReaperInv'
    BY <1>1, CycleIsSound DEF JobInv, CycleOfMine
  <2>2. drained' \in BOOLEAN /\ Turn
    <3>1. drained \in BOOLEAN /\ Undrained \in BOOLEAN
      BY DEF JobInv, Undrained
    <3> QED BY <1>1, <3>1 DEF CycleOfMine
  <2>3. CASE phase' # "IDLE"
    BY <1>1, <2>1, <2>2, <2>3, RotationStays DEF CycleOfMine, JobInv
  <2>4. CASE phase' = "IDLE"
    <3>1. Rotation!Pass
      BY <1>1, <2>4 DEF CycleOfMine, Rotation!Pass
    <3> QED BY <2>1, <2>2, <2>4, <3>1, RotationIsSound DEF JobInv
  <2> QED BY <2>3, <2>4
<1>2. CASE PassElsewhere
  <2>1. phase' = "IDLE" /\ ReaperInv' /\ UNCHANGED drained
    BY <1>2, ReaperStays DEF PassElsewhere, JobInv
  <2> QED BY <1>2, <2>1, RotationIsSound DEF PassElsewhere, JobInv
<1>3. CASE JobRestart
  <2>1. UNCHANGED rows /\ mishaps' \in 0..MaxMishaps /\ Rest /\ drained' = FALSE
    BY <1>3 DEF JobRestart, JobInv, ReaperInv, ReaperTypeOK
  <2>2. ReaperInv' /\ phase' = "IDLE"
    BY <2>1, RestIsSound DEF JobInv, Rest
  <2> QED BY <1>3, <2>1, <2>2, RotationIsSound DEF JobRestart, JobInv
<1>4. ASSUME NEW x \in Scopes, Rotation!NewScope(x), UNCHANGED <<reaperVars, drained>> PROVE JobInv'
  <2>1. Turn' = Turn
    BY <1>4 DEF Rotation!NewScope, Turn, Rotation!NextScope
  <2> QED BY <1>4, <2>1, ReaperStays, RotationIsSound DEF JobInv
<1>5. CASE Others /\ UNCHANGED <<rotation, drained>>
  <2>1. ReaperInv' /\ phase' = phase
    BY <1>5, OthersAreSound DEF JobInv, Others, LeaseLapses, Finalize, OcrAttempt, TextAges, UserLooks,
       Confirm, DeadlinePasses, CloseSession, Apply, Reattach, Detach, Outside, cycle
  <2> QED BY <1>5, <2>1, RotationStays DEF JobInv
<1>6. CASE UNCHANGED jobVars
  BY <1>6, RotationStays, ReaperStays DEF jobVars, JobInv
<1> QED BY <1>1, <1>2, <1>3, <1>4, <1>5, <1>6 DEF JobNext, Job, Clients

LEMMA StepsDoNoHarm ==
  ASSUME JobInv, [JobNext]_jobVars, NEW i \in Ids
  PROVE  /\ doc'[i] = "PURGED" => doc[i] \in {"FREE", "PURGED"}
         /\ Cycle /\ sess[i] = "CLOSED" /\ doc[i] = "ATTACHED" => doc'[i] = "ATTACHED"
<1>1. doc \in [Ids -> {"NONE", "ATTACHED", "FREE", "PURGED"}] /\ sess \in [Ids -> {"OPEN", "LATE", "CLOSED"}]
  BY DEF JobInv, ReaperInv, ReaperTypeOK
<1>2. CASE UNCHANGED doc
  BY <1>1, <1>2
<1>3. Cycle => \/ UNCHANGED doc
               \/ \E j \in Ids : PurgeDoc(j)
               \/ \E j \in Ids : Expire(j) /\ sess[j] = "LATE" /\ Closing(j)
  BY DEF Cycle, BeginCycle, ReadLate, ReadFiles, ReadDocs, EndCycle, Fail, EraseText, Expire, Throw,
     PurgeFile, rows
<1>4. ASSUME NEW j \in Ids, PurgeDoc(j)
      PROVE  (doc'[i] = "PURGED" => doc[i] \in {"FREE", "PURGED"})
             /\ (doc[i] = "ATTACHED" => doc'[i] = "ATTACHED")
  BY <1>1, <1>4 DEF PurgeDoc, DueDocs
<1>5. ASSUME NEW j \in Ids, sess[j] = "LATE", Closing(j)
      PROVE  (doc'[i] = "PURGED" => doc[i] \in {"FREE", "PURGED"})
             /\ (sess[i] = "CLOSED" /\ doc[i] = "ATTACHED" => doc'[i] = "ATTACHED")
  BY <1>1, <1>5 DEF Closing
<1>6. CASE Cycle
  BY <1>2, <1>3, <1>4, <1>5, <1>6
<1>7. ASSUME Others PROVE doc'[i] = "PURGED" => doc[i] \in {"FREE", "PURGED"}
  BY <1>1, <1>7 DEF Others, LeaseLapses, Finalize, OcrAttempt, TextAges, UserLooks, Confirm,
     DeadlinePasses, CloseSession, Apply, Closing, Reattach, Detach
<1>8. \/ Cycle \/ Others \/ UNCHANGED doc
  BY DEF JobNext, Job, Clients, CycleOfMine, PassElsewhere, JobRestart, jobVars, reaperVars, rows
<1>9. CASE ~Cycle
  BY <1>2, <1>7, <1>8, <1>9
<1> QED BY <1>6, <1>9

\* A pass takes a bounded page of scopes, which lies ahead of the cursor, and a cycle never takes
\* more rows of a scope than its limit; a row that is stale when its turn comes
\* is left as it is (vault-retention.scheduler.ts, vault-reaper.ts runCycle).
THEOREM PagesStaySound == JobSpec => PagesAreSound
<1>1. JobInv => JobTypeOK
  BY DEF JobInv, JobTypeOK, ReaperInv
<1>2. JobInv /\ [JobNext]_jobVars =>
        [\A i \in Ids :
           /\ doc'[i] = "PURGED" => doc[i] \in {"FREE", "PURGED"}
           /\ Cycle /\ sess[i] = "CLOSED" /\ doc[i] = "ATTACHED" => doc'[i] = "ATTACHED"]_reaperVars
  BY StepsDoNoHarm
<1> QED
  BY <1>1, <1>2, InitJob, NextKeepsJob, PTL DEF JobSpec, PagesAreSound, StalePagesDoNoHarm
=============================================================================
