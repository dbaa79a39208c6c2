----------------------------- MODULE CaskProofs -----------------------------
(***************************************************************************)
(* Proofs about Cask: the inductive invariant CaskInv and the properties   *)
(* it implies, for any number of workers, monitors, starts and leaked      *)
(* descriptors, and any of the faults.                                     *)
(*                                                                         *)
(* WalkSafe is about two threads: it needs that the list holds exactly the *)
(* workers that live (PoolInv), that only the one that main is joining can *)
(* leave it (LeaveInv), and that the node main remembered is another one   *)
(* (WalkInv).  StatusTruthful is about two processes: it needs that what a *)
(* monitor has read and what is on its way are together a prefix of the    *)
(* right answer (HeardInv), that handle_ipc stands where this prefix ends  *)
(* (ReplyInv), that it never answers a monitor twice (QueueInv), and that  *)
(* the pool is complete whenever it answers (PoolInv).  SocketRemoved      *)
(* needs that a path that is there is somebody's to remove (HaveInv).      *)
(***************************************************************************)
EXTENDS Cask, SequenceTheorems, TLAPS

(* The groups of variables in UNCHANGED, and the two special pointers. *)
USE DEF poolVars, mainVars, fileVars, ipcVars, monVars, HEAD, Dangling, Workers

(* The node behind a node of the list is one of the list or its head, and another one. *)
LEMMA AfterFacts ==
  ASSUME TypeOK, PoolInv, NEW p \in Workers \cup {HEAD}, p # HEAD => wpc[p] \notin Gone
  PROVE  /\ After(p) \in Workers \cup {HEAD}
         /\ After(p) # HEAD => wpc[After(p)] \notin Gone
         /\ p # HEAD => After(p) # p
<1> NumWorkers \in Nat
  BY CaskAssumption
<1>1. \A i \in 1..Len(workers) : workers[i] \in Workers /\ wpc[workers[i]] \notin Gone
  BY DEF TypeOK, PoolTypes, PoolInv
<1>2. Len(workers) \in Nat /\ (workers # <<>> => Len(workers) > 0)
  BY EmptySeq DEF TypeOK, PoolTypes
<1>3. CASE p = HEAD
  BY <1>1, <1>2, <1>3 DEF After, First
<1>4. CASE p # HEAD
  <2> DEFINE i == CHOOSE j \in 1..Len(workers) : workers[j] = p
  <2>1. \E j \in 1..Len(workers) : workers[j] = p
    BY <1>4 DEF PoolInv
  <2>2. i \in 1..Len(workers) /\ workers[i] = p
    BY <2>1
  <2>3. After(p) = IF i = Len(workers) THEN HEAD ELSE workers[i + 1]
    BY <1>4, <2>1 DEF After
  <2>4. CASE i = Len(workers)
    BY <2>3, <2>4, <1>4
  <2>5. CASE i # Len(workers)
    <3> HIDE DEF i
    <3>1. i + 1 \in 1..Len(workers) /\ After(p) = workers[i + 1]
      BY <1>2, <2>2, <2>3, <2>5
    <3>2. workers[i] < workers[i + 1]
      BY <1>2, <2>2, <3>1 DEF PoolInv
    <3> QED
      BY <1>1, <1>4, <2>2, <3>1, <3>2
  <2> QED
    BY <2>4, <2>5
<1> QED
  BY <1>3, <1>4

(* While the pool is complete the walk of handle_ipc meets the workers in their order. *)
LEMMA WalkInOrder ==
  ASSUME workers = [i \in 1..NumWorkers |-> i]
  PROVE  /\ First = 1
         /\ \A p \in Workers : After(p) = IF p = NumWorkers THEN HEAD ELSE p + 1
<1> NumWorkers \in Nat \ {0}
  BY CaskAssumption
<1>1. Len(workers) = NumWorkers
  OBVIOUS
<1>2. workers # <<>> /\ workers[1] = 1
  BY <1>1
<1>3. ASSUME NEW p \in Workers PROVE After(p) = IF p = NumWorkers THEN HEAD ELSE p + 1
  <2> DEFINE i == CHOOSE j \in 1..Len(workers) : workers[j] = p
  <2>1. p \in 1..Len(workers) /\ workers[p] = p /\ p # HEAD
    BY <1>1
  <2>2. i \in 1..Len(workers) /\ workers[i] = p
    BY <2>1
  <2>3. i = p
    BY <2>2, <1>1
  <2>4. After(p) = IF i = Len(workers) THEN HEAD ELSE workers[i + 1]
    BY <2>1 DEF After
  <2>5. p # NumWorkers => p + 1 \in 1..NumWorkers /\ workers[p + 1] = p + 1
    OBVIOUS
  <2> HIDE DEF i
  <2> QED
    BY <2>3, <2>4, <2>5, <1>1
<1> QED
  BY <1>2, <1>3 DEF First

(* list_del keeps the order and takes off that one worker. *)
LEMMA UnlinkedFacts ==
  ASSUME TypeOK, PoolInv, NEW w \in Workers, wpc[w] \notin Gone
  PROVE  /\ Unlinked(w) \in Seq(Workers)
         /\ Len(workers) > 0 /\ Len(Unlinked(w)) = Len(workers) - 1
         /\ \A i, j \in 1..Len(Unlinked(w)) : i < j => Unlinked(w)[i] < Unlinked(w)[j]
         /\ \A v \in Workers : (\E i \in 1..Len(Unlinked(w)) : Unlinked(w)[i] = v)
                               <=> v # w /\ \E i \in 1..Len(workers) : workers[i] = v
<1> NumWorkers \in Nat
  BY CaskAssumption
<1> DEFINE at == CHOOSE i \in 1..Len(workers) : workers[i] = w
           n == Len(workers) - 1
           u == [i \in 1..n |-> IF i < at THEN workers[i] ELSE workers[i + 1]]
<1>1. at \in 1..Len(workers) /\ workers[at] = w
  BY DEF PoolInv
<1>2. Unlinked(w) = u
  BY DEF Unlinked
<1>3. Len(workers) \in Nat /\ \A i \in 1..Len(workers) : workers[i] \in Workers
  BY DEF TypeOK, PoolTypes
<1>4. \A i, j \in 1..Len(workers) : i < j => workers[i] < workers[j]
  BY DEF PoolInv
<1> HIDE DEF at
<1>5. n \in Nat /\ \A i \in 1..n : u[i] \in Workers
  BY <1>1, <1>3
<1>6. u \in Seq(Workers) /\ Len(u) = n
  BY <1>5
<1>7. \A i, j \in 1..n : i < j => u[i] < u[j]
  <2> SUFFICES ASSUME NEW i \in 1..n, NEW j \in 1..n, i < j PROVE u[i] < u[j]
    OBVIOUS
  <2>1. /\ i \in 1..Len(workers) /\ i + 1 \in 1..Len(workers)
        /\ j \in 1..Len(workers) /\ j + 1 \in 1..Len(workers)
        /\ i + 1 < j + 1 /\ i < j + 1
    BY <1>1, <1>3
  <2>2. workers[i] < workers[j] /\ workers[i + 1] < workers[j + 1] /\ workers[i] < workers[j + 1]
    BY <1>4, <2>1
  <2>3. j < at => i < at
    BY <1>1, <1>3
  <2> QED
    BY <2>2, <2>3
<1>8. ASSUME NEW i \in 1..n PROVE u[i] # w /\ \E k \in 1..Len(workers) : workers[k] = u[i]
  <2>1. CASE i < at
    <3>1. u[i] = workers[i] /\ i \in 1..Len(workers) /\ workers[i] < workers[at]
      BY <1>1, <1>3, <1>4, <2>1
    <3> QED
      BY <3>1, <1>1, <1>3
  <2>2. CASE ~(i < at)
    <3>1. u[i] = workers[i + 1] /\ i + 1 \in 1..Len(workers) /\ workers[at] < workers[i + 1]
      BY <1>1, <1>3, <1>4, <2>2
    <3> QED
      BY <3>1, <1>1, <1>3
  <2> QED
    BY <2>1, <2>2
<1>9. ASSUME NEW k \in 1..Len(workers), workers[k] # w
      PROVE  \E i \in 1..n : u[i] = workers[k]
  <2>1. CASE k < at
    <3>1. k \in 1..n /\ u[k] = workers[k]
      BY <1>1, <1>3, <2>1
    <3> QED
      BY <3>1
  <2>2. CASE k > at
    <3>1. k - 1 \in 1..n /\ ~(k - 1 < at) /\ (k - 1) + 1 = k
      BY <1>1, <1>3, <2>2
    <3>2. u[k - 1] = workers[k]
      BY <3>1
    <3> QED
      BY <3>1, <3>2
  <2> QED
    BY <1>1, <1>3, <1>9, <2>1, <2>2
<1> HIDE DEF u, n
<1>10. \A v \in Workers : (\E i \in 1..n : u[i] = v)
                          <=> v # w /\ \E i \in 1..Len(workers) : workers[i] = v
  BY <1>8, <1>9
<1>11. Len(workers) > 0 /\ n = Len(workers) - 1
  BY <1>1, <1>3 DEF n
<1> QED
  BY <1>2, <1>6, <1>7, <1>10, <1>11

(* The walk goes on from where next points. *)
LEMMA AfterAdvance == ASSUME workers' = workers, iter' = next PROVE After(iter)' = After(next)
BY DEF After, First

LEMMA AfterKept == ASSUME workers' = workers, iter' = iter PROVE After(iter)' = After(iter)
BY DEF After, First

LEMMA AfterBegin == ASSUME workers' = workers, iter' = First PROVE After(iter)' = After(First)
BY DEF After, First

(* A step that leaves the monitors alone leaves right what they have heard. *)
LEMMA HeardKept == ASSUME HeardInv, UNCHANGED monVars PROVE HeardInv'
BY DEF HeardInv, Heard, Read

(* Nothing runs before the first start. *)
LEMMA CaskInit == Init => CaskInv
<1> SUFFICES ASSUME Init PROVE CaskInv
  OBVIOUS
<1> NumWorkers \in Nat \ {0} /\ FdRoom \in Nat /\ MaxStarts \in Nat
  BY CaskAssumption
<1>1. TypeOK
  <2>1. MainTypes
    BY DEF Init, MainTypes
  <2>2. PoolTypes
    BY EmptySeq DEF Init, PoolTypes, Gone
  <2>3. MonTypes
    BY EmptySeq DEF Init, MonTypes
  <2>4. FlagTypes
    BY DEF Init, FlagTypes
  <2> QED
    BY <2>1, <2>2, <2>3, <2>4 DEF TypeOK
<1>2. PoolInv
  BY DEF Init, PoolInv, Gone, Serving
<1>3. LeaveInv /\ WalkInv /\ HaveInv
  BY DEF Init, LeaveInv, WalkInv, HaveInv
<1>4. QueueInv /\ HeardInv /\ ReplyInv
  BY DEF Init, QueueInv, HeardInv, Heard, ReplyInv
<1> QED
  BY <1>1, <1>2, <1>3, <1>4 DEF CaskInv

(* However the process ends, what is left of it satisfies the invariant, unless it leaves  *)
(* the socket's path behind in an orderly end.                                             *)
LEMMA KeepEnd ==
  ASSUME CaskInv, EndProcess, orphan' \in BOOLEAN, path => orphan'
  PROVE  CaskInv'
<1> USE DEF CaskInv, EndProcess
<1> NumWorkers \in Nat \ {0} /\ FdRoom \in Nat /\ MaxStarts \in Nat
  BY CaskAssumption
<1>1. TypeOK'
  <2>1. MainTypes'
    BY DEF TypeOK, MainTypes
  <2>2. PoolTypes'
    BY EmptySeq DEF PoolTypes, Gone
  <2>3. MonTypes'
    BY EmptySeq DEF TypeOK, MonTypes
  <2>4. FlagTypes'
    BY DEF TypeOK, FlagTypes
  <2> QED
    BY <2>1, <2>2, <2>3, <2>4 DEF TypeOK
<1>2. PoolInv'
  BY DEF PoolInv, Gone, Serving
<1>3. LeaveInv' /\ WalkInv' /\ HaveInv'
  BY DEF LeaveInv, WalkInv, HaveInv
<1>4. QueueInv' /\ HeardInv' /\ ReplyInv'
  BY DEF TypeOK, MonTypes, QueueInv, HeardInv, Heard, ReplyInv, Read
<1> QED
  BY <1>1, <1>2, <1>3, <1>4

(* A process that is killed leaves an orphan, if it leaves the path. *)
LEMMA KeepDie == ASSUME CaskInv, Die PROVE CaskInv'
BY KeepEnd DEF Die, CaskInv, TypeOK, FlagTypes

(* A worker's step: what it has to keep, as it touches nothing else. *)
LEMMA WorkerFrame ==
  ASSUME CaskInv, UNCHANGED <<mainVars, fileVars, ipcVars, monVars>>,
         PoolTypes', PoolInv', LeaveInv', WalkInv'
  PROVE  CaskInv'
<1>1. MainTypes' /\ FlagTypes' /\ MonTypes' /\ HaveInv'
  BY DEF CaskInv, TypeOK, MainTypes, FlagTypes, MonTypes, HaveInv
<1>2. QueueInv' /\ HeardInv' /\ ReplyInv'
  BY HeardKept DEF CaskInv, QueueInv, ReplyInv, Read
<1> QED
  BY <1>1, <1>2 DEF CaskInv, TypeOK

(* A monitor's step: what it has to keep, as it touches nothing of the server but the      *)
(* queue of its socket.                                                                    *)
LEMMA MonitorFrame ==
  ASSUME CaskInv, UNCHANGED <<poolVars, mainVars, fileVars, cur, left, leaks>>,
         MonTypes', QueueInv', HeardInv', ReplyInv'
  PROVE  CaskInv'
<1>1. MainTypes' /\ FlagTypes' /\ PoolTypes' /\ HaveInv'
  BY DEF CaskInv, TypeOK, MainTypes, FlagTypes, PoolTypes, HaveInv
<1>2. PoolInv' /\ LeaveInv'
  BY DEF CaskInv, PoolInv, LeaveInv
<1>3. WalkInv'
  BY AfterKept DEF CaskInv, WalkInv
<1> QED
  BY <1>1, <1>2, <1>3 DEF CaskInv, TypeOK

(* A step of main that leaves the pool and the monitors alone: what it has to keep. *)
LEMMA MainFrame ==
  ASSUME CaskInv, UNCHANGED <<poolVars, monVars>>, backlog' \in Seq(Monitors),
         MainTypes', FlagTypes', PoolInv', LeaveInv', WalkInv', HaveInv', QueueInv', ReplyInv'
  PROVE  CaskInv'
<1>1. PoolTypes' /\ MonTypes'
  BY DEF CaskInv, TypeOK, PoolTypes, MonTypes
<1> QED
  BY <1>1, HeardKept DEF CaskInv, TypeOK

(* The process starts with nothing of an earlier one but, perhaps, its path. *)
LEMMA KeepStart == ASSUME CaskInv, Start PROVE CaskInv'
<1> USE DEF CaskInv, TypeOK, Start
<1> NumWorkers \in Nat \ {0} /\ FdRoom \in Nat \ {0} /\ MaxStarts \in Nat /\ HEAD \notin Monitors
  BY CaskAssumption
<1>1. MainTypes'
  BY DEF MainTypes
<1>2. FlagTypes'
  BY DEF FlagTypes
<1>3. PoolInv' /\ LeaveInv'
  BY DEF PoolInv, LeaveInv, Serving
<1>4. WalkInv'
  BY DEF WalkInv
<1>5. HaveInv'
  BY DEF HaveInv
<1>6. QueueInv'
  BY DEF QueueInv
<1>7. ReplyInv'
  BY DEF MainTypes, ReplyInv, Read, HeardInv, Heard
<1> QED
  BY <1>1, <1>2, <1>3, <1>4, <1>5, <1>6, <1>7, MainFrame DEF MonTypes

(* The pool is complete when the loop begins. *)
LEMMA KeepEnterLoop == ASSUME CaskInv, EnterLoop PROVE CaskInv'
<1> USE DEF CaskInv, TypeOK, EnterLoop
<1> NumWorkers \in Nat \ {0} /\ FdRoom \in Nat \ {0} /\ MaxStarts \in Nat /\ HEAD \notin Monitors
  BY CaskAssumption
<1>1. MainTypes'
  BY DEF MainTypes
<1>2. FlagTypes'
  BY DEF FlagTypes
<1>3. PoolInv' /\ LeaveInv'
  BY DEF PoolInv, LeaveInv, Serving
<1>4. WalkInv'
  BY DEF WalkInv
<1>5. HaveInv'
  BY DEF HaveInv
<1>6. QueueInv'
  BY DEF QueueInv
<1>7. ReplyInv'
  BY DEF MainTypes, ReplyInv, Read, HeardInv, Heard
<1> QED
  BY <1>1, <1>2, <1>3, <1>4, <1>5, <1>6, <1>7, MainFrame DEF MonTypes

(* handle_ipc begins with a monitor that nobody has written to. *)
LEMMA KeepAccept == ASSUME CaskInv, Accept PROVE CaskInv'
<1> USE DEF CaskInv, TypeOK, Accept
<1> NumWorkers \in Nat \ {0} /\ FdRoom \in Nat \ {0} /\ MaxStarts \in Nat /\ HEAD \notin Monitors
  BY CaskAssumption
<1>0. /\ Head(backlog) \in Monitors /\ Head(backlog) = backlog[1] /\ 1 \in 1..Len(backlog)
      /\ Tail(backlog) \in Seq(Monitors)
      /\ Len(backlog) \in Nat /\ Len(Tail(backlog)) = Len(backlog) - 1
      /\ \A i \in 1..Len(Tail(backlog)) : Tail(backlog)[i] = backlog[i + 1]
  BY HeadTailProperties, EmptySeq DEF MonTypes
<1>1. MainTypes'
  BY <1>0 DEF MainTypes
<1>2. FlagTypes'
  BY DEF FlagTypes
<1>3. PoolInv' /\ LeaveInv'
  BY DEF PoolInv, LeaveInv, Serving
<1>4. WalkInv'
  BY DEF WalkInv
<1>5. HaveInv'
  BY DEF HaveInv
<1>6. QueueInv'
  <2>1. \A i, j \in 1..Len(Tail(backlog)) :
          i # j => backlog[i + 1] # backlog[j + 1] /\ backlog[i + 1] # backlog[1]
    BY <1>0 DEF QueueInv
  <2>2. ASSUME NEW i \in 1..Len(Tail(backlog))
        PROVE  /\ i + 1 \in 1..Len(backlog) /\ Tail(backlog)[i] = backlog[i + 1]
               /\ backlog[i + 1] # backlog[1]
    BY <1>0 DEF QueueInv
  <2> QED
    BY <1>0, <2>1, <2>2 DEF QueueInv
<1>7. ReplyInv'
  BY <1>0 DEF QueueInv, ReplyInv
<1> QED
  BY <1>0, <1>1, <1>2, <1>3, <1>4, <1>5, <1>6, <1>7, MainFrame DEF MonTypes

(* A signal ends the loop. *)
LEMMA KeepLeaveLoop == ASSUME CaskInv, LeaveLoop PROVE CaskInv'
<1> USE DEF CaskInv, TypeOK, LeaveLoop
<1> NumWorkers \in Nat \ {0} /\ FdRoom \in Nat \ {0} /\ MaxStarts \in Nat /\ HEAD \notin Monitors
  BY CaskAssumption
<1>1. MainTypes'
  BY DEF MainTypes
<1>2. FlagTypes'
  BY DEF FlagTypes
<1>3. PoolInv' /\ LeaveInv'
  BY DEF PoolInv, LeaveInv, Serving
<1>4. WalkInv'
  BY DEF WalkInv
<1>5. HaveInv'
  BY DEF HaveInv
<1>6. QueueInv'
  BY DEF QueueInv
<1>7. ReplyInv'
  BY DEF MainTypes, ReplyInv, Read, HeardInv, Heard
<1> QED
  BY <1>1, <1>2, <1>3, <1>4, <1>5, <1>6, <1>7, MainFrame DEF MonTypes

(* An error ends the loop. *)
LEMMA KeepPselectFails == ASSUME CaskInv, PselectFails PROVE CaskInv'
<1> USE DEF CaskInv, TypeOK, PselectFails
<1> NumWorkers \in Nat \ {0} /\ FdRoom \in Nat \ {0} /\ MaxStarts \in Nat /\ HEAD \notin Monitors
  BY CaskAssumption
<1>1. MainTypes'
  BY DEF MainTypes
<1>2. FlagTypes'
  BY DEF FlagTypes
<1>3. PoolInv' /\ LeaveInv'
  BY DEF PoolInv, LeaveInv, Serving
<1>4. WalkInv'
  BY DEF WalkInv
<1>5. HaveInv'
  BY DEF HaveInv
<1>6. QueueInv'
  BY DEF QueueInv
<1>7. ReplyInv'
  BY DEF MainTypes, ReplyInv, Read, HeardInv, Heard
<1> QED
  BY <1>1, <1>2, <1>3, <1>4, <1>5, <1>6, <1>7, MainFrame DEF MonTypes

(* handle_ipc goes on with a monitor that has asked, or gives up a descriptor. *)
LEMMA KeepReadRequest == ASSUME CaskInv, ReadRequest PROVE CaskInv'
<1> USE DEF CaskInv, TypeOK, ReadRequest
<1> NumWorkers \in Nat \ {0} /\ FdRoom \in Nat \ {0} /\ MaxStarts \in Nat /\ HEAD \notin Monitors
  BY CaskAssumption
<1>0. leaks < FdRoom /\ cur \in Monitors
  BY DEF MainTypes, ReplyInv
<1>1. MainTypes'
  BY <1>0 DEF MainTypes
<1>2. FlagTypes'
  BY DEF FlagTypes
<1>3. PoolInv' /\ LeaveInv'
  BY DEF PoolInv, LeaveInv, Serving
<1>4. WalkInv'
  BY DEF WalkInv
<1>5. HaveInv'
  BY DEF HaveInv
<1>6. QueueInv'
  BY <1>0, SMTT(30) DEF MonTypes, QueueInv
<1>7. ReplyInv'
  BY <1>0 DEF MonTypes, ReplyInv, Read, HeardInv, Heard
<1> QED
  BY <1>1, <1>2, <1>3, <1>4, <1>5, <1>6, <1>7, MainFrame DEF MonTypes

(* The walk begins at the first node. *)
LEMMA KeepBeginStop == ASSUME CaskInv, BeginStop PROVE CaskInv'
<1> USE DEF CaskInv, TypeOK, BeginStop
<1> NumWorkers \in Nat \ {0} /\ FdRoom \in Nat \ {0} /\ MaxStarts \in Nat /\ HEAD \notin Monitors
  BY CaskAssumption
<1>0. /\ First \in Workers \cup {HEAD} /\ (First # HEAD => wpc[First] \notin Gone)
      /\ After(First) \in Workers \cup {HEAD}
  <2>1. First = After(HEAD)
    <3>1. \A i \in 1..Len(workers) : workers[i] # HEAD
      BY DEF PoolTypes
    <3> QED
      BY <3>1 DEF After
  <2>2. First \in Workers \cup {HEAD} /\ (First # HEAD => wpc[First] \notin Gone)
    BY <2>1, AfterFacts
  <2> QED
    BY <2>2, AfterFacts
<1>1. MainTypes'
  BY <1>0 DEF MainTypes
<1>2. FlagTypes'
  BY DEF FlagTypes
<1>3. PoolInv' /\ LeaveInv'
  BY DEF PoolInv, LeaveInv, Serving
<1>4. WalkInv'
  BY <1>0, AfterBegin DEF WalkInv
<1>5. HaveInv'
  BY DEF HaveInv
<1>6. QueueInv'
  BY DEF QueueInv
<1>7. ReplyInv'
  BY DEF MainTypes, ReplyInv, Read, HeardInv, Heard
<1> QED
  BY <1>1, <1>2, <1>3, <1>4, <1>5, <1>6, <1>7, MainFrame DEF MonTypes

(* A pending signal changes nothing else. *)
LEMMA KeepSigint == ASSUME CaskInv, Sigint PROVE CaskInv'
<1> USE DEF CaskInv, TypeOK, Sigint
<1> NumWorkers \in Nat \ {0} /\ FdRoom \in Nat \ {0} /\ MaxStarts \in Nat /\ HEAD \notin Monitors
  BY CaskAssumption
<1>1. MainTypes'
  BY DEF MainTypes
<1>2. FlagTypes'
  BY DEF FlagTypes
<1>3. PoolInv' /\ LeaveInv'
  BY DEF PoolInv, LeaveInv, Serving
<1>4. WalkInv'
  BY AfterKept DEF WalkInv
<1>5. HaveInv'
  BY DEF HaveInv
<1>6. QueueInv'
  BY DEF QueueInv
<1>7. ReplyInv'
  BY DEF MainTypes, ReplyInv, Read, HeardInv, Heard
<1> QED
  BY <1>1, <1>2, <1>3, <1>4, <1>5, <1>6, <1>7, MainFrame DEF MonTypes

(* The thread of a worker begins. *)
LEMMA KeepWorkerProc == ASSUME CaskInv, NEW w \in Workers, WorkerProc(w) PROVE CaskInv'
<1> USE DEF CaskInv, TypeOK, WorkerProc, WorkerAt
<1>1. PoolTypes'
  BY DEF PoolTypes, Gone
<1>2. PoolInv'
  BY DEF PoolTypes, PoolInv, Gone
<1>3. LeaveInv'
  BY DEF PoolTypes, LeaveInv, Gone
<1>4. WalkInv'
  BY AfterKept DEF MainTypes, PoolTypes, WalkInv, Gone
<1> QED
  BY <1>1, <1>2, <1>3, <1>4, WorkerFrame

(* A worker serves. *)
LEMMA KeepServe == ASSUME CaskInv, NEW w \in Workers, Serve(w) PROVE CaskInv'
<1> USE DEF CaskInv, TypeOK, Serve, WorkerAt
<1>1. PoolTypes'
  BY DEF PoolTypes, Gone
<1>2. PoolInv'
  BY DEF PoolTypes, PoolInv, Gone
<1>3. LeaveInv'
  BY DEF PoolTypes, LeaveInv, Gone
<1>4. WalkInv'
  BY AfterKept DEF MainTypes, PoolTypes, WalkInv, Gone
<1> QED
  BY <1>1, <1>2, <1>3, <1>4, WorkerFrame

(* A worker has served. *)
LEMMA KeepServed == ASSUME CaskInv, NEW w \in Workers, Served(w) PROVE CaskInv'
<1> USE DEF CaskInv, TypeOK, Served, WorkerAt
<1>1. PoolTypes'
  BY DEF PoolTypes, Gone
<1>2. PoolInv'
  BY DEF PoolTypes, PoolInv, Gone
<1>3. LeaveInv'
  BY DEF PoolTypes, LeaveInv, Gone
<1>4. WalkInv'
  BY AfterKept DEF MainTypes, PoolTypes, WalkInv, Gone
<1> QED
  BY <1>1, <1>2, <1>3, <1>4, WorkerFrame

(* A monitor gives up. *)
LEMMA KeepReadFails == ASSUME CaskInv, NEW m \in Monitors, ReadFails(m) PROVE CaskInv'
<1> USE DEF CaskInv, TypeOK, ReadFails, MonitorAt
<1>1. MonTypes'
  BY EmptySeq DEF MonTypes, Asking
<1>2. QueueInv'
  BY DEF MonTypes, QueueInv, Asking
<1>3. HeardInv'
  BY DEF MonTypes, HeardInv, Heard, Read, Asking
<1>4. ReplyInv'
  <2>1. cur = HEAD \/ cur \in Monitors
    BY DEF MainTypes
  <2>2. CASE cur = HEAD
    BY <2>2 DEF ReplyInv
  <2>3. CASE cur = m
    BY <2>3 DEF MonTypes, ReplyInv, Read, Asking
  <2>4. CASE cur \in Monitors \ {m}
    BY <2>4 DEF MonTypes, ReplyInv, Read
  <2> QED
    BY <2>1, <2>2, <2>3, <2>4
<1> QED
  BY <1>1, <1>2, <1>3, <1>4, MonitorFrame

(* A monitor is interrupted, and what was on its way to it is lost. *)
LEMMA KeepLeave == ASSUME CaskInv, NEW m \in Monitors, Leave(m) PROVE CaskInv'
<1> USE DEF CaskInv, TypeOK, Leave, MonitorAt
<1>1. MonTypes'
  BY EmptySeq DEF MonTypes, Asking
<1>2. QueueInv'
  BY DEF MonTypes, QueueInv, Asking
<1>3. HeardInv'
  BY DEF MonTypes, HeardInv, Heard, Read, Asking
<1>4. ReplyInv'
  <2>1. cur = HEAD \/ cur \in Monitors
    BY DEF MainTypes
  <2>2. CASE cur = HEAD
    BY <2>2 DEF ReplyInv
  <2>3. CASE cur = m
    BY <2>3 DEF MonTypes, ReplyInv, Read, Asking
  <2>4. CASE cur \in Monitors \ {m}
    BY <2>4 DEF MonTypes, ReplyInv, Read
  <2> QED
    BY <2>1, <2>2, <2>3, <2>4
<1> QED
  BY <1>1, <1>2, <1>3, <1>4, MonitorFrame

(* A monitor asks, or finds the connection closed. *)
LEMMA KeepAsk == ASSUME CaskInv, NEW m \in Monitors, Ask(m) PROVE CaskInv'
<1> USE DEF CaskInv, TypeOK, Ask, MonitorAt
<1>1. MonTypes'
  BY EmptySeq DEF MonTypes, Asking
<1>2. QueueInv'
  <2>1. UNCHANGED <<backlog, wire, cur>>
    OBVIOUS
  <2>2. ASSUME NEW n \in Monitors, mon[n] \in {"connected", "asked", "failed"}
        PROVE  mon'[n] \in {"connected", "asked", "failed"}
    BY <2>2 DEF MonTypes
  <2>3. \A i \in 1..Len(backlog) : backlog[i] \in Monitors
    BY DEF MonTypes
  <2> QED
    BY <2>1, <2>2, <2>3 DEF QueueInv
<1>3. HeardInv'
  <2>1. ASSUME NEW n \in Monitors PROVE Heard(n)'
    <3>1. CASE n = m
      BY <3>1 DEF MonTypes, HeardInv, Heard, Read
    <3>2. CASE n # m
      BY <3>2 DEF MonTypes, HeardInv, Heard, Read
    <3> QED
      BY <3>1, <3>2
  <2> QED
    BY <2>1 DEF HeardInv
<1>4. ReplyInv'
  <2>1. cur = HEAD \/ cur \in Monitors
    BY DEF MainTypes
  <2>2. CASE cur = HEAD
    BY <2>2 DEF ReplyInv
  <2>5. /\ UNCHANGED <<main, cur, leaks, wire, iter, left, got>>
        /\ mon[m] = "connected" /\ mon'[m] \in {"asked", "failed"}
        /\ \A n \in Monitors : n # m => mon'[n] = mon[n]
    BY DEF MonTypes
  <2>3. CASE cur = m
    <3>1. main = "read" /\ leaks < FdRoom /\ wire[cur] = <<>> /\ cur # HEAD
      <4>1. ReplyInv /\ cur # HEAD /\ mon[cur] = "connected"
        BY <2>3, <2>5, CaskAssumption
      <4> QED
        BY <4>1 DEF ReplyInv
    <3>2. main' = "read" /\ leaks' < FdRoom /\ wire'[cur'] = <<>> /\ cur' # HEAD
          /\ mon'[cur'] \in {"connected", "asked", "failed"}
      BY <2>3, <2>5, <3>1
    <3> QED
      BY <3>2 DEF ReplyInv
  <2>4. CASE cur \in Monitors \ {m}
    <3>1. mon'[cur'] = mon[cur] /\ wire'[cur'] = wire[cur] /\ Read(cur)' = Read(cur)
      BY <2>4, <2>5 DEF Read
    <3> QED
      BY <2>5, <3>1 DEF ReplyInv
  <2> QED
    BY <2>1, <2>2, <2>3, <2>4
<1> QED
  BY <1>1, <1>2, <1>3, <1>4, MonitorFrame

(* The database is open, or main returns. *)
LEMMA KeepOpenDb == ASSUME CaskInv, OpenDb PROVE CaskInv'
<1> NumWorkers \in Nat \ {0} /\ FdRoom \in Nat \ {0} /\ MaxStarts \in Nat /\ HEAD \notin Monitors
  BY CaskAssumption
<1>1. CASE EndProcess /\ UNCHANGED orphan
  <2>1. path => orphan
    BY DEF CaskInv, HaveInv, OpenDb
  <2> QED
    BY <1>1, <2>1, KeepEnd DEF CaskInv, TypeOK, FlagTypes
<1>2. CASE /\ main = "open" /\ main' = "ipc" /\ have' = have \cup {"db"}
           /\ UNCHANGED <<poolVars, sigint, lock, iter, next, fileVars, ipcVars, monVars>>
  <2> USE <1>2 DEF CaskInv, TypeOK
  <2>1. MainTypes'
    BY DEF MainTypes
  <2>2. FlagTypes'
    BY DEF FlagTypes
  <2>3. PoolInv' /\ LeaveInv' /\ WalkInv' /\ HaveInv'
    BY DEF PoolInv, LeaveInv, WalkInv, HaveInv, Serving
  <2>4. QueueInv' /\ ReplyInv'
    BY DEF QueueInv, ReplyInv
  <2> QED
    BY <2>1, <2>2, <2>3, <2>4, MainFrame DEF MonTypes
<1> QED
  BY <1>1, <1>2 DEF OpenDb

(* The path exists and main is to remove it, or it is left behind by a listen that fails,  *)
(* or the path of another process ends this one.                                           *)
LEMMA KeepSetupIpc == ASSUME CaskInv, SetupIpc PROVE CaskInv'
<1> NumWorkers \in Nat \ {0} /\ FdRoom \in Nat \ {0} /\ MaxStarts \in Nat /\ HEAD \notin Monitors
  BY CaskAssumption
<1>1. CASE EndProcess /\ UNCHANGED orphan
  <2>1. path => orphan
    BY DEF CaskInv, HaveInv, SetupIpc
  <2> QED
    BY <1>1, <2>1, KeepEnd DEF CaskInv, TypeOK, FlagTypes
<1>2. CASE /\ main = "ipc" /\ path' = TRUE
           /\ main' = "spawn" /\ have' = have \cup {"ipc", "path", "index"}
           /\ UNCHANGED <<poolVars, sigint, lock, iter, next, orphan, starts, ipcVars, monVars>>
  <2> USE <1>2 DEF CaskInv, TypeOK
  <2>1. MainTypes'
    BY DEF MainTypes
  <2>2. FlagTypes'
    BY DEF FlagTypes
  <2>3. PoolInv'
    <3>1. workers = <<>> /\ num_workers = 0 /\ current_id = 0
      BY EmptySeq DEF PoolTypes, PoolInv
    <3>2. workers = [i \in 1..current_id |-> i]
      BY <3>1
    <3> QED
      BY <3>1, <3>2 DEF PoolInv, Serving
  <2>4. LeaveInv' /\ WalkInv' /\ HaveInv'
    BY DEF LeaveInv, WalkInv, HaveInv
  <2>5. QueueInv' /\ ReplyInv'
    BY DEF QueueInv, ReplyInv
  <2> QED
    BY <2>1, <2>2, <2>3, <2>4, <2>5, MainFrame DEF MonTypes
<1>3. CASE /\ main = "ipc" /\ main' = "ended" /\ have' = {} /\ sigint' = FALSE
           /\ path' = TRUE /\ orphan' = TRUE
           /\ UNCHANGED <<poolVars, lock, iter, next, starts, ipcVars, monVars>>
  <2> USE <1>3 DEF CaskInv, TypeOK
  <2>1. MainTypes'
    BY DEF MainTypes
  <2>2. FlagTypes'
    BY DEF FlagTypes
  <2>3. PoolInv' /\ LeaveInv' /\ WalkInv' /\ HaveInv'
    BY DEF PoolInv, LeaveInv, WalkInv, HaveInv, Serving
  <2>4. QueueInv' /\ ReplyInv'
    BY DEF QueueInv, ReplyInv
  <2> QED
    BY <2>1, <2>2, <2>3, <2>4, MainFrame DEF MonTypes
<1> QED
  BY <1>1, <1>2, <1>3 DEF SetupIpc

(* The list grows by the worker with the next id, or main gives up, and the count may then *)
(* be one more than the list holds.                                                        *)
LEMMA KeepStartWorker == ASSUME CaskInv, StartWorker PROVE CaskInv'
<1> USE DEF CaskInv, TypeOK, StartWorker, AfterError
<1> NumWorkers \in Nat \ {0} /\ FdRoom \in Nat \ {0} /\ MaxStarts \in Nat /\ HEAD \notin Monitors
  BY CaskAssumption
<1>1. MainTypes'
  BY DEF MainTypes
<1>2. FlagTypes' /\ MonTypes'
  BY DEF FlagTypes, MonTypes
<1>3. /\ workers = [i \in 1..current_id |-> i] /\ num_workers = current_id
      /\ current_id \in Nat /\ current_id + 1 \in Workers
      /\ wpc[current_id + 1] = "none" /\ ~running[current_id + 1]
  BY DEF PoolTypes, PoolInv, LeaveInv
<1>4. PoolTypes' /\ PoolInv' /\ LeaveInv'
  <2>1. CASE /\ workers' = Append(workers, current_id + 1)
             /\ wpc' = [wpc EXCEPT ![current_id + 1] = "created"]
             /\ current_id' = current_id + 1 /\ num_workers' = num_workers + 1
             /\ UNCHANGED <<main, running>>
    <3>1. workers' = [i \in 1..current_id' |-> i]
      BY <1>3, <2>1
    <3>2. PoolTypes'
      BY <1>3, <2>1, AppendProperties DEF PoolTypes
    <3>3. Len(workers') = current_id'
      BY <1>3, <2>1, <3>1
    <3>4. \A w \in Workers : wpc'[w] \notin Gone <=> w \in 1..current_id'
      BY <1>3, <2>1 DEF PoolTypes, PoolInv, Gone
    <3>5. PoolInv'
      <4>1. \A i, j \in 1..Len(workers') : i < j => workers'[i] < workers'[j]
        BY <1>3, <2>1, <3>1, <3>3
      <4>2. \A w \in Workers : (\E i \in 1..Len(workers') : workers'[i] = w) <=> wpc'[w] \notin Gone
        BY <1>3, <2>1, <3>1, <3>3, <3>4
      <4>3. \A w \in Workers : w > current_id' => wpc'[w] = "none"
        BY <1>3, <2>1 DEF PoolTypes, PoolInv
      <4> QED
        BY <1>3, <2>1, <3>1, <3>3, <4>1, <4>2, <4>3 DEF PoolInv, Serving
    <3>6. LeaveInv'
      BY <1>3, <2>1 DEF PoolTypes, LeaveInv
    <3> QED
      BY <3>2, <3>5, <3>6
  <2>2. CASE /\ current_id' \in {current_id, current_id + 1} /\ num_workers' = current_id'
             /\ main' = "out" /\ UNCHANGED <<workers, wpc, running>>
    <3>1. PoolTypes'
      BY <1>3, <2>2 DEF PoolTypes
    <3>2. PoolInv'
      BY <1>3, <2>2 DEF PoolTypes, PoolInv, Serving
    <3>3. LeaveInv'
      BY <2>2 DEF LeaveInv
    <3> QED
      BY <3>1, <3>2, <3>3
  <2> QED
    BY <1>3, <2>1, <2>2
<1>5. main' # "stop" /\ main' # "thread" /\ main' # "join" /\ main' # "ended" /\ main' # "open" /\ main' # "ipc"
      /\ main' # "read" /\ main' # "status" /\ main' # "reply"
  OBVIOUS
<1>6. WalkInv' /\ HaveInv'
  BY <1>5 DEF WalkInv, HaveInv
<1>7. QueueInv' /\ ReplyInv'
  BY <1>5 DEF QueueInv, ReplyInv
<1> QED
  BY <1>1, <1>2, <1>4, <1>6, <1>7, HeardKept

(* A worker is told to stop and main waits for it beside the list, or main walks on. *)
LEMMA KeepShutdownWorker == ASSUME CaskInv, ShutdownWorker PROVE CaskInv'
<1> USE DEF CaskInv, TypeOK
<1> NumWorkers \in Nat \ {0} /\ FdRoom \in Nat \ {0} /\ MaxStarts \in Nat /\ HEAD \notin Monitors
  BY CaskAssumption
<1>1. /\ main = "stop" /\ iter \in Workers /\ wpc[iter] \notin Gone /\ next = After(iter)
      /\ next \in Workers \cup {HEAD} /\ next # iter /\ (next # HEAD => wpc[next] \notin Gone)
  <2>1. main = "stop" /\ iter \in Workers /\ wpc[iter] \notin Gone /\ next = After(iter)
    BY DEF ShutdownWorker, MainTypes, WalkInv
  <2> QED
    BY <2>1, AfterFacts
<1>2. After(next) \in Workers \cup {HEAD}
  BY <1>1, AfterFacts
<1>3. UNCHANGED <<current_id, workers, num_workers, wpc, have, sigint, lock, fileVars, ipcVars,
                  monVars>>
  BY DEF ShutdownWorker
<1>4. FlagTypes' /\ MonTypes' /\ HeardInv'
  BY <1>3, HeardKept DEF FlagTypes, MonTypes
<1>5. CASE running[iter] /\ running' = Stopped(iter) /\ main' = "thread" /\ UNCHANGED <<iter, next>>
  <2> USE <1>1, <1>3, <1>5 DEF Stopped
  <2>1. MainTypes' /\ HaveInv' /\ QueueInv' /\ ReplyInv'
    BY DEF MainTypes, HaveInv, QueueInv, ReplyInv
  <2>2. PoolTypes'
    BY DEF PoolTypes
  <2>3. PoolInv'
    BY DEF PoolInv, Serving
  <2>4. LeaveInv'
    BY DEF PoolTypes, LeaveInv
  <2>5. WalkInv'
    BY DEF PoolTypes, WalkInv, LeaveInv
  <2> QED
    BY <1>4, <2>1, <2>2, <2>3, <2>4, <2>5
<1>6. CASE ~running[iter] /\ Advance /\ UNCHANGED <<main, running>>
  <2> USE <1>1, <1>3, <1>6 DEF Advance
  <2>1. MainTypes'
    BY <1>2 DEF MainTypes
  <2>2. PoolTypes' /\ PoolInv' /\ LeaveInv'
    BY DEF PoolTypes, PoolInv, LeaveInv
  <2>3. WalkInv'
    BY AfterAdvance DEF WalkInv
  <2>4. HaveInv' /\ QueueInv' /\ ReplyInv'
    BY DEF HaveInv, QueueInv, ReplyInv
  <2> QED
    BY <1>4, <2>1, <2>2, <2>3, <2>4
<1> QED
  BY <1>5, <1>6 DEF ShutdownWorker

(* The worker is gone and the node that main remembered is still there. *)
LEMMA KeepWalkOn ==
  ASSUME CaskInv, main \in {"thread", "join"}, wpc[iter] \in Gone, main' = "stop", Advance,
         UNCHANGED <<poolVars, have, sigint, lock, fileVars, ipcVars, monVars>>
  PROVE  CaskInv'
<1> USE DEF CaskInv, TypeOK, Advance
<1> NumWorkers \in Nat \ {0} /\ FdRoom \in Nat \ {0} /\ MaxStarts \in Nat /\ HEAD \notin Monitors
  BY CaskAssumption
<1>1. next \in Workers \cup {HEAD} /\ (next # HEAD => wpc[next] \notin Gone)
  BY DEF MainTypes, WalkInv
<1>2. After(next) \in Workers \cup {HEAD}
  BY <1>1, AfterFacts
<1>3. MainTypes'
  BY <1>1, <1>2 DEF MainTypes
<1>4. FlagTypes'
  BY DEF FlagTypes
<1>5. PoolInv'
  BY DEF PoolInv, Serving
<1>6. LeaveInv'
  BY DEF LeaveInv, Gone
<1>7. WalkInv'
  BY <1>1, AfterAdvance DEF WalkInv
<1>8. HaveInv' /\ QueueInv' /\ ReplyInv'
  BY DEF HaveInv, QueueInv, ReplyInv
<1> QED
  BY <1>3, <1>4, <1>5, <1>6, <1>7, <1>8, MainFrame DEF MonTypes

(* pthread_join has waited for the worker. *)
LEMMA KeepJoin == ASSUME CaskInv, Join PROVE CaskInv'
BY KeepWalkOn DEF Join, Gone

(* main has the thread of a worker that runs or has freed itself, or what it read from the *)
(* freed worker ended the process or pthread_join.                                         *)
LEMMA KeepReadThread == ASSUME CaskInv, ReadThread PROVE CaskInv'
<1>1. CASE wpc[iter] \in Gone /\ Die
  BY <1>1, KeepDie
<1>2. CASE /\ main = "thread" /\ wpc[iter] \in Gone /\ main' = "stop" /\ Advance
           /\ UNCHANGED <<poolVars, have, sigint, lock, fileVars, ipcVars, monVars>>
  BY <1>2, KeepWalkOn
<1>3. CASE /\ main = "thread" /\ main' = "join"
           /\ UNCHANGED <<poolVars, have, sigint, lock, iter, next, fileVars, ipcVars, monVars>>
  <2> USE <1>3 DEF CaskInv, TypeOK
  <2>1. MainTypes' /\ FlagTypes'
    BY DEF MainTypes, FlagTypes
  <2>2. PoolInv' /\ LeaveInv'
    BY DEF PoolInv, LeaveInv, Serving
  <2>3. WalkInv' /\ HaveInv'
    BY DEF WalkInv, HaveInv
  <2>4. QueueInv' /\ ReplyInv'
    BY DEF QueueInv, ReplyInv
  <2> QED
    BY <2>1, <2>2, <2>3, <2>4, MainFrame DEF MonTypes
<1> QED
  BY <1>1, <1>2, <1>3 DEF ReadThread

(* main returns after it has removed the path. *)
LEMMA KeepExit == ASSUME CaskInv, Exit PROVE CaskInv'
<1>1. path => orphan
  BY DEF CaskInv, HaveInv, Exit
<1> QED
  BY <1>1, KeepEnd DEF Exit, CaskInv, TypeOK, FlagTypes

(* The only worker that takes itself off the list is the one that main is joining, so the  *)
(* node that main goes to next is another one.                                             *)
LEMMA KeepDestroyWorker == ASSUME CaskInv, NEW w \in Workers, DestroyWorker(w) PROVE CaskInv'
<1> USE DEF CaskInv, TypeOK
<1> NumWorkers \in Nat \ {0} /\ FdRoom \in Nat \ {0} /\ MaxStarts \in Nat /\ HEAD \notin Monitors
  BY CaskAssumption
<1>1. /\ wpc[w] = "run" /\ ~running[w] /\ wpc' = [wpc EXCEPT ![w] = "gone"]
      /\ num_workers' = num_workers - 1 /\ workers' = Unlinked(w)
      /\ UNCHANGED <<current_id, running, mainVars, fileVars, ipcVars, monVars>>
  BY DEF DestroyWorker, WorkerAt, Uncount
<1>2. main \in {"thread", "join"} /\ iter = w
  BY <1>1 DEF LeaveInv
<1>3. wpc[w] \notin Gone
  BY <1>1 DEF Gone
<1>4. /\ workers' \in Seq(Workers) /\ Len(workers) > 0 /\ Len(workers') = Len(workers) - 1
      /\ \A i, j \in 1..Len(workers') : i < j => workers'[i] < workers'[j]
      /\ \A v \in Workers : (\E i \in 1..Len(workers') : workers'[i] = v)
                            <=> v # w /\ \E i \in 1..Len(workers) : workers[i] = v
  <2>1. /\ Unlinked(w) \in Seq(Workers)
        /\ Len(workers) > 0 /\ Len(Unlinked(w)) = Len(workers) - 1
        /\ \A i, j \in 1..Len(Unlinked(w)) : i < j => Unlinked(w)[i] < Unlinked(w)[j]
        /\ \A v \in Workers : (\E i \in 1..Len(Unlinked(w)) : Unlinked(w)[i] = v)
                              <=> v # w /\ \E i \in 1..Len(workers) : workers[i] = v
    BY <1>3, UnlinkedFacts
  <2> QED
    BY <1>1, <2>1, Zenon
<1>5. PoolTypes'
  BY <1>1, <1>4 DEF PoolTypes, PoolInv, Gone
<1>6. PoolInv'
  <2>1. \A v \in Workers : wpc'[v] \notin Gone <=> v # w /\ wpc[v] \notin Gone
    BY <1>1 DEF PoolTypes, Gone
  <2>2. \A v \in Workers : v > current_id' => wpc'[v] = "none"
    BY <1>1 DEF PoolTypes, PoolInv
  <2>3. Len(workers') <= num_workers' /\ num_workers' <= current_id'
    BY <1>1, <1>4 DEF PoolTypes, PoolInv
  <2>4. \A v \in Workers : (\E i \in 1..Len(workers') : workers'[i] = v) <=> wpc'[v] \notin Gone
    BY <1>4, <2>1 DEF PoolInv
  <2> QED
    BY <1>1, <1>2, <1>4, <2>2, <2>3, <2>4 DEF PoolInv, Serving
<1>7. LeaveInv'
  BY <1>1, <1>2 DEF PoolTypes, LeaveInv
<1>8. WalkInv'
  BY <1>1, <1>2 DEF MainTypes, PoolTypes, WalkInv, Gone
<1> QED
  BY <1>1, <1>5, <1>6, <1>7, <1>8, WorkerFrame

(* The two headers are the beginning of the right answer, because the pool is complete. *)
LEMMA KeepWriteStatus == ASSUME CaskInv, WriteStatus PROVE CaskInv'
<1> USE DEF CaskInv, TypeOK
<1> NumWorkers \in Nat \ {0} /\ FdRoom \in Nat \ {0} /\ MaxStarts \in Nat /\ HEAD \notin Monitors
  BY CaskAssumption
<1>1. /\ main = "status" /\ lock' = TRUE /\ left' = num_workers /\ iter' = First /\ main' = "reply"
      /\ wire' = [wire EXCEPT ![cur] = IF mon[cur] = "failed" THEN @ ELSE @ \o <<0, num_workers>>]
      /\ UNCHANGED <<poolVars, have, sigint, next, fileVars, backlog, cur, leaks, link, mon, want, got>>
  BY DEF WriteStatus, Write, IPC_CMD_STATUS
<1>2. num_workers = NumWorkers /\ workers = [i \in 1..NumWorkers |-> i]
  BY <1>1 DEF PoolInv, Serving
<1>3. First = 1
  BY <1>2, WalkInOrder
<1>4. cur \in Monitors /\ wire[cur] = <<>> /\ mon[cur] \in {"asked", "failed"}
  BY <1>1 DEF MainTypes, ReplyInv
<1>5. wire' = [wire EXCEPT ![cur] = IF mon[cur] = "failed" THEN <<>> ELSE <<0, NumWorkers>>]
  <2>1. <<0, NumWorkers>> \in Seq(Nat)
    OBVIOUS
  <2>2. <<>> \o <<0, NumWorkers>> = <<0, NumWorkers>>
    BY <2>1, ConcatEmptySeq
  <2> QED
    BY <1>1, <1>2, <1>4, <2>2 DEF MonTypes
<1> HIDE DEF CaskInv
<1>6. MainTypes'
  BY <1>1, <1>2, <1>3 DEF CaskInv, MainTypes
<1>7. FlagTypes' /\ PoolTypes'
  BY <1>1 DEF CaskInv, FlagTypes, PoolTypes
<1>8. MonTypes'
  <2>1. <<0, NumWorkers>> \in Seq(0..NumWorkers) /\ <<>> \in Seq(0..NumWorkers)
    OBVIOUS
  <2>2. wire' \in [Monitors -> Seq(0..NumWorkers)]
    BY <1>4, <1>5, <2>1 DEF CaskInv, MonTypes
  <2> QED
    BY <1>1, <1>4, <1>5, <2>1, <2>2 DEF CaskInv, MonTypes
<1>9. PoolInv' /\ LeaveInv' /\ WalkInv' /\ HaveInv'
  BY <1>1 DEF CaskInv, PoolInv, LeaveInv, WalkInv, HaveInv, Serving
<1>10. QueueInv'
  <2>1. \A n \in Monitors : n # cur => wire'[n] = wire[n]
    BY <1>5 DEF CaskInv, MonTypes
  <2>2. \A i \in 1..Len(backlog) : backlog[i] \in Monitors
    BY DEF CaskInv, MonTypes
  <2> QED
    BY <1>1, <2>1, <2>2 DEF CaskInv, QueueInv
<1>11. ASSUME NEW m \in Monitors PROVE Heard(m)'
  <2>1. Heard(m)
    BY DEF CaskInv, HeardInv
  <2>2. CASE m # cur \/ mon[cur] = "failed"
    <3>1. wire'[m] = wire[m]
      BY <1>4, <1>5, <2>2 DEF CaskInv, MonTypes
    <3> QED
      BY <1>1, <2>1, <3>1 DEF Heard, Read
  <2>3. CASE m = cur /\ mon[cur] = "asked"
    <3>1. wire'[m] = <<0, NumWorkers>> /\ Read(m)' = 0 /\ mon'[m] = "asked" /\ got'[m] = <<>>
      BY <1>1, <1>5, <2>1, <2>3 DEF CaskInv, MonTypes, Heard, Read
    <3> QED
      BY <3>1, <1>1, <2>1, <2>3 DEF Heard, AnswerItem, IPC_CMD_STATUS
  <2> QED
    BY <1>4, <2>2, <2>3
<1>12. HeardInv'
  BY <1>11 DEF HeardInv
<1>13. ReplyInv'
  <2>1. mon'[cur'] # "failed" => wire'[cur'] = <<0, NumWorkers>> /\ Read(cur)' = 0
    BY <1>1, <1>4, <1>5 DEF CaskInv, MonTypes, Read
  <2>2. left' = NumWorkers /\ iter' = 1
    BY <1>1, <1>2, <1>3
  <2>3. mon'[cur'] # "failed" => Read(cur)' + Len(wire'[cur']) = 2 + NumWorkers - left'
    <3>1. Len(<<0, NumWorkers>>) = 2
      OBVIOUS
    <3>2. PICK r, l : r = Read(cur)' /\ l = Len(wire'[cur'])
      OBVIOUS
    <3>3. mon'[cur'] # "failed" => r = 0 /\ l = 2
      BY <2>1, <3>1, <3>2
    <3>4. mon'[cur'] # "failed" => r + l = 2 + NumWorkers - left'
      BY <2>2, <3>3
    <3> QED
      BY <3>2, <3>4
  <2>4. iter' = IF left' = 0 THEN HEAD ELSE NumWorkers - left' + 1
    BY <2>2
  <2> QED
    BY <1>1, <1>4, <2>3, <2>4 DEF ReplyInv
<1> QED
  BY <1>6, <1>7, <1>8, <1>9, <1>10, <1>12, <1>13 DEF CaskInv

(* The worker that iter points to is the one whose turn it is in the answer. *)
LEMMA KeepWriteEntry == ASSUME CaskInv, WriteEntry PROVE CaskInv'
<1> USE DEF TypeOK
<1> NumWorkers \in Nat \ {0} /\ FdRoom \in Nat \ {0} /\ MaxStarts \in Nat /\ HEAD \notin Monitors
  BY CaskAssumption
<1>1. /\ main = "reply" /\ left > 0 /\ left' = left - 1 /\ iter' = After(iter)
      /\ wire' = [wire EXCEPT ![cur] = IF mon[cur] = "failed" THEN @ ELSE @ \o <<iter>>]
      /\ UNCHANGED <<poolVars, main, have, sigint, lock, next, fileVars, backlog, cur, leaks,
                     link, mon, want, got>>
  BY DEF WriteEntry, Write
<1>2. left \in 1..NumWorkers /\ iter = NumWorkers - left + 1 /\ iter \in Workers /\ cur \in Monitors
  BY <1>1 DEF CaskInv, MainTypes, ReplyInv
<1>3. iter' = IF left' = 0 THEN HEAD ELSE NumWorkers - left' + 1
  <2>1. workers = [i \in 1..NumWorkers |-> i]
    BY <1>1 DEF CaskInv, PoolInv, Serving
  <2>2. After(iter) = IF iter = NumWorkers THEN HEAD ELSE iter + 1
    BY <1>2, <2>1, WalkInOrder
  <2> QED
    BY <1>1, <1>2, <2>2
<1>4. MainTypes'
  BY <1>1, <1>2, <1>3 DEF CaskInv, MainTypes
<1>5. FlagTypes' /\ PoolTypes'
  BY <1>1 DEF CaskInv, FlagTypes, PoolTypes
<1>6. /\ wire[cur] \in Seq(0..NumWorkers) /\ wire[cur] \o <<iter>> \in Seq(0..NumWorkers)
      /\ Len(wire[cur]) \in Nat /\ Len(wire[cur] \o <<iter>>) = Len(wire[cur]) + 1
      /\ \A i \in 1..Len(wire[cur]) : (wire[cur] \o <<iter>>)[i] = wire[cur][i]
      /\ (wire[cur] \o <<iter>>)[Len(wire[cur]) + 1] = iter
  <2>1. wire[cur] \in Seq(0..NumWorkers) /\ <<iter>> \in Seq(0..NumWorkers)
    BY <1>2 DEF CaskInv, MonTypes
  <2> QED
    BY <2>1, ConcatProperties
<1>7. MonTypes'
  BY <1>1, <1>2, <1>6 DEF CaskInv, MonTypes
<1>8. PoolInv' /\ LeaveInv' /\ WalkInv' /\ HaveInv'
  BY <1>1 DEF CaskInv, PoolInv, LeaveInv, WalkInv, HaveInv, Serving
<1>9. QueueInv'
  <2>1. \A n \in Monitors : n # cur => wire'[n] = wire[n]
    BY <1>1 DEF CaskInv, MonTypes
  <2>2. \A i \in 1..Len(backlog) : backlog[i] \in Monitors
    BY DEF CaskInv, MonTypes
  <2> QED
    BY <1>1, <2>1, <2>2 DEF CaskInv, QueueInv
<1>10. mon[cur] # "failed" => Read(cur) + Len(wire[cur]) = 2 + NumWorkers - left
  BY <1>1 DEF CaskInv, ReplyInv
<1>11. Read(cur) \in Nat
  BY <1>2 DEF CaskInv, MonTypes, Read
<1>12. ASSUME NEW m \in Monitors PROVE Heard(m)'
  <2>1. Heard(m)
    BY DEF CaskInv, HeardInv
  <2>2. CASE m # cur \/ mon[cur] = "failed"
    <3>1. wire'[m] = wire[m]
      BY <1>1, <1>2, <2>2 DEF CaskInv, MonTypes
    <3> QED
      BY <1>1, <2>1, <3>1 DEF Heard, Read
  <2>3. CASE m = cur /\ mon[cur] # "failed"
    <3>1. wire'[m] = wire[m] \o <<iter>> /\ Read(m)' = Read(m)
      BY <1>1, <1>2, <2>3 DEF CaskInv, MonTypes, Read
    <3>2. AnswerItem(Read(m) + Len(wire[m]) + 1) = iter
      <4>1. PICK r \in Nat, k \in Nat : r = Read(m) /\ k = Len(wire[m])
        BY <1>6, <1>11, <2>3
      <4>2. r + k = 2 + NumWorkers - left
        BY <1>10, <2>3, <4>1
      <4>3. r + k + 1 = iter + 2
        BY <1>2, <4>2
      <4>4. AnswerItem(r + k + 1) = iter
        BY <1>2, <4>3 DEF AnswerItem
      <4> QED
        BY <4>1, <4>4
    <3>3. \A i \in 1..Len(wire'[m]) : wire'[m][i] = AnswerItem(Read(m) + i)
      <4> SUFFICES ASSUME NEW i \in 1..Len(wire'[m]) PROVE wire'[m][i] = AnswerItem(Read(m) + i)
        OBVIOUS
      <4>1. CASE i \in 1..Len(wire[m])
        BY <4>1, <1>6, <2>1, <2>3, <3>1 DEF Heard
      <4>2. CASE i = Len(wire[m]) + 1
        <5>1. Read(m) + i = Read(m) + Len(wire[m]) + 1
          <6>1. PICK r \in Nat : r = Read(m)
            BY <1>11, <2>3
          <6>2. PICK l \in Nat : l = Len(wire[m])
            BY <1>6, <2>3
          <6>3. r + i = r + l + 1
            BY <6>1, <6>2, <4>2
          <6> QED
            BY <6>1, <6>2, <6>3
        <5> QED
          BY <4>2, <5>1, <1>6, <2>3, <3>1, <3>2
      <4> QED
        BY <4>1, <4>2, <1>6, <2>3, <3>1
    <3>4. mon[m] \notin {"idle", "connected", "failed"}
      BY <1>1, <2>3 DEF CaskInv, ReplyInv
    <3> QED
      BY <1>1, <2>1, <3>1, <3>3, <3>4 DEF Heard
  <2> QED
    BY <2>2, <2>3
<1>13. HeardInv'
  BY <1>12 DEF HeardInv
<1>14. ReplyInv'
  <2>1. mon[cur] # "failed" => Len(wire'[cur']) = Len(wire[cur]) + 1
    BY <1>1, <1>2, <1>6 DEF CaskInv, MonTypes
  <2>3. Read(cur)' = Read(cur) /\ mon'[cur'] = mon[cur]
    BY <1>1 DEF Read
  <2>2. mon'[cur'] # "failed" => Read(cur)' + Len(wire'[cur']) = 2 + NumWorkers - left'
    <3>1. PICK r \in Nat : r = Read(cur)' /\ r = Read(cur)
      BY <1>11, <2>3
    <3>2. PICK k, l : k \in Nat /\ k = Len(wire[cur]) /\ l = Len(wire'[cur'])
      BY <1>6
    <3>3. mon'[cur'] # "failed" => r + k = 2 + NumWorkers - left /\ l = k + 1
      BY <1>10, <2>1, <2>3, <3>1, <3>2
    <3>4. left' = left - 1 /\ left \in Nat
      BY <1>1, <1>2
    <3>5. mon'[cur'] # "failed" => r + l = 2 + NumWorkers - left'
      BY <3>1, <3>2, <3>3, <3>4, SMTT(30)
    <3> QED
      BY <3>1, <3>2, <3>5
  <2> QED
    BY <1>1, <1>3, <2>2 DEF CaskInv, ReplyInv
<1> QED
  BY <1>4, <1>5, <1>7, <1>8, <1>9, <1>13, <1>14 DEF CaskInv

(* The answer is complete. *)
LEMMA KeepCloseReply == ASSUME CaskInv, CloseReply PROVE CaskInv'
<1> USE DEF CaskInv, TypeOK, CloseReply, Unlock
<1> NumWorkers \in Nat \ {0} /\ FdRoom \in Nat \ {0} /\ MaxStarts \in Nat /\ HEAD \notin Monitors
  BY CaskAssumption
<1>1. MainTypes'
  BY DEF MainTypes
<1>2. FlagTypes'
  BY DEF FlagTypes
<1>3. PoolTypes'
  BY DEF PoolTypes
<1>4. MonTypes'
  BY DEF MonTypes
<1>5. PoolInv' /\ LeaveInv' /\ WalkInv' /\ HaveInv'
  BY DEF PoolInv, LeaveInv, WalkInv, HaveInv, Serving
<1>6. QueueInv'
  BY DEF MonTypes, QueueInv
<1>7. HeardInv'
  BY DEF MonTypes, HeardInv, Heard, Read
<1>8. ReplyInv'
  BY DEF ReplyInv
<1> QED
  BY <1>1, <1>2, <1>3, <1>4, <1>5, <1>6, <1>7, <1>8

(* The release of "path" is what removes it, and that of "ipc" hangs up on those who wait. *)
LEMMA KeepRelease == ASSUME CaskInv, Release PROVE CaskInv'
<1> USE DEF CaskInv, TypeOK
<1> NumWorkers \in Nat \ {0} /\ FdRoom \in Nat \ {0} /\ MaxStarts \in Nat /\ HEAD \notin Monitors
  BY CaskAssumption
<1>1. /\ main = "out"
      /\ UNCHANGED <<poolVars, main, sigint, lock, iter, next, orphan, starts, cur, left, leaks,
                     wire, mon, want, got>>
  BY DEF Release
<1>2. PICK r : have' = have \ {r} /\ path' = (path /\ r # "path")
  BY DEF Release
<1>3. /\ \A m \in Monitors : link'[m] \in {"closed", link[m]}
      /\ link' \in [Monitors -> {"none", "open", "asked", "closed"}]
      /\ backlog' \in {backlog, <<>>}
  BY DEF Release, MonTypes
<1>4. MainTypes'
  BY <1>1, <1>2 DEF MainTypes
<1>5. FlagTypes'
  <2>1. path' \in BOOLEAN
    BY <1>2
  <2> QED
    BY <1>1, <2>1 DEF FlagTypes
<1>6. PoolTypes' /\ MonTypes'
  <2>1. PoolTypes'
    BY <1>1 DEF PoolTypes
  <2>2. MonTypes /\ <<>> \in Seq(Monitors)
    BY EmptySeq
  <2>3. backlog' \in Seq(Monitors)
    BY <1>3, <2>2 DEF MonTypes
  <2>4. MonTypes'
    BY <1>1, <1>3, <2>2, <2>3 DEF MonTypes
  <2> QED
    BY <2>1, <2>4
<1>7. PoolInv' /\ LeaveInv' /\ WalkInv'
  BY <1>1 DEF PoolInv, LeaveInv, WalkInv
<1>8. HaveInv'
  BY <1>1, <1>2 DEF HaveInv
<1>9. QueueInv'
  BY <1>1, <1>3 DEF QueueInv
<1>10. HeardInv'
  BY <1>1, <1>3 DEF HeardInv, Heard, Read
<1>11. ReplyInv'
  BY <1>1 DEF ReplyInv
<1> QED
  BY <1>4, <1>5, <1>6, <1>7, <1>8, <1>9, <1>10, <1>11

(* A monitor that connects waits at the end of the queue, where it was not yet. *)
LEMMA KeepConnect == ASSUME CaskInv, NEW m \in Monitors, Connect(m) PROVE CaskInv'
<1> USE DEF CaskInv, TypeOK, MonitorAt
<1> HEAD \notin Monitors
  BY CaskAssumption
<1>1. m # cur /\ \A i \in 1..Len(backlog) : backlog[i] # m
  <2>1. mon[m] = "idle"
    BY DEF Connect
  <2> QED
    BY <2>1 DEF MainTypes, MonTypes, QueueInv, ReplyInv
<1>2. CASE /\ MonitorAt(m, "idle", "connected")
           /\ link' = [link EXCEPT ![m] = "open"] /\ backlog' = Append(backlog, m)
           /\ UNCHANGED <<wire, want, got>>
  <2> USE <1>2
  <2>1. /\ backlog' \in Seq(Monitors) /\ Len(backlog) \in Nat /\ Len(backlog') = Len(backlog) + 1
        /\ \A i \in 1..Len(backlog) : backlog'[i] = backlog[i] /\ backlog[i] \in Monitors
        /\ backlog'[Len(backlog) + 1] = m
    BY AppendProperties DEF MonTypes
  <2>2. MonTypes'
    BY <2>1 DEF MonTypes
  <2>3. wire[m] = <<>> /\ got[m] = <<>>
    BY DEF HeardInv, Heard
  <2>4. QueueInv'
    <3>1. ASSUME NEW i \in 1..Len(backlog'), NEW j \in 1..Len(backlog'), i # j
          PROVE  backlog'[i] # backlog'[j]
      BY <1>1, <2>1, <3>1 DEF QueueInv
    <3>2. ASSUME NEW i \in 1..Len(backlog')
          PROVE  /\ backlog'[i] # cur' /\ wire'[backlog'[i]] = <<>>
                 /\ mon'[backlog'[i]] \in {"connected", "asked", "failed"}
      <4>1. CASE i \in 1..Len(backlog)
        BY <1>1, <2>1, <4>1 DEF QueueInv, MonTypes
      <4>2. CASE i = Len(backlog) + 1
        BY <1>1, <2>1, <2>3, <4>2 DEF MonTypes
      <4> QED
        BY <2>1, <4>1, <4>2
    <3> QED
      BY <3>1, <3>2 DEF QueueInv
  <2>5. HeardInv'
    BY <2>3 DEF MonTypes, HeardInv, Heard, Read
  <2>6. ReplyInv'
    BY <1>1 DEF MonTypes, MainTypes, ReplyInv, Read
  <2> QED
    BY <2>2, <2>4, <2>5, <2>6, MonitorFrame
<1>3. CASE MonitorAt(m, "idle", "failed") /\ UNCHANGED <<link, wire, want, got, backlog>>
  <2> USE <1>3
  <2>1. MonTypes'
    BY DEF MonTypes
  <2>2. QueueInv'
    BY <1>1 DEF MonTypes, QueueInv
  <2>3. HeardInv'
    BY DEF MonTypes, HeardInv, Heard, Read
  <2>4. ReplyInv'
    BY <1>1 DEF MonTypes, MainTypes, ReplyInv, Read
  <2> QED
    BY <2>1, <2>2, <2>3, <2>4, MonitorFrame
<1> QED
  BY <1>2, <1>3 DEF Connect

(* A monitor moves one number from what is on its way to what it has read. *)
LEMMA ReadOne ==
  ASSUME CaskInv, NEW m \in Monitors, wire[m] # <<>>
  PROVE  /\ Head(wire[m]) = AnswerItem(Read(m) + 1) /\ Head(wire[m]) \in 0..NumWorkers
         /\ Len(wire[m]) \in Nat \ {0} /\ Tail(wire[m]) \in Seq(0..NumWorkers)
         /\ Len(Tail(wire[m])) = Len(wire[m]) - 1
         /\ \A i \in 1..Len(Tail(wire[m])) : Tail(wire[m])[i] = AnswerItem(Read(m) + 1 + i)
<1>1. PICK s : s = wire[m] /\ s \in Seq(0..NumWorkers) /\ s # <<>>
  BY DEF CaskInv, TypeOK, MonTypes
<1>2. PICK r \in Nat : r = Read(m)
  BY DEF CaskInv, TypeOK, MonTypes, Read
<1>3. \A i \in 1..Len(s) : s[i] = AnswerItem(r + i)
  BY <1>1, <1>2 DEF CaskInv, HeardInv, Heard
<1>4. Len(s) \in Nat \ {0} /\ Head(s) = s[1]
  BY <1>1, EmptySeq
<1>5. Head(s) = AnswerItem(r + 1)
  BY <1>3, <1>4
<1>6. \A i \in 1..Len(Tail(s)) : Tail(s)[i] = AnswerItem(r + 1 + i)
  <2> SUFFICES ASSUME NEW i \in 1..Len(Tail(s)) PROVE Tail(s)[i] = AnswerItem(r + 1 + i)
    OBVIOUS
  <2>1. Tail(s)[i] = s[i + 1] /\ i + 1 \in 1..Len(s)
    BY <1>1, <1>4, HeadTailProperties
  <2>2. r + (i + 1) = r + 1 + i
    BY <1>2
  <2> QED
    BY <1>3, <2>1, <2>2
<1> QED
  BY <1>1, <1>2, <1>4, <1>5, <1>6, HeadTailProperties

(* What each of the three reads makes of the next number of the answer. *)
LEMMA ReadAnswerFacts ==
  ASSUME CaskInv, NEW m \in Monitors, ReadAnswer(m)
  PROVE  /\ wire[m] # <<>> /\ wire' = [wire EXCEPT ![m] = Tail(@)]
         /\ MonTypes' /\ UNCHANGED <<link, backlog, poolVars, mainVars, fileVars, cur, left, leaks>>
         /\ mon[m] \in Asking /\ mon'[m] \in {"command", "entries", "done"}
         /\ \A n \in Monitors \ {m} : /\ mon'[n] = mon[n] /\ wire'[n] = wire[n]
                                      /\ want'[n] = want[n] /\ got'[n] = got[n]
         /\ Read(m)' = Read(m) + 1
         /\ mon'[m] = "command" => got'[m] = <<>>
         /\ \A i \in 1..Len(got'[m]) : got'[m][i] = i
         /\ mon'[m] = "entries" => want'[m] >= 1 /\ want'[m] + Len(got'[m]) = NumWorkers
         /\ mon'[m] = "done" => Len(got'[m]) = NumWorkers
<1> NumWorkers \in Nat \ {0}
  BY CaskAssumption
<1>1. Heard(m)
  BY DEF CaskInv, HeardInv
<1>2. wire[m] # <<>> /\ wire' = [wire EXCEPT ![m] = Tail(@)] /\ UNCHANGED <<link, backlog>>
      /\ UNCHANGED <<poolVars, mainVars, fileVars, cur, left, leaks>>
  BY DEF ReadAnswer, MonitorAt
<1>3. PICK h \in 0..NumWorkers : h = Head(wire[m]) /\ h = AnswerItem(Read(m) + 1)
  BY <1>2, ReadOne
<1>4. wire' \in [Monitors -> Seq(0..NumWorkers)] /\ \A n \in Monitors \ {m} : wire'[n] = wire[n]
  BY <1>2, ReadOne DEF CaskInv, TypeOK, MonTypes
<1>5. CASE mon[m] = "asked" /\ MonitorAt(m, "asked", IF h = 0 THEN "command" ELSE "failed")
           /\ UNCHANGED <<want, got>>
  <2>1. h = 0
    BY <1>3, <1>5 DEF Read, AnswerItem, IPC_CMD_STATUS
  <2>2. mon' = [mon EXCEPT ![m] = "command"] /\ got[m] = <<>>
    BY <1>1, <1>5, <2>1 DEF MonitorAt, Heard
  <2>3. MonTypes'
    BY <1>2, <1>4, <1>5, <2>2 DEF CaskInv, TypeOK, MonTypes, Asking
  <2>4. /\ mon'[m] = "command" /\ Read(m) = 0 /\ Read(m)' = 1
        /\ \A n \in Monitors \ {m} : mon'[n] = mon[n]
    BY <1>5, <2>2 DEF CaskInv, TypeOK, MonTypes, Read
  <2> QED
    BY <1>2, <1>4, <1>5, <2>2, <2>3, <2>4 DEF Asking
<1>6. CASE mon[m] = "command" /\ MonitorAt(m, "command", IF h = 0 THEN "done" ELSE "entries")
           /\ want' = [want EXCEPT ![m] = h] /\ UNCHANGED got
  <2>1. h = NumWorkers
    BY <1>3, <1>6 DEF Read, AnswerItem
  <2>2. mon' = [mon EXCEPT ![m] = "entries"] /\ got[m] = <<>>
    BY <1>1, <1>6, <2>1 DEF MonitorAt, Heard
  <2>3. MonTypes'
    BY <1>2, <1>4, <1>6, <2>2 DEF CaskInv, TypeOK, MonTypes, Asking
  <2>4. /\ mon'[m] = "entries" /\ Read(m) = 1 /\ Read(m)' = 2 /\ want'[m] = NumWorkers
        /\ \A n \in Monitors \ {m} : mon'[n] = mon[n] /\ want'[n] = want[n]
    BY <1>6, <2>1, <2>2 DEF CaskInv, TypeOK, MonTypes, Read
  <2> QED
    BY <1>2, <1>4, <1>6, <2>2, <2>3, <2>4 DEF Asking
<1>7. CASE mon[m] = "entries" /\ MonitorAt(m, "entries", IF want[m] = 1 THEN "done" ELSE "entries")
           /\ want' = [want EXCEPT ![m] = @ - 1] /\ got' = [got EXCEPT ![m] = Append(@, h)]
  <2>1. PICK g \in Seq(Workers) : g = got[m]
    BY DEF CaskInv, TypeOK, MonTypes
  <2>2. /\ Len(g) \in Nat /\ (\A i \in 1..Len(g) : g[i] = i)
        /\ want[m] \in Nat /\ want[m] >= 1 /\ want[m] + Len(g) = NumWorkers
    BY <1>1, <1>7, <2>1 DEF CaskInv, TypeOK, MonTypes, Heard
  <2>3. h = Len(g) + 1 /\ h \in Workers
    <3>1. Read(m) = 2 + Len(g)
      BY <1>7, <2>1 DEF Read
    <3>2. AnswerItem(2 + Len(g) + 1) = Len(g) + 1
      BY <2>2 DEF AnswerItem
    <3> QED
      BY <1>3, <2>2, <3>1, <3>2
  <2>4. /\ Append(g, h) \in Seq(Workers) /\ Len(Append(g, h)) = Len(g) + 1
        /\ \A i \in 1..Len(Append(g, h)) : Append(g, h)[i] = i
    BY <2>2, <2>3, AppendProperties
  <2>5. mon' = [mon EXCEPT ![m] = IF want[m] = 1 THEN "done" ELSE "entries"]
    BY <1>7 DEF MonitorAt
  <2>6. MonTypes'
    BY <1>2, <1>4, <1>7, <2>1, <2>2, <2>4, <2>5, SMTT(30) DEF CaskInv, TypeOK, MonTypes, Asking
  <2>7. /\ got'[m] = Append(g, h) /\ want'[m] = want[m] - 1
        /\ mon'[m] = IF want[m] = 1 THEN "done" ELSE "entries"
        /\ \A n \in Monitors \ {m} : /\ mon'[n] = mon[n] /\ want'[n] = want[n] /\ got'[n] = got[n]
    BY <1>7, <2>1, <2>5 DEF CaskInv, TypeOK, MonTypes
  <2>8. Read(m) = 2 + Len(g) /\ Read(m)' = 2 + Len(Append(g, h))
    BY <1>7, <2>1, <2>7 DEF Read
  <2>9. Read(m)' = Read(m) + 1
    BY <2>2, <2>4, <2>8
  <2>10. /\ \A i \in 1..Len(got'[m]) : got'[m][i] = i
         /\ mon'[m] = "entries" => want'[m] >= 1 /\ want'[m] + Len(got'[m]) = NumWorkers
         /\ mon'[m] = "done" => Len(got'[m]) = NumWorkers
    BY <2>2, <2>4, <2>7
  <2> QED
    BY <1>2, <1>4, <1>7, <2>6, <2>7, <2>9, <2>10 DEF Asking
<1> QED
  BY <1>3, <1>5, <1>6, <1>7 DEF ReadAnswer, MonitorAt, IPC_CMD_STATUS

(* A monitor reads the next number of its answer. *)
LEMMA KeepReadAnswer == ASSUME CaskInv, NEW m \in Monitors, ReadAnswer(m) PROVE CaskInv'
<1>1. /\ wire[m] # <<>> /\ wire' = [wire EXCEPT ![m] = Tail(@)]
      /\ MonTypes' /\ UNCHANGED <<link, backlog, poolVars, mainVars, fileVars, cur, left, leaks>>
      /\ mon[m] \in Asking /\ mon'[m] \in {"command", "entries", "done"}
      /\ \A n \in Monitors \ {m} : /\ mon'[n] = mon[n] /\ wire'[n] = wire[n]
                                   /\ want'[n] = want[n] /\ got'[n] = got[n]
  BY ReadAnswerFacts
<1>2. Read(m)' = Read(m) + 1
  BY ReadAnswerFacts
<1>3. \A i \in 1..Len(backlog) : backlog[i] \in Monitors \ {m}
  <2> SUFFICES ASSUME NEW i \in 1..Len(backlog) PROVE backlog[i] \in Monitors \ {m}
    OBVIOUS
  <2>1. backlog[i] \in Monitors
    BY DEF CaskInv, TypeOK, MonTypes
  <2>2. wire[backlog[i]] = <<>>
    BY DEF CaskInv, QueueInv
  <2> QED
    BY <1>1, <2>1, <2>2
<1>4. QueueInv'
  BY <1>1, <1>3 DEF CaskInv, QueueInv
<1>5. wire'[m] = Tail(wire[m])
  BY <1>1 DEF CaskInv, TypeOK, MonTypes
<1>6. ASSUME NEW n \in Monitors PROVE Heard(n)'
  <2>1. CASE n # m
    <3>1. Heard(n)
      BY DEF CaskInv, HeardInv
    <3> QED
      BY <1>1, <2>1, <3>1 DEF Heard, Read
  <2>2. CASE n = m
    <3>1. \A i \in 1..Len(wire'[m]) : wire'[m][i] = AnswerItem(Read(m) + 1 + i)
      <4>1. PICK t : t = Tail(wire[m])
        OBVIOUS
      <4>2. \A i \in 1..Len(t) : t[i] = AnswerItem(Read(m) + 1 + i)
        BY <1>1, <4>1, ReadOne
      <4> QED
        BY <1>5, <4>1, <4>2
    <3>2. \A i \in 1..Len(wire'[m]) : wire'[m][i] = AnswerItem(Read(m)' + i)
      BY <1>2, <3>1
    <3>3. /\ mon'[m] = "command" => got'[m] = <<>>
          /\ \A i \in 1..Len(got'[m]) : got'[m][i] = i
          /\ mon'[m] = "entries" => want'[m] >= 1 /\ want'[m] + Len(got'[m]) = NumWorkers
          /\ mon'[m] = "done" => Len(got'[m]) = NumWorkers
      BY ReadAnswerFacts
    <3> QED
      BY <1>1, <2>2, <3>2, <3>3 DEF Heard
  <2> QED
    BY <2>1, <2>2
<1>7. HeardInv'
  BY <1>6 DEF HeardInv
<1>8. ReplyInv'
  <2>1. cur \in Monitors \cup {HEAD}
    BY DEF CaskInv, TypeOK, MainTypes
  <2>2. CASE cur = HEAD
    BY <1>1, <2>2 DEF CaskInv, ReplyInv
  <2>3. CASE cur \in Monitors \ {m}
    BY <1>1, <2>3 DEF CaskInv, ReplyInv, Read
  <2>4. CASE cur = m
    <3>1. main = "reply" /\ main' = "reply" /\ mon[m] # "failed" /\ cur # HEAD
      BY <1>1, <2>4, CaskAssumption DEF CaskInv, ReplyInv, Asking
    <3>2. PICK r \in Nat, k \in Nat : r = Read(m) /\ k = Len(wire[m])
      <4>1. Len(wire[m]) \in Nat
        BY <1>1, ReadOne
      <4>2. Read(m) \in Nat
        BY DEF CaskInv, TypeOK, MonTypes, Read
      <4> QED
        BY <4>1, <4>2
    <3>3. PICK s, l : s = Read(m)' /\ l = Len(wire'[m])
      OBVIOUS
    <3>4. s = r + 1 /\ l = k - 1
      BY <1>1, <1>2, <1>5, <3>2, <3>3, ReadOne
    <3>5. s + l = r + k
      BY <3>4
    <3>6. r + k = 2 + NumWorkers - left
      BY <2>4, <3>1, <3>2 DEF CaskInv, ReplyInv
    <3>7. Read(cur)' + Len(wire'[cur']) = 2 + NumWorkers - left'
      BY <1>1, <2>4, <3>3, <3>5, <3>6 DEF Read
    <3> QED
      BY <1>1, <2>4, <3>1, <3>7 DEF CaskInv, ReplyInv
  <2> QED
    BY <2>1, <2>2, <2>3, <2>4
<1> QED
  BY <1>1, <1>4, <1>7, <1>8, MonitorFrame

(* Every step of main, of a worker, of a monitor and of a signal keeps the invariant. *)
LEMMA CaskStep == CaskInv /\ [Next]_vars => CaskInv'
<1> SUFFICES ASSUME CaskInv, [Next]_vars PROVE CaskInv'
  OBVIOUS
<1>1. CASE UNCHANGED vars
  <2>1. PoolTypes' /\ PoolInv' /\ LeaveInv'
    BY <1>1 DEF vars, CaskInv, TypeOK, PoolTypes, PoolInv, LeaveInv
  <2>2. WalkInv'
    BY <1>1, AfterKept DEF vars, CaskInv, WalkInv
  <2> QED
    BY <1>1, <2>1, <2>2, WorkerFrame DEF vars
<1>2. CASE Start \/ PselectFails \/ Sigint \/ Kill
  BY <1>2, KeepStart, KeepPselectFails, KeepSigint, KeepDie DEF Kill
<1>3. CASE Main
  BY <1>3, KeepOpenDb, KeepSetupIpc, KeepStartWorker, KeepEnterLoop, KeepAccept, KeepLeaveLoop,
     KeepReadRequest, KeepWriteStatus, KeepWriteEntry, KeepCloseReply, KeepDie, KeepRelease,
     KeepBeginStop, KeepShutdownWorker, KeepReadThread, KeepJoin, KeepExit
     DEF Main, SigPipe
<1>4. ASSUME NEW w \in Workers, Worker(w) PROVE CaskInv'
  BY <1>4, KeepWorkerProc, KeepServe, KeepServed, KeepDie, KeepDestroyWorker DEF Worker, Crash
<1>5. ASSUME NEW m \in Monitors, Connect(m) \/ Caskmon(m) \/ Leave(m) PROVE CaskInv'
  BY <1>5, KeepConnect, KeepAsk, KeepReadAnswer, KeepReadFails, KeepLeave DEF Caskmon
<1> QED
  BY <1>1, <1>2, <1>3, <1>4, <1>5 DEF Next

(* The server stays consistent with its pool, its socket and its monitors through any      *)
(* number of starts, deaths, workers and monitors, and any of the faults.                  *)
THEOREM CaskInvariance == Spec => []CaskInv
BY CaskInit, CaskStep, PTL DEF Spec

(* Every variable keeps its type; in particular num_workers, which every worker that       *)
(* leaves counts down, never goes below zero, and neither handle_ipc nor the shutdown ever *)
(* got its pointer into the worker list out of a node that was freed.                      *)
THEOREM CaskTypes == Spec => []TypeOK
<1>1. CaskInv => TypeOK
  BY DEF CaskInv
<1> QED
  BY <1>1, CaskInvariance, PTL

(* Every monitor that reads its answer to the end has been told of every worker of the     *)
(* pool, once and in order, and of nothing else.                                           *)
THEOREM StatusAlwaysTruthful == Spec => []StatusTruthful
<1>1. CaskInv => StatusTruthful
  <2> SUFFICES ASSUME CaskInv, NEW m \in Monitors, mon[m] = "done"
               PROVE  got[m] = [i \in Workers |-> i]
    BY DEF StatusTruthful
  <2> NumWorkers \in Nat
    BY CaskAssumption
  <2>1. PICK g \in Seq(Workers) : g = got[m]
    BY DEF CaskInv, TypeOK, MonTypes
  <2>2. Len(g) = NumWorkers /\ \A i \in 1..Len(g) : g[i] = i
    BY <2>1 DEF CaskInv, HeardInv, Heard
  <2>3. g \in [1..NumWorkers -> Workers]
    BY <2>1, <2>2, LenProperties
  <2> QED
    BY <2>1, <2>2, <2>3
<1> QED
  BY <1>1, CaskInvariance, PTL

(* The shutdown walks the worker list without the lock, and the node whose running flag it *)
(* looks at, and the one it keeps for the next round while it waits for a worker, are not  *)
(* freed ones.  The read of worker->thread is not part of this, see ThreadReadLive.        *)
THEOREM WalkAlwaysSafe == Spec => []WalkSafe
<1>1. CaskInv => WalkSafe
  <2> SUFFICES ASSUME CaskInv
               PROVE  /\ main = "stop" => Live(iter) /\ Live(next)
                      /\ main \in {"thread", "join"} => Live(next)
    BY DEF WalkSafe
  <2>1. CASE main = "stop"
    <3>1. /\ iter \in Workers \cup {HEAD} /\ (iter # HEAD => wpc[iter] \notin Gone)
          /\ next = After(iter)
      BY <2>1 DEF CaskInv, TypeOK, MainTypes, WalkInv
    <3>2. next \in Workers \cup {HEAD} /\ (next # HEAD => wpc[next] \notin Gone)
      BY <3>1, AfterFacts DEF CaskInv
    <3> QED
      BY <2>1, <3>1, <3>2 DEF Live
  <2>2. CASE main \in {"thread", "join"}
    BY <2>2 DEF CaskInv, TypeOK, MainTypes, WalkInv, Live
  <2> QED
    BY <2>1, <2>2
<1> QED
  BY <1>1, CaskInvariance, PTL

(* A server that ends by itself leaves no socket behind. *)
THEOREM SocketAlwaysRemoved == Spec => []SocketRemoved
<1>1. CaskInv => SocketRemoved
  BY DEF CaskInv, HaveInv, SocketRemoved
<1> QED
  BY <1>1, CaskInvariance, PTL
=============================================================================
