------------------------------ MODULE FtpProofs ------------------------------
(***************************************************************************)
(* The two ends of the FTP that stand alone: FtpStartup, the processes of  *)
(* the server until their descriptors are in place, with the wrappers they *)
(* call, and FtpTransfer, one file from its slave to its client.           *)
(***************************************************************************)
EXTENDS FtpStartup, Wrapped, FtpTransfer, FiniteSetTheorems, FunctionTheorems, SequenceTheorems,
        WellFoundedInduction, TLAPS

-----------------------------------------------------------------------------
(* Whatever descriptors the kernel gives and whatever fails, the dispatcher*)
(* has its slaves, all of them different, and its select watches each of   *)
(* them and the tube: DispatcherSeesAll, for any number of slaves taken,   *)
(* started and of clients.                                                 *)
(*                                                                         *)
(* The inductive invariant says where a slave may be between its connection*)
(* and fd_slave, and that the table of descriptors has room.               *)


Stages == {"start", "slaves", "closed", "clients", "accept", "error", "killed"}

\* The slave behind fd_slave[k - 1].
SlaveOf(k) == fds[fdSlave[k]]

Used == {d \in Descriptors : fds[d] # Unused}

StartupTypes ==
    /\ mst \in Stages
    /\ fds = [d \in Descriptors |-> fds[d]]
    /\ fdSlave \in Seq(Descriptors) /\ Len(fdSlave) <= NbEsclave
    /\ queue \in Seq(Started \cup Callers)
    /\ slv = [s \in Started |-> slv[s]]

\* A slave of the table is one that has connected, and is there once.
SlavesTaken ==
    /\ \A k \in 1 .. Len(fdSlave) : SlaveOf(k) \in Started /\ slv[SlaveOf(k)] # "start"
    /\ \A j, k \in 1 .. Len(fdSlave) : SlaveOf(j) = SlaveOf(k) => j = k

\* While slaves are accepted only they are in the queue, once, and not accepted yet.
QueueSound ==
    /\ mst \in {"start", "closed"} => queue = <<>>
    /\ mst = "slaves" =>
          /\ \A k \in 1 .. Len(queue) :
                /\ queue[k] \in Started /\ slv[queue[k]] # "start"
                /\ \A j \in 1 .. Len(fdSlave) : SlaveOf(j) # queue[k]
          /\ \A j, k \in 1 .. Len(queue) : queue[j] = queue[k] => j = k

\* How many descriptors are open, as long as the master opens some.
Open ==
    CASE mst = "start" -> 0
      [] mst = "slaves" -> Len(fdSlave) + 1
      [] mst = "closed" -> NbEsclave + 1
      [] OTHER -> NbEsclave + 2

RoomLeft ==
    /\ mst \in {"start", "slaves", "closed", "clients"} =>
          dsp = "none" /\ tubeFds = <<0, 0>> /\ Cardinality(Used) <= Open
    /\ mst = "start" => fdSlave = <<>>

Ready ==
    /\ mst \in {"closed", "clients", "accept"} \/ dsp = "runs" => Len(fdSlave) = NbEsclave
    /\ dsp = "runs" /\ TubeMade => tubeFds[1] \in Descriptors /\ fds[tubeFds[1]] = "tube"

StartupInv == StartupTypes /\ SlavesTaken /\ QueueSound /\ RoomLeft /\ Ready

-----------------------------------------------------------------------------
(* The first free descriptor, and the last one watched.                    *)

LEMMA LeastNat ==
    ASSUME NEW S, S \subseteq Nat, S # {}
    PROVE  \E x \in S : \A y \in S : x <= y
<1>1. \E x \in S : \A y \in S : <<y, x>> \notin OpToRel(<, Nat)
  BY NatLessThanWellFounded, WFMin
<1>2. ASSUME NEW x \in S, NEW y \in S, <<y, x>> \notin OpToRel(<, Nat) PROVE x <= y
  <2>1. x \in Nat /\ y \in Nat
    OBVIOUS
  <2>2. ~ (y < x)
    BY <1>2, <2>1 DEF OpToRel
  <2> QED BY <2>1, <2>2
<1> QED BY <1>1, <1>2

LEMMA DescriptorsFacts ==
    /\ Descriptors \subseteq Nat /\ IsFiniteSet(Descriptors)
    /\ Cardinality(Descriptors) = NbEsclave + 5 /\ 0 \notin Descriptors
<1>1. NbEsclave \in Nat
  BY StartupAssumption
<1>2. 3 \in Int /\ 7 + NbEsclave \in Int
  BY <1>1
<1> QED BY <1>1, <1>2, FS_Interval DEF Descriptors

\* The kernel has a descriptor to give, and the one it gives is free.
LEMMA LowestIsFree ==
    ASSUME NEW table, Cardinality({d \in Descriptors : table[d] # Unused}) < NbEsclave + 5
    PROVE  Lowest(table) \in Descriptors /\ table[Lowest(table)] = Unused
<1> DEFINE Free == {d \in Descriptors : table[d] = Unused}
<1>1. Free # {}
  <2> SUFFICES ASSUME Free = {} PROVE FALSE
    OBVIOUS
  <2>1. {d \in Descriptors : table[d] # Unused} = Descriptors
    OBVIOUS
  <2> QED BY <2>1, DescriptorsFacts, StartupAssumption
<1>2. Free \subseteq Nat
  BY DescriptorsFacts
<1>3. PICK x \in Free : \A y \in Free : x <= y
  <2> HIDE DEF Free
  <2> QED BY <1>1, <1>2, LeastNat
<1>4. ASSUME NEW e \in Descriptors, e < x PROVE table[e] # Unused
  <2>1. e \in Nat /\ x \in Nat /\ ~ (x <= e)
    BY <1>2, <1>4, DescriptorsFacts
  <2> QED BY <1>3, <2>1
<1>5. \E d \in Descriptors :
          /\ table[d] = Unused
          /\ \A e \in Descriptors : e < d => table[e] # Unused
  BY <1>4
<1> QED BY <1>5 DEF Lowest

LEMMA MaxOfDescriptors ==
    ASSUME NEW S, S \subseteq Descriptors \cup {0}, S # {}
    PROVE  Max(S) \in S /\ \A y \in S : Max(S) >= y
<1>1. PICK top \in Nat : \A d \in Descriptors \cup {0} : d \in Nat /\ d <= top
  <2>1. 7 + NbEsclave \in Nat /\ \A d \in Descriptors \cup {0} : d \in Nat /\ d <= 7 + NbEsclave
    BY StartupAssumption DEF Descriptors
  <2> QED BY <2>1
<1> DEFINE Below == {top - x : x \in S}
<1>2. Below \subseteq Nat /\ Below # {}
  <2>1. \A x \in S : x \in Nat /\ x <= top
    BY <1>1
  <2>2. \A x \in S : top - x \in Nat
    BY <2>1
  <2> QED BY <2>2
<1>3. PICK z \in Below : \A y \in Below : z <= y
  <2> HIDE DEF Below
  <2> QED BY <1>2, LeastNat
<1>4. PICK x \in S : z = top - x
  OBVIOUS
<1>5. \A y \in S : x >= y
  <2> TAKE y \in S
  <2>1. top - x <= top - y
    BY <1>3, <1>4
  <2>2. x \in Nat /\ y \in Nat
    BY <1>1
  <2> QED BY <2>1, <2>2
<1> QED BY <1>5 DEF Max

LEMMA UsedFacts ==
    ASSUME NEW table
    PROVE  LET U == {d \in Descriptors : table[d] # Unused} IN
           IsFiniteSet(U) /\ Cardinality(U) \in Nat
  BY DescriptorsFacts, FS_Subset, FS_CardinalityType

\* One more entry of the table is in use.
LEMMA OneMoreUsed ==
    ASSUME NEW d \in Descriptors, NEW what, NEW table, table = [e \in Descriptors |-> table[e]],
           NEW other, other = [table EXCEPT ![d] = what]
    PROVE  /\ other = [e \in Descriptors |-> other[e]]
           /\ other[d] = what /\ \A e \in Descriptors \ {d} : other[e] = table[e]
           /\ Cardinality({e \in Descriptors : other[e] # Unused})
                <= Cardinality({e \in Descriptors : table[e] # Unused}) + 1
<1> DEFINE U == {e \in Descriptors : table[e] # Unused}
           V == {e \in Descriptors : other[e] # Unused}
<1>1. /\ other = [e \in Descriptors |-> other[e]]
      /\ other[d] = what /\ \A e \in Descriptors \ {d} : other[e] = table[e]
  OBVIOUS
<1>2. V \subseteq U \cup {d}
  BY <1>1
<1>3. IsFiniteSet(U) /\ Cardinality(U) \in Nat /\ Cardinality(V) \in Nat
  BY UsedFacts
<1> HIDE DEF U, V
<1>4. /\ IsFiniteSet(U \cup {d})
      /\ Cardinality(U \cup {d}) = IF d \in U THEN Cardinality(U) ELSE Cardinality(U) + 1
  BY <1>3, FS_AddElement
<1>5. Cardinality(V) <= Cardinality(U \cup {d})
  BY <1>2, <1>4, FS_Subset
<1>6. Cardinality(V) <= Cardinality(U) + 1
  BY <1>3, <1>4, <1>5
<1> QED BY <1>1, <1>6 DEF U, V

-----------------------------------------------------------------------------
(* The invariant, initially and at every step.                             *)

LEMMA StartupInvInit == StartupInit => StartupInv
<1> SUFFICES ASSUME StartupInit PROVE StartupInv
  OBVIOUS
<1>1. Used = {} /\ Cardinality(Used) = 0
  <2>1. Used = {}
    BY DEF StartupInit, Used
  <2> QED BY <2>1, FS_EmptySet
<1>2. StartupTypes
  BY StartupAssumption DEF StartupInit, StartupTypes, Stages
<1>3. SlavesTaken /\ QueueSound
  BY DEF StartupInit, SlavesTaken, QueueSound
<1>4. RoomLeft /\ Ready
  BY <1>1 DEF StartupInit, RoomLeft, Open, Ready
<1> QED BY <1>2, <1>3, <1>4 DEF StartupInv

\* Nothing changes but what the invariant does not look at.
LEMMA StartupFrame ==
    ASSUME StartupInv, UNCHANGED <<masterFds, slv>>,
           mst' \in {mst, "error", "killed"}, dsp' = dsp \/ (dsp = "runs" /\ dsp' = "dead"),
           queue' \in Seq(Started \cup Callers),
           mst' \in {"start", "slaves", "closed"} => queue' = queue
    PROVE  StartupInv'
<1>1. StartupTypes' /\ SlavesTaken'
  BY DEF StartupInv, StartupTypes, SlavesTaken, SlaveOf, masterFds, Stages
<1>2. QueueSound'
  BY DEF StartupInv, QueueSound, SlaveOf, masterFds
<1>3. RoomLeft' /\ Ready'
  BY DEF StartupInv, RoomLeft, Used, Open, Ready, TubeMade, masterFds
<1> QED BY <1>1, <1>2, <1>3 DEF StartupInv

LEMMA OpenPortKeeps ==
    ASSUME StartupInv, OpenSlavePort \/ OpenClientPort
    PROVE  StartupInv'
<1>1. /\ UNCHANGED <<dsp, fdSlave, tubeFds, queue, slv>>
      /\ \/ mst = "start" /\ mst' \in {"slaves", "error"}
         \/ mst = "closed" /\ mst' \in {"clients", "error"}
      /\ fds' = fds \/ fds' = [fds EXCEPT ![Lowest(fds)] = "listenfd"]
  BY DEF OpenSlavePort, OpenClientPort, OpenPort
<1>2. /\ Cardinality(Used) <= Open /\ dsp = "none" /\ queue = <<>>
      /\ Cardinality(Used) \in Nat /\ Open \in Nat /\ Open <= NbEsclave + 1
      /\ mst = "start" => fdSlave = <<>>
  <2>1. Cardinality(Used) <= Open /\ dsp = "none" /\ queue = <<>> /\ (mst = "start" => fdSlave = <<>>)
    BY <1>1 DEF StartupInv, RoomLeft, QueueSound
  <2>2. Open \in Nat /\ Open <= NbEsclave + 1
    BY <1>1, StartupAssumption DEF Open
  <2>3. Cardinality(Used) \in Nat
    BY UsedFacts DEF Used
  <2> QED BY <2>1, <2>2, <2>3
<1>3. Lowest(fds) \in Descriptors /\ fds[Lowest(fds)] = Unused
  BY <1>2, LowestIsFree, StartupAssumption DEF Used
<1>4. /\ fds' = [d \in Descriptors |-> fds'[d]]
      /\ \A e \in Descriptors : fds[e] # Unused => fds'[e] = fds[e]
      /\ Cardinality(Used') <= Cardinality(Used) + 1
  <2>1. CASE fds' = fds
    <3>1. Used' = Used
      BY <2>1 DEF Used
    <3> QED BY <1>2, <2>1, <3>1 DEF StartupInv, StartupTypes
  <2>2. CASE fds' = [fds EXCEPT ![Lowest(fds)] = "listenfd"]
    <3>1. PICK d \in Descriptors : d = Lowest(fds)
      BY <1>3
    <3>2. fds = [e \in Descriptors |-> fds[e]] /\ fds' = [fds EXCEPT ![d] = "listenfd"]
      BY <2>2, <3>1 DEF StartupInv, StartupTypes
    <3>3. /\ fds' = [e \in Descriptors |-> fds'[e]]
          /\ \A e \in Descriptors \ {d} : fds'[e] = fds[e]
          /\ Cardinality({e \in Descriptors : fds'[e] # Unused})
               <= Cardinality({e \in Descriptors : fds[e] # Unused}) + 1
      BY <3>2, OneMoreUsed
    <3> QED BY <1>3, <3>1, <3>3 DEF Used
  <2> QED BY <1>1, <2>1, <2>2
<1>5. StartupTypes'
  BY <1>1, <1>4 DEF StartupInv, StartupTypes, Stages
<1>6. \A k \in 1 .. Len(fdSlave) : SlaveOf(k)' = SlaveOf(k)
  <2> TAKE k \in 1 .. Len(fdSlave)
  <2>1. fdSlave[k] \in Descriptors /\ fds[fdSlave[k]] # Unused
    BY StartupAssumption DEF StartupInv, StartupTypes, SlavesTaken, SlaveOf
  <2> QED BY <1>1, <1>4, <2>1 DEF SlaveOf
<1>7. SlavesTaken'
  BY <1>1, <1>6 DEF StartupInv, SlavesTaken
<1>8. QueueSound'
  BY <1>1, <1>2 DEF QueueSound
<1>9. RoomLeft' /\ Ready'
  <2>1. Len(fdSlave) \in Nat /\ (mst = "start" => Len(fdSlave) = 0) /\ NbEsclave \in Nat
    BY <1>2, StartupAssumption DEF StartupInv, StartupTypes
  <2>2. Cardinality(Used') \in Nat
    BY UsedFacts DEF Used
  <2> QED BY <1>1, <1>2, <1>4, <2>1, <2>2 DEF StartupInv, RoomLeft, Ready, Open
<1> QED BY <1>5, <1>7, <1>8, <1>9 DEF StartupInv
\* The slave at the head of the queue gets the lowest descriptor.
LEMMA AcceptSlaveKeeps ==
    ASSUME StartupInv, AcceptSlave
    PROVE  StartupInv'
<1>1. mst = "slaves" /\ Len(fdSlave) < NbEsclave /\ UNCHANGED <<dsp, tubeFds, slv>>
  BY DEF AcceptSlave
<1>2. CASE mst' = "error" /\ UNCHANGED <<masterFds, queue>>
  BY <1>1, <1>2, StartupFrame DEF StartupInv, StartupTypes
<1>3. CASE /\ queue # <<>> /\ queue' = Tail(queue) /\ UNCHANGED mst
           /\ fds' = [fds EXCEPT ![Lowest(fds)] = Head(queue)]
           /\ fdSlave' = Append(fdSlave, Lowest(fds))
  <2>1. /\ Cardinality(Used) <= Len(fdSlave) + 1 /\ dsp = "none"
        /\ Cardinality(Used) \in Nat /\ Len(fdSlave) \in Nat /\ NbEsclave \in Nat
    <3>1. Cardinality(Used) \in Nat
      BY UsedFacts DEF Used
    <3>2. Len(fdSlave) \in Nat /\ NbEsclave \in Nat
      BY StartupAssumption DEF StartupInv, StartupTypes
    <3> QED BY <1>1, <3>1, <3>2 DEF StartupInv, RoomLeft, Open
  <2>2. PICK d \in Descriptors : d = Lowest(fds) /\ fds[d] = Unused
    BY <1>1, <2>1, LowestIsFree DEF Used
  <2>3. PICK s : s = Head(queue)
    OBVIOUS
  <2>4. /\ fds' = [e \in Descriptors |-> fds'[e]] /\ fds'[d] = s
        /\ \A e \in Descriptors \ {d} : fds'[e] = fds[e]
        /\ Cardinality(Used') <= Cardinality(Used) + 1
    <3>1. fds = [e \in Descriptors |-> fds[e]] /\ fds' = [fds EXCEPT ![d] = s]
      BY <1>3, <2>2, <2>3 DEF StartupInv, StartupTypes
    <3>2. /\ fds' = [e \in Descriptors |-> fds'[e]] /\ fds'[d] = s
          /\ \A e \in Descriptors \ {d} : fds'[e] = fds[e]
          /\ Cardinality({e \in Descriptors : fds'[e] # Unused})
               <= Cardinality({e \in Descriptors : fds[e] # Unused}) + 1
      BY <3>1, OneMoreUsed
    <3> QED BY <3>2 DEF Used
  <2>5. PICK n \in Nat : n = Len(fdSlave)
    BY <2>1
  <2>6. /\ fdSlave' \in Seq(Descriptors) /\ Len(fdSlave') = n + 1 /\ fdSlave'[n + 1] = d
        /\ \A k \in 1 .. n : fdSlave'[k] = fdSlave[k]
    BY <1>3, <2>2, <2>5, AppendProperties DEF StartupInv, StartupTypes
  <2>7. /\ queue' \in Seq(Started \cup Callers) /\ Len(queue') = Len(queue) - 1 /\ s = queue[1]
        /\ Len(queue) \in Nat \ {0} /\ \A k \in 1 .. Len(queue') : queue'[k] = queue[k + 1]
    BY <1>3, <2>3, HeadTailProperties, EmptySeq DEF StartupInv, StartupTypes
  <2>8. 1 \in 1 .. Len(queue) /\ \A k \in 1 .. Len(queue') : k + 1 \in 1 .. Len(queue) /\ k + 1 # 1
    BY <2>7
  <2>9. /\ \A k \in 1 .. Len(queue) : queue[k] \in Started /\ slv[queue[k]] # "start"
        /\ \A k \in 1 .. Len(queue) : \A j \in 1 .. n : SlaveOf(j) # queue[k]
        /\ \A j, k \in 1 .. Len(queue) : queue[j] = queue[k] => j = k
    BY <1>1, <2>5 DEF StartupInv, QueueSound
  <2>10. \A k \in 1 .. n : fdSlave[k] \in Descriptors \ {d} /\ SlaveOf(k)' = SlaveOf(k)
    <3>1. \A k \in 1 .. n : fdSlave[k] \in Descriptors /\ fds[fdSlave[k]] # Unused
      BY <2>5, StartupAssumption DEF StartupInv, StartupTypes, SlavesTaken, SlaveOf
    <3> QED BY <2>2, <2>4, <2>6, <3>1 DEF SlaveOf
  <2>11. SlaveOf(n + 1)' = s
    BY <2>4, <2>6 DEF SlaveOf
  <2>12. StartupTypes'
    BY <1>1, <1>3, <2>1, <2>4, <2>5, <2>6, <2>7 DEF StartupInv, StartupTypes
  <2>13. SlavesTaken'
    <3>1. \A k \in 1 .. n + 1 : k \in 1 .. n \/ k = n + 1
      OBVIOUS
    <3>2. s \in Started /\ slv[s] # "start" /\ \A j \in 1 .. n : SlaveOf(j) # s
      BY <2>7, <2>8, <2>9
    <3>3. \A k \in 1 .. n + 1 : SlaveOf(k)' \in Started /\ slv[SlaveOf(k)'] # "start"
      BY <2>5, <2>10, <2>11, <3>1, <3>2 DEF StartupInv, SlavesTaken
    <3>4. \A j, k \in 1 .. n + 1 : SlaveOf(j)' = SlaveOf(k)' => j = k
      <4>1. \A j, k \in 1 .. n : SlaveOf(j) = SlaveOf(k) => j = k
        BY <2>5 DEF StartupInv, SlavesTaken
      <4> QED BY <2>10, <2>11, <3>1, <3>2, <4>1
    <3> QED BY <1>1, <2>6, <3>3, <3>4 DEF SlavesTaken
  <2>14. QueueSound'
    <3>1. \A k \in 1 .. Len(queue') : queue'[k] \in Started /\ slv[queue'[k]] # "start"
      <4> SUFFICES ASSUME NEW k \in 1 .. Len(queue')
                   PROVE  queue'[k] \in Started /\ slv[queue'[k]] # "start"
        OBVIOUS
      <4>1. queue'[k] = queue[k + 1] /\ k + 1 \in 1 .. Len(queue)
        BY <2>7, <2>8
      <4> QED BY <2>9, <4>1
    <3>2. ASSUME NEW k \in 1 .. Len(queue'), NEW j \in 1 .. n + 1 PROVE SlaveOf(j)' # queue'[k]
      <4>1. queue'[k] = queue[k + 1] /\ k + 1 \in 1 .. Len(queue) /\ k + 1 # 1
        BY <2>7, <2>8
      <4>2. CASE j \in 1 .. n
        BY <2>9, <2>10, <4>1, <4>2
      <4>3. CASE j = n + 1
        BY <2>7, <2>8, <2>9, <2>11, <4>1, <4>3
      <4> QED BY <4>2, <4>3
    <3>3. ASSUME NEW j \in 1 .. Len(queue'), NEW k \in 1 .. Len(queue'), queue'[j] = queue'[k]
          PROVE  j = k
      <4>1. /\ j + 1 \in 1 .. Len(queue) /\ k + 1 \in 1 .. Len(queue)
            /\ queue[j + 1] = queue[k + 1]
        BY <2>7, <2>8, <3>3
      <4>2. j + 1 = k + 1
        BY <2>9, <4>1
      <4> QED BY <2>7, <4>2
    <3> QED BY <1>1, <1>3, <2>6, <3>1, <3>2, <3>3 DEF QueueSound
  <2>15. RoomLeft' /\ Ready'
    <3>1. Cardinality(Used') \in Nat
      BY UsedFacts DEF Used
    <3>2. tubeFds' = <<0, 0>>
      BY <1>1 DEF StartupInv, RoomLeft
    <3> QED BY <1>1, <1>3, <2>1, <2>4, <2>5, <2>6, <3>1, <3>2 DEF RoomLeft, Ready, Open
  <2> QED BY <2>12, <2>13, <2>14, <2>15 DEF StartupInv
<1> QED BY <1>2, <1>3 DEF AcceptSlave, masterFds

LEMMA CloseSlavePortKeeps ==
    ASSUME StartupInv, CloseSlavePort
    PROVE  StartupInv'
<1>1. /\ mst = "slaves" /\ mst' = "closed" /\ Len(fdSlave) = NbEsclave /\ queue' = <<>>
      /\ fds' = [d \in Descriptors |-> IF fds[d] = "listenfd" THEN Unused ELSE fds[d]]
      /\ slv' = [s \in Started |-> IF s \in Range(queue) THEN "cut" ELSE slv[s]]
      /\ UNCHANGED <<dsp, fdSlave, tubeFds>>
  BY DEF CloseSlavePort
<1>2. \A k \in 1 .. Len(fdSlave) : SlaveOf(k)' = SlaveOf(k) /\ SlaveOf(k) \in Started
  <2> TAKE k \in 1 .. Len(fdSlave)
  <2>1. fdSlave[k] \in Descriptors
    BY ElementOfSeq DEF StartupInv, StartupTypes
  <2>2. SlaveOf(k) \in Started /\ SlaveOf(k) # "listenfd"
    BY StartupAssumption DEF StartupInv, SlavesTaken
  <2> QED BY <1>1, <2>1, <2>2 DEF SlaveOf
<1>3. \A s \in Started : slv[s] # "start" => slv'[s] # "start"
  BY <1>1
<1>4. StartupTypes'
  BY <1>1 DEF StartupInv, StartupTypes, Stages
<1>5. SlavesTaken'
  BY <1>1, <1>2, <1>3 DEF StartupInv, SlavesTaken
<1>6. QueueSound'
  BY <1>1 DEF QueueSound
<1>7. Cardinality(Used') <= Cardinality(Used)
  <2>1. IsFiniteSet(Used) /\ Used' \subseteq Used
    BY <1>1, UsedFacts DEF Used
  <2> QED BY <2>1, FS_Subset
<1>8. RoomLeft' /\ Ready'
  <2>1. Cardinality(Used') \in Nat /\ Cardinality(Used) \in Nat /\ NbEsclave \in Nat
    BY UsedFacts, StartupAssumption DEF Used
  <2> QED BY <1>1, <1>7, <2>1 DEF StartupInv, RoomLeft, Ready, Open
<1> QED BY <1>4, <1>5, <1>6, <1>8 DEF StartupInv

LEMMA TubeKeeps ==
    ASSUME StartupInv, PipeAndFork, tubeFds' # tubeFds
    PROVE  StartupInv'
<1>1. PICK r, w :
          /\ r = Lowest(fds) /\ w = Lowest([fds EXCEPT ![r] = "tube"])
          /\ fds' = [fds EXCEPT ![r] = "tube", ![w] = "tube"]
          /\ tubeFds' = <<r, w>>
  BY DEF PipeAndFork
<1>2. /\ mst = "clients" /\ mst' = "accept" /\ dsp' \in {"runs", "failed"}
      /\ UNCHANGED <<fdSlave, queue, slv>>
  BY DEF PipeAndFork
<1>3. /\ Cardinality(Used) <= NbEsclave + 2 /\ Len(fdSlave) = NbEsclave
      /\ Cardinality(Used) \in Nat /\ NbEsclave \in Nat
  <2>1. Cardinality(Used) \in Nat /\ NbEsclave \in Nat
    BY UsedFacts, StartupAssumption DEF Used
  <2> QED BY <1>2, <2>1 DEF StartupInv, RoomLeft, Open, Ready
<1>4. r \in Descriptors /\ fds[r] = Unused
  BY <1>1, <1>3, LowestIsFree DEF Used
<1>5. PICK table : table = [fds EXCEPT ![r] = "tube"]
  OBVIOUS
<1>6. /\ table = [e \in Descriptors |-> table[e]] /\ table[r] = "tube"
      /\ \A e \in Descriptors \ {r} : table[e] = fds[e]
      /\ Cardinality({e \in Descriptors : table[e] # Unused}) <= Cardinality(Used) + 1
  <2>1. fds = [e \in Descriptors |-> fds[e]]
    BY DEF StartupInv, StartupTypes
  <2>2. /\ table = [e \in Descriptors |-> table[e]] /\ table[r] = "tube"
        /\ \A e \in Descriptors \ {r} : table[e] = fds[e]
        /\ Cardinality({e \in Descriptors : table[e] # Unused})
             <= Cardinality({e \in Descriptors : fds[e] # Unused}) + 1
    BY <1>4, <1>5, <2>1, OneMoreUsed
  <2> QED BY <2>2 DEF Used
<1>7. w \in Descriptors /\ table[w] = Unused
  <2>1. Cardinality({e \in Descriptors : table[e] # Unused}) \in Nat
    BY UsedFacts
  <2>2. Cardinality({e \in Descriptors : table[e] # Unused}) < NbEsclave + 5
    BY <1>3, <1>6, <2>1
  <2>3. w = Lowest(table)
    BY <1>1, <1>5
  <2> QED BY <2>2, <2>3, LowestIsFree
<1>8. w # r
  BY <1>6, <1>7 DEF Unused
<1>9. /\ fds' = [e \in Descriptors |-> fds'[e]] /\ fds'[r] = "tube"
      /\ \A e \in Descriptors : fds[e] # Unused => fds'[e] = fds[e]
  <2>1. fds' = [table EXCEPT ![w] = "tube"]
    BY <1>1, <1>5
  <2> QED BY <1>4, <1>6, <1>7, <1>8, <2>1
<1>10. \A k \in 1 .. Len(fdSlave) : SlaveOf(k)' = SlaveOf(k)
  <2> TAKE k \in 1 .. Len(fdSlave)
  <2>1. fdSlave[k] \in Descriptors /\ fds[fdSlave[k]] # Unused
    BY StartupAssumption DEF StartupInv, StartupTypes, SlavesTaken, SlaveOf
  <2> QED BY <1>2, <1>9, <2>1 DEF SlaveOf
<1>11. StartupTypes'
  BY <1>2, <1>9 DEF StartupInv, StartupTypes, Stages
<1>12. SlavesTaken'
  BY <1>2, <1>10 DEF StartupInv, SlavesTaken
<1>13. tubeFds'[1] = r
  BY <1>1
<1>14. QueueSound' /\ RoomLeft' /\ Ready'
  BY <1>2, <1>3, <1>4, <1>9, <1>13 DEF QueueSound, RoomLeft, Ready
<1> QED BY <1>11, <1>12, <1>14 DEF StartupInv

LEMMA PipeAndForkKeeps ==
    ASSUME StartupInv, PipeAndFork
    PROVE  StartupInv'
<1>1. CASE tubeFds' # tubeFds
  BY <1>1, TubeKeeps
<1>2. CASE tubeFds' = tubeFds
  <2>1. /\ mst = "clients" /\ mst' = "accept" /\ dsp' \in {"runs", "failed"}
        /\ UNCHANGED <<fdSlave, queue, slv>> /\ tubeFds = <<0, 0>>
    BY DEF PipeAndFork, StartupInv, RoomLeft
  <2>2. fds' = fds
    <3>1. ~ (\E r, w : tubeFds' = <<r, w>> /\ r \in Descriptors)
      BY <1>2, <2>1, DescriptorsFacts
    <3>2. Cardinality(Used) <= NbEsclave + 2 /\ Cardinality(Used) \in Nat /\ NbEsclave \in Nat
      BY <2>1, UsedFacts, StartupAssumption DEF StartupInv, RoomLeft, Open, Used
    <3>3. Lowest(fds) \in Descriptors
      BY <3>2, LowestIsFree DEF Used
    <3> QED BY <3>1, <3>3 DEF PipeAndFork
  <2>3. StartupTypes' /\ SlavesTaken'
    BY <1>2, <2>1, <2>2 DEF StartupInv, StartupTypes, SlavesTaken, SlaveOf, Stages
  <2>4. QueueSound' /\ RoomLeft' /\ Ready'
    BY <1>2, <2>1, <2>2 DEF StartupInv, QueueSound, RoomLeft, Ready, TubeMade
  <2> QED BY <2>3, <2>4 DEF StartupInv
<1> QED BY <1>1, <1>2

LEMMA FineIfReachable ==
    ASSUME NEW reachable \in BOOLEAN, NEW o \in open_clientfd(reachable), o.rc = "fine"
    PROVE  reachable
<1>1. \A p \in NotOpened : p.rc # "fine"
  BY DEF NotOpened, Outcome
<1>2. /\ Outcome("minus_two", TRUE, "result").rc # "fine"
      /\ Outcome("system", TRUE, "errno").rc # "fine"
  BY DEF Outcome
<1> QED BY <1>1, <1>2 DEF open_clientfd

\* A slave reaches the master in "slaves" only, and once.
LEMMA SlaveStartsKeeps ==
    ASSUME StartupInv, NEW s \in Started, SlaveStarts(s)
    PROVE  StartupInv'
<1>1. /\ slv[s] = "start" /\ UNCHANGED <<mst, dsp, masterFds>>
      /\ \E result \in {"wait", "dead"} : slv' = [slv EXCEPT ![s] = result]
      /\ queue' = queue \/ (mst = "slaves" /\ queue' = Append(queue, s))
  <2>1. slv[s] = "start" /\ UNCHANGED <<mst, dsp, masterFds>>
    BY DEF SlaveStarts
  <2>2. PICK o \in open_clientfd(mst = "slaves") :
            /\ slv' = [slv EXCEPT ![s] =
                    IF Passes("Open_clientfd", o.rc) THEN "wait" ELSE "dead"]
            /\ queue' = IF o.rc = "fine" THEN Append(queue, s) ELSE queue
    BY DEF SlaveStarts
  <2>3. \E result \in {"wait", "dead"} : slv' = [slv EXCEPT ![s] = result]
    BY <2>2
  <2>4. o.rc = "fine" => mst = "slaves"
    BY <2>2, FineIfReachable
  <2>5. queue' = queue \/ (mst = "slaves" /\ queue' = Append(queue, s))
    BY <2>2, <2>4
  <2> QED BY <2>1, <2>3, <2>5
<1>2. /\ slv' = [t \in Started |-> slv'[t]] /\ slv'[s] # "start"
      /\ \A t \in Started : slv[t] # "start" => slv'[t] = slv[t] /\ t # s
  BY <1>1 DEF StartupInv, StartupTypes
<1>3. PICK n \in Nat : n = Len(queue)
  BY DEF StartupInv, StartupTypes
<1>4. CASE queue' = queue
  <2>1. StartupTypes' /\ SlavesTaken'
    BY <1>1, <1>2, <1>4 DEF StartupInv, StartupTypes, SlavesTaken, SlaveOf, masterFds
  <2>2. QueueSound'
    BY <1>1, <1>2, <1>4 DEF StartupInv, QueueSound, SlaveOf, masterFds
  <2> QED BY <1>1, <2>1, <2>2 DEF StartupInv, RoomLeft, Ready, TubeMade, Open, Used, masterFds
<1>5. CASE mst = "slaves" /\ queue' = Append(queue, s)
  <2>1. /\ queue' \in Seq(Started \cup Callers) /\ Len(queue') = n + 1 /\ queue'[n + 1] = s
        /\ \A k \in 1 .. n : queue'[k] = queue[k]
    BY <1>3, <1>5, AppendProperties DEF StartupInv, StartupTypes
  <2>2. \A k \in 1 .. n + 1 : k \in 1 .. n \/ k = n + 1
    OBVIOUS
  <2>3. StartupTypes' /\ SlavesTaken'
    BY <1>1, <1>2, <2>1 DEF StartupInv, StartupTypes, SlavesTaken, SlaveOf, masterFds
  <2>4. /\ \A k \in 1 .. n : queue[k] \in Started /\ slv[queue[k]] # "start"
        /\ \A k \in 1 .. n : \A j \in 1 .. Len(fdSlave) : SlaveOf(j) # queue[k]
        /\ \A j, k \in 1 .. n : queue[j] = queue[k] => j = k
    BY <1>3, <1>5 DEF StartupInv, QueueSound
  <2>5. \A j \in 1 .. Len(fdSlave) : SlaveOf(j) \in Started /\ SlaveOf(j) # s
    BY <1>2 DEF StartupInv, SlavesTaken
  <2>6. \A k \in 1 .. n + 1 :
            /\ queue'[k] \in Started /\ slv'[queue'[k]] # "start"
            /\ \A j \in 1 .. Len(fdSlave) : SlaveOf(j) # queue'[k]
    <3>1. \A k \in 1 .. n :
              /\ queue'[k] \in Started /\ slv'[queue'[k]] # "start"
              /\ \A j \in 1 .. Len(fdSlave) : SlaveOf(j) # queue'[k]
      BY <1>2, <2>1, <2>4
    <3> QED BY <1>2, <2>1, <2>2, <2>5, <3>1
  <2>7. ASSUME NEW j \in 1 .. n + 1, NEW k \in 1 .. n + 1, queue'[j] = queue'[k]
        PROVE  j = k
    <3>1. \A l \in 1 .. n : queue'[l] # s
      BY <1>2, <2>1, <2>4
    <3> QED BY <2>1, <2>2, <2>4, <2>7, <3>1
  <2>8. QueueSound'
    BY <1>1, <1>5, <2>1, <2>6, <2>7 DEF QueueSound, SlaveOf, masterFds
  <2> QED BY <1>1, <2>3, <2>8 DEF StartupInv, RoomLeft, Ready, TubeMade, Open, Used, masterFds
<1> QED BY <1>1, <1>4, <1>5

LEMMA SlaveCutKeeps ==
    ASSUME StartupInv, NEW s \in Started, SlaveCut(s)
    PROVE  StartupInv'
<1>1. /\ UNCHANGED <<mst, dsp, masterFds, queue>>
      /\ \E result \in {"lost", "dead"} : slv' = [slv EXCEPT ![s] = result]
  BY DEF SlaveCut
<1>2. /\ slv' = [t \in Started |-> slv'[t]]
      /\ \A t \in Started : slv[t] # "start" => slv'[t] # "start"
  BY <1>1 DEF StartupInv, StartupTypes
<1>3. StartupTypes' /\ SlavesTaken'
  BY <1>1, <1>2 DEF StartupInv, StartupTypes, SlavesTaken, SlaveOf, masterFds
<1>4. QueueSound'
  BY <1>1, <1>2 DEF StartupInv, QueueSound, SlaveOf, masterFds
<1> QED BY <1>1, <1>3, <1>4 DEF StartupInv, RoomLeft, Ready, TubeMade, Open, Used, masterFds

LEMMA StartupInvStep == StartupInv /\ [StartupNext]_startupVars => StartupInv'
<1> SUFFICES ASSUME StartupInv, [StartupNext]_startupVars PROVE StartupInv'
  OBVIOUS
<1>1. queue \in Seq(Started \cup Callers)
  BY DEF StartupInv, StartupTypes
<1>2. CASE UNCHANGED startupVars
  BY <1>1, <1>2, StartupFrame DEF startupVars
<1>3. CASE AcceptClient
  <2>1. /\ mst = "accept" /\ mst' \in {mst, "error"} /\ UNCHANGED <<dsp, masterFds, slv>>
        /\ queue # <<>> /\ queue' = Tail(queue)
    BY <1>3 DEF AcceptClient
  <2>2. queue' \in Seq(Started \cup Callers)
    BY <1>1, <2>1, HeadTailProperties
  <2> QED BY <2>1, <2>2, StartupFrame
<1>6. CASE AcceptorFails
  <2>1. /\ mst = "accept" /\ mst' = "error" /\ UNCHANGED <<dsp, masterFds, slv>>
        /\ queue' = queue \/ (queue # <<>> /\ queue' = Tail(queue))
    BY <1>6 DEF AcceptorFails
  <2>2. queue' \in Seq(Started \cup Callers)
    BY <1>1, <2>1, HeadTailProperties
  <2> QED BY <2>1, <2>2, StartupFrame
<1>4. CASE \/ DispatcherReads \/ DispatcherReadsEnd
           \/ MasterInterrupted \/ DispatcherInterrupted
  BY <1>1, <1>4, StartupFrame DEF DispatcherReads, DispatcherReadsEnd, MasterInterrupted,
        DispatcherInterrupted
<1>5. ASSUME NEW c \in Callers, ClientDials(c) \/ ClientPortTaken(c) PROVE StartupInv'
  <2>1. /\ UNCHANGED <<mst, dsp, masterFds, slv>>
        /\ \/ queue' = queue
           \/ (mst \in {"clients", "accept"} \/ dsp = "runs") /\ queue' = Append(queue, c)
    BY <1>5, FineIfReachable DEF ClientDials, ClientPortTaken
  <2>2. queue' \in Seq(Started \cup Callers)
    BY <1>1, <2>1, AppendProperties
  <2>3. mst' \in {"start", "slaves", "closed"} => queue' = queue
    BY <2>1 DEF StartupInv, RoomLeft
  <2> QED BY <2>1, <2>2, <2>3, StartupFrame
<1> QED BY <1>2, <1>3, <1>4, <1>5, <1>6, OpenPortKeeps, AcceptSlaveKeeps, CloseSlavePortKeeps,
      PipeAndForkKeeps, SlaveStartsKeeps, SlaveCutKeeps DEF StartupNext, MasterStarts

-----------------------------------------------------------------------------
(* What the invariant says of the dispatcher.                              *)

\* Different descriptors lead to different slaves: NB_ESCLAVE of them.
LEMMA AllSlavesThere ==
    ASSUME StartupInv, Len(fdSlave) = NbEsclave
    PROVE  Cardinality({fds[d] : d \in Range(fdSlave)} \cap Started) = NbEsclave
<1> DEFINE T == {fds[d] : d \in Range(fdSlave)} \cap Started
           f == [k \in 1 .. NbEsclave |-> SlaveOf(k)]
<1>1. DOMAIN fdSlave = 1 .. NbEsclave /\ NbEsclave \in Nat
  BY StartupAssumption DEF StartupInv, StartupTypes
<1>2. \A x : x \in T <=> \E k \in 1 .. NbEsclave : x = SlaveOf(k)
  BY <1>1 DEF Range, SlaveOf, StartupInv, SlavesTaken
<1>3. \A j, k \in 1 .. NbEsclave : SlaveOf(j) = SlaveOf(k) => j = k
  BY DEF StartupInv, SlavesTaken
<1>4. f \in [1 .. NbEsclave -> T] /\ (\A t \in T : \E k \in 1 .. NbEsclave : f[k] = t)
      /\ \A j, k \in 1 .. NbEsclave : f[j] = f[k] => j = k
  BY <1>2, <1>3
<1> HIDE DEF T, f
<1>5. ExistsBijection(1 .. NbEsclave, T)
  BY <1>4, Fun_IsBij, Fun_ExistsBij
<1>6. Cardinality(T) = NbEsclave
  BY <1>1, <1>5, FS_CountingElements
<1> QED BY <1>6 DEF T

LEMMA StartupInvImplies == StartupInv => DispatcherSeesAll
<1> SUFFICES ASSUME StartupInv PROVE DispatcherSeesAll
  OBVIOUS
<1>1. mst \in {"closed", "clients", "accept"} =>
        /\ Len(fdSlave) = NbEsclave
        /\ Cardinality({fds[d] : d \in Range(fdSlave)} \cap Started) = NbEsclave
  BY AllSlavesThere DEF StartupInv, Ready
<1>2. ASSUME dsp = "runs"
      PROVE  /\ \A d \in Range(fdSlave) \cup {t \in {tubeFds[1]} : TubeMade} :
                    fds[d] # Unused /\ Watched(d)
             /\ tubeFds[1] \notin Range(fdSlave)
  <2>1. \/ TubeMade /\ tubeFds[1] \in Descriptors /\ fds[tubeFds[1]] = "tube"
        \/ ~ TubeMade /\ tubeFds[1] = 0
    BY <1>2 DEF StartupInv, Ready, TubeMade
  <2>2. \A d \in Range(fdSlave) : d \in Descriptors /\ fds[d] \in Started
    <3> TAKE d \in Range(fdSlave)
    <3>1. PICK k \in 1 .. Len(fdSlave) : d = fdSlave[k]
      BY DEF Range, StartupInv, StartupTypes
    <3>2. d \in Descriptors
      BY <3>1, ElementOfSeq DEF StartupInv, StartupTypes
    <3> QED BY <3>1, <3>2 DEF StartupInv, SlavesTaken, SlaveOf
  <2>3. tubeFds[1] \notin Range(fdSlave)
    BY <2>1, <2>2, StartupAssumption, DescriptorsFacts
  <2>4. \A d \in Range(fdSlave) \cup {t \in {tubeFds[1]} : TubeMade} : fds[d] # Unused
    BY <2>1, <2>2, StartupAssumption DEF Unused
  <2>5. \A d \in Range(fdSlave) \cup {tubeFds[1]} : Watched(d)
    <3>1. PICK S : S = Range(fdSlave) \cup {tubeFds[1]}
      OBVIOUS
    <3>2. S \subseteq Descriptors \cup {0} /\ S # {}
      BY <2>1, <2>2, <3>1
    <3>3. Max(S) \in S /\ \A d \in S : Max(S) >= d
      BY <3>2, MaxOfDescriptors
    <3>4. \A d \in S : d \in Nat
      BY <3>2, DescriptorsFacts
    <3>5. fd_max = Max(S)
      BY <3>1 DEF fd_max
    <3>6. \A d \in S : d < fd_max + 1
      BY <3>3, <3>4, <3>5
    <3> QED BY <3>1, <3>6 DEF Watched
  <2> QED BY <2>3, <2>4, <2>5
<1> QED BY <1>1, <1>2 DEF DispatcherSeesAll

\* Whatever descriptors the kernel gives, whatever is started and whatever fails:
\* once clients are taken the dispatcher has NB_ESCLAVE different slaves, and its
\* select watches each of them and the tube (master.c:63-101, master.c:295).
THEOREM SlavesAndTubeAreWatched == StartupSpec => []DispatcherSeesAll
<1>1. StartupInit => StartupInv
  BY StartupInvInit
<1>2. StartupInv /\ [StartupNext]_startupVars => StartupInv'
  BY StartupInvStep
<1>3. StartupInv => DispatcherSeesAll
  BY StartupInvImplies
<1> QED BY <1>1, <1>2, <1>3, PTL DEF StartupSpec

-----------------------------------------------------------------------------
(* The wrappers of csapp.c.  Each stands in one group.                     *)

\* A wrapper of a group is found there.
LEMMA WrapperOf ==
    ASSUME NEW g \in Groups, NEW w \in DOMAIN g,
           \A h \in Groups : w \in DOMAIN h => h = g
    PROVE  Wrapper(w) = g[w] /\ w \in Wrappers
<1>1. (CHOOSE h \in Groups : w \in DOMAIN h) = g
  OBVIOUS
<1> QED BY <1>1 DEF Wrapper, Wrappers

LEMMA Domains ==
    /\ DOMAIN ProcessControl = {"Fork", "Execve", "Wait", "Waitpid", "Kill", "Pause", "Sleep",
                                "Alarm", "Setpgid", "Getpgrp"}
    /\ DOMAIN SignalHandling = {"Signal", "Sigprocmask", "Sigemptyset", "Sigfillset",
                                "Sigaddset", "Sigdelset", "Sigismember"}
    /\ DOMAIN UnixIO = {"Open", "Read", "Write", "Lseek", "Close", "Select", "Dup2", "Stat",
                        "Fstat"}
    /\ DOMAIN Memory = {"Mmap", "Munmap", "Malloc", "Realloc", "Calloc", "Free"}
    /\ DOMAIN StandardIO = {"Fclose", "Fdopen", "Fgets", "Fopen", "Fputs", "Fread", "Fwrite"}
    /\ DOMAIN Sockets = {"Socket", "Setsockopt", "Bind", "Listen", "Accept", "Connect"}
    /\ DOMAIN Dns = {"Gethostbyname", "Gethostbyaddr", "Getaddrinfo", "Getnameinfo"}
    /\ DOMAIN Pthreads = {"Pthread_create", "Pthread_cancel", "Pthread_join", "Pthread_detach",
                          "Pthread_exit", "Pthread_self", "Pthread_once"}
    /\ DOMAIN Semaphores = {"Sem_init", "P", "V"}
    /\ DOMAIN RioWrappers = {"Rio_readn", "Rio_writen", "Rio_readinitb", "Rio_readnb",
                             "Rio_readlineb"}
    /\ DOMAIN InetHelpers = {"Inet_ntop", "Inet_pton"}
    /\ DOMAIN Helpers = {"Open_clientfd", "Open_listenfd", "Open_clientfd_old"}
  BY DEF ProcessControl, SignalHandling, UnixIO, Memory, StandardIO, Sockets, Dns, Pthreads,
         Semaphores, RioWrappers, InetHelpers, Helpers

\* No two groups have a wrapper in common.
LEMMA OneGroup ==
    ASSUME NEW g \in Groups, NEW h \in Groups, NEW w \in DOMAIN g, w \in DOMAIN h
    PROVE  g = h
<1> DEFINE Same(x) == \A y \in Groups : w \in DOMAIN x /\ w \in DOMAIN y => x = y
<1>1. Same(ProcessControl)
  BY Domains DEF Groups
<1>2. Same(SignalHandling)
  BY Domains DEF Groups
<1>3. Same(UnixIO)
  BY Domains DEF Groups
<1>4. Same(Memory)
  BY Domains DEF Groups
<1>5. Same(StandardIO)
  BY Domains DEF Groups
<1>6. Same(Sockets)
  BY Domains DEF Groups
<1>7. Same(Dns)
  BY Domains DEF Groups
<1>8. Same(Pthreads)
  BY Domains DEF Groups
<1>9. Same(Semaphores)
  BY Domains DEF Groups
<1>10. Same(RioWrappers)
  BY Domains DEF Groups
<1>11. Same(InetHelpers)
  BY Domains DEF Groups
<1>12. Same(Helpers)
  BY Domains DEF Groups
<1> HIDE DEF Same
<1>13. Same(g)
  BY <1>1, <1>2, <1>3, <1>4, <1>5, <1>6, <1>7, <1>8, <1>9, <1>10, <1>11, <1>12 DEF Groups
<1> QED BY <1>13 DEF Same

LEMMA Found == ASSUME NEW g \in Groups, NEW w \in DOMAIN g PROVE Wrapper(w) = g[w]
  BY OneGroup, WrapperOf

\* A wrapper lets the successes of its call through and nothing else, and looks
\* where the call has put the cause, or nowhere.
Takes(w, r) ==
    IF r.cause = "success" THEN r.rc \notin DOMAIN Wrapper(w)
    ELSE /\ r.rc \in DOMAIN Wrapper(w)
         /\ Wrapper(w)[r.rc] \in DOMAIN error_status
         /\ \/ Looks(Wrapper(w)[r.rc], r.rc) = r.cause /\ r.cause # "none"
            \/ Looks(Wrapper(w)[r.rc], r.rc) = "none" /\ w \in {"Fgets", "Inet_pton"}

WrapperIsExact(w) == \A r \in Call(w) : Takes(w, r)

LEMMA ResultFields ==
    /\ \A rc, cause : Returned(rc, cause).rc = rc /\ Returned(rc, cause).cause = cause
    /\ \A results : \A r \in Good(results) : r.rc \in results /\ r.cause = "success"
  BY DEF Returned, Good

\* What the helpers return, with its cause.
LEMMA Outcomes ==
    /\ \A o \in open_clientfd(TRUE) :
          \/ o.rc = "fine" /\ o.cause = "success"
          \/ o.rc = "negative" /\ o.cause = "errno"
          \/ o.rc = "minus_two" /\ o.cause = "result"
          \/ o.rc = "system" /\ o.cause = "errno"
    /\ \A o \in open_clientfd_old(TRUE) :
          \/ o.rc = "fine" /\ o.cause = "success"
          \/ o.rc = "negative" /\ o.cause = "errno"
          \/ o.rc = "minus_two" /\ o.cause = "h_errno"
    /\ \A o \in open_listenfd(TRUE) :
          \/ o.rc = "fine" /\ o.cause = "success"
          \/ o.rc = "negative" /\ o.cause = "errno"
<1>1. \A rc, made, cause : /\ Outcome(rc, made, cause).rc = rc
                           /\ Outcome(rc, made, cause).cause = cause
  BY DEF Outcome
<1>2. \A o \in NotOpened : o.rc = "negative" /\ o.cause = "errno"
  BY <1>1 DEF NotOpened
<1>3. Opened.rc = "fine" /\ Opened.cause = "success"
  BY <1>1 DEF Opened
<1> HIDE DEF Outcome
<1>4. \A o \in open_clientfd(TRUE) : o \in NotOpened \/ o = Opened
          \/ o = Outcome("minus_two", TRUE, "result") \/ o = Outcome("system", TRUE, "errno")
  BY DEF open_clientfd
<1>5. \A o \in open_clientfd_old(TRUE) : o \in NotOpened \/ o = Opened
          \/ o = Outcome("minus_two", TRUE, "h_errno")
  BY DEF open_clientfd_old
<1>6. \A o \in open_listenfd(TRUE) : o \in NotOpened \/ o = Opened
  BY DEF open_listenfd
<1>7. \A o \in NotOpened \cup {Opened} :
          \/ o.rc = "fine" /\ o.cause = "success"
          \/ o.rc = "negative" /\ o.cause = "errno"
  BY <1>2, <1>3
<1>8. /\ Outcome("minus_two", TRUE, "result").rc = "minus_two"
      /\ Outcome("minus_two", TRUE, "result").cause = "result"
      /\ Outcome("minus_two", TRUE, "h_errno").rc = "minus_two"
      /\ Outcome("minus_two", TRUE, "h_errno").cause = "h_errno"
      /\ Outcome("system", TRUE, "errno").rc = "system"
      /\ Outcome("system", TRUE, "errno").cause = "errno"
  BY DEF Outcome
<1> QED BY <1>4, <1>5, <1>6, <1>7, <1>8

\* The kinds most wrappers are of.
LEMMA ExactErrno ==
    ASSUME NEW w, Wrapper(w) = Negative, Call(w) = ErrnoCall PROVE WrapperIsExact(w)
  BY ResultFields DEF WrapperIsExact, Takes, Looks, error_status, Negative, Fails, ErrnoCall

LEMMA ExactNever ==
    ASSUME NEW w, Wrapper(w) = Unchecked,
           Call(w) \in {Good({"fine", "zero"}), Good({"negative"})}
    PROVE  WrapperIsExact(w)
  BY ResultFields DEF WrapperIsExact, Takes, Unchecked, Fails

LEMMA ExactPointer ==
    ASSUME NEW w, Wrapper(w) = Null, Call(w) = NullOrFine("errno") PROVE WrapperIsExact(w)
  BY ResultFields DEF WrapperIsExact, Takes, Looks, error_status, Null, Fails, NullOrFine

LEMMA AllExact == \A w \in Wrappers : WrapperIsExact(w)
<1> DEFINE Exact(g) == \A w \in DOMAIN g : WrapperIsExact(w)
<1>1. Exact(ProcessControl)
  <2> SUFFICES ASSUME NEW w \in DOMAIN ProcessControl PROVE WrapperIsExact(w)
    OBVIOUS
  <2>1. Wrapper(w) = ProcessControl[w]
    BY Found DEF Groups
  <2>2. CASE w \in {"Fork", "Wait", "Waitpid", "Kill", "Setpgid"}
    <3>1. Wrapper(w) = Negative
      BY <2>1, <2>2 DEF ProcessControl
    <3>2. Call(w) = ErrnoCall
      BY <2>2 DEF Call
    <3> QED BY <3>1, <3>2, ExactErrno
  <2>3. CASE w = "Execve"
    <3>1. Wrapper(w) = Negative
      BY <2>1, <2>3 DEF ProcessControl
    <3>2. Call(w) = {Returned("negative", "errno")}
      BY <2>3 DEF Call
    <3> QED BY <3>1, <3>2, ResultFields
           DEF WrapperIsExact, Takes, Looks, error_status, Negative, Fails, NullOrFine
  <2>4. CASE w \in {"Pause", "Sleep", "Alarm", "Getpgrp"}
    <3>1. Wrapper(w) = Unchecked
      BY <2>1, <2>4 DEF ProcessControl
    <3>2. Call(w) \in {Good({"fine", "zero"}), Good({"negative"})}
      BY <2>4 DEF Call
    <3> QED BY <3>1, <3>2, ExactNever
  <2> QED BY <2>2, <2>3, <2>4, Domains
<1>2. Exact(SignalHandling)
  <2> SUFFICES ASSUME NEW w \in DOMAIN SignalHandling PROVE WrapperIsExact(w)
    OBVIOUS
  <2>1. Wrapper(w) = SignalHandling[w]
    BY Found DEF Groups
  <2>2. Wrapper(w) = Negative
    BY <2>1, Domains DEF SignalHandling
  <2>3. Call(w) = ErrnoCall
    BY Domains DEF Call
  <2> QED BY <2>2, <2>3, ExactErrno
<1>3. Exact(UnixIO)
  <2> SUFFICES ASSUME NEW w \in DOMAIN UnixIO PROVE WrapperIsExact(w)
    OBVIOUS
  <2>1. Wrapper(w) = UnixIO[w]
    BY Found DEF Groups
  <2>2. Wrapper(w) = Negative
    BY <2>1, Domains DEF UnixIO
  <2>3. Call(w) = ErrnoCall
    BY Domains DEF Call
  <2> QED BY <2>2, <2>3, ExactErrno
<1>4. Exact(Memory)
  <2> SUFFICES ASSUME NEW w \in DOMAIN Memory PROVE WrapperIsExact(w)
    OBVIOUS
  <2>1. Wrapper(w) = Memory[w]
    BY Found DEF Groups
  <2>2. CASE w = "Mmap"
    <3>1. Wrapper(w) = Fails({"map_failed"}, "unix_error")
      BY <2>1, <2>2 DEF Memory
    <3>2. Call(w) = Good({"fine", "null"}) \cup {Returned("map_failed", "errno")}
      BY <2>2 DEF Call
    <3> QED BY <3>1, <3>2, ResultFields
           DEF WrapperIsExact, Takes, Looks, error_status, Fails, NullOrFine
  <2>3. CASE w = "Munmap"
    <3>1. Wrapper(w) = Negative
      BY <2>1, <2>3 DEF Memory
    <3>2. Call(w) = ErrnoCall
      BY <2>3 DEF Call
    <3> QED BY <3>1, <3>2, ExactErrno
  <2>4. CASE w \in {"Malloc", "Realloc", "Calloc"}
    <3>1. Wrapper(w) = Null
      BY <2>1, <2>4 DEF Memory
    <3>2. Call(w) = NullOrFine("errno")
      BY <2>4 DEF Call
    <3> QED BY <3>1, <3>2, ExactPointer
  <2>5. CASE w = "Free"
    <3>1. Wrapper(w) = Unchecked
      BY <2>1, <2>5 DEF Memory
    <3>2. Call(w) \in {Good({"fine", "zero"}), Good({"negative"})}
      BY <2>5 DEF Call
    <3> QED BY <3>1, <3>2, ExactNever
  <2> QED BY <2>2, <2>3, <2>4, <2>5, Domains
<1>5. Exact(StandardIO)
  <2> SUFFICES ASSUME NEW w \in DOMAIN StandardIO PROVE WrapperIsExact(w)
    OBVIOUS
  <2>1. Wrapper(w) = StandardIO[w]
    BY Found DEF Groups
  <2>2. CASE w = "Fclose"
    <3>1. Wrapper(w) = NotZero("unix_error")
      BY <2>1, <2>2 DEF StandardIO
    <3>2. Call(w) = ErrnoCall
      BY <2>2 DEF Call
    <3> QED BY <3>1, <3>2, ResultFields
           DEF WrapperIsExact, Takes, Looks, error_status, NotZero, Fails, ErrnoCall, NullOrFine
  <2>3. CASE w \in {"Fdopen", "Fopen"}
    <3>1. Wrapper(w) = Null
      BY <2>1, <2>3 DEF StandardIO
    <3>2. Call(w) = NullOrFine("errno")
      BY <2>3 DEF Call
    <3> QED BY <3>1, <3>2, ExactPointer
  <2>4. CASE w = "Fgets"
    <3>1. Wrapper(w) = Fails({"null"}, "app_error")
      BY <2>1, <2>4 DEF StandardIO
    <3>2. Call(w) = Good({"null_eof"}) \cup NullOrFine("errno")
      BY <2>4 DEF Call
    <3> QED BY <2>4, <3>1, <3>2, ResultFields
           DEF WrapperIsExact, Takes, Looks, error_status, Fails, NullOrFine
  <2>5. CASE w = "Fputs"
    <3>1. Wrapper(w) = Negative
      BY <2>1, <2>5 DEF StandardIO
    <3>2. Call(w) = ErrnoCall
      BY <2>5 DEF Call
    <3> QED BY <3>1, <3>2, ExactErrno
  <2>6. CASE w = "Fread"
    <3>1. Wrapper(w) = Fails({"short"}, "unix_error")
      BY <2>1, <2>6 DEF StandardIO
    <3>2. Call(w) = Good({"fine", "short_eof"}) \cup {Returned("short", "errno")}
      BY <2>6 DEF Call
    <3> QED BY <3>1, <3>2, ResultFields
           DEF WrapperIsExact, Takes, Looks, error_status, Fails, NullOrFine
  <2>7. CASE w = "Fwrite"
    <3>1. Wrapper(w) = Fails({"short", "short_eof"}, "unix_error")
      BY <2>1, <2>7 DEF StandardIO
    <3>2. Call(w) = Good({"fine"}) \cup {Returned("short", "errno")}
      BY <2>7 DEF Call
    <3> QED BY <3>1, <3>2, ResultFields
           DEF WrapperIsExact, Takes, Looks, error_status, Fails, NullOrFine
  <2> QED BY <2>2, <2>3, <2>4, <2>5, <2>6, <2>7, Domains
<1>6. Exact(Sockets)
  <2> SUFFICES ASSUME NEW w \in DOMAIN Sockets PROVE WrapperIsExact(w)
    OBVIOUS
  <2>1. Wrapper(w) = Sockets[w]
    BY Found DEF Groups
  <2>2. Wrapper(w) = Negative
    BY <2>1, Domains DEF Sockets
  <2>3. Call(w) = ErrnoCall
    BY Domains DEF Call
  <2> QED BY <2>2, <2>3, ExactErrno
<1>7. Exact(Dns)
  <2> SUFFICES ASSUME NEW w \in DOMAIN Dns PROVE WrapperIsExact(w)
    OBVIOUS
  <2>1. Wrapper(w) = Dns[w]
    BY Found DEF Groups
  <2>2. CASE w \in {"Gethostbyname", "Gethostbyaddr"}
    <3>1. Wrapper(w) = Fails({"null"}, "dns_error")
      BY <2>1, <2>2 DEF Dns
    <3>2. Call(w) = NullOrFine("h_errno")
      BY <2>2 DEF Call
    <3> QED BY <3>1, <3>2, ResultFields
           DEF WrapperIsExact, Takes, Looks, error_status, Fails, NullOrFine
  <2>3. CASE w \in {"Getaddrinfo", "Getnameinfo"}
    <3>1. Wrapper(w) = NotZero("new_dns_error")
      BY <2>1, <2>3 DEF Dns
    <3>2. Call(w) = Good({"zero"}) \cup {Returned("code", "result"), Returned("system", "errno")}
      BY <2>3 DEF Call
    <3> QED BY <3>1, <3>2, ResultFields DEF WrapperIsExact, Takes, Looks, error_status, NotZero, Fails
  <2> QED BY <2>2, <2>3, Domains
<1>8. Exact(Pthreads)
  <2> SUFFICES ASSUME NEW w \in DOMAIN Pthreads PROVE WrapperIsExact(w)
    OBVIOUS
  <2>1. Wrapper(w) = Pthreads[w]
    BY Found DEF Groups
  <2>2. CASE w \in {"Pthread_create", "Pthread_cancel", "Pthread_join", "Pthread_detach"}
    <3>1. Wrapper(w) = NotZero("posix_error")
      BY <2>1, <2>2 DEF Pthreads, PthreadFails
    <3>2. Call(w) = Good({"zero"}) \cup {Returned("code", "result")}
      BY <2>2 DEF Call
    <3> QED BY <3>1, <3>2, ResultFields DEF WrapperIsExact, Takes, Looks, error_status, NotZero, Fails
  <2>3. CASE w \in {"Pthread_exit", "Pthread_self", "Pthread_once"}
    <3>1. Wrapper(w) = Unchecked
      BY <2>1, <2>3 DEF Pthreads
    <3>2. Call(w) \in {Good({"fine", "zero"}), Good({"negative"})}
      BY <2>3 DEF Call
    <3> QED BY <3>1, <3>2, ExactNever
  <2> QED BY <2>2, <2>3, Domains
<1>9. Exact(Semaphores)
  <2> SUFFICES ASSUME NEW w \in DOMAIN Semaphores PROVE WrapperIsExact(w)
    OBVIOUS
  <2>1. Wrapper(w) = Semaphores[w]
    BY Found DEF Groups
  <2>2. Wrapper(w) = Negative
    BY <2>1, Domains DEF Semaphores
  <2>3. Call(w) = ErrnoCall
    BY Domains DEF Call
  <2> QED BY <2>2, <2>3, ExactErrno
<1>10. Exact(RioWrappers)
  <2> SUFFICES ASSUME NEW w \in DOMAIN RioWrappers PROVE WrapperIsExact(w)
    OBVIOUS
  <2>1. Wrapper(w) = RioWrappers[w]
    BY Found DEF Groups
  <2>2. CASE w = "Rio_writen"
    <3>1. Wrapper(w) = Fails({"negative", "short"}, "unix_error")
      BY <2>1, <2>2 DEF RioWrappers
    <3>2. Call(w) = Good({"fine"}) \cup {Returned("negative", "errno")}
      BY <2>2 DEF Call
    <3> QED BY <3>1, <3>2, ResultFields
           DEF WrapperIsExact, Takes, Looks, error_status, Fails, NullOrFine
  <2>3. CASE w = "Rio_readinitb"
    <3>1. Wrapper(w) = Unchecked
      BY <2>1, <2>3 DEF RioWrappers
    <3>2. Call(w) \in {Good({"fine", "zero"}), Good({"negative"})}
      BY <2>3 DEF Call
    <3> QED BY <3>1, <3>2, ExactNever
  <2>4. CASE w \in {"Rio_readn", "Rio_readnb", "Rio_readlineb"}
    <3>1. Wrapper(w) = Negative
      BY <2>1, <2>4 DEF RioWrappers
    <3>2. Call(w) = ErrnoCall
      BY <2>4 DEF Call
    <3> QED BY <3>1, <3>2, ExactErrno
  <2> QED BY <2>2, <2>3, <2>4, Domains
<1>11. Exact(InetHelpers)
  <2> SUFFICES ASSUME NEW w \in DOMAIN InetHelpers PROVE WrapperIsExact(w)
    OBVIOUS
  <2>1. Wrapper(w) = InetHelpers[w]
    BY Found DEF Groups
  <2>2. CASE w = "Inet_ntop"
    <3>1. Wrapper(w) = Null
      BY <2>1, <2>2 DEF InetHelpers
    <3>2. Call(w) = NullOrFine("errno")
      BY <2>2 DEF Call
    <3> QED BY <3>1, <3>2, ExactPointer
  <2>3. CASE w = "Inet_pton"
    <3>1. Wrapper(w) = [zero |-> "app_error", negative |-> "unix_error"]
      BY <2>1, <2>3 DEF InetHelpers
    <3>2. Call(w) = Good({"fine"}) \cup {Returned("zero", "none"), Returned("negative", "errno")}
      BY <2>3 DEF Call
    <3> QED BY <2>3, <3>1, <3>2, ResultFields
           DEF WrapperIsExact, Takes, Looks, error_status, NullOrFine
  <2> QED BY <2>2, <2>3, Domains
<1>12. Exact(Helpers)
  <2> SUFFICES ASSUME NEW w \in DOMAIN Helpers PROVE WrapperIsExact(w)
    OBVIOUS
  <2>1. Wrapper(w) = Helpers[w]
    BY Found DEF Groups
  <2>2. CASE w = "Open_clientfd"
    <3>1. Wrapper(w) = [negative |-> "unix_error", minus_two |-> "new_dns_error",
                        system |-> "new_dns_error"]
      BY <2>1, <2>2 DEF Helpers, Open_clientfd
    <3>2. \A r \in Call(w) : \E o \in open_clientfd(TRUE) : r = Returned(o.rc, o.cause)
      BY <2>2 DEF Call
    <3>3. ASSUME NEW r \in Call(w) PROVE Takes(w, r)
      <4>1. PICK o \in open_clientfd(TRUE) : r = Returned(o.rc, o.cause)
        BY <3>2
      <4>2. r.rc = o.rc /\ r.cause = o.cause
        BY <4>1, ResultFields
      <4>3. \/ r.rc = "fine" /\ r.cause = "success"
            \/ r.rc = "negative" /\ r.cause = "errno"
            \/ r.rc = "minus_two" /\ r.cause = "result"
            \/ r.rc = "system" /\ r.cause = "errno"
        BY <4>2, Outcomes
      <4>4. /\ DOMAIN Wrapper(w) = {"negative", "minus_two", "system"}
            /\ Wrapper(w)["negative"] = "unix_error" /\ Wrapper(w)["minus_two"] = "new_dns_error"
            /\ Wrapper(w)["system"] = "new_dns_error"
        BY <3>1
      <4>5. /\ Looks("unix_error", "negative") = "errno"
            /\ Looks("new_dns_error", "minus_two") = "result"
            /\ Looks("new_dns_error", "system") = "errno"
        BY DEF Looks
      <4> QED BY <4>3, <4>4, <4>5 DEF Takes, error_status
    <3> QED BY <3>3 DEF WrapperIsExact
  <2>3. CASE w = "Open_clientfd_old"
    <3>1. Wrapper(w) = [negative |-> "unix_error", minus_two |-> "dns_error"]
      BY <2>1, <2>3 DEF Helpers, Open_clientfd_old
    <3>2. \A r \in Call(w) : \E o \in open_clientfd_old(TRUE) : r = Returned(o.rc, o.cause)
      BY <2>3 DEF Call
    <3>3. ASSUME NEW r \in Call(w) PROVE Takes(w, r)
      <4>1. PICK o \in open_clientfd_old(TRUE) : r = Returned(o.rc, o.cause)
        BY <3>2
      <4>2. r.rc = o.rc /\ r.cause = o.cause
        BY <4>1, ResultFields
      <4>3. \/ r.rc = "fine" /\ r.cause = "success"
            \/ r.rc = "negative" /\ r.cause = "errno"
            \/ r.rc = "minus_two" /\ r.cause = "h_errno"
        BY <4>2, Outcomes
      <4>4. /\ DOMAIN Wrapper(w) = {"negative", "minus_two"}
            /\ Wrapper(w)["negative"] = "unix_error" /\ Wrapper(w)["minus_two"] = "dns_error"
        BY <3>1
      <4>5. /\ Looks("unix_error", "negative") = "errno"
            /\ Looks("dns_error", "minus_two") = "h_errno"
        BY DEF Looks
      <4> QED BY <4>3, <4>4, <4>5 DEF Takes, error_status
    <3> QED BY <3>3 DEF WrapperIsExact
  <2>4. CASE w = "Open_listenfd"
    <3>1. Wrapper(w) = Negative
      BY <2>1, <2>4 DEF Helpers, Open_listenfd
    <3>2. \A r \in Call(w) : \E o \in open_listenfd(TRUE) : r = Returned(o.rc, o.cause)
      BY <2>4 DEF Call
    <3>3. ASSUME NEW r \in Call(w) PROVE Takes(w, r)
      <4>1. PICK o \in open_listenfd(TRUE) : r = Returned(o.rc, o.cause)
        BY <3>2
      <4>2. r.rc = o.rc /\ r.cause = o.cause
        BY <4>1, ResultFields
      <4>3. PICK rc, cause : rc = r.rc /\ cause = r.cause
        OBVIOUS
      <4> QED BY <3>1, <4>2, <4>3, Outcomes DEF Takes, Looks, error_status, Negative, Fails
    <3> QED BY <3>3 DEF WrapperIsExact
  <2> QED BY <2>2, <2>3, <2>4, Domains
<1> HIDE DEF Exact
<1>13. \A g \in Groups : Exact(g)
  BY <1>1, <1>2, <1>3, <1>4, <1>5, <1>6, <1>7, <1>8, <1>9, <1>10, <1>11, <1>12 DEF Groups
<1>14. \A w \in Wrappers : \E g \in Groups : w \in DOMAIN g
  BY DEF Wrappers
<1> QED BY <1>13, <1>14 DEF Exact

-----------------------------------------------------------------------------
(* A program that calls through them: Wrapped.  While a wrapper runs, what *)
(* its call gave is known, and a failure has put its cause in its place,   *)
(* from which only a handler can have taken it.                            *)

Errors == DOMAIN error_status

GaveResult ==
    \E r \in Call(calling) :
        /\ gave = r.rc
        /\ IF r.cause = "success" THEN broke = "none"
           ELSE /\ broke = calling
                /\ r.cause = "errno" => errno = calling \/ (errno = "handler" /\ disturbed)
                /\ r.cause = "h_errno" => h_errno = calling

CallInv ==
    /\ FailureIsTold
    /\ message.error \notin Errors => message = NoMessage
    /\ calling # "none" =>
        calling \in Wrappers /\ message = NoMessage /\ GaveResult

LEMMA NoneIsNoWrapper == "none" \notin Wrappers
  BY Domains DEF Wrappers, Groups

LEMMA NoMessageIsNoError == NoMessage.error \notin Errors
  BY DEF NoMessage, Errors, error_status

LEMMA CallWrappedKeeps ==
    ASSUME CallInv, NEW w \in Wrappers, CallWrapped(w)
    PROVE  CallInv'
<1>1. /\ message' = message /\ message = NoMessage /\ calling' = w /\ w # "none"
      /\ broke = "none"
  BY NoneIsNoWrapper, NoMessageIsNoError DEF CallWrapped, CallInv, FailureIsTold, Errors
<1>2. PICK r \in Call(w) :
        /\ gave' = r.rc
        /\ errno' \in (IF r.cause = "errno" THEN {} ELSE {errno}) \cup {w}
        /\ h_errno' = IF r.cause = "h_errno" THEN w ELSE h_errno
        /\ broke' = IF r.cause = "success" THEN broke ELSE w
  BY DEF CallWrapped
<1>3. r.cause = "errno" => errno' = w
  BY <1>2
<1>4. r \in Call(calling')
  BY <1>1
<1>5. GaveResult'
  BY <1>1, <1>2, <1>3, <1>4 DEF GaveResult
<1> QED BY <1>1, <1>5, NoMessageIsNoError DEF CallInv, FailureIsTold, Errors

LEMMA HandlerRunsKeeps == CallInv /\ HandlerRuns => CallInv'
<1> SUFFICES ASSUME CallInv, HandlerRuns PROVE CallInv'
  OBVIOUS
<1>1. /\ errno' = "handler" /\ disturbed' /\ calling # "none" /\ message = NoMessage
      /\ UNCHANGED <<calling, gave, h_errno, message, broke>>
  BY DEF HandlerRuns, CallInv
<1>2. GaveResult'
  BY <1>1 DEF CallInv, GaveResult
<1> QED BY <1>1, <1>2, NoMessageIsNoError DEF CallInv, FailureIsTold, Errors

\* The wrapper is exact: what it passes was a success.
LEMMA GoesOnKeeps == CallInv /\ GoesOn => CallInv'
<1> SUFFICES ASSUME CallInv, GoesOn PROVE CallInv'
  OBVIOUS
<1>1. /\ calling # "none" /\ Passes(calling, gave) /\ calling' = "none"
      /\ message = NoMessage /\ UNCHANGED <<message, broke>>
  BY DEF GoesOn, CallInv
<1>2. broke = "none"
  <2>1. \A r \in Call(calling) : Takes(calling, r)
    BY <1>1, AllExact DEF CallInv, WrapperIsExact
  <2> QED BY <1>1, <2>1 DEF CallInv, GaveResult, Takes, Passes
<1> QED BY <1>1, <1>2, NoMessageIsNoError DEF CallInv, FailureIsTold, Errors

\* What it does not pass was a failure, and its error function finds the cause.
LEMMA TellsKeeps == CallInv /\ Tells => CallInv'
<1> SUFFICES ASSUME CallInv, Tells PROVE CallInv'
  OBVIOUS
<1> DEFINE error == Wrapper(calling)[gave]
<1>1. /\ calling # "none" /\ ~ Passes(calling, gave) /\ calling' = "none"
      /\ message' = [error |-> error, cause |-> CauseFound(error),
                     status |-> error_status[error]]
      /\ UNCHANGED <<broke, disturbed>>
  BY DEF Tells
<1>2. PICK r \in Call(calling) :
        /\ gave = r.rc
        /\ IF r.cause = "success" THEN broke = "none"
           ELSE /\ broke = calling
                /\ r.cause = "errno" => errno = calling \/ (errno = "handler" /\ disturbed)
                /\ r.cause = "h_errno" => h_errno = calling
  BY <1>1 DEF CallInv, GaveResult
<1>3. Takes(calling, r)
  BY <1>1, AllExact DEF CallInv, WrapperIsExact
<1>4. /\ r.cause # "success" /\ broke = calling /\ error \in Errors
      /\ \/ Looks(error, gave) = r.cause /\ r.cause # "none"
         \/ Looks(error, gave) = "none" /\ calling \in {"Fgets", "Inet_pton"}
  BY <1>1, <1>2, <1>3 DEF Takes, Passes, Errors
<1>5. message'.error = error /\ message'.cause = CauseFound(error)
  BY <1>1
<1>6. calling \notin {"none", "handler"}
  BY <1>1, Domains DEF CallInv, Wrappers, Groups
<1>7. /\ CauseFound(error) \in {broke, "none"} \cup {h \in {"handler"} : disturbed}
      /\ CauseFound(error) = "none" => broke \in {"Fgets", "Inet_pton"}
  <2>1. Looks(error, gave) = "none" => CauseFound(error) = "none"
    BY DEF CauseFound
  <2>2. CASE Looks(error, gave) = "none"
    BY <1>4, <2>1, <2>2
  <2>3. CASE Looks(error, gave) = "errno" /\ r.cause = "errno"
    <3>1. CauseFound(error) = errno
      BY <2>3 DEF CauseFound
    <3> QED BY <1>2, <1>4, <1>6, <2>3, <3>1
  <2>4. CASE Looks(error, gave) = "h_errno" /\ r.cause = "h_errno"
    <3>1. CauseFound(error) = h_errno
      BY <2>4 DEF CauseFound
    <3> QED BY <1>2, <1>4, <1>6, <2>4, <3>1
  <2>5. CASE Looks(error, gave) = "result"
    <3>1. CauseFound(error) = calling
      BY <2>5 DEF CauseFound
    <3> QED BY <1>4, <1>6, <3>1
  <2>6. Looks(error, gave) \in {"errno", "h_errno", "result", "none"}
    BY <1>4 DEF Looks, Errors, error_status
  <2> QED BY <1>4, <2>2, <2>3, <2>4, <2>5, <2>6
<1> QED BY <1>1, <1>4, <1>5, <1>7 DEF CallInv, FailureIsTold, Errors

\* Whatever is called, in whatever order and with whatever results: a program
\* goes on after no failure of a wrapped call and ends itself after nothing else,
\* and its message tells the cause of that call, Fgets and Inet_pton apart, unless
\* a handler ran in between (csapp.c:9-42, csapp.c:50-901).
THEOREM FailureIsToldHolds == CallSpec => []FailureIsTold
<1>1. CallInit => CallInv
  BY NoMessageIsNoError DEF CallInit, CallInv, FailureIsTold, Errors
<1>2. CallInv /\ [CallNext]_callVars => CallInv'
  <2>1. CallInv /\ UNCHANGED callVars => CallInv'
    BY DEF CallInv, FailureIsTold, GaveResult, callVars
  <2> QED BY <2>1, CallWrappedKeeps, HandlerRunsKeeps, GoesOnKeeps, TellsKeeps DEF CallNext
<1>3. CallInv => FailureIsTold
  BY DEF CallInv
<1> QED BY <1>1, <1>2, <1>3, PTL DEF CallSpec
-----------------------------------------------------------------------------
(* FtpTransfer for every file size and every MAXLINE, when each read() of  *)
(* the client returns a whole chunk: the protocol is then stop-and-wait,   *)
(* and neither timeouts nor crashes of either side spoil the client's copy *)
(* or the recorded offset.                                                 *)


\* The slave has a socket exactly while it serves a client.
SocketInv == link = "none" <=> spc \in {"idle", "dead"}

\* An EXIT integer is the last thing a client sends.
ExitInv == exits > 0 => link \notin {"open", "gone"}

\* An unread OK is the answer to the chunk the slave is waiting for.
AckInv == link # "none" => /\ acks \in {0, 1}
                           /\ acks > 0 => spc = "await"

\* What the slave may conclude from the answers it has got.
SentInv ==
    link \in {"open", "gone"} =>
        /\ spc = "loop" => Holds(nb)
        /\ spc = "await" => Holds(nb - MaxLine) /\ (acks > 0 => Holds(nb))

\* A client in the transfer has the prefix cnb and the rest is on its way.
RecvInv ==
    cpc = "recv" =>
        /\ cnb + wire = nb
        /\ wire <= MaxLine
        /\ Holds(cnb)
        /\ link \in {"none", "open"}

\* Stop-and-wait: one chunk or its acknowledgement is in flight, never both.
LockStepInv ==
    (cpc = "recv" /\ link = "open") =>
        /\ spc \in {"loop", "await", "session"}
        /\ spc = "loop" => wire = 0
        /\ spc = "await" => \/ acks = 1 /\ wire = 0
                            \/ acks = 0 /\ wire > 0
        /\ spc = "session" => wire = 0 /\ nb = Size

\* An open connection has a client at its other end.
OpenInv == link = "open" => cpc # "out"

\* A client back at its prompt has read everything.
PromptInv ==
    (cpc = "prompt" /\ link = "open") =>
        /\ wire = 0
        /\ spc \in {"loop", "await"} => nb = Size /\ Holds(Size)

IInv ==
    /\ TypeOK
    /\ SocketInv /\ ExitInv /\ AckInv /\ SentInv
    /\ RecvInv /\ LockStepInv /\ OpenInv /\ PromptInv
    /\ ResumeOffsetSafe

USE SizesAssumption, FragmentAssumption, FaultsAssumption

-----------------------------------------------------------------------------
\* The slave never reads more than MAXLINE bytes nor beyond the end of its file
\* (slave.c:449).
LEMMA ChunkBounds ==
    ASSUME NEW n \in 0 .. Size, n < Size
    PROVE  /\ Chunk(n) \in 1 .. MaxLine
           /\ n + Chunk(n) \in 1 .. Size
           /\ n + Chunk(n) - MaxLine <= n
BY DEF Chunk, Least

\* The initial state satisfies the inductive invariant (slave.c:60-77).
LEMMA InitIInv == Init => IInv
<1> SUFFICES ASSUME Init PROVE IInv
  OBVIOUS
<1> USE DEF Init
<1>1. TypeOK
  BY DEF TypeOK, SlavePlaces, ClientPlaces, Links, Offsets, NoRec, Unwritten
<1>2. SocketInv /\ ExitInv /\ AckInv /\ SentInv /\ RecvInv
  BY DEF SocketInv, ExitInv, AckInv, SentInv, RecvInv
<1>3. LockStepInv /\ OpenInv /\ PromptInv /\ ResumeOffsetSafe
  BY DEF LockStepInv, OpenInv, PromptInv, ResumeOffsetSafe
<1> QED
  BY <1>1, <1>2, <1>3 DEF IInv

\* A step of the slave keeps the inductive invariant (slave.c:440-487).
LEMMA SlaveStepIInv ==
    ASSUME IInv, SlaveStep, ~Fragment
    PROVE  IInv'
<1> USE DEF IInv, TypeOK, SocketInv, ExitInv, AckInv, SentInv, RecvInv,
            LockStepInv, OpenInv, PromptInv, ResumeOffsetSafe, SlavePlaces,
            ClientPlaces, Links, Offsets, NoRec, Unwritten, Holds, Readable,
            Closed
<1>1. CASE SlaveSend
  <2> USE <1>1 DEF SlaveSend
  <2>1. nb < Size /\ Chunk(nb) \in 1 .. MaxLine /\ nb + Chunk(nb) \in 1 .. Size
        /\ nb + Chunk(nb) - MaxLine <= nb
    BY ChunkBounds
  <2>2. TypeOK'
    BY <2>1
  <2>3. SentInv'
    BY <2>1
  <2>4. RecvInv' /\ LockStepInv' /\ OpenInv' /\ PromptInv'
    BY <2>1
  <2>5. SocketInv' /\ ExitInv' /\ AckInv' /\ ResumeOffsetSafe'
    OBVIOUS
  <2> QED
    BY <2>2, <2>3, <2>4, <2>5
<1>2. CASE SlaveAck
  <2> USE <1>2 DEF SlaveAck
  <2>1. TypeOK'
    OBVIOUS
  <2>2. SentInv'
    OBVIOUS
  <2>3. RecvInv' /\ LockStepInv' /\ OpenInv' /\ PromptInv'
    OBVIOUS
  <2>4. SocketInv' /\ ExitInv' /\ AckInv' /\ ResumeOffsetSafe'
    OBVIOUS
  <2> QED
    BY <2>1, <2>2, <2>3, <2>4
<1>3. CASE SlaveTimeout
  BY <1>3 DEF SlaveTimeout, ReportedOffset
<1>4. CASE SlaveFinish
  BY <1>4 DEF SlaveFinish
<1>5. CASE SlaveEndSession
  BY <1>5 DEF SlaveEndSession
<1>6. CASE SlaveSpin
  BY <1>6 DEF SlaveSpin
<1> QED
  BY <1>1, <1>2, <1>3, <1>4, <1>5, <1>6 DEF SlaveStep, SlaveTransferStep

\* Reading correctly placed bytes leaves every correct prefix correct and
\* extends the one that ends at the client's offset (client.c:347-349).
LEMMA ReadExtends ==
    ASSUME IInv, ClientRead, ~Fragment
    PROVE  /\ cnb' = cnb + Least(wire, MaxLine) /\ cnb' \in 1 .. Size
           /\ wire' = wire - Least(wire, MaxLine)
           /\ Least(wire, MaxLine) = wire
           /\ disk' \in [Offsets -> Offsets \cup {Unwritten}]
           /\ \A q \in 0 .. Size : Holds(q) => Holds(q)'
           /\ Holds(cnb)'
<1> DEFINE n == Least(wire, MaxLine)
<1> USE DEF IInv, TypeOK, RecvInv, Offsets, Unwritten
<1>1. /\ cpc = "recv" /\ wire > 0 /\ cnb + wire = nb
      /\ n = wire
  BY DEF ClientRead, Least
<1>2. /\ cnb' = cnb + n /\ wire' = wire - n
      /\ disk' = [p \in Offsets |->
                    IF p \in cnb .. cnb + n - 1
                    THEN p - cnb + (nb - wire) ELSE disk[p]]
  BY DEF ClientRead
<1>3. disk' = [p \in Offsets |->
                    IF p \in cnb .. cnb + n - 1 THEN p ELSE disk[p]]
  <2>1. \A p \in Offsets : p - cnb + (nb - wire) = p
    BY <1>1
  <2> QED
    BY <1>2, <2>1
<1>4. cnb' \in 1 .. Size
  BY <1>1, <1>2
<1>5. disk' \in [Offsets -> Offsets \cup {Unwritten}]
  BY <1>3
<1>6. \A q \in 0 .. Size : Holds(q) => Holds(q)'
  BY <1>3 DEF Holds
<1>7. Holds(cnb)'
  BY <1>1, <1>2, <1>3, <1>4 DEF Holds
<1> QED
  BY <1>1, <1>2, <1>4, <1>5, <1>6, <1>7

\* A step of the client, or of its host, keeps the inductive invariant
\* (client.c:335-372).
LEMMA ClientStepIInv ==
    ASSUME IInv, ~Fragment,
           \/ ClientTransferStep
           \/ ClientQuit \/ ClientKilled \/ ClientVanish
    PROVE  IInv'
<1> USE DEF IInv, TypeOK, SocketInv, ExitInv, AckInv, SentInv, RecvInv,
            LockStepInv, OpenInv, PromptInv, ResumeOffsetSafe, SlavePlaces,
            ClientPlaces, Links, Offsets, NoRec, Unwritten
<1>1. CASE ClientRead
  <2>1. /\ cpc = "recv" /\ wire > 0 /\ wire' = 0 /\ cnb' = nb
        /\ acks' = IF link = "open" THEN acks + 1 ELSE acks
        /\ UNCHANGED <<spc, nb, exits, link, cpc, rec>>
    BY <1>1, ReadExtends DEF ClientRead
  <2>2. TypeOK'
    BY <1>1, <2>1, ReadExtends
  <2>3. SentInv'
    <3>1. \A p \in 0 .. nb - 1 : disk'[p] = p
      BY <1>1, <2>1, ReadExtends DEF Holds
    <3>2. Holds(nb)' /\ Holds(nb - MaxLine)'
      BY <2>1, <3>1 DEF Holds
    <3>3. link = "open" => spc \in {"await", "loop", "session"} /\ spc # "loop"
      BY <2>1
    <3> QED
      BY <2>1, <3>2, <3>3
  <2>4. RecvInv' /\ LockStepInv' /\ OpenInv' /\ PromptInv'
    BY <1>1, <2>1, ReadExtends
  <2>5. SocketInv' /\ ExitInv' /\ AckInv'
    BY <2>1
  <2>6. ResumeOffsetSafe'
    BY <1>1, <2>1, ReadExtends
  <2> QED
    BY <2>2, <2>3, <2>4, <2>5, <2>6
<1>2. CASE ClientDone
  BY <1>2 DEF ClientDone, Holds
<1>3. ASSUME NEW n \in {0, 1}, Leave(n), cpc # "out"
      PROVE  IInv'
  BY <1>3 DEF Leave, Holds
<1>4. CASE ClientVanish
  BY <1>4 DEF ClientVanish, Holds
<1> QED
  BY <1>1, <1>2, <1>3, <1>4
     DEF ClientTransferStep, ClientEof, ClientTimeout, ClientQuit, ClientKilled

\* Every step keeps the inductive invariant.
LEMMA NextIInv ==
    ASSUME IInv, [Next]_vars, ~Fragment
    PROVE  IInv'
<1> USE DEF IInv, TypeOK, SocketInv, ExitInv, AckInv, SentInv, RecvInv,
            LockStepInv, OpenInv, PromptInv, ResumeOffsetSafe, SlavePlaces,
            ClientPlaces, Links, Offsets, NoRec, Unwritten, Holds
<1>1. CASE Connect
  BY <1>1 DEF Connect
<1>2. CASE Resume
  BY <1>2 DEF Resume, Seek
<1>3. CASE ResumeAborted
  BY <1>3 DEF ResumeAborted
<1>4. CASE GetFile
  BY <1>4 DEF GetFile
<1>5. CASE UNCHANGED vars
  BY <1>5 DEF vars
<1> QED
  BY <1>1, <1>2, <1>3, <1>4, <1>5, SlaveStepIInv, ClientStepIInv
     DEF Next, SlaveStep, SlaveTransferStep, ClientTransferStep

-----------------------------------------------------------------------------
\* Every reachable state satisfies the inductive invariant.
THEOREM TransferInvariant == ~Fragment /\ Spec => []IInv
<1> SUFFICES ASSUME ~Fragment PROVE Spec => []IInv
  OBVIOUS
<1>1. Init => IInv
  BY InitIInv
<1>2. IInv /\ [Next]_vars => IInv'
  BY NextIInv
<1> QED
  BY <1>1, <1>2, PTL DEF Spec

\* Type correctness of the transfer, for every file size and MAXLINE.
THEOREM TransferTypeOK == ~Fragment /\ Spec => []TypeOK
<1>1. IInv => TypeOK
  BY DEF IInv
<1> QED
  BY <1>1, TransferInvariant, PTL

\* The offset the slave reports to the master is never beyond what the client
\* has on its disk, whoever crashed or timed out before (slave.c:470-473).
THEOREM TransferResumeOffsetSafe == ~Fragment /\ Spec => []ResumeOffsetSafe
<1>1. IInv => ResumeOffsetSafe
  BY DEF IInv
<1> QED
  BY <1>1, TransferInvariant, PTL

\* A client that announces success has the server's file (client.c:361-364).
THEOREM TransferFileIntegrity == ~Fragment /\ Spec => []FileIntegrity
<1>1. IInv => FileIntegrity
  BY DEF IInv, FileIntegrity, RecvInv, TypeOK, Holds
<1> QED
  BY <1>1, TransferInvariant, PTL

\* No OK is left in the connection for the command loop (slave.c:117).
THEOREM TransferNoStrayAck == ~Fragment /\ Spec => []NoStrayAck
<1>1. IInv => NoStrayAck
  BY DEF IInv, NoStrayAck, AckInv, SocketInv, TypeOK
<1> QED
  BY <1>1, TransferInvariant, PTL

-----------------------------------------------------------------------------
\* The slave announces a success (slave.c:482) only to a client that has the
\* whole file or has closed its connection, whatever the faults.
THEOREM TransferSuccessMeansDelivered ==
    ~Fragment /\ Spec => SuccessMeansDelivered
<1> SUFFICES ASSUME ~Fragment PROVE Spec => SuccessMeansDelivered
  OBVIOUS
<1>1. IInv /\ [Next]_vars
      => [(spc = "loop" /\ spc' = "session") => Holds(Size) \/ Closed]_vars
  <2> SUFFICES ASSUME IInv, Next, spc = "loop", spc' = "session"
               PROVE  Holds(Size) \/ Closed
    BY DEF vars
  <2>1. SlaveFinish
    BY DEF Next, Connect, Resume, ResumeAborted, GetFile, SlaveSend, SlaveAck,
           SlaveTimeout, SlaveEndSession, SlaveSpin, ClientRead, ClientDone,
           ClientEof, ClientTimeout, ClientQuit, ClientKilled, ClientVanish,
           Leave
  <2>2. nb = Size /\ link \in {"open", "gone", "fin", "rst"}
    BY <2>1, SizesAssumption
       DEF SlaveFinish, IInv, TypeOK, SocketInv, Links
  <2> QED
    BY <2>2 DEF IInv, SentInv, Closed
<1>2. Spec => []IInv
  BY TransferInvariant
<1> QED
  BY <1>1, <1>2, PTL DEF Spec, SuccessMeansDelivered
==============================================================================
