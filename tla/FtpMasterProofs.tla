-------------------------- MODULE FtpMasterProofs --------------------------
(***************************************************************************)
(* Proofs about FtpMaster, for any number of slaves and clients.           *)
(*                                                                         *)
(* What is between the dispatcher and one slave decides what the           *)
(* dispatcher's busy[] says of that slave, so the inductive invariant is   *)
(* the table of what can be in the two directions of that slave's socket   *)
(* at each of the points where the two processes block.                    *)
(***************************************************************************)
EXTENDS FtpMaster, SequenceTheorems, WellFoundedInduction, TLAPS

Reg == {"reg_ip", "reg_bytes", "reg_name"}
Waits == {"wait_ok", "wait_ok2", "wait_ok3"}
Stages == {"select", "scan", "dead"} \cup Reg \cup Waits
Places ==
    { "idle", "connect", "wait_info", "rcv_name", "rcv_bytes", "resume",
      "session", "rep1", "rep2", "rep3", "spin", "dead", "reset" }

\* One message is in this direction of the socket.
One(q) == q # <<>> /\ q = <<Head(q)>>

\* Nothing to read but, after the report of a resumed transfer, the second
\* CRASHED, which the dispatcher has not read yet.
Fresh == {<<>>, <<"CRASHED">>}

\* The slave waits for the next client.
Free(i) == sp[i] = "idle" /\ m2s[i] = <<>> /\ s2m[i] \in Fresh

\* The slave was given a client and the dispatcher does not talk to it: one
\* row for every place where the slave may block.  Its OK may be unread.
Over == { <<>>, <<"OK">>, <<"FINISHED">>, <<"OK", "FINISHED">>, <<"CRASHED">>,
          <<"OK", "CRASHED">>, <<"CRASHED", "CRASHED">>,
          <<"OK", "CRASHED", "CRASHED">> }

Busy(i) ==
    \/ sp[i] = "idle" /\ m2s[i] = <<>> /\ s2m[i] \in Over
    \/ sp[i] \in {"idle", "rcv_bytes"} /\ One(m2s[i]) /\ s2m[i] = <<>>
    \/ sp[i] = "wait_info" /\ m2s[i] = <<"DEFAULT">> /\ s2m[i] = <<>>
    \/ sp[i] = "connect" /\ m2s[i] = <<>> /\ s2m[i] = <<>>
    \/ /\ sp[i] \in {"wait_info", "resume", "session", "spin"}
       /\ m2s[i] = <<>> /\ s2m[i] \in {<<>>, <<"OK">>}
    \/ /\ sp[i] = "rep1" /\ m2s[i] = <<>>
       /\ s2m[i] \in {<<"DURING">>, <<"OK", "DURING">>}

\* The dispatcher waits for the answer to the address ...
AsksClient(i) ==
    \/ sp[i] = "idle" /\ One(m2s[i]) /\ s2m[i] \in Fresh
    \/ sp[i] = "connect" /\ m2s[i] = <<>> /\ s2m[i] \in Fresh
    \/ /\ sp[i] = "wait_info" /\ m2s[i] = <<>>
       /\ s2m[i] \in {<<"OK">>, <<"CRASHED", "OK">>}

\* ... to CRASHED ...
AsksResume(i) ==
    \/ sp[i] = "wait_info" /\ m2s[i] = <<"CRASHED">> /\ s2m[i] = <<>>
    \/ sp[i] = "rcv_name" /\ m2s[i] = <<>> /\ s2m[i] = <<"OK">>

\* ... or to the name of the file.
AsksName(i) ==
    \/ sp[i] = "rcv_name" /\ One(m2s[i]) /\ s2m[i] = <<>>
    \/ sp[i] = "rcv_bytes" /\ m2s[i] = <<>> /\ s2m[i] = <<"OK">>

\* The dispatcher waits for the next part of a report: after is where the
\* slave blocks once it has sent it, before where it waits for the OK.
Reports(i, before, after, part) ==
    \/ sp[i] = before /\ m2s[i] = <<"OK">> /\ s2m[i] = <<>>
    \/ sp[i] = after /\ m2s[i] = <<>> /\ part

LastPart(q) == q \in {<<"name">>, <<"name", "CRASHED">>}

\* The slave the dispatcher is waiting for.
Engaged(i) == id = i /\ dpc \in Reg \cup Waits

Matched(i) ==
    /\ ~ Engaged(i) => (busy[i] = 0 /\ Free(i)) \/ (busy[i] = 1 /\ Busy(i))
    /\ id = i =>
          /\ dpc \in Waits => busy[i] = 1
          /\ dpc \in Reg => busy[i] = 0
          /\ dpc = "wait_ok" => AsksClient(i)
          /\ dpc = "wait_ok2" => AsksResume(i)
          /\ dpc = "wait_ok3" => AsksName(i)
          /\ dpc = "reg_ip" => Reports(i, "rep1", "rep2", One(s2m[i]))
          /\ dpc = "reg_bytes" => Reports(i, "rep2", "rep3", One(s2m[i]))
          /\ dpc = "reg_name" => Reports(i, "rep3", "idle", LastPart(s2m[i]))

Types ==
    /\ dpc \in Stages
    /\ todo \subseteq Slaves
    /\ id \in Slaves
    /\ busy \in [Slaves -> {0, 1}]
    /\ sp \in [Slaves -> Places]
    /\ m2s = [i \in Slaves |-> m2s[i]]
    /\ s2m = [i \in Slaves |-> s2m[i]]
    /\ conn \in [Clients -> Slaves \cup {NoSlave}]

\* A slave of todo still has the bytes select() found, or is dead, and the one
\* whose report is being read is not in it.
ScanSound ==
    dpc \in {"scan"} \cup Reg =>
        /\ \A i \in todo : Alive(i) => s2m[i] # <<>>
        /\ dpc \in Reg => id \notin todo

AllMatched == dpc # "dead" => \A i \in Slaves : Alive(i) => Matched(i)

SocketInv == Types /\ ScanSound /\ AllMatched

-----------------------------------------------------------------------------
(* Short sequences.                                                        *)

LEMMA TwoIsConcat ==
    ASSUME NEW x, NEW y
    PROVE  <<x>> \o <<y>> = <<x, y>>
<1> DEFINE S == {x, y}
           c == <<x>> \o <<y>>
<1>1. <<x>> \in Seq(S) /\ <<y>> \in Seq(S) /\ <<x, y>> \in Seq(S)
  OBVIOUS
<1>2. Len(<<x>>) = 1 /\ Len(<<y>>) = 1 /\ Len(<<x, y>>) = 2
  OBVIOUS
<1> HIDE DEF S
<1>3. c \in Seq(S) /\ Len(c) = 2 /\ c[1] = x /\ c[2] = y
  BY <1>1, <1>2, ConcatProperties
<1> HIDE DEF c
<1>4. \A i \in 1 .. Len(c) : c[i] = <<x, y>>[i]
  BY <1>3
<1>5. c = <<x, y>>
  BY <1>1, <1>2, <1>3, <1>4, SeqEqual
<1> QED BY <1>5 DEF c

LEMMA ThreeIsConcat ==
    ASSUME NEW x, NEW y, NEW z
    PROVE  <<x>> \o <<y, z>> = <<x, y, z>>
<1> DEFINE S == {x, y, z}
           c == <<x>> \o <<y, z>>
<1>1. <<x>> \in Seq(S) /\ <<y, z>> \in Seq(S) /\ <<x, y, z>> \in Seq(S)
  OBVIOUS
<1>2. Len(<<x>>) = 1 /\ Len(<<y, z>>) = 2 /\ Len(<<x, y, z>>) = 3
  OBVIOUS
<1> HIDE DEF S
<1>3. c \in Seq(S) /\ Len(c) = 3 /\ c[1] = x /\ c[2] = y /\ c[3] = z
  BY <1>1, <1>2, ConcatProperties
<1> HIDE DEF c
<1>4. \A i \in 1 .. Len(c) : c[i] = <<x, y, z>>[i]
  BY <1>3
<1>5. c = <<x, y, z>>
  BY <1>1, <1>2, <1>3, <1>4, SeqEqual
<1> QED BY <1>5 DEF c

\* What a slave's answers leave in its socket.
LEMMA Told ==
    /\ \A m : <<>> \o <<m>> = <<m>>
    /\ <<>> \o <<"CRASHED", "CRASHED">> = <<"CRASHED", "CRASHED">>
    /\ <<>> \o <<"name", "CRASHED">> = <<"name", "CRASHED">>
    /\ <<"CRASHED">> \o <<"OK">> = <<"CRASHED", "OK">>
    /\ <<"OK">> \o <<"DURING">> = <<"OK", "DURING">>
    /\ <<"OK">> \o <<"FINISHED">> = <<"OK", "FINISHED">>
    /\ <<"OK">> \o <<"CRASHED">> = <<"OK", "CRASHED">>
    /\ <<"OK">> \o <<"CRASHED", "CRASHED">> = <<"OK", "CRASHED", "CRASHED">>
<1>1. \A m : <<>> \o <<m>> = <<m>>
  OBVIOUS
<1>2. /\ <<>> \o <<"CRASHED", "CRASHED">> = <<"CRASHED", "CRASHED">>
      /\ <<>> \o <<"name", "CRASHED">> = <<"name", "CRASHED">>
  OBVIOUS
<1> QED BY <1>1, <1>2, TwoIsConcat, ThreeIsConcat

\* What a read leaves there, and what it returns.
LEMMA ReadOff ==
    /\ \A m : Head(<<m>>) = m /\ Tail(<<m>>) = <<>>
    /\ \A m, n : Head(<<m, n>>) = m /\ Tail(<<m, n>>) = <<n>>
    /\ Head(<<"OK", "CRASHED", "CRASHED">>) = "OK"
    /\ Tail(<<"OK", "CRASHED", "CRASHED">>) = <<"CRASHED", "CRASHED">>
    /\ \A m : Append(<<>>, m) = <<m>> /\ <<m>> # <<>>
  OBVIOUS

-----------------------------------------------------------------------------
(* The first element of a set of numbers.                                  *)

LEMMA LeastElement ==
    ASSUME NEW S, S \subseteq Nat, S # {}
    PROVE  \E x \in S : \A y \in S : x <= y
<1>1. \E x \in S : \A y \in S : <<y, x>> \notin OpToRel(<, Nat)
  BY NatLessThanWellFounded, WFMin
<1>2. ASSUME NEW x \in S, NEW y \in S, <<y, x>> \notin OpToRel(<, Nat) PROVE x <= y
  <2>1. x \in Nat /\ y \in Nat
    OBVIOUS
  <2>2. ~ (y < x)
    BY <1>2, <2>1 DEF OpToRel
  <2> QED BY <2>1, <2>2
<1> QED BY <1>1, <1>2

\* slave_not_busy() finds a slave that is not busy, if there is one.
LEMMA FirstNotBusy ==
    ASSUME busy \in [Slaves -> {0, 1}], slave_not_busy # -1
    PROVE  slave_not_busy \in Slaves /\ busy[slave_not_busy] = 0
<1> DEFINE Idle == {i \in Slaves : busy[i] = 0}
<1>1. Slaves \subseteq Nat /\ \A i \in Slaves : 0 .. i - 1 \subseteq Slaves
  BY MasterAssumption DEF Slaves
<1>2. Idle # {} /\ Idle \subseteq Nat
  BY <1>1 DEF slave_not_busy
<1>3. PICK i \in Idle : \A j \in Idle : i <= j
  BY <1>2, LeastElement
<1>4. \A j \in 0 .. i - 1 : busy[j] = 1
  <2> SUFFICES ASSUME NEW j \in 0 .. i - 1, busy[j] # 1 PROVE FALSE
    OBVIOUS
  <2>1. j \in Slaves
    BY <1>1
  <2>2. j \in Idle
    BY <2>1
  <2> QED BY <1>1, <1>3, <2>2
<1>5. \E k \in Slaves : busy[k] = 0 /\ \A j \in 0 .. k - 1 : busy[j] = 1
  BY <1>3, <1>4
<1>6. slave_not_busy =
        CHOOSE k \in Slaves : busy[k] = 0 /\ \A j \in 0 .. k - 1 : busy[j] = 1
  BY <1>2 DEF slave_not_busy
<1> HIDE DEF Idle
<1> QED BY <1>5, <1>6

\* The scan reads a slave that select() found readable.
LEMMA FirstToScan ==
    ASSUME todo \subseteq Slaves, todo # {}
    PROVE  (CHOOSE j \in todo : \A k \in todo : j <= k) \in todo
<1>1. todo \subseteq Nat
  BY MasterAssumption DEF Slaves
<1> QED BY <1>1, LeastElement

-----------------------------------------------------------------------------
(* The invariant holds initially.                                          *)

LEMMA SocketInvInit == Init => SocketInv
<1> SUFFICES ASSUME Init PROVE SocketInv
  OBVIOUS
<1>1. Types
  BY MasterAssumption DEF Init, Types, Stages, Places, Slaves
<1>2. ScanSound
  BY DEF Init, ScanSound, Reg
<1>3. ASSUME NEW i \in Slaves PROVE Matched(i)
  BY <1>3 DEF Init, Matched, Engaged, Free, Fresh, Reg, Waits
<1> QED BY <1>1, <1>2, <1>3 DEF SocketInv, AllMatched

-----------------------------------------------------------------------------
(* Frames: what a step that talks to one slave must show.                  *)

\* Nothing of the other slaves' sockets changes.
Apart(i) ==
    \A j \in Slaves \ {i} :
        sp'[j] = sp[j] /\ m2s'[j] = m2s[j] /\ s2m'[j] = s2m[j] /\ busy'[j] = busy[j]

LEMMA OneSlaveMoves ==
    ASSUME SocketInv, NEW i \in Slaves, Apart(i), dpc # "dead",
           \A j \in Slaves \ {i} : ~ Engaged(j) /\ ~ Engaged(j)',
           Types', ScanSound', dpc' # "dead" /\ Alive(i)' => Matched(i)'
    PROVE  SocketInv'
<1> SUFFICES ASSUME dpc' # "dead", NEW j \in Slaves, Alive(j)' PROVE Matched(j)'
  BY DEF SocketInv, AllMatched
<1>1. CASE j = i
  BY <1>1
<1>2. CASE j # i
  <2>1. ~ Engaged(j) /\ ~ Engaged(j)' /\ Alive(j)
    BY <1>2 DEF Apart, Alive
  <2>2. (busy[j] = 0 /\ Free(j)) \/ (busy[j] = 1 /\ Busy(j))
    BY <2>1 DEF SocketInv, AllMatched, Matched
  <2>3. ((busy[j] = 0 /\ Free(j)) \/ (busy[j] = 1 /\ Busy(j)))'
    BY <1>2, <2>2 DEF Apart, Free, Busy
  <2>4. id' = j => dpc' \notin Reg \cup Waits
    BY <2>1 DEF Engaged
  <2> QED BY <2>3, <2>4 DEF Matched, Reg, Waits
<1> QED BY <1>1, <1>2

\* The same when the dispatcher does not move.
LEMMA SlaveMoves ==
    ASSUME SocketInv, NEW s \in Slaves, Apart(s), Alive(s),
           UNCHANGED <<dpc, todo, id, busy>>, Types',
           dpc # "dead" /\ Alive(s)' => Matched(s)' /\ (s2m[s] # <<>> => s2m'[s] # <<>>)
    PROVE  SocketInv'
<1>1. ScanSound'
  <2> SUFFICES ASSUME dpc' \in {"scan"} \cup Reg
               PROVE  /\ \A i \in todo' : Alive(i)' => s2m'[i] # <<>>
                      /\ dpc' \in Reg => id' \notin todo'
    BY DEF ScanSound
  <2>1. /\ \A i \in todo : Alive(i) => s2m[i] # <<>>
        /\ dpc \in Reg => id \notin todo
    BY DEF SocketInv, ScanSound
  <2>2. \A i \in todo \ {s} : sp'[i] = sp[i] /\ s2m'[i] = s2m[i]
    BY DEF Apart, SocketInv, Types
  <2> QED BY <2>1, <2>2 DEF Alive, Reg
<1>2. ASSUME dpc' # "dead", NEW j \in Slaves \ {s}, Alive(j)' PROVE Matched(j)'
  <2>1. Matched(j)
    BY <1>2 DEF Apart, Alive, SocketInv, AllMatched
  <2> QED BY <1>2, <2>1 DEF Apart, Matched, Engaged, Free, Busy, AsksClient, AsksResume,
                            AsksName, Reports
<1> QED BY <1>1, <1>2 DEF SocketInv, AllMatched

\* Slave s goes from one place to another, reads and writes, alone.
Touches(s) ==
    /\ UNCHANGED <<dpc, todo, id, busy>>
    /\ sp[s] \notin {"dead", "reset"} /\ sp'[s] \in Places
    /\ sp' = [sp EXCEPT ![s] = sp'[s]]
    /\ m2s' = [m2s EXCEPT ![s] = m2s'[s]]
    /\ s2m' = [s2m EXCEPT ![s] = s2m'[s]]
    /\ conn' \in [Clients -> Slaves \cup {NoSlave}]

\* Its socket stays in the table, and nothing it has written is taken back.
Fits(s) == Matched(s)' /\ (s2m[s] # <<>> => s2m'[s] # <<>>)

LEMMA TouchesKeeps ==
    ASSUME SocketInv, NEW s \in Slaves, Touches(s),
           dpc # "dead" /\ Matched(s) /\ Alive(s)' => Fits(s)
    PROVE  SocketInv'
<1>1. /\ sp \in [Slaves -> Places]
      /\ m2s = [i \in Slaves |-> m2s[i]] /\ s2m = [i \in Slaves |-> s2m[i]]
  BY DEF SocketInv, Types
<1>2. Apart(s)
  BY <1>1 DEF Apart, Touches
<1>3. /\ sp' \in [Slaves -> Places]
      /\ m2s' = [i \in Slaves |-> m2s'[i]] /\ s2m' = [i \in Slaves |-> s2m'[i]]
  BY <1>1 DEF Touches
<1>4. Types'
  BY <1>3 DEF SocketInv, Types, Touches
<1>5. Alive(s) /\ UNCHANGED <<dpc, todo, id, busy>>
  BY DEF Touches, Alive
<1>6. dpc # "dead" => Matched(s)
  BY <1>5 DEF SocketInv, AllMatched
<1> QED BY <1>2, <1>4, <1>5, <1>6, SlaveMoves DEF Fits

-----------------------------------------------------------------------------
(* The steps of a slave.  Each lemma reads the row of the table the     *)
(* slave is in, and then the one it goes to.                               *)

LEMMA SlaveReadsIpKeeps ==
    ASSUME SocketInv, NEW s \in Slaves, SlaveReadsIp(s) PROVE SocketInv'
<1>1. /\ Touches(s) /\ m2s[s] # <<>> /\ sp[s] = "idle"
      /\ sp'[s] = "connect" /\ m2s'[s] = Tail(m2s[s]) /\ s2m'[s] = s2m[s]
  BY DEF SlaveReadsIp, Consumed, At, master, client, SocketInv, Types, Touches, Places
<1>2. ASSUME dpc # "dead", Matched(s), Alive(s)' PROVE Fits(s)
  <2>1. /\ One(m2s[s])
        /\ \/ ~ Engaged(s) /\ busy[s] = 1 /\ s2m[s] = <<>>
           \/ id = s /\ dpc = "wait_ok" /\ busy[s] = 1 /\ s2m[s] \in Fresh
    BY <1>1, <1>2 DEF Matched, Engaged, Reg, Waits, Free, Busy, AsksClient, AsksResume,
                     AsksName, Reports, LastPart
  <2>2. m2s'[s] = <<>>
    BY <1>1, <2>1, ReadOff DEF One
  <2> QED BY <1>1, <1>2, <2>1, <2>2, Told
          DEF Fits, Touches, Matched, Engaged, Reg, Waits, Busy, AsksClient
<1> QED BY <1>1, <1>2, TouchesKeeps

LEMMA SlaveConnectsKeeps ==
    ASSUME SocketInv, NEW s \in Slaves, SlaveConnects(s) PROVE SocketInv'
<1>1. /\ Touches(s) /\ sp[s] = "connect"
      /\ sp'[s] = "wait_info" /\ m2s'[s] = m2s[s] /\ s2m'[s] = s2m[s] \o <<"OK">>
  BY DEF SlaveConnects, Tell, At, master, client, SocketInv, Types, Touches, Places
<1>2. ASSUME dpc # "dead", Matched(s), Alive(s)' PROVE Fits(s)
  <2>1. /\ m2s[s] = <<>>
        /\ \/ ~ Engaged(s) /\ busy[s] = 1 /\ s2m[s] = <<>>
           \/ id = s /\ dpc = "wait_ok" /\ busy[s] = 1 /\ s2m[s] \in Fresh
    BY <1>1, <1>2 DEF Matched, Engaged, Reg, Waits, Free, Busy, AsksClient, AsksResume,
                     AsksName, Reports, LastPart
  <2>2. /\ s2m[s] = <<>> => s2m'[s] = <<"OK">>
        /\ s2m[s] \in Fresh => s2m'[s] \in {<<"OK">>, <<"CRASHED", "OK">>}
    BY <1>1, <2>1, Told DEF Fresh
  <2> QED BY <1>1, <1>2, <2>1, <2>2
          DEF Fits, Touches, Matched, Engaged, Reg, Waits, Busy, AsksClient
<1> QED BY <1>1, <1>2, TouchesKeeps

LEMMA SlaveDefaultKeeps ==
    ASSUME SocketInv, NEW s \in Slaves, SlaveDefault(s) PROVE SocketInv'
<1>1. /\ Touches(s) /\ sp[s] = "wait_info" /\ Hears(s, "DEFAULT")
      /\ sp'[s] = "session" /\ m2s'[s] = Tail(m2s[s]) /\ s2m'[s] = s2m[s] \o <<"OK">>
  BY DEF SlaveDefault, Consumed, Tell, At, master, SocketInv, Types, Touches, Places
<1>2. ASSUME dpc # "dead", Matched(s), Alive(s)' PROVE Fits(s)
  <2>1. ~ Engaged(s) /\ busy[s] = 1 /\ m2s[s] = <<"DEFAULT">> /\ s2m[s] = <<>>
    BY <1>1, <1>2, ReadOff DEF Matched, Engaged, Reg, Waits, Free, Busy, AsksClient, AsksResume,
                     AsksName, Reports, LastPart, Hears
  <2>2. m2s'[s] = <<>>
    BY <1>1, <2>1, ReadOff DEF One
  <2> QED BY <1>1, <1>2, <2>1, <2>2, Told
          DEF Fits, Touches, Matched, Engaged, Reg, Waits, Busy
<1> QED BY <1>1, <1>2, TouchesKeeps

LEMMA SlaveCrashedKeeps ==
    ASSUME SocketInv, NEW s \in Slaves, SlaveCrashed(s) PROVE SocketInv'
<1>1. /\ Touches(s) /\ sp[s] = "wait_info" /\ Hears(s, "CRASHED")
      /\ sp'[s] = "rcv_name" /\ m2s'[s] = Tail(m2s[s]) /\ s2m'[s] = s2m[s] \o <<"OK">>
  BY DEF SlaveCrashed, Consumed, Tell, At, master, client, SocketInv, Types, Touches, Places
<1>2. ASSUME dpc # "dead", Matched(s), Alive(s)' PROVE Fits(s)
  <2>1. /\ id = s /\ dpc = "wait_ok2" /\ busy[s] = 1
        /\ m2s[s] = <<"CRASHED">> /\ s2m[s] = <<>>
    BY <1>1, <1>2, ReadOff DEF Matched, Engaged, Reg, Waits, Free, Busy, AsksClient, AsksResume,
                     AsksName, Reports, LastPart, Hears
  <2>2. m2s'[s] = <<>>
    BY <1>1, <2>1, ReadOff DEF One
  <2> QED BY <1>1, <1>2, <2>1, <2>2, Told
          DEF Fits, Touches, Matched, Engaged, Reg, Waits, AsksResume
<1> QED BY <1>1, <1>2, TouchesKeeps

LEMMA SlaveNameKeeps ==
    ASSUME SocketInv, NEW s \in Slaves, SlaveName(s) PROVE SocketInv'
<1>1. /\ Touches(s) /\ sp[s] = "rcv_name" /\ m2s[s] # <<>>
      /\ sp'[s] = "rcv_bytes" /\ m2s'[s] = Tail(m2s[s]) /\ s2m'[s] = s2m[s] \o <<"OK">>
  BY DEF SlaveName, Consumed, Tell, At, master, client, SocketInv, Types, Touches, Places
<1>2. ASSUME dpc # "dead", Matched(s), Alive(s)' PROVE Fits(s)
  <2>1. /\ id = s /\ dpc = "wait_ok3" /\ busy[s] = 1
        /\ One(m2s[s]) /\ s2m[s] = <<>>
    BY <1>1, <1>2 DEF Matched, Engaged, Reg, Waits, Free, Busy, AsksClient, AsksResume,
                     AsksName, Reports, LastPart
  <2>2. m2s'[s] = <<>>
    BY <1>1, <2>1, ReadOff DEF One
  <2> QED BY <1>1, <1>2, <2>1, <2>2, Told
          DEF Fits, Touches, Matched, Engaged, Reg, Waits, AsksName
<1> QED BY <1>1, <1>2, TouchesKeeps

LEMMA SlaveBytesKeeps ==
    ASSUME SocketInv, NEW s \in Slaves, SlaveBytes(s) PROVE SocketInv'
<1>1. /\ Touches(s) /\ sp[s] = "rcv_bytes" /\ m2s[s] # <<>>
      /\ sp'[s] = "resume" /\ m2s'[s] = Tail(m2s[s]) /\ s2m'[s] = s2m[s]
  BY DEF SlaveBytes, Consumed, At, master, client, SocketInv, Types, Touches, Places
<1>2. ASSUME dpc # "dead", Matched(s), Alive(s)' PROVE Fits(s)
  <2>1. ~ Engaged(s) /\ busy[s] = 1 /\ One(m2s[s]) /\ s2m[s] = <<>>
    BY <1>1, <1>2 DEF Matched, Engaged, Reg, Waits, Free, Busy, AsksClient, AsksResume,
                     AsksName, Reports, LastPart
  <2>2. m2s'[s] = <<>>
    BY <1>1, <2>1, ReadOff DEF One
  <2> QED BY <1>1, <1>2, <2>1, <2>2, Told
          DEF Fits, Touches, Matched, Engaged, Reg, Waits, Busy
<1> QED BY <1>1, <1>2, TouchesKeeps

LEMMA SlaveInfoTimeoutKeeps ==
    ASSUME SocketInv, NEW s \in Slaves, SlaveInfoTimeout(s) PROVE SocketInv'
<1>1. /\ Touches(s) /\ sp[s] = "wait_info" /\ m2s[s] = <<>> /\ ~ (dpc = "wait_ok" /\ id = s)
      /\ sp'[s] = "idle" /\ m2s'[s] = m2s[s] /\ s2m'[s] = s2m[s]
  BY DEF SlaveInfoTimeout, At, Unlinked, master, SocketInv, Types, Touches, Places
<1>2. ASSUME dpc # "dead", Matched(s), Alive(s)' PROVE Fits(s)
  <2>1. ~ Engaged(s) /\ busy[s] = 1 /\ m2s[s] = <<>> /\ s2m[s] \in {<<>>, <<"OK">>}
    BY <1>1, <1>2 DEF Matched, Engaged, Reg, Waits, Free, Busy, AsksClient, AsksResume,
                     AsksName, Reports, LastPart
  <2> QED BY <1>1, <1>2, <2>1, Told
          DEF Fits, Touches, Matched, Engaged, Reg, Waits, Busy, Over
<1> QED BY <1>1, <1>2, TouchesKeeps

LEMMA ResumeDoneKeeps ==
    ASSUME SocketInv, NEW s \in Slaves, ResumeDone(s) PROVE SocketInv'
<1>1. /\ Touches(s) /\ sp[s] = "resume"
      /\ sp'[s] = "session" /\ m2s'[s] = m2s[s] /\ s2m'[s] = s2m[s]
  BY DEF ResumeDone, At, master, SocketInv, Types, Touches, Places
<1>2. ASSUME dpc # "dead", Matched(s), Alive(s)' PROVE Fits(s)
  <2>1. ~ Engaged(s) /\ busy[s] = 1 /\ m2s[s] = <<>> /\ s2m[s] \in {<<>>, <<"OK">>}
    BY <1>1, <1>2 DEF Matched, Engaged, Reg, Waits, Free, Busy, AsksClient, AsksResume,
                     AsksName, Reports, LastPart
  <2> QED BY <1>1, <1>2, <2>1, Told
          DEF Fits, Touches, Matched, Engaged, Reg, Waits, Busy
<1> QED BY <1>1, <1>2, TouchesKeeps

LEMMA ResumeBrokenKeeps ==
    ASSUME SocketInv, NEW s \in Slaves, ResumeBroken(s) PROVE SocketInv'
<1>1. /\ Touches(s) /\ sp[s] = "resume"
      /\ sp'[s] \in {"spin", "dead"} /\ m2s'[s] = m2s[s] /\ s2m'[s] = s2m[s]
  BY DEF ResumeBroken, At, Unlinked, master, SocketInv, Types, Touches, Places
<1>2. ASSUME dpc # "dead", Matched(s), Alive(s)' PROVE Fits(s)
  <2>1. ~ Engaged(s) /\ busy[s] = 1 /\ m2s[s] = <<>> /\ s2m[s] \in {<<>>, <<"OK">>}
    BY <1>1, <1>2 DEF Matched, Engaged, Reg, Waits, Free, Busy, AsksClient, AsksResume,
                     AsksName, Reports, LastPart
  <2>2. sp'[s] = "spin"
    BY <1>1, <1>2 DEF Alive
  <2> QED BY <1>1, <1>2, <2>1, <2>2
          DEF Fits, Touches, Matched, Engaged, Reg, Waits, Busy
<1> QED BY <1>1, <1>2, TouchesKeeps

LEMMA ResumeFailsKeeps ==
    ASSUME SocketInv, NEW s \in Slaves, ResumeFails(s) PROVE SocketInv'
<1>1. /\ Touches(s) /\ sp[s] = "resume" /\ sp'[s] = "idle" /\ m2s'[s] = m2s[s]
      /\ \/ s2m'[s] = s2m[s] \o <<"CRASHED", "CRASHED">>
         \/ s2m'[s] = s2m[s] \o <<"CRASHED">>
  BY DEF ResumeFails, Tell, At, master, client, SocketInv, Types, Touches, Places
<1>2. ASSUME dpc # "dead", Matched(s), Alive(s)' PROVE Fits(s)
  <2>1. ~ Engaged(s) /\ busy[s] = 1 /\ m2s[s] = <<>> /\ s2m[s] \in {<<>>, <<"OK">>}
    BY <1>1, <1>2 DEF Matched, Engaged, Reg, Waits, Free, Busy, AsksClient, AsksResume,
                     AsksName, Reports, LastPart
  <2>2. s2m'[s] \in { <<"CRASHED">>, <<"OK", "CRASHED">>, <<"CRASHED", "CRASHED">>,
                      <<"OK", "CRASHED", "CRASHED">> }
    BY <1>1, <2>1, Told
  <2> QED BY <1>1, <1>2, <2>1, <2>2
          DEF Fits, Touches, Matched, Engaged, Reg, Waits, Busy, Over
<1> QED BY <1>1, <1>2, TouchesKeeps

LEMMA TransferCutKeeps ==
    ASSUME SocketInv, NEW s \in Slaves, TransferCut(s) PROVE SocketInv'
<1>1. /\ Touches(s) /\ sp[s] \in {"resume", "session"}
      /\ sp'[s] = "rep1" /\ m2s'[s] = m2s[s] /\ s2m'[s] = s2m[s] \o <<"DURING">>
  BY DEF TransferCut, Tell, At, master, client, SocketInv, Types, Touches, Places
<1>2. ASSUME dpc # "dead", Matched(s), Alive(s)' PROVE Fits(s)
  <2>1. ~ Engaged(s) /\ busy[s] = 1 /\ m2s[s] = <<>> /\ s2m[s] \in {<<>>, <<"OK">>}
    BY <1>1, <1>2 DEF Matched, Engaged, Reg, Waits, Free, Busy, AsksClient, AsksResume,
                     AsksName, Reports, LastPart
  <2>2. s2m'[s] \in {<<"DURING">>, <<"OK", "DURING">>}
    BY <1>1, <2>1, Told
  <2> QED BY <1>1, <1>2, <2>1, <2>2
          DEF Fits, Touches, Matched, Engaged, Reg, Waits, Busy
<1> QED BY <1>1, <1>2, TouchesKeeps

LEMMA ReportIpKeeps ==
    ASSUME SocketInv, NEW s \in Slaves, ReportIp(s) PROVE SocketInv'
<1>1. /\ Touches(s) /\ sp[s] = "rep1" /\ Hears(s, "OK")
      /\ sp'[s] = "rep2" /\ m2s'[s] = Tail(m2s[s]) /\ s2m'[s] = s2m[s] \o <<sc[s]>>
  BY DEF ReportIp, Consumed, Tell, At, master, client, SocketInv, Types, Touches, Places
<1>2. ASSUME dpc # "dead", Matched(s), Alive(s)' PROVE Fits(s)
  <2>1. /\ id = s /\ dpc = "reg_ip" /\ busy[s] = 0
        /\ m2s[s] = <<"OK">> /\ s2m[s] = <<>>
    BY <1>1, <1>2 DEF Matched, Engaged, Reg, Waits, Free, Busy, AsksClient, AsksResume,
                     AsksName, Reports, LastPart, Hears
  <2>2. m2s'[s] = <<>>
    BY <1>1, <2>1, ReadOff DEF One
  <2> QED BY <1>1, <1>2, <2>1, <2>2, Told, ReadOff
          DEF Fits, Touches, Matched, Engaged, Reg, Waits, Reports, One
<1> QED BY <1>1, <1>2, TouchesKeeps

LEMMA ReportBytesKeeps ==
    ASSUME SocketInv, NEW s \in Slaves, ReportBytes(s) PROVE SocketInv'
<1>1. /\ Touches(s) /\ sp[s] = "rep2" /\ Hears(s, "OK")
      /\ sp'[s] = "rep3" /\ m2s'[s] = Tail(m2s[s]) /\ s2m'[s] = s2m[s] \o <<"bytes">>
  BY DEF ReportBytes, Consumed, Tell, At, master, client, SocketInv, Types, Touches, Places
<1>2. ASSUME dpc # "dead", Matched(s), Alive(s)' PROVE Fits(s)
  <2>1. /\ id = s /\ dpc = "reg_bytes" /\ busy[s] = 0
        /\ m2s[s] = <<"OK">> /\ s2m[s] = <<>>
    BY <1>1, <1>2 DEF Matched, Engaged, Reg, Waits, Free, Busy, AsksClient, AsksResume,
                     AsksName, Reports, LastPart, Hears
  <2>2. m2s'[s] = <<>>
    BY <1>1, <2>1, ReadOff DEF One
  <2> QED BY <1>1, <1>2, <2>1, <2>2, Told, ReadOff
          DEF Fits, Touches, Matched, Engaged, Reg, Waits, Reports, One
<1> QED BY <1>1, <1>2, TouchesKeeps

LEMMA ReportNameKeeps ==
    ASSUME SocketInv, NEW s \in Slaves, ReportName(s) PROVE SocketInv'
<1>1. /\ Touches(s) /\ sp[s] = "rep3" /\ Hears(s, "OK")
      /\ sp'[s] = "idle" /\ m2s'[s] = Tail(m2s[s]) /\ s2m'[s] = s2m[s] \o EndOfReport(s)
  BY DEF ReportName, Consumed, Tell, At, master, client, SocketInv, Types, Touches, Places
<1>2. ASSUME dpc # "dead", Matched(s), Alive(s)' PROVE Fits(s)
  <2>1. /\ id = s /\ dpc = "reg_name" /\ busy[s] = 0
        /\ m2s[s] = <<"OK">> /\ s2m[s] = <<>>
    BY <1>1, <1>2 DEF Matched, Engaged, Reg, Waits, Free, Busy, AsksClient, AsksResume,
                     AsksName, Reports, LastPart, Hears
  <2>2. m2s'[s] = <<>>
    BY <1>1, <2>1, ReadOff DEF One
  <2> QED BY <1>1, <1>2, <2>1, <2>2, Told, ReadOff
          DEF Fits, Touches, Matched, Engaged, Reg, Waits, Reports, LastPart, EndOfReport
<1> QED BY <1>1, <1>2, TouchesKeeps

LEMMA SessionExitKeeps ==
    ASSUME SocketInv, NEW s \in Slaves, SessionExit(s) PROVE SocketInv'
<1>1. /\ Touches(s) /\ sp[s] = "session"
      /\ sp'[s] = "idle" /\ m2s'[s] = m2s[s] /\ s2m'[s] = s2m[s] \o <<"FINISHED">>
  BY DEF SessionExit, Tell, At, Unlinked, master, SocketInv, Types, Touches, Places
<1>2. ASSUME dpc # "dead", Matched(s), Alive(s)' PROVE Fits(s)
  <2>1. ~ Engaged(s) /\ busy[s] = 1 /\ m2s[s] = <<>> /\ s2m[s] \in {<<>>, <<"OK">>}
    BY <1>1, <1>2 DEF Matched, Engaged, Reg, Waits, Free, Busy, AsksClient, AsksResume,
                     AsksName, Reports, LastPart
  <2>2. s2m'[s] \in {<<"FINISHED">>, <<"OK", "FINISHED">>}
    BY <1>1, <2>1, Told
  <2> QED BY <1>1, <1>2, <2>1, <2>2
          DEF Fits, Touches, Matched, Engaged, Reg, Waits, Busy, Over
<1> QED BY <1>1, <1>2, TouchesKeeps

LEMMA SessionTimeoutKeeps ==
    ASSUME SocketInv, NEW s \in Slaves, SessionTimeout(s) PROVE SocketInv'
<1>1. /\ Touches(s) /\ sp[s] = "session"
      /\ sp'[s] = "idle" /\ m2s'[s] = m2s[s] /\ s2m'[s] = s2m[s] \o <<"CRASHED">>
  BY DEF SessionTimeout, Tell, At, Unlinked, master, SocketInv, Types, Touches, Places
<1>2. ASSUME dpc # "dead", Matched(s), Alive(s)' PROVE Fits(s)
  <2>1. ~ Engaged(s) /\ busy[s] = 1 /\ m2s[s] = <<>> /\ s2m[s] \in {<<>>, <<"OK">>}
    BY <1>1, <1>2 DEF Matched, Engaged, Reg, Waits, Free, Busy, AsksClient, AsksResume,
                     AsksName, Reports, LastPart
  <2>2. s2m'[s] \in {<<"CRASHED">>, <<"OK", "CRASHED">>}
    BY <1>1, <2>1, Told
  <2> QED BY <1>1, <1>2, <2>1, <2>2
          DEF Fits, Touches, Matched, Engaged, Reg, Waits, Busy, Over
<1> QED BY <1>1, <1>2, TouchesKeeps

LEMMA SessionRefusedKeeps ==
    ASSUME SocketInv, NEW s \in Slaves, SessionRefused(s) PROVE SocketInv'
<1>1. /\ Touches(s) /\ sp[s] = "session"
      /\ sp'[s] = "idle" /\ m2s'[s] = m2s[s] /\ s2m'[s] = s2m[s]
  BY DEF SessionRefused, At, Unlinked, master, SocketInv, Types, Touches, Places
<1>2. ASSUME dpc # "dead", Matched(s), Alive(s)' PROVE Fits(s)
  <2>1. ~ Engaged(s) /\ busy[s] = 1 /\ m2s[s] = <<>> /\ s2m[s] \in {<<>>, <<"OK">>}
    BY <1>1, <1>2 DEF Matched, Engaged, Reg, Waits, Free, Busy, AsksClient, AsksResume,
                     AsksName, Reports, LastPart
  <2> QED BY <1>1, <1>2, <2>1
          DEF Fits, Touches, Matched, Engaged, Reg, Waits, Busy, Over
<1> QED BY <1>1, <1>2, TouchesKeeps

\* A slave process that ends leaves the table.
LEMMA SlaveEndsKeeps ==
    ASSUME SocketInv, NEW s \in Slaves,
           \/ SlaveRefused(s) \/ ReportFails(s) \/ UploadCut(s) \/ SlaveDies(s)
           \/ MasterGone(s)
    PROVE  SocketInv'
<1>1. \E rest : Exit(s, rest)
  BY DEF SlaveRefused, ReportFails, UploadCut, SlaveDies, MasterGone
<1>2. Alive(s) /\ UNCHANGED <<master, s2m>>
  BY DEF SlaveRefused, ReportFails, UploadCut, SlaveDies, MasterGone, Alive
<1>3. sp'[s] \in {"dead", "reset"} /\ sp' = [sp EXCEPT ![s] = sp'[s]]
  BY <1>1 DEF Exit, SocketInv, Types
<1>4. Touches(s)
  BY <1>1, <1>2, <1>3 DEF Exit, Unlinked, SocketInv, Types, Touches, Places, master, Alive
<1> QED BY <1>3, <1>4, TouchesKeeps DEF Alive

LEMMA SlaveKeeps ==
    ASSUME SocketInv, NEW s \in Slaves,
           SlaveStep(s) \/ TransferCut(s) \/ SlaveDies(s) \/ MasterGone(s)
    PROVE  SocketInv'
  BY SlaveReadsIpKeeps, SlaveConnectsKeeps, SlaveDefaultKeeps, SlaveCrashedKeeps, SlaveNameKeeps,
     SlaveBytesKeeps, SlaveInfoTimeoutKeeps, ResumeDoneKeeps, ResumeBrokenKeeps,
     ResumeFailsKeeps, TransferCutKeeps, ReportIpKeeps, ReportBytesKeeps, ReportNameKeeps,
     SessionExitKeeps, SessionTimeoutKeeps, SessionRefusedKeeps, SlaveEndsKeeps DEF SlaveStep

-----------------------------------------------------------------------------
(* The steps of a client.                                                  *)

LEMMA SocketsStill ==
    ASSUME SocketInv, UNCHANGED <<dpc, todo, id, busy, sp, m2s, s2m>>,
           conn' \in [Clients -> Slaves \cup {NoSlave}]
    PROVE  SocketInv'
<1>1. Types' /\ ScanSound'
  BY DEF SocketInv, Types, ScanSound, Alive
<1>2. \A i \in Slaves : Alive(i)' = Alive(i) /\ Matched(i)' = Matched(i)
  BY DEF Matched, Engaged, Free, Busy, AsksClient, AsksResume, AsksName, Reports, Alive
<1> QED BY <1>1, <1>2 DEF SocketInv, AllMatched

LEMMA ClientKeeps ==
    ASSUME SocketInv, NEW c \in Clients,
           \/ Dial(c) \/ Listen(c) \/ HangUp(c) \/ Abandoned(c)
           \/ ClientVanishes(c) \/ ClientKilled(c)
    PROVE  SocketInv'
<1>1. CASE Dial(c) \/ Listen(c) \/ HangUp(c) \/ Abandoned(c) \/ ClientVanishes(c)
  <2>1. UNCHANGED <<master, m2s, s2m, sp>>
    BY <1>1 DEF Dial, Listen, HangUp, Abandoned, ClientVanishes, slave
  <2>2. conn' \in [Clients -> Slaves \cup {NoSlave}]
    BY <1>1 DEF Dial, Listen, HangUp, Abandoned, ClientVanishes, SocketInv, Types
  <2> QED BY <2>1, <2>2, SocketsStill DEF master
<1>2. CASE ClientKilled(c)
  <2>0. PICK s \in Slaves : s = conn[c]
    BY <1>2 DEF ClientKilled, SocketInv, Types
  <2>1. /\ sp[s] \in {"session", "resume"} /\ UNCHANGED <<master, m2s>>
        /\ sp'[s] \in {"spin", "dead", "idle"} /\ sp' = [sp EXCEPT ![s] = sp'[s]]
        /\ \/ s2m' = s2m
           \/ sp'[s] = "idle" /\ s2m' = [s2m EXCEPT ![s] = @ \o <<"CRASHED">>]
    BY <1>2, <2>0 DEF ClientKilled, At, Tell, SocketInv, Types
  <2>2. /\ s2m' = [s2m EXCEPT ![s] = s2m'[s]]
        /\ \/ s2m'[s] = s2m[s]
           \/ sp'[s] = "idle" /\ s2m'[s] = s2m[s] \o <<"CRASHED">>
    BY <2>1 DEF SocketInv, Types
  <2>3. conn' \in [Clients -> Slaves \cup {NoSlave}]
    BY <1>2 DEF ClientKilled, SocketInv, Types
  <2>4. Touches(s)
    BY <2>1, <2>2, <2>3 DEF SocketInv, Types, Touches, Places, master
  <2>5. ASSUME dpc # "dead", Matched(s), Alive(s)' PROVE Fits(s)
    <3>1. ~ Engaged(s) /\ busy[s] = 1 /\ m2s[s] = <<>> /\ s2m[s] \in {<<>>, <<"OK">>}
      BY <2>1, <2>5 DEF Matched, Engaged, Reg, Waits, Free, Busy, AsksClient, AsksResume,
                        AsksName, Reports, LastPart
    <3>2. /\ s2m'[s] \in {<<>>, <<"OK">>, <<"CRASHED">>, <<"OK", "CRASHED">>}
          /\ sp'[s] # "idle" => s2m'[s] \in {<<>>, <<"OK">>}
      BY <2>2, <3>1, Told
    <3>3. m2s'[s] = <<>> /\ UNCHANGED <<dpc, id, busy>> /\ sp'[s] \in {"spin", "idle"}
      BY <2>1, <2>5, <3>1 DEF Alive, master
    <3>4. Busy(s)'
      BY <3>2, <3>3 DEF Busy, Over
    <3>5. s2m[s] # <<>> => s2m'[s] # <<>>
      BY <2>2, <3>1, Told
    <3> QED BY <3>1, <3>3, <3>4, <3>5 DEF Fits, Matched, Engaged, Reg, Waits
  <2> QED BY <2>1, <2>4, <2>5, TouchesKeeps
<1> QED BY <1>1, <1>2

-----------------------------------------------------------------------------
(* The steps of the dispatcher.                                            *)

\* Between select() and the next exchange nobody is engaged.
LEMMA ScanningKeeps ==
    ASSUME SocketInv, Select \/ ScanEnds \/ Refuse
    PROVE  SocketInv'
<1>1. /\ UNCHANGED <<id, busy, sp, m2s, s2m, conn>>
      /\ dpc \in {"select", "scan"} /\ dpc' \in {"select", "scan"}
      /\ todo' = todo \/ todo' = {i \in Slaves : Readable(i)}
      /\ dpc' = "scan" => todo' = {i \in Slaves : Readable(i)}
  BY DEF Select, ScanEnds, Refuse, slave, client
<1>2. Types' /\ ScanSound'
  BY <1>1 DEF SocketInv, Types, Stages, ScanSound, Reg, Readable, Alive
<1>3. ASSUME NEW i \in Slaves, Alive(i)' PROVE Matched(i)'
  <2>1. Matched(i) /\ ~ Engaged(i) /\ ~ Engaged(i)'
    BY <1>1, <1>3 DEF SocketInv, AllMatched, Alive, Engaged, Reg, Waits
  <2>2. (busy[i] = 0 /\ Free(i)) \/ (busy[i] = 1 /\ Busy(i))
    BY <2>1 DEF Matched
  <2>3. ((busy[i] = 0 /\ Free(i)) \/ (busy[i] = 1 /\ Busy(i)))'
    BY <1>1, <2>2 DEF Free, Busy
  <2> QED BY <1>1, <2>1, <2>3 DEF Matched, Reg, Waits
<1> QED BY <1>2, <1>3 DEF SocketInv, AllMatched

\* What a write to slave i leaves, unless it finds the slave dead.
LEMMA Sent ==
    ASSUME Types, NEW i \in Slaves, NEW m, NEW next \in Stages, Send(i, m, next)
    PROVE  /\ sp' \in [Slaves -> Places] /\ m2s' = [j \in Slaves |-> m2s'[j]]
           /\ \A j \in Slaves \ {i} : sp'[j] = sp[j] /\ m2s'[j] = m2s[j]
           /\ dpc' \in {next, "dead"} /\ dpc' \in Stages
           /\ Alive(i)' => /\ Alive(i) /\ sp'[i] = sp[i] /\ dpc' = next
                          /\ m2s'[i] = Append(m2s[i], m)
  BY DEF Types, Send, Alive, Places, Stages

\* What a read of slave i leaves.
LEMMA Read ==
    ASSUME Types, NEW i \in Slaves, Taken(i)
    PROVE  /\ s2m' = [j \in Slaves |-> s2m'[j]]
           /\ \A j \in Slaves \ {i} : s2m'[j] = s2m[j]
           /\ s2m[i] # <<>> => s2m'[i] = Tail(s2m[i])
           /\ s2m[i] = <<>> => s2m'[i] = <<>>
  BY DEF Types, Taken

\* A report is received, one part after the other.
LEMMA RegisterKeeps ==
    ASSUME SocketInv, RegIp \/ RegBytes \/ RegName
    PROVE  SocketInv'
<1>1. PICK i \in Slaves : i = id
  BY DEF SocketInv, Types
<1>2. /\ dpc \in Reg /\ Readable(i) /\ Taken(i)
      /\ UNCHANGED <<todo, id, busy, conn>>
      /\ \/ dpc = "reg_ip" /\ Send(i, "OK", "reg_bytes")
         \/ dpc = "reg_bytes" /\ Send(i, "OK", "reg_name")
         \/ dpc = "reg_name" /\ dpc' = "scan" /\ UNCHANGED <<m2s, sp>>
  BY <1>1 DEF RegIp, RegBytes, RegName, Reg, slave, client
<1>3. /\ sp' \in [Slaves -> Places] /\ m2s' = [j \in Slaves |-> m2s'[j]]
      /\ \A j \in Slaves \ {i} : sp'[j] = sp[j] /\ m2s'[j] = m2s[j]
      /\ dpc' \in Stages
      /\ Alive(i)' => Alive(i) /\ sp'[i] = sp[i]
      /\ Alive(i)' =>
            \/ dpc = "reg_ip" /\ dpc' = "reg_bytes" /\ m2s'[i] = Append(m2s[i], "OK")
            \/ dpc = "reg_bytes" /\ dpc' = "reg_name" /\ m2s'[i] = Append(m2s[i], "OK")
            \/ dpc = "reg_name" /\ dpc' = "scan" /\ m2s'[i] = m2s[i]
      /\ dpc' \in Reg \cup {"scan", "dead"}
  <2>1. "reg_bytes" \in Stages /\ "reg_name" \in Stages /\ "scan" \in Stages
    BY DEF Stages, Reg
  <2>2. CASE dpc = "reg_ip" /\ Send(i, "OK", "reg_bytes")
    BY <2>1, <2>2, Sent DEF SocketInv, Reg
  <2>3. CASE dpc = "reg_bytes" /\ Send(i, "OK", "reg_name")
    BY <2>1, <2>3, Sent DEF SocketInv, Reg
  <2>4. CASE dpc = "reg_name" /\ dpc' = "scan" /\ UNCHANGED <<m2s, sp>>
    BY <2>1, <2>4 DEF SocketInv, Types, Alive
  <2> QED BY <1>2, <2>2, <2>3, <2>4
<1>4. /\ s2m' = [j \in Slaves |-> s2m'[j]]
      /\ \A j \in Slaves \ {i} : s2m'[j] = s2m[j]
      /\ s2m[i] # <<>> => s2m'[i] = Tail(s2m[i])
  BY <1>2, Read DEF SocketInv
<1>5. Types'
  BY <1>2, <1>3, <1>4 DEF SocketInv, Types
<1>6. ScanSound'
  <2>1. i \notin todo /\ \A j \in todo : Alive(j) => s2m[j] # <<>>
    BY <1>1, <1>2 DEF SocketInv, ScanSound
  <2>2. \A j \in todo : sp'[j] = sp[j] /\ s2m'[j] = s2m[j]
    BY <1>3, <1>4, <2>1 DEF SocketInv, Types
  <2> QED BY <1>1, <1>2, <2>1, <2>2 DEF ScanSound, Alive
<1>7. Apart(i) /\ \A j \in Slaves \ {i} : ~ Engaged(j) /\ ~ Engaged(j)'
  BY <1>1, <1>2, <1>3, <1>4 DEF Apart, Engaged
<1>8. ASSUME dpc' # "dead", Alive(i)' PROVE Matched(i)'
  <2>1. Matched(i) /\ s2m[i] # <<>> /\ id' = i /\ sp'[i] = sp[i] /\ busy'[i] = busy[i]
    BY <1>1, <1>2, <1>3, <1>8 DEF SocketInv, AllMatched, Reg, Readable
  <2>2. busy[i] = 0 /\ m2s[i] = <<>>
    BY <1>1, <1>2, <2>1 DEF Matched, Reports, Reg
  <2>3. CASE dpc = "reg_ip"
    <3>1. sp[i] = "rep2" /\ One(s2m[i])
      BY <1>1, <2>1, <2>3 DEF Matched, Reports
    <3>2. s2m'[i] = <<>>
      <4>1. s2m'[i] = Tail(s2m[i])
        BY <1>4, <2>1
      <4> QED BY <3>1, <4>1, ReadOff DEF One
    <3>3. m2s'[i] = <<"OK">> /\ dpc' = "reg_bytes"
      BY <1>3, <1>8, <2>2, <2>3, ReadOff
    <3> QED BY <2>1, <2>2, <3>1, <3>2, <3>3 DEF Matched, Engaged, Reg, Waits, Reports
  <2>4. CASE dpc = "reg_bytes"
    <3>1. sp[i] = "rep3" /\ One(s2m[i])
      BY <1>1, <2>1, <2>4 DEF Matched, Reports
    <3>2. s2m'[i] = <<>>
      <4>1. s2m'[i] = Tail(s2m[i])
        BY <1>4, <2>1
      <4> QED BY <3>1, <4>1, ReadOff DEF One
    <3>3. m2s'[i] = <<"OK">> /\ dpc' = "reg_name"
      BY <1>3, <1>8, <2>2, <2>4, ReadOff
    <3> QED BY <2>1, <2>2, <3>1, <3>2, <3>3 DEF Matched, Engaged, Reg, Waits, Reports
  <2>5. CASE dpc = "reg_name"
    <3>1. sp[i] = "idle" /\ LastPart(s2m[i])
      BY <1>1, <2>1, <2>5 DEF Matched, Reports
    <3>2. s2m'[i] \in Fresh
      <4>1. Tail(<<"name">>) = <<>> /\ Tail(<<"name", "CRASHED">>) = <<"CRASHED">>
        BY ReadOff
      <4> QED BY <1>4, <2>1, <3>1, <4>1 DEF LastPart, Fresh
    <3>3. m2s'[i] = <<>> /\ dpc' = "scan"
      BY <1>3, <1>8, <2>2, <2>5
    <3> QED BY <2>1, <2>2, <3>1, <3>2, <3>3 DEF Matched, Engaged, Reg, Waits, Free
  <2> QED BY <1>2, <2>3, <2>4, <2>5 DEF Reg
<1>9. dpc # "dead"
  BY <1>2 DEF Reg
<1> QED BY <1>5, <1>6, <1>7, <1>8, <1>9, OneSlaveMoves

\* A slave answers the dispatcher, which writes to it or gives it up.
LEMMA AnswerKeeps ==
    ASSUME SocketInv, NEW i \in Slaves, i = id, dpc \in Waits,
           UNCHANGED <<todo, id, busy, conn>>, Taken(i) \/ UNCHANGED s2m,
           \/ Send(i, "CRASHED", "wait_ok2") \/ Send(i, "DEFAULT", "select")
           \/ Send(i, "name", "wait_ok3") \/ Send(i, "bytes", "select")
           \/ dpc' = "select" /\ UNCHANGED <<m2s, sp>>,
           dpc' # "dead" /\ Alive(i)' => Matched(i)'
    PROVE  SocketInv'
<1>1. /\ sp' \in [Slaves -> Places] /\ m2s' = [j \in Slaves |-> m2s'[j]]
      /\ \A j \in Slaves \ {i} : sp'[j] = sp[j] /\ m2s'[j] = m2s[j]
      /\ dpc' \in Stages \ ({"scan"} \cup Reg)
  <2>1. ASSUME NEW m, NEW next \in {"select", "wait_ok2", "wait_ok3"}, Send(i, m, next)
        PROVE  /\ sp' \in [Slaves -> Places] /\ m2s' = [j \in Slaves |-> m2s'[j]]
               /\ \A j \in Slaves \ {i} : sp'[j] = sp[j] /\ m2s'[j] = m2s[j]
               /\ dpc' \in Stages \ ({"scan"} \cup Reg)
    <3>1. next \in Stages
      BY <2>1 DEF Stages, Waits
    <3>2. /\ sp' \in [Slaves -> Places] /\ m2s' = [j \in Slaves |-> m2s'[j]]
          /\ \A j \in Slaves \ {i} : sp'[j] = sp[j] /\ m2s'[j] = m2s[j]
          /\ dpc' \in {next, "dead"} /\ dpc' \in Stages
      BY <2>1, <3>1, Sent DEF SocketInv
    <3> QED BY <2>1, <3>2 DEF Reg
  <2>2. CASE dpc' = "select" /\ UNCHANGED <<m2s, sp>>
    BY <2>2 DEF SocketInv, Types, Stages, Reg
  <2> QED BY <2>1, <2>2
<1>2. s2m' = [j \in Slaves |-> s2m'[j]] /\ \A j \in Slaves \ {i} : s2m'[j] = s2m[j]
  BY Read DEF SocketInv, Types
<1>3. Types' /\ ScanSound'
  BY <1>1, <1>2 DEF SocketInv, Types, ScanSound
<1>4. Apart(i) /\ \A j \in Slaves \ {i} : ~ Engaged(j) /\ ~ Engaged(j)'
  BY <1>1, <1>2 DEF Apart, Engaged
<1> QED BY <1>3, <1>4, OneSlaveMoves DEF Waits

\* The answer to the address; it may be the end of the former session.
LEMMA WaitOkKeeps == ASSUME SocketInv, WaitOk PROVE SocketInv'
<1>1. PICK i \in Slaves : i = id
  BY DEF SocketInv, Types
<1>2. /\ dpc = "wait_ok" /\ Readable(i) /\ Taken(i) /\ info' = GotInfo(i, info)
      /\ UNCHANGED <<todo, id, busy, conn>>
      /\ \/ info' = "OK" /\ Send(i, "CRASHED", "wait_ok2")
         \/ info' = "OK" /\ Send(i, "DEFAULT", "select")
         \/ info' # "OK" /\ dpc' = "select" /\ UNCHANGED <<m2s, sp>>
  BY <1>1 DEF WaitOk, slave, client
<1>3. ASSUME Alive(i)' PROVE Matched(i)'
  <2>1. /\ Alive(i) /\ sp'[i] = sp[i] /\ id' = i /\ busy'[i] = busy[i]
        /\ \/ info' = "OK" /\ dpc' = "wait_ok2" /\ m2s'[i] = Append(m2s[i], "CRASHED")
           \/ info' = "OK" /\ dpc' = "select" /\ m2s'[i] = Append(m2s[i], "DEFAULT")
           \/ info' # "OK" /\ dpc' = "select" /\ m2s'[i] = m2s[i]
    <3>1. "wait_ok2" \in Stages /\ "select" \in Stages
      BY DEF Stages, Waits
    <3>2. CASE info' = "OK" /\ Send(i, "CRASHED", "wait_ok2")
      BY <1>1, <1>2, <1>3, <3>1, <3>2, Sent DEF SocketInv
    <3>3. CASE info' = "OK" /\ Send(i, "DEFAULT", "select")
      BY <1>1, <1>2, <1>3, <3>1, <3>3, Sent DEF SocketInv
    <3>4. CASE info' # "OK" /\ dpc' = "select" /\ UNCHANGED <<m2s, sp>>
      BY <1>1, <1>2, <1>3, <3>4 DEF Alive
    <3> QED BY <1>2, <3>2, <3>3, <3>4
  <2>2. /\ AsksClient(i) /\ busy[i] = 1 /\ s2m[i] # <<>>
        /\ s2m'[i] = Tail(s2m[i])
    BY <1>1, <1>2, <2>1, Read DEF SocketInv, AllMatched, Matched, Waits, Readable
  <2>3. info' = IF Head(s2m[i]) \in Infos THEN Head(s2m[i]) ELSE Junk
    BY <1>2, <2>2 DEF GotInfo, Got
  <2>4. CASE s2m[i] = <<"CRASHED">>
    <3>1. info' = "CRASHED" /\ s2m'[i] = <<>>
      BY <2>2, <2>3, <2>4, ReadOff DEF Infos
    <3>2. dpc' = "select" /\ m2s'[i] = m2s[i]
      BY <2>1, <3>1
    <3>3. \/ sp[i] = "idle" /\ One(m2s[i])
          \/ sp[i] = "connect" /\ m2s[i] = <<>>
      BY <2>2, <2>4 DEF AsksClient
    <3> QED BY <2>1, <2>2, <3>1, <3>2, <3>3 DEF Matched, Engaged, Reg, Waits, Busy, One
  <2>5. CASE s2m[i] = <<"CRASHED", "OK">>
    <3>1. Head(s2m[i]) = "CRASHED" /\ Tail(s2m[i]) = <<"OK">>
      BY <2>5, ReadOff
    <3>2. dpc' = "select" /\ m2s'[i] = m2s[i] /\ s2m'[i] = <<"OK">>
      BY <2>1, <2>2, <2>3, <3>1 DEF Infos
    <3>3. sp[i] = "wait_info" /\ m2s[i] = <<>>
      BY <2>2, <2>5 DEF AsksClient, Fresh
    <3> QED BY <2>1, <2>2, <3>2, <3>3 DEF Matched, Engaged, Reg, Waits, Busy
  <2>6. CASE s2m[i] = <<"OK">>
    <3>1. info' = "OK" /\ s2m'[i] = <<>>
      BY <2>2, <2>3, <2>6, ReadOff DEF Infos
    <3>2. sp[i] = "wait_info" /\ m2s[i] = <<>>
      BY <2>2, <2>6 DEF AsksClient, Fresh
    <3>3. \/ dpc' = "wait_ok2" /\ m2s'[i] = <<"CRASHED">>
          \/ dpc' = "select" /\ m2s'[i] = <<"DEFAULT">>
      BY <2>1, <3>1, <3>2, ReadOff
    <3> QED BY <2>1, <2>2, <3>1, <3>2, <3>3 DEF Matched, Engaged, Reg, Waits, Busy, AsksResume
  <2> QED BY <2>2, <2>4, <2>5, <2>6 DEF AsksClient, Fresh
<1> QED BY <1>1, <1>2, <1>3, AnswerKeeps DEF Waits

\* The answers to CRASHED and to the name.
LEMMA WaitOk2Keeps == ASSUME SocketInv, WaitOk2 PROVE SocketInv'
<1>1. PICK i \in Slaves : i = id
  BY DEF SocketInv, Types
<1>2. /\ dpc = "wait_ok2" /\ Readable(i) /\ Taken(i) /\ info' = GotInfo(i, info)
      /\ UNCHANGED <<todo, id, busy, conn>>
      /\ \/ Send(i, "name", "wait_ok3")
         \/ info' # "OK" /\ dpc' = "select" /\ UNCHANGED <<m2s, sp>>
  BY <1>1 DEF WaitOk2, slave, client
<1>3. ASSUME Alive(i)' PROVE Matched(i)'
  <2>1. Alive(i)
    BY <1>2, <1>3 DEF Alive, Send, SocketInv, Types
  <2>2. /\ AsksResume(i) /\ busy[i] = 1 /\ s2m[i] # <<>>
        /\ s2m'[i] = Tail(s2m[i])
    BY <1>1, <1>2, <2>1, Read DEF SocketInv, AllMatched, Matched, Waits, Readable
  <2>3. sp[i] = "rcv_name" /\ m2s[i] = <<>> /\ s2m[i] = <<"OK">>
    BY <2>2 DEF AsksResume
  <2>4. info' = "OK" /\ s2m'[i] = <<>>
    BY <1>2, <2>2, <2>3, ReadOff DEF GotInfo, Got, Infos
  <2>5. "wait_ok3" \in Stages
    BY DEF Stages, Waits
  <2>6. dpc' = "wait_ok3" /\ sp'[i] = sp[i] /\ m2s'[i] = <<"name">>
    BY <1>2, <1>3, <2>3, <2>4, <2>5, Sent, ReadOff DEF SocketInv
  <2> QED BY <1>1, <1>2, <2>2, <2>3, <2>4, <2>6, ReadOff
          DEF Matched, Engaged, Reg, Waits, AsksName, One
<1> QED BY <1>1, <1>2, <1>3, AnswerKeeps DEF Waits

LEMMA WaitOk3Keeps == ASSUME SocketInv, WaitOk3 PROVE SocketInv'
<1>1. PICK i \in Slaves : i = id
  BY DEF SocketInv, Types
<1>2. /\ dpc = "wait_ok3" /\ Readable(i) /\ Taken(i)
      /\ UNCHANGED <<todo, id, busy, conn>>
      /\ \/ Send(i, "bytes", "select")
         \/ /\ GotInfo(i, "OK") # "OK" \/ GotInfo(i, Junk) # "OK"
            /\ dpc' = "select" /\ UNCHANGED <<m2s, sp>>
  BY <1>1 DEF WaitOk3, slave, client
<1>3. ASSUME Alive(i)' PROVE Matched(i)'
  <2>1. Alive(i)
    BY <1>2, <1>3 DEF Alive, Send, SocketInv, Types
  <2>2. /\ AsksName(i) /\ busy[i] = 1 /\ s2m[i] # <<>>
        /\ s2m'[i] = Tail(s2m[i])
    BY <1>1, <1>2, <2>1, Read DEF SocketInv, AllMatched, Matched, Waits, Readable
  <2>3. sp[i] = "rcv_bytes" /\ m2s[i] = <<>> /\ s2m[i] = <<"OK">>
    BY <2>2 DEF AsksName
  <2>4. GotInfo(i, "OK") = "OK" /\ GotInfo(i, Junk) = "OK" /\ s2m'[i] = <<>>
    BY <2>2, <2>3, ReadOff DEF GotInfo, Got, Infos
  <2>5. "select" \in Stages
    BY DEF Stages
  <2>6. dpc' = "select" /\ sp'[i] = sp[i] /\ m2s'[i] = <<"bytes">>
    BY <1>2, <1>3, <2>3, <2>4, <2>5, Sent, ReadOff DEF SocketInv
  <2> QED BY <1>1, <1>2, <2>2, <2>3, <2>4, <2>6, ReadOff
          DEF Matched, Engaged, Reg, Waits, Busy, One
<1> QED BY <1>1, <1>2, <1>3, AnswerKeeps DEF Waits

LEMMA WaitTimeoutKeeps == ASSUME SocketInv, WaitTimeout PROVE SocketInv'
<1>1. PICK i \in Slaves : i = id
  BY DEF SocketInv, Types
<1>2. /\ dpc = "wait_ok" /\ sp[i] = "connect" /\ s2m[i] = <<>> /\ dpc' = "select"
      /\ UNCHANGED <<todo, id, busy, conn, m2s, s2m, sp>>
  BY <1>1 DEF WaitTimeout, Silent, slave, client
<1>3. AsksClient(i) /\ busy[i] = 1
  BY <1>1, <1>2 DEF SocketInv, AllMatched, Matched, Waits, Alive
<1>4. Matched(i)'
  BY <1>1, <1>2, <1>3 DEF AsksClient, Matched, Engaged, Reg, Waits, Busy
<1> QED BY <1>1, <1>2, <1>4, AnswerKeeps DEF Waits

\* The first slave that is not busy is given the address.
LEMMA DispatchKeeps == ASSUME SocketInv, Dispatch PROVE SocketInv'
<1>1. slave_not_busy \in Slaves /\ busy[slave_not_busy] = 0
  BY FirstNotBusy, MasterAssumption DEF Dispatch, SocketInv, Types
<1>2. PICK i \in Slaves : i = slave_not_busy
  BY <1>1
<1>3. PICK c : c = Head(tube)
  OBVIOUS
<1>4. /\ dpc = "scan" /\ id' = i /\ busy' = [busy EXCEPT ![i] = 1]
      /\ Send(i, c, "wait_ok") /\ UNCHANGED <<todo, s2m, conn>>
  BY <1>2, <1>3 DEF Dispatch, client
<1>5. "wait_ok" \in Stages
  BY DEF Stages, Waits
<1>6. /\ sp' \in [Slaves -> Places] /\ m2s' = [j \in Slaves |-> m2s'[j]]
      /\ \A j \in Slaves \ {i} : sp'[j] = sp[j] /\ m2s'[j] = m2s[j]
      /\ dpc' \in {"wait_ok", "dead"} /\ dpc' \in Stages
      /\ Alive(i)' => /\ Alive(i) /\ sp'[i] = sp[i] /\ dpc' = "wait_ok"
                     /\ m2s'[i] = Append(m2s[i], c)
  BY <1>4, <1>5, Sent DEF SocketInv
<1>7. /\ busy' \in [Slaves -> {0, 1}] /\ busy'[i] = 1
      /\ \A j \in Slaves \ {i} : busy'[j] = busy[j]
  BY <1>4 DEF SocketInv, Types
<1>8. Types' /\ ScanSound'
  BY <1>4, <1>6, <1>7 DEF SocketInv, Types, ScanSound, Reg
<1>9. Apart(i) /\ \A j \in Slaves \ {i} : ~ Engaged(j) /\ ~ Engaged(j)'
  BY <1>4, <1>6, <1>7 DEF Apart, Engaged, Reg, Waits
<1>10. ASSUME Alive(i)' PROVE Matched(i)'
  <2>1. busy[i] = 0 /\ Matched(i) /\ ~ Engaged(i)
    BY <1>1, <1>2, <1>4, <1>6, <1>10 DEF SocketInv, AllMatched, Engaged, Reg, Waits
  <2>2. sp[i] = "idle" /\ m2s[i] = <<>> /\ s2m[i] \in Fresh
    BY <2>1 DEF Matched, Free
  <2>3. m2s'[i] = <<c>> /\ One(m2s'[i]) /\ dpc' = "wait_ok" /\ sp'[i] = "idle" /\ s2m'[i] = s2m[i]
    BY <1>4, <1>6, <1>10, <2>2, ReadOff DEF One
  <2>4. AsksClient(i)'
    BY <2>2, <2>3 DEF AsksClient
  <2> QED BY <1>4, <1>7, <2>3, <2>4 DEF Matched, Engaged, Reg, Waits
<1> QED BY <1>4, <1>8, <1>9, <1>10, OneSlaveMoves

\* A readable slave is read.
LEMMA ScanKeeps == ASSUME SocketInv, Scan PROVE SocketInv'
<1>1. (CHOOSE j \in todo : \A k \in todo : j <= k) \in todo
  BY FirstToScan DEF Scan, SocketInv, Types
<1>2. PICK i \in todo : i = CHOOSE j \in todo : \A k \in todo : j <= k
  BY <1>1
<1>3. PICK got : got = GotInfo(i, info)
  OBVIOUS
<1>4. /\ dpc = "scan" /\ Taken(i) /\ todo' = todo \ {i} /\ id' = i
      /\ busy' = IF got \in Releases THEN [busy EXCEPT ![i] = 0] ELSE busy
      /\ \/ got = "DURING" /\ Send(i, "OK", "reg_ip")
         \/ got # "DURING" /\ UNCHANGED <<dpc, m2s, sp>>
      /\ UNCHANGED conn
  BY <1>2, <1>3 DEF Scan, client
<1>5. i \in Slaves /\ (Alive(i) => s2m[i] # <<>> /\ Matched(i) /\ ~ Engaged(i))
  BY <1>4 DEF SocketInv, Types, ScanSound, AllMatched, Engaged, Reg, Waits
<1>6. /\ sp' \in [Slaves -> Places] /\ m2s' = [j \in Slaves |-> m2s'[j]]
      /\ \A j \in Slaves \ {i} : sp'[j] = sp[j] /\ m2s'[j] = m2s[j]
      /\ dpc' \in {"scan", "reg_ip", "dead"}
      /\ Alive(i)' => /\ Alive(i) /\ sp'[i] = sp[i]
                     /\ \/ got = "DURING" /\ dpc' = "reg_ip" /\ m2s'[i] = Append(m2s[i], "OK")
                        \/ got # "DURING" /\ dpc' = "scan" /\ m2s'[i] = m2s[i]
  <2>1. "reg_ip" \in Stages
    BY DEF Stages, Reg
  <2>2. CASE got = "DURING" /\ Send(i, "OK", "reg_ip")
    BY <1>5, <2>1, <2>2, Sent DEF SocketInv
  <2>3. CASE got # "DURING" /\ UNCHANGED <<dpc, m2s, sp>>
    BY <1>4, <2>3 DEF SocketInv, Types, Alive
  <2> QED BY <1>4, <2>2, <2>3
<1>7. /\ s2m' = [j \in Slaves |-> s2m'[j]]
      /\ \A j \in Slaves \ {i} : s2m'[j] = s2m[j]
      /\ s2m[i] # <<>> => s2m'[i] = Tail(s2m[i])
  BY <1>4, <1>5, Read DEF SocketInv
<1>8. /\ busy' \in [Slaves -> {0, 1}]
      /\ busy'[i] = IF got \in Releases THEN 0 ELSE busy[i]
      /\ \A j \in Slaves \ {i} : busy'[j] = busy[j]
  BY <1>4, <1>5 DEF SocketInv, Types
<1>9. Types'
  BY <1>4, <1>5, <1>6, <1>7, <1>8 DEF SocketInv, Types, Stages, Reg
<1>10. ScanSound'
  <2>1. \A j \in todo \ {i} : j \in Slaves \ {i} /\ (Alive(j) => s2m[j] # <<>>)
    BY <1>4 DEF SocketInv, Types, ScanSound
  <2>2. \A j \in todo \ {i} : Alive(j)' => s2m'[j] # <<>>
    BY <1>6, <1>7, <2>1 DEF Alive
  <2> QED BY <1>4, <2>2 DEF ScanSound
<1>11. Apart(i) /\ \A j \in Slaves \ {i} : ~ Engaged(j) /\ ~ Engaged(j)'
  BY <1>4, <1>6, <1>7, <1>8 DEF Apart, Engaged, Reg, Waits
<1>12. ASSUME Alive(i)' PROVE Matched(i)'
  <2>1. /\ (busy[i] = 0 /\ Free(i)) \/ (busy[i] = 1 /\ Busy(i))
        /\ s2m[i] # <<>> /\ s2m'[i] = Tail(s2m[i]) /\ sp'[i] = sp[i]
    BY <1>5, <1>6, <1>7, <1>12 DEF Matched
  <2>2. got = IF Head(s2m[i]) \in Infos THEN Head(s2m[i]) ELSE Junk
    BY <1>3, <2>1 DEF GotInfo, Got
  <2>3. CASE sp[i] = "rep1"
    <3>1. busy[i] = 1 /\ m2s[i] = <<>> /\ s2m[i] \in {<<"DURING">>, <<"OK", "DURING">>}
      BY <2>1, <2>3 DEF Free, Busy
    <3>2. CASE s2m[i] = <<"DURING">>
      <4>1. got = "DURING" /\ s2m'[i] = <<>>
        BY <2>1, <2>2, <3>2, ReadOff DEF Infos
      <4>2. busy'[i] = 0 /\ dpc' = "reg_ip" /\ m2s'[i] = <<"OK">>
        BY <1>6, <1>8, <1>12, <3>1, <4>1, ReadOff DEF Releases
      <4> QED BY <1>4, <2>1, <2>3, <4>1, <4>2 DEF Matched, Engaged, Reg, Waits, Reports
    <3>3. CASE s2m[i] = <<"OK", "DURING">>
      <4>1. Head(s2m[i]) = "OK" /\ Tail(s2m[i]) = <<"DURING">>
        BY <3>3, ReadOff
      <4>2. got = "OK" /\ s2m'[i] = <<"DURING">>
        BY <2>1, <2>2, <4>1 DEF Infos
      <4>3. busy'[i] = 1 /\ dpc' = "scan" /\ m2s'[i] = <<>>
        BY <1>6, <1>8, <1>12, <3>1, <4>2 DEF Releases
      <4> QED BY <1>4, <2>1, <2>3, <4>2, <4>3 DEF Matched, Engaged, Reg, Waits, Busy
    <3> QED BY <3>1, <3>2, <3>3
  <2>4. CASE sp[i] # "rep1" /\ s2m[i] = <<"OK">>
    <3>1. /\ busy[i] = 1 /\ m2s[i] = <<>>
          /\ sp[i] \in {"idle", "wait_info", "resume", "session", "spin"}
      BY <2>1, <2>4 DEF Free, Fresh, Busy
    <3>2. got = "OK" /\ s2m'[i] = <<>>
      BY <2>1, <2>2, <2>4, ReadOff DEF Infos
    <3>3. busy'[i] = 1 /\ dpc' = "scan" /\ m2s'[i] = <<>>
      BY <1>6, <1>8, <1>12, <3>1, <3>2 DEF Releases
    <3> QED BY <1>4, <2>1, <3>1, <3>2, <3>3 DEF Matched, Engaged, Reg, Waits, Busy, Over
  <2>5. CASE sp[i] # "rep1" /\ s2m[i] # <<"OK">>
    <3>1. sp[i] = "idle" /\ m2s[i] = <<>> /\ s2m[i] \in Over \ {<<>>, <<"OK">>}
      BY <2>1, <2>5 DEF Free, Fresh, Busy, Over
    <3>2. \/ got = "OK" /\ busy[i] = 1 /\ s2m'[i] \in Over
          \/ got \in {"FINISHED", "CRASHED"} /\ s2m'[i] \in Fresh
      <4>1. CASE s2m[i] \in {<<"FINISHED">>, <<"CRASHED">>}
        BY <2>1, <2>2, <4>1, ReadOff DEF Infos, Fresh
      <4>2. CASE s2m[i] = <<"CRASHED", "CRASHED">>
        <5>1. Head(s2m[i]) = "CRASHED" /\ Tail(s2m[i]) = <<"CRASHED">>
          BY <4>2, ReadOff
        <5> QED BY <2>1, <2>2, <5>1 DEF Infos, Fresh
      <4>3. CASE s2m[i] \in { <<"OK", "FINISHED">>, <<"OK", "CRASHED">>,
                              <<"OK", "CRASHED", "CRASHED">> }
        <5>1. /\ Head(s2m[i]) = "OK"
              /\ Tail(s2m[i]) \in {<<"FINISHED">>, <<"CRASHED">>, <<"CRASHED", "CRASHED">>}
          <6>1. CASE s2m[i] = <<"OK", "FINISHED">>
            BY <6>1, ReadOff
          <6>2. CASE s2m[i] = <<"OK", "CRASHED">>
            BY <6>2, ReadOff
          <6>3. CASE s2m[i] = <<"OK", "CRASHED", "CRASHED">>
            BY <6>3, ReadOff
          <6> QED BY <4>3, <6>1, <6>2, <6>3
        <5>2. busy[i] = 1
          BY <2>1, <4>3 DEF Free, Fresh
        <5> QED BY <2>1, <2>2, <5>1, <5>2 DEF Infos, Over
      <4> QED BY <3>1, <4>1, <4>2, <4>3 DEF Over
    <3>3. dpc' = "scan" /\ m2s'[i] = <<>>
      BY <1>6, <1>12, <3>1, <3>2
    <3>4. CASE got = "OK" /\ busy[i] = 1 /\ s2m'[i] \in Over
      <4>1. busy'[i] = 1
        BY <1>8, <3>4 DEF Releases
      <4> QED BY <1>4, <2>1, <3>1, <3>3, <3>4, <4>1 DEF Matched, Engaged, Reg, Waits, Busy
    <3>5. CASE got \in {"FINISHED", "CRASHED"} /\ s2m'[i] \in Fresh
      <4>1. busy'[i] = 0
        BY <1>8, <3>5 DEF Releases
      <4> QED BY <1>4, <2>1, <3>1, <3>3, <3>5, <4>1 DEF Matched, Engaged, Reg, Waits, Free
    <3> QED BY <3>2, <3>4, <3>5
  <2> QED BY <2>3, <2>4, <2>5
<1> QED BY <1>4, <1>5, <1>9, <1>10, <1>11, <1>12, OneSlaveMoves

-----------------------------------------------------------------------------
(* The invariant, and what it says of busy[].                              *)

LEMMA SocketInvStep == SocketInv /\ [Next]_vars => SocketInv'
<1> SUFFICES ASSUME SocketInv, [Next]_vars PROVE SocketInv'
  OBVIOUS
<1>1. CASE UNCHANGED vars
  <2>1. /\ UNCHANGED <<dpc, todo, id, busy, sp, m2s, s2m>>
        /\ conn' \in [Clients -> Slaves \cup {NoSlave}]
    BY <1>1 DEF vars, master, slave, client, SocketInv, Types
  <2> QED BY <2>1, SocketsStill
<1>2. CASE DispatcherStep
  BY <1>2, ScanningKeeps, ScanKeeps, RegisterKeeps, DispatchKeeps, WaitOkKeeps, WaitOk2Keeps,
     WaitOk3Keeps, WaitTimeoutKeeps DEF DispatcherStep
<1>3. CASE \E s \in Slaves : \/ SlaveStep(s) \/ TransferCut(s) \/ SlaveDies(s)
                            \/ MasterGone(s)
  BY <1>3, SlaveKeeps
<1>4. CASE \E c \in Clients : \/ Dial(c) \/ Listen(c) \/ HangUp(c) \/ Abandoned(c)
                             \/ ClientVanishes(c) \/ ClientKilled(c)
  BY <1>4, ClientKeeps
<1> QED BY <1>1, <1>2, <1>3, <1>4 DEF Next

LEMMA SocketInvImplies == SocketInv => FreeSlaveHasNoClient
<1> SUFFICES ASSUME SocketInv, dpc = "select", NEW i \in Slaves, busy[i] = 0, Alive(i)
             PROVE  sp[i] = "idle" /\ m2s[i] = <<>>
  BY DEF FreeSlaveHasNoClient
<1>1. Matched(i) /\ ~ Engaged(i)
  BY DEF SocketInv, AllMatched, Engaged, Reg, Waits
<1> QED BY <1>1 DEF Matched, Free

\* Whatever fails: when the dispatcher is back in select, a slave it holds for
\* free is waiting for a client and has none on the way (master.c:276-283).
THEOREM FreeSlaveIsFree == Spec => []FreeSlaveHasNoClient
<1>1. Init => SocketInv
  BY SocketInvInit
<1>2. SocketInv /\ [Next]_vars => SocketInv'
  BY SocketInvStep
<1>3. SocketInv => FreeSlaveHasNoClient
  BY SocketInvImplies
<1> QED BY <1>1, <1>2, <1>3, PTL DEF Spec
============================================================================
